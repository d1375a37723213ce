--------------------------- MODULE ControlProofs ---------------------------
(***************************************************************************)
(* Proofs about Control: its types, the correlation of requests on a       *)
(* shared read loop for any number of callers and requests, and what a     *)
(* session's existence says about its servant.                             *)
(***************************************************************************)
EXTENDS Control, TLAPS

-----------------------------------------------------------------------------
(* Types.                                                                   *)

\* What the harness writes are envelopes (control.go:188-206).
LEMMA EnvelopesTyped ==
  /\ Ours("ack") \in Envelope /\ Ours("unsupported") \in Envelope /\ NoEnvelope \in Envelope
  /\ \A t \in Callers, i \in Nat : Asked(t, i) \in Envelope
BY DEF Ours, NoEnvelope, Asked, Envelope

\* Setting a call to return keeps it a call.
LEMMA ReturningTyped ==
  ASSUME TypeOK, NEW t \in Callers, NEW r \in {"none", "resp", "err"}
  PROVE  Returning(t, r) \in [Callers -> Call]
<1>1. [req[t] EXCEPT !.pc = "return", !.result = r] \in Call
  BY DEF TypeOK, Call
<1> QED BY <1>1 DEF TypeOK, Returning

\* closePending leaves calls (control.go:259-268).
LEMMA ClosePendingTyped ==
  ASSUME TypeOK, closePending
  PROVE  host' \in Stage /\ pending' \subseteq Nat /\ req' \in [Callers -> Call]
<1>1. \A t \in Callers : [req[t] EXCEPT !.sink = "closed"] \in Call
  BY DEF TypeOK, Call
<1> QED BY <1>1 DEF closePending, TypeOK, Stage

\* A channel starts well-typed.
LEMMA InitTyped == Init => TypeOK
<1> SUFFICES ASSUME Init PROVE TypeOK
  OBVIOUS
<1>1. hello \in Hello(Nat)
  BY DEF Init, Hello, NoHello
<1>2. req \in [Callers -> Call]
  BY EnvelopesTyped DEF Init, Call
<1>3. down \in Seq(Envelope)
  BY DEF Init
<1> QED BY <1>1, <1>2, <1>3, EnvelopesTyped DEF Init, TypeOK, Stage

\* Every step of the channel keeps the types, one case per action.
LEMMA NextTyped == TypeOK /\ [Next]_vars => TypeOK'
<1> SUFFICES ASSUME TypeOK, [Next]_vars PROVE TypeOK'
  OBVIOUS
<1> USE EnvelopesTyped DEF handshake, channel, corr
<1>1. CASE ServantGoroutine
  <2>1. ASSUME NEW h \in Hello(Versions), AwaitServant(h) PROVE TypeOK'
    <3>1. h \in Hello(Nat) /\ h.min \in Nat /\ h.max \in Nat
      BY ControlConstants DEF Hello
    <3>2. Candidate(h.min, h.max) \in Nat
      BY <3>1, ControlConstants DEF Candidate, Least
    <3>3. Verdict(h) \in Stage
      BY DEF Verdict, Stage
    <3>4. version' \in Nat /\ peer' \in {"absent", "open", "gone"}
      BY <2>1, <3>2 DEF AwaitServant, TypeOK
    <3> QED BY <2>1, <3>1, <3>3, <3>4 DEF AwaitServant, TypeOK
  <2>2. CASE GiveUp
    BY <2>2 DEF GiveUp, TypeOK, Stage
  <2>3. CASE Install
    BY <2>3 DEF Install, TypeOK, Stage
  <2>4. CASE Ack
    <3>1. host' \in Stage /\ peer' \in {"absent", "open", "gone"}
      BY <2>4 DEF Ack, TypeOK, Stage
    <3>2. down' \in Seq(Envelope)
      BY <2>4 DEF Ack, TypeOK
    <3> QED BY <2>4, <3>1, <3>2 DEF Ack, TypeOK
  <2>5. ASSUME NEW e \in up, ServeResponse(e) PROVE TypeOK'
    <3>1. e \in Envelope
      BY DEF TypeOK
    <3>2. pending' \subseteq Nat /\ up' \subseteq Envelope
      BY <2>5 DEF ServeResponse, TypeOK
    <3>3. [pc |-> "deliver", env |-> e] \in [pc : {"read", "deliver"}, env : Envelope]
      BY <3>1
    <3>4. serve' \in [pc : {"read", "deliver"}, env : Envelope]
      BY <2>5, <3>3 DEF ServeResponse, TypeOK
    <3> QED BY <2>5, <3>2, <3>4 DEF ServeResponse, TypeOK
  <2>6. CASE Deliver
    <3>1. \A t \in Callers : [req[t] EXCEPT !.sink = "full", !.box = serve.env] \in Call
      BY DEF TypeOK, Call
    <3>2. req' \in [Callers -> Call]
      BY <2>6, <3>1 DEF Deliver, TypeOK
    <3> QED BY <2>6, <3>2 DEF Deliver, TypeOK
  <2>7. CASE RefuseUnknown
    <3>1. down' \in Seq(Envelope)
      BY <2>7 DEF RefuseUnknown, TypeOK
    <3>2. host' \in Stage /\ pending' \subseteq Nat /\ req' \in [Callers -> Call]
      BY <2>7, ClosePendingTyped DEF RefuseUnknown, TypeOK
    <3> QED BY <2>7, <3>1, <3>2 DEF RefuseUnknown, TypeOK
  <2>8. CASE ServeEOF
    BY <2>8, ClosePendingTyped DEF ServeEOF, TypeOK
  <2>9. CASE ServeBadLine
    BY <2>9, ClosePendingTyped DEF ServeBadLine, TypeOK
  <2>10. CASE Close
    BY <2>10 DEF Close, TypeOK, Stage
  <2> QED BY <1>1, <2>1, <2>2, <2>3, <2>4, <2>5, <2>6, <2>7, <2>8, <2>9, <2>10
          DEF ServantGoroutine
<1>2. ASSUME NEW t \in Callers, Request(t) PROVE TypeOK'
  <2>1. CASE RequestRegister(t)
    <3>1. req' \in [Callers -> Call]
      BY <2>1 DEF RequestRegister, TypeOK, Call
    <3> QED BY <2>1, <3>1 DEF RequestRegister, TypeOK
  <2>2. CASE RequestSend(t)
    <3>1. Returning(t, "err") \in [Callers -> Call]
      BY ReturningTyped
    <3>2. [req EXCEPT ![t].pc = "wait"] \in [Callers -> Call]
      BY DEF TypeOK, Call
    <3>3. Asked(t, req[t].id) \in Envelope
      BY DEF TypeOK, Call
    <3>4. req' \in [Callers -> Call]
      BY <2>2, <3>1, <3>2 DEF RequestSend
    <3>5. down' \in Seq(Envelope)
      <4>1. Append(down, Asked(t, req[t].id)) \in Seq(Envelope)
        BY <3>3 DEF TypeOK
      <4> QED BY <2>2, <4>1 DEF RequestSend, TypeOK
    <3> QED BY <2>2, <3>4, <3>5 DEF RequestSend, TypeOK
  <2>3. CASE RequestReceive(t)
    <3>1. Returning(t, "err") \in [Callers -> Call]
      BY ReturningTyped
    <3>2. Returning(t, "resp") \in [Callers -> Call]
      BY ReturningTyped
    <3>3. req' \in [Callers -> Call]
      BY <2>3, <3>1, <3>2 DEF RequestReceive
    <3> QED BY <2>3, <3>3 DEF RequestReceive, TypeOK
  <2>4. CASE RequestCancelled(t)
    <3>1. Returning(t, "err") \in [Callers -> Call]
      BY ReturningTyped
    <3> QED BY <2>4, <3>1 DEF RequestCancelled, TypeOK
  <2>5. CASE RequestReturn(t)
    <3>1. req' \in [Callers -> Call]
      BY <2>5 DEF RequestReturn, TypeOK, Call
    <3> QED BY <2>5, <3>1 DEF RequestReturn, TypeOK
  <2> QED BY <1>2, <2>1, <2>2, <2>3, <2>4, <2>5 DEF Request
<1>3. ASSUME NEW k \in DOMAIN down, ServantAnswers(k) PROVE TypeOK'
  <2>1. down[k] \in Envelope
    BY DEF TypeOK
  <2> QED BY <1>3, <2>1 DEF ServantAnswers, TypeOK
<1>4. CASE ServantGoes
  BY <1>4 DEF ServantGoes, TypeOK
<1>5. CASE Cancel
  BY <1>5 DEF Cancel, TypeOK
<1>6. CASE UNCHANGED vars
  BY <1>6 DEF vars, TypeOK
<1> QED BY <1>1, <1>2, <1>3, <1>4, <1>5, <1>6 DEF Next

\* The session's state keeps its types (control.go:82-97).
THEOREM TypeCorrect == Spec => []TypeOK
BY InitTyped, NextTyped, PTL DEF Spec

-----------------------------------------------------------------------------
(* Correlation.  The inductive invariant follows an id from the counter to *)
(* the channel, the read loop and the sink.                                *)

\* A request envelope carries an id that was handed out, and no call other than the
\* one that sent it has that id now.
Traced(e) ==
  e.type = "request" =>
    /\ e.id \in 1 .. nextID
    /\ \A u \in Callers : req[u].id = e.id => u = e.by

WireTraced ==
  /\ \A k \in DOMAIN down : Traced(down[k])
  /\ \A e \in up : e.type = "request" /\ Traced(e)

\* The envelope deliver holds has left pending, and its sink is still open.
HandTraced ==
  serve.pc = "deliver" =>
    /\ serve.env.type = "request" /\ Traced(serve.env)
    /\ serve.env.id \notin pending
    /\ \A t \in Callers : req[t].id = serve.env.id => req[t].sink = "open"

IdsOwn ==
  /\ pending \subseteq 1 .. nextID
  /\ \A t \in Callers :
       /\ req[t].id <= nextID
       /\ req[t].pc # "idle" => req[t].id # 0
       /\ \A u \in Callers : req[u].id = req[t].id /\ req[t].id # 0 => u = t

PendingOpen == \A t \in Callers : req[t].id \in pending => req[t].sink = "open"

BoxesOwn ==
  \A t \in Callers :
    req[t].sink = "full" \/ req[t].result = "resp" => req[t].box = Asked(t, req[t].id)

Correlation == WireTraced /\ HandTraced /\ IdsOwn /\ PendingOpen /\ BoxesOwn

\* Before the first request there is nothing to confuse.
LEMMA InitCorrelated == Init => Correlation
BY DEF Init, Correlation, WireTraced, HandTraced, IdsOwn, PendingOpen, BoxesOwn

\* Steps that change the phase and the result of one call only.
LEMMA PhaseCorrelated ==
  ASSUME TypeOK, Correlation, NEW t \in Callers,
         NEW p \in {"wait", "return", "idle"}, NEW r \in {"none", "resp", "err"},
         req[t].pc # "idle",
         req' = [req EXCEPT ![t] = [req[t] EXCEPT !.pc = p, !.result = r]],
         r = "resp" => req[t].sink = "full" \/ req[t].result = "resp",
         UNCHANGED <<down, up, nextID, serve>>, pending' \subseteq pending
  PROVE  Correlation'
<1>1. \A u \in Callers : /\ req'[u].id = req[u].id /\ req'[u].sink = req[u].sink
                         /\ req'[u].box = req[u].box
                         /\ req'[u].result = "resp" =>
                              req[u].sink = "full" \/ req[u].result = "resp"
                         /\ req'[u].pc # "idle" => req[u].pc # "idle"
  BY DEF TypeOK, Call
<1>2. \A e : Traced(e) => Traced(e)'
  BY <1>1 DEF Traced
<1>3. WireTraced'
  BY <1>2 DEF Correlation, WireTraced, Traced
<1>4. HandTraced'
  BY <1>1, <1>2 DEF Correlation, HandTraced
<1>5. IdsOwn'
  BY <1>1 DEF Correlation, IdsOwn
<1>6. PendingOpen'
  BY <1>1 DEF Correlation, PendingOpen
<1>7. BoxesOwn'
  BY <1>1 DEF Correlation, BoxesOwn
<1> QED BY <1>3, <1>4, <1>5, <1>6, <1>7 DEF Correlation

\* What the harness writes of itself, the ack and a refusal, is no request.
LEMMA OursTraced ==
  ASSUME TypeOK, Correlation, NEW typ \in {"ack", "unsupported"},
         \A e : Traced(e) => Traced(e)',
         down' = down \/ down' = Append(down, Ours(typ))
  PROVE  (\A k \in DOMAIN down : Traced(down[k]))'
<1>1. \A k \in DOMAIN down' : down'[k] = Ours(typ) \/ (k \in DOMAIN down /\ down'[k] = down[k])
  BY DEF TypeOK
<1>2. Traced(Ours(typ))'
  BY DEF Traced, Ours
<1> QED BY <1>1, <1>2 DEF Correlation, WireTraced

\* closePending closes sinks nobody has filled (control.go:259-268).
LEMMA ClosePendingCorrelated ==
  ASSUME TypeOK, Correlation, closePending, serve.pc = "read",
         UNCHANGED <<up, nextID, serve>>,
         down' = down \/ down' = Append(down, Ours("unsupported"))
  PROVE  Correlation'
<1>1. \A u \in Callers : /\ req'[u].id = req[u].id /\ req'[u].pc = req[u].pc
                         /\ req'[u].box = req[u].box /\ req'[u].result = req[u].result
                         /\ req'[u].sink = "full" => req[u].sink = "full"
  BY DEF closePending, TypeOK, Call
<1>2. \A e : Traced(e) => Traced(e)'
  BY <1>1 DEF Traced
<1>3. (\A k \in DOMAIN down : Traced(down[k]))'
  BY <1>2, OursTraced
<1>4. WireTraced'
  BY <1>2, <1>3 DEF Correlation, WireTraced
<1>5. IdsOwn'
  BY <1>1 DEF Correlation, IdsOwn, closePending
<1>6. BoxesOwn'
  BY <1>1 DEF Correlation, BoxesOwn
<1>7. HandTraced' /\ PendingOpen'
  BY DEF HandTraced, PendingOpen, closePending
<1> QED BY <1>4, <1>5, <1>6, <1>7 DEF Correlation

\* Every step of the read loop, a caller or the servant keeps the correlation.
LEMMA NextCorrelated == TypeOK /\ Correlation /\ [Next]_vars => Correlation'
<1> SUFFICES ASSUME TypeOK, Correlation, [Next]_vars PROVE Correlation'
  OBVIOUS
<1> USE DEF handshake, channel, corr
<1>0. ASSUME UNCHANGED <<down, up, corr, serve, req>> PROVE Correlation'
  BY <1>0 DEF Correlation, WireTraced, HandTraced, IdsOwn, PendingOpen, BoxesOwn, Traced
<1>1. CASE ServantGoroutine
  <2>1. ASSUME NEW h \in Hello(Versions), AwaitServant(h) PROVE Correlation'
    BY <2>1, <1>0 DEF AwaitServant
  <2>2. CASE GiveUp \/ Install \/ Close
    BY <2>2, <1>0 DEF GiveUp, Install, Close
  <2>3. CASE Ack
    <3>1. UNCHANGED <<up, corr, serve, req>>
      BY <2>3 DEF Ack
    <3>2. \A e : Traced(e) => Traced(e)'
      BY <3>1 DEF Traced
    <3>3. (\A k \in DOMAIN down : Traced(down[k]))'
      BY <2>3, <3>2, OursTraced DEF Ack
    <3>4. WireTraced'
      BY <3>1, <3>2, <3>3 DEF Correlation, WireTraced
    <3> QED BY <3>1, <3>2, <3>4 DEF Correlation, HandTraced, IdsOwn, PendingOpen, BoxesOwn
  <2>4. ASSUME NEW e \in up, ServeResponse(e) PROVE Correlation'
    <3>1. UNCHANGED <<down, nextID, req>> /\ up' \subseteq up /\ pending' \subseteq pending
      BY <2>4 DEF ServeResponse
    <3>2. \A f : Traced(f) => Traced(f)'
      BY <3>1 DEF Traced
    <3>3. HandTraced'
      <4>1. CASE e.id \in pending
        <5>1. serve'.env = e /\ pending' = pending \ {e.id}
          BY <2>4, <4>1 DEF ServeResponse
        <5>2. e.type = "request" /\ Traced(e)'
          BY <3>2 DEF Correlation, WireTraced
        <5>3. \A t \in Callers : req'[t].id = e.id => req'[t].sink = "open"
          BY <4>1, <3>1 DEF Correlation, PendingOpen
        <5> QED BY <5>1, <5>2, <5>3 DEF HandTraced
      <4>2. CASE e.id \notin pending
        <5>1. serve' = serve /\ pending' = pending
          BY <2>4, <4>2 DEF ServeResponse
        <5> QED BY <5>1, <3>1, <3>2 DEF Correlation, HandTraced
      <4> QED BY <4>1, <4>2
    <3>4. WireTraced'
      BY <3>1, <3>2 DEF Correlation, WireTraced
    <3> QED BY <3>1, <3>3, <3>4 DEF Correlation, IdsOwn, PendingOpen, BoxesOwn
  <2>5. CASE Deliver
    <3> DEFINE env == serve.env
    <3>1. serve' = [pc |-> "read", env |-> NoEnvelope] /\ UNCHANGED <<down, up, corr>>
      BY <2>5 DEF Deliver
    <3>2. \A u \in Callers : /\ req'[u].id = req[u].id /\ req'[u].pc = req[u].pc
                             /\ req'[u].result = req[u].result
      BY <2>5 DEF Deliver, TypeOK, Call
    <3>3. \A u \in Callers : req[u].id # env.id => req'[u] = req[u]
      BY <2>5 DEF Deliver
    <3>4. \A u \in Callers : req[u].id = env.id => req'[u].box = env
      BY <2>5 DEF Deliver, TypeOK, Call
    <3>5. env \in Envelope /\ env.type = "request" /\ Traced(env) /\ env.id \notin pending
      BY <2>5 DEF Deliver, Correlation, HandTraced, TypeOK
    <3>6. \A u \in Callers : req[u].id = env.id => env = Asked(u, req[u].id)
      BY <3>5 DEF Traced, Asked, Envelope
    <3>7. BoxesOwn'
      BY <3>2, <3>3, <3>4, <3>6 DEF Correlation, BoxesOwn
    <3>8. PendingOpen'
      BY <3>1, <3>2, <3>3, <3>5 DEF Correlation, PendingOpen
    <3>9. IdsOwn'
      BY <3>1, <3>2 DEF Correlation, IdsOwn
    <3>10. \A f : Traced(f) => Traced(f)'
      BY <3>1, <3>2 DEF Traced
    <3>11. WireTraced'
      BY <3>1, <3>10 DEF Correlation, WireTraced
    <3>12. HandTraced'
      BY <3>1 DEF HandTraced
    <3> QED BY <3>7, <3>8, <3>9, <3>11, <3>12 DEF Correlation
  <2>6. CASE RefuseUnknown
    <3>1. CASE closePending /\ UNCHANGED down
      BY <2>6, <3>1, ClosePendingCorrelated DEF RefuseUnknown
    <3>2. CASE down' = Append(down, Ours("unsupported")) /\ UNCHANGED <<host, pending, req>>
      <4>1. UNCHANGED <<up, corr, serve, req>>
        BY <2>6, <3>2 DEF RefuseUnknown
      <4>2. \A e : Traced(e) => Traced(e)'
        BY <4>1 DEF Traced
      <4>3. (\A k \in DOMAIN down : Traced(down[k]))'
        BY <3>2, <4>2, OursTraced
      <4>4. WireTraced'
        BY <4>1, <4>2, <4>3 DEF Correlation, WireTraced
      <4> QED BY <4>1, <4>2, <4>4 DEF Correlation, HandTraced, IdsOwn, PendingOpen, BoxesOwn
    <3> QED BY <2>6, <3>1, <3>2 DEF RefuseUnknown
  <2>7. CASE ServeEOF \/ ServeBadLine
    BY <2>7, ClosePendingCorrelated DEF ServeEOF, ServeBadLine
  <2> QED BY <1>1, <2>1, <2>2, <2>3, <2>4, <2>5, <2>6, <2>7 DEF ServantGoroutine
<1>2. ASSUME NEW t \in Callers, Request(t) PROVE Correlation'
  <2>1. CASE RequestRegister(t)
    <3>1. UNCHANGED <<down, up, serve>> /\ nextID' = nextID + 1
          /\ pending' = pending \cup {nextID + 1}
      BY <2>1 DEF RequestRegister
    <3>2. /\ req'[t].id = nextID + 1 /\ req'[t].sink = "open" /\ req'[t].result = "none"
          /\ \A u \in Callers : u # t => req'[u] = req[u]
      BY <2>1 DEF RequestRegister, TypeOK
    <3>3. \A u \in Callers : req[u].id \in Nat /\ req[u].id <= nextID
      BY DEF Correlation, IdsOwn, TypeOK, Call
    <3>4. nextID \in Nat
      BY DEF TypeOK
    <3>5. \A e \in Envelope : Traced(e) => Traced(e)'
      BY <3>1, <3>2, <3>3, <3>4 DEF Traced, Envelope
    <3>6. WireTraced'
      BY <3>1, <3>5 DEF Correlation, WireTraced, TypeOK
    <3>7. HandTraced'
      <4>1. SUFFICES ASSUME serve.pc = "deliver" PROVE HandTraced'
        BY <3>1 DEF HandTraced
      <4>2. serve.env \in Envelope /\ serve.env.type = "request" /\ Traced(serve.env)
        BY <4>1 DEF Correlation, HandTraced, TypeOK
      <4>3. serve.env.id \in Nat /\ serve.env.id <= nextID
        BY <4>2, <3>4 DEF Traced
      <4>4. serve.env.id \notin pending' /\ req'[t].id # serve.env.id
        BY <3>1, <3>2, <3>4, <4>1, <4>3 DEF Correlation, HandTraced
      <4>5. Traced(serve.env)'
        BY <3>1, <3>5, <4>2
      <4>6. \A u \in Callers : req'[u].id = serve.env.id => req'[u].sink = "open"
        BY <3>2, <4>1, <4>4 DEF Correlation, HandTraced
      <4> QED BY <3>1, <4>2, <4>4, <4>5, <4>6 DEF HandTraced
    <3>8. IdsOwn'
      <4>1. pending' \subseteq 1 .. nextID'
        BY <3>1, <3>4 DEF Correlation, IdsOwn
      <4> QED BY <3>1, <3>2, <3>3, <3>4, <4>1 DEF Correlation, IdsOwn
    <3>9. PendingOpen'
      BY <3>1, <3>2, <3>3, <3>4 DEF Correlation, PendingOpen
    <3>10. BoxesOwn'
      BY <3>2 DEF Correlation, BoxesOwn
    <3> QED BY <3>6, <3>7, <3>8, <3>9, <3>10 DEF Correlation
  <2>2. CASE RequestSend(t)
    <3>1. CASE req' = Returning(t, "err") /\ UNCHANGED down
      BY <2>2, <3>1, PhaseCorrelated DEF RequestSend, Returning
    <3>2. CASE down' = Append(down, Asked(t, req[t].id)) /\ req' = [req EXCEPT ![t].pc = "wait"]
      <4>1. UNCHANGED <<up, corr, serve>>
        BY <2>2 DEF RequestSend
      <4>2. \A u \in Callers : /\ req'[u].id = req[u].id /\ req'[u].sink = req[u].sink
                               /\ req'[u].box = req[u].box /\ req'[u].result = req[u].result
                               /\ req'[u].pc # "idle" => req[u].pc # "idle"
        BY <2>2, <3>2 DEF RequestSend, TypeOK, Call
      <4>3. \A e : Traced(e) => Traced(e)'
        BY <4>1, <4>2 DEF Traced
      <4>4. req[t].id \in 1 .. nextID
        BY <2>2 DEF RequestSend, Correlation, IdsOwn, TypeOK, Call
      <4>5. Traced(Asked(t, req[t].id))'
        BY <4>1, <4>2, <4>4 DEF Traced, Asked, Correlation, IdsOwn
      <4>6. \A k \in DOMAIN down' : down'[k] = Asked(t, req[t].id) \/ (k \in DOMAIN down /\ down'[k] = down[k])
        BY <3>2 DEF TypeOK
      <4>7. Asked(t, req[t].id)' = Asked(t, req[t].id)
        BY <4>2 DEF Asked
      <4>8. (\A k \in DOMAIN down : Traced(down[k]))'
        BY <4>3, <4>5, <4>6, <4>7 DEF Correlation, WireTraced
      <4>9. WireTraced'
        BY <4>1, <4>3, <4>8 DEF Correlation, WireTraced
      <4>10. HandTraced'
        BY <4>1, <4>2, <4>3 DEF Correlation, HandTraced
      <4>11. IdsOwn' /\ PendingOpen'
        BY <4>1, <4>2 DEF Correlation, IdsOwn, PendingOpen
      <4>12. BoxesOwn'
        BY <4>2 DEF Correlation, BoxesOwn
      <4> QED BY <4>9, <4>10, <4>11, <4>12 DEF Correlation
    <3> QED BY <2>2, <3>1, <3>2 DEF RequestSend
  <2>3. CASE RequestReceive(t)
    <3>1. CASE req[t].sink = "full"
      BY <2>3, <3>1, PhaseCorrelated DEF RequestReceive, Returning
    <3>2. CASE req[t].sink # "full"
      BY <2>3, <3>2, PhaseCorrelated DEF RequestReceive, Returning
    <3> QED BY <3>1, <3>2
  <2>4. CASE RequestCancelled(t)
    BY <2>4, PhaseCorrelated DEF RequestCancelled, Returning
  <2>5. CASE RequestReturn(t)
    <3>1. [req EXCEPT ![t].pc = "idle"]
            = [req EXCEPT ![t] = [req[t] EXCEPT !.pc = "idle", !.result = req[t].result]]
      BY DEF TypeOK, Call
    <3>2. req[t].result \in {"none", "resp", "err"}
      BY DEF TypeOK, Call
    <3> QED BY <2>5, <3>1, <3>2, PhaseCorrelated DEF RequestReturn
  <2> QED BY <1>2, <2>1, <2>2, <2>3, <2>4, <2>5 DEF Request
<1>3. ASSUME NEW k \in DOMAIN down, ServantAnswers(k) PROVE Correlation'
  <2>1. UNCHANGED <<down, corr, serve, req>> /\ up' = up \cup {down[k]}
        /\ down[k].type = "request"
    BY <1>3 DEF ServantAnswers
  <2>2. \A e : Traced(e) => Traced(e)'
    BY <2>1 DEF Traced
  <2>3. WireTraced'
    BY <2>1, <2>2 DEF Correlation, WireTraced
  <2> QED BY <2>1, <2>2, <2>3 DEF Correlation, HandTraced, IdsOwn, PendingOpen, BoxesOwn
<1>4. CASE ServantGoes \/ Cancel \/ UNCHANGED vars
  BY <1>4, <1>0 DEF ServantGoes, Cancel, vars
<1> QED BY <1>1, <1>2, <1>3, <1>4 DEF Next

\* The correlation of ids, sinks and envelopes is an invariant of the session.
THEOREM AlwaysCorrelated == Spec => []Correlation
BY InitCorrelated, NextCorrelated, TypeCorrect, PTL DEF Spec

\* For any number of callers and requests, with late and repeated answers, Request
\* returns the envelope that answers it (control.go:212-257).
THEOREM RequestCorrelated == Spec => []RequestGetsOwnAnswer
<1>1. Correlation => RequestGetsOwnAnswer
  BY DEF Correlation, BoxesOwn, RequestGetsOwnAnswer
<1> QED BY <1>1, AlwaysCorrelated, PTL

\* deliver never sends on a closed or a full channel (control.go:246-256).
THEOREM SinkHandOver == Spec => []SinkReadyForSend
<1>1. Correlation => SinkReadyForSend
  BY DEF Correlation, HandTraced, SinkReadyForSend
<1> QED BY <1>1, AlwaysCorrelated, PTL

-----------------------------------------------------------------------------
(* The hello exchange.                                                      *)

\* negotiate returns the highest version both ranges hold (control.go:176-186).
LEMMA NegotiateHighest ==
  ASSUME NEW min \in Nat, NEW max \in Nat, Admits(min, max)
  PROVE  LET common == (min .. max) \cap (MinProtocolVersion .. MaxProtocolVersion)
         IN Candidate(min, max) \in common /\ \A v \in common : v <= Candidate(min, max)
BY ControlConstants DEF Admits, Candidate, Least, Greatest

\* A session exists only for an authentic servant, at the highest common version
\* (control.go:137-186): while AwaitServant runs there is none.
THEOREM AlwaysAuthentic == Spec => []SessionIsAuthentic
<1> DEFINE Inv == SessionIsAuthentic /\ (host = "await" => version = 0)
<1>1. Init => Inv
  BY DEF Init, SessionIsAuthentic
<1>2. TypeOK /\ Inv /\ [Next]_vars => Inv'
  <2> SUFFICES ASSUME TypeOK, Inv, [Next]_vars PROVE Inv'
    OBVIOUS
  <2> USE DEF handshake
  <2>0. ASSUME UNCHANGED handshake, host' # "await" \/ host' = host PROVE Inv'
    BY <2>0 DEF SessionIsAuthentic
  <2>1. ASSUME NEW h \in Hello(Versions), AwaitServant(h) PROVE Inv'
    <3>1. hello' = h /\ version = 0 /\ host' = Verdict(h)
      BY <2>1 DEF AwaitServant
    <3>2. h.min \in Nat /\ h.max \in Nat
      BY ControlConstants DEF Hello
    <3>3. host' # "await"
      BY <3>1 DEF Verdict
    <3>4. CASE Verdict(h) = "install"
      <4>1. version' = Candidate(h.min, h.max)
        BY <2>1, <3>4 DEF AwaitServant
      <4>2. h.type = "hello" /\ h.token /\ Admits(h.min, h.max)
        BY <3>4 DEF Verdict
      <4> QED BY <3>1, <3>2, <3>3, <4>1, <4>2, NegotiateHighest DEF SessionIsAuthentic
    <3>5. CASE Verdict(h) # "install"
      <4>1. version' = 0
        BY <2>1, <3>1, <3>5 DEF AwaitServant
      <4> QED BY <3>3, <4>1 DEF SessionIsAuthentic
    <3> QED BY <3>4, <3>5
  <2>2. CASE GiveUp \/ Install \/ Ack \/ Close
    BY <2>2, <2>0 DEF GiveUp, Install, Ack, Close
  <2>3. ASSUME NEW e \in up, ServeResponse(e) PROVE Inv'
    BY <2>3, <2>0 DEF ServeResponse
  <2>4. CASE Deliver \/ RefuseUnknown \/ ServeEOF \/ ServeBadLine
    BY <2>4, <2>0 DEF Deliver, RefuseUnknown, ServeEOF, ServeBadLine, closePending
  <2>5. ASSUME NEW t \in Callers, Request(t) PROVE Inv'
    BY <2>5, <2>0 DEF Request, RequestRegister, RequestSend, RequestReceive,
                      RequestCancelled, RequestReturn
  <2>6. ASSUME NEW k \in DOMAIN down, ServantAnswers(k) PROVE Inv'
    BY <2>6, <2>0 DEF ServantAnswers
  <2>7. CASE ServantGoes \/ Cancel \/ UNCHANGED vars
    BY <2>7, <2>0 DEF ServantGoes, Cancel, vars
  <2> QED BY <2>1, <2>2, <2>3, <2>4, <2>5, <2>6, <2>7 DEF Next, ServantGoroutine
<1>3. Inv => SessionIsAuthentic
  OBVIOUS
<1> QED BY <1>1, <1>2, <1>3, TypeCorrect, PTL DEF Spec
=============================================================================
