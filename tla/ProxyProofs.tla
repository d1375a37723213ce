---------------------------- MODULE ProxyProofs ----------------------------
(***************************************************************************)
(* Proofs about Proxy: its types, that injected requests are correlated    *)
(* rightly, that the pipe is faithful to both peers, and that the pumps    *)
(* implement Relay, for every client, every set of injecting goroutines    *)
(* and any number of requests.                                             *)
(***************************************************************************)
EXTENDS Proxy, TLAPS

-----------------------------------------------------------------------------
(* Frames.                                                                  *)

\* The frames of both peers and of Inject are frames (proxy.go:185-204, frames.go).
LEMMA FramesTyped ==
  /\ NoFrame \in Frame
  /\ ServerRequest \in Frame
  /\ \A i \in Client : ClientRequest(i) \in Frame
  /\ \A i \in Id : InjectedRequest(i) \in Frame
  /\ \A f \in Frame : Response(f) \in Frame /\ Failure(f) \in Frame
  /\ \A f \in Frame : Answers(f) \subseteq Frame
<1>1. NoFrame \in Frame /\ ServerRequest \in Frame
  BY DEF NoFrame, ServerRequest, Frame, Id, NoId, InjectId
<1>2. ASSUME NEW i \in Client PROVE ClientRequest(i) \in Frame
  BY ProxyConstants DEF ClientRequest, Frame
<1>3. ASSUME NEW i \in Id PROVE InjectedRequest(i) \in Frame
  BY DEF InjectedRequest, Frame
<1>4. ASSUME NEW f \in Frame PROVE Response(f) \in Frame /\ Failure(f) \in Frame
  BY DEF Response, Failure, Frame
<1>5. ASSUME NEW f \in Frame PROVE Answers(f) \subseteq Frame
  BY <1>4 DEF Answers
<1> QED BY <1>1, <1>2, <1>3, <1>4, <1>5

\* Fresh ids are ids (proxy.go:186-190, 391-394).
LEMMA FreshIds ==
  ASSUME NEW k \in Nat
  PROVE  InjectId(k + 1) \in Id /\ RemapId(k + 1) \in Id /\ NoId \in Id
BY DEF InjectId, RemapId, NoId, Id

-----------------------------------------------------------------------------
(* Types.                                                                   *)

\* A proxy starts well-typed.
LEMMA InitTyped == Init => TypeOK
<1> SUFFICES ASSUME Init PROVE TypeOK
  OBVIOUS
<1>1. NoId \in Id /\ NoFrame \in Frame
  BY FramesTyped DEF NoId, Id
<1>2. DOMAIN remapped = {}
  BY DEF Init, EmptyMap
<1> QED BY <1>1, <1>2 DEF Init, TypeOK, Reading, Call

\* Setting a call to return keeps it a call.
LEMMA ReturningTyped ==
  ASSUME TypeOK, NEW t \in Injectors, NEW r \in {"none", "err", "nil", "resp"}
  PROVE  Returning(t, r) \in [Injectors -> Call]
<1>1. [inj[t] EXCEPT !.pc = "return", !.result = r] \in Call
  BY DEF TypeOK, Call
<1> QED BY <1>1 DEF TypeOK, Returning

\* Every step of the proxy keeps the types, one case per action.
LEMMA NextTyped == TypeOK /\ [Next]_vars => TypeOK'
<1> SUFFICES ASSUME TypeOK, [Next]_vars PROVE TypeOK'
  OBVIOUS
<1> USE FramesTyped
<1>1. CASE SetInterceptor
  BY <1>1 DEF SetInterceptor, TypeOK, shared
<1>2. CASE SetToolInjector
  BY <1>2 DEF SetToolInjector, TypeOK, shared
<1>3. CASE pumpClientToServer
  <2>1. ASSUME NEW f \in {ClientRequest(i) : i \in Client} \cup {Response(ServerRequest)},
               ReadClient(f)
        PROVE  TypeOK'
    <3>1. f \in Frame
      OBVIOUS
    <3>2. f.id \in Id
      BY <3>1 DEF Frame
    <3> QED BY <2>1, <3>1, <3>2 DEF ReadClient, TypeOK, seams, shared
  <2>2. CASE Refuse
    <3>1. c2s.line \in Frame /\ c2s.line.id \in Id
      BY DEF TypeOK, Frame
    <3>2. [Response(c2s.line) EXCEPT !.by = "seam"] \in Frame
      BY <3>1 DEF Response, Frame
    <3> QED BY <2>2, <3>1, <3>2 DEF Refuse, TypeOK, seams, shared, Reading
  <2>3. CASE Allow
    BY <2>3 DEF Allow, TypeOK, seams, shared
  <2>4. CASE noteListRequest
    <3>1. c2s.line.id \in Id
      BY DEF TypeOK, Frame
    <3> QED BY <2>4, <3>1 DEF noteListRequest, TypeOK, seams
  <2>5. CASE forwardClientFrame
    <3>1. c2s.line \in Frame /\ c2s.line.id \in Id /\ RemapId(nextID + 1) \in Id
      BY FreshIds DEF TypeOK, Frame
    <3>2. CASE Trespasses(c2s.line)
      <4>1. rewriteID(c2s.line, RemapId(nextID + 1)) \in Frame
        BY <3>1 DEF Frame, rewriteID
      <4>2. /\ DOMAIN Put(remapped, RemapId(nextID + 1), c2s.line.id) \subseteq Id
            /\ \A i \in DOMAIN Put(remapped, RemapId(nextID + 1), c2s.line.id) :
                 Put(remapped, RemapId(nextID + 1), c2s.line.id)[i] \in Id
        BY <3>1 DEF TypeOK, Put
      <4> QED BY <2>5, <3>2, <4>1, <4>2 DEF forwardClientFrame, TypeOK, seams
    <3>3. CASE ~Trespasses(c2s.line)
      BY <2>5, <3>3 DEF forwardClientFrame, TypeOK, seams
    <3> QED BY <3>2, <3>3
  <2>6. CASE WriteServer
    BY <2>6 DEF WriteServer, TypeOK, seams, shared, Reading
  <2>7. CASE EndClientPump
    BY <2>7 DEF EndClientPump, TypeOK, seams, shared, Done
  <2> QED BY <1>3, <2>1, <2>2, <2>3, <2>4, <2>5, <2>6, <2>7 DEF pumpClientToServer
<1>4. CASE pumpServerToClient
  <2>1. ASSUME NEW f \in (UNION {Answers(r) : r \in toServer}) \cup {ServerRequest},
               ReadServer(f)
        PROVE  TypeOK'
    <3>1. f \in Frame
      <4>1. CASE f = ServerRequest
        BY <4>1
      <4>2. ASSUME NEW r \in toServer, f \in Answers(r) PROVE f \in Frame
        <5>1. r \in Frame
          BY DEF TypeOK
        <5>2. Answers(r) \subseteq Frame
          BY <5>1
        <5> QED BY <4>2, <5>2
      <4> QED BY <4>1, <4>2
    <3> QED BY <2>1, <3>1 DEF ReadServer, TypeOK, seams, shared
  <2>2. CASE routeServerFrame
    <3>1. s2c.line \in Frame /\ s2c.line.id \in Id
      BY DEF TypeOK, Frame
    <3>2. s2c.line.id \in DOMAIN remapped => Restored(s2c.line) \in Frame
      BY <3>1 DEF Restored, rewriteID, TypeOK, Frame
    <3>3. /\ DOMAIN Delete(remapped, s2c.line.id) \subseteq Id
          /\ \A i \in DOMAIN Delete(remapped, s2c.line.id) :
               Delete(remapped, s2c.line.id)[i] \in Id
      BY DEF TypeOK, Delete
    <3>4. DOMAIN remapped' \subseteq Id /\ \A i \in DOMAIN remapped' : remapped'[i] \in Id
      BY <2>2, <3>3 DEF routeServerFrame, TypeOK
    <3>5. s2c' \in [pc : {"read", "route", "deliver", "inject", "write", "done"},
                    line : Frame]
      BY <2>2, <3>1, <3>2 DEF routeServerFrame, TypeOK
    <3>6. pending' \subseteq Id
      BY <2>2 DEF routeServerFrame, TypeOK
    <3> QED BY <2>2, <3>4, <3>5, <3>6 DEF routeServerFrame, TypeOK, seams
  <2>3. CASE DeliverInjected
    <3>1. \A t \in Injectors : [inj[t] EXCEPT !.sink = "full", !.box = s2c.line] \in Call
      BY DEF TypeOK, Call
    <3>2. inj' \in [Injectors -> Call]
      BY <2>3, <3>1 DEF DeliverInjected, TypeOK
    <3> QED BY <2>3, <3>2 DEF DeliverInjected, TypeOK, seams, shared, Reading
  <2>4. CASE maybeInjectTools
    <3>1. s2c.line \in Frame
      BY DEF TypeOK
    <3>2. appendTools(s2c.line) \in Frame
      BY <3>1 DEF appendTools, Frame
    <3>3. s2c' \in [pc : {"read", "route", "deliver", "inject", "write", "done"}, line : Frame]
      BY <2>4, <3>1, <3>2 DEF maybeInjectTools
    <3>4. listReqs' \subseteq Id
      BY <2>4 DEF maybeInjectTools, TypeOK
    <3> QED BY <2>4, <3>3, <3>4 DEF maybeInjectTools, TypeOK, seams
  <2>5. CASE WriteClient
    BY <2>5 DEF WriteClient, TypeOK, seams, shared, Reading
  <2>6. CASE EndServerPump
    BY <2>6 DEF EndServerPump, TypeOK, seams, shared, Done
  <2> QED BY <1>4, <2>1, <2>2, <2>3, <2>4, <2>5, <2>6 DEF pumpServerToClient
<1>5. ASSUME NEW t \in Injectors, Inject(t) PROVE TypeOK'
  <2>1. InjectId(nextID + 1) \in Id
    BY FreshIds DEF TypeOK
  <2>2. CASE InjectRegister(t)
    <3>1. inj' \in [Injectors -> Call]
      BY <2>1, <2>2 DEF InjectRegister, TypeOK, Call
    <3> QED BY <2>1, <2>2, <3>1 DEF InjectRegister, TypeOK, seams
  <2>3. CASE InjectClosed(t)
    <3>1. inj' \in [Injectors -> Call]
      BY <2>3 DEF InjectClosed, TypeOK, Call
    <3> QED BY <2>3, <3>1 DEF InjectClosed, TypeOK, seams, shared
  <2>4. CASE InjectSend(t)
    <3>1. InjectedRequest(inj[t].id) \in Frame
      BY DEF TypeOK, Call
    <3>2. inj' \in [Injectors -> Call]
      <4>1. [inj EXCEPT ![t].pc = "wait"] \in [Injectors -> Call]
        BY DEF TypeOK, Call
      <4>2. Returning(t, "err") \in [Injectors -> Call]
        BY ReturningTyped
      <4> QED BY <2>4, <4>1, <4>2 DEF InjectSend
    <3> QED BY <2>4, <3>1, <3>2 DEF InjectSend, TypeOK, seams, shared
  <2>5. CASE InjectReceive(t)
    <3>1. inj' \in [Injectors -> Call]
      <4>1. Returning(t, "resp") \in [Injectors -> Call]
        BY ReturningTyped
      <4>2. Returning(t, "nil") \in [Injectors -> Call]
        BY ReturningTyped
      <4> QED BY <2>5, <4>1, <4>2 DEF InjectReceive
    <3> QED BY <2>5, <3>1 DEF InjectReceive, TypeOK, seams, shared
  <2>6. CASE InjectCancelled(t)
    <3>1. inj' \in [Injectors -> Call]
      BY <2>6, ReturningTyped DEF InjectCancelled
    <3> QED BY <2>6, <3>1 DEF InjectCancelled, TypeOK, seams, shared
  <2>7. CASE InjectReturn(t)
    <3>1. inj' \in [Injectors -> Call]
      BY <2>7 DEF InjectReturn, TypeOK, Call
    <3> QED BY <2>7, <3>1 DEF InjectReturn, TypeOK, seams
  <2> QED BY <1>5, <2>2, <2>3, <2>4, <2>5, <2>6, <2>7 DEF Inject
<1>6. CASE Cancel
  BY <1>6 DEF Cancel, TypeOK, seams, shared
<1>7. CASE close
  <2>1. inj' \in [Injectors -> Call]
    BY <1>7 DEF close, TypeOK, Call
  <2> QED BY <1>7, <2>1 DEF close, TypeOK, seams
<1>8. CASE UNCHANGED vars
  BY <1>8 DEF vars, TypeOK
<1> QED BY <1>1, <1>2, <1>3, <1>4, <1>5, <1>6, <1>7, <1>8 DEF Next

\* The proxy's state keeps its types (proxy.go:103-140).
THEOREM TypeCorrect == Spec => []TypeOK
BY InitTyped, NextTyped, PTL DEF Spec

-----------------------------------------------------------------------------
(* Correlation of injected requests: the inductive invariant.               *)

\* A frame under a reserved id belongs to the harness's request of that id.
OwnReserved(f) == Reserved(f.id) => f.by = "harness" /\ f.ask = f.id

\* Requests at the server, and the frames on their way there and back.
ReservedAtServer ==
  /\ \A f \in toServer : f.kind = "req" => OwnReserved(f)
  /\ c2s.pc = "write" /\ c2s.line.kind = "req" => ~Reserved(c2s.line.id)
  /\ s2c.pc \in {"route", "deliver"} /\ IsResponse(s2c.line) => OwnReserved(s2c.line)

\* Ids handed out so far: the next one is fresh.
IdsBelowNext ==
  /\ \A i \in pending : Reserved(i) /\ i.n <= nextID
  /\ \A t \in Injectors : Reserved(inj[t].id) => inj[t].id.n <= nextID
  /\ s2c.pc = "deliver" => s2c.line.id.n <= nextID

\* A sink is reached through pending or through the pump that took it, never both.
SinksOpen ==
  /\ \A t \in Injectors : inj[t].id \in pending => inj[t].sink = "open"
  /\ s2c.pc = "deliver" => /\ IsResponse(s2c.line) /\ Reserved(s2c.line.id)
                           /\ s2c.line.id \notin pending
  /\ SinkReadyForSend

\* What a sink holds, or has handed over, answers its call.
BoxesOwn ==
  \A t \in Injectors : inj[t].sink = "full" \/ inj[t].result = "resp" =>
    inj[t].box.by = "harness" /\ inj[t].box.ask = inj[t].id

Correlation == ReservedAtServer /\ IdsBelowNext /\ SinksOpen /\ BoxesOwn

\* Before the first Inject there is nothing to confuse.
LEMMA InitCorrelated == Init => Correlation
BY DEF Init, Correlation, ReservedAtServer, IdsBelowNext, SinksOpen, BoxesOwn,
       SinkReadyForSend, Reading, Reserved, NoId

\* Every step of the pumps, an Inject call or the server keeps the correlation.
LEMMA NextCorrelated == TypeOK /\ Correlation /\ [Next]_vars => Correlation'
<1> SUFFICES ASSUME TypeOK, Correlation, [Next]_vars PROVE Correlation'
  OBVIOUS
<1> USE DEF Correlation
<1>1. CASE UNCHANGED <<toServer, c2s, s2c, pending, nextID, inj>>
  BY <1>1 DEF ReservedAtServer, IdsBelowNext, SinksOpen, SinkReadyForSend, BoxesOwn
<1>2. CASE SetInterceptor \/ SetToolInjector \/ Cancel \/ UNCHANGED vars
  BY <1>1, <1>2 DEF SetInterceptor, SetToolInjector, Cancel, vars, shared
<1>3. CASE pumpClientToServer
  <2>1. ASSUME UNCHANGED <<s2c, pending, inj>>, nextID' \in Nat, nextID <= nextID',
               ReservedAtServer'
        PROVE  Correlation'
    <3>1. SinksOpen' /\ BoxesOwn'
      BY <2>1 DEF SinksOpen, SinkReadyForSend, BoxesOwn
    <3>2. IdsBelowNext'
      <4>1. \A i \in pending : i.n \in Nat
        BY DEF TypeOK, Id
      <4>2. \A t \in Injectors : inj[t].id.n \in Nat
        BY DEF TypeOK, Call, Id
      <4>3. s2c.line.id.n \in Nat
        BY DEF TypeOK, Frame, Id
      <4>4. nextID \in Nat
        BY DEF TypeOK
      <4> QED BY <2>1, <4>1, <4>2, <4>3, <4>4 DEF IdsBelowNext
    <3> QED BY <2>1, <3>1, <3>2
  <2>2. ASSUME NEW f \in {ClientRequest(i) : i \in Client} \cup {Response(ServerRequest)},
               ReadClient(f)
        PROVE  Correlation'
    BY <2>1, <2>2 DEF ReadClient, ReservedAtServer, TypeOK, shared
  <2>3. CASE Refuse
    BY <2>1, <2>3 DEF Refuse, ReservedAtServer, TypeOK, shared, Reading
  <2>4. CASE Allow
    BY <2>1, <2>4 DEF Allow, ReservedAtServer, TypeOK, shared
  <2>5. CASE noteListRequest
    BY <2>1, <2>5 DEF noteListRequest, ReservedAtServer, TypeOK
  <2>6. CASE forwardClientFrame
    <3>1. ReservedAtServer'
      BY <2>6 DEF forwardClientFrame, ReservedAtServer, Trespasses, Reserved, RemapId,
                  rewriteID, TypeOK, Frame
    <3> QED BY <2>1, <2>6, <3>1 DEF forwardClientFrame, TypeOK
  <2>7. CASE WriteServer
    BY <2>1, <2>7 DEF WriteServer, ReservedAtServer, OwnReserved, TypeOK, shared, Reading
  <2>8. CASE EndClientPump
    BY <2>1, <2>8 DEF EndClientPump, ReservedAtServer, TypeOK, shared, Done
  <2> QED BY <1>3, <2>2, <2>3, <2>4, <2>5, <2>6, <2>7, <2>8 DEF pumpClientToServer
<1>4. CASE pumpServerToClient
  <2>1. ASSUME UNCHANGED <<toServer, c2s, pending, nextID, inj>>,
               s2c'.pc \notin {"route", "deliver"}
        PROVE  Correlation'
    BY <2>1 DEF ReservedAtServer, IdsBelowNext, SinksOpen, SinkReadyForSend, BoxesOwn
  <2>2. ASSUME NEW f \in (UNION {Answers(r) : r \in toServer}) \cup {ServerRequest},
               ReadServer(f)
        PROVE  Correlation'
    <3>1. IsResponse(f) => OwnReserved(f)
      <4>1. CASE f = ServerRequest
        BY <4>1 DEF ServerRequest, IsResponse
      <4>2. ASSUME NEW r \in toServer, r.kind = "req", f \in Answers(r)
            PROVE  OwnReserved(f)
        <5>1. r \in Frame
          BY DEF TypeOK
        <5>2. f.id = r.id /\ f.by = r.by /\ f.ask = r.ask
          BY <4>2, <5>1 DEF Answers, Response, Failure, Frame
        <5>3. OwnReserved(r)
          BY <4>2 DEF ReservedAtServer
        <5> QED BY <5>2, <5>3 DEF OwnReserved
      <4> QED BY <2>2, <4>1, <4>2 DEF ReadServer, ServerFrame
    <3>2. s2c' = [pc |-> "route", line |-> f]
      BY <2>2 DEF ReadServer, TypeOK
    <3> QED BY <2>2, <3>1, <3>2 DEF ReadServer, ReservedAtServer, IdsBelowNext, SinksOpen,
                                 SinkReadyForSend, BoxesOwn, shared
  <2>3. CASE routeServerFrame
    <3>1. CASE IsResponse(s2c.line) /\ IsString(s2c.line.id) /\ s2c.line.id \in pending
      <4>1. /\ s2c'.pc = "deliver" /\ s2c'.line = s2c.line
            /\ pending' = pending \ {s2c.line.id}
            /\ UNCHANGED <<toServer, c2s, nextID, inj>>
        BY <2>3, <3>1 DEF routeServerFrame, TypeOK
      <4>2. s2c.pc = "route"
        BY <2>3 DEF routeServerFrame
      <4> QED BY <3>1, <4>1, <4>2 DEF ReservedAtServer, IdsBelowNext, SinksOpen,
                                      SinkReadyForSend, BoxesOwn
    <3>2. CASE ~(IsResponse(s2c.line) /\ IsString(s2c.line.id) /\ s2c.line.id \in pending)
      <4>1. s2c'.pc = "inject" /\ UNCHANGED <<toServer, c2s, pending, nextID, inj>>
        BY <2>3, <3>2 DEF routeServerFrame, TypeOK
      <4> QED BY <2>1, <4>1
    <3> QED BY <3>1, <3>2
  <2>4. CASE DeliverInjected
    <3>1. /\ s2c.pc = "deliver" /\ s2c'.pc = "read"
          /\ UNCHANGED <<toServer, c2s, pending, nextID>>
          /\ IsResponse(s2c.line) /\ OwnReserved(s2c.line) /\ Reserved(s2c.line.id)
          /\ s2c.line.id \notin pending
      BY <2>4 DEF DeliverInjected, ReservedAtServer, SinksOpen, Reading, shared
    <3>2. \A t \in Injectors : /\ inj'[t].id = inj[t].id
                               /\ inj'[t].result = inj[t].result
      BY <2>4 DEF DeliverInjected, TypeOK, Call
    <3>3. \A t \in Injectors :
            IF inj[t].id = s2c.line.id
            THEN inj'[t].sink = "full" /\ inj'[t].box = s2c.line
            ELSE inj'[t] = inj[t]
      BY <2>4 DEF DeliverInjected, TypeOK, Call
    <3>4. ReservedAtServer' /\ IdsBelowNext'
      BY <3>1, <3>2 DEF ReservedAtServer, IdsBelowNext
    <3>5. SinksOpen'
      BY <3>1, <3>2, <3>3 DEF SinksOpen, SinkReadyForSend
    <3>6. BoxesOwn'
      BY <3>1, <3>2, <3>3 DEF BoxesOwn, OwnReserved
    <3> QED BY <3>4, <3>5, <3>6
  <2>5. CASE maybeInjectTools
    BY <2>1, <2>5 DEF maybeInjectTools, TypeOK
  <2>6. CASE WriteClient
    BY <2>1, <2>6 DEF WriteClient, shared, Reading
  <2>7. CASE EndServerPump
    BY <2>1, <2>7 DEF EndServerPump, shared, Done
  <2> QED BY <1>4, <2>2, <2>3, <2>4, <2>5, <2>6, <2>7 DEF pumpServerToClient
<1>5. ASSUME NEW t \in Injectors, Inject(t) PROVE Correlation'
  <2>1. CASE InjectRegister(t)
    <3> DEFINE new == InjectId(nextID + 1)
    <3>1. new.ns = "aw" /\ new.n = nextID + 1 /\ nextID \in Nat
      BY DEF InjectId, TypeOK
    <3>2. /\ \A i \in pending : i.n \in Nat
          /\ \A u \in Injectors : inj[u].id \in Id /\ inj[u].id.n \in Nat
          /\ s2c.line.id.n \in Nat
      BY DEF TypeOK, Frame, Call, Id
    <3>3. /\ new \notin pending
          /\ s2c.pc = "deliver" => new # s2c.line.id
          /\ \A u \in Injectors : inj[u].id # new
      BY <3>1, <3>2 DEF IdsBelowNext, SinksOpen, Reserved
    <3>4. /\ UNCHANGED <<toServer, c2s, s2c>>
          /\ nextID' = nextID + 1 /\ pending' = pending \cup {new}
          /\ inj'[t] = [pc |-> "send", id |-> new, sink |-> "open", box |-> NoFrame,
                        result |-> "none"]
          /\ \A u \in Injectors \ {t} : inj'[u] = inj[u]
      BY <2>1 DEF InjectRegister, TypeOK
    <3> HIDE DEF new
    <3>5. ReservedAtServer'
      BY <3>4 DEF ReservedAtServer
    <3>6. IdsBelowNext'
      BY <3>1, <3>2, <3>4 DEF IdsBelowNext, Reserved
    <3>7. SinksOpen'
      BY <3>3, <3>4 DEF SinksOpen, SinkReadyForSend
    <3>8. BoxesOwn'
      BY <3>4 DEF BoxesOwn
    <3> QED BY <3>5, <3>6, <3>7, <3>8
  <2>2. ASSUME UNCHANGED <<c2s, s2c, nextID>>, ReservedAtServer', pending' \subseteq pending,
               \A u \in Injectors : inj'[u].id = inj[u].id /\ inj'[u].sink = inj[u].sink
                                    /\ inj'[u].box = inj[u].box,
               \A u \in Injectors : inj'[u].result = "resp" =>
                                    inj[u].result = "resp" \/ inj[u].sink = "full"
        PROVE  Correlation'
    <3>1. IdsBelowNext'
      BY <2>2 DEF IdsBelowNext
    <3>2. SinksOpen'
      BY <2>2 DEF SinksOpen, SinkReadyForSend
    <3>3. BoxesOwn'
      BY <2>2 DEF BoxesOwn
    <3> QED BY <2>2, <3>1, <3>2, <3>3
  <2>3. ASSUME NEW r \in {"none", "err", "nil", "resp"}, inj' = Returning(t, r)
        PROVE  \A u \in Injectors :
                 /\ inj'[u].id = inj[u].id /\ inj'[u].sink = inj[u].sink
                 /\ inj'[u].box = inj[u].box
                 /\ inj'[u].result = IF u = t THEN r ELSE inj[u].result
    BY <2>3 DEF Returning, TypeOK, Call
  <2>4. CASE InjectClosed(t)
    <3>1. \A u \in Injectors :
                 /\ inj'[u].id = inj[u].id /\ inj'[u].sink = inj[u].sink
                 /\ inj'[u].box = inj[u].box
                 /\ inj'[u].result = IF u = t THEN "err" ELSE inj[u].result
      BY <2>4 DEF InjectClosed, TypeOK, Call
    <3> QED BY <2>2, <2>4, <3>1 DEF InjectClosed, ReservedAtServer, shared
  <2>5. CASE InjectSend(t)
    <3>1. CASE /\ toServer' = toServer \cup {InjectedRequest(inj[t].id)}
               /\ inj' = [inj EXCEPT ![t].pc = "wait"]
      <4>1. OwnReserved(InjectedRequest(inj[t].id))
        BY DEF OwnReserved, InjectedRequest
      <4>2. ReservedAtServer'
        BY <2>5, <3>1, <4>1 DEF InjectSend, ReservedAtServer
      <4>3. \A u \in Injectors :
                 /\ inj'[u].id = inj[u].id /\ inj'[u].sink = inj[u].sink
                 /\ inj'[u].box = inj[u].box /\ inj'[u].result = inj[u].result
        BY <3>1 DEF TypeOK, Call
      <4> QED BY <2>2, <2>5, <4>2, <4>3 DEF InjectSend, shared
    <3>2. CASE inj' = Returning(t, "err") /\ UNCHANGED toServer
      <4>1. ReservedAtServer'
        BY <2>5, <3>2 DEF InjectSend, ReservedAtServer
      <4> QED BY <2>2, <2>3, <2>5, <3>2, <4>1 DEF InjectSend, shared
    <3> QED BY <2>5, <3>1, <3>2 DEF InjectSend
  <2>6. CASE InjectReceive(t)
    <3>1. ReservedAtServer' /\ UNCHANGED <<c2s, s2c, nextID, pending>>
      BY <2>6 DEF InjectReceive, ReservedAtServer, shared
    <3>2. CASE inj[t].sink = "full"
      <4>1. inj' = Returning(t, "resp")
        BY <2>6, <3>2 DEF InjectReceive
      <4> QED BY <2>2, <2>3, <3>1, <3>2, <4>1
    <3>3. CASE inj[t].sink # "full"
      <4>1. inj' = Returning(t, "nil")
        BY <2>6, <3>3 DEF InjectReceive
      <4> QED BY <2>2, <2>3, <3>1, <4>1
    <3> QED BY <3>2, <3>3
  <2>7. CASE InjectCancelled(t)
    <3>1. ReservedAtServer' /\ UNCHANGED <<c2s, s2c, nextID, pending>>
      BY <2>7 DEF InjectCancelled, ReservedAtServer, shared
    <3> QED BY <2>2, <2>3, <2>7, <3>1 DEF InjectCancelled
  <2>8. CASE InjectReturn(t)
    <3>1. ReservedAtServer'
      BY <2>8 DEF InjectReturn, ReservedAtServer
    <3>2. \A u \in Injectors :
                 /\ inj'[u].id = inj[u].id /\ inj'[u].sink = inj[u].sink
                 /\ inj'[u].box = inj[u].box /\ inj'[u].result = inj[u].result
      BY <2>8 DEF InjectReturn, TypeOK, Call
    <3> QED BY <2>2, <2>8, <3>1, <3>2 DEF InjectReturn
  <2> QED BY <1>5, <2>1, <2>4, <2>5, <2>6, <2>7, <2>8 DEF Inject
<1>6. CASE close
  <2>1. /\ pending' = {} /\ UNCHANGED <<toServer, c2s, s2c, nextID>>
        /\ \A t \in Injectors :
             /\ inj'[t].id = inj[t].id /\ inj'[t].box = inj[t].box
             /\ inj'[t].result = inj[t].result
             /\ inj'[t].sink = IF inj[t].id \in pending THEN "closed" ELSE inj[t].sink
    BY <1>6 DEF close, TypeOK, Call
  <2>2. ReservedAtServer' /\ IdsBelowNext'
    BY <2>1 DEF ReservedAtServer, IdsBelowNext
  <2>3. SinksOpen'
    BY <2>1 DEF SinksOpen, SinkReadyForSend
  <2>4. BoxesOwn'
    BY <2>1 DEF BoxesOwn
  <2> QED BY <2>2, <2>3, <2>4
<1> QED BY <1>2, <1>3, <1>4, <1>5, <1>6 DEF Next

\* Whatever the client sends, an Inject call that returns a frame returns the answer
\* to its own request (proxy.go:185-226, 403-431).
THEOREM InjectCorrelated == Spec => []InjectGetsOwnAnswer
<1>1. Correlation => InjectGetsOwnAnswer
  BY DEF Correlation, BoxesOwn, InjectGetsOwnAnswer
<1> QED BY InitTyped, NextTyped, InitCorrelated, NextCorrelated, <1>1, PTL DEF Spec

\* The server pump never sends on a sink that close has closed or that already holds
\* a frame (proxy.go:417-431, 443-452).
THEOREM SinkHandOver == Spec => []SinkReadyForSend
<1>1. Correlation => SinkReadyForSend
  BY DEF Correlation, SinksOpen
<1> QED BY InitTyped, NextTyped, InitCorrelated, NextCorrelated, <1>1, PTL DEF Spec

-----------------------------------------------------------------------------
(* What passes through the pipe: the inductive invariant.                   *)

\* No client id spells a remapped one: the answer to it would be given another request's id
\* (proxy.go:422).
PlainClients == \A i \in Client : i.ns # "awr"

Mine(f) == f.by = "client"
Over == closed \/ cancelled

\* A request at the server, or about to be: the client's, under its own id or a remapped one,
\* or an injected one (proxy.go:185-204, 373-401).
AtServer(f) ==
  /\ f.kind = "req" /\ ~f.tools
  /\ \/ /\ Mine(f) /\ f.ask \in Client /\ f.ask \in sent \ refused
        /\ f.list = (f.ask \in Lister)
        /\ \/ f.id = f.ask /\ ~Reserved(f.id)
           \/ f.id.ns = "awr" /\ f.id.n <= nextID
     \/ f = InjectedRequest(f.id) /\ Reserved(f.id) /\ f.id.n <= nextID

Servers ==
  /\ \A f \in toServer : AtServer(f)
  /\ UniqueIdsAtServer
  /\ \A f, g \in toServer : Mine(f) /\ Mine(g) /\ f.ask = g.ask => f = g
  /\ answered \subseteq toServer /\ refused \subseteq sent

\* The line of the client pump is new to the server (proxy.go:237-273).
Upward ==
  /\ c2s.pc \in {"intercept", "note", "forward"} /\ c2s.line.kind = "req" =>
       c2s.line.id \in Client /\ c2s.line = ClientRequest(c2s.line.id)
  /\ c2s.pc = "write" /\ c2s.line.kind = "req" =>
       /\ AtServer(c2s.line) /\ Mine(c2s.line)
       /\ \A f \in toServer : f.id # c2s.line.id
       /\ c2s.line.id.ns = "awr" => /\ c2s.line.id \in DOMAIN remapped
                                    /\ remapped[c2s.line.id] = c2s.line.ask
  /\ c2s.pc \in {"intercept", "note", "forward", "write"} /\ c2s.line.kind = "req" =>
       /\ c2s.line.ask \in sent \ refused
       /\ \A f \in toServer : Mine(f) => f.ask # c2s.line.ask

\* The answer to f has not been routed yet.
Owed(f) == f \notin answered \/ (s2c.pc = "route" /\ s2c.line \in Answers(f))

\* The client's id of a remapped request is kept until its answer is routed (proxy.go:391-440).
Remaps ==
  /\ \A i \in DOMAIN remapped : i.ns = "awr"
  /\ \A f \in toServer : f.id.ns = "awr" /\ Owed(f) =>
       f.id \in DOMAIN remapped /\ remapped[f.id] = f.ask

\* Where a call of Inject is says whether its request was sent, answered or given up.
CallOf(k) ==
  LET asked == InjectedRequest(k.id) \in toServer IN
  /\ k.pc # "idle" => Reserved(k.id)
  /\ k.pc = "send" => ~asked /\ k.sink # "full" /\ (k.id \in pending \/ Over)
  /\ k.sink = "closed" => closed
  /\ k.sink = "full" /\ asked => ~Owed(InjectedRequest(k.id))
  /\ k.pc = "return" => \/ k.result = "err" /\ (cancelled \/ ~asked)
                        \/ k.result = "nil" /\ k.sink = "closed"
                        \/ k.result = "resp" /\ k.sink = "full"

\* An injected request that is not answered has its sink, until the end (proxy.go:185-226).
Injected ==
  /\ \A f \in toServer : f.by = "harness" /\ Owed(f) => f.id \in pending \/ Over
  /\ \A t \in Injectors : CallOf(inj[t])
  /\ \A t, u \in Injectors : Reserved(inj[t].id) /\ inj[u].id = inj[t].id => t = u

\* The line of the server pump answers a request, and is new to the client (proxy.go:403-440).
Downward ==
  IsResponse(s2c.line) =>
    /\ s2c.pc \in {"route", "deliver"} => \E r \in answered : s2c.line \in Answers(r)
    /\ s2c.pc \in {"inject", "write"} =>
         \/ /\ Mine(s2c.line) /\ s2c.line.id = s2c.line.ask
            /\ \E r \in answered : Mine(r) /\ r.ask = s2c.line.ask /\ r.list = s2c.line.list
         \/ s2c.line.by = "harness" /\ s2c.line.list /\ Over
    /\ Mine(s2c.line) /\ s2c.pc \in {"route", "inject", "write"} =>
         \A f \in toClient : Mine(f) => f.ask # s2c.line.ask

Refusal(i) == [Response(ClientRequest(i)) EXCEPT !.by = "seam"]

AtClient ==
  /\ \A f \in toClient :
       \/ f.by = "seam" /\ f.ask \in refused /\ f = Refusal(f.ask) /\ ~f.list
       \/ Mine(f) /\ f.id = f.ask /\ \E r \in answered : Mine(r) /\ r.ask = f.ask
       \/ f.by = "harness" /\ Over
  /\ \A f, g \in toClient : Mine(f) /\ Mine(g) /\ f.ask = g.ask => f = g

\* The list responses (proxy.go:317-371).  A stray answer may take the entry of a client id that
\* is spelt like its own; from then on nothing is said.
Clean == \A f \in toClient : f.by # "harness"
Straying ==
  s2c.pc = "done" \/ (s2c.pc = "write" /\ IsResponse(s2c.line) /\ s2c.line.by = "harness")

Wanted(f) == Mine(f) /\ f.list /\ f.ask \in wants /\ IsString(f.ask)
Complete(f) ==
  /\ f.tools => f.list /\ f.kind = "resp"
  /\ f.list /\ f.kind = "resp" /\ f.ask \in wants /\ IsString(f.ask) => f.tools

Tracked ==
  /\ c2s.pc \in {"forward", "write"} /\ c2s.line.kind = "req" /\ Wanted(c2s.line) =>
       c2s.line.ask \in listReqs
  /\ \A f \in toServer : Wanted(f) /\ Owed(f) => f.ask \in listReqs
  /\ s2c.pc = "inject" /\ IsResponse(s2c.line) /\ Wanted(s2c.line) => s2c.line.ask \in listReqs
  /\ s2c.pc = "write" /\ IsResponse(s2c.line) => Complete(s2c.line)

Lists ==
  /\ listReqs \subseteq Lister /\ wants \subseteq sent
  /\ wants # {} => injector
  /\ s2c.pc \in {"route", "inject"} => ~s2c.line.tools
  /\ c2s.pc \in {"intercept", "note"} /\ c2s.line.kind = "req" => c2s.line.ask \notin wants
  /\ Clean => \A f \in toClient : Complete(f)
  /\ Clean /\ ~Straying => Tracked

Faith ==
  /\ PlainClients /\ TypeOK /\ Correlation
  /\ Servers /\ Upward /\ Remaps /\ Injected /\ Downward /\ AtClient /\ Lists

-----------------------------------------------------------------------------
(* Facts about the frames and the steps.                                    *)

\* An answer carries what its request carried; only its kind is new (frames.go).
LEMMA AnswerFields ==
  ASSUME NEW r \in Frame, NEW f \in Answers(r)
  PROVE  /\ f \in Frame /\ IsResponse(f)
         /\ f.id = r.id /\ f.by = r.by /\ f.ask = r.ask /\ f.list = r.list
         /\ f.tools = r.tools
<1>1. f \in Frame
  BY FramesTyped
<1>2. f = [r EXCEPT !.kind = "resp"] \/ f = [r EXCEPT !.kind = "error"]
  BY DEF Answers, Response, Failure
<1> QED BY <1>1, <1>2 DEF Frame, IsResponse

\* A response answers one request at the server: its id says which (proxy.go:30-33).
LEMMA OneOrigin ==
  ASSUME TypeOK, Servers, NEW r \in toServer, NEW s \in toServer,
         NEW f \in Answers(r), f \in Answers(s)
  PROVE  r = s
<1>1. r \in Frame /\ s \in Frame
  BY DEF TypeOK
<1>2. f.id = r.id /\ f.id = s.id
  BY <1>1, AnswerFields
<1>3. r.kind = "req" /\ s.kind = "req"
  BY DEF Servers, AtServer
<1> QED BY <1>2, <1>3 DEF Servers, UniqueIdsAtServer

\* What the server was sent stays a request it may hold, as ids are handed out and
\* requests are read and refused.
LEMMA AtServerKept ==
  ASSUME TypeOK, TypeOK', NEW f \in Frame, AtServer(f), nextID <= nextID', sent \subseteq sent',
         Mine(f) => f.ask \notin refused'
  PROVE  AtServer(f)'
<1>1. nextID \in Nat /\ nextID' \in Nat /\ f.id.n \in Nat
  BY DEF TypeOK, Frame, Id
<1>2. f.id.n <= nextID => f.id.n <= nextID'
  BY <1>1
<1> QED BY <1>2 DEF AtServer, Mine, InjectedRequest

\* The fields of the frames the peers and Inject make.
LEMMA Fields ==
  /\ \A i : /\ ClientRequest(i).kind = "req" /\ ClientRequest(i).id = i
            /\ ClientRequest(i).ask = i /\ ClientRequest(i).by = "client"
            /\ ClientRequest(i).list = (i \in Lister) /\ ClientRequest(i).tools = FALSE
  /\ \A i : /\ InjectedRequest(i).kind = "req" /\ InjectedRequest(i).id = i
            /\ InjectedRequest(i).ask = i /\ InjectedRequest(i).by = "harness"
            /\ InjectedRequest(i).list = TRUE /\ InjectedRequest(i).tools = FALSE
  /\ ServerRequest.kind = "req" /\ ServerRequest.by = "server" /\ ServerRequest.tools = FALSE
  /\ Response(ServerRequest).kind = "resp"
BY DEF ClientRequest, InjectedRequest, ServerRequest, Response

\* No step takes anything back: ids, requests, answers and refusals only accumulate, and the
\* end is final.
LEMMA Growing ==
  ASSUME TypeOK, [Next]_vars
  PROVE  /\ sent \subseteq sent' /\ refused \subseteq refused' /\ toServer \subseteq toServer'
         /\ answered \subseteq answered' /\ toClient \subseteq toClient' /\ wants \subseteq wants'
         /\ nextID <= nextID'
         /\ (Over => Over') /\ (closed => closed') /\ (cancelled => cancelled')
         /\ (injector => injector')
<1>0. nextID \in Nat
  BY DEF TypeOK
<1>1. CASE SetInterceptor
  BY <1>0, <1>1 DEF SetInterceptor, shared, Over
<1>2. CASE SetToolInjector
  BY <1>0, <1>2 DEF SetToolInjector, shared, Over
<1>3. CASE pumpClientToServer
  <2>1. ASSUME NEW f, ReadClient(f)
        PROVE  /\ sent \subseteq sent'
               /\ UNCHANGED <<refused, toServer, answered, toClient, wants, nextID, closed,
                              cancelled, injector>>
    BY <2>1 DEF ReadClient, shared, seams
  <2> QED BY <1>0, <1>3, <2>1 DEF pumpClientToServer, Refuse, Allow, noteListRequest,
            forwardClientFrame, WriteServer, EndClientPump, shared, seams, Over
<1>4. CASE pumpServerToClient
  <2>1. ASSUME NEW f, ReadServer(f)
        PROVE  /\ answered \subseteq answered'
               /\ UNCHANGED <<refused, toServer, sent, toClient, wants, nextID, closed,
                              cancelled, injector>>
    BY <2>1 DEF ReadServer, shared, seams
  <2>2. CASE routeServerFrame \/ maybeInjectTools \/ DeliverInjected \/ EndServerPump
    <3>1. UNCHANGED <<sent, refused, toServer, answered, toClient, wants, nextID, closed,
                      cancelled, injector>>
      BY <2>2 DEF routeServerFrame, maybeInjectTools, DeliverInjected, EndServerPump, shared,
                  seams
    <3> QED BY <1>0, <3>1 DEF Over
  <2>3. CASE WriteClient
    BY <1>0, <2>3 DEF WriteClient, shared, seams, Over
  <2> QED BY <1>0, <1>4, <2>1, <2>2, <2>3 DEF pumpServerToClient, Over
<1>5. ASSUME NEW t \in Injectors, Inject(t)
      PROVE  /\ toServer \subseteq toServer' /\ nextID <= nextID'
             /\ UNCHANGED <<sent, refused, answered, toClient, wants, closed, cancelled, injector>>
  BY <1>0, <1>5 DEF Inject, InjectRegister, InjectClosed, InjectSend, InjectReceive,
            InjectCancelled, InjectReturn, shared, seams
<1>6. CASE Cancel
  BY <1>0, <1>6 DEF Cancel, shared, seams, Over
<1>7. CASE close
  BY <1>0, <1>7 DEF close, seams, Over
<1>8. CASE UNCHANGED vars
  BY <1>0, <1>8 DEF vars, Over
<1> QED BY <1>1, <1>2, <1>3, <1>4, <1>5, <1>6, <1>7, <1>8 DEF Next, Over

-----------------------------------------------------------------------------
(* The client's side of the pipe.                                           *)

\* Requests reach the server once each, under ids of their own (proxy.go:185-204, 237-273).
LEMMA ServersKept ==
  ASSUME Faith, TypeOK', [Next]_vars
  PROVE  Servers'
<1> USE DEF Faith
<1>1. /\ \A f \in toServer : f \in Frame /\ AtServer(f)
      /\ UniqueIdsAtServer
      /\ \A f, g \in toServer : Mine(f) /\ Mine(g) /\ f.ask = g.ask => f = g
      /\ answered \subseteq toServer /\ refused \subseteq sent
  BY DEF Servers, TypeOK
<1>2. sent \subseteq sent' /\ nextID <= nextID' /\ toServer \subseteq toServer'
  BY Growing
<1>3. ASSUME UNCHANGED refused, NEW f \in Frame, AtServer(f) PROVE AtServer(f)'
  BY <1>1, <1>2, <1>3, AtServerKept DEF AtServer, Mine, InjectedRequest
<1>4. ASSUME UNCHANGED <<toServer, refused>>, answered' \subseteq toServer PROVE Servers'
  BY <1>1, <1>2, <1>3, <1>4 DEF Servers, UniqueIdsAtServer, Mine
<1>5. ASSUME UNCHANGED <<toServer, refused, answered>> PROVE Servers'
  BY <1>1, <1>4, <1>5
<1>6. CASE SetInterceptor \/ SetToolInjector \/ Cancel \/ close \/ UNCHANGED vars
  BY <1>5, <1>6 DEF SetInterceptor, SetToolInjector, Cancel, close, vars
<1>7. CASE pumpClientToServer
  <2>1. ASSUME NEW f, ReadClient(f) PROVE Servers'
    BY <1>5, <2>1 DEF ReadClient
  <2>2. CASE Refuse
    <3>1. /\ c2s.line = ClientRequest(c2s.line.id)
          /\ c2s.line.ask \in sent
          /\ \A f \in toServer : Mine(f) => f.ask # c2s.line.ask
      BY <2>2 DEF Refuse, Upward
    <3>2. c2s.line.ask = c2s.line.id
      BY <3>1, Fields
    <3>3. /\ refused' = refused \cup {c2s.line.id}
          /\ UNCHANGED <<toServer, answered, sent, nextID>>
      BY <2>2 DEF Refuse, shared
    <3>4. \A f \in toServer : AtServer(f)'
      BY <1>1, <3>1, <3>2, <3>3 DEF AtServer, Mine, InjectedRequest
    <3> QED BY <1>1, <3>1, <3>2, <3>3, <3>4 DEF Servers, UniqueIdsAtServer, Mine
  <2>3. CASE Allow \/ noteListRequest \/ forwardClientFrame \/ EndClientPump
    BY <1>5, <2>3 DEF Allow, noteListRequest, forwardClientFrame, EndClientPump
  <2>4. CASE WriteServer
    <3>1. CASE c2s.line.kind # "req"
      BY <1>5, <2>4, <3>1 DEF WriteServer
    <3>2. CASE c2s.line.kind = "req"
      <4>0. PICK l \in Frame : l = c2s.line
        BY DEF TypeOK
      <4>1. /\ AtServer(l) /\ Mine(l)
            /\ \A f \in toServer : f.id # l.id
            /\ \A f \in toServer : Mine(f) => f.ask # l.ask
        BY <2>4, <3>2, <4>0 DEF WriteServer, Upward
      <4>2. /\ toServer' = toServer \cup {l}
            /\ UNCHANGED <<refused, answered, sent, nextID>>
        BY <2>4, <3>2, <4>0 DEF WriteServer, shared
      <4>4. ASSUME NEW f \in toServer' PROVE AtServer(f)'
        <5>1. f \in Frame /\ AtServer(f)
          BY <1>1, <4>1, <4>2
        <5> QED BY <1>3, <4>2, <5>1
      <4>5. UniqueIdsAtServer'
        BY <1>1, <4>1, <4>2 DEF UniqueIdsAtServer
      <4>6. \A f, g \in toServer' : Mine(f) /\ Mine(g) /\ f.ask = g.ask => f = g
        BY <1>1, <4>1, <4>2
      <4> QED BY <1>1, <4>2, <4>4, <4>5, <4>6 DEF Servers, Mine
    <3> QED BY <3>1, <3>2
  <2> QED BY <1>7, <2>1, <2>2, <2>3, <2>4 DEF pumpClientToServer
<1>8. CASE pumpServerToClient
  <2>1. ASSUME NEW f, ReadServer(f) PROVE Servers'
    BY <1>1, <1>4, <2>1 DEF ReadServer
  <2> QED BY <1>5, <1>8, <2>1 DEF pumpServerToClient, routeServerFrame, DeliverInjected,
             maybeInjectTools, WriteClient, EndServerPump
<1>9. ASSUME NEW t \in Injectors, Inject(t) PROVE Servers'
  <2>1. CASE toServer' = toServer
    BY <1>5, <1>9, <2>1 DEF Inject, InjectRegister, InjectClosed, InjectSend, InjectReceive,
                            InjectCancelled, InjectReturn
  <2>2. CASE toServer' # toServer
    <3>0. PICK new \in Frame : new = InjectedRequest(inj[t].id)
      BY FramesTyped DEF TypeOK, Call
    <3>1. InjectSend(t)
      BY <1>9, <2>2 DEF Inject, InjectRegister, InjectClosed, InjectReceive,
                        InjectCancelled, InjectReturn
    <3>2. /\ toServer' = toServer \cup {new}
          /\ UNCHANGED <<refused, answered, sent, nextID>>
      BY <2>2, <3>0, <3>1 DEF InjectSend, shared
    <3>3. Reserved(inj[t].id) /\ inj[t].id.n <= nextID /\ new \notin toServer
      <4>1. inj[t].pc = "send" /\ CallOf(inj[t])
        BY <3>1 DEF InjectSend, Injected
      <4> QED BY <3>0, <4>1 DEF CallOf, Correlation, IdsBelowNext
    <3>4. new.kind = "req" /\ ~new.tools /\ new.id = inj[t].id /\ new.by = "harness"
      BY <3>0, Fields
    <3>5. AtServer(new)
      BY <3>0, <3>3, <3>4 DEF AtServer
    <3>6. \A f \in toServer : f.id # new.id
      <4> SUFFICES ASSUME NEW f \in toServer, f.id = inj[t].id PROVE FALSE
        BY <3>4
      <4>1. AtServer(f)
        BY <1>1
      <4>2. f.id.ns = "aw"
        BY <3>3 DEF Reserved
      <4>3. f = InjectedRequest(f.id)
        BY <4>1, <4>2 DEF AtServer, Reserved
      <4> QED BY <3>0, <3>3, <4>3
    <3>7. ASSUME NEW f \in toServer' PROVE AtServer(f)'
      <4>1. f \in Frame /\ AtServer(f)
        BY <1>1, <3>2, <3>5
      <4> QED BY <1>3, <3>2, <4>1
    <3>8. UniqueIdsAtServer'
      BY <1>1, <3>2, <3>6 DEF UniqueIdsAtServer
    <3>9. \A f, g \in toServer' : Mine(f) /\ Mine(g) /\ f.ask = g.ask => f = g
      BY <1>1, <3>2, <3>4 DEF Mine
    <3> QED BY <1>1, <3>2, <3>7, <3>8, <3>9 DEF Servers, Mine
  <2> QED BY <2>1, <2>2
<1> QED BY <1>6, <1>7, <1>8, <1>9 DEF Next

\* The line the client pump holds stays new to the server, and a remapped one can be restored
\* (proxy.go:237-273, 373-401).
LEMMA UpwardKept ==
  ASSUME Faith, TypeOK', [Next]_vars
  PROVE  Upward'
<1> USE DEF Faith
<1>1. /\ \A f \in toServer : f \in Frame /\ AtServer(f)
      /\ refused \subseteq sent
      /\ c2s \in [pc : {"read", "intercept", "note", "forward", "write", "done"}, line : Frame]
  BY DEF Servers, TypeOK
<1>2. sent \subseteq sent' /\ nextID <= nextID'
  BY Growing
<1>3. ASSUME UNCHANGED <<c2s, refused>>,
             \A f \in toServer' : f \in toServer \/ (Reserved(f.id) /\ ~Mine(f)),
             c2s.pc = "write" /\ c2s.line.kind = "req" /\ c2s.line.id.ns = "awr" =>
               /\ c2s.line.id \in DOMAIN remapped'
               /\ remapped'[c2s.line.id] = remapped[c2s.line.id]
      PROVE  Upward'
  <2>1. c2s.pc = "write" /\ c2s.line.kind = "req" => AtServer(c2s.line)'
    <3> SUFFICES ASSUME c2s.pc = "write", c2s.line.kind = "req" PROVE AtServer(c2s.line)'
      OBVIOUS
    <3>1. PICK l \in Frame : l = c2s.line
      BY <1>1
    <3>2. AtServer(l)
      BY <3>1 DEF Upward
    <3>3. AtServer(l)'
      BY <1>2, <1>3, <3>2, AtServerKept DEF AtServer, Mine, InjectedRequest
    <3> QED BY <1>3, <3>1, <3>3 DEF AtServer, Mine, InjectedRequest
  <2>2. c2s.pc = "write" /\ c2s.line.kind = "req" => ~Reserved(c2s.line.id)
    BY DEF Correlation, ReservedAtServer
  <2> QED BY <1>2, <1>3, <2>1, <2>2 DEF Upward, Mine
<1>4. ASSUME UNCHANGED <<c2s, refused, toServer, remapped>> PROVE Upward'
  <2>1. c2s.pc = "write" /\ c2s.line.kind = "req" /\ c2s.line.id.ns = "awr" =>
          c2s.line.id \in DOMAIN remapped'
    BY <1>4 DEF Upward
  <2> QED BY <1>3, <1>4, <2>1
<1>5. CASE SetInterceptor \/ SetToolInjector \/ Cancel \/ close \/ UNCHANGED vars
  BY <1>4, <1>5 DEF SetInterceptor, SetToolInjector, Cancel, close, vars, shared
<1>6. CASE pumpClientToServer
  <2>1. ASSUME NEW f, ReadClient(f) PROVE Upward'
    <3>1. /\ c2s' = [pc |-> "intercept", line |-> f] /\ UNCHANGED <<refused, toServer>>
          /\ f.kind = "req" => sent' = sent \cup {f.id}
      BY <2>1 DEF ReadClient
    <3>2. CASE f.kind # "req"
      BY <3>1, <3>2 DEF Upward
    <3>3. CASE f.kind = "req"
      <4>1. PICK i \in Client \ sent : f = ClientRequest(i)
        BY <2>1, <3>3, Fields DEF ReadClient, ClientFrame
      <4>2. f.id = i /\ f.ask = i
        BY <4>1, Fields
      <4>3. \A g \in toServer : Mine(g) => g.ask \in sent
        BY <1>1, Fields DEF AtServer, Mine
      <4> QED BY <1>1, <3>1, <3>3, <4>1, <4>2, <4>3 DEF Upward, Mine
    <3> QED BY <3>2, <3>3
  <2>2. CASE Refuse \/ WriteServer \/ EndClientPump
    <3>1. c2s'.pc \in {"read", "done"}
      BY <2>2 DEF Refuse, WriteServer, EndClientPump, Reading, Done
    <3> QED BY <3>1 DEF Upward
  <2>3. CASE Allow \/ noteListRequest
    <3>1. /\ c2s.pc \in {"intercept", "note"}
          /\ c2s'.pc \in {"note", "forward"} /\ c2s'.line = c2s.line
          /\ UNCHANGED <<refused, sent, toServer>>
      BY <1>1, <2>3 DEF Allow, noteListRequest
    <3> QED BY <3>1 DEF Upward, Mine
  <2>4. CASE forwardClientFrame
    <3>1. c2s.pc = "forward" /\ UNCHANGED <<refused, sent, toServer>> /\ c2s'.pc = "write"
      BY <1>1, <2>4 DEF forwardClientFrame
    <3>2. CASE c2s.line.kind # "req"
      <4>1. c2s'.line.kind # "req"
        BY <1>1, <2>4, <3>2 DEF forwardClientFrame, Trespasses
      <4> QED BY <3>1, <4>1 DEF Upward
    <3>3. CASE c2s.line.kind = "req"
      <4>0. PICK l \in Frame : l = c2s'.line
        BY DEF TypeOK
      <4>1. PICK i \in Client : c2s.line = ClientRequest(i) /\ c2s.line.id = i
        BY <3>1, <3>3 DEF Upward
      <4>2. /\ c2s.line.ask = i /\ i \in sent /\ i \notin refused
            /\ \A f \in toServer : Mine(f) => f.ask # i
        BY <3>1, <3>3, <4>1, Fields DEF Upward
      <4>3. i.ns # "awr" /\ i \in Id /\ nextID \in Nat
        BY ProxyConstants DEF PlainClients, TypeOK
      <4>4. /\ l.kind = "req" /\ l.by = "client" /\ l.ask = i /\ l.tools = FALSE
            /\ l.list = (i \in Lister)
        BY <1>1, <2>4, <4>0, <4>1, Fields DEF forwardClientFrame, rewriteID, Frame
      <4>5. CASE Reserved(i)
        <5>1. /\ nextID' = nextID + 1 /\ l.id = RemapId(nextID + 1)
              /\ remapped' = Put(remapped, RemapId(nextID + 1), i)
          BY <1>1, <2>4, <3>3, <4>0, <4>1, <4>5
             DEF forwardClientFrame, Trespasses, rewriteID, Frame
        <5>2. l.id.ns = "awr" /\ l.id.n = nextID + 1
          BY <5>1 DEF RemapId
        <5>3. ASSUME NEW f \in toServer PROVE f.id # l.id
          <6>1. f.id.n \in Nat /\ AtServer(f)
            BY <1>1 DEF Frame, Id
          <6> QED BY <4>3, <5>2, <6>1 DEF AtServer, Reserved, PlainClients
        <5>4. l.id \in DOMAIN remapped' /\ remapped'[l.id] = i
          BY <5>1 DEF Put
        <5>5. AtServer(l)'
          <6>1. l.id.n <= nextID'
            BY <4>3, <5>1, <5>2
          <6> QED BY <3>1, <4>2, <4>4, <5>2, <6>1 DEF AtServer, Mine
        <5> QED BY <3>1, <4>0, <4>2, <4>4, <5>3, <5>4, <5>5
                DEF Upward, AtServer, Mine, InjectedRequest
      <4>6. CASE ~Reserved(i)
        <5>1. l.id = i
          BY <1>1, <2>4, <3>3, <4>0, <4>1, <4>6 DEF forwardClientFrame, Trespasses
        <5>2. ASSUME NEW f \in toServer PROVE f.id # l.id
          <6>1. AtServer(f)
            BY <1>1
          <6> QED BY <4>2, <4>3, <4>6, <5>1, <6>1 DEF AtServer, Reserved
        <5>3. AtServer(l)'
          BY <3>1, <4>2, <4>4, <4>6, <5>1 DEF AtServer, Mine
        <5> QED BY <3>1, <4>0, <4>2, <4>3, <4>4, <5>1, <5>2, <5>3
                DEF Upward, AtServer, Mine, InjectedRequest
      <4> QED BY <4>5, <4>6
    <3> QED BY <3>2, <3>3
  <2> QED BY <1>6, <2>1, <2>2, <2>3, <2>4 DEF pumpClientToServer
<1>7. CASE pumpServerToClient
  <2>1. ASSUME NEW f, ReadServer(f) PROVE Upward'
    BY <1>4, <2>1 DEF ReadServer, shared
  <2>2. CASE routeServerFrame
    <3>1. UNCHANGED <<c2s, refused, toServer>>
      BY <2>2 DEF routeServerFrame
    <3>2. CASE remapped' = remapped
      BY <1>4, <3>1, <3>2
    <3>3. CASE remapped' # remapped
      <4>1. s2c.pc = "route" /\ IsResponse(s2c.line) /\ remapped' = Delete(remapped, s2c.line.id)
        BY <2>2, <3>3 DEF routeServerFrame
      <4>2. PICK r \in answered : s2c.line \in Answers(r)
        BY <4>1 DEF Downward
      <4>3. r \in toServer /\ r \in Frame
        BY <1>1 DEF Servers
      <4>4. s2c.line.id = r.id
        BY <4>2, <4>3, AnswerFields
      <4>5. ASSUME c2s.pc = "write", c2s.line.kind = "req", c2s.line.id.ns = "awr"
            PROVE  /\ c2s.line.id \in DOMAIN remapped'
                   /\ remapped'[c2s.line.id] = remapped[c2s.line.id]
        <5>1. c2s.line.id # r.id /\ c2s.line.id \in DOMAIN remapped
          BY <4>3, <4>5 DEF Upward
        <5> QED BY <4>1, <4>4, <5>1 DEF Delete
      <4> QED BY <1>3, <3>1, <4>5
    <3> QED BY <3>2, <3>3
  <2> QED BY <1>4, <1>7, <2>1, <2>2 DEF pumpServerToClient, DeliverInjected, maybeInjectTools,
             WriteClient, EndServerPump, shared
<1>8. ASSUME NEW t \in Injectors, Inject(t) PROVE Upward'
  <2>1. CASE InjectSend(t)
    <3>1. UNCHANGED <<c2s, refused, remapped>>
      BY <2>1 DEF InjectSend, shared
    <3>2. Reserved(inj[t].id)
      BY <2>1 DEF InjectSend, Injected, CallOf
    <3>3. \A f \in toServer' : f \in toServer \/ (Reserved(f.id) /\ ~Mine(f))
      BY <2>1, <3>2, Fields DEF InjectSend, Mine
    <3>4. c2s.pc = "write" /\ c2s.line.kind = "req" /\ c2s.line.id.ns = "awr" =>
            c2s.line.id \in DOMAIN remapped'
      BY <3>1 DEF Upward
    <3> QED BY <1>3, <3>1, <3>3, <3>4
  <2> QED BY <1>4, <1>8, <2>1 DEF Inject, InjectRegister, InjectClosed, InjectReceive,
             InjectCancelled, InjectReturn, shared
<1> QED BY <1>5, <1>6, <1>7, <1>8 DEF Next

-----------------------------------------------------------------------------
(* What the server owes.                                                    *)

\* An answer, once routed, is never owed again (proxy.go:403-440).
LEMMA OwedOnce ==
  ASSUME Faith, [Next]_vars, NEW f \in toServer, Owed(f)'
  PROVE  Owed(f)
<1> USE DEF Faith
<1>1. answered \subseteq answered' /\ f \in Frame /\ f.kind = "req"
  BY Growing DEF TypeOK, Servers, AtServer
<1>2. CASE s2c' = s2c
  BY <1>1, <1>2 DEF Owed
<1>3. CASE s2c'.pc # "route"
  BY <1>1, <1>3 DEF Owed
<1>4. ASSUME NEW g, ReadServer(g) PROVE Owed(f)
  <2>1. s2c' = [pc |-> "route", line |-> g]
    BY <1>4 DEF ReadServer, TypeOK
  <2>2. CASE f \notin answered
    BY <2>2 DEF Owed
  <2>3. CASE f \in answered
    <3>1. g \in Answers(f)
      BY <1>1, <2>1, <2>3 DEF Owed
    <3>2. g # ServerRequest
      BY <1>1, <3>1, AnswerFields, Fields DEF IsResponse
    <3>3. PICK r \in toServer \ answered : g \in Answers(r)
      BY <1>4, <3>2 DEF ReadServer, ServerFrame
    <3>4. r = f
      BY <3>1, <3>3, OneOrigin
    <3> QED BY <3>3, <3>4 DEF Owed
  <2> QED BY <2>2, <2>3
<1>5. CASE pumpServerToClient
  <2>1. CASE routeServerFrame
    <3>1. s2c'.pc # "route"
      BY <2>1 DEF routeServerFrame, TypeOK
    <3> QED BY <1>3, <3>1
  <2>2. CASE maybeInjectTools
    <3>1. s2c'.pc # "route"
      BY <2>2 DEF maybeInjectTools
    <3> QED BY <1>3, <3>1
  <2>3. CASE DeliverInjected \/ WriteClient \/ EndServerPump
    <3>1. s2c' = Reading \/ s2c' = Done
      BY <2>3 DEF DeliverInjected, WriteClient, EndServerPump
    <3>2. s2c'.pc # "route"
      BY <3>1 DEF Reading, Done
    <3> QED BY <1>3, <3>2
  <2> QED BY <1>4, <1>5, <2>1, <2>2, <2>3 DEF pumpServerToClient
<1>6. CASE pumpClientToServer
  <2>1. ASSUME NEW g, ReadClient(g) PROVE s2c' = s2c
    BY <2>1 DEF ReadClient
  <2> QED BY <1>2, <1>6, <2>1 DEF pumpClientToServer, Refuse, Allow, noteListRequest,
            forwardClientFrame, WriteServer, EndClientPump
<1>7. ASSUME NEW t \in Injectors, Inject(t) PROVE Owed(f)
  BY <1>2, <1>7 DEF Inject, InjectRegister, InjectClosed, InjectSend, InjectReceive,
            InjectCancelled, InjectReturn
<1>8. CASE SetInterceptor \/ SetToolInjector \/ Cancel \/ close \/ UNCHANGED vars
  BY <1>2, <1>8 DEF SetInterceptor, SetToolInjector, Cancel, close, vars
<1> QED BY <1>5, <1>6, <1>7, <1>8 DEF Next

\* When the server pump has routed the answer it holds, no other request under that id is owed
\* one.
LEMMA RoutedIsLast ==
  ASSUME Faith, routeServerFrame, IsResponse(s2c.line)
  PROVE  /\ \E r \in answered : s2c.line \in Answers(r)
         /\ \A r \in answered : s2c.line \in Answers(r) =>
              /\ r \in toServer /\ r \in Frame /\ AtServer(r)
              /\ s2c.line.id = r.id /\ s2c.line.by = r.by /\ s2c.line.ask = r.ask
              /\ s2c.line.list = r.list
         /\ \A f \in toServer : Owed(f)' => Owed(f) /\ f \notin answered /\ f.id # s2c.line.id
<1> USE DEF Faith
<1>1. s2c.pc = "route" /\ s2c'.pc # "route" /\ UNCHANGED <<answered, toServer>>
  BY DEF routeServerFrame, TypeOK
<1>2. \E r \in answered : s2c.line \in Answers(r)
  BY <1>1 DEF Downward
<1>3. ASSUME NEW r \in answered, s2c.line \in Answers(r)
      PROVE  /\ r \in toServer /\ r \in Frame /\ AtServer(r)
             /\ s2c.line.id = r.id /\ s2c.line.by = r.by /\ s2c.line.ask = r.ask
             /\ s2c.line.list = r.list
  <2>1. r \in toServer /\ r \in Frame /\ AtServer(r)
    BY DEF Servers, TypeOK
  <2> QED BY <1>3, <2>1, AnswerFields
<1>4. ASSUME NEW f \in toServer, Owed(f)'
      PROVE  Owed(f) /\ f \notin answered /\ f.id # s2c.line.id
  <2>1. f \notin answered
    BY <1>1, <1>4 DEF Owed
  <2>2. PICK r \in answered : s2c.line \in Answers(r)
    BY <1>2
  <2>3. r \in toServer /\ s2c.line.id = r.id /\ r.kind = "req" /\ f.kind = "req" /\ f # r
    BY <1>3, <2>1, <2>2 DEF Servers, AtServer
  <2>4. f.id # r.id
    BY <2>3 DEF Servers, UniqueIdsAtServer
  <2> QED BY <2>1, <2>3, <2>4 DEF Owed
<1> QED BY <1>2, <1>3, <1>4

\* The client's id of a remapped request is there until the answer is routed
\* (proxy.go:391-440).
LEMMA RemapsKept ==
  ASSUME Faith, TypeOK', [Next]_vars
  PROVE  Remaps'
<1> USE DEF Faith
<1>1. /\ \A i \in DOMAIN remapped : i.ns = "awr"
      /\ \A f \in toServer : f.id.ns = "awr" /\ Owed(f) =>
           f.id \in DOMAIN remapped /\ remapped[f.id] = f.ask
      /\ \A f \in toServer : f \in Frame /\ AtServer(f) /\ (Owed(f)' => Owed(f))
  BY OwedOnce DEF Remaps, Servers, TypeOK
<1>2. ASSUME UNCHANGED remapped,
             \A f \in toServer' : f.id.ns = "awr" /\ f \notin toServer =>
               f.id \in DOMAIN remapped /\ remapped[f.id] = f.ask
      PROVE  Remaps'
  BY <1>1, <1>2 DEF Remaps
<1>3. ASSUME UNCHANGED <<remapped, toServer>> PROVE Remaps'
  BY <1>2, <1>3
<1>4. CASE SetInterceptor \/ SetToolInjector \/ Cancel \/ close \/ UNCHANGED vars
  BY <1>3, <1>4 DEF SetInterceptor, SetToolInjector, Cancel, close, vars, shared
<1>5. CASE pumpClientToServer
  <2>1. ASSUME NEW f, ReadClient(f) PROVE Remaps'
    BY <1>3, <2>1 DEF ReadClient, shared
  <2>2. CASE forwardClientFrame
    <3>1. CASE ~Trespasses(c2s.line)
      BY <1>3, <2>2, <3>1 DEF forwardClientFrame
    <3>2. CASE Trespasses(c2s.line)
      <4> DEFINE new == RemapId(nextID + 1)
      <4>1. remapped' = Put(remapped, new, c2s.line.id) /\ UNCHANGED toServer
        BY <2>2, <3>2 DEF forwardClientFrame
      <4>2. new.ns = "awr" /\ new.n = nextID + 1
        BY DEF RemapId
      <4>3. ASSUME NEW f \in toServer, f.id.ns = "awr" PROVE f.id # new
        <5>1. nextID \in Nat /\ f.id.n \in Nat /\ AtServer(f)
          BY <1>1 DEF TypeOK, Frame, Id
        <5>2. f.ask \in Client => f.ask.ns # "awr"
          BY DEF PlainClients
        <5> QED BY <4>2, <4>3, <5>1, <5>2 DEF AtServer, Reserved
      <4> HIDE DEF new
      <4>4. /\ \A i \in DOMAIN remapped' : i = new \/ i \in DOMAIN remapped
            /\ \A i \in DOMAIN remapped : i # new =>
                 i \in DOMAIN remapped' /\ remapped'[i] = remapped[i]
        BY <4>1 DEF Put
      <4> QED BY <1>1, <4>1, <4>2, <4>3, <4>4 DEF Remaps
    <3> QED BY <3>1, <3>2
  <2>3. CASE WriteServer
    <3>1. UNCHANGED remapped
      BY <2>3 DEF WriteServer, shared
    <3>2. \A f \in toServer' : f.id.ns = "awr" /\ f \notin toServer =>
            f.id \in DOMAIN remapped /\ remapped[f.id] = f.ask
      BY <2>3 DEF WriteServer, Upward
    <3> QED BY <1>2, <3>1, <3>2
  <2> QED BY <1>3, <1>5, <2>1, <2>2, <2>3 DEF pumpClientToServer, Refuse, Allow,
             noteListRequest, EndClientPump, shared
<1>6. CASE pumpServerToClient
  <2>1. ASSUME NEW f, ReadServer(f) PROVE Remaps'
    BY <1>3, <2>1 DEF ReadServer, shared
  <2>2. CASE routeServerFrame
    <3>1. UNCHANGED toServer
      BY <2>2 DEF routeServerFrame
    <3>2. CASE remapped' = remapped
      BY <1>3, <3>1, <3>2
    <3>3. CASE remapped' # remapped
      <4>1. IsResponse(s2c.line) /\ remapped' = Delete(remapped, s2c.line.id)
        BY <2>2, <3>3 DEF routeServerFrame
      <4>2. \A f \in toServer : Owed(f)' => Owed(f) /\ f.id # s2c.line.id
        BY <2>2, <4>1, RoutedIsLast
      <4>3. /\ DOMAIN remapped' \subseteq DOMAIN remapped
            /\ \A i \in DOMAIN remapped : i # s2c.line.id =>
                 i \in DOMAIN remapped' /\ remapped'[i] = remapped[i]
        BY <4>1 DEF Delete
      <4> QED BY <1>1, <3>1, <4>2, <4>3 DEF Remaps
    <3> QED BY <3>2, <3>3
  <2> QED BY <1>3, <1>6, <2>1, <2>2 DEF pumpServerToClient, DeliverInjected, maybeInjectTools,
             WriteClient, EndServerPump, shared
<1>7. ASSUME NEW t \in Injectors, Inject(t) PROVE Remaps'
  <2>1. CASE InjectSend(t)
    <3>1. UNCHANGED remapped
      BY <2>1 DEF InjectSend, shared
    <3>2. inj[t].id.ns = "aw"
      BY <2>1 DEF InjectSend, Injected, CallOf, Reserved
    <3>3. \A f \in toServer' : f \in toServer \/ f.id.ns = "aw"
      BY <2>1, <3>2, Fields DEF InjectSend
    <3> QED BY <1>2, <3>1, <3>3
  <2> QED BY <1>3, <1>7, <2>1 DEF Inject, InjectRegister, InjectClosed, InjectReceive,
             InjectCancelled, InjectReturn, shared
<1> QED BY <1>4, <1>5, <1>6, <1>7 DEF Next

-----------------------------------------------------------------------------
(* Injected requests.                                                       *)

\* A request with a reserved id is the injected one of that id.
LEMMA ReservedIsInjected ==
  ASSUME Faith, NEW f \in toServer, Reserved(f.id) \/ f.by = "harness"
  PROVE  f = InjectedRequest(f.id) /\ Reserved(f.id) /\ f.id.n <= nextID
<1>1. AtServer(f)
  BY DEF Faith, Servers
<1> QED BY <1>1 DEF AtServer, Reserved, Mine

\* While the session lives, a request of the harness that is not answered has its sink, and
\* Inject knows where it stands (proxy.go:185-226, 403-452).
LEMMA InjectedKept ==
  ASSUME Faith, TypeOK', [Next]_vars
  PROVE  Injected'
<1> USE DEF Faith
<1>0. /\ \A f \in toServer : f.by = "harness" /\ Owed(f) => f.id \in pending \/ Over
      /\ \A t \in Injectors : CallOf(inj[t]) /\ inj[t] \in Call
      /\ \A t, u \in Injectors : Reserved(inj[t].id) /\ inj[u].id = inj[t].id => t = u
      /\ \A f \in toServer : Owed(f)' => Owed(f)
  BY OwedOnce DEF Injected, TypeOK
<1>1. (Over => Over') /\ (closed => closed') /\ (cancelled => cancelled')
      /\ toServer \subseteq toServer'
  BY Growing
<1>2. ASSUME UNCHANGED <<pending, inj>>,
             \A f \in toServer' : f \in toServer \/ f.by # "harness"
      PROVE  Injected'
  <2>1. ASSUME NEW t \in Injectors PROVE CallOf(inj[t])'
    <3>1. PICK q : q = InjectedRequest(inj[t].id)
      OBVIOUS
    <3>2. q.by = "harness"
      BY <3>1, Fields
    <3>3. q \in toServer' <=> q \in toServer
      BY <1>1, <1>2, <3>2
    <3>4. q \in toServer /\ Owed(q)' => Owed(q)
      BY <1>0
    <3>5. CallOf(inj[t])
      BY <1>0
    <3> QED BY <1>1, <1>2, <3>1, <3>3, <3>4, <3>5 DEF CallOf, Owed, Over
  <2>2. \A f \in toServer' : f.by = "harness" /\ Owed(f)' => f.id \in pending' \/ Over'
    BY <1>0, <1>1, <1>2
  <2> QED BY <1>0, <1>2, <2>1, <2>2 DEF Injected
<1>3. ASSUME UNCHANGED <<pending, inj, toServer>> PROVE Injected'
  BY <1>2, <1>3
<1>4. CASE SetInterceptor \/ SetToolInjector \/ Cancel \/ UNCHANGED vars
  BY <1>3, <1>4 DEF SetInterceptor, SetToolInjector, Cancel, vars, shared
<1>5. CASE pumpClientToServer
  <2>1. ASSUME NEW f, ReadClient(f) PROVE Injected'
    BY <1>3, <2>1 DEF ReadClient, shared
  <2>2. CASE WriteServer
    <3>1. UNCHANGED <<pending, inj>>
      BY <2>2 DEF WriteServer, shared
    <3>2. \A f \in toServer' : f \in toServer \/ f.by # "harness"
      BY <2>2 DEF WriteServer, Upward, Mine
    <3> QED BY <1>2, <3>1, <3>2
  <2> QED BY <1>3, <1>5, <2>1, <2>2 DEF pumpClientToServer, Refuse, Allow, noteListRequest,
             forwardClientFrame, EndClientPump, shared
<1>6. CASE routeServerFrame
  <2>1. UNCHANGED <<inj, toServer>>
    BY <1>6 DEF routeServerFrame
  <2>2. CASE pending' = pending
    BY <1>3, <2>1, <2>2
  <2>3. CASE pending' # pending
    <3>1. /\ IsResponse(s2c.line) /\ pending' = pending \ {s2c.line.id}
          /\ s2c.line.id \in pending
      BY <1>6, <2>3 DEF routeServerFrame
    <3>2. PICK r \in answered : s2c.line \in Answers(r)
      BY <1>6, <3>1, RoutedIsLast
    <3>3. r \in toServer /\ s2c.line.id = r.id /\ Reserved(r.id)
      BY <1>6, <3>1, <3>2, RoutedIsLast DEF Correlation, IdsBelowNext
    <3>4. r = InjectedRequest(r.id)
      BY <3>3, ReservedIsInjected
    <3>5. \A f \in toServer : Owed(f)' => Owed(f) /\ f.id # s2c.line.id
      BY <1>6, <3>1, RoutedIsLast
    <3>6. ASSUME NEW t \in Injectors PROVE CallOf(inj[t])'
      <4>1. PICK q : q = InjectedRequest(inj[t].id)
        OBVIOUS
      <4>2. q \in toServer /\ Owed(q)' => Owed(q)
        BY <1>0
      <4>3. CallOf(inj[t])
        BY <1>0
      <4>4. inj[t].pc = "send" => inj[t].id # s2c.line.id
        BY <3>3, <3>4, <4>3 DEF CallOf
      <4> QED BY <1>1, <2>1, <3>1, <4>1, <4>2, <4>3, <4>4 DEF CallOf, Owed, Over
    <3>7. \A f \in toServer' : f.by = "harness" /\ Owed(f)' => f.id \in pending' \/ Over'
      BY <1>0, <1>1, <2>1, <3>1, <3>5
    <3> QED BY <1>0, <2>1, <3>6, <3>7 DEF Injected
  <2> QED BY <2>2, <2>3
<1>7. CASE DeliverInjected
  <2>1. /\ s2c.pc = "deliver" /\ s2c'.pc = "read"
        /\ UNCHANGED <<pending, closed, cancelled, toServer, answered>>
    BY <1>7 DEF DeliverInjected, shared, Reading
  <2>2. /\ IsResponse(s2c.line) /\ Reserved(s2c.line.id)
        /\ \A t \in Injectors : inj[t].id = s2c.line.id => inj[t].sink = "open"
    BY <2>1 DEF Correlation, SinksOpen, SinkReadyForSend
  <2>3. PICK r \in answered : s2c.line \in Answers(r)
    BY <2>1, <2>2 DEF Downward
  <2>4. r \in toServer /\ r \in Frame
    BY DEF Servers, TypeOK
  <2>5. s2c.line.id = r.id
    BY <2>3, <2>4, AnswerFields
  <2>6. r = InjectedRequest(r.id)
    BY <2>2, <2>4, <2>5, ReservedIsInjected
  <2>7. \A f \in toServer : Owed(f)' <=> f \notin answered
    BY <2>1 DEF Owed
  <2>8. ASSUME NEW t \in Injectors
        PROVE  /\ CallOf(inj[t])'
               /\ inj'[t].id = inj[t].id
    <3>1. PICK q : q = InjectedRequest(inj[t].id)
      OBVIOUS
    <3>2. q \in toServer /\ Owed(q)' => Owed(q)
      BY <1>0
    <3>3. CallOf(inj[t]) /\ inj[t] \in Call
      BY <1>0
    <3>4. CASE inj[t].id # s2c.line.id
      <4>1. inj'[t] = inj[t]
        BY <1>7, <3>4 DEF DeliverInjected
      <4> QED BY <2>1, <3>1, <3>2, <3>3, <4>1 DEF CallOf, Owed, Over
    <3>5. CASE inj[t].id = s2c.line.id
      <4>1. /\ inj'[t].pc = inj[t].pc /\ inj'[t].id = inj[t].id /\ inj'[t].sink = "full"
            /\ inj'[t].result = inj[t].result
        BY <1>7, <3>3, <3>5 DEF DeliverInjected, Call
      <4>2. q = r /\ q \in toServer /\ ~(Owed(q)')
        BY <2>4, <2>5, <2>6, <2>7, <3>1, <3>5
      <4>3. inj[t].sink = "open" /\ inj[t].pc # "send"
        BY <2>2, <3>1, <3>3, <3>5, <4>2 DEF CallOf
      <4> QED BY <2>1, <2>2, <3>1, <3>3, <3>5, <4>1, <4>2, <4>3 DEF CallOf, Owed
    <3> QED BY <3>4, <3>5
  <2>9. \A f \in toServer' : f.by = "harness" /\ Owed(f)' => f.id \in pending' \/ Over'
    BY <1>0, <1>1, <2>1
  <2> QED BY <1>0, <2>8, <2>9 DEF Injected
<1>8. CASE pumpServerToClient
  <2>1. ASSUME NEW f, ReadServer(f) PROVE Injected'
    BY <1>3, <2>1 DEF ReadServer, shared
  <2> QED BY <1>3, <1>6, <1>7, <1>8, <2>1 DEF pumpServerToClient, maybeInjectTools,
             WriteClient, EndServerPump, shared
<1>9. ASSUME NEW t \in Injectors, Inject(t) PROVE Injected'
  <2>0. UNCHANGED <<s2c, answered, closed, cancelled>>
    BY <1>9 DEF Inject, InjectRegister, InjectClosed, InjectSend, InjectReceive,
             InjectCancelled, InjectReturn, shared
  <2>1. ASSUME CallOf(inj[t])', inj'[t].id = inj[t].id,
               \A u \in Injectors \ {t} : inj'[u] = inj[u],
               \A f \in toServer' : f \in toServer \/ f = InjectedRequest(inj[t].id),
               \A f \in toServer' : f.by = "harness" /\ Owed(f)' => f.id \in pending' \/ Over',
               pending' = pending \/ pending' = pending \ {inj[t].id},
               pending' # pending \/ toServer' # toServer => inj[t].pc # "idle"
        PROVE  Injected'
    <3>1. ASSUME NEW u \in Injectors \ {t} PROVE CallOf(inj[u])'
      <4>1. PICK q : q = InjectedRequest(inj[u].id)
        OBVIOUS
      <4>2. q \in toServer' <=> q \in toServer
        <5>1. CASE inj[u].id # inj[t].id
          BY <1>1, <2>1, <4>1, <5>1, Fields
        <5>2. CASE inj[u].id = inj[t].id
          <6>1. ~Reserved(inj[t].id)
            BY <1>0, <5>2
          <6>2. inj[t].pc = "idle"
            BY <1>0, <6>1 DEF CallOf
          <6> QED BY <2>1, <6>2
        <5> QED BY <5>1, <5>2
      <4>3. q \in toServer /\ Owed(q)' => Owed(q)
        BY <1>0
      <4>4. CallOf(inj[u]) /\ inj'[u] = inj[u]
        BY <1>0, <2>1
      <4>5. inj[u].pc = "send" /\ inj[u].id \in pending => inj[u].id \in pending'
        BY <1>0, <2>1, <4>4 DEF CallOf
      <4> QED BY <2>0, <4>1, <4>2, <4>3, <4>4, <4>5 DEF CallOf, Owed, Over
    <3>2. \A u \in Injectors : inj'[u].id = inj[u].id
      BY <2>1
    <3> QED BY <1>0, <2>1, <3>1, <3>2 DEF Injected
  <2>2. CallOf(inj[t]) /\ inj[t] \in Call
    BY <1>0
  <2>3. PICK q : q = InjectedRequest(inj[t].id)
    OBVIOUS
  <2>4. q \in toServer /\ Owed(q)' => Owed(q)
    BY <1>0
  <2>5. ASSUME UNCHANGED <<pending, toServer>>
        PROVE  /\ \A f \in toServer' : f.by = "harness" /\ Owed(f)' => f.id \in pending' \/ Over'
               /\ q \in toServer' <=> q \in toServer
    BY <1>0, <1>1, <2>5
  <2>6. CASE InjectRegister(t)
    <3>0. PICK new : new = InjectId(nextID + 1)
      OBVIOUS
    <3>1. /\ nextID \in Nat /\ Reserved(new) /\ new.n = nextID + 1
      BY <3>0 DEF InjectId, TypeOK, Reserved
    <3>2. /\ UNCHANGED toServer /\ pending' = pending \cup {new}
          /\ inj'[t].pc = "send" /\ inj'[t].id = new /\ inj'[t].sink = "open"
          /\ \A u \in Injectors \ {t} : inj'[u] = inj[u]
      BY <2>6, <3>0 DEF InjectRegister, TypeOK
    <3>3. \A u \in Injectors : inj[u].id # new
      <4>1. \A u \in Injectors : inj[u].id.n \in Nat
        BY DEF TypeOK, Call, Id
      <4> QED BY <3>1, <4>1 DEF Correlation, IdsBelowNext
    <3>4. InjectedRequest(new) \notin toServer
      <4> SUFFICES ASSUME InjectedRequest(new) \in toServer PROVE FALSE
        OBVIOUS
      <4>1. InjectedRequest(new).id = new /\ InjectedRequest(new).by = "harness"
        BY Fields
      <4>2. new.n <= nextID
        BY <4>1, ReservedIsInjected
      <4> QED BY <3>1, <4>2
    <3>5. CallOf(inj[t])'
      BY <3>1, <3>2, <3>4 DEF CallOf
    <3>6. ASSUME NEW u \in Injectors \ {t} PROVE CallOf(inj[u])'
      <4>1. PICK p : p = InjectedRequest(inj[u].id)
        OBVIOUS
      <4>2. p \in toServer /\ Owed(p)' => Owed(p)
        BY <1>0
      <4>3. CallOf(inj[u]) /\ inj'[u] = inj[u]
        BY <1>0, <3>2
      <4> QED BY <2>0, <3>2, <4>1, <4>2, <4>3 DEF CallOf, Owed, Over
    <3>7. \A f \in toServer' : f.by = "harness" /\ Owed(f)' => f.id \in pending' \/ Over'
      BY <1>0, <1>1, <3>2
    <3>8. \A x, u \in Injectors : Reserved(inj'[x].id) /\ inj'[u].id = inj'[x].id => x = u
      BY <1>0, <3>2, <3>3
    <3> QED BY <3>5, <3>6, <3>7, <3>8 DEF Injected, Reserved
  <2>7. CASE InjectClosed(t)
    <3>1. /\ UNCHANGED <<pending, toServer>> /\ inj[t].pc = "idle"
          /\ inj'[t].pc = "idle" /\ inj'[t].id = inj[t].id /\ inj'[t].sink = inj[t].sink
          /\ \A u \in Injectors \ {t} : inj'[u] = inj[u]
      BY <2>2, <2>7 DEF InjectClosed, shared, Call, TypeOK
    <3>2. CallOf(inj[t])'
      BY <2>0, <2>2, <2>3, <2>4, <3>1 DEF CallOf, Owed
    <3> QED BY <2>1, <2>5, <3>1, <3>2
  <2>8. CASE InjectSend(t)
    <3>1. inj[t].pc = "send" /\ UNCHANGED pending
      BY <2>8 DEF InjectSend, shared
    <3>2. Reserved(inj[t].id) /\ q \notin toServer /\ inj[t].sink # "full"
          /\ (inj[t].id \in pending \/ Over)
      BY <2>2, <2>3, <3>1 DEF CallOf
    <3>3. CASE toServer' = toServer \cup {q} /\ inj' = [inj EXCEPT ![t].pc = "wait"]
      <4>1. /\ inj'[t].pc = "wait" /\ inj'[t].id = inj[t].id /\ inj'[t].sink = inj[t].sink
            /\ \A u \in Injectors \ {t} : inj'[u] = inj[u]
        BY <2>2, <3>3 DEF Call, TypeOK
      <4>2. CallOf(inj[t])'
        BY <2>0, <2>2, <3>2, <4>1 DEF CallOf
      <4>3. q.id = inj[t].id
        BY <2>3, Fields
      <4>4. \A f \in toServer' : f.by = "harness" /\ Owed(f)' => f.id \in pending' \/ Over'
        BY <1>0, <1>1, <3>1, <3>2, <3>3, <4>3
      <4> QED BY <2>1, <2>3, <3>1, <3>3, <4>1, <4>2, <4>4
    <3>4. CASE inj' = Returning(t, "err") /\ UNCHANGED toServer
      <4>1. /\ inj'[t].pc = "return" /\ inj'[t].id = inj[t].id /\ inj'[t].sink = inj[t].sink
            /\ inj'[t].result = "err"
            /\ \A u \in Injectors \ {t} : inj'[u] = inj[u]
        BY <2>2, <3>4 DEF Call, TypeOK, Returning
      <4>2. CallOf(inj[t])'
        BY <2>0, <2>2, <2>3, <3>2, <3>4, <4>1 DEF CallOf
      <4> QED BY <2>1, <2>5, <3>1, <3>4, <4>1, <4>2
    <3> QED BY <2>3, <2>8, <3>3, <3>4 DEF InjectSend
  <2>9. CASE InjectReceive(t) \/ InjectCancelled(t)
    <3>1. inj[t].pc = "wait" /\ UNCHANGED <<pending, toServer>>
      BY <2>9 DEF InjectReceive, InjectCancelled, shared
    <3>2. PICK r \in {"err", "nil", "resp"} :
            /\ inj' = Returning(t, r)
            /\ r = "err" => cancelled
            /\ r = "resp" => inj[t].sink = "full"
            /\ r = "nil" => inj[t].sink = "closed"
      BY <2>2, <2>9 DEF InjectReceive, InjectCancelled, Call
    <3>3. /\ inj'[t].pc = "return" /\ inj'[t].id = inj[t].id /\ inj'[t].sink = inj[t].sink
          /\ inj'[t].result = r
          /\ \A u \in Injectors \ {t} : inj'[u] = inj[u]
      BY <2>2, <3>2 DEF Call, TypeOK, Returning
    <3>4. CallOf(inj[t])'
      BY <2>0, <2>2, <2>3, <2>4, <3>1, <3>2, <3>3 DEF CallOf, Owed
    <3> QED BY <2>1, <2>5, <3>1, <3>3, <3>4
  <2>10. CASE InjectReturn(t)
    <3>1. /\ inj[t].pc = "return" /\ pending' = pending \ {inj[t].id} /\ UNCHANGED toServer
          /\ inj'[t].pc = "idle" /\ inj'[t].id = inj[t].id /\ inj'[t].sink = inj[t].sink
          /\ \A u \in Injectors \ {t} : inj'[u] = inj[u]
      BY <2>2, <2>10 DEF InjectReturn, Call, TypeOK
    <3>2. CallOf(inj[t])'
      BY <2>0, <2>2, <2>3, <2>4, <3>1 DEF CallOf, Owed
    <3>3. ASSUME NEW f \in toServer, f.by = "harness", Owed(f)', f.id = inj[t].id PROVE Over
      <4>1. f = q
        BY <2>3, <3>3, ReservedIsInjected
      <4>2. Owed(f)
        BY <1>0, <3>3
      <4> QED BY <2>2, <2>3, <3>1, <4>1, <4>2 DEF CallOf, Over
    <3>4. \A f \in toServer' : f.by = "harness" /\ Owed(f)' => f.id \in pending' \/ Over'
      BY <1>0, <1>1, <3>1, <3>3
    <3> QED BY <2>1, <3>1, <3>2, <3>4
  <2> QED BY <1>9, <2>6, <2>7, <2>8, <2>9, <2>10 DEF Inject
<1>10. CASE close
  <2>1. closed' = TRUE /\ UNCHANGED <<toServer, s2c, answered, cancelled>>
    BY <1>10 DEF close
  <2>2. ASSUME NEW t \in Injectors
        PROVE  /\ inj'[t].pc = inj[t].pc /\ inj'[t].id = inj[t].id
               /\ inj'[t].result = inj[t].result
               /\ inj'[t].sink = inj[t].sink \/ (inj[t].sink = "open" /\ inj'[t].sink = "closed")
    BY <1>0, <1>10 DEF close, Call, Correlation, SinksOpen
  <2>3. ASSUME NEW t \in Injectors PROVE CallOf(inj[t])'
    <3>1. PICK q : q = InjectedRequest(inj[t].id)
      OBVIOUS
    <3>2. q \in toServer /\ Owed(q)' => Owed(q)
      BY <1>0
    <3>3. CallOf(inj[t])
      BY <1>0
    <3> QED BY <2>1, <2>2, <3>1, <3>2, <3>3 DEF CallOf, Owed, Over
  <2> QED BY <1>0, <2>1, <2>2, <2>3 DEF Injected, Over
<1> QED BY <1>4, <1>5, <1>8, <1>9, <1>10 DEF Next

-----------------------------------------------------------------------------
(* The server's side of the pipe.                                           *)

\* The line the server pump holds answers a request, and the client has no answer to it yet
\* (proxy.go:275-290, 403-440).
LEMMA DownwardKept ==
  ASSUME Faith, TypeOK', [Next]_vars
  PROVE  Downward'
<1> USE DEF Faith
<1>0. /\ \A f \in toServer : f \in Frame /\ AtServer(f)
      /\ answered \subseteq toServer
      /\ s2c \in [pc : {"read", "route", "deliver", "inject", "write", "done"}, line : Frame]
  BY DEF Servers, TypeOK
<1>1. answered \subseteq answered' /\ (Over => Over')
  BY Growing
<1>2. ASSUME UNCHANGED s2c, \A f \in toClient' : f \in toClient \/ ~Mine(f)
      PROVE  Downward'
  BY <1>1, <1>2 DEF Downward, Mine
<1>3. ASSUME UNCHANGED <<s2c, toClient>> PROVE Downward'
  BY <1>2, <1>3
<1>4. CASE SetInterceptor \/ SetToolInjector \/ Cancel \/ close \/ UNCHANGED vars
  BY <1>3, <1>4 DEF SetInterceptor, SetToolInjector, Cancel, close, vars
<1>5. CASE pumpClientToServer
  <2>1. ASSUME NEW f, ReadClient(f) PROVE Downward'
    BY <1>3, <2>1 DEF ReadClient
  <2>2. CASE Refuse
    <3>1. UNCHANGED s2c /\ toClient' = toClient \cup {[Response(c2s.line) EXCEPT !.by = "seam"]}
      BY <2>2 DEF Refuse
    <3>2. Response(c2s.line) \in Frame
      BY FramesTyped DEF TypeOK
    <3>3. [Response(c2s.line) EXCEPT !.by = "seam"].by = "seam"
      BY <3>2 DEF Frame
    <3> QED BY <1>2, <3>1, <3>3 DEF Mine
  <2> QED BY <1>3, <1>5, <2>1, <2>2 DEF pumpClientToServer, Allow, noteListRequest,
             forwardClientFrame, WriteServer, EndClientPump
<1>6. CASE pumpServerToClient
  <2>1. ASSUME NEW f, ReadServer(f) PROVE Downward'
    <3>1. /\ s2c' = [pc |-> "route", line |-> f] /\ UNCHANGED toClient
          /\ answered' = answered \cup {r \in toServer : r.kind = "req" /\ f \in Answers(r)}
      BY <1>0, <2>1 DEF ReadServer
    <3>2. CASE f = ServerRequest
      BY <3>1, <3>2, Fields DEF Downward, IsResponse
    <3>3. CASE f # ServerRequest
      <4>1. PICK r \in toServer \ answered : r.kind = "req" /\ f \in Answers(r)
        BY <2>1, <3>3 DEF ReadServer, ServerFrame
      <4>2. r \in answered'
        BY <3>1, <4>1
      <4>3. f.by = r.by /\ f.ask = r.ask
        BY <1>0, <4>1, AnswerFields
      <4>4. ASSUME Mine(f), NEW g \in toClient, Mine(g) PROVE g.ask # f.ask
        <5>1. PICK s \in answered : Mine(s) /\ s.ask = g.ask
          BY <4>4 DEF AtClient, Mine
        <5>2. Mine(r) /\ s # r /\ s \in toServer
          BY <1>0, <4>1, <4>3, <4>4 DEF Mine
        <5>3. s.ask # r.ask
          BY <5>1, <5>2 DEF Servers
        <5> QED BY <4>3, <5>1, <5>3
      <4> QED BY <3>1, <4>1, <4>2, <4>4 DEF Downward, Mine
    <3> QED BY <3>2, <3>3
  <2>2. CASE routeServerFrame
    <3>1. /\ s2c.pc = "route" /\ s2c'.pc \in {"deliver", "inject"}
          /\ UNCHANGED <<toClient, answered, closed, cancelled>>
      BY <1>0, <2>2 DEF routeServerFrame
    <3>2. CASE ~IsResponse(s2c.line)
      <4>1. s2c'.line = s2c.line
        BY <1>0, <2>2, <3>2 DEF routeServerFrame
      <4> QED BY <3>2, <4>1 DEF Downward, IsResponse
    <3>3. CASE IsResponse(s2c.line)
      <4>1. PICK r \in answered : s2c.line \in Answers(r)
        BY <2>2, <3>3, RoutedIsLast
      <4>2. /\ r \in toServer /\ AtServer(r) /\ s2c.line.id = r.id /\ s2c.line.by = r.by
            /\ s2c.line.ask = r.ask /\ s2c.line.list = r.list
        BY <2>2, <3>3, <4>1, RoutedIsLast
      <4>3. Owed(r)
        BY <3>1, <4>1 DEF Owed
      <4>4. CASE r.by = "harness"
        <5>1. r = InjectedRequest(r.id) /\ Reserved(r.id)
          BY <4>2, <4>4, ReservedIsInjected
        <5>2. IsString(r.id) /\ r.id \notin DOMAIN remapped /\ r.list
          BY <5>1, Fields DEF Reserved, IsString, Remaps
        <5>3. r.id \in pending \/ Over
          BY <4>2, <4>3, <4>4 DEF Injected
        <5>4. s2c'.line = s2c.line /\ (s2c'.pc = "inject" => r.id \notin pending)
          BY <1>0, <2>2, <3>3, <4>2, <5>2 DEF routeServerFrame
        <5> QED BY <3>1, <4>1, <4>2, <4>4, <5>2, <5>3, <5>4 DEF Downward, Mine, Over
      <4>5. CASE r.by # "harness"
        <5>1. Mine(r) /\ ~Reserved(r.id) /\ (r.id = r.ask \/ r.id.ns = "awr") /\ r.ask \in Client
          BY <4>2, <4>5, Fields DEF AtServer, Reserved
        <5>2. r.id \notin pending
          BY <5>1 DEF Correlation, IdsBelowNext
        <5>3. \A f \in toClient : Mine(f) => f.ask # s2c.line.ask
          BY <3>1, <3>3, <4>2, <5>1 DEF Downward, Mine
        <5>4. /\ s2c'.pc = "inject" /\ s2c'.line.kind = s2c.line.kind
              /\ s2c'.line.by = s2c.line.by /\ s2c'.line.ask = s2c.line.ask
              /\ s2c'.line.list = s2c.line.list /\ s2c'.line.id = r.ask
          <6>1. CASE r.id.ns = "awr"
            <7>1. r.id \in DOMAIN remapped /\ remapped[r.id] = r.ask /\ IsString(r.id)
              BY <4>2, <4>3, <6>1 DEF Remaps, IsString
            <7>2. s2c' = [pc |-> "inject", line |-> rewriteID(s2c.line, r.ask)]
              BY <1>0, <2>2, <3>3, <4>2, <5>2, <7>1 DEF routeServerFrame, Restored
            <7> QED BY <1>0, <7>2 DEF rewriteID, Frame
          <6>2. CASE r.id.ns # "awr"
            <7>1. r.id \notin DOMAIN remapped /\ r.id = r.ask
              BY <5>1, <6>2 DEF Remaps
            <7>2. s2c' = [pc |-> "inject", line |-> s2c.line]
              BY <1>0, <2>2, <4>2, <5>2, <7>1 DEF routeServerFrame
            <7> QED BY <4>2, <7>1, <7>2
          <6> QED BY <6>1, <6>2
        <5> QED BY <3>1, <3>3, <4>1, <4>2, <5>1, <5>3, <5>4 DEF Downward, Mine, IsResponse
      <4> QED BY <4>4, <4>5
    <3> QED BY <3>2, <3>3
  <2>3. CASE maybeInjectTools
    <3>1. /\ s2c.pc = "inject" /\ s2c'.pc = "write" /\ UNCHANGED <<toClient, answered>>
          /\ s2c'.line = s2c.line \/ s2c'.line = appendTools(s2c.line)
      BY <2>3 DEF maybeInjectTools
    <3>2. /\ s2c'.line.kind = s2c.line.kind /\ s2c'.line.by = s2c.line.by
          /\ s2c'.line.ask = s2c.line.ask /\ s2c'.line.list = s2c.line.list
          /\ s2c'.line.id = s2c.line.id
      BY <1>0, <3>1 DEF appendTools, Frame
    <3> QED BY <1>1, <3>1, <3>2 DEF Downward, Mine, IsResponse
  <2>4. CASE DeliverInjected \/ WriteClient \/ EndServerPump
    <3>1. s2c' = Reading \/ s2c' = Done
      BY <2>4 DEF DeliverInjected, WriteClient, EndServerPump
    <3>2. s2c'.pc \notin {"route", "deliver", "inject", "write"}
      BY <3>1 DEF Reading, Done
    <3> QED BY <3>2 DEF Downward
  <2> QED BY <1>6, <2>1, <2>2, <2>3, <2>4 DEF pumpServerToClient
<1>7. ASSUME NEW t \in Injectors, Inject(t) PROVE Downward'
  BY <1>3, <1>7 DEF Inject, InjectRegister, InjectClosed, InjectSend, InjectReceive,
            InjectCancelled, InjectReturn
<1> QED BY <1>4, <1>5, <1>6, <1>7 DEF Next

\* What the client holds is a refusal, the one answer to a request of its own, or came after
\* the end (proxy.go:243-253, 403-440).
LEMMA AtClientKept ==
  ASSUME Faith, TypeOK', [Next]_vars
  PROVE  AtClient'
<1> USE DEF Faith
<1>1. answered \subseteq answered' /\ refused \subseteq refused' /\ (Over => Over')
  BY Growing
<1>2. ASSUME UNCHANGED toClient PROVE AtClient'
  BY <1>1, <1>2 DEF AtClient, Mine, Refusal, Response, ClientRequest
<1>3. CASE SetInterceptor \/ SetToolInjector \/ Cancel \/ close \/ UNCHANGED vars
  BY <1>2, <1>3 DEF SetInterceptor, SetToolInjector, Cancel, close, vars
<1>4. CASE pumpClientToServer
  <2>1. ASSUME NEW f, ReadClient(f) PROVE AtClient'
    BY <1>2, <2>1 DEF ReadClient
  <2>2. CASE Refuse
    <3>1. PICK i \in Client : c2s.line = ClientRequest(i) /\ c2s.line.id = i /\ ~c2s.line.list
      BY <2>2 DEF Refuse, Upward
    <3>2. PICK n \in Frame : n = Refusal(i)
      <4>1. Response(ClientRequest(i)) \in Frame
        BY FramesTyped
      <4>2. Refusal(i) \in Frame
        BY <4>1 DEF Refusal, Frame
      <4> QED BY <4>2
    <3>3. n.by = "seam" /\ n.ask = i /\ ~n.list
      BY <3>1, <3>2 DEF Refusal, Response, ClientRequest
    <3>4. /\ toClient' = toClient \cup {n} /\ refused' = refused \cup {i}
          /\ UNCHANGED <<answered, closed, cancelled>>
      BY <2>2, <3>1, <3>2 DEF Refuse, Refusal, shared
    <3>5. ASSUME NEW f \in toClient'
          PROVE  \/ f.by = "seam" /\ f.ask \in refused' /\ f = Refusal(f.ask) /\ ~f.list
                 \/ Mine(f) /\ f.id = f.ask /\ \E r \in answered' : Mine(r) /\ r.ask = f.ask
                 \/ f.by = "harness" /\ Over'
      BY <1>1, <3>2, <3>3, <3>4 DEF AtClient
    <3>6. \A f, g \in toClient' : Mine(f) /\ Mine(g) /\ f.ask = g.ask => f = g
      BY <3>3, <3>4 DEF AtClient, Mine
    <3> QED BY <3>5, <3>6 DEF AtClient, Mine, Refusal, Response, ClientRequest
  <2> QED BY <1>2, <1>4, <2>1, <2>2 DEF pumpClientToServer, Allow, noteListRequest,
             forwardClientFrame, WriteServer, EndClientPump
<1>5. CASE pumpServerToClient
  <2>1. ASSUME NEW f, ReadServer(f) PROVE AtClient'
    BY <1>2, <2>1 DEF ReadServer
  <2>2. CASE WriteClient
    <3>1. CASE ~IsResponse(s2c.line)
      BY <1>2, <2>2, <3>1 DEF WriteClient
    <3>2. CASE IsResponse(s2c.line)
      <4>0. PICK l \in Frame : l = s2c.line
        BY DEF TypeOK
      <4>1. s2c.pc = "write" /\ toClient' = toClient \cup {l} /\ UNCHANGED answered
        BY <2>2, <3>2, <4>0 DEF WriteClient
      <4>2. /\ \/ Mine(l) /\ l.id = l.ask /\ \E r \in answered : Mine(r) /\ r.ask = l.ask
               \/ l.by = "harness" /\ Over
            /\ Mine(l) => \A f \in toClient : Mine(f) => f.ask # l.ask
        BY <3>2, <4>0, <4>1 DEF Downward
      <4>3. ASSUME NEW f \in toClient'
            PROVE  \/ f.by = "seam" /\ f.ask \in refused' /\ f = Refusal(f.ask) /\ ~f.list
                   \/ Mine(f) /\ f.id = f.ask /\ \E r \in answered' : Mine(r) /\ r.ask = f.ask
                   \/ f.by = "harness" /\ Over'
        BY <1>1, <4>1, <4>2 DEF AtClient
      <4>4. \A f, g \in toClient' : Mine(f) /\ Mine(g) /\ f.ask = g.ask => f = g
        BY <4>1, <4>2 DEF AtClient
      <4> QED BY <4>3, <4>4 DEF AtClient, Mine, Refusal, Response, ClientRequest
    <3> QED BY <3>1, <3>2
  <2> QED BY <1>2, <1>5, <2>1, <2>2 DEF pumpServerToClient, routeServerFrame, DeliverInjected,
             maybeInjectTools, EndServerPump
<1>6. ASSUME NEW t \in Injectors, Inject(t) PROVE AtClient'
  BY <1>2, <1>6 DEF Inject, InjectRegister, InjectClosed, InjectSend, InjectReceive,
            InjectCancelled, InjectReturn
<1> QED BY <1>3, <1>4, <1>5, <1>6 DEF Next

\* A tracked list request stays tracked until its answer passes, and the answer then carries
\* the tools (proxy.go:317-371).
LEMMA ListsKept ==
  ASSUME Faith, TypeOK', [Next]_vars
  PROVE  Lists'
<1> USE DEF Faith
<1>0. /\ \A f \in toServer : f \in Frame /\ AtServer(f)
      /\ answered \subseteq toServer
      /\ s2c \in [pc : {"read", "route", "deliver", "inject", "write", "done"}, line : Frame]
      /\ c2s \in [pc : {"read", "intercept", "note", "forward", "write", "done"}, line : Frame]
  BY DEF Servers, TypeOK
<1>1. /\ sent \subseteq sent' /\ wants \subseteq wants' /\ (injector => injector')
      /\ toClient \subseteq toClient' /\ (Clean' => Clean)
      /\ \A f \in toServer : Owed(f)' => Owed(f)
  BY Growing, OwedOnce DEF Clean
<1>2. /\ listReqs \subseteq Lister /\ wants \subseteq sent
      /\ wants # {} => injector
      /\ s2c.pc \in {"route", "inject"} => ~s2c.line.tools
      /\ c2s.pc \in {"intercept", "note"} /\ c2s.line.kind = "req" => c2s.line.ask \notin wants
      /\ Clean => \A f \in toClient : Complete(f)
      /\ Clean /\ ~Straying => Tracked
  BY DEF Lists
<1>3. ASSUME UNCHANGED <<c2s, s2c, listReqs, wants, toClient>>,
             \A f \in toServer' : f \in toServer \/ ~Mine(f)
      PROVE  Lists'
  <2>1. Clean /\ ~Straying => Tracked'
    BY <1>1, <1>2, <1>3 DEF Tracked, Wanted, Mine, Complete
  <2>2. Clean => \A f \in toClient : Complete(f)'
    BY <1>2, <1>3 DEF Complete
  <2>3. Straying' <=> Straying
    BY <1>3 DEF Straying
  <2> QED BY <1>1, <1>2, <1>3, <2>1, <2>2, <2>3 DEF Lists
<1>4. ASSUME UNCHANGED <<c2s, s2c, listReqs, wants, toClient, toServer>> PROVE Lists'
  BY <1>3, <1>4
<1>5. CASE SetInterceptor \/ SetToolInjector \/ Cancel \/ close \/ UNCHANGED vars
  BY <1>4, <1>5 DEF SetInterceptor, SetToolInjector, Cancel, close, vars, shared
<1>6. CASE pumpClientToServer
  <2>1. ASSUME UNCHANGED <<s2c, listReqs, wants>>,
               \A f \in toClient' : f \in toClient \/ (f.by # "harness" /\ Complete(f)),
               \A f \in toServer' : f \in toServer \/ ~Mine(f) \/ f = c2s.line,
               toServer' # toServer => c2s.pc = "write" /\ c2s.line.kind = "req",
               c2s'.pc \in {"intercept", "note"} /\ c2s'.line.kind = "req" =>
                 c2s'.line.ask \notin wants,
               c2s'.pc \in {"forward", "write"} =>
                 /\ c2s.pc \in {"forward", "write"}
                 /\ c2s'.line.kind = c2s.line.kind /\ c2s'.line.by = c2s.line.by
                 /\ c2s'.line.ask = c2s.line.ask /\ c2s'.line.list = c2s.line.list
        PROVE  Lists'
    <3>1. Clean /\ ~Straying => Tracked'
      BY <1>1, <1>2, <2>1 DEF Tracked, Wanted, Mine, Complete
    <3>2. Clean' => \A f \in toClient' : Complete(f)'
      BY <1>1, <1>2, <2>1 DEF Complete
    <3>3. Straying' <=> Straying
      BY <2>1 DEF Straying
    <3> QED BY <1>1, <1>2, <2>1, <3>1, <3>2, <3>3 DEF Lists
  <2>2. ASSUME NEW f, ReadClient(f) PROVE Lists'
    <3>1. /\ c2s' = [pc |-> "intercept", line |-> f]
          /\ UNCHANGED <<s2c, listReqs, wants, toClient, toServer>>
      BY <2>2 DEF ReadClient, shared
    <3>2. f.kind = "req" => f.ask \notin wants
      BY <1>2, <2>2, Fields DEF ReadClient, ClientFrame
    <3> QED BY <2>1, <3>1, <3>2
  <2>3. CASE Refuse
    <3>1. PICK i \in Client : c2s.line = ClientRequest(i) /\ ~c2s.line.list
      BY <2>3 DEF Refuse, Upward
    <3>2. PICK n : n = Refusal(i)
      OBVIOUS
    <3>3. n.by = "seam" /\ ~n.list /\ ~n.tools
      BY <3>1, <3>2 DEF Refusal, Response, ClientRequest
    <3>4. /\ toClient' = toClient \cup {n} /\ c2s'.pc = "read"
          /\ UNCHANGED <<s2c, listReqs, wants, toServer>>
      BY <2>3, <3>1, <3>2 DEF Refuse, Refusal, shared, Reading
    <3> QED BY <2>1, <3>3, <3>4 DEF Complete
  <2>4. CASE Allow
    <3>1. /\ c2s.pc = "intercept" /\ c2s' = [pc |-> "note", line |-> c2s.line]
          /\ UNCHANGED <<s2c, listReqs, wants, toClient, toServer>>
      BY <1>0, <2>4 DEF Allow, shared
    <3> QED BY <1>2, <2>1, <3>1
  <2>5. CASE noteListRequest
    <3>1. /\ c2s.pc = "note" /\ c2s'.pc = "forward" /\ c2s'.line = c2s.line
          /\ UNCHANGED <<s2c, toClient, toServer, injector, answered, sent>>
      BY <1>0, <2>5 DEF noteListRequest, seams
    <3>2. CASE ~(injector /\ c2s.line.kind = "req" /\ c2s.line.list)
      <4>1. UNCHANGED <<listReqs, wants>>
        BY <2>5, <3>2 DEF noteListRequest
      <4>2. c2s.line.kind = "req" => c2s.line.ask \notin wants
        BY <1>2, <3>1
      <4>3. Clean /\ ~Straying => Tracked'
        BY <1>1, <1>2, <3>1, <4>1, <4>2 DEF Tracked, Wanted, Mine, Complete
      <4>4. Clean' => \A f \in toClient' : Complete(f)'
        BY <1>1, <1>2, <3>1, <4>1 DEF Complete
      <4>5. Straying' <=> Straying
        BY <3>1 DEF Straying
      <4> QED BY <1>1, <1>2, <3>1, <4>1, <4>3, <4>4, <4>5 DEF Lists
    <3>3. CASE injector /\ c2s.line.kind = "req" /\ c2s.line.list
      <4>1. PICK i \in Client : c2s.line = ClientRequest(i)
        BY <3>1, <3>3 DEF Upward
      <4>2. c2s.line.id = i /\ c2s.line.ask = i /\ i \in Lister
        BY <3>3, <4>1, Fields
      <4>3. /\ wants' = wants \cup {i}
            /\ listReqs' = IF IsString(i) THEN listReqs \cup {i} ELSE listReqs
        BY <2>5, <3>3, <4>2 DEF noteListRequest
      <4>4. /\ i \in sent /\ i \notin refused
            /\ \A f \in toServer : Mine(f) => f.ask # i
        BY <3>1, <3>3, <4>2 DEF Upward
      <4>5. \A r \in answered : Mine(r) => r.ask # i
        BY <1>0, <4>4
      <4>6. ASSUME Clean, NEW f \in toClient PROVE f.ask # i
        BY <4>4, <4>5, <4>6 DEF AtClient, Clean
      <4>7. ASSUME ~Straying, IsResponse(s2c.line), s2c.pc \in {"inject", "write"},
                   Mine(s2c.line) \/ s2c.pc = "write"
            PROVE  s2c.line.ask # i
        BY <4>5, <4>7 DEF Downward, Straying, Mine
      <4>8. ASSUME Clean, ~Straying PROVE Tracked'
        <5>1. Tracked
          BY <1>2, <4>8
        <5>2. IsString(i) => i \in listReqs'
          BY <4>3
        <5>3. \A f \in toServer : (Wanted(f) /\ Owed(f))' => f.ask \in listReqs'
          BY <1>1, <4>3, <4>4, <5>1 DEF Tracked, Wanted, Mine
        <5>4. /\ s2c.pc = "inject" /\ IsResponse(s2c.line) /\ Wanted(s2c.line)' =>
                   s2c.line.ask \in listReqs'
              /\ s2c.pc = "write" /\ IsResponse(s2c.line) => Complete(s2c.line)'
          BY <3>1, <4>3, <4>7, <4>8, <5>1 DEF Tracked, Wanted, Mine, Complete
        <5> QED BY <3>1, <4>2, <5>2, <5>3, <5>4 DEF Tracked, Wanted, IsResponse
      <4>9. Clean' => \A f \in toClient' : Complete(f)'
        BY <1>1, <1>2, <3>1, <4>3, <4>6 DEF Complete
      <4>10. Straying' <=> Straying
        BY <3>1 DEF Straying
      <4> QED BY <1>1, <1>2, <3>1, <3>3, <4>2, <4>3, <4>4, <4>8, <4>9, <4>10 DEF Lists
    <3> QED BY <3>2, <3>3
  <2>6. CASE forwardClientFrame
    <3>1. /\ c2s.pc = "forward" /\ c2s'.pc = "write"
          /\ c2s'.line = c2s.line \/ c2s'.line = rewriteID(c2s.line, RemapId(nextID + 1))
          /\ UNCHANGED <<s2c, listReqs, wants, toClient, toServer>>
      BY <1>0, <2>6 DEF forwardClientFrame
    <3>2. /\ c2s'.line.kind = c2s.line.kind /\ c2s'.line.by = c2s.line.by
          /\ c2s'.line.ask = c2s.line.ask /\ c2s'.line.list = c2s.line.list
      BY <1>0, <3>1 DEF rewriteID, Frame
    <3> QED BY <2>1, <3>1, <3>2
  <2>7. CASE WriteServer \/ EndClientPump
    <3>1. /\ c2s'.pc \in {"read", "done"}
          /\ UNCHANGED <<s2c, listReqs, wants, toClient>>
          /\ toServer' = toServer \/ (c2s.pc = "write" /\ c2s.line.kind = "req"
                                      /\ toServer' = toServer \cup {c2s.line})
      BY <2>7 DEF WriteServer, EndClientPump, Reading, Done, shared
    <3> QED BY <2>1, <3>1
  <2> QED BY <1>6, <2>2, <2>3, <2>4, <2>5, <2>6, <2>7 DEF pumpClientToServer
<1>7. CASE pumpServerToClient
  <2>0. UNCHANGED <<c2s, wants, toServer, sent>>
    <3>1. ASSUME NEW f, ReadServer(f) PROVE UNCHANGED <<c2s, wants, toServer, sent>>
      BY <3>1 DEF ReadServer
    <3> QED BY <1>7, <3>1 DEF pumpServerToClient, routeServerFrame, DeliverInjected,
               maybeInjectTools, WriteClient, EndServerPump
  <2>1. ASSUME UNCHANGED <<listReqs, toClient>>,
               s2c'.pc \in {"route", "inject"} => ~s2c'.line.tools,
               s2c'.pc # "done" => ~Straying,
               s2c'.pc = "inject" /\ IsResponse(s2c'.line) /\ Mine(s2c'.line) /\ s2c'.line.list
                 /\ s2c'.line.ask \in wants /\ IsString(s2c'.line.ask) /\ Clean =>
                 s2c'.line.ask \in listReqs,
               s2c'.pc # "write"
        PROVE  Lists'
    <3>1. Clean /\ ~Straying => Tracked'
      BY <1>1, <1>2, <2>0, <2>1 DEF Tracked, Wanted, Mine, Complete
    <3>2. Clean' => \A f \in toClient' : Complete(f)'
      BY <1>1, <1>2, <2>0, <2>1 DEF Complete
    <3>3. ~(Straying') => ~Straying
      BY <2>1 DEF Straying
    <3> QED BY <1>1, <1>2, <2>0, <2>1, <3>1, <3>2, <3>3 DEF Lists
  <2>2. ASSUME NEW f, ReadServer(f) PROVE Lists'
    <3>1. /\ s2c.pc = "read" /\ s2c' = [pc |-> "route", line |-> f]
          /\ UNCHANGED <<listReqs, toClient>>
      BY <1>0, <2>2 DEF ReadServer, shared
    <3>2. ~f.tools
      <4>1. CASE f = ServerRequest
        BY <4>1, Fields
      <4>2. ASSUME NEW r \in toServer, f \in Answers(r) PROVE ~f.tools
        BY <1>0, <4>2, AnswerFields DEF AtServer
      <4> QED BY <2>2, <4>1, <4>2 DEF ReadServer, ServerFrame
    <3> QED BY <2>1, <3>1, <3>2 DEF Straying
  <2>3. CASE routeServerFrame
    <3>1. /\ s2c.pc = "route" /\ s2c'.pc \in {"deliver", "inject"}
          /\ s2c'.line = s2c.line \/ s2c'.line = Restored(s2c.line)
          /\ UNCHANGED <<listReqs, toClient>>
      BY <1>0, <2>3 DEF routeServerFrame
    <3>2. /\ s2c'.line.kind = s2c.line.kind /\ s2c'.line.by = s2c.line.by
          /\ s2c'.line.ask = s2c.line.ask /\ s2c'.line.list = s2c.line.list
          /\ s2c'.line.tools = s2c.line.tools
      BY <1>0, <3>1 DEF Restored, rewriteID, Frame
    <3>3. ~Straying
      BY <3>1 DEF Straying
    <3>4. ASSUME IsResponse(s2c.line), Wanted(s2c.line), Clean PROVE s2c.line.ask \in listReqs
      <4>1. PICK r \in answered : s2c.line \in Answers(r)
        BY <2>3, <3>4, RoutedIsLast
      <4>2. /\ r \in toServer /\ s2c.line.by = r.by
            /\ s2c.line.ask = r.ask /\ s2c.line.list = r.list
        BY <2>3, <3>4, <4>1, RoutedIsLast
      <4>3. Owed(r) /\ Wanted(r)
        BY <3>1, <3>4, <4>1, <4>2 DEF Owed, Wanted, Mine
      <4> QED BY <1>2, <3>3, <3>4, <4>2, <4>3 DEF Tracked
    <3> QED BY <1>2, <2>1, <3>1, <3>2, <3>3, <3>4 DEF Wanted, Mine, IsResponse
  <2>4. CASE DeliverInjected
    <3>1. /\ s2c.pc = "deliver" /\ s2c'.pc = "read" /\ UNCHANGED <<listReqs, toClient>>
      BY <2>4 DEF DeliverInjected, Reading, shared
    <3> QED BY <2>1, <3>1 DEF Straying
  <2>5. CASE maybeInjectTools
    <3> DEFINE tracked == /\ injector
                          /\ IsResponse(s2c.line) /\ IsString(s2c.line.id)
                          /\ s2c.line.id \in listReqs
    <3>1. /\ s2c.pc = "inject" /\ s2c'.pc = "write"
          /\ s2c'.line = IF tracked THEN appendTools(s2c.line) ELSE s2c.line
          /\ listReqs' = IF tracked THEN listReqs \ {s2c.line.id} ELSE listReqs
          /\ UNCHANGED <<toClient, answered>>
      BY <2>5 DEF maybeInjectTools
    <3>2. /\ s2c'.line.kind = s2c.line.kind /\ s2c'.line.by = s2c.line.by
          /\ s2c'.line.ask = s2c.line.ask /\ s2c'.line.list = s2c.line.list
          /\ s2c'.line.tools = (tracked /\ s2c.line.kind = "resp")
      BY <1>0, <1>2, <3>1 DEF appendTools, Frame
    <3>3. ~Straying /\ listReqs' \subseteq listReqs
      BY <3>1 DEF Straying
    <3>4. Clean' => \A f \in toClient' : Complete(f)'
      BY <1>1, <1>2, <2>0, <3>1 DEF Complete
    <3>5. ASSUME Clean, ~(Straying') PROVE Tracked'
      <4>1. Tracked
        BY <1>2, <3>3, <3>5
      <4>2. CASE ~IsResponse(s2c.line)
        <5>1. listReqs' = listReqs /\ ~IsResponse(s2c'.line)
          BY <3>1, <3>2, <4>2 DEF IsResponse
        <5> QED BY <1>1, <2>0, <3>1, <4>1, <5>1 DEF Tracked, Wanted, Mine
      <4>3. CASE IsResponse(s2c.line)
        <5>1. IsResponse(s2c'.line) /\ s2c.line.by # "harness"
          BY <3>1, <3>2, <3>5, <4>3 DEF Straying, IsResponse
        <5>2. Mine(s2c.line) /\ s2c.line.id = s2c.line.ask
          BY <3>1, <4>3, <5>1 DEF Downward
        <5>3. PICK r \in answered :
                Mine(r) /\ r.ask = s2c.line.ask /\ r.list = s2c.line.list
          BY <3>1, <4>3, <5>1 DEF Downward
        <5>4. r \in toServer /\ AtServer(r)
          BY <1>0
        <5>5. c2s.pc \in {"forward", "write"} /\ c2s.line.kind = "req" =>
                c2s.line.ask # s2c.line.ask
          BY <5>3, <5>4 DEF Upward
        <5>6. ASSUME NEW f \in toServer, Mine(f), Owed(f)' PROVE f.ask # s2c.line.ask
          <6>1. f \notin answered
            BY <3>1, <5>6 DEF Owed
          <6> QED BY <5>3, <5>4, <5>6, <6>1 DEF Servers
        <5>7. Complete(s2c.line)'
          <6>1. CASE tracked
            <7>1. s2c.line.list
              BY <1>2, <5>2, <5>3, <5>4, <6>1, Fields DEF AtServer, Mine
            <7> QED BY <3>2, <6>1, <7>1 DEF Complete
          <6>2. CASE ~tracked
            <7>1. ~(s2c.line.list /\ s2c.line.ask \in wants /\ IsString(s2c.line.ask))
              BY <1>2, <3>1, <4>1, <4>3, <5>2, <6>2 DEF Tracked, Wanted
            <7> QED BY <2>0, <3>2, <6>2, <7>1 DEF Complete
          <6> QED BY <6>1, <6>2
        <5>8. \A x \in listReqs : x # s2c.line.ask => x \in listReqs'
          BY <3>1, <5>2
        <5>9. /\ c2s'.pc \in {"forward", "write"} /\ c2s'.line.kind = "req" /\ Wanted(c2s.line)' =>
                   c2s'.line.ask \in listReqs'
              /\ \A f \in toServer' : (Wanted(f) /\ Owed(f))' => f.ask \in listReqs'
          BY <1>1, <2>0, <4>1, <5>5, <5>6, <5>8 DEF Tracked, Wanted, Mine
        <5> QED BY <3>1, <5>7, <5>9 DEF Tracked
      <4> QED BY <4>2, <4>3
    <3> QED BY <1>1, <1>2, <2>0, <3>1, <3>3, <3>4, <3>5 DEF Lists
  <2>6. CASE WriteClient
    <3>1. s2c.pc = "write" /\ s2c'.pc = "read" /\ UNCHANGED listReqs
      BY <2>6 DEF WriteClient, Reading, shared
    <3>2. CASE ~IsResponse(s2c.line)
      BY <2>1, <2>6, <3>1, <3>2 DEF WriteClient, Straying
    <3>3. CASE IsResponse(s2c.line)
      <4>0. PICK l \in Frame : l = s2c.line
        BY <1>0
      <4>1. toClient' = toClient \cup {l}
        BY <2>6, <3>3, <4>0 DEF WriteClient
      <4>2. Clean' => ~Straying
        BY <3>1, <4>0, <4>1 DEF Clean, Straying
      <4>3. Clean' => Tracked
        BY <1>1, <1>2, <4>2
      <4>4. Clean' => Tracked'
        BY <1>1, <2>0, <3>1, <4>3 DEF Tracked, Wanted, Mine
      <4>5. Clean' => \A f \in toClient' : Complete(f)'
        BY <1>1, <1>2, <2>0, <3>1, <3>3, <4>0, <4>1, <4>3 DEF Tracked, Complete
      <4> QED BY <1>1, <1>2, <2>0, <3>1, <4>4, <4>5 DEF Lists
    <3> QED BY <3>2, <3>3
  <2>7. CASE EndServerPump
    <3>1. s2c'.pc = "done" /\ UNCHANGED <<listReqs, toClient>>
      BY <2>7 DEF EndServerPump, Done, shared
    <3> QED BY <2>1, <3>1
  <2> QED BY <1>7, <2>2, <2>3, <2>4, <2>5, <2>6, <2>7 DEF pumpServerToClient
<1>8. ASSUME NEW t \in Injectors, Inject(t) PROVE Lists'
  <2>1. UNCHANGED <<c2s, s2c, listReqs, wants, toClient>>
    BY <1>8 DEF Inject, InjectRegister, InjectClosed, InjectSend, InjectReceive,
             InjectCancelled, InjectReturn, shared
  <2>2. \A f \in toServer' : f \in toServer \/ f = InjectedRequest(inj[t].id)
    BY <1>8 DEF Inject, InjectRegister, InjectClosed, InjectSend, InjectReceive,
             InjectCancelled, InjectReturn
  <2> QED BY <1>3, <2>1, <2>2, Fields DEF Mine
<1> QED BY <1>5, <1>6, <1>7, <1>8 DEF Next

-----------------------------------------------------------------------------
(* The theorem.                                                             *)

\* Nothing has passed yet.
LEMMA InitFaith == PlainClients /\ Init => Faith
<1> SUFFICES ASSUME PlainClients, Init PROVE Faith
  OBVIOUS
<1>1. TypeOK /\ Correlation
  BY InitTyped, InitCorrelated
<1>2. Servers /\ Upward /\ Downward /\ AtClient /\ Lists
  BY DEF Init, Servers, UniqueIdsAtServer, Upward, Downward, AtClient, Lists, Clean, Tracked,
         Reading
<1>3. Remaps
  BY DEF Init, Remaps, EmptyMap
<1>4. Injected
  <2>1. \A t \in Injectors : /\ inj[t].pc = "idle" /\ inj[t].id = NoId
                             /\ inj[t].sink = "open"
    BY DEF Init
  <2>2. \A t \in Injectors : CallOf(inj[t])
    BY <2>1 DEF CallOf
  <2> QED BY <2>1, <2>2 DEF Init, Injected, NoId, Reserved
<1> QED BY <1>1, <1>2, <1>3, <1>4 DEF Faith

\* Every step keeps all of it.
LEMMA NextFaith == Faith /\ [Next]_vars => Faith'
<1> SUFFICES ASSUME Faith, [Next]_vars PROVE Faith'
  OBVIOUS
<1>1. TypeOK' /\ Correlation'
  BY NextTyped, NextCorrelated DEF Faith
<1>2. Servers' /\ Upward' /\ Remaps'
  BY <1>1, ServersKept, UpwardKept, RemapsKept
<1>3. Injected' /\ Downward'
  BY <1>1, InjectedKept, DownwardKept
<1>4. AtClient' /\ Lists'
  BY <1>1, AtClientKept, ListsKept
<1>5. PlainClients'
  BY DEF Faith, PlainClients
<1> QED BY <1>1, <1>2, <1>3, <1>4, <1>5 DEF Faith

\* What the pipe promises follows.
LEMMA FaithImplies == Faith => FaithfulPipe
<1> SUFFICES ASSUME Faith PROVE FaithfulPipe
  OBVIOUS
<1> USE DEF Faith
<1>1. UniqueIdsAtServer
  BY DEF Servers
<1>2. \A f \in toClient :
        \/ f.by = "seam" /\ f.ask \in refused /\ f = Refusal(f.ask) /\ ~f.list
        \/ Mine(f) /\ f.id = f.ask /\ \E r \in answered : Mine(r) /\ r.ask = f.ask
        \/ f.by = "harness" /\ Over
  BY DEF AtClient
<1>3. AnswersKeepClientId
  <2>1. \A i : Refusal(i).id = i
    BY DEF Refusal, Response, ClientRequest
  <2> QED BY <1>2, <2>1 DEF AnswersKeepClientId, Mine
<1>4. RefusedNeverForwarded
  BY Fields DEF RefusedNeverForwarded, Servers, AtServer
<1>5. AnsweredOnce
  <2> SUFFICES ASSUME NEW f \in toClient, NEW g \in toClient, f.by # "harness", g.by # "harness",
                      f.ask = g.ask
               PROVE  f = g
    BY DEF AnsweredOnce
  <2>1. CASE Mine(f) /\ Mine(g)
    BY <2>1 DEF AtClient
  <2>2. CASE f.by = "seam" /\ g.by = "seam"
    BY <1>2, <2>2 DEF Mine
  <2>3. ASSUME NEW p \in toClient, NEW q \in toClient, Mine(p), q.by = "seam", p.ask = q.ask
        PROVE  FALSE
    <3>1. PICK r \in answered : Mine(r) /\ r.ask = p.ask
      BY <1>2, <2>3 DEF Mine
    <3>2. q.ask \in refused
      BY <1>2, <2>3 DEF Mine
    <3>3. r \in toServer /\ r.kind = "req"
      BY DEF Servers, AtServer
    <3> QED BY <1>4, <2>3, <3>1, <3>2, <3>3 DEF RefusedNeverForwarded, Mine
  <2> QED BY <1>2, <2>1, <2>2, <2>3 DEF Mine
<1>6. InjectedStaysInside
  BY <1>2 DEF InjectedStaysInside, Over, Mine
<1>7. ListsCarryTools
  BY DEF ListsCarryTools, NoStray, Lists, Clean, Complete
<1> QED BY <1>1, <1>3, <1>4, <1>5, <1>6, <1>7 DEF FaithfulPipe

\* Whatever the client, the server and the harness send, in any order and up to any end: ids at
\* the server are unique, answers reach the client once and under its own ids, what was refused
\* was not forwarded, injected answers stay inside while the session lives, and tool lists carry
\* the tools (proxy.go:237-440).  The client's ids must not be spelt like remapped ones.
THEOREM PipeFaithful == PlainClients /\ Spec => []FaithfulPipe
BY InitFaith, NextFaith, FaithImplies, PTL DEF Spec

-----------------------------------------------------------------------------
(* The refinement.                                                          *)

Seen  == {f.id : f \in {g \in toClient : g.by # "harness"}}
Stray == \E f \in toClient : f.by = "harness"

\* A step that moves one request's phase and nothing else is a move of Relay.
LEMMA RelayMove ==
  ASSUME NEW i \in Client, NEW from, NEW to, PhaseOf(i) = from, PhaseOf(i)' = to,
         \A j \in Client \ {i} : PhaseOf(j)' = PhaseOf(j),
         Stray' = Stray, Over' = Over
  PROVE  R!Move(i, from, to)
<1>1. [k \in Client |-> PhaseOf(k)]' = [[k \in Client |-> PhaseOf(k)] EXCEPT ![i] = to]
  OBVIOUS
<1> QED BY <1>1 DEF R!Move, Stray, Over

\* A step that changes no phase, no response and no end stutters.
LEMMA RelayStutter ==
  ASSUME \A j \in Client : PhaseOf(j)' = PhaseOf(j), Seen' = Seen, Stray' = Stray, Over' = Over
  PROVE  UNCHANGED R!relayVars
BY DEF R!relayVars, Seen, Stray, Over

\* At the start every request is new.
LEMMA RelayStart == Init => R!RelayInit
<1> SUFFICES ASSUME Init PROVE R!RelayInit
  OBVIOUS
<1>1. \A i \in Client : PhaseOf(i) = "new"
  BY DEF Init, PhaseOf
<1> QED BY <1>1 DEF Init, R!RelayInit

\* What the invariant says of a client id's phase.
LEMMA PhaseFacts ==
  ASSUME Faith
  PROVE  /\ \A f \in toServer : Mine(f) => f.ask \in Client /\ f.ask \in sent \ refused
         /\ \A f \in toClient : Mine(f) => \E r \in toServer : Mine(r) /\ r.ask = f.ask
         /\ refused \subseteq sent
<1>1. \A f \in toServer : AtServer(f)
  BY DEF Faith, Servers
<1>2. \A f \in toClient : Mine(f) => \E r \in answered : Mine(r) /\ r.ask = f.ask
  BY DEF Faith, AtClient, Mine
<1> QED BY <1>1, <1>2, Fields DEF Faith, Servers, AtServer, Mine

\* Phases follow the four sets they are read from.
LEMMA PhaseSame ==
  ASSUME NEW i, (i \in sent') <=> (i \in sent), (i \in refused') <=> (i \in refused),
         (\E f \in toClient' : FromClient(f, i)) <=> (\E f \in toClient : FromClient(f, i)),
         (\E f \in toServer' : FromClient(f, i)) <=> (\E f \in toServer : FromClient(f, i))
  PROVE  PhaseOf(i)' = PhaseOf(i)
BY DEF PhaseOf, FromClient

\* Every step of the pumps is a step of Relay or a stutter, one case per action.
LEMMA RelayStep ==
  ASSUME Faith, TypeOK', [Next]_vars
  PROVE  [R!RelayNext]_(R!relayVars)
<1> USE DEF Faith
<1>1. /\ \A f \in toServer : Mine(f) => f.ask \in Client /\ f.ask \in sent \ refused
      /\ \A f \in toClient : Mine(f) => \E r \in toServer : Mine(r) /\ r.ask = f.ask
      /\ refused \subseteq sent
  BY PhaseFacts
<1>2. ASSUME UNCHANGED <<sent, refused, toClient>>,
             \A f \in toServer' : f \in toServer \/ ~Mine(f),
             toServer \subseteq toServer'
      PROVE  /\ \A j \in Client : PhaseOf(j)' = PhaseOf(j)
             /\ Seen' = Seen /\ Stray' = Stray
  BY <1>2, PhaseSame DEF FromClient, Mine, Seen, Stray
<1>3. ASSUME UNCHANGED <<sent, refused, toClient, closed, cancelled>>,
             \A f \in toServer' : f \in toServer \/ ~Mine(f),
             toServer \subseteq toServer'
      PROVE  UNCHANGED R!relayVars
  BY <1>2, <1>3, RelayStutter DEF Over
<1>4. ASSUME UNCHANGED <<sent, refused, toClient, toServer, closed, cancelled>>
      PROVE  UNCHANGED R!relayVars
  BY <1>3, <1>4
<1>5. CASE SetInterceptor \/ SetToolInjector \/ UNCHANGED vars
  BY <1>4, <1>5 DEF SetInterceptor, SetToolInjector, vars, shared
<1>6. CASE Cancel \/ close
  <2>1. UNCHANGED <<sent, refused, toClient, toServer>> /\ Over'
    BY <1>6 DEF Cancel, close, Over
  <2>2. (\A j \in Client : PhaseOf(j)' = PhaseOf(j)) /\ Seen' = Seen /\ Stray' = Stray
    BY <1>2, <2>1
  <2>3. CASE Over
    <3>1. Over' = Over
      BY <2>1, <2>3 DEF Over, TypeOK
    <3> QED BY <2>2, <3>1, RelayStutter
  <2>4. CASE ~Over
    <3>1. [k \in Client |-> PhaseOf(k)]' = [k \in Client |-> PhaseOf(k)]
      BY <2>2
    <3>2. R!End
      BY <2>1, <2>2, <2>4, <3>1 DEF R!End, Over, Seen, Stray
    <3> QED BY <3>2 DEF R!RelayNext
  <2> QED BY <2>3, <2>4
<1>7. CASE pumpClientToServer
  <2>0. UNCHANGED <<closed, cancelled>>
    <3>1. ASSUME NEW f, ReadClient(f) PROVE UNCHANGED <<closed, cancelled>>
      BY <3>1 DEF ReadClient, shared
    <3> QED BY <1>7, <3>1 DEF pumpClientToServer, Refuse, Allow, noteListRequest,
               forwardClientFrame, WriteServer, EndClientPump, shared
  <2>1. ASSUME NEW f, ReadClient(f) PROVE [R!RelayNext]_(R!relayVars)
    <3>1. /\ UNCHANGED <<refused, toClient, toServer>>
          /\ sent' = IF f.kind = "req" THEN sent \cup {f.id} ELSE sent
      BY <2>1 DEF ReadClient
    <3>2. CASE f.kind # "req"
      BY <1>4, <2>0, <3>1, <3>2
    <3>3. CASE f.kind = "req"
      <4>1. PICK i \in Client \ sent : f = ClientRequest(i)
        BY <2>1, <3>3, Fields DEF ReadClient, ClientFrame
      <4>2. sent' = sent \cup {i}
        BY <3>1, <3>3, <4>1, Fields
      <4>3. \A j \in Client \ {i} : PhaseOf(j)' = PhaseOf(j)
        BY <3>1, <4>2, PhaseSame
      <4>4. PhaseOf(i) = "new"
        BY DEF PhaseOf
      <4>5. PhaseOf(i)' = "asked"
        <5>1. ~(\E g \in toServer : FromClient(g, i)) /\ i \notin refused
          BY <1>1 DEF FromClient, Mine
        <5>2. ~(\E g \in toClient : FromClient(g, i))
          BY <1>1, <5>1 DEF FromClient, Mine
        <5> QED BY <3>1, <4>2, <5>1, <5>2 DEF PhaseOf, FromClient
      <4>6. Stray' = Stray /\ Over' = Over /\ Seen' = Seen
        BY <2>0, <3>1 DEF Stray, Over, Seen
      <4>7. R!Move(i, "new", "asked")
        BY <4>3, <4>4, <4>5, <4>6, RelayMove
      <4>8. R!Ask(i)
        BY <4>6, <4>7 DEF R!Ask, Seen
      <4> QED BY <4>8 DEF R!RelayNext
    <3> QED BY <3>2, <3>3
  <2>2. CASE Refuse
    <3>1. PICK i \in Client : /\ c2s.line = ClientRequest(i) /\ c2s.line.id = i
                              /\ i \in sent \ refused
                              /\ \A f \in toServer : Mine(f) => f.ask # i
      BY <2>2, Fields DEF Refuse, Upward
    <3>2. PICK n : n = Refusal(i)
      OBVIOUS
    <3>3. n.by = "seam" /\ n.id = i
      BY <3>2 DEF Refusal, Response, ClientRequest
    <3>4. /\ toClient' = toClient \cup {n} /\ refused' = refused \cup {i}
          /\ UNCHANGED <<sent, toServer>>
      BY <2>2, <3>1, <3>2 DEF Refuse, Refusal
    <3>5. \A j : (\E f \in toClient' : FromClient(f, j)) <=> (\E f \in toClient : FromClient(f, j))
      BY <3>3, <3>4 DEF FromClient
    <3>6. \A j \in Client \ {i} : PhaseOf(j)' = PhaseOf(j)
      BY <3>4, <3>5, PhaseSame
    <3>7. ~(\E f \in toServer : FromClient(f, i)) /\ ~(\E f \in toClient : FromClient(f, i))
      BY <1>1, <3>1 DEF FromClient, Mine
    <3>8. PhaseOf(i) = "asked"
      BY <3>1, <3>7 DEF PhaseOf
    <3>9. PhaseOf(i)' = "refused"
      BY <3>1, <3>4, <3>5, <3>7 DEF PhaseOf, FromClient
    <3>10. Stray' = Stray /\ Over' = Over
      BY <2>0, <3>3, <3>4 DEF Stray, Over
    <3>11. Seen' = Seen \cup {i}
      BY <3>3, <3>4 DEF Seen
    <3>12. R!Move(i, "asked", "refused")
      BY <3>6, <3>8, <3>9, <3>10, RelayMove
    <3>13. R!RefuseAsk(i)
      BY <3>11, <3>12 DEF R!RefuseAsk, Seen
    <3> QED BY <3>13 DEF R!RelayNext
  <2>3. CASE WriteServer
    <3>1. CASE c2s.line.kind # "req"
      BY <1>4, <2>0, <2>3, <3>1 DEF WriteServer
    <3>2. CASE c2s.line.kind = "req"
      <4>0. PICK l \in Frame : l = c2s.line
        BY DEF TypeOK
      <4>1. /\ AtServer(l) /\ Mine(l) /\ l.ask \in sent \ refused
            /\ \A f \in toServer : Mine(f) => f.ask # l.ask
        BY <2>3, <3>2, <4>0 DEF WriteServer, Upward
      <4>2. PICK i \in Client : i = l.ask
        BY <4>1, Fields DEF AtServer, Mine
      <4>3. toServer' = toServer \cup {l} /\ UNCHANGED <<sent, refused, toClient>>
        BY <2>3, <3>2, <4>0 DEF WriteServer
      <4>4. \A j \in Client \ {i} :
              (\E f \in toServer' : FromClient(f, j)) <=> (\E f \in toServer : FromClient(f, j))
        BY <4>2, <4>3 DEF FromClient
      <4>5. \A j \in Client \ {i} : PhaseOf(j)' = PhaseOf(j)
        BY <4>3, <4>4, PhaseSame
      <4>6. ~(\E f \in toServer : FromClient(f, i)) /\ ~(\E f \in toClient : FromClient(f, i))
        BY <1>1, <4>1, <4>2 DEF FromClient, Mine
      <4>7. PhaseOf(i) = "asked"
        BY <4>1, <4>2, <4>6 DEF PhaseOf
      <4>8. FromClient(l, i) /\ l \in toServer'
        BY <4>1, <4>2, <4>3 DEF FromClient, Mine
      <4>9. PhaseOf(i)' = "forwarded"
        BY <4>1, <4>2, <4>3, <4>6, <4>8 DEF PhaseOf, FromClient
      <4>10. Stray' = Stray /\ Over' = Over /\ Seen' = Seen
        BY <2>0, <4>3 DEF Stray, Over, Seen
      <4>11. R!Move(i, "asked", "forwarded")
        BY <4>5, <4>7, <4>9, <4>10, RelayMove
      <4>12. R!Forward(i)
        BY <4>10, <4>11 DEF R!Forward, Seen
      <4> QED BY <4>12 DEF R!RelayNext
    <3> QED BY <3>1, <3>2
  <2> QED BY <1>4, <1>7, <2>0, <2>1, <2>2, <2>3 DEF pumpClientToServer, Allow,
             noteListRequest, forwardClientFrame, EndClientPump
<1>8. CASE pumpServerToClient
  <2>0. UNCHANGED <<closed, cancelled, sent, refused, toServer>>
    <3>1. ASSUME NEW f, ReadServer(f)
          PROVE  UNCHANGED <<closed, cancelled, sent, refused, toServer>>
      BY <3>1 DEF ReadServer, shared
    <3> QED BY <1>8, <3>1 DEF pumpServerToClient, routeServerFrame, DeliverInjected,
               maybeInjectTools, WriteClient, EndServerPump, shared
  <2>1. CASE toClient' = toClient
    BY <1>4, <2>0, <2>1
  <2>2. CASE toClient' # toClient
    <3>0. PICK l \in Frame : l = s2c.line
      BY DEF TypeOK
    <3>1. WriteClient
      <4>1. ASSUME NEW f, ReadServer(f) PROVE toClient' = toClient
        BY <4>1 DEF ReadServer
      <4> QED BY <1>8, <2>2, <4>1 DEF pumpServerToClient, routeServerFrame, DeliverInjected,
                 maybeInjectTools, EndServerPump
    <3>2. IsResponse(l) /\ s2c.pc = "write" /\ toClient' = toClient \cup {l}
      BY <2>2, <3>0, <3>1 DEF WriteClient
    <3>3. /\ \/ Mine(l) /\ l.id = l.ask /\ \E r \in answered : Mine(r) /\ r.ask = l.ask
             \/ l.by = "harness" /\ Over
          /\ Mine(l) => \A f \in toClient : Mine(f) => f.ask # l.ask
      BY <3>0, <3>2 DEF Downward
    <3>4. CASE l.by = "harness"
      <4>1. \A j : (\E f \in toClient' : FromClient(f, j)) <=>
                     (\E f \in toClient : FromClient(f, j))
        BY <3>2, <3>4 DEF FromClient
      <4>2. \A j \in Client : PhaseOf(j)' = PhaseOf(j)
        BY <2>0, <4>1, PhaseSame
      <4>3. [k \in Client |-> PhaseOf(k)]' = [k \in Client |-> PhaseOf(k)]
        BY <4>2
      <4>4. Seen' = Seen /\ Stray' = TRUE /\ Over /\ Over' = Over
        BY <2>0, <3>2, <3>3, <3>4 DEF Seen, Stray, Over, Mine
      <4>5. R!StrayAnswer
        BY <4>3, <4>4 DEF R!StrayAnswer, Seen, Stray, Over
      <4> QED BY <4>5 DEF R!RelayNext
    <3>5. CASE l.by # "harness"
      <4>1. PICK r \in answered : Mine(r) /\ r.ask = l.ask
        BY <3>3, <3>5
      <4>2. Mine(l) /\ l.id = l.ask /\ r \in toServer
        BY <3>3, <3>5 DEF Servers
      <4>3. PICK i \in Client : i = l.ask /\ i \in sent
        BY <1>1, <4>1, <4>2
      <4>4. \A j \in Client \ {i} :
              (\E f \in toClient' : FromClient(f, j)) <=> (\E f \in toClient : FromClient(f, j))
        BY <3>2, <4>3 DEF FromClient
      <4>5. \A j \in Client \ {i} : PhaseOf(j)' = PhaseOf(j)
        BY <2>0, <4>4, PhaseSame
      <4>6. ~(\E f \in toClient : FromClient(f, i)) /\ FromClient(r, i)
        BY <3>3, <4>1, <4>2, <4>3 DEF FromClient, Mine
      <4>7. PhaseOf(i) = "forwarded"
        BY <4>2, <4>3, <4>6 DEF PhaseOf
      <4>8. FromClient(l, i) /\ l \in toClient'
        BY <3>2, <4>2, <4>3 DEF FromClient, Mine
      <4>9. PhaseOf(i)' = "answered"
        BY <2>0, <4>3, <4>8 DEF PhaseOf, FromClient
      <4>10. Stray' = Stray /\ Over' = Over
        BY <2>0, <3>2, <3>5 DEF Stray, Over
      <4>11. Seen' = Seen \cup {i}
        BY <3>2, <3>5, <4>2, <4>3 DEF Seen
      <4>12. R!Move(i, "forwarded", "answered")
        BY <4>5, <4>7, <4>9, <4>10, RelayMove
      <4>13. R!Answer(i)
        BY <4>11, <4>12 DEF R!Answer, Seen
      <4> QED BY <4>13 DEF R!RelayNext
    <3> QED BY <3>4, <3>5
  <2> QED BY <2>1, <2>2
<1>9. ASSUME NEW t \in Injectors, Inject(t) PROVE UNCHANGED R!relayVars
  <2>1. UNCHANGED <<sent, refused, toClient, closed, cancelled>>
    BY <1>9 DEF Inject, InjectRegister, InjectClosed, InjectSend, InjectReceive,
             InjectCancelled, InjectReturn, shared
  <2>2. /\ \A f \in toServer' : f \in toServer \/ f = InjectedRequest(inj[t].id)
        /\ toServer \subseteq toServer'
    BY <1>9 DEF Inject, InjectRegister, InjectClosed, InjectSend, InjectReceive,
             InjectCancelled, InjectReturn
  <2> QED BY <1>3, <2>1, <2>2, Fields DEF Mine
<1> QED BY <1>5, <1>6, <1>7, <1>8, <1>9 DEF Next

\* The pumps implement Relay for every client, server and set of injectors: a request is refused
\* or forwarded, answered once and under its own id, and until the session ends nothing else
\* reaches the client (proxy.go:237-273, 373-440).
THEOREM PumpsImplementRelay == PlainClients /\ Spec => ImplementsRelay
<1>1. Faith /\ [Next]_vars => [R!RelayNext]_(R!relayVars)
  BY NextFaith, RelayStep DEF Faith
<1> QED BY InitFaith, NextFaith, RelayStart, <1>1, PTL DEF Spec, ImplementsRelay, R!RelaySpec
=============================================================================
