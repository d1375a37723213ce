--------------------------- MODULE HarnessProofs ---------------------------
(***************************************************************************)
(* Proofs about Harness: its types; that nothing reaches the server which  *)
(* the session's posture does not let through, for every set of calls,     *)
(* grants and Kill calls; and that the ack is honest.  And about Drift,    *)
(* which the same session runs: that an answer is read as what its request *)
(* asked for, and that a drift which was seen is reported, once.           *)
(***************************************************************************)
EXTENDS Harness, Drift, FiniteSetTheorems, SequenceTheorems, TLAPS

-----------------------------------------------------------------------------
(* Types.                                                                   *)

\* Every gated decider is a seam (enforce/manifestgate.go:35-52).
LEMMA GatedTyped ==
  ASSUME bounded \in BOOLEAN, NEW d \in {"none", "deny", "allow", "policy"},
         NEW b \in BOOLEAN
  PROVE  Gated(d) \in Seam /\ [Gated(d) EXCEPT !.tools = b] \in Seam
BY DEF Gated, Seam

\* The pump at rest has the pump's type.
LEMMA RestingTyped ==
  /\ Idle \in Pump /\ Done \in Pump
  /\ Idle.pc = "read" /\ Done.pc = "done"
BY DEF Idle, Done, Resting, OpenSeam, Pump, Seam, Severity

\* A session starts well-typed.
LEMMA InitTyped == Init => TypeOK
<1> SUFFICES ASSUME Init PROVE TypeOK
  OBVIOUS
<1>1. PrePump \in Seam
  BY DEF Init, PrePump, Gated, OpenSeam, Seam
<1> QED BY <1>1, RestingTyped DEF Init, TypeOK, Stage

\* Every step of a session keeps the types, one case per action.
LEMMA NextTyped == TypeOK /\ [Next]_vars => TypeOK'
<1> SUFFICES ASSUME TypeOK, [Next]_vars PROVE TypeOK'
  OBVIOUS
<1> USE DEF posture, wiring, traffic, ending
<1>0. ASSUME UNCHANGED <<posture, seam, injector, acked, shed, traffic, expired, ending>>,
             servant' \in Stage, fatal' \in BOOLEAN, channel' \in {"none", "up", "lost"}
      PROVE  TypeOK'
  BY <1>0 DEF TypeOK
<1>1. ASSUME NEW o \in {"elevation", "bad token", "not hello", "no version"},
             AwaitServant(o)
      PROVE  TypeOK'
  <2>1. servant' \in Stage
    BY <1>1 DEF AwaitServant, Stage
  <2>2. fatal' \in BOOLEAN /\ channel' \in {"none", "up", "lost"}
    BY <1>1 DEF AwaitServant
  <2> QED BY <1>0, <1>1, <2>1, <2>2 DEF AwaitServant
<1>2. CASE ServantGoroutine
  <2>1. CASE GiveUp
    BY <2>1 DEF GiveUp, TypeOK, Stage
  <2>2. ASSUME NEW e \in BOOLEAN, Elevation(e) PROVE TypeOK'
    <3>1. servant' \in Stage /\ fatal' \in BOOLEAN /\ channel' \in {"none", "up", "lost"}
      BY <2>2 DEF Elevation, TypeOK, Stage
    <3> QED BY <1>0, <2>2, <3>1 DEF Elevation
  <2>3. ASSUME NEW e \in BOOLEAN, Validate(e) PROVE TypeOK'
    BY <2>3 DEF Validate, TypeOK, Stage
  <2>4. CASE SetToolInjector
    BY <2>4 DEF SetToolInjector, TypeOK, Stage
  <2>5. CASE SetInterceptor
    <3>1. seam' \in Seam
      BY <2>5, GatedTyped DEF SetInterceptor, TypeOK, enforcing
    <3> QED BY <2>5, <3>1 DEF SetInterceptor, TypeOK, Stage
  <2>6. CASE Ack
    <3>1. servant' \in Stage /\ acked' \in {"no", "observe", "enforce"}
      BY <2>6 DEF Ack, AckMode, TypeOK, Stage
    <3> QED BY <2>6, <3>1 DEF Ack, TypeOK
  <2>7. CASE ServeEnds
    BY <2>7 DEF ServeEnds, TypeOK, Stage
  <2> QED BY <1>2, <2>1, <2>2, <2>3, <2>4, <2>5, <2>6, <2>7 DEF ServantGoroutine
<1>3. ASSUME NEW c \in Calls, ReadCall(c) PROVE TypeOK'
  BY <1>3 DEF ReadCall, TypeOK, Pump, Severity
<1>4. CASE ClientPump
  <2>1. CASE AnswerKill
    BY <2>1, RestingTyped DEF AnswerKill, TypeOK
  <2>2. CASE ManifestGate
    <3>1. pump.pc = "gate" => [pump EXCEPT !.pc = "decide"] \in Pump
      BY DEF TypeOK, Pump
    <3>2. pump' \in Pump /\ (pump'.pc \in {"gate", "decide", "forward"} => pump'.call \in Calls)
      BY <2>2, <3>1, RestingTyped DEF ManifestGate, TypeOK, Pump
    <3> QED BY <2>2, <3>2 DEF ManifestGate, TypeOK
  <2>3. ASSUME NEW s \in Severity, Decide(s) PROVE TypeOK'
    <3>1. Clamp(s) \in Severity /\ "allow" \in Severity
      BY DEF Clamp, Severity
    <3>2. pump' = Idle \/ \E v \in Severity : pump' = Forwarding(v)
      BY <2>3, <3>1 DEF Decide
    <3>3. pump' \in Pump /\ (pump'.pc \in {"gate", "decide", "forward"} => pump'.call \in Calls)
      BY <2>3, <3>2, RestingTyped DEF Decide, Forwarding, TypeOK, Pump
    <3> QED BY <2>3, <3>3 DEF Decide, TypeOK
  <2>4. CASE Forward
    <3>1. [call |-> pump.call, by |-> pump.seam.decider, severity |-> pump.severity,
           late |-> pump.late, shed |-> shed] \in Arrival
      BY <2>4 DEF Forward, TypeOK, Arrival, Pump, Seam
    <3> QED BY <2>4, <3>1, RestingTyped DEF Forward, TypeOK
  <2>5. CASE EndPump
    BY <2>5, RestingTyped DEF EndPump, TypeOK
  <2> QED BY <1>4, <2>1, <2>2, <2>3, <2>4, <2>5 DEF ClientPump
<1>5. CASE KillChild
  BY <1>5 DEF KillChild, TypeOK
<1>6. CASE PumpDone
  BY <1>6 DEF PumpDone, TypeOK
<1>7. CASE Return
  BY <1>7 DEF Return, TypeOK
<1>8. CASE ContextKills
  BY <1>8 DEF ContextKills, TypeOK
<1>9. CASE ServerExits
  BY <1>9 DEF ServerExits, TypeOK
<1>10. CASE ServerSheds
  BY <1>10 DEF ServerSheds, TypeOK
<1>11. CASE ChannelLost
  BY <1>11 DEF ChannelLost, TypeOK
<1>12. CASE ClientEOF
  BY <1>12 DEF ClientEOF, TypeOK
<1>13. CASE Expire
  BY <1>13 DEF Expire, TypeOK
<1>14. CASE UNCHANGED vars
  BY <1>14 DEF vars, TypeOK
<1> QED BY <1>1, <1>2, <1>3, <1>4, <1>5, <1>6, <1>7, <1>8, <1>9, <1>10, <1>11, <1>12,
           <1>13, <1>14 DEF Next

\* A session's state keeps its types (harness.go:87-307).
THEOREM TypeCorrect == Spec => []TypeOK
BY InitTyped, NextTyped, PTL DEF Spec

-----------------------------------------------------------------------------
(* What reaches the server: the inductive invariant.                        *)

\* A seam that lets through no more than the session's posture does.
Guarded(s) == /\ enforcing => s.decider \in {"deny", "policy"}
              /\ s.gate = bounded

\* A call past the gate: within the grant, and read before the clocks ran out.
Within(c, late) == bounded => c \notin Ungranted /\ ~late

\* The seam, and the one the pump took, are guarded; a call past the gate is within
\* the bounds; a call past the decider was let through by what the posture requires.
Fenced ==
  /\ Guarded(seam)
  /\ pump.pc \in {"gate", "decide", "forward"} =>
       Guarded(pump.seam) /\ (pump.late => expired)
  /\ pump.pc \in {"decide", "forward"} => Within(pump.call, pump.late)
  /\ pump.pc = "forward" /\ enforcing =>
       pump.seam.decider = "policy" /\ Allowed(pump.severity)
  /\ FailClosed
  /\ BoundedAlways

\* The seam is fenced before the pumps start.
LEMMA InitFenced == Init => Fenced
<1> SUFFICES ASSUME Init PROVE Fenced
  OBVIOUS
<1>1. Guarded(seam)
  BY DEF Init, Guarded, PrePump, Gated, OpenSeam, enforcing
<1>2. pump.pc = "read"
  BY RestingTyped DEF Init
<1> QED BY <1>1, <1>2 DEF Init, Fenced, FailClosed, BoundedAlways

\* Every step keeps the fence: the swaps of the seam and the calls in the pump.
LEMMA NextFenced == TypeOK /\ Fenced /\ [Next]_vars => Fenced'
<1> SUFFICES ASSUME TypeOK, Fenced, [Next]_vars PROVE Fenced'
  OBVIOUS
<1> USE DEF posture, wiring, traffic, ending, enforcing
<1>0. ASSUME UNCHANGED <<composed, bounded, seam, pump, atServer, expired>> PROVE Fenced'
  BY <1>0 DEF Fenced, Guarded, Within, FailClosed, BoundedAlways
<1>1. ASSUME NEW o \in {"elevation", "bad token", "not hello", "no version"},
             AwaitServant(o)
      PROVE  Fenced'
  BY <1>0, <1>1 DEF AwaitServant
<1>2. CASE ServantGoroutine
  <2>1. CASE GiveUp \/ SetToolInjector \/ Ack \/ ServeEnds
    BY <1>0, <2>1 DEF GiveUp, SetToolInjector, Ack, ServeEnds
  <2>2. ASSUME NEW e \in BOOLEAN, Elevation(e) \/ Validate(e) PROVE Fenced'
    BY <1>0, <2>2 DEF Elevation, Validate
  <2>3. CASE SetInterceptor
    <3>1. Guarded(seam)'
      BY <2>3 DEF SetInterceptor, Guarded, Gated, TypeOK
    <3> QED BY <2>3, <3>1 DEF SetInterceptor, Fenced, Guarded, Within, FailClosed,
                              BoundedAlways
  <2> QED BY <1>2, <2>1, <2>2, <2>3 DEF ServantGoroutine
<1>3. ASSUME NEW c \in Calls, ReadCall(c) PROVE Fenced'
  BY <1>3 DEF ReadCall, Fenced, Guarded, Within, FailClosed, BoundedAlways
<1>4. CASE ClientPump
  <2>0. ASSUME UNCHANGED <<composed, bounded, seam, atServer, expired>>,
               pump' = Idle \/ pump' = Done
        PROVE  Fenced'
    BY <2>0, RestingTyped DEF Fenced, Guarded, Within, FailClosed, BoundedAlways
  <2>1. CASE AnswerKill \/ EndPump
    BY <2>0, <2>1 DEF AnswerKill, EndPump
  <2>2. CASE ManifestGate
    <3>1. CASE pump.seam.gate /\ (expired \/ pump.call \in Ungranted)
      BY <2>0, <2>2, <3>1 DEF ManifestGate
    <3>2. CASE ~(pump.seam.gate /\ (expired \/ pump.call \in Ungranted))
      <4>1. /\ pump.pc = "gate" /\ pump'.pc = "decide"
            /\ pump'.call = pump.call /\ pump'.seam = pump.seam /\ pump'.late = pump.late
            /\ UNCHANGED <<composed, bounded, seam, atServer, expired>>
        BY <2>2, <3>2 DEF ManifestGate, TypeOK, Pump
      <4> QED BY <3>2, <4>1 DEF Fenced, Guarded, Within, FailClosed, BoundedAlways
    <3> QED BY <3>1, <3>2
  <2>3. ASSUME NEW s \in Severity, Decide(s) PROVE Fenced'
    <3>1. pump.pc = "decide" /\ UNCHANGED <<composed, bounded, seam, atServer, expired>>
      BY <2>3 DEF Decide
    <3>2. ASSUME NEW v \in Severity, pump' = Forwarding(v),
                 enforcing => pump.seam.decider = "policy" /\ Allowed(v)
          PROVE  Fenced'
      <4>1. /\ pump'.pc = "forward" /\ pump'.severity = v /\ pump'.call = pump.call
            /\ pump'.seam = pump.seam /\ pump'.late = pump.late
        BY <3>2 DEF Forwarding, TypeOK, Pump
      <4> QED BY <3>1, <3>2, <4>1 DEF Fenced, Guarded, Within, FailClosed, BoundedAlways,
                                      Allowed
    <3>3. Clamp(s) \in Severity /\ "allow" \in Severity
      BY DEF Clamp, Severity
    <3>4. CASE pump.seam.decider = "policy"
      BY <2>0, <2>3, <3>1, <3>2, <3>3, <3>4 DEF Decide
    <3>5. CASE pump.seam.decider = "deny"
      BY <2>0, <2>3, <3>1, <3>5 DEF Decide
    <3>6. CASE pump.seam.decider \notin {"policy", "deny"}
      <4>1. ~enforcing
        BY <3>1, <3>6 DEF Fenced, Guarded
      <4> QED BY <2>3, <3>2, <3>3, <3>6, <4>1 DEF Decide
    <3> QED BY <3>4, <3>5, <3>6
  <2>4. CASE Forward
    <3>1. CASE child = "alive"
      <4>1. /\ pump.pc = "forward" /\ pump' = Idle
            /\ UNCHANGED <<composed, bounded, seam, expired>>
            /\ atServer' = atServer \cup
                 {[call |-> pump.call, by |-> pump.seam.decider,
                   severity |-> pump.severity, late |-> pump.late, shed |-> shed]}
        BY <2>4, <3>1 DEF Forward
      <4>2. FailClosed'
        BY <4>1 DEF Fenced, FailClosed, Allowed
      <4>3. BoundedAlways'
        BY <4>1 DEF Fenced, BoundedAlways, Within
      <4> QED BY <4>1, <4>2, <4>3, RestingTyped DEF Fenced, Guarded
    <3>2. CASE child # "alive"
      BY <2>0, <2>4, <3>2 DEF Forward
    <3> QED BY <3>1, <3>2
  <2> QED BY <1>4, <2>1, <2>2, <2>3, <2>4 DEF ClientPump
<1>5. CASE KillChild \/ PumpDone \/ Return
  BY <1>0, <1>5 DEF KillChild, PumpDone, Return
<1>6. CASE ContextKills \/ ServerExits \/ ServerSheds \/ ChannelLost \/ ClientEOF
  BY <1>0, <1>6 DEF ContextKills, ServerExits, ServerSheds, ChannelLost, ClientEOF
<1>7. CASE Expire
  BY <1>7 DEF Expire, Fenced, Guarded, Within, FailClosed, BoundedAlways
<1>8. CASE UNCHANGED vars
  BY <1>0, <1>8 DEF vars
<1> QED BY <1>1, <1>2, <1>3, <1>4, <1>5, <1>6, <1>7, <1>8 DEF Next

\* Under an enforcing composition only an allowing policy verdict lets a call
\* through, from the first frame on (harness.go:185-202, enforcewire.go:117-162).
THEOREM AlwaysFailClosed == Spec => []FailClosed
<1>1. Fenced => FailClosed
  BY DEF Fenced
<1> QED BY InitTyped, NextTyped, InitFenced, NextFenced, <1>1, PTL DEF Spec

\* A session with a manifest is bounded on every path (manifestgate.go:54-86).
THEOREM AlwaysBounded == Spec => []BoundedAlways
<1>1. Fenced => BoundedAlways
  BY DEF Fenced
<1> QED BY InitTyped, NextTyped, InitFenced, NextFenced, <1>1, PTL DEF Spec

-----------------------------------------------------------------------------
(* What the ack licenses: the inductive invariant.                          *)

\* Stages of the servant goroutine before the policy decider is in place.
BeforeSwap == {"await", "elevation", "install", "inject", "swap"}

\* The policy decider is installed whole and late; an ack is written once it is, and
\* only by a handshake that met nothing fatal; shedding follows an enforcing ack.
Staged ==
  /\ seam.decider = "policy" =>
       /\ servant \notin BeforeSwap
       /\ seam = [decider |-> "policy", gate |-> bounded, tools |-> enforcing]
       /\ enforcing => injector
  /\ servant = "swap" /\ enforcing => injector
  /\ acked # "no" => servant \in {"serve", "over"} /\ ~fatal
  /\ fatal => servant \in {"bad token", "over"}
  /\ acked = "enforce" => enforcing /\ seam.decider = "policy"
  /\ shed => acked = "enforce"
  /\ \A a \in atServer : a.shed => enforcing

\* The handshake starts before any ack.
LEMMA InitStaged == Init => Staged
<1> SUFFICES ASSUME Init PROVE Staged
  OBVIOUS
<1>1. seam.decider # "policy"
  BY DEF Init, PrePump, Gated, OpenSeam
<1> QED BY <1>1 DEF Init, Staged

\* Every step keeps the ack in step with the handshake's stage.
LEMMA NextStaged == TypeOK /\ Staged /\ [Next]_vars => Staged'
<1> SUFFICES ASSUME TypeOK, Staged, [Next]_vars PROVE Staged'
  OBVIOUS
<1> USE DEF posture, wiring, traffic, ending, enforcing
<1>0. ASSUME UNCHANGED <<composed, bounded, seam, injector, servant, acked, shed, fatal>>,
             \A a \in atServer' : a \in atServer \/ a.shed = shed
      PROVE  Staged'
  BY <1>0 DEF Staged
<1>1. ASSUME NEW o \in {"elevation", "bad token", "not hello", "no version"},
             AwaitServant(o)
      PROVE  Staged'
  <2>1. /\ servant = "await" /\ servant' = o
        /\ UNCHANGED <<composed, bounded, seam, injector, acked, shed, atServer>>
    BY <1>1 DEF AwaitServant
  <2>2. fatal' => o = "bad token"
    BY <1>1 DEF AwaitServant
  <2>3. seam.decider # "policy" /\ acked = "no"
    BY <2>1 DEF Staged, BeforeSwap
  <2> QED BY <2>1, <2>2, <2>3 DEF Staged
<1>2. CASE ServantGoroutine
  <2>1. CASE GiveUp
    BY <2>1 DEF GiveUp, Staged, BeforeSwap
  <2>2. ASSUME NEW e \in BOOLEAN, Elevation(e) PROVE Staged'
    <3>1. servant = "elevation" /\ seam.decider # "policy" /\ acked = "no" /\ ~fatal
      BY <2>2 DEF Elevation, Staged, BeforeSwap
    <3> QED BY <2>2, <3>1 DEF Elevation, Staged
  <2>3. ASSUME NEW e \in BOOLEAN, Validate(e) PROVE Staged'
    <3>1. servant = "install" /\ seam.decider # "policy" /\ acked = "no" /\ ~fatal
      BY <2>3 DEF Validate, Staged, BeforeSwap
    <3> QED BY <2>3, <3>1 DEF Validate, Staged
  <2>4. CASE SetToolInjector
    <3>1. servant = "inject" /\ seam.decider # "policy" /\ acked = "no" /\ ~fatal
      BY <2>4 DEF SetToolInjector, Staged, BeforeSwap
    <3> QED BY <2>4, <3>1 DEF SetToolInjector, Staged
  <2>5. CASE SetInterceptor
    <3>1. servant = "swap" /\ acked = "no" /\ ~fatal /\ (enforcing => injector)
      BY <2>5 DEF SetInterceptor, Staged
    <3>2. seam' = [decider |-> "policy", gate |-> bounded, tools |-> enforcing]
      BY <2>5 DEF SetInterceptor, Gated
    <3> QED BY <2>5, <3>1, <3>2 DEF SetInterceptor, Staged, BeforeSwap
  <2>6. CASE Ack
    <3>1. servant = "ack" /\ acked = "no" /\ ~fatal
      BY <2>6 DEF Ack, Staged
    <3> QED BY <2>6, <3>1 DEF Ack, AckMode, Staged, BeforeSwap
  <2>7. CASE ServeEnds
    BY <2>7 DEF ServeEnds, Staged, BeforeSwap
  <2> QED BY <1>2, <2>1, <2>2, <2>3, <2>4, <2>5, <2>6, <2>7 DEF ServantGoroutine
<1>3. ASSUME NEW c \in Calls, ReadCall(c) PROVE Staged'
  BY <1>0, <1>3 DEF ReadCall
<1>4. CASE ClientPump
  <2>1. CASE AnswerKill \/ ManifestGate \/ EndPump \/ \E s \in Severity : Decide(s)
    BY <1>0, <2>1 DEF AnswerKill, ManifestGate, EndPump, Decide
  <2>2. CASE Forward
    <3>1. \A a \in atServer' : a \in atServer \/ a.shed = shed
      BY <2>2 DEF Forward
    <3> QED BY <1>0, <2>2, <3>1 DEF Forward
  <2> QED BY <1>4, <2>1, <2>2 DEF ClientPump
<1>5. CASE KillChild \/ PumpDone \/ Return
  BY <1>0, <1>5 DEF KillChild, PumpDone, Return
<1>6. CASE ContextKills \/ ServerExits \/ ChannelLost \/ ClientEOF \/ Expire
  BY <1>0, <1>6 DEF ContextKills, ServerExits, ChannelLost, ClientEOF, Expire
<1>7. CASE ServerSheds
  BY <1>7 DEF ServerSheds, Staged
<1>8. CASE UNCHANGED vars
  BY <1>0, <1>8 DEF vars
<1> QED BY <1>1, <1>2, <1>3, <1>4, <1>5, <1>6, <1>7, <1>8 DEF Next

\* The ack that licenses the server to shed its enforcement finds the policy decider,
\* the injected tools and the gate in place (harness.go:238-269, enforcewire.go:117-162).
THEOREM AlwaysHonest == Spec => []HonestAck
<1>1. Staged => HonestAck
  BY DEF Staged, HonestAck, enforcing
<1> QED BY InitTyped, NextTyped, InitStaged, NextStaged, <1>1, PTL DEF Spec

\* The combination of a server that has shed its enforcement and a harness that does
\* not enforce does not arise (harness.go:238-244).
THEOREM AlwaysGuarded == Spec => []NeverUnguarded
<1>1. Fenced /\ Staged => NeverUnguarded
  BY DEF Fenced, Staged, FailClosed, NeverUnguarded, enforcing
<1> QED BY InitTyped, NextTyped, InitFenced, NextFenced, InitStaged, NextStaged, <1>1, PTL
        DEF Spec

\* A fatal handshake is never acked (harness.go:212-237).
THEOREM FatalUnacked == Spec => []FatalNeverAcked
<1>1. Staged => FatalNeverAcked
  BY DEF Staged, FatalNeverAcked
<1> QED BY InitTyped, NextTyped, InitStaged, NextStaged, <1>1, PTL DEF Spec

\* What the ack tells the servant is so (harness.go:246-269).
THEOREM AckAlwaysTrue == Spec => []AckIsTrue
<1>1. HonestAck /\ NeverUnguarded /\ FatalNeverAcked => AckIsTrue
  BY DEF AckIsTrue
<1> QED BY AlwaysHonest, AlwaysGuarded, FatalUnacked, <1>1, PTL

-----------------------------------------------------------------------------
(* Drift detection (Drift): the observer, the detector and driftMonitor.    *)

Frames == [to : {"client", "monitor"}, id : Ids \cup {0}, method : Methods,
           cursor : BOOLEAN, noted : BOOLEAN]
Lists  == Seq(Entries \cup ToSet(HarnessTools))
Held   == {"mark", "fn", "report"}
Places == [at : {"idle", "asked"} \cup Held, surface : Surfaces \cup {"none"}, list : Lists,
           pinned : BOOLEAN]
Drifts == [surface : Surfaces, hash : Fingerprint, base : Fingerprint]

DriftTyped ==
  /\ side \in {"wire", "library"} /\ server \in {"answers", "free"} /\ injecting \in BOOLEAN
  /\ manifest \in [Surfaces -> Manifest] /\ had \in [Surfaces -> SUBSET Manifest]
  /\ \A s \in Surfaces : manifest[s] \in had[s] /\ IsFiniteSet(had[s])
  /\ changes \in 0 .. MaxChanges /\ requests \in 0 .. MaxRequests /\ recorded \in 0 .. requests
  /\ outstanding \subseteq Ids /\ inbox \subseteq Frames
  /\ DOMAIN pending \subseteq Ids /\ pending \in [DOMAIN pending -> Methods]
  /\ index \in Fingerprint /\ seen \subseteq Surfaces /\ tripped \subseteq Surfaces
  /\ DOMAIN baselines \subseteq Surfaces /\ baselines \in [DOMAIN baselines -> Fingerprint]
  /\ go \in [Goroutines -> Places]
  /\ \A g \in Goroutines : go[g].at # "idle" => go[g].surface \in Surfaces
  /\ re \in Seq(Surfaces) /\ log \in Seq(Drifts)
  /\ taken \in [Surfaces -> SUBSET Fingerprint] /\ blind \subseteq Surfaces
  /\ paged \in [Surfaces -> {"no", "given", "read"}]

\* A request at the server is noted under its id, and no other has that id, as long as it is
\* not answered (observe.go:76-113); the only re-list is the one driftMonitor waits for.
Attributed ==
  /\ inbox # {} => side = "wire"
  /\ \A r \in inbox : r.noted => r.method = "tools" /\ injecting
  /\ \A r \in inbox : r.to = "client" =>
       r.id \in outstanding /\ r.id \in DOMAIN pending /\ pending[r.id] = r.method
  /\ \A q, r \in inbox : q.to = "client" /\ r.to = "client" /\ q.id = r.id => q = r
  /\ \A r \in inbox : r.to = "monitor" =>
       go["monitor"].at = "asked" /\ go["monitor"].surface = r.method /\ ~r.noted /\ ~r.cursor
  /\ \A q, r \in inbox : q.to = "monitor" /\ r.to = "monitor" => q = r

\* A fingerprint that is held or pinned is of a list the server has had, of one with the
\* harness's tools, or of a last page; and a latch is set for a reason.
Astray(s)     == (s = "tools" /\ injecting) \/ paged[s] = "read"
Genuine(s, h) == h \in had[s] \/ Astray(s)
Real ==
  /\ \A g \in Goroutines : go[g].at \in Held => Genuine(go[g].surface, HashTools(go[g].list))
  /\ \A s \in DOMAIN baselines : Genuine(s, baselines[s])
  /\ \A s \in tripped : s \in DOMAIN baselines
                        /\ (Cardinality(had[s]) > 1 \/ Astray(s))

\* Who has set the latch of a surface reports it, and nobody else (rugpull.go:217-241).
Latched ==
  /\ \A k \in DOMAIN log : log[k].surface \in tripped
  /\ \A g \in Goroutines :
       go[g].at = "report" => go[g].surface \in tripped /\ ~Reported(go[g].surface)
  /\ \A g, h \in Goroutines :
       go[g].at = "report" /\ go[h].at = "report" /\ go[g].surface = go[h].surface => g = h
  /\ \A s \in tripped :
       Reported(s) \/ \E g \in Goroutines : go[g].at = "report" /\ go[g].surface = s
  /\ ReportedOnce

\* One goroutine, the one that marked the surface, pins it (observe.go:252-265).
Pinning(g, s) == go[g].at = "fn" /\ ~go[g].pinned /\ go[g].surface = s
Pinned ==
  /\ side = "library" => DOMAIN baselines = Surfaces
  /\ side = "wire" => DOMAIN baselines \subseteq seen
  /\ \A g \in Goroutines :
       /\ go[g].at = "mark" => side = "wire"
       /\ go[g].at = "fn" /\ go[g].pinned /\ side = "wire" => go[g].surface \in seen
  /\ \A g \in Goroutines : \A s \in Surfaces :
       Pinning(g, s) => side = "wire" /\ s \in seen /\ s \notin DOMAIN baselines
  /\ \A g, h \in Goroutines : \A s \in Surfaces : Pinning(g, s) /\ Pinning(h, s) => g = h
  /\ \A s \in seen : s \in DOMAIN baselines \/ \E g \in Goroutines : Pinning(g, s)

\* What was handled is the baseline, or the latch is set, but for what met no baseline.
Compared ==
  \A s \in Surfaces : s \notin blind =>
    /\ s \notin DOMAIN baselines => taken[s] = {}
    /\ s \in DOMAIN baselines => s \in tripped \/ taken[s] \subseteq {baselines[s]}

\* A list in full names the manifest, in whatever order (pigeonhole).
LEMMA ListedInFull ==
  ASSUME DriftTyped, NEW s \in Surfaces, NEW l \in Listed(s, "full")
  PROVE  l \in Lists /\ HashTools(l) = manifest[s]
<1> DEFINE M == manifest[s]
           D == 1 .. Cardinality(M)
<1>1. M \in Manifest /\ IsFiniteSet(M) /\ M \subseteq Entries
  BY DriftConstants DEF DriftTyped, Entries
<1>2. Cardinality(M) \in Nat
  BY <1>1, FS_CardinalityType
<1>3. s # "tools/call"
  BY DriftConstants
<1>4. l \in SetToSeqs(M)
  BY <1>3 DEF Listed
<1>5. l \in [D -> M] /\ \A i, j \in D : i # j => l[i] # l[j]
  BY <1>4 DEF SetToSeqs
<1>6. l \in Injection(D, M)
  BY <1>5 DEF Injection, IsInjective
<1>7. IsFiniteSet(D) /\ Cardinality(D) = Cardinality(M)
  BY <1>2, FS_Interval
<1> HIDE DEF M, D
<1>8. l \in Surjection(D, M)
  BY <1>1, <1>6, <1>7, FS_Injection
<1>9. \A e \in M : \E i \in D : l[i] = e
  BY <1>8 DEF Surjection
<1>10. DOMAIN l = D
  BY <1>5
<1>11. ToSet(l) = M
  BY <1>5, <1>9, <1>10 DEF ToSet
<1>12. l \in Seq(M)
  BY <1>2, <1>5 DEF D
<1>13. l \in Lists
  BY <1>1, <1>12 DEF Lists
<1> QED BY <1>11, <1>13 DEF HashTools, M

\* A page lists entries.
LEMMA ListedInPart ==
  ASSUME DriftTyped, NEW s \in Surfaces, NEW kind, kind \notin {"full", "error"},
         NEW l \in Listed(s, kind)
  PROVE  l \in Lists
<1>1. s # "tools/call"
  BY DriftConstants
<1>2. PICK part \in SUBSET manifest[s] : l \in SetToSeqs(part)
  BY <1>1 DEF Listed
<1>3. IsFiniteSet(manifest[s]) /\ manifest[s] \subseteq Entries
  BY DriftConstants DEF DriftTyped, Entries
<1>4. IsFiniteSet(part) /\ part \subseteq Entries
  BY <1>3, FS_Subset
<1>5. Cardinality(part) \in Nat
  BY <1>4, FS_CardinalityType
<1>6. l \in [1 .. Cardinality(part) -> part]
  BY <1>2 DEF SetToSeqs
<1>7. l \in Seq(part)
  BY <1>5, <1>6
<1> QED BY <1>4, <1>7 DEF Lists

\* What the server may answer.
LEMMA Answered ==
  ASSUME DriftTyped, NEW r \in Frames, NEW a \in Answer(r)
  PROVE  /\ a.kind = "full" /\ r.method \in Surfaces =>
              a.list \in Lists /\ HashTools(a.list) = manifest[r.method]
         /\ a.kind = "last" /\ r.method \in Surfaces => a.list \in Lists
         /\ a.kind = "last" => r.cursor
         /\ a.kind \in {"full", "page", "last", "error"}
         /\ server = "answers" => a.kind = "full"
<1>1. PICK k \in {"full", "page", "last", "error"} :
             /\ a \in [kind : {k}, list : Listed(r.method, k)]
             /\ server = "answers" => k = "full"
             /\ k = "last" => r.cursor
  BY DEF Answer
<1>2. a.kind = k /\ a.list \in Listed(r.method, k)
  BY <1>1
<1>3. r.method \in Surfaces /\ k = "last" => a.list \in Lists
  BY <1>2, ListedInPart
<1> QED BY <1>1, <1>2, <1>3, ListedInFull

\* The harness's tools behind a list.
LEMMA WithTools == ASSUME NEW l \in Lists PROVE l \o HarnessTools \in Lists
<1>1. HarnessTools \in Lists
  BY DriftConstants DEF Lists
<1> QED BY <1>1 DEF Lists

\* A list's fingerprint.
LEMMA ListHash == ASSUME NEW l \in Lists PROVE HashTools(l) \in Fingerprint
<1>1. \A i \in DOMAIN l : l[i] \in Entries \cup ToSet(HarnessTools)
  BY DEF Lists
<1> QED BY <1>1 DEF HashTools, ToSet, Fingerprint

\* At rest.
LEMMA RestPlaced == Rest \in Places /\ Rest.at = "idle" /\ Rest.surface = "none"
<1>1. <<>> \in Lists
  BY DEF Lists
<1> QED BY <1>1 DEF Rest, Places

\* Detection starts with what the constants admit.
LEMMA InitDrift ==
  DriftInit => DriftTyped /\ Attributed /\ Real /\ Latched /\ Pinned /\ Compared
<1> SUFFICES ASSUME DriftInit
             PROVE  DriftTyped /\ Attributed /\ Real /\ Latched /\ Pinned /\ Compared
  OBVIOUS
<1>1. \A g \in Goroutines : go[g] = Rest /\ go[g].at = "idle"
  BY RestPlaced DEF DriftInit
<1>2. /\ manifest \in [Surfaces -> Manifest] /\ had = [s \in Surfaces |-> {manifest[s]}]
      /\ side \in {"wire", "library"}
      /\ side = "wire" => baselines = <<>>
      /\ side = "library" => baselines = manifest
  BY DEF DriftInit
<1>3. DOMAIN baselines \subseteq Surfaces /\ baselines \in [DOMAIN baselines -> Fingerprint]
  <2>1. CASE side = "wire"
    BY <1>2, <2>1
  <2>2. CASE side = "library"
    <3>1. \A m \in Manifest : m \in Fingerprint
      BY DEF Fingerprint, Entries
    <3>2. DOMAIN baselines = Surfaces /\ \A s \in Surfaces : baselines[s] \in Fingerprint
      BY <1>2, <2>2, <3>1
    <3> QED BY <1>2, <2>2, <3>2
  <2> QED BY <1>2, <2>1, <2>2
<1>4. DriftTyped
  <2>1. \A s \in Surfaces :
          manifest[s] \in had[s] /\ had[s] \in SUBSET Manifest /\ IsFiniteSet(had[s])
    <3>1. \A x : IsFiniteSet({x})
      BY FS_Singleton
    <3> QED BY <1>2, <3>1
  <2>2. had \in [Surfaces -> SUBSET Manifest]
    BY <1>2
  <2>3. 0 \in 0 .. MaxChanges /\ 0 \in 0 .. MaxRequests /\ 0 \in 0 .. 0
    BY DriftConstants
  <2>4. pending = <<>> /\ DOMAIN pending = {} /\ pending \in [DOMAIN pending -> Methods]
    BY DEF DriftInit
  <2>5. go \in [Goroutines -> Places]
    BY <1>1, RestPlaced DEF DriftInit
  <2>6. {} \in Fingerprint
    BY DEF Fingerprint
  <2>7. re \in Seq(Surfaces) /\ log \in Seq(Drifts)
    BY DEF DriftInit
  <2>8. /\ taken \in [Surfaces -> SUBSET Fingerprint]
        /\ paged \in [Surfaces -> {"no", "given", "read"}]
    BY DEF DriftInit
  <2> QED BY <1>1, <1>2, <1>3, <2>1, <2>2, <2>3, <2>4, <2>5, <2>6, <2>7, <2>8
          DEF DriftInit, DriftTyped
<1>5. Attributed /\ Latched
  BY <1>1 DEF DriftInit, Attributed, Latched, ReportedOnce
<1>6. Real
  <2>1. \A s \in DOMAIN baselines : Genuine(s, baselines[s])
    <3>1. CASE side = "wire"
      BY <1>2, <3>1
    <3>2. CASE side = "library"
      BY <1>2, <3>2 DEF Genuine
    <3> QED BY <1>2, <3>1, <3>2
  <2> QED BY <1>1, <2>1 DEF DriftInit, Real, Held
<1>7. Pinned
  <2>1. side = "library" => DOMAIN baselines = Surfaces
    BY <1>2
  <2>2. side = "wire" => DOMAIN baselines = {}
    BY <1>2
  <2>3. seen = {}
    BY DEF DriftInit
  <2> QED BY <1>1, <2>1, <2>2, <2>3 DEF Pinned, Pinning
<1>8. Compared
  BY DEF DriftInit, Compared
<1> QED BY <1>4, <1>5, <1>6, <1>7, <1>8

\* What has been taken for the list stays so.
PagedGrows ==
  /\ paged' \in [Surfaces -> {"no", "given", "read"}]
  /\ \A s \in Surfaces : paged[s] = "read" => paged'[s] = "read"

\* A goroutine that holds nothing goes to q: with a list to pin or compare, with a re-list to
\* wait for, or with neither.
Starts(g, q) ==
  /\ q \in Places /\ go' = [go EXCEPT ![g] = q] /\ go[g].at \in {"idle", "asked"}
  /\ q.at \in {"idle", "asked", "mark", "fn"} /\ (q.at # "idle" => q.surface \in Surfaces)
  /\ q.at \in {"mark", "fn"} =>
       Genuine(q.surface, HashTools(q.list)) \/ paged'[q.surface] = "read"
  /\ PagedGrows
  /\ q.at = "mark" => side = "wire"
  /\ q.at = "fn" => side = "library" /\ q.pinned
  /\ UNCHANGED <<host, injecting, seen, baselines, tripped, log, taken, blind>>

\* An answer that is taken for the list.
Whole(a) == a.kind \in {"full", "last"}

\* What is read of an answer (observe.go:183-250).
LEMMA Fingerprinted ==
  ASSUME DriftTyped, NEW g \in Goroutines, NEW s, NEW a, NEW l, fingerprint(g, s, a, l),
         a.kind \in {"full", "page", "last", "error"},
         s \in Surfaces /\ Whole(a) => l \in Lists
  PROVE  \E q \in Places :
           /\ go' = [go EXCEPT ![g] = q] /\ index' \in Fingerprint
           /\ ~(s \in Surfaces /\ Whole(a)) => q.at = "idle" /\ q.surface = "none"
           /\ s \in Surfaces /\ Whole(a) => q.at = "mark" /\ q.surface = s /\ q.list = l
<1>1. CASE s \in Surfaces /\ Whole(a)
  <2> DEFINE q == [Rest EXCEPT !.at = "mark", !.surface = s, !.list = l]
  <2>1. go' = [go EXCEPT ![g] = q] /\ index' \in {index, ToSet(l)}
    BY <1>1 DEF fingerprint, Whole
  <2>2. q \in Places /\ q.at = "mark" /\ q.surface = s /\ q.list = l
    BY <1>1 DEF Rest, Places, Held
  <2>3. index' \in Fingerprint
    BY <1>1, <2>1, ListHash DEF HashTools, DriftTyped
  <2> HIDE DEF q
  <2> QED BY <1>1, <2>1, <2>2, <2>3
<1>2. CASE ~(s \in Surfaces /\ Whole(a))
  <2>1. go' = [go EXCEPT ![g] = Rest] /\ index' = index
    BY <1>2 DEF fingerprint, Whole
  <2> QED BY <1>2, <2>1, RestPlaced DEF DriftTyped
<1> QED BY <1>1, <1>2

\* The server pump reads an answer as what was asked for.
LEMMA PumpStarts ==
  ASSUME DriftTyped, Attributed, NEW r \in inbox, OnServerFrame(r)
  PROVE  \E q : /\ Starts("pump", q) /\ index' \in Fingerprint /\ q.at # "asked"
                /\ q.surface \in {r.method, "none"}
                /\ server = "answers" /\ r.method \in Surfaces => q.surface = r.method
<1>1. /\ r \in Frames /\ r.to = "client" /\ r.id \in DOMAIN pending /\ pending[r.id] = r.method
      /\ side = "wire" /\ (r.noted => r.method = "tools" /\ injecting)
      /\ go["pump"].at = "idle"
  BY DEF OnServerFrame, Attributed, DriftTyped
<1>2. PICK a \in Answer(r) :
        /\ fingerprint("pump", r.method, a,
                       IF r.noted /\ a.kind # "error" THEN a.list \o HarnessTools ELSE a.list)
        /\ paged' = IF a.kind = "last" THEN [paged EXCEPT ![r.method] = "read"]
                    ELSE IF a.kind = "page" /\ paged[r.method] = "no"
                    THEN [paged EXCEPT ![r.method] = "given"]
                    ELSE paged
  BY <1>1 DEF OnServerFrame
<1> DEFINE l == IF r.noted /\ a.kind # "error" THEN a.list \o HarnessTools ELSE a.list
<1>3. /\ a.kind = "full" /\ r.method \in Surfaces =>
           a.list \in Lists /\ HashTools(a.list) = manifest[r.method]
      /\ a.kind = "last" /\ r.method \in Surfaces => a.list \in Lists
      /\ a.kind \in {"full", "page", "last", "error"}
      /\ server = "answers" => a.kind = "full"
  BY <1>1, Answered
<1>g. PagedGrows
  BY <1>2 DEF PagedGrows, DriftTyped
<1>4. ASSUME r.method \in Surfaces, Whole(a)
      PROVE  l \in Lists /\ (Genuine(r.method, HashTools(l)) \/ paged'[r.method] = "read")
  <2>1. a.list \in Lists /\ a.list \o HarnessTools \in Lists
    BY <1>3, <1>4, WithTools DEF Whole
  <2>0. CASE a.kind = "last"
    BY <1>2, <1>4, <2>0, <2>1 DEF DriftTyped
  <2>2. CASE r.noted
    BY <1>1, <2>1, <2>2 DEF Genuine, Astray
  <2>3. CASE ~r.noted /\ a.kind = "full"
    <3>1. l = a.list /\ HashTools(l) = manifest[r.method]
      BY <1>3, <1>4, <2>3
    <3>2. manifest[r.method] \in had[r.method]
      BY <1>4 DEF DriftTyped
    <3> QED BY <2>1, <3>1, <3>2 DEF Genuine
  <2> QED BY <1>4, <2>0, <2>2, <2>3 DEF Whole
<1>5. "pump" \in Goroutines /\ fingerprint("pump", r.method, a, l)
  BY <1>2 DEF Goroutines
<1> HIDE DEF l
<1>6. PICK q \in Places :
        /\ go' = [go EXCEPT !["pump"] = q] /\ index' \in Fingerprint
        /\ ~(r.method \in Surfaces /\ Whole(a)) => q.at = "idle" /\ q.surface = "none"
        /\ r.method \in Surfaces /\ Whole(a) =>
             q.at = "mark" /\ q.surface = r.method /\ q.list = l
  BY <1>3, <1>4, <1>5, Fingerprinted
<1>7. UNCHANGED <<host, injecting, seen, baselines, tripped, log, taken, blind>>
  BY DEF OnServerFrame
<1>8. Starts("pump", q)
  BY <1>1, <1>4, <1>6, <1>7, <1>g DEF Starts
<1> QED BY <1>3, <1>6, <1>8 DEF Whole

\* So does it read the answer to a re-list.
LEMMA InjectedStarts ==
  ASSUME DriftTyped, Attributed, NEW r \in inbox, FingerprintInjected(r)
  PROVE  \E q : /\ Starts("monitor", q) /\ index' \in Fingerprint /\ q.at # "asked"
                /\ q.surface \in {r.method, "none"}
                /\ server = "answers" /\ r.method \in Surfaces => q.surface = r.method
<1>1. /\ r \in Frames /\ r.to = "monitor" /\ side = "wire"
      /\ go["monitor"].at = "asked" /\ go["monitor"].surface = r.method /\ ~r.cursor
  BY DEF FingerprintInjected, Attributed, DriftTyped
<1>2. PICK a \in Answer(r) : fingerprint("monitor", r.method, a, a.list)
  BY <1>1 DEF FingerprintInjected
<1>3. /\ a.kind = "full" /\ r.method \in Surfaces =>
           a.list \in Lists /\ HashTools(a.list) = manifest[r.method]
      /\ a.kind \in {"full", "page", "error"}
      /\ server = "answers" => a.kind = "full"
  BY <1>1, Answered
<1>4. r.method \in Surfaces => manifest[r.method] \in had[r.method]
  BY DEF DriftTyped
<1>5. "monitor" \in Goroutines
  BY DEF Goroutines
<1>6. PICK q \in Places :
        /\ go' = [go EXCEPT !["monitor"] = q] /\ index' \in Fingerprint
        /\ ~(r.method \in Surfaces /\ Whole(a)) => q.at = "idle" /\ q.surface = "none"
        /\ r.method \in Surfaces /\ Whole(a) =>
             q.at = "mark" /\ q.surface = r.method /\ q.list = a.list
  BY <1>2, <1>3, <1>5, Fingerprinted DEF Whole
<1>7. UNCHANGED <<host, injecting, paged, seen, baselines, tripped, log, taken, blind>>
  BY DEF FingerprintInjected
<1>8. Starts("monitor", q)
  BY <1>1, <1>3, <1>4, <1>6, <1>7 DEF Starts, Genuine, PagedGrows, DriftTyped, Whole
<1> QED BY <1>3, <1>6, <1>8 DEF Whole

\* The library's middlewares and its monitor read the live manifest (rugpull.go:250-377).
LEMMA LibraryStarts ==
  ASSUME DriftTyped, NEW g \in Goroutines, NEW s \in Surfaces, NEW l \in Listed(s, "full"),
         side = "library", go[g].at = "idle",
         go' = [go EXCEPT ![g] =
                 [Rest EXCEPT !.at = "fn", !.surface = s, !.list = l, !.pinned = TRUE]],
         UNCHANGED <<host, injecting, paged, seen, baselines, tripped, log, taken, blind>>
  PROVE  \E q : Starts(g, q) /\ q.at = "fn"
<1> DEFINE q == [Rest EXCEPT !.at = "fn", !.surface = s, !.list = l, !.pinned = TRUE]
<1>1. l \in Lists /\ HashTools(l) = manifest[s] /\ manifest[s] \in had[s]
  BY ListedInFull DEF DriftTyped
<1>2. q \in Places /\ q.at = "fn" /\ q.surface = s /\ q.list = l /\ q.pinned = TRUE
  BY <1>1 DEF Rest, Places, Held
<1>3. go' = [go EXCEPT ![g] = q]
  OBVIOUS
<1> HIDE DEF q
<1>4. Starts(g, q)
  BY <1>1, <1>2, <1>3 DEF Starts, Genuine, PagedGrows, DriftTyped
<1> QED BY <1>2, <1>4

\* driftMonitor asks for the next surface.
LEMMA AskingStarts ==
  ASSUME DriftTyped, driftMonitor
  PROVE  \E q :
           Starts("monitor", q) /\ q.at = "asked" /\ q.surface = Head(re) /\ Head(re) \in Surfaces
<1> DEFINE q == [Rest EXCEPT !.at = "asked", !.surface = Head(re)]
<1>1. Head(re) \in Surfaces
  BY DEF DriftTyped, driftMonitor
<1>2. q \in Places /\ q.at = "asked" /\ q.surface = Head(re)
  BY <1>1, RestPlaced DEF Rest, Places
<1>3. /\ go' = [go EXCEPT !["monitor"] = q] /\ go["monitor"].at = "idle"
      /\ UNCHANGED <<host, injecting, paged, seen, baselines, tripped, log, taken, blind>>
  BY DEF driftMonitor
<1> HIDE DEF q
<1>4. Starts("monitor", q)
  BY <1>1, <1>2, <1>3 DEF Starts, PagedGrows, DriftTyped
<1> QED BY <1>1, <1>2, <1>4

\* Every step, as the detector sees it.
LEMMA DriftShape ==
  ASSUME DriftTyped, Attributed, [DriftNext]_driftVars
  PROVE  \/ \E s \in Surfaces : Mutate(s)
         \/ \E g \in Goroutines : \E q : Starts(g, q)
         \/ installEnforcement
         \/ \E g \in Goroutines : Observe(g)
         \/ UNCHANGED <<host, injecting, paged, seen, baselines, tripped, go, log, taken, blind>>
<1>0. "pump" \in Goroutines /\ "monitor" \in Goroutines
  BY DEF Goroutines
<1>1. ASSUME NEW s \in Surfaces, Middleware(s) PROVE \E g \in Goroutines : \E q : Starts(g, q)
  <2>1. PICK l \in Listed(s, "full") :
          go' = [go EXCEPT !["pump"] =
                  [Rest EXCEPT !.at = "fn", !.surface = s, !.list = l, !.pinned = TRUE]]
    BY <1>1 DEF Middleware
  <2>2. /\ side = "library" /\ go["pump"].at = "idle"
        /\ UNCHANGED <<host, injecting, paged, seen, baselines, tripped, log, taken, blind>>
    BY <1>1 DEF Middleware
  <2>3. \E q : Starts("pump", q) /\ q.at = "fn"
    BY <1>0, <2>1, <2>2, LibraryStarts
  <2> QED BY <1>0, <2>3
<1>2. ASSUME Recheck PROVE \E g \in Goroutines : \E q : Starts(g, q)
  <2>0. Head(re) \in Surfaces
    BY <1>2 DEF Recheck, DriftTyped
  <2>1. PICK l \in Listed(Head(re), "full") :
          go' = [go EXCEPT !["monitor"] =
                  [Rest EXCEPT !.at = "fn", !.surface = Head(re), !.list = l, !.pinned = TRUE]]
    BY <1>2 DEF Recheck
  <2>2. /\ side = "library" /\ go["monitor"].at = "idle"
        /\ UNCHANGED <<host, injecting, paged, seen, baselines, tripped, log, taken, blind>>
    BY <1>2 DEF Recheck
  <2>3. \E q : Starts("monitor", q) /\ q.at = "fn"
    BY <1>0, <2>0, <2>1, <2>2, LibraryStarts
  <2> QED BY <1>0, <2>3
<1>3. ASSUME NEW r \in inbox, OnServerFrame(r) \/ FingerprintInjected(r)
      PROVE  \E g \in Goroutines : \E q : Starts(g, q)
  BY <1>0, <1>3, PumpStarts, InjectedStarts
<1>4. driftMonitor => \E g \in Goroutines : \E q : Starts(g, q)
  BY <1>0, AskingStarts
<1>5. ASSUME \/ \E id \in Ids, method \in Methods, cursor \in BOOLEAN : ClientSends(id, method, cursor)
             \/ Tick
             \/ UNCHANGED driftVars
      PROVE  UNCHANGED <<host, injecting, paged, seen, baselines, tripped, go, log, taken, blind>>
  BY <1>5 DEF ClientSends, Tick, driftVars, host
<1> QED BY <1>1, <1>2, <1>3, <1>4, <1>5 DEF DriftNext

\* Going somewhere keeps the goroutines' types.
LEMMA StartsTyped ==
  ASSUME DriftTyped, NEW g \in Goroutines, NEW q, Starts(g, q)
  PROVE  /\ go' \in [Goroutines -> Places] /\ go'[g] = q
         /\ \A h \in Goroutines : h # g => go'[h] = go[h]
         /\ \A h \in Goroutines : go'[h].at # "idle" => go'[h].surface \in Surfaces
<1>1. go \in [Goroutines -> Places] /\ q \in Places /\ go' = [go EXCEPT ![g] = q]
  BY DEF DriftTyped, Starts
<1>2. go' \in [Goroutines -> Places] /\ go'[g] = q /\ \A h \in Goroutines : h # g => go'[h] = go[h]
  BY <1>1
<1> QED BY <1>2 DEF DriftTyped, Starts

\* Types of the steps that leave the detector alone.
LEMMA StartsKeepTypes ==
  ASSUME DriftTyped, NEW g \in Goroutines, NEW q, Starts(g, q), inbox' \subseteq Frames,
         outstanding' \subseteq Ids, DOMAIN pending' \subseteq Ids,
         pending' \in [DOMAIN pending' -> Methods], index' \in Fingerprint, re' \in Seq(Surfaces),
         UNCHANGED <<requests, recorded>>
  PROVE  DriftTyped'
<1>1. /\ go' \in [Goroutines -> Places]
      /\ \A h \in Goroutines : go'[h].at # "idle" => go'[h].surface \in Surfaces
  BY StartsTyped
<1>2. UNCHANGED <<host, injecting, seen, baselines, tripped, log, taken, blind>>
  BY DEF Starts
<1>3. paged' \in [Surfaces -> {"no", "given", "read"}]
  BY DEF Starts, PagedGrows
<1> QED BY <1>1, <1>2, <1>3 DEF DriftTyped, host

\* Dropping a note, and making one.
LEMMA NotesTyped ==
  ASSUME DriftTyped, NEW id, NEW m
  PROVE  /\ DOMAIN Drop(pending, id) = DOMAIN pending \ {id}
         /\ Drop(pending, id) \in [DOMAIN Drop(pending, id) -> Methods]
         /\ \A x \in DOMAIN pending \ {id} : Drop(pending, id)[x] = pending[x]
         /\ DOMAIN Put(pending, id, m) = DOMAIN pending \cup {id}
         /\ m \in Methods => Put(pending, id, m) \in [DOMAIN Put(pending, id, m) -> Methods]
         /\ \A x \in DOMAIN pending : x # id => Put(pending, id, m)[x] = pending[x]
         /\ Put(pending, id, m)[id] = m
BY DEF DriftTyped, Drop, Put

\* What is re-listed are surfaces.
LEMMA RelistedTyped == Relisted \in Seq(Surfaces) /\ InPlay("tools") \in Seq(Surfaces)
<1>1. \A s : InPlay(s) \in Seq(Surfaces)
  BY DEF InPlay
<1> QED BY <1>1 DEF Relisted

\* Every step keeps the types (observe.go, rugpull.go).
LEMMA NextDriftTyped ==
  DriftTyped /\ Attributed /\ Real /\ Latched /\ [DriftNext]_driftVars => DriftTyped'
<1> SUFFICES ASSUME DriftTyped, Attributed, Real, Latched, [DriftNext]_driftVars
             PROVE  DriftTyped'
  OBVIOUS
<1>0. "pump" \in Goroutines /\ "monitor" \in Goroutines
  BY DEF Goroutines
<1>1. ASSUME NEW s \in Surfaces, Mutate(s) PROVE DriftTyped'
  <2>1. PICK m \in Manifest : /\ manifest' = [manifest EXCEPT ![s] = m]
                              /\ had' = [had EXCEPT ![s] = @ \cup {m}]
    BY <1>1 DEF Mutate
  <2>2. manifest' \in [Surfaces -> Manifest] /\ had' \in [Surfaces -> SUBSET Manifest]
    BY <2>1 DEF DriftTyped
  <2>3. IsFiniteSet(had[s] \cup {m})
    BY FS_AddElement DEF DriftTyped
  <2>4. \A t \in Surfaces : manifest'[t] \in had'[t] /\ IsFiniteSet(had'[t])
    BY <2>1, <2>3 DEF DriftTyped
  <2>5. changes' \in 0 .. MaxChanges
    BY <1>1, DriftConstants DEF Mutate, DriftTyped
  <2> QED BY <1>1, <2>2, <2>4, <2>5 DEF Mutate, DriftTyped, wire
<1>2. ASSUME NEW s \in Surfaces, Middleware(s) PROVE DriftTyped'
  <2>1. PICK l \in Listed(s, "full") :
          go' = [go EXCEPT !["pump"] =
                  [Rest EXCEPT !.at = "fn", !.surface = s, !.list = l, !.pinned = TRUE]]
    BY <1>2 DEF Middleware
  <2>2. /\ side = "library" /\ go["pump"].at = "idle"
        /\ UNCHANGED <<host, wire, injecting, index, paged, seen, baselines, tripped, re, log, taken, blind>>
    BY <1>2 DEF Middleware
  <2>3. PICK q : Starts("pump", q)
    BY <1>0, <2>1, <2>2, LibraryStarts
  <2>4. UNCHANGED <<inbox, outstanding, pending, requests, recorded, index, re>>
    BY <2>2 DEF wire
  <2>5. /\ inbox' \subseteq Frames /\ outstanding' \subseteq Ids /\ DOMAIN pending' \subseteq Ids
        /\ pending' \in [DOMAIN pending' -> Methods] /\ index' \in Fingerprint
        /\ re' \in Seq(Surfaces)
    BY <2>4 DEF DriftTyped
  <2> QED BY <1>0, <2>3, <2>4, <2>5, StartsKeepTypes
<1>3. ASSUME Recheck PROVE DriftTyped'
  <2>0. Head(re) \in Surfaces /\ Tail(re) \in Seq(Surfaces)
    BY <1>3 DEF Recheck, DriftTyped
  <2>1. PICK l \in Listed(Head(re), "full") :
          go' = [go EXCEPT !["monitor"] =
                  [Rest EXCEPT !.at = "fn", !.surface = Head(re), !.list = l, !.pinned = TRUE]]
    BY <1>3 DEF Recheck
  <2>2. /\ side = "library" /\ go["monitor"].at = "idle" /\ re' = Tail(re)
        /\ UNCHANGED <<host, wire, injecting, index, paged, seen, baselines, tripped, log, taken, blind>>
    BY <1>3 DEF Recheck
  <2>3. PICK q : Starts("monitor", q)
    BY <1>0, <2>0, <2>1, <2>2, LibraryStarts
  <2>4. UNCHANGED <<inbox, outstanding, pending, requests, recorded, index>>
    BY <2>2 DEF wire
  <2>5. /\ inbox' \subseteq Frames /\ outstanding' \subseteq Ids /\ DOMAIN pending' \subseteq Ids
        /\ pending' \in [DOMAIN pending' -> Methods] /\ index' \in Fingerprint
        /\ re' \in Seq(Surfaces)
    BY <2>0, <2>2, <2>4 DEF DriftTyped
  <2> QED BY <1>0, <2>3, <2>4, <2>5, StartsKeepTypes
<1>4. ASSUME NEW r \in inbox, OnServerFrame(r) PROVE DriftTyped'
  <2>1. PICK q : Starts("pump", q) /\ index' \in Fingerprint
    BY <1>4, PumpStarts
  <2>2. /\ inbox' = inbox \ {r} /\ pending' = Drop(pending, r.id)
        /\ outstanding' = outstanding \ {r.id}
        /\ UNCHANGED <<requests, recorded, re>>
    BY <1>4 DEF OnServerFrame
  <2>3. DOMAIN pending' \subseteq Ids /\ pending' \in [DOMAIN pending' -> Methods]
    <3>1. /\ DOMAIN Drop(pending, r.id) = DOMAIN pending \ {r.id}
          /\ Drop(pending, r.id) \in [DOMAIN Drop(pending, r.id) -> Methods]
      BY NotesTyped
    <3> QED BY <2>2, <3>1 DEF DriftTyped
  <2>4. inbox' \subseteq Frames /\ outstanding' \subseteq Ids /\ re' \in Seq(Surfaces)
    BY <2>2 DEF DriftTyped
  <2> QED BY <1>0, <2>1, <2>2, <2>3, <2>4, StartsKeepTypes
<1>5. ASSUME NEW r \in inbox, FingerprintInjected(r) PROVE DriftTyped'
  <2>1. PICK q : Starts("monitor", q) /\ index' \in Fingerprint
    BY <1>5, InjectedStarts
  <2>2. inbox' = inbox \ {r} /\ UNCHANGED <<pending, outstanding, requests, recorded, re>>
    BY <1>5 DEF FingerprintInjected
  <2>3. DOMAIN pending' \subseteq Ids /\ pending' \in [DOMAIN pending' -> Methods]
    BY <2>2 DEF DriftTyped
  <2>4. inbox' \subseteq Frames /\ outstanding' \subseteq Ids /\ re' \in Seq(Surfaces)
    BY <2>2 DEF DriftTyped
  <2> QED BY <1>0, <2>1, <2>2, <2>3, <2>4, StartsKeepTypes
<1>6. ASSUME driftMonitor PROVE DriftTyped'
  <2>1. PICK q : Starts("monitor", q) /\ Head(re) \in Surfaces
    BY <1>6, AskingStarts
  <2>2. /\ re' = Tail(re) /\ Tail(re) \in Seq(Surfaces)
        /\ inbox' = inbox \cup {[to |-> "monitor", id |-> 0, method |-> Head(re), cursor |-> FALSE,
                                noted |-> FALSE]}
        /\ UNCHANGED <<pending, outstanding, requests, recorded, index>>
    BY <1>6 DEF driftMonitor, DriftTyped
  <2>3. [to |-> "monitor", id |-> 0, method |-> Head(re), cursor |-> FALSE,
                                noted |-> FALSE] \in Frames
    BY <2>1 DEF Frames, Methods
  <2>4. /\ inbox' \subseteq Frames /\ outstanding' \subseteq Ids /\ DOMAIN pending' \subseteq Ids
        /\ pending' \in [DOMAIN pending' -> Methods] /\ index' \in Fingerprint
        /\ re' \in Seq(Surfaces)
    BY <2>2, <2>3 DEF DriftTyped
  <2> QED BY <1>0, <2>1, <2>2, <2>4, StartsKeepTypes
<1>7. ASSUME NEW id \in Ids, NEW m \in Methods, NEW c \in BOOLEAN, ClientSends(id, m, c)
      PROVE  DriftTyped'
  <2>1. /\ pending' = Put(pending, id, m) /\ requests' = requests + 1 /\ requests < MaxRequests
        /\ recorded' \in {recorded, recorded + 1}
    BY <1>7 DEF ClientSends, OnClientFrame, record, DriftTyped
  <2>2. DOMAIN pending' \subseteq Ids /\ pending' \in [DOMAIN pending' -> Methods]
    <3>1. /\ DOMAIN Put(pending, id, m) = DOMAIN pending \cup {id}
          /\ Put(pending, id, m) \in [DOMAIN Put(pending, id, m) -> Methods]
      BY NotesTyped
    <3> QED BY <2>1, <3>1 DEF DriftTyped
  <2>3. requests' \in 0 .. MaxRequests /\ recorded' \in 0 .. requests'
    BY <2>1, DriftConstants DEF DriftTyped
  <2>4. noteListRequest(id, m) \in BOOLEAN
    BY DEF noteListRequest, DriftTyped
  <2>5. [to |-> "client", id |-> id, method |-> m, cursor |-> c,
               noted |-> noteListRequest(id, m)] \in Frames
    BY <2>4 DEF Frames
  <2>6. inbox' \subseteq Frames /\ outstanding' \subseteq Ids
    BY <1>7, <2>5 DEF ClientSends, DriftTyped
  <2>7. UNCHANGED <<host, injecting, index, paged, seen, baselines, tripped, go, re, log, taken, blind>>
    BY <1>7 DEF ClientSends
  <2> QED BY <2>2, <2>3, <2>6, <2>7 DEF DriftTyped, host
<1>8. ASSUME installEnforcement \/ Tick PROVE DriftTyped'
  BY <1>8, RelistedTyped DEF installEnforcement, Tick, DriftTyped, host, wire
<1>9. ASSUME NEW g \in Goroutines, pinOrRecheck(g) PROVE DriftTyped'
  <2>1. go[g] \in Places /\ go[g].surface \in Surfaces
    BY <1>9 DEF pinOrRecheck, DriftTyped
  <2>2. [go[g] EXCEPT !.at = "fn", !.pinned = go[g].surface \in seen] \in Places
    <3> DEFINE b == go[g].surface \in seen
    <3>1. b \in BOOLEAN
      OBVIOUS
    <3> HIDE DEF b
    <3>2. [go[g] EXCEPT !.at = "fn", !.pinned = b] \in Places
      BY <2>1, <3>1 DEF Places, Held
    <3> QED BY <3>2 DEF b
  <2>3. go' = [go EXCEPT ![g] = [go[g] EXCEPT !.at = "fn", !.pinned = go[g].surface \in seen]]
    BY <1>9 DEF pinOrRecheck
  <2>4. /\ go' \in [Goroutines -> Places]
        /\ \A h \in Goroutines : go'[h].at # "idle" => go'[h].surface \in Surfaces
    BY <2>1, <2>2, <2>3 DEF DriftTyped, Places
  <2>5. seen' \subseteq Surfaces
    BY <1>9, <2>1 DEF pinOrRecheck, DriftTyped
  <2> QED BY <1>9, <2>4, <2>5 DEF pinOrRecheck, DriftTyped, host, wire
<1>10. ASSUME NEW g \in Goroutines, setBaseline(g) PROVE DriftTyped'
  <2>1. go[g].surface \in Surfaces /\ HashTools(go[g].list) \in Fingerprint
    BY <1>10, ListHash DEF setBaseline, DriftTyped, Places
  <2>2. /\ baselines' = Put(baselines, go[g].surface, HashTools(go[g].list))
        /\ taken' = [taken EXCEPT ![go[g].surface] = @ \cup {HashTools(go[g].list)}]
        /\ go' = [go EXCEPT ![g] = Rest]
    BY <1>10 DEF setBaseline
  <2>3. DOMAIN baselines' \subseteq Surfaces /\ baselines' \in [DOMAIN baselines' -> Fingerprint]
    BY <2>1, <2>2 DEF Put, DriftTyped
  <2>4. taken' \in [Surfaces -> SUBSET Fingerprint]
    BY <2>1, <2>2 DEF DriftTyped
  <2>5. /\ go' \in [Goroutines -> Places]
        /\ \A h \in Goroutines : go'[h].at # "idle" => go'[h].surface \in Surfaces
    BY <2>2, RestPlaced DEF DriftTyped
  <2> QED BY <1>10, <2>3, <2>4, <2>5 DEF setBaseline, DriftTyped, host, wire
<1>11. ASSUME NEW g \in Goroutines, compareSurface(g) PROVE DriftTyped'
  <2>1. go[g] \in Places /\ go[g].surface \in Surfaces /\ HashTools(go[g].list) \in Fingerprint
    BY <1>11, ListHash DEF compareSurface, DriftTyped, Places
  <2>2. /\ taken' = [taken EXCEPT ![go[g].surface] = @ \cup {HashTools(go[g].list)}]
        /\ blind' \subseteq blind \cup {go[g].surface}
        /\ tripped' \subseteq tripped \cup {go[g].surface}
        /\ go' = [go EXCEPT ![g] = Rest] \/ go' = [go EXCEPT ![g].at = "report"]
    BY <1>11 DEF compareSurface
  <2>3. taken' \in [Surfaces -> SUBSET Fingerprint]
    BY <2>1, <2>2 DEF DriftTyped
  <2>4. [go[g] EXCEPT !.at = "report"] \in Places
    BY <2>1 DEF Places, Held
  <2>5. /\ go' \in [Goroutines -> Places]
        /\ \A h \in Goroutines : go'[h].at # "idle" => go'[h].surface \in Surfaces
    <3>1. CASE go' = [go EXCEPT ![g] = Rest]
      BY <3>1, RestPlaced DEF DriftTyped
    <3>2. CASE go' = [go EXCEPT ![g].at = "report"]
      <4>1. go' = [go EXCEPT ![g] = [go[g] EXCEPT !.at = "report"]]
        BY <3>2
      <4>2. [go[g] EXCEPT !.at = "report"].surface = go[g].surface
        BY <2>1 DEF Places
      <4> QED BY <2>1, <2>4, <4>1, <4>2 DEF DriftTyped
    <3> QED BY <2>2, <3>1, <3>2
  <2>6. blind' \subseteq Surfaces /\ tripped' \subseteq Surfaces
    BY <2>1, <2>2 DEF DriftTyped
  <2> QED BY <1>11, <2>3, <2>5, <2>6 DEF compareSurface, DriftTyped, host, wire
<1>12. ASSUME NEW g \in Goroutines, Report(g) PROVE DriftTyped'
  <2>0. go[g].surface \in DOMAIN baselines
    BY <1>12 DEF Report, Latched, Real
  <2>1. go[g].surface \in Surfaces /\ HashTools(go[g].list) \in Fingerprint
    BY <1>12, ListHash DEF Report, DriftTyped, Places
  <2>2. baselines[go[g].surface] \in Fingerprint
    BY <2>0 DEF DriftTyped
  <2>3. log' \in Seq(Drifts)
    BY <1>12, <2>1, <2>2 DEF Report, DriftTyped, Drifts
  <2>4. /\ go' \in [Goroutines -> Places]
        /\ \A h \in Goroutines : go'[h].at # "idle" => go'[h].surface \in Surfaces
    BY <1>12, RestPlaced DEF Report, DriftTyped
  <2> QED BY <1>12, <2>3, <2>4 DEF Report, DriftTyped, host, wire
<1>13. CASE UNCHANGED driftVars
  BY <1>13 DEF driftVars, DriftTyped
<1> QED BY <1>1, <1>2, <1>3, <1>4, <1>5, <1>6, <1>7, <1>8, <1>9, <1>10, <1>11, <1>12, <1>13
        DEF DriftNext, Observe

\* Every step keeps requests apart and their notes true.
LEMMA NextAttributed == DriftTyped /\ Attributed /\ [DriftNext]_driftVars => Attributed'
<1> SUFFICES ASSUME DriftTyped, Attributed, [DriftNext]_driftVars PROVE Attributed'
  OBVIOUS
<1>0. "pump" \in Goroutines /\ "monitor" \in Goroutines /\ "pump" # "monitor"
  BY DEF Goroutines
<1>1. CASE UNCHANGED <<side, inbox, outstanding, pending, go["monitor"]>> /\ (injecting => injecting')
  BY <1>1 DEF Attributed
<1>2. ASSUME NEW g \in Goroutines, Observe(g) PROVE Attributed'
  <2>1. go[g].at \in Held /\ (\A h \in Goroutines : h # g => go'[h] = go[h])
    BY <1>2 DEF Observe, pinOrRecheck, setBaseline, compareSurface, Report, Held, DriftTyped
  <2>2. UNCHANGED <<side, inbox, outstanding, pending, injecting>>
    BY <1>2 DEF Observe, pinOrRecheck, setBaseline, compareSurface, Report, host, wire
  <2>3. CASE g = "pump"
    BY <1>0, <1>1, <2>1, <2>2, <2>3
  <2>4. CASE g = "monitor"
    <3>1. \A r \in inbox : r.to # "monitor"
      BY <2>1, <2>4 DEF Attributed, Held
    <3> QED BY <2>2, <3>1 DEF Attributed
  <2> QED BY <2>3, <2>4 DEF Goroutines
<1>3. ASSUME \/ \E s \in Surfaces : Mutate(s)
             \/ installEnforcement \/ Tick \/ UNCHANGED driftVars
      PROVE  Attributed'
  BY <1>1, <1>3 DEF Mutate, installEnforcement, Tick, driftVars, host, wire
<1>4. ASSUME NEW s \in Surfaces, Middleware(s) PROVE Attributed'
  <2>1. inbox = {} /\ inbox' = inbox
    BY <1>4 DEF Middleware, Attributed, wire
  <2> QED BY <2>1 DEF Attributed
<1>5. ASSUME Recheck PROVE Attributed'
  <2>1. inbox = {} /\ inbox' = inbox
    BY <1>5 DEF Recheck, Attributed, wire
  <2> QED BY <2>1 DEF Attributed
<1>6. ASSUME NEW r \in inbox, OnServerFrame(r) PROVE Attributed'
  <2>1. /\ inbox' = inbox \ {r} /\ pending' = Drop(pending, r.id)
        /\ outstanding' = outstanding \ {r.id}
        /\ r.to = "client"
    BY <1>6 DEF OnServerFrame
  <2>2. UNCHANGED <<side, injecting, go["monitor"]>>
    BY <1>0, <1>6 DEF OnServerFrame, fingerprint, host, DriftTyped
  <2>3. \A q \in inbox' : q.to = "client" => q.id # r.id
    BY <2>1 DEF Attributed
  <2>4. /\ DOMAIN pending' = DOMAIN pending \ {r.id}
        /\ \A x \in DOMAIN pending \ {r.id} : pending'[x] = pending[x]
    BY <2>1, NotesTyped
  <2> QED BY <2>1, <2>2, <2>3, <2>4 DEF Attributed
<1>7. ASSUME NEW r \in inbox, FingerprintInjected(r) PROVE Attributed'
  <2>1. /\ inbox' = inbox \ {r} /\ r.to = "monitor"
        /\ UNCHANGED <<side, injecting, pending, outstanding>>
    BY <1>7 DEF FingerprintInjected, host
  <2>2. \A q \in inbox : q.to = "monitor" => q = r
    <3> SUFFICES ASSUME NEW q \in inbox, q.to = "monitor" PROVE q = r
      OBVIOUS
    <3> QED BY <2>1 DEF Attributed
  <2> QED BY <2>1, <2>2 DEF Attributed
<1>8. ASSUME driftMonitor PROVE Attributed'
  <2> DEFINE f == [to |-> "monitor", id |-> 0, method |-> Head(re), cursor |-> FALSE,
                                noted |-> FALSE]
  <2>1. PICK q : Starts("monitor", q) /\ q.at = "asked" /\ q.surface = Head(re)
    BY <1>8, AskingStarts
  <2>2. go'["monitor"].at = "asked" /\ go'["monitor"].surface = Head(re)
    BY <1>0, <2>1, StartsTyped
  <2>3. /\ side = "wire" /\ go["monitor"].at = "idle" /\ inbox' = inbox \cup {f}
        /\ UNCHANGED <<side, injecting, outstanding, pending>>
    BY <1>8 DEF driftMonitor, host
  <2>4. \A r \in inbox : r.to # "monitor"
    BY <2>3 DEF Attributed
  <2>5. f.to = "monitor" /\ f.method = Head(re) /\ f.noted = FALSE /\ f.cursor = FALSE
    OBVIOUS
  <2> HIDE DEF f
  <2> QED BY <2>2, <2>3, <2>4, <2>5 DEF Attributed
<1>9. ASSUME NEW id \in Ids, NEW m \in Methods, NEW c \in BOOLEAN, ClientSends(id, m, c)
      PROVE  Attributed'
  <2> DEFINE f == [to |-> "client", id |-> id, method |-> m, cursor |-> c,
               noted |-> noteListRequest(id, m)]
  <2>1. /\ pending' = Put(pending, id, m) /\ id \notin outstanding /\ side = "wire"
        /\ \/ outstanding' = outstanding \cup {id} /\ inbox' = inbox \cup {f}
           \/ UNCHANGED <<outstanding, inbox>>
        /\ UNCHANGED <<side, injecting, go>>
    BY <1>9 DEF ClientSends, OnClientFrame, host
  <2>2. /\ DOMAIN pending' = DOMAIN pending \cup {id} /\ pending'[id] = m
        /\ \A x \in DOMAIN pending : x # id => pending'[x] = pending[x]
    <3>1. /\ DOMAIN Put(pending, id, m) = DOMAIN pending \cup {id} /\ Put(pending, id, m)[id] = m
          /\ \A x \in DOMAIN pending : x # id => Put(pending, id, m)[x] = pending[x]
      BY DEF Put
    <3> QED BY <2>1, <3>1
  <2>3. \A r \in inbox : r.to = "client" => r.id # id
    BY <2>1 DEF Attributed
  <2>4. f.to = "client" /\ f.id = id /\ f.method = m /\ (f.noted => m = "tools" /\ injecting)
    BY DEF noteListRequest
  <2> HIDE DEF f
  <2>5. \A r \in inbox : r.to = "client" =>
          r.id \in outstanding' /\ r.id \in DOMAIN pending' /\ pending'[r.id] = r.method
    BY <2>1, <2>2, <2>3 DEF Attributed
  <2>6. CASE inbox' = inbox
    BY <2>1, <2>5, <2>6 DEF Attributed
  <2>7. CASE outstanding' = outstanding \cup {id} /\ inbox' = inbox \cup {f}
    <3>1. \A r \in inbox' : r.to = "client" =>
            r.id \in outstanding' /\ r.id \in DOMAIN pending' /\ pending'[r.id] = r.method
      BY <2>2, <2>4, <2>5, <2>7
    <3>2. \A q, r \in inbox' : q.to = "client" /\ r.to = "client" /\ q.id = r.id => q = r
      BY <2>3, <2>4, <2>7 DEF Attributed
    <3>3. \A r \in inbox' : r.noted => r.method = "tools" /\ injecting
      BY <2>4, <2>7 DEF Attributed
    <3>4. \A r \in inbox' : r.to = "monitor" => r \in inbox
      BY <2>4, <2>7
    <3> QED BY <2>1, <3>1, <3>2, <3>3, <3>4 DEF Attributed
  <2> QED BY <2>1, <2>6, <2>7
<1> QED BY <1>2, <1>3, <1>4, <1>5, <1>6, <1>7, <1>8, <1>9 DEF DriftNext

\* Every step keeps fingerprints genuine and latches justified.
LEMMA NextReal == DriftTyped /\ Attributed /\ Real /\ [DriftNext]_driftVars => Real'
<1> SUFFICES ASSUME DriftTyped, Attributed, Real, [DriftNext]_driftVars PROVE Real'
  OBVIOUS
<1>1. CASE UNCHANGED <<go, baselines, tripped>> /\ (injecting => injecting')
           /\ \A s \in Surfaces : had[s] \subseteq had'[s] /\ IsFiniteSet(had'[s])
           /\ paged' = paged
  <2>1. ASSUME NEW s \in Surfaces, Cardinality(had[s]) > 1 PROVE Cardinality(had'[s]) > 1
    <3>1. had[s] \in SUBSET had'[s] /\ IsFiniteSet(had'[s])
      BY <1>1
    <3>2. Cardinality(had[s]) <= Cardinality(had'[s])
      BY <3>1, FS_Subset
    <3>3. Cardinality(had[s]) \in Nat /\ Cardinality(had'[s]) \in Nat
      BY <3>1, FS_CardinalityType DEF DriftTyped
    <3> QED BY <2>1, <3>2, <3>3
  <2>2. \A g \in Goroutines : go[g].at \in Held => go[g].surface \in Surfaces
    BY DEF DriftTyped, Held
  <2>3. DOMAIN baselines \subseteq Surfaces /\ tripped \subseteq Surfaces
    BY DEF DriftTyped
  <2>4. (\A g \in Goroutines : go[g].at \in Held => Genuine(go[g].surface, HashTools(go[g].list)))'
    BY <1>1, <2>2 DEF Real, Genuine, Astray
  <2>5. (\A s \in DOMAIN baselines : Genuine(s, baselines[s]))'
    BY <1>1, <2>3 DEF Real, Genuine, Astray
  <2>6. \A s \in tripped' : s \in DOMAIN baselines'
                        /\ (Cardinality(had'[s]) > 1 \/ Astray(s)')
    BY <1>1, <2>1, <2>3 DEF Real, Astray
  <2> QED BY <2>4, <2>5, <2>6 DEF Real
<1>2. ASSUME NEW s \in Surfaces, Mutate(s) PROVE Real'
  <2>1. PICK m \in Manifest : had' = [had EXCEPT ![s] = @ \cup {m}]
    BY <1>2 DEF Mutate
  <2>2. IsFiniteSet(had[s] \cup {m})
    BY FS_AddElement DEF DriftTyped
  <2>3. \A t \in Surfaces : had[t] \subseteq had'[t] /\ IsFiniteSet(had'[t])
    BY <2>1, <2>2 DEF DriftTyped
  <2>4. UNCHANGED <<go, baselines, tripped, injecting, paged>>
    BY <1>2 DEF Mutate
  <2> QED BY <1>1, <2>3, <2>4
<1>3. CASE installEnforcement \/ UNCHANGED <<host, injecting, paged, seen, baselines, tripped, go, log, taken, blind>>
  <2>1. UNCHANGED <<had, go, baselines, tripped, paged>> /\ (injecting => injecting')
    BY <1>3 DEF installEnforcement, host
  <2> QED BY <1>1, <2>1 DEF DriftTyped
<1>4. ASSUME NEW g \in Goroutines, NEW q, Starts(g, q) PROVE Real'
  <2>1. /\ go'[g] = q /\ \A h \in Goroutines : h # g => go'[h] = go[h]
        /\ \A h \in Goroutines : go'[h].at # "idle" => go'[h].surface \in Surfaces
    BY <1>4, StartsTyped
  <2>2. /\ q.at \in Held => Genuine(q.surface, HashTools(q.list)) \/ paged'[q.surface] = "read"
        /\ \A s \in Surfaces : paged[s] = "read" => paged'[s] = "read"
        /\ UNCHANGED <<had, injecting, baselines, tripped>>
    BY <1>4 DEF Starts, PagedGrows, Held, host
  <2>3. ASSUME NEW h \in Goroutines, go'[h].at \in Held
        PROVE  Genuine(go[h].surface, HashTools(go[h].list))'
    <3>1. go'[h].surface \in Surfaces
      BY <2>1, <2>3 DEF Held
    <3>2. \/ Genuine(go'[h].surface, HashTools(go'[h].list))
          \/ paged'[go'[h].surface] = "read"
      BY <2>1, <2>2, <2>3 DEF Real
    <3> QED BY <2>2, <3>1, <3>2 DEF Genuine, Astray
  <2>4. DOMAIN baselines \subseteq Surfaces /\ tripped \subseteq Surfaces
    BY DEF DriftTyped
  <2>5. \A s \in Surfaces : Astray(s) => Astray(s)'
    BY <2>2 DEF Astray
  <2>6. (\A s \in DOMAIN baselines : Genuine(s, baselines[s]))'
    BY <2>2, <2>4, <2>5 DEF Real, Genuine
  <2>7. (\A s \in tripped : s \in DOMAIN baselines /\ (Cardinality(had[s]) > 1 \/ Astray(s)))'
    BY <2>2, <2>4, <2>5 DEF Real
  <2> QED BY <2>3, <2>6, <2>7 DEF Real
<1>5. ASSUME NEW g \in Goroutines, pinOrRecheck(g) PROVE Real'
  <2>1. /\ go[g].at \in Held /\ go'[g].surface = go[g].surface /\ go'[g].list = go[g].list
        /\ \A h \in Goroutines : h # g => go'[h] = go[h]
        /\ UNCHANGED <<had, injecting, paged, baselines, tripped>>
    BY <1>5 DEF pinOrRecheck, Held, host, DriftTyped, Places
  <2>2. \A h \in Goroutines : go'[h].at \in Held => Genuine(go'[h].surface, HashTools(go'[h].list))
    BY <2>1 DEF Real
  <2> QED BY <2>1, <2>2 DEF Real, Genuine, Astray
<1>6. ASSUME NEW g \in Goroutines, go' = [go EXCEPT ![g] = Rest]
      PROVE  \A h \in Goroutines :
               go'[h].at \in Held => Genuine(go'[h].surface, HashTools(go'[h].list))
  <2>1. go'[g] = Rest /\ \A h \in Goroutines : h # g => go'[h] = go[h]
    BY <1>6 DEF DriftTyped
  <2> QED BY <2>1, RestPlaced DEF Real, Held
<1>7. ASSUME NEW g \in Goroutines, setBaseline(g) PROVE Real'
  <2>1. /\ Genuine(go[g].surface, HashTools(go[g].list))
        /\ UNCHANGED <<had, injecting, paged, tripped>>
        /\ baselines' = Put(baselines, go[g].surface, HashTools(go[g].list))
    BY <1>7 DEF setBaseline, Real, Held, host
  <2>2. \A s \in DOMAIN baselines' : Genuine(s, baselines'[s])
    BY <2>1 DEF Put, Real
  <2>3. DOMAIN baselines \subseteq DOMAIN baselines'
    BY <2>1 DEF Put
  <2>4. \A h \in Goroutines : go'[h].at \in Held => Genuine(go'[h].surface, HashTools(go'[h].list))
    BY <1>6, <1>7 DEF setBaseline
  <2> QED BY <2>1, <2>2, <2>3, <2>4 DEF Real, Genuine, Astray
<1>8. ASSUME NEW g \in Goroutines, compareSurface(g) PROVE Real'
  <2> DEFINE s == go[g].surface
             hash == HashTools(go[g].list)
  <2>1. /\ s \in Surfaces /\ Genuine(s, hash) /\ go[g].at \in Held
        /\ UNCHANGED <<had, injecting, paged, baselines>>
    BY <1>8 DEF compareSurface, Real, Held, host, DriftTyped
  <2>2. CASE go' = [go EXCEPT ![g] = Rest] /\ tripped' = tripped
    <3>1. \A h \in Goroutines :
            go'[h].at \in Held => Genuine(go'[h].surface, HashTools(go'[h].list))
      BY <1>6, <2>2
    <3> QED BY <2>1, <2>2, <3>1 DEF Real, Genuine, Astray
  <2>3. CASE /\ go' = [go EXCEPT ![g].at = "report"] /\ tripped' = tripped \cup {s}
             /\ s \in DOMAIN baselines /\ hash # baselines[s]
    <3>1. /\ go'[g].surface = go[g].surface /\ go'[g].list = go[g].list
          /\ \A h \in Goroutines : h # g => go'[h] = go[h]
      BY <2>3 DEF DriftTyped, Places
    <3>2. \A h \in Goroutines :
            go'[h].at \in Held => Genuine(go'[h].surface, HashTools(go'[h].list))
      BY <2>1, <3>1 DEF Real
    <3>3. Cardinality(had[s]) > 1 \/ Astray(s)
      <4>1. CASE Astray(s)
        BY <4>1
      <4>2. CASE ~Astray(s)
        <5>1. hash \in had[s] /\ baselines[s] \in had[s]
          BY <2>1, <2>3, <4>2 DEF Genuine, Real
        <5> DEFINE b == baselines[s]
        <5>2. {hash, b} \in SUBSET had[s] /\ IsFiniteSet(had[s]) /\ hash # b
          BY <2>1, <2>3, <5>1 DEF DriftTyped
        <5> HIDE DEF s, hash, b
        <5>3. Cardinality({hash, b}) = 2
          <6>1. Cardinality({hash}) = 1 /\ IsFiniteSet({hash})
            BY FS_Singleton
          <6>2. {hash} \cup {b} = {hash, b} /\ b \notin {hash}
            BY <5>2
          <6> QED BY <6>1, <6>2, FS_AddElement
        <5>4. Cardinality({hash, b}) <= Cardinality(had[s]) /\ Cardinality(had[s]) \in Nat
          BY <5>2, FS_Subset, FS_CardinalityType
        <5> QED BY <5>3, <5>4
      <4> QED BY <4>1, <4>2
    <3> QED BY <2>1, <2>3, <3>2, <3>3 DEF Real, Genuine, Astray
  <2>4. \/ go' = [go EXCEPT ![g] = Rest] /\ tripped' = tripped
        \/ /\ go' = [go EXCEPT ![g].at = "report"] /\ tripped' = tripped \cup {s}
           /\ s \in DOMAIN baselines /\ hash # baselines[s]
    BY <1>8 DEF compareSurface
  <2> QED BY <2>2, <2>3, <2>4
<1>9. ASSUME NEW g \in Goroutines, Report(g) PROVE Real'
  <2>1. \A h \in Goroutines : go'[h].at \in Held => Genuine(go'[h].surface, HashTools(go'[h].list))
    BY <1>6, <1>9 DEF Report
  <2>2. UNCHANGED <<had, injecting, paged, baselines, tripped>>
    BY <1>9 DEF Report, host
  <2> QED BY <2>1, <2>2 DEF Real, Genuine, Astray
<1> QED BY <1>2, <1>3, <1>4, <1>5, <1>7, <1>8, <1>9, DriftShape DEF Observe

\* A drift that is chained is a drift of that surface.
LEMMA ReportedMore ==
  ASSUME DriftTyped, NEW e \in Drifts, log' = Append(log, e)
  PROVE  /\ DOMAIN log' = DOMAIN log \cup {Len(log) + 1} /\ Len(log) + 1 \notin DOMAIN log
         /\ log'[Len(log) + 1] = e /\ \A k \in DOMAIN log : log'[k] = log[k]
         /\ \A s : Reported(s)' <=> Reported(s) \/ s = e.surface
<1>1. log \in Seq(Drifts)
  BY DEF DriftTyped
<1>2. /\ Len(log) \in Nat /\ DOMAIN log = 1 .. Len(log) /\ DOMAIN log' = 1 .. Len(log) + 1
      /\ log'[Len(log) + 1] = e /\ \A k \in 1 .. Len(log) : log'[k] = log[k]
  BY <1>1
<1>3. DOMAIN log' = DOMAIN log \cup {Len(log) + 1} /\ Len(log) + 1 \notin DOMAIN log
  BY <1>2
<1>4. \A s : Reported(s)' <=> Reported(s) \/ s = e.surface
  BY <1>2, <1>3 DEF Reported
<1> QED BY <1>2, <1>3, <1>4

\* Every step leaves the report to the one who has set the latch.
LEMMA NextLatched == DriftTyped /\ Attributed /\ Real /\ Latched /\ [DriftNext]_driftVars => Latched'
<1> SUFFICES ASSUME DriftTyped, Attributed, Real, Latched, [DriftNext]_driftVars PROVE Latched'
  OBVIOUS
<1>1. ASSUME UNCHANGED <<log, tripped>>,
             \A h \in Goroutines : /\ go'[h].at = "report" <=> go[h].at = "report"
                                   /\ go[h].at = "report" => go'[h].surface = go[h].surface
      PROVE  Latched'
  <2>1. \A s : Reported(s)' <=> Reported(s)
    BY <1>1 DEF Reported
  <2>2. ReportedOnce'
    BY <1>1 DEF Latched, ReportedOnce
  <2>3. \A g \in Goroutines :
          go'[g].at = "report" => go'[g].surface \in tripped' /\ ~Reported(go[g].surface)
    BY <1>1 DEF Latched
  <2>4. (\A g \in Goroutines :
           go[g].at = "report" => go[g].surface \in tripped /\ ~Reported(go[g].surface))'
    BY <1>1, <2>3 DEF Reported
  <2>5. \A s \in tripped' :
          Reported(s)' \/ \E g \in Goroutines : go'[g].at = "report" /\ go'[g].surface = s
    BY <1>1, <2>1 DEF Latched
  <2> QED BY <1>1, <2>2, <2>4, <2>5 DEF Latched
<1>2. ASSUME \/ \E s \in Surfaces : Mutate(s)
             \/ installEnforcement
             \/ UNCHANGED <<host, injecting, paged, seen, baselines, tripped, go, log, taken, blind>>
      PROVE  Latched'
  <2>1. UNCHANGED <<log, tripped, go>>
    BY <1>2 DEF Mutate, installEnforcement
  <2> QED BY <1>1, <2>1
<1>3. ASSUME NEW g \in Goroutines, NEW q, Starts(g, q) PROVE Latched'
  <2>1. go'[g] = q /\ \A h \in Goroutines : h # g => go'[h] = go[h]
    BY <1>3, StartsTyped
  <2>2. go[g].at # "report" /\ q.at # "report" /\ UNCHANGED <<log, tripped>>
    BY <1>3 DEF Starts
  <2> QED BY <1>1, <2>1, <2>2
<1>4. ASSUME NEW g \in Goroutines, pinOrRecheck(g) PROVE Latched'
  <2>1. /\ go[g].at = "mark" /\ go'[g].at = "fn" /\ \A h \in Goroutines : h # g => go'[h] = go[h]
        /\ UNCHANGED <<log, tripped>>
    BY <1>4 DEF pinOrRecheck, DriftTyped, Places
  <2> QED BY <1>1, <2>1
<1>5. ASSUME NEW g \in Goroutines, setBaseline(g) PROVE Latched'
  <2>1. /\ go[g].at = "fn" /\ go'[g] = Rest /\ \A h \in Goroutines : h # g => go'[h] = go[h]
        /\ UNCHANGED <<log, tripped>>
    BY <1>5 DEF setBaseline, DriftTyped
  <2> QED BY <1>1, <2>1, RestPlaced
<1>6. ASSUME NEW g \in Goroutines, compareSurface(g) PROVE Latched'
  <2> DEFINE s == go[g].surface
  <2>0. go[g].at = "fn" /\ log' = log /\ s \in Surfaces
    BY <1>6 DEF compareSurface, DriftTyped
  <2>1. CASE go' = [go EXCEPT ![g] = Rest] /\ tripped' = tripped
    <3>1. go'[g] = Rest /\ \A h \in Goroutines : h # g => go'[h] = go[h]
      BY <2>1 DEF DriftTyped
    <3> QED BY <1>1, <2>0, <2>1, <3>1, RestPlaced
  <2>2. CASE /\ go' = [go EXCEPT ![g].at = "report"] /\ tripped' = tripped \cup {s}
             /\ s \notin tripped
    <3>1. /\ go'[g].at = "report" /\ go'[g].surface = s
          /\ \A h \in Goroutines : h # g => go'[h] = go[h]
      BY <2>2 DEF DriftTyped, Places
    <3> HIDE DEF s
    <3>2. ~Reported(s) /\ (\A t : Reported(t)' <=> Reported(t))
      BY <2>0, <2>2 DEF Latched, Reported
    <3>3. \A h \in Goroutines : h # g /\ go[h].at = "report" => go[h].surface # s
      BY <2>2 DEF Latched
    <3>4. \A k \in DOMAIN log' : log'[k].surface \in tripped'
      BY <2>0, <2>2 DEF Latched
    <3>5. (\A h \in Goroutines :
             go[h].at = "report" => go[h].surface \in tripped /\ ~Reported(go[h].surface))'
      <4> SUFFICES ASSUME NEW h \in Goroutines, go'[h].at = "report"
                   PROVE  go'[h].surface \in tripped' /\ ~(\E k \in DOMAIN log' :
                            log'[k].surface = go'[h].surface)
        BY DEF Reported
      <4>1. CASE h = g
        BY <2>0, <2>2, <3>1, <3>2, <4>1 DEF Reported
      <4>2. CASE h # g
        BY <2>0, <2>2, <3>1, <4>2 DEF Reported, Latched
      <4> QED BY <4>1, <4>2
    <3>6. \A h, i \in Goroutines :
            go'[h].at = "report" /\ go'[i].at = "report" /\ go'[h].surface = go'[i].surface => h = i
      BY <3>1, <3>3 DEF Latched
    <3>7. \A t \in tripped' :
            Reported(t)' \/ \E h \in Goroutines : go'[h].at = "report" /\ go'[h].surface = t
      <4> SUFFICES ASSUME NEW t \in tripped'
                   PROVE  Reported(t)' \/ \E h \in Goroutines :
                            go'[h].at = "report" /\ go'[h].surface = t
        OBVIOUS
      <4>1. CASE t = s
        BY <3>1, <4>1
      <4>2. CASE t # s
        <5>1. t \in tripped
          BY <2>2, <4>2
        <5>2. Reported(t) \/ \E h \in Goroutines : go[h].at = "report" /\ go[h].surface = t
          BY <5>1 DEF Latched
        <5> QED BY <2>0, <3>1, <3>2, <5>2
      <4> QED BY <4>1, <4>2
    <3>8. ReportedOnce'
      BY <2>0 DEF Latched, ReportedOnce
    <3> QED BY <3>4, <3>5, <3>6, <3>7, <3>8 DEF Latched
  <2>3. \/ go' = [go EXCEPT ![g] = Rest] /\ tripped' = tripped
        \/ /\ go' = [go EXCEPT ![g].at = "report"] /\ tripped' = tripped \cup {s}
           /\ s \notin tripped
    BY <1>6 DEF compareSurface, Tripped
  <2> QED BY <2>1, <2>2, <2>3
<1>7. ASSUME NEW g \in Goroutines, Report(g) PROVE Latched'
  <2> DEFINE s == go[g].surface
             e == [surface |-> s, hash |-> HashTools(go[g].list), base |-> baselines[s]]
  <2>0. go[g].at = "report" /\ tripped' = tripped /\ log' = Append(log, e) /\ go' = [go EXCEPT ![g] = Rest]
    BY <1>7 DEF Report
  <2>1. go'[g] = Rest /\ \A h \in Goroutines : h # g => go'[h] = go[h]
    BY <2>0 DEF DriftTyped
  <2>2. s \in tripped /\ ~Reported(s) /\ s \in DOMAIN baselines /\ s \in Surfaces
    BY <2>0 DEF Latched, Real, DriftTyped
  <2>3. e \in Drifts /\ e.surface = s
    <3>1. HashTools(go[g].list) \in Fingerprint
      BY ListHash DEF DriftTyped, Places
    <3>2. baselines[s] \in Fingerprint
      BY <2>2 DEF DriftTyped
    <3> QED BY <2>2, <3>1, <3>2 DEF Drifts
  <2> HIDE DEF s, e
  <2>4. /\ DOMAIN log' = DOMAIN log \cup {Len(log) + 1} /\ Len(log) + 1 \notin DOMAIN log
        /\ log'[Len(log) + 1] = e /\ \A k \in DOMAIN log : log'[k] = log[k]
        /\ \A t : Reported(t)' <=> Reported(t) \/ t = s
    BY <2>0, <2>3, ReportedMore
  <2>5. \A k \in DOMAIN log' : log'[k].surface \in tripped'
    BY <2>0, <2>2, <2>3, <2>4 DEF Latched
  <2>6. \A h \in Goroutines : h # g /\ go[h].at = "report" => go[h].surface # s
    BY <2>0 DEF Latched, s
  <2>7. (\A h \in Goroutines :
           go[h].at = "report" => go[h].surface \in tripped /\ ~Reported(go[h].surface))'
    <3> SUFFICES ASSUME NEW h \in Goroutines, go'[h].at = "report"
                 PROVE  go'[h].surface \in tripped' /\ ~(\E k \in DOMAIN log' :
                          log'[k].surface = go'[h].surface)
      BY DEF Reported
    <3>1. h # g /\ go'[h] = go[h]
      BY <2>1, RestPlaced
    <3>2. go[h].surface \in tripped /\ ~Reported(go[h].surface) /\ go[h].surface # s
      BY <2>6, <3>1 DEF Latched
    <3> QED BY <2>0, <2>3, <2>4, <3>1, <3>2 DEF Reported
  <2>8. \A h, i \in Goroutines :
          go'[h].at = "report" /\ go'[i].at = "report" /\ go'[h].surface = go'[i].surface => h = i
    BY <2>1, RestPlaced DEF Latched
  <2>9. \A t \in tripped' :
          Reported(t)' \/ \E h \in Goroutines : go'[h].at = "report" /\ go'[h].surface = t
    <3> SUFFICES ASSUME NEW t \in tripped', t # s
                 PROVE  Reported(t)' \/ \E h \in Goroutines :
                          go'[h].at = "report" /\ go'[h].surface = t
      BY <2>4
    <3>1. Reported(t) \/ \E h \in Goroutines : go[h].at = "report" /\ go[h].surface = t
      BY <2>0 DEF Latched
    <3> QED BY <2>1, <2>4, <3>1 DEF s
  <2>10. ReportedOnce'
    <3>1. \A k \in DOMAIN log : log[k].surface # s
      BY <2>2 DEF Reported
    <3>2. \A j, k \in DOMAIN log : log[j].surface = log[k].surface => j = k
      BY DEF Latched, ReportedOnce
    <3>3. \A j, k \in DOMAIN log' : log'[j].surface = log'[k].surface => j = k
      BY <2>3, <2>4, <3>1, <3>2
    <3> QED BY <3>3 DEF ReportedOnce
  <2> QED BY <2>5, <2>7, <2>8, <2>9, <2>10 DEF Latched
<1> QED BY <1>2, <1>3, <1>4, <1>5, <1>6, <1>7, DriftShape DEF Observe

\* Every step leaves the pinning to the one who has marked the surface.
LEMMA NextPinned == DriftTyped /\ Attributed /\ Pinned /\ [DriftNext]_driftVars => Pinned'
<1> SUFFICES ASSUME DriftTyped, Attributed, Pinned, [DriftNext]_driftVars PROVE Pinned'
  OBVIOUS
<1>1. ASSUME UNCHANGED <<side, seen, baselines>>,
             \A h \in Goroutines : \A s \in Surfaces : Pinning(h, s)' <=> Pinning(h, s),
             \A h \in Goroutines :
               /\ go'[h].at = "mark" => side = "wire"
               /\ go'[h].at = "fn" /\ go'[h].pinned /\ side = "wire" => go'[h].surface \in seen
      PROVE  Pinned'
  <2>1. \A s \in seen' : s \in DOMAIN baselines' \/ \E h \in Goroutines : Pinning(h, s)'
    BY <1>1 DEF Pinned, DriftTyped
  <2>2. \A h \in Goroutines : \A s \in Surfaces :
          Pinning(h, s)' => side' = "wire" /\ s \in seen' /\ s \notin DOMAIN baselines'
    BY <1>1 DEF Pinned
  <2>3. \A h, i \in Goroutines : \A s \in Surfaces : Pinning(h, s)' /\ Pinning(i, s)' => h = i
    BY <1>1 DEF Pinned
  <2> QED BY <1>1, <2>1, <2>2, <2>3 DEF Pinned
<1>2. ASSUME \/ \E s \in Surfaces : Mutate(s)
             \/ installEnforcement
             \/ UNCHANGED <<host, injecting, paged, seen, baselines, tripped, go, log, taken, blind>>
      PROVE  Pinned'
  <2>1. UNCHANGED <<side, seen, baselines, go>>
    BY <1>2 DEF Mutate, installEnforcement, host
  <2> QED BY <1>1, <2>1 DEF Pinned, Pinning
<1>3. ASSUME NEW g \in Goroutines, go[g].at # "fn" \/ go[g].pinned,
             UNCHANGED <<side, seen, baselines>>,
             \A h \in Goroutines : h # g => go'[h] = go[h],
             go'[g].at = "mark" => side = "wire",
             go'[g].at = "fn" => side = "library" /\ go'[g].pinned
      PROVE  Pinned'
  <2>1. \A h \in Goroutines : \A s \in Surfaces : Pinning(h, s)' <=> Pinning(h, s)
    BY <1>3 DEF Pinning
  <2>2. \A h \in Goroutines :
          /\ go'[h].at = "mark" => side = "wire"
          /\ go'[h].at = "fn" /\ go'[h].pinned /\ side = "wire" => go'[h].surface \in seen
    BY <1>3 DEF Pinned
  <2> QED BY <1>1, <1>3, <2>1, <2>2
<1>4. ASSUME NEW g \in Goroutines, NEW q, Starts(g, q) PROVE Pinned'
  <2>1. go'[g] = q /\ \A h \in Goroutines : h # g => go'[h] = go[h]
    BY <1>4, StartsTyped
  <2>2. /\ go[g].at # "fn" /\ (q.at = "mark" => side = "wire")
        /\ (q.at = "fn" => side = "library" /\ q.pinned) /\ UNCHANGED <<side, seen, baselines>>
    BY <1>4 DEF Starts, host
  <2> QED BY <1>3, <2>1, <2>2
<1>5. ASSUME NEW g \in Goroutines, compareSurface(g) \/ Report(g) PROVE Pinned'
  <2>1. /\ go[g].at # "fn" \/ go[g].pinned
        /\ UNCHANGED <<side, seen, baselines>>
    BY <1>5 DEF compareSurface, Report, host
  <2>2. go' = [go EXCEPT ![g] = Rest] \/ go' = [go EXCEPT ![g].at = "report"]
    BY <1>5 DEF compareSurface, Report
  <2>3. (\A h \in Goroutines : h # g => go'[h] = go[h]) /\ go'[g].at \in {"idle", "report"}
    BY <2>2, RestPlaced DEF DriftTyped, Places
  <2> QED BY <1>3, <2>1, <2>3
<1>6. ASSUME NEW g \in Goroutines, pinOrRecheck(g) PROVE Pinned'
  <2> DEFINE s == go[g].surface
  <2>1. /\ go[g].at = "mark" /\ s \in Surfaces /\ side = "wire"
        /\ seen' = seen \cup {s} /\ UNCHANGED <<side, baselines>>
    BY <1>6 DEF pinOrRecheck, host, DriftTyped, Pinned
  <2>2. /\ go'[g].at = "fn" /\ go'[g].surface = s /\ go'[g].pinned = (s \in seen)
        /\ \A h \in Goroutines : h # g => go'[h] = go[h]
    BY <1>6 DEF pinOrRecheck, DriftTyped, Places
  <2> HIDE DEF s
  <2>3. \A h \in Goroutines : h # g => \A t \in Surfaces : Pinning(h, t)' <=> Pinning(h, t)
    BY <2>2 DEF Pinning
  <2>4. \A t \in Surfaces : ~Pinning(g, t) /\ (Pinning(g, t)' <=> t = s /\ s \notin seen)
    BY <2>1, <2>2 DEF Pinning
  <2>5. DOMAIN baselines' \subseteq seen' /\ (s \notin seen => s \notin DOMAIN baselines)
    BY <2>1 DEF Pinned
  <2>6. \A h \in Goroutines :
          /\ go'[h].at = "mark" => side' = "wire"
          /\ go'[h].at = "fn" /\ go'[h].pinned /\ side' = "wire" => go'[h].surface \in seen'
    BY <2>1, <2>2 DEF Pinned
  <2>7. \A h \in Goroutines : \A t \in Surfaces :
          Pinning(h, t)' => side' = "wire" /\ t \in seen' /\ t \notin DOMAIN baselines'
    BY <2>1, <2>3, <2>4, <2>5 DEF Pinned
  <2>8. \A h, i \in Goroutines : \A t \in Surfaces : Pinning(h, t)' /\ Pinning(i, t)' => h = i
    <3> SUFFICES ASSUME NEW h \in Goroutines, NEW i \in Goroutines, NEW t \in Surfaces,
                        Pinning(h, t)', Pinning(i, t)', h # i
                 PROVE  FALSE
      OBVIOUS
    <3>1. CASE h # g /\ i # g
      BY <2>3, <3>1 DEF Pinned
    <3>2. CASE h = g
      BY <2>3, <2>4, <3>2 DEF Pinned
    <3>3. CASE i = g
      BY <2>3, <2>4, <3>3 DEF Pinned
    <3> QED BY <3>1, <3>2, <3>3
  <2>9. \A t \in seen' : t \in DOMAIN baselines' \/ \E h \in Goroutines : Pinning(h, t)'
    <3> SUFFICES ASSUME NEW t \in seen', t \notin DOMAIN baselines'
                 PROVE  \E h \in Goroutines : Pinning(h, t)'
      OBVIOUS
    <3>1. CASE t \in seen
      <4>1. PICK h \in Goroutines : Pinning(h, t)
        BY <2>1, <3>1 DEF Pinned
      <4>2. t \in Surfaces
        BY <3>1 DEF DriftTyped
      <4>3. h # g
        BY <2>4, <4>1, <4>2
      <4> QED BY <2>3, <4>1, <4>2, <4>3
    <3>2. CASE t \notin seen
      <4>1. t = s
        BY <2>1, <3>2
      <4> QED BY <2>1, <2>4, <3>2, <4>1
    <3> QED BY <3>1, <3>2
  <2> QED BY <2>1, <2>5, <2>6, <2>7, <2>8, <2>9 DEF Pinned
<1>7. ASSUME NEW g \in Goroutines, setBaseline(g) PROVE Pinned'
  <2> DEFINE s == go[g].surface
  <2>1. /\ s \in Surfaces /\ Pinning(g, s) /\ UNCHANGED <<side, seen>>
        /\ baselines' = Put(baselines, s, HashTools(go[g].list)) /\ go' = [go EXCEPT ![g] = Rest]
    BY <1>7 DEF setBaseline, DriftTyped, Pinning, host
  <2>2. go'[g].at = "idle" /\ \A h \in Goroutines : h # g => go'[h] = go[h]
    BY <2>1, RestPlaced DEF DriftTyped
  <2>3. DOMAIN baselines' = DOMAIN baselines \cup {s}
    BY <2>1 DEF Put
  <2> HIDE DEF s
  <2>4. side = "wire" /\ s \in seen /\ s \notin DOMAIN baselines
    BY <2>1 DEF Pinned
  <2>5. \A h \in Goroutines : \A t \in Surfaces :
          /\ h # g => (Pinning(h, t)' <=> Pinning(h, t))
          /\ h = g => ~Pinning(h, t)'
    BY <2>2 DEF Pinning
  <2>6. \A h \in Goroutines : \A t \in Surfaces : h # g /\ Pinning(h, t) => t # s
    BY <2>1 DEF Pinned
  <2>7. \A h \in Goroutines :
          /\ go'[h].at = "mark" => side' = "wire"
          /\ go'[h].at = "fn" /\ go'[h].pinned /\ side' = "wire" => go'[h].surface \in seen'
    BY <2>1, <2>2 DEF Pinned
  <2>8. \A h \in Goroutines : \A t \in Surfaces :
          Pinning(h, t)' => side' = "wire" /\ t \in seen' /\ t \notin DOMAIN baselines'
    BY <2>1, <2>3, <2>5, <2>6 DEF Pinned
  <2>9. \A h, i \in Goroutines : \A t \in Surfaces : Pinning(h, t)' /\ Pinning(i, t)' => h = i
    BY <2>5 DEF Pinned
  <2>10. \A t \in seen' : t \in DOMAIN baselines' \/ \E h \in Goroutines : Pinning(h, t)'
    <3> SUFFICES ASSUME NEW t \in seen', t \notin DOMAIN baselines'
                 PROVE  \E h \in Goroutines : Pinning(h, t)'
      OBVIOUS
    <3>1. t \in seen /\ t \in Surfaces /\ t \notin DOMAIN baselines /\ t # s
      BY <2>1, <2>3 DEF DriftTyped
    <3>2. PICK h \in Goroutines : Pinning(h, t)
      BY <3>1 DEF Pinned
    <3>3. h # g
      BY <2>1, <3>1, <3>2 DEF Pinning
    <3> QED BY <2>5, <3>1, <3>2, <3>3
  <2>11. DOMAIN baselines' \subseteq seen'
    BY <2>1, <2>3, <2>4 DEF Pinned
  <2> QED BY <2>1, <2>4, <2>7, <2>8, <2>9, <2>10, <2>11 DEF Pinned
<1> QED BY <1>2, <1>4, <1>5, <1>6, <1>7, DriftShape DEF Observe

\* Every step compares what it handles, but for what meets no baseline.
LEMMA NextCompared ==
  DriftTyped /\ Attributed /\ Real /\ Pinned /\ Compared /\ [DriftNext]_driftVars => Compared'
<1> SUFFICES ASSUME DriftTyped, Attributed, Real, Pinned, Compared, [DriftNext]_driftVars
             PROVE  Compared'
  OBVIOUS
<1>1. CASE UNCHANGED <<baselines, tripped, taken, blind>>
  BY <1>1 DEF Compared
<1>2. ASSUME \/ \E s \in Surfaces : Mutate(s)
             \/ \E g \in Goroutines : \E q : Starts(g, q)
             \/ installEnforcement
             \/ \E g \in Goroutines : pinOrRecheck(g) \/ Report(g)
             \/ UNCHANGED <<host, injecting, paged, seen, baselines, tripped, go, log, taken, blind>>
      PROVE  UNCHANGED <<baselines, tripped, taken, blind>>
  BY <1>2 DEF Mutate, Starts, installEnforcement, pinOrRecheck, Report
<1>3. ASSUME NEW g \in Goroutines, setBaseline(g) PROVE Compared'
  <2> DEFINE s == go[g].surface
             hash == HashTools(go[g].list)
  <2>1. s \in Surfaces /\ Pinning(g, s)
    BY <1>3 DEF setBaseline, DriftTyped, Pinning
  <2>2. s \notin DOMAIN baselines
    BY <2>1 DEF Pinned
  <2>3. /\ baselines' = Put(baselines, s, hash) /\ taken' = [taken EXCEPT ![s] = @ \cup {hash}]
        /\ UNCHANGED <<tripped, blind>>
    BY <1>3 DEF setBaseline
  <2> HIDE DEF s, hash
  <2>4. /\ DOMAIN baselines' = DOMAIN baselines \cup {s} /\ baselines'[s] = hash
        /\ \A t \in DOMAIN baselines : baselines'[t] = baselines[t]
    BY <2>2, <2>3 DEF Put
  <2>5. /\ taken'[s] = taken[s] \cup {hash}
        /\ \A t \in Surfaces : t # s => taken'[t] = taken[t]
    BY <2>1, <2>3 DEF DriftTyped
  <2> SUFFICES ASSUME NEW t \in Surfaces, t \notin blind
               PROVE  /\ t \notin DOMAIN baselines' => taken'[t] = {}
                      /\ t \in DOMAIN baselines' => t \in tripped' \/ taken'[t] \subseteq {baselines'[t]}
    BY <2>3 DEF Compared
  <2>6. CASE t = s
    BY <2>1, <2>2, <2>4, <2>5, <2>6 DEF Compared
  <2>7. CASE t # s
    BY <2>3, <2>4, <2>5, <2>7 DEF Compared
  <2> QED BY <2>6, <2>7
<1>4. ASSUME NEW g \in Goroutines, compareSurface(g) PROVE Compared'
  <2> DEFINE s == go[g].surface
             hash == HashTools(go[g].list)
  <2>1. /\ s \in Surfaces /\ taken' = [taken EXCEPT ![s] = @ \cup {hash}] /\ baselines' = baselines
        /\ tripped \subseteq tripped' /\ blind \subseteq blind'
        /\ s \notin DOMAIN baselines => s \in blind'
        /\ s \in DOMAIN baselines => hash = baselines[s] \/ s \in tripped'
    BY <1>4 DEF compareSurface, Tripped, DriftTyped
  <2> HIDE DEF s, hash
  <2>2. /\ taken'[s] = taken[s] \cup {hash}
        /\ \A t \in Surfaces : t # s => taken'[t] = taken[t]
    BY <2>1 DEF DriftTyped
  <2> SUFFICES ASSUME NEW t \in Surfaces, t \notin blind'
               PROVE  /\ t \notin DOMAIN baselines => taken'[t] = {}
                      /\ t \in DOMAIN baselines => t \in tripped' \/ taken'[t] \subseteq {baselines[t]}
    BY <2>1 DEF Compared
  <2>3. CASE t = s
    BY <2>1, <2>2, <2>3 DEF Compared
  <2>4. CASE t # s
    BY <2>1, <2>2, <2>4 DEF Compared
  <2> QED BY <2>3, <2>4
<1> QED BY <1>1, <1>2, <1>3, <1>4, DriftShape DEF Observe

DriftInv == DriftTyped /\ Attributed /\ Real /\ Latched /\ Pinned /\ Compared

\* What drift detection knows at every moment.
THEOREM DriftInvariant == DriftSpec => []DriftInv
<1>1. DriftInit => DriftInv
  BY InitDrift DEF DriftInv
<1>2. DriftInv /\ [DriftNext]_driftVars => DriftInv'
  BY NextDriftTyped, NextAttributed, NextReal, NextLatched, NextPinned, NextCompared DEF DriftInv
<1> QED BY <1>1, <1>2, PTL DEF DriftSpec

\* An answer leaves the server only by being read, as what its request asked for.
LEMMA ReadAsAsked ==
  DriftInv /\ [DriftNext]_driftVars =>
    [ \A r \in inbox \ inbox' :
        LET read == go'[IF r.to = "client" THEN "pump" ELSE "monitor"].surface
        IN  /\ read \in {r.method, "none"}
            /\ server = "answers" /\ r.method \in Surfaces => read = r.method ]_driftVars
<1> SUFFICES ASSUME DriftInv, DriftNext, NEW r \in inbox, r \notin inbox'
             PROVE  /\ go'[IF r.to = "client" THEN "pump" ELSE "monitor"].surface \in {r.method, "none"}
                    /\ server = "answers" /\ r.method \in Surfaces =>
                         go'[IF r.to = "client" THEN "pump" ELSE "monitor"].surface = r.method
  OBVIOUS
<1>0. DriftTyped /\ Attributed /\ "pump" \in Goroutines /\ "monitor" \in Goroutines
  BY DEF DriftInv, Goroutines
<1>1. OnServerFrame(r) \/ FingerprintInjected(r)
  <2>1. ASSUME NEW q \in inbox, OnServerFrame(q) \/ FingerprintInjected(q) PROVE q = r
    BY <2>1 DEF OnServerFrame, FingerprintInjected
  <2>2. ASSUME \/ \E s \in Surfaces : Mutate(s) \/ Middleware(s)
               \/ \E id \in Ids, method \in Methods, c \in BOOLEAN : ClientSends(id, method, c)
               \/ installEnforcement
               \/ \E g \in Goroutines : Observe(g)
               \/ Tick \/ driftMonitor \/ Recheck
        PROVE  inbox \subseteq inbox'
    BY <2>2 DEF Mutate, Middleware, ClientSends, installEnforcement, Observe, pinOrRecheck,
                setBaseline, compareSurface, Report, Tick, driftMonitor, Recheck, wire
  <2> QED BY <2>1, <2>2 DEF DriftNext
<1>2. CASE OnServerFrame(r)
  <2>1. PICK q : /\ Starts("pump", q) /\ q.surface \in {r.method, "none"}
                 /\ server = "answers" /\ r.method \in Surfaces => q.surface = r.method
    BY <1>0, <1>2, PumpStarts
  <2>2. r.to = "client" /\ go'["pump"] = q
    BY <1>0, <1>2, <2>1, StartsTyped DEF OnServerFrame
  <2> QED BY <2>1, <2>2
<1>3. CASE FingerprintInjected(r)
  <2>1. PICK q : /\ Starts("monitor", q) /\ q.surface \in {r.method, "none"}
                 /\ server = "answers" /\ r.method \in Surfaces => q.surface = r.method
    BY <1>0, <1>3, InjectedStarts
  <2>2. r.to = "monitor" /\ go'["monitor"] = q
    BY <1>0, <1>3, <2>1, StartsTyped DEF FingerprintInjected
  <2> QED BY <2>1, <2>2
<1> QED BY <1>1, <1>2, <1>3

\* In every step, for any ids, surfaces and manifests: an answer is read as what its request
\* asked for, although ids come again and refused requests are not answered
\* (observe.go:76-124).
THEOREM AnswersAttributed == DriftSpec => AttributedRight
BY DriftInvariant, ReadAsAsked, PTL DEF DriftSpec, AttributedRight

\* A list meets no baseline only while its surface is being pinned.
LEMMA BlindWhilePinned ==
  DriftInv /\ [DriftNext]_driftVars =>
    [ \A s \in blind' \ blind :
        \E g \in Goroutines : go[g].surface = s /\ go[g].at = "fn" /\ ~go[g].pinned ]_driftVars
<1> SUFFICES ASSUME DriftInv, DriftNext, NEW s \in blind', s \notin blind
             PROVE  \E g \in Goroutines : go[g].surface = s /\ go[g].at = "fn" /\ ~go[g].pinned
  OBVIOUS
<1>0. DriftTyped /\ Attributed /\ Pinned
  BY DEF DriftInv
<1>1. PICK h \in Goroutines : compareSurface(h)
  <2>1. ASSUME \/ \E t \in Surfaces : Mutate(t)
               \/ \E g \in Goroutines : \E q : Starts(g, q)
               \/ installEnforcement
               \/ \E g \in Goroutines : pinOrRecheck(g) \/ setBaseline(g) \/ Report(g)
               \/ UNCHANGED <<host, injecting, paged, seen, baselines, tripped, go, log, taken, blind>>
        PROVE  blind' = blind
    BY <2>1 DEF Mutate, Starts, installEnforcement, pinOrRecheck, setBaseline, Report
  <2> QED BY <1>0, <2>1, DriftShape DEF Observe
<1>2. /\ s = go[h].surface /\ s \in Surfaces /\ s \notin DOMAIN baselines
      /\ go[h].at = "fn" /\ go[h].pinned
  BY <1>0, <1>1 DEF compareSurface, DriftTyped
<1>3. s \in seen
  BY <1>0, <1>2 DEF Pinned, DriftTyped
<1> QED BY <1>0, <1>2, <1>3 DEF Pinned, Pinning

\* What was handled and differs is reported once it is handled.
LEMMA HandledIsReported == DriftInv => SeenDriftIsReported
<1> SUFFICES ASSUME DriftInv, NEW s \in Surfaces, ~Handling(s), s \notin blind, ~Reported(s)
             PROVE  ~(Cardinality(taken[s] \cup (IF s \in DOMAIN baselines THEN {baselines[s]} ELSE {})) > 1)
  BY DEF SeenDriftIsReported
<1>1. s \notin tripped
  BY DEF DriftInv, Latched, Handling
<1>2. Cardinality({}) = 0 /\ \A x : Cardinality({x}) = 1
  BY FS_EmptySet, FS_Singleton
<1>3. CASE s \notin DOMAIN baselines
  <2>1. taken[s] \cup (IF s \in DOMAIN baselines THEN {baselines[s]} ELSE {}) = {}
    BY <1>3 DEF DriftInv, Compared
  <2> QED BY <1>2, <2>1
<1>4. CASE s \in DOMAIN baselines
  <2>1. taken[s] \cup (IF s \in DOMAIN baselines THEN {baselines[s]} ELSE {}) = {baselines[s]}
    BY <1>1, <1>4 DEF DriftInv, Compared
  <2>2. Cardinality({baselines[s]}) = 1
    BY <1>2
  <2> QED BY <2>1, <2>2
<1> QED BY <1>3, <1>4

\* For any surfaces, manifests, ids and tools of the harness, however the server pump and
\* driftMonitor interleave: reports are real, or of a list whose last page was taken for all of
\* it, one a surface, and made for all that was handled, of which only the lists beside the
\* first one go uncompared (observe.go:252-265, rugpull.go:197-241).
THEOREM DriftReported == DriftSpec => DriftIsReported
<1>1. DriftInv => DriftTypeOK
  <2> SUFFICES ASSUME DriftInv PROVE DriftTypeOK
    OBVIOUS
  <2>1. DriftTyped
    BY DEF DriftInv
  <2>2. \A g \in Goroutines : go[g].at \in {"idle", "asked", "mark", "fn", "report"}
                              /\ go[g].surface \in Surfaces \cup {"none"}
    BY <2>1 DEF DriftTyped, Places, Held
  <2>3. \A k \in DOMAIN log :
          log[k] \in [surface : Surfaces, hash : Fingerprint, base : Fingerprint]
    <3>1. log \in Seq(Drifts)
      BY <2>1 DEF DriftTyped
    <3>2. \A k \in DOMAIN log : log[k] \in Drifts
      BY <3>1
    <3> QED BY <3>2 DEF Drifts
  <2>4. \A i \in DOMAIN pending : pending[i] \in Methods
    BY <2>1 DEF DriftTyped
  <2>5. \A s \in DOMAIN baselines : baselines[s] \in Fingerprint
    BY <2>1 DEF DriftTyped
  <2>6. \A s \in Surfaces : manifest[s] \in Manifest /\ manifest[s] \in had[s]
    BY <2>1 DEF DriftTyped
  <2> QED BY <2>1, <2>2, <2>3, <2>4, <2>5, <2>6 DEF DriftTyped, DriftTypeOK
<1>2. DriftInv => ReportsAreReal /\ ReportedOnce
  BY DEF DriftInv, Latched, Real, Astray, ReportsAreReal
<1> QED BY <1>1, <1>2, DriftInvariant, HandledIsReported, BlindWhilePinned, PTL
        DEF DriftSpec, DriftIsReported, UncomparedOnlyWhilePinned
=============================================================================
