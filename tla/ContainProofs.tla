--------------------------- MODULE ContainProofs ---------------------------
(***************************************************************************)
(* Proofs about Contain: its types; that the ladder runs once and its log  *)
(* is true; that evidence is durable before anything destructive; and what *)
(* Restore leaves: for any callers, profiles, prior actions and panics.    *)
(* And about Watch, whose triggers trip the switch: a stall is reported    *)
(* once and the kill file is the operator's, for every gap the watchdog    *)
(* allows and every configuration of the loop.                             *)
(***************************************************************************)
EXTENDS Contain, Watch, TLAPS

-----------------------------------------------------------------------------
(* Types.                                                                   *)

\* Before the rung that starts the COM thread has run.
Early == {"off", "record", "banner", "seal", "isolate"}

\* What was saved of a side is what was there, or "allow" where there was nothing and the
\* registry could not be read.
SavedOf(p, side, v) ==
  \/ v = Prior[p][side]
  \/ <<p, side, "read">> \in amiss /\ Prior[p][side] = "unset" /\ v = "allow"

SavedRight(i, side) == SavedOf(i, side, worker.saved[i][side])

\* A side is back as it was, but for what went amiss unseen; and a configured one is never unset.
Back(p, side) == SavedOf(p, side, fw[p][side]) \/ <<p, side, "put">> \in amiss
Set(p, side)  == Prior[p][side] # "unset" => fw[p][side] # "unset"

\* What the COM thread has saved is what was there, and it has changed nothing it has not
\* saved (firewall_windows.go:92-160): one profile after another, from the rung on that
\* starts it.
Saving ==
  /\ tripped \/ ladder = "off"
  /\ ladder \in Early => worker.at = "off"
  /\ worker.at = "off" => worker.saved = <<>> /\ worker.observed = {}
  /\ worker.at \in Busy => worker.profile \in Profiles
  /\ worker.at = "read" => Len(worker.saved) = worker.profile - 1
  /\ worker.at \in {"in", "out"} => Len(worker.saved) = worker.profile
  /\ worker.at = "ok" => Len(worker.saved) = Len(Prior)
  /\ \A i \in DOMAIN worker.saved :
       i \in Profiles /\ \A side \in Sides : SavedRight(i, side)
  /\ \A p \in Profiles : p > Len(worker.saved) => fw[p] = Prior[p]

\* What is to be restored is what the COM thread saved, and a Restore without an error has put it back
\* up to the profile it is at (killaction.go:238-256, firewall_windows.go:162-224).
Restoring ==
  /\ restore.set => worker.at = "ok" /\ restore.saved = worker.saved
  /\ exit.at \in {"no", "take"} => exit.saved = <<>>
  /\ exit.at = "restoring" =>
       /\ worker.at = "ok" /\ exit.saved = worker.saved /\ exit.profile \in Profiles
       /\ ~exit.err => \A p \in Profiles : p < exit.profile => \A side \in Sides : Back(p, side)
  /\ RestoreIsExact

\* The firewall's default actions before the session are a function on the profiles.
LEMMA PriorTyped == /\ Prior \in [Profiles -> Actions] /\ Profiles = 1 .. Len(Prior)
                    /\ Len(Prior) \in Nat \ {0}
BY ContainConstants DEF Profiles

\* What Restore puts back is a profile's actions, saved by the COM thread.
LEMMA SavedTyped ==
  ASSUME TypeOK, Saving, Restoring, exit.at = "restoring"
  PROVE  /\ exit.profile \in Profiles /\ exit.saved[exit.profile] \in Actions
         /\ \A side \in Sides : SavedOf(exit.profile, side, exit.saved[exit.profile][side])
<1>1. /\ exit.profile \in Profiles /\ exit.saved = worker.saved
      /\ Len(worker.saved) = Len(Prior) /\ worker.saved \in Seq(Actions)
  BY DEF Saving, Restoring, TypeOK
<1>2. exit.profile \in DOMAIN worker.saved
  BY <1>1, PriorTyped
<1> QED BY <1>1, <1>2 DEF Saving, SavedRight

\* What a rung writes is an entry of the log (killaction.go:131-216).
LEMMA EventTyped ==
  ASSUME NEW ev \in {"tripped", "done", "failed", "skipped", "stopped"},
         NEW action \in Rungs \cup {"session"}, NEW observed \in SUBSET Profiles
  PROVE  Event(ev, action, observed) \in Entry
BY DEF Event, Entry

\* Appending an entry and flushing keep the log's type.
LEMMA ForensicsTyped ==
  ASSUME TypeOK
  PROVE  /\ \A e \in Entry : auditAppend(e) => log' \in Seq(Entry) /\ durable' \in Nat
         /\ Flush => log' \in Seq(Entry) /\ durable' \in Nat
         /\ UNCHANGED forensics => log' \in Seq(Entry) /\ durable' \in Nat
<1>1. \A e \in Entry : auditAppend(e) => log' \in Seq(Entry) /\ durable' \in Nat
  BY DEF auditAppend, TypeOK
<1>2. Flush => log' \in Seq(Entry) /\ durable' \in Nat
  BY DEF Flush, TypeOK
<1>3. UNCHANGED forensics => log' \in Seq(Entry) /\ durable' \in Nat
  BY DEF forensics, TypeOK
<1> QED BY <1>1, <1>2, <1>3

\* A step of the ladder that leaves the firewall alone and does known deeds keeps the types.
LEMMA ClimbTyped ==
  ASSUME TypeOK, NEW from, NEW to \in LadderAt, Climb(from, to), did' \subseteq Deeds,
         log' \in Seq(Entry), durable' \in Nat, fw' = fw, worker' = worker,
         restore' \in [set : BOOLEAN, saved : Seq(Actions)]
  PROVE  TypeOK'
BY DEF Climb, switch, TypeOK

\* A rung that is passed over or skipped keeps the types.
LEMMA PassTyped ==
  ASSUME TypeOK, NEW rung \in Rungs, NEW to \in LadderAt,
         PassOver(rung, to) \/ Skip(rung, to)
  PROVE  TypeOK'
<1>1. CASE PassOver(rung, to)
  BY <1>1, ClimbTyped, ForensicsTyped DEF PassOver, Quiet, TypeOK
<1>2. CASE Skip(rung, to)
  <2>1. Event("skipped", rung, {}) \in Entry
    BY EventTyped
  <2> QED BY <1>2, <2>1, ClimbTyped, ForensicsTyped DEF Skip, Quiet, TypeOK
<1> QED BY <1>1, <1>2

\* A process starts well-typed.
LEMMA InitTyped == Init => TypeOK
<1> SUFFICES ASSUME Init PROVE TypeOK
  OBVIOUS
<1>1. <<>> \in Seq(Actions) /\ <<>> \in Seq(Entry)
  OBVIOUS
<1>2. /\ worker \in [at : WorkerAt, profile : Nat, saved : Seq(Actions), observed : SUBSET Profiles]
      /\ restore \in [set : BOOLEAN, saved : Seq(Actions)]
      /\ exit \in [at : ExitAt, profile : Nat, saved : Seq(Actions), err : BOOLEAN]
  BY <1>1 DEF Init, WorkerAt, ExitAt
<1> QED BY <1>1, <1>2, PriorTyped DEF Init, TypeOK, LadderAt, StopAt

\* Every step keeps the types, one case per action.
LEMMA NextTyped == TypeOK /\ Saving /\ Restoring /\ [Next]_vars => TypeOK'
<1> SUFFICES ASSUME TypeOK, Saving, Restoring, [Next]_vars PROVE TypeOK'
  OBVIOUS
<1>1. ASSUME NEW c \in Callers, Trip(c) PROVE TypeOK'
  BY <1>1 DEF Trip, forensics, TypeOK, LadderAt
<1>2. CASE OnTrip
  <2> USE DEF LadderAt, Quiet, Does, Deeds
  <2>1. CASE Record
    <3>1. Event("tripped", "session", {}) \in Entry
      BY EventTyped
    <3> QED BY <2>1, <3>1, ClimbTyped, ForensicsTyped DEF Record, TypeOK
  <2>2. CASE Banner
    BY <2>2, ClimbTyped, ForensicsTyped DEF Banner, TypeOK
  <2>3. CASE Seal
    BY <2>3, ClimbTyped, ForensicsTyped DEF Seal, TypeOK
  <2>4. CASE Isolate
    <3>1. CASE PassOver("isolate", "kill-procs") \/ Skip("isolate", "kill-procs")
      BY <3>1, PassTyped DEF Rungs
    <3>2. CASE ~(PassOver("isolate", "kill-procs") \/ Skip("isolate", "kill-procs"))
      <4>1. worker' \in [at : WorkerAt, profile : Nat, saved : Seq(Actions),
                         observed : SUBSET Profiles]
        <5>1. worker' = [worker EXCEPT !.at = "read", !.profile = 1]
          BY <2>4, <3>2 DEF Isolate
        <5> QED BY <5>1, ZenonT(40) DEF TypeOK, WorkerAt
      <4> QED BY <2>4, <3>2, <4>1, ZenonT(40) DEF Isolate, Climb, switch, forensics, TypeOK
    <3> QED BY <3>1, <3>2
  <2>5. CASE Isolated
    <3>1. /\ Event("done", "isolate", worker.observed) \in Entry
          /\ Event("failed", "isolate", worker.observed) \in Entry
      BY EventTyped DEF TypeOK, Rungs
    <3>2. worker.at = "ok" =>
            [set |-> TRUE, saved |-> worker.saved] \in [set : BOOLEAN, saved : Seq(Actions)]
      BY DEF TypeOK
    <3> QED BY <2>5, <3>1, <3>2, ClimbTyped, ForensicsTyped DEF Isolated, TypeOK
  <2>6. CASE TimeOut
    <3>1. Event("failed", "isolate", worker.observed) \in Entry
      BY EventTyped DEF TypeOK, Rungs
    <3> QED BY <2>6, <3>1, ClimbTyped, ForensicsTyped DEF TimeOut, TypeOK
  <2>7. CASE KillProcs
    <3>1. Event("done", "kill-procs", {}) \in Entry
      BY EventTyped DEF Rungs
    <3>2. CASE PassOver("kill-procs", "lock") \/ Skip("kill-procs", "lock")
      BY <3>2, PassTyped DEF Rungs
    <3>3. CASE ~(PassOver("kill-procs", "lock") \/ Skip("kill-procs", "lock"))
      BY <2>7, <3>1, <3>3, ClimbTyped, ForensicsTyped DEF KillProcs, TypeOK
    <3> QED BY <3>2, <3>3
  <2>8. CASE Lock
    <3>1. Event("done", "lock", {}) \in Entry /\ Event("failed", "lock", {}) \in Entry
      BY EventTyped DEF Rungs
    <3>2. CASE PassOver("lock", "finalize")
      BY <3>2, PassTyped DEF Rungs
    <3>3. CASE ~PassOver("lock", "finalize")
      BY <2>8, <3>1, <3>3, ClimbTyped, ForensicsTyped DEF Lock, TypeOK
    <3> QED BY <3>2, <3>3
  <2>9. CASE Finalize
    BY <2>9, ClimbTyped, ForensicsTyped DEF Finalize, TypeOK
  <2>10. CASE ShutdownSeal
    BY <2>10, ClimbTyped, ForensicsTyped DEF ShutdownSeal, TypeOK
  <2>11. CASE Shutdown
    <3>1. Event("failed", "shutdown", {}) \in Entry
      BY EventTyped DEF Rungs
    <3>2. CASE PassOver("shutdown", "flush") \/ Skip("shutdown", "flush")
      BY <3>2, PassTyped DEF Rungs
    <3>3. CASE ~(PassOver("shutdown", "flush") \/ Skip("shutdown", "flush"))
      BY <2>11, <3>1, <3>3, ClimbTyped, ForensicsTyped DEF Shutdown, TypeOK
    <3> QED BY <3>2, <3>3
  <2>12. CASE FinalFlush
    BY <2>12, ClimbTyped, ForensicsTyped DEF FinalFlush, TypeOK
  <2>13. CASE Abort
    BY <2>13, ClimbTyped, ForensicsTyped DEF Abort, TypeOK
  <2>14. CASE Recover
    BY <2>14, ClimbTyped, ForensicsTyped DEF Recover, TypeOK
  <2> QED BY <1>2, <2>1, <2>2, <2>3, <2>4, <2>5, <2>6, <2>7, <2>8, <2>9, <2>10, <2>11,
             <2>12, <2>13, <2>14 DEF OnTrip
<1>3. CASE firewallIsolate
  <2>1. ASSUME NEW p \in Profiles, NEW dir \in {"in", "out"}, Put(p, dir, "block")
        PROVE  fw' \in [Profiles -> Actions]
    <3>1. fw[p] \in Actions
      BY DEF TypeOK
    <3>2. [fw[p] EXCEPT !.in = "block"] \in Actions /\ [fw[p] EXCEPT !.out = "block"] \in Actions
      BY <3>1 DEF Actions, Value
    <3> QED BY <2>1, <3>2 DEF Put, TypeOK
  <2>2. ASSUME NEW from \in Busy, Working(from) PROVE worker.profile \in Profiles
    BY <2>2 DEF Working, Saving
  <2>3. ASSUME NEW from \in Busy, Working(from), Fails PROVE TypeOK'
    BY <2>3 DEF Working, Fails, switch, forensics, TypeOK, WorkerAt
  <2>4. CASE SaveActions
    <3>1. fw[worker.profile] \in Actions /\ worker.profile \in Profiles
      BY <2>2, <2>4 DEF SaveActions, Busy, TypeOK
    <3>2. CASE Fails
      BY <2>3, <2>4, <3>2 DEF SaveActions, Busy
    <3>3. CASE ~Fails
      <4>1. PICK unread \in SUBSET Unset(fw[worker.profile]) :
              /\ worker' = [worker EXCEPT !.at = "in",
                              !.saved = Append(worker.saved, ReadAs(fw[worker.profile], unread))]
              /\ amiss' = amiss \cup ({worker.profile} \X unread \X {"read"})
              /\ UNCHANGED <<ladder, fw>>
        BY <2>4, <3>3 DEF SaveActions
      <4>r. ReadAs(fw[worker.profile], unread) \in Actions
        BY <3>1 DEF ReadAs, Explicit, Actions, Value
      <4>2. Append(worker.saved, ReadAs(fw[worker.profile], unread)) \in Seq(Actions)
        BY <4>r DEF TypeOK
      <4>a. amiss' \subseteq (Profiles \X Sides \X {"read", "put"})
        BY <3>1, <4>1 DEF TypeOK, Unset
      <4>3. worker' \in [at : WorkerAt, profile : Nat, saved : Seq(Actions),
                         observed : SUBSET Profiles]
        BY <4>1, <4>2 DEF TypeOK, WorkerAt
      <4> QED BY <2>4, <4>1, <4>3, <4>a DEF SaveActions, Working, switch, forensics, TypeOK
    <3> QED BY <3>2, <3>3
  <2>5. CASE BlockInbound
    <3>1. CASE Fails
      BY <2>3, <2>5, <3>1 DEF BlockInbound, Busy
    <3>2. CASE Put(worker.profile, "in", "block") /\ worker' = [worker EXCEPT !.at = "out"]
               /\ UNCHANGED <<ladder, amiss>>
      <4>1. fw' \in [Profiles -> Actions]
        BY <2>1, <2>2, <2>5, <3>2 DEF BlockInbound, Busy
      <4> QED BY <2>5, <3>2, <4>1 DEF BlockInbound, Working, switch, forensics, TypeOK, WorkerAt
    <3> QED BY <2>5, <3>1, <3>2 DEF BlockInbound
  <2>6. CASE BlockOutbound
    <3>1. CASE Fails
      BY <2>3, <2>6, <3>1 DEF BlockOutbound, Busy
    <3>2. CASE ~Fails
      <4>1. fw' \in [Profiles -> Actions] /\ worker.profile \in Profiles
        BY <2>1, <2>2, <2>6, <3>2 DEF BlockOutbound, Busy
      <4>2. worker' \in [at : WorkerAt, profile : Nat, saved : Seq(Actions),
                         observed : SUBSET Profiles]
        <5> DEFINE seen == {p \in {worker.profile} : fw'[p].out = "block"}
        <5>1. PICK next \in WorkerAt :
                worker' = [worker EXCEPT !.at = next, !.profile = worker.profile + 1,
                                         !.observed = worker.observed \cup seen]
          BY <2>6, <3>2 DEF BlockOutbound, NextProfile, WorkerAt
        <5>2. worker.observed \cup seen \in SUBSET Profiles /\ worker.profile + 1 \in Nat
          BY <4>1 DEF TypeOK
        <5> HIDE DEF seen
        <5> QED BY <5>1, <5>2 DEF TypeOK
      <4> QED BY <2>6, <3>2, <4>1, <4>2 DEF BlockOutbound, Working, switch, forensics, TypeOK
    <3> QED BY <3>1, <3>2
  <2>7. CASE WorkerPanics
    BY <2>7 DEF WorkerPanics, Working, switch, forensics, TypeOK, LadderAt
  <2> QED BY <1>3, <2>4, <2>5, <2>6, <2>7 DEF firewallIsolate
<1>4. CASE StopGracefully
  <2>1. Event("stopped", "session", {}) \in Entry
    BY EventTyped
  <2> QED
    BY <1>4, <2>1, ForensicsTyped DEF StopGracefully, Stopping, switch, Does, Deeds, StopAt, TypeOK
<1>5. CASE Restore
  <2> USE DEF Leaving, switch, forensics, ExitAt
  <2>1. CASE Exit
    BY <1>5, <2>1 DEF Exit, TypeOK
  <2>2. CASE RestoreTakes
    <3>1. exit' \in [at : ExitAt, profile : Nat, saved : Seq(Actions), err : BOOLEAN]
      BY <2>2 DEF RestoreTakes, TypeOK
    <3>2. restore' \in [set : BOOLEAN, saved : Seq(Actions)]
      BY <2>2 DEF RestoreTakes
    <3> QED BY <2>2, <3>1, <3>2 DEF RestoreTakes, TypeOK
  <2>3. CASE RestoreProfile
    <3>1. exit.profile \in Profiles /\ exit.saved[exit.profile] \in Actions
      BY <2>3, SavedTyped DEF RestoreProfile
    <3>2. fw[exit.profile] \in Actions
      BY <3>1 DEF TypeOK
    <3>3. /\ fw' \in [Profiles -> Actions]
          /\ amiss' \subseteq (Profiles \X Sides \X {"read", "put"})
      <4> DEFINE a == exit.saved[exit.profile]
                 b == fw[exit.profile]
                 Mended(lost) == [in  |-> Reinstated(a.in, b.in, "in" \notin lost),
                                  out |-> Reinstated(a.out, b.out, "out" \notin lost)]
      <4>1. a.in \in Value /\ a.out \in Value /\ b.in \in Value /\ b.out \in Value
        BY <3>1, <3>2 DEF Actions
      <4>2. \A lost : Mended(lost) \in Actions
        BY <4>1 DEF Reinstated, Actions
      <4>3. \A in \in Half(a.in, b.in), out \in Half(a.out, b.out) :
              [in |-> in, out |-> out] \in Actions
        BY <4>1 DEF Half, Explicit, Actions, Value
      <4>4. CASE \E lost \in SUBSET (Sides \ Unset(a)) :
                   /\ fw' = [fw EXCEPT ![exit.profile] = Mended(lost)]
                   /\ amiss' = amiss \cup ({exit.profile} \X lost \X {"put"})
        <5>1. PICK lost \in SUBSET (Sides \ Unset(a)) :
                   /\ fw' = [fw EXCEPT ![exit.profile] = Mended(lost)]
                   /\ amiss' = amiss \cup ({exit.profile} \X lost \X {"put"})
          BY <4>4
        <5>2. Mended(lost) \in Actions
          BY <4>2
        <5> HIDE DEF Mended
        <5>3. fw' \in [Profiles -> Actions]
          BY <5>1, <5>2 DEF TypeOK
        <5>4. amiss' \subseteq (Profiles \X Sides \X {"read", "put"})
          BY <3>1, <5>1 DEF TypeOK
        <5> QED BY <5>3, <5>4
      <4>5. CASE /\ \E in \in Half(a.in, b.in), out \in Half(a.out, b.out) :
                        fw' = [fw EXCEPT ![exit.profile] = [in |-> in, out |-> out]]
                 /\ amiss' = amiss
        <5>1. PICK left \in Actions : fw' = [fw EXCEPT ![exit.profile] = left]
          BY <4>3, <4>5
        <5> QED BY <4>5, <5>1 DEF TypeOK
      <4> QED BY <2>3, <4>4, <4>5 DEF RestoreProfile
    <3>4. exit' \in [at : ExitAt, profile : Nat, saved : Seq(Actions), err : BOOLEAN]
      <4>1. PICK next \in ExitAt, err \in BOOLEAN :
              exit' = [exit EXCEPT !.at = next, !.profile = exit.profile + 1, !.err = err]
        BY <2>3 DEF RestoreProfile, NextRestored, TypeOK
      <4>2. exit.profile + 1 \in Nat
        BY DEF TypeOK
      <4> QED BY <4>1, <4>2 DEF TypeOK
    <3> QED BY <2>3, <3>3, <3>4 DEF RestoreProfile, TypeOK
  <2>4. CASE RestoreTimesOut
    BY <2>4 DEF RestoreTimesOut, TypeOK
  <2> QED BY <1>5, <2>1, <2>2, <2>3, <2>4 DEF Restore
<1>6. CASE UNCHANGED vars
  BY <1>6 DEF vars, TypeOK
<1> QED BY <1>1, <1>2, <1>3, <1>4, <1>5, <1>6 DEF Next

-----------------------------------------------------------------------------
(* What is saved, and Restore.                                              *)

\* What a step of the ladder may do to the firewall's keepers: start the COM thread, once,
\* or take over what it has saved.
LEMMA LadderEffect ==
  ASSUME OnTrip
  PROVE  /\ UNCHANGED <<fw, amiss, exit, stop, cfg, elevated, switch>> /\ ladder # "off"
         /\ \/ /\ worker' = worker /\ (ladder' \in Early => ladder \in Early)
               /\ \/ restore' = restore
                  \/ worker.at = "ok" /\ restore' = [set |-> TRUE, saved |-> worker.saved]
            \/ /\ ladder = "isolate" /\ ladder' = "isolating" /\ restore' = restore
               /\ worker' = [worker EXCEPT !.at = "read", !.profile = 1]
<1> USE DEF Quiet, Climb, Early
<1>1. CASE Record \/ Banner \/ Seal
  BY <1>1 DEF Record, Banner, Seal
<1>2. CASE Isolate
  BY <1>2 DEF Isolate, PassOver, Skip
<1>3. CASE Isolated \/ TimeOut
  BY <1>3 DEF Isolated, TimeOut
<1>4. CASE KillProcs \/ Lock
  BY <1>4 DEF KillProcs, Lock, PassOver, Skip
<1>5. CASE Finalize \/ ShutdownSeal \/ Shutdown
  BY <1>5 DEF Finalize, ShutdownSeal, Shutdown, PassOver, Skip
<1>6. CASE FinalFlush \/ Abort \/ Recover
  BY <1>6, ContainConstants DEF FinalFlush, Abort, Recover
<1> QED BY <1>1, <1>2, <1>3, <1>4, <1>5, <1>6 DEF OnTrip

\* Init establishes both.
LEMMA InitSaving == Init => Saving /\ Restoring
BY PriorTyped DEF Init, Saving, Restoring, RestoreIsExact, Busy

\* What SaveActions does unless it fails.
LEMMA SaveEffect ==
  ASSUME SaveActions, ~Fails
  PROVE  \E unread \in SUBSET Unset(fw[worker.profile]) :
           /\ worker' = [worker EXCEPT !.at = "in",
                           !.saved = Append(worker.saved, ReadAs(fw[worker.profile], unread))]
           /\ amiss' = amiss \cup ({worker.profile} \X unread \X {"read"})
           /\ UNCHANGED <<ladder, fw>>
BY DEF SaveActions

\* Every step keeps what is saved true.
LEMMA NextSaving == TypeOK /\ Saving /\ Restoring /\ [Next]_vars => Saving'
<1> SUFFICES ASSUME TypeOK, Saving, Restoring, [Next]_vars PROVE Saving'
  OBVIOUS
<1>0. ASSUME worker' = worker, fw' = fw, amiss' = amiss, tripped' = tripped, ladder' \in Early => ladder \in Early,
             ladder' = ladder \/ tripped
      PROVE  Saving'
  BY <1>0 DEF Saving, SavedOf, SavedRight
<1>1. ASSUME NEW c \in Callers, Trip(c) PROVE Saving'
  BY <1>1 DEF Trip, Saving, SavedOf, SavedRight, Early
<1>2. CASE OnTrip
  <2>1. CASE worker' = worker /\ (ladder' \in Early => ladder \in Early)
    BY <1>0, <1>2, <2>1, LadderEffect DEF switch, Saving
  <2>2. CASE /\ ladder = "isolate" /\ ladder' = "isolating"
             /\ worker' = [worker EXCEPT !.at = "read", !.profile = 1]
    <3>1. worker.at = "off" /\ worker.saved = <<>> /\ fw' = fw
      BY <1>2, <2>2, LadderEffect DEF Saving, Early
    <3>2. worker'.saved = <<>> /\ worker'.at = "read" /\ worker'.profile = 1
      BY <2>2, <3>1 DEF TypeOK
    <3> QED BY <1>2, <2>2, <3>1, <3>2, PriorTyped, LadderEffect DEF switch, Saving, Early, Busy
  <2> QED BY <1>2, <2>1, <2>2, LadderEffect
<1>3. CASE firewallIsolate
  <2> USE DEF Working, switch, Early, Busy
  <2>0. ASSUME Fails, worker.at \in Busy, tripped' = tripped PROVE Saving'
    <3>1. /\ worker'.at = "err" /\ worker'.saved = worker.saved /\ ladder' = ladder
          /\ fw' = fw /\ amiss' = amiss
      BY <2>0 DEF Fails, TypeOK
    <3> QED BY <2>0, <3>1 DEF Saving, SavedOf, SavedRight
  <2>1. CASE SaveActions
    <3> DEFINE p == worker.profile
    <3>1. CASE Fails
      BY <2>0, <2>1, <3>1 DEF SaveActions
    <3>2. CASE ~Fails
      <4>1. /\ p \in Profiles /\ Len(worker.saved) = p - 1 /\ fw[p] = Prior[p]
            /\ worker.saved \in Seq(Actions) /\ fw[p] \in Actions /\ p \in Nat
        <5>1. worker.at = "read"
          BY <2>1 DEF SaveActions
        <5> QED BY <5>1, PriorTyped DEF Saving, TypeOK
      <4>u. PICK unread \in SUBSET Unset(fw[p]) :
              /\ worker' = [worker EXCEPT !.at = "in",
                              !.saved = Append(worker.saved, ReadAs(fw[p], unread))]
              /\ amiss' = amiss \cup ({p} \X unread \X {"read"})
              /\ UNCHANGED <<ladder, fw>>
        <5> HIDE DEF Working, switch, Early, Busy
        <5> QED BY <2>1, <3>2, SaveEffect, Zenon
      <4> DEFINE a == ReadAs(fw[p], unread)
      <4>a. a \in Actions /\ \A side \in Sides :
                \/ a[side] = fw[p][side]
                \/ side \in unread /\ fw[p][side] = "unset" /\ a[side] = "allow"
        <5>1. a.in = (IF "in" \in unread THEN Explicit(fw[p].in) ELSE fw[p].in)
              /\ a.out = (IF "out" \in unread THEN Explicit(fw[p].out) ELSE fw[p].out)
              /\ a = [in |-> a.in, out |-> a.out]
          BY DEF ReadAs
        <5>2. fw[p].in \in Value /\ fw[p].out \in Value
          BY <4>1 DEF Actions
        <5>3. /\ \/ a.in = fw[p].in
                 \/ "in" \in unread /\ fw[p].in = "unset" /\ a.in = "allow"
              /\ \/ a.out = fw[p].out
                 \/ "out" \in unread /\ fw[p].out = "unset" /\ a.out = "allow"
          BY <5>1 DEF Explicit
        <5>4. a \in Actions
          BY <5>1, <5>2, <5>3 DEF Actions, Value
        <5> QED BY <5>3, <5>4 DEF Sides
      <4>2. /\ worker'.saved = Append(worker.saved, a) /\ worker'.at = "in"
            /\ worker'.profile = p /\ fw' = fw /\ ladder' = ladder /\ tripped' = tripped
        BY <2>1, <4>u DEF SaveActions, TypeOK
      <4> HIDE DEF a
      <4>3. Len(worker'.saved) = p
        BY <4>1, <4>2, <4>a
      <4>4. \A i \in DOMAIN worker'.saved :
              i \in Profiles /\ \A side \in Sides : SavedRight(i, side)'
        <5> SUFFICES ASSUME NEW i \in DOMAIN worker'.saved, NEW side \in Sides
                     PROVE  i \in Profiles /\ SavedRight(i, side)'
          <6>1. \A i \in DOMAIN worker'.saved : i \in Profiles
            BY <4>1, <4>2, <4>3, <4>a, PriorTyped
          <6> QED BY <6>1
        <5>1. CASE i = p
          <6>1. worker'.saved[i] = a /\ Prior[p][side] = fw[p][side]
            BY <4>1, <4>2, <4>a, <5>1
          <6>2. side \in unread => <<p, side, "read">> \in amiss'
            BY <4>u
          <6> QED BY <4>1, <4>a, <5>1, <6>1, <6>2 DEF SavedOf, SavedRight
        <5>2. CASE i # p
          <6>1. i \in DOMAIN worker.saved /\ worker'.saved[i] = worker.saved[i]
            BY <4>1, <4>2, <4>a, <5>2
          <6>2. i \in Profiles /\ SavedRight(i, side)
            BY <6>1 DEF Saving
          <6>3. amiss \subseteq amiss'
            BY <4>u
          <6> QED BY <6>1, <6>2, <6>3 DEF SavedOf, SavedRight
        <5> QED BY <5>1, <5>2
      <4>5. \A q \in Profiles : q > p => fw'[q] = Prior[q]
        BY <4>1, <4>2, PriorTyped DEF Saving
      <4>6. tripped \/ ladder = "off"
        BY DEF Saving
      <4>7. ladder' \notin Early
        BY <2>1, <4>2 DEF SaveActions, Saving
      <4> QED BY <4>1, <4>2, <4>3, <4>4, <4>5, <4>6, <4>7 DEF Saving
    <3> QED BY <3>1, <3>2
  <2>2. ASSUME worker.at \in {"in", "out"}, tripped' = tripped, ladder' = ladder, amiss' = amiss,
               NEW dir \in {"in", "out"}, Put(worker.profile, dir, "block"),
               worker'.saved = worker.saved,
               \/ worker'.at = "out" /\ worker'.profile = worker.profile
               \/ worker'.at = "ok" /\ worker.profile = Len(Prior)
               \/ /\ worker'.at = "read" /\ worker'.profile = worker.profile + 1
                  /\ worker.profile # Len(Prior)
        PROVE  Saving'
    <3>1. worker.profile \in Profiles /\ Len(worker.saved) = worker.profile
      BY <2>2 DEF Saving
    <3>2. \A q \in Profiles : q > worker.profile => fw'[q] = fw[q]
      BY <2>2, <3>1, PriorTyped DEF Put, TypeOK
    <3>3. \A q \in Profiles : q > Len(worker'.saved) => fw'[q] = Prior[q]
      BY <2>2, <3>1, <3>2 DEF Saving
    <3>4. \A i \in DOMAIN worker'.saved :
            i \in Profiles /\ \A side \in Sides : SavedRight(i, side)'
      BY <2>2 DEF Saving, SavedOf, SavedRight
    <3> QED BY <2>2, <3>1, <3>3, <3>4, PriorTyped DEF Saving
  <2>3. CASE BlockInbound
    <3>1. CASE Fails
      BY <2>0, <2>3, <3>1 DEF BlockInbound
    <3>2. CASE ~Fails
      <4>1. worker'.at = "out" /\ worker'.profile = worker.profile /\ worker'.saved = worker.saved
        BY <2>3, <3>2 DEF BlockInbound, TypeOK
      <4> QED BY <2>2, <2>3, <3>2, <4>1 DEF BlockInbound
    <3> QED BY <3>1, <3>2
  <2>4. CASE BlockOutbound
    <3>1. CASE Fails
      BY <2>0, <2>4, <3>1 DEF BlockOutbound
    <3>2. CASE ~Fails
      <4>1. /\ worker'.at = IF worker.profile = Len(Prior) THEN "ok" ELSE "read"
            /\ worker'.profile = worker.profile + 1 /\ worker'.saved = worker.saved
        BY <2>4, <3>2 DEF BlockOutbound, NextProfile, TypeOK
      <4> QED BY <2>2, <2>4, <3>2, <4>1 DEF BlockOutbound
    <3> QED BY <3>1, <3>2
  <2>5. CASE WorkerPanics
    BY <2>5 DEF WorkerPanics, Saving, SavedOf, SavedRight
  <2> QED BY <1>3, <2>1, <2>3, <2>4, <2>5 DEF firewallIsolate
<1>4. CASE StopGracefully
  BY <1>0, <1>4 DEF StopGracefully, Stopping, switch
<1>5. CASE Restore
  <2>1. CASE Exit \/ RestoreTakes \/ RestoreTimesOut
    BY <1>0, <2>1 DEF Exit, RestoreTakes, RestoreTimesOut, Leaving, switch
  <2>2. CASE RestoreProfile
    <3>1. Len(worker.saved) = Len(Prior)
      BY <2>2 DEF RestoreProfile, Restoring, Saving
    <3>2. worker' = worker /\ ladder' = ladder /\ tripped' = tripped
      BY <2>2 DEF RestoreProfile, Leaving, switch
    <3>3. amiss \subseteq amiss'
      BY <2>2 DEF RestoreProfile
    <3>4. \A i \in DOMAIN worker.saved :
            i \in Profiles /\ \A side \in Sides : SavedRight(i, side)'
      BY <3>2, <3>3 DEF Saving, SavedOf, SavedRight
    <3> QED BY <3>1, <3>2, <3>4, PriorTyped DEF Saving
  <2> QED BY <1>5, <2>1, <2>2 DEF Restore
<1>6. CASE UNCHANGED vars
  BY <1>0, <1>6 DEF vars
<1> QED BY <1>1, <1>2, <1>3, <1>4, <1>5, <1>6 DEF Next

\* RestoreIsExact, one side of one profile at a time.
LEMMA ExactBySides ==
  RestoreIsExact <=>
    \A p \in Profiles : \A side \in Sides :
      /\ exit.at = "exited" /\ exit.saved # <<>> /\ ~exit.err => Back(p, side)
      /\ Set(p, side)
BY DEF RestoreIsExact, Back, Set, SavedOf

\* A step that blocks a side, or puts one back as it was saved, or half so, unsets none that
\* was configured.
LEMMA SetStays ==
  ASSUME TypeOK, Saving, Restoring, [Next]_vars, NEW p \in Profiles, NEW side \in Sides
  PROVE  Set(p, side)'
<1>0. Set(p, side)
  BY ExactBySides DEF Restoring
<1>1. CASE fw' = fw
  BY <1>0, <1>1 DEF Set
<1>2. ASSUME NEW q \in Profiles, NEW dir \in {"in", "out"}, Put(q, dir, "block")
      PROVE  Set(p, side)'
  <2>1. CASE fw' = fw
    BY <1>1, <2>1
  <2>2. CASE fw' # fw
    <3>1. fw' = [fw EXCEPT ![q] = IF dir = "in" THEN [@ EXCEPT !.in = "block"]
                                  ELSE [@ EXCEPT !.out = "block"]]
      BY <1>2, <2>2 DEF Put
    <3>2. fw[q] \in Actions /\ fw \in [Profiles -> Actions]
      BY DEF TypeOK
    <3>3. fw'[p] = fw[p] \/ (p = q /\ fw'[p] \in {[fw[p] EXCEPT !.in = "block"],
                                                 [fw[p] EXCEPT !.out = "block"]})
      BY <3>1, <3>2
    <3>4. fw'[p][side] = fw[p][side] \/ fw'[p][side] = "block"
      BY <3>2, <3>3 DEF Actions, Sides
    <3> QED BY <1>0, <3>4 DEF Set
  <2> QED BY <2>1, <2>2
<1>3. CASE firewallIsolate
  <2>1. CASE BlockInbound
    BY <1>1, <1>2, <2>1 DEF BlockInbound, Working, Fails, Saving, Busy
  <2>2. CASE BlockOutbound
    BY <1>1, <1>2, <2>2 DEF BlockOutbound, Working, Fails, Saving, Busy
  <2>3. CASE SaveActions \/ WorkerPanics
    BY <1>1, <2>3 DEF SaveActions, WorkerPanics, Fails
  <2> QED BY <1>3, <2>1, <2>2, <2>3 DEF firewallIsolate
<1>4. CASE RestoreProfile
  <2> DEFINE q == exit.profile
             a == exit.saved[q]
             b == fw[q]
  <2>1. /\ q \in Profiles /\ a \in Actions /\ b \in Actions /\ fw \in [Profiles -> Actions]
        /\ \A s \in Sides : SavedOf(q, s, a[s])
    BY <1>4, SavedTyped DEF RestoreProfile, TypeOK
  <2>2. PICK in, out : /\ fw' = [fw EXCEPT ![q] = [in |-> in, out |-> out]]
                       /\ in \in {b.in, a.in, Explicit(a.in)}
                       /\ out \in {b.out, a.out, Explicit(a.out)}
    <3>1. CASE \E lost \in SUBSET (Sides \ Unset(a)) :
                 fw' = [fw EXCEPT ![q] = [in  |-> Reinstated(a.in, b.in, "in" \notin lost),
                                          out |-> Reinstated(a.out, b.out, "out" \notin lost)]]
      BY <3>1 DEF Reinstated
    <3>2. CASE \E in \in Half(a.in, b.in), out \in Half(a.out, b.out) :
                 fw' = [fw EXCEPT ![q] = [in |-> in, out |-> out]]
      BY <3>2 DEF Half
    <3> QED BY <1>4, <3>1, <3>2 DEF RestoreProfile
  <2>3. CASE p # q
    BY <1>0, <2>1, <2>2, <2>3 DEF Set
  <2>4. CASE p = q
    <3>1. fw'[p][side] \in {b[side], a[side], Explicit(a[side])}
      <4>1. fw'[q] = [in |-> in, out |-> out]
        BY <2>1, <2>2
      <4> QED BY <2>2, <2>4, <4>1 DEF Sides
    <3>2. Prior[p][side] # "unset" => a[side] # "unset"
      BY <2>1, <2>4 DEF SavedOf
    <3> QED BY <1>0, <2>4, <3>1, <3>2 DEF Set, Explicit
  <2> QED BY <2>3, <2>4
<1>5. CASE OnTrip
  BY <1>1, <1>5, LadderEffect
<1> QED BY <1>1, <1>3, <1>4, <1>5
    DEF Next, Trip, StopGracefully, Stopping, Restore, Exit, RestoreTakes, RestoreTimesOut, vars

\* Every step keeps what Restore relies on true.
LEMMA NextRestoring == TypeOK /\ Saving /\ Restoring /\ [Next]_vars => Restoring'
<1> SUFFICES ASSUME TypeOK, Saving, Restoring, [Next]_vars PROVE Restoring'
  OBVIOUS
<1> DEFINE Undone == exit.at = "exited" /\ exit.saved # <<>> /\ ~exit.err =>
                       \A p \in Profiles : \A side \in Sides : Back(p, side)
           Ready  == /\ restore.set => worker.at = "ok" /\ restore.saved = worker.saved
                     /\ exit.at \in {"no", "take"} => exit.saved = <<>>
                     /\ exit.at = "restoring" =>
                          /\ worker.at = "ok" /\ exit.saved = worker.saved
                          /\ exit.profile \in Profiles
                          /\ ~exit.err => \A p \in Profiles : p < exit.profile =>
                                            \A side \in Sides : Back(p, side)
<1>a. Undone /\ Ready
  BY ExactBySides DEF Restoring
<1>b. SUFFICES Undone' /\ Ready'
  <2>1. \A p \in Profiles : \A side \in Sides : Set(p, side)'
    BY SetStays
  <2>2. RestoreIsExact' <=>
          \A p \in Profiles : \A side \in Sides :
            /\ exit'.at = "exited" /\ exit'.saved # <<>> /\ ~exit'.err => Back(p, side)'
            /\ Set(p, side)'
    BY DEF RestoreIsExact, Back, Set, SavedOf
  <2> QED BY <1>b, <2>1, <2>2 DEF Restoring
<1>0. ASSUME worker' = worker \/ worker.at # "ok",
             UNCHANGED <<fw, amiss>> \/ (worker.at # "ok" /\ exit.at # "exited"),
             exit' = exit, restore' = restore
      PROVE  Undone' /\ Ready'
  BY <1>0, <1>a DEF Back, SavedOf
<1>1. ASSUME NEW c \in Callers, Trip(c) PROVE Undone' /\ Ready'
  BY <1>0, <1>1 DEF Trip
<1>2. CASE OnTrip
  <2>1. CASE worker' = worker /\ restore' = restore
    BY <1>0, <1>2, <2>1, LadderEffect
  <2>2. CASE worker' = worker /\ worker.at = "ok" /\ restore' = [set |-> TRUE, saved |-> worker.saved]
    BY <1>2, <1>a, <2>2, LadderEffect DEF Back, SavedOf
  <2>3. CASE /\ ladder = "isolate" /\ restore' = restore
    BY <1>0, <1>2, <2>3, LadderEffect DEF Saving, Early
  <2> QED BY <1>2, <2>1, <2>2, <2>3, LadderEffect
<1>3. CASE firewallIsolate
  BY <1>0, <1>3 DEF firewallIsolate, SaveActions, BlockInbound, BlockOutbound, WorkerPanics,
                    Working, Fails, Busy, Alive
<1>4. CASE StopGracefully
  BY <1>0, <1>4 DEF StopGracefully, Stopping
<1>5. CASE Restore
  <2> USE DEF Leaving
  <2>1. CASE Exit
    <3>1. exit'.at = "take" /\ exit'.saved = exit.saved
      BY <2>1 DEF Exit, TypeOK
    <3> QED BY <1>a, <2>1, <3>1 DEF Exit
  <2>2. CASE RestoreTakes
    <3>1. exit.saved = <<>> /\ worker' = worker /\ fw' = fw /\ ~restore'.set
      BY <2>2 DEF RestoreTakes, Restoring
    <3>2. CASE restore.set
      <4>1. /\ exit'.at = "restoring" /\ exit'.profile = 1 /\ exit'.saved = worker.saved
            /\ worker.at = "ok"
        BY <2>2, <3>2 DEF RestoreTakes, Restoring, TypeOK
      <4> QED BY <3>1, <3>2, <4>1, PriorTyped
    <3>3. CASE ~restore.set
      <4>1. exit'.at = "exited" /\ exit'.saved = <<>>
        BY <2>2, <3>1, <3>3 DEF RestoreTakes, TypeOK
      <4> QED BY <3>1, <4>1
    <3> QED BY <3>2, <3>3
  <2>3. CASE RestoreProfile
    <3>p. PICK p, a : p = exit.profile /\ a = exit.saved[p]
      OBVIOUS
    <3>1. /\ worker.at = "ok" /\ exit.saved = worker.saved /\ p \in Profiles
          /\ worker' = worker /\ restore' = restore
          /\ ~exit.err => \A q \in Profiles : q < p => \A side \in Sides : Back(q, side)
      BY <2>3, <3>p DEF RestoreProfile, Restoring
    <3>2. /\ exit'.saved = worker.saved /\ exit'.profile = p + 1
          /\ exit'.at = IF p = Len(Prior) THEN "exited" ELSE "restoring"
      BY <2>3, <3>p, <3>1 DEF RestoreProfile, NextRestored, TypeOK
    <3>3. /\ \A q \in Profiles : q # p => fw'[q] = fw[q]
          /\ amiss \subseteq amiss'
      BY <2>3, <3>p, <3>1 DEF RestoreProfile, TypeOK
    <3>4. ASSUME ~exit'.err PROVE ~exit.err /\ \A side \in Sides : Back(p, side)'
      <4>1. ~exit.err
        BY <2>3, <3>p, <3>4 DEF RestoreProfile, NextRestored, TypeOK
      <4>2. PICK lost \in SUBSET (Sides \ Unset(a)) :
              /\ fw' = [fw EXCEPT ![p] = [in  |-> Reinstated(a.in, fw[p].in, "in" \notin lost),
                                          out |-> Reinstated(a.out, fw[p].out, "out" \notin lost)]]
              /\ amiss' = amiss \cup ({p} \X lost \X {"put"})
        BY <2>3, <3>p, <3>4 DEF RestoreProfile, NextRestored, TypeOK
      <4>3. \A side \in Sides : SavedOf(p, side, a[side])
        BY <2>3, <3>p, SavedTyped DEF RestoreProfile
      <4>4. ASSUME NEW side \in Sides PROVE Back(p, side)'
        <5>1. fw'[p] = [in  |-> Reinstated(a.in, fw[p].in, "in" \notin lost),
                        out |-> Reinstated(a.out, fw[p].out, "out" \notin lost)]
          BY <3>1, <4>2 DEF TypeOK
        <5>2. side \notin lost => fw'[p][side] = a[side]
          BY <5>1 DEF Reinstated, Sides
        <5>3. side \in lost => <<p, side, "put">> \in amiss'
          BY <4>2
        <5>4. CASE side \in lost
          BY <5>3, <5>4 DEF Back
        <5>5. CASE side \notin lost
          <6>1. SavedOf(p, side, a[side]) /\ fw'[p][side] = a[side] /\ amiss \subseteq amiss'
            BY <3>3, <4>3, <5>2, <5>5
          <6> QED BY <6>1 DEF Back, SavedOf
        <5> QED BY <5>4, <5>5
      <4> QED BY <4>1, <4>4
    <3>5. ~exit'.err => \A q \in Profiles : q < p + 1 => \A side \in Sides : Back(q, side)'
      <4> SUFFICES ASSUME ~exit'.err, NEW q \in Profiles, q < p + 1, NEW side \in Sides
                   PROVE  Back(q, side)'
        OBVIOUS
      <4>1. CASE q = p
        BY <3>4, <4>1
      <4>2. CASE q # p
        <5>1. Back(q, side) /\ fw'[q] = fw[q]
          BY <3>1, <3>3, <3>4, <4>2, PriorTyped
        <5> QED BY <3>3, <5>1 DEF Back, SavedOf
      <4> QED BY <4>1, <4>2
    <3>i. /\ p \in Profiles /\ Profiles = 1 .. Len(Prior) /\ Len(Prior) \in Nat
          /\ exit'.at = "exited" <=> p = Len(Prior)
      BY <3>1, <3>2, PriorTyped
    <3>6. exit'.at = "exited" /\ ~exit'.err => \A q \in Profiles : \A side \in Sides : Back(q, side)'
      <4>1. exit'.at = "exited" => \A q \in Profiles : q < p + 1
        BY <3>i
      <4> QED BY <3>5, <4>1
    <3>7. exit'.at # "exited" => p + 1 \in Profiles
      BY <3>i
    <3>8. exit'.at \in {"exited", "restoring"} /\ (restore'.set => restore'.saved = worker'.saved)
      BY <1>a, <3>1, <3>2
    <3> QED BY <3>1, <3>2, <3>5, <3>6, <3>7, <3>8
  <2>4. CASE RestoreTimesOut
    <3>1. exit'.at = "exited" /\ exit'.err
      BY <2>4 DEF RestoreTimesOut, TypeOK
    <3> QED BY <1>a, <2>4, <3>1 DEF RestoreTimesOut
  <2> QED BY <1>5, <2>1, <2>2, <2>3, <2>4 DEF Restore
<1>6. CASE UNCHANGED vars
  BY <1>0, <1>6 DEF vars
<1> QED BY <1>1, <1>2, <1>3, <1>4, <1>5, <1>6 DEF Next

\* Types, what is saved and what Restore relies on hold in every state.
LEMMA AlwaysKept == Spec => [](TypeOK /\ Saving /\ Restoring)
<1>1. Init => TypeOK /\ Saving /\ Restoring
  BY InitTyped, InitSaving
<1>2. TypeOK /\ Saving /\ Restoring /\ [Next]_vars => (TypeOK /\ Saving /\ Restoring)'
  BY NextTyped, NextSaving, NextRestoring
<1> QED BY <1>1, <1>2, PTL DEF Spec

\* An isolation that is undone without an error leaves every default action as it was, the
\* unset ones unset, but where a Put of Restore changed nothing or the registry could not be
\* read; and no configured action is ever unset, whatever fails, hangs or panics meanwhile
\* (firewall_windows.go:61-190).
THEOREM RestoreExact == Spec => []RestoreIsExact
BY AlwaysKept, PTL DEF Restoring

-----------------------------------------------------------------------------
(* The log.                                                                 *)

\* An incident that is durable.
Sealed == \E k \in 1 .. durable : log[k].event = "tripped"

\* The incident is in the log once, from the first rung on.
Told ==
  /\ durable <= Len(log)
  /\ OneIncident
  /\ ladder \in {"off", "record"} => \A k \in DOMAIN log : log[k].event # "tripped"
  /\ ladder \notin {"off", "record", "crashed"} => Logged("tripped", "session")

\* Whatever can lead to a change of the machine comes after the seal (killaction.go:131-205).
Evidence ==
  (\/ ladder \in {"isolate", "isolating", "kill-procs", "lock", "finalize", "shutdown seal",
                  "shutdown", "flush", "abort"}
   \/ worker.at # "off" \/ restore.set \/ exit.at = "restoring"
   \/ fw # Prior \/ did \cap {"kill-procs", "lock", "shutdown"} # {}) => Sealed

\* How far the ladder has come tells what it has done (killaction.go:108-216).
Climbed ==
  /\ ladder \in {"shutdown seal", "shutdown", "flush", "abort", "recover flush", "recover abort",
                 "done"} => "finalize" \in did
  /\ ladder = "shutdown" /\ "shutdown" \in cfg /\ elevated => Loose = {}
  /\ ladder \in {"abort", "recover abort", "done"} => Loose = {}
  /\ ladder = "done" => "abort" \in did

\* No rung has been logged.
OnlySession == \A k \in DOMAIN log : log[k].action = "session"

\* Until the banner is up no rung has run (killaction.go:131-136).
Bannered ==
  \/ "banner" \in did
  \/ /\ ladder \in {"off", "record", "banner", "recover finalize", "recover flush",
                    "recover abort", "done", "crashed"}
     /\ OnlySession

\* A profile the COM thread has seen blocked stays so until Restore, and so does one the log
\* calls blocked.
Observed ==
  /\ exit.at \in {"no", "take"} => \A p \in worker.observed : fw[p].out = "block"
  /\ ObservedIsTrue

\* The ladder does not go on in a process that is gone.
LEMMA LadderAlive == OnTrip => ladder # "crashed"
BY DEF OnTrip, Record, Banner, Seal, Isolate, Isolated, TimeOut, KillProcs, Lock, Finalize,
       ShutdownSeal, Shutdown, FinalFlush, Abort, Recover, PassOver, Skip, Climb, Alive

\* What a step of the ladder writes: the incident first, and never again.
LEMMA LadderLogs ==
  ASSUME TypeOK, OnTrip
  PROVE  \/ /\ ladder = "record" /\ ladder' = "banner" /\ did' = did
            /\ auditAppend(Event("tripped", "session", {}))
         \/ /\ ladder \notin {"off", "record"} /\ ladder' \notin {"off", "record"}
            /\ \/ UNCHANGED forensics
               \/ Flush
               \/ \E e \in Entry : /\ auditAppend(e) /\ e.event # "tripped"
                                   /\ e.event = "done" => e.observed \subseteq worker.observed
<1> USE DEF Quiet, Climb
<1>0. ASSUME NEW ev \in {"done", "failed", "skipped"}, NEW r \in Rungs,
             NEW o \in {{}, worker.observed}
      PROVE  /\ Event(ev, r, o) \in Entry /\ Event(ev, r, o).event # "tripped"
             /\ Event(ev, r, o).observed \subseteq worker.observed
  BY EventTyped DEF Event, TypeOK
<1>1. CASE Record \/ Banner \/ Seal
  BY <1>1 DEF Record, Banner, Seal
<1>2. CASE Isolate
  BY <1>0, <1>2 DEF Isolate, PassOver, Skip, Rungs
<1>3. CASE Isolated \/ TimeOut
  BY <1>0, <1>3 DEF Isolated, TimeOut, Rungs
<1>4. CASE KillProcs
  BY <1>0, <1>4 DEF KillProcs, PassOver, Skip, Rungs
<1>5. CASE Lock
  BY <1>0, <1>5 DEF Lock, PassOver, Rungs
<1>6. CASE Finalize \/ ShutdownSeal
  BY <1>6 DEF Finalize, ShutdownSeal
<1>7. CASE Shutdown
  BY <1>0, <1>7 DEF Shutdown, PassOver, Skip, Rungs
<1>8. CASE FinalFlush \/ Abort \/ Recover
  BY <1>8, ContainConstants DEF FinalFlush, Abort, Recover
<1> QED BY <1>1, <1>2, <1>3, <1>4, <1>5, <1>6, <1>7, <1>8 DEF OnTrip

\* Any step writes what the ladder does, or the agent's stop does, or nothing.
LEMMA StepLogs ==
  ASSUME [Next]_vars
  PROVE  \/ OnTrip
         \/ /\ did' \subseteq did \cup {"finalize", "abort"} /\ did \subseteq did'
            /\ UNCHANGED <<cfg, elevated>>
            /\ \/ ladder' = ladder
               \/ ladder' = "crashed"
               \/ ~tripped /\ ladder' = "record"
            /\ \/ UNCHANGED forensics
               \/ Flush
               \/ auditAppend(Event("stopped", "session", {}))
<1> USE DEF switch, forensics, Does
<1>1. CASE \E c \in Callers : Trip(c)
  BY <1>1 DEF Trip
<1>2. CASE firewallIsolate
  BY <1>2 DEF firewallIsolate, SaveActions, BlockInbound, BlockOutbound, WorkerPanics,
              Working, Fails
<1>3. CASE StopGracefully
  BY <1>3 DEF StopGracefully, Stopping
<1>4. CASE Restore
  BY <1>4 DEF Restore, Exit, RestoreTakes, RestoreProfile, RestoreTimesOut, Leaving
<1>5. CASE UNCHANGED vars
  BY <1>5 DEF vars
<1> QED BY <1>1, <1>2, <1>3, <1>4, <1>5 DEF Next

Writes(e) == UNCHANGED forensics \/ Flush \/ auditAppend(e)

\* The log only grows, and what is durable of it too (audit.go, killaction.go:108-129).
LEMMA LogGrows ==
  ASSUME TypeOK, durable <= Len(log), NEW e \in Entry, Writes(e)
  PROVE  /\ durable' <= Len(log') /\ durable <= durable' /\ durable' \in Nat
         /\ \A k \in DOMAIN log : k \in DOMAIN log' /\ log'[k] = log[k]
         /\ \A k \in DOMAIN log' : k \notin DOMAIN log => k = Len(log) + 1 /\ auditAppend(e) /\ log'[k] = e
<1>1. CASE UNCHANGED forensics
  BY <1>1 DEF forensics, TypeOK
<1>2. CASE Flush
  BY <1>2 DEF Flush, TypeOK
<1>3. CASE auditAppend(e)
  <2>1. log' = Append(log, e) /\ durable' = durable
    BY <1>3 DEF auditAppend
  <2>2. log \in Seq(Entry) /\ durable \in Nat
    BY DEF TypeOK
  <2>3. /\ Len(log') = Len(log) + 1 /\ log'[Len(log) + 1] = e
        /\ \A k \in 1 .. Len(log) : log'[k] = log[k]
    BY <2>1, <2>2
  <2> QED BY <1>3, <2>1, <2>2, <2>3
<1> QED BY <1>1, <1>2, <1>3 DEF Writes

\* A durable incident stays one.
LEMMA SealedStays ==
  ASSUME TypeOK, durable <= Len(log), NEW e \in Entry, Writes(e), Sealed
  PROVE  Sealed'
<1>1. PICK k \in 1 .. durable : log[k].event = "tripped"
  BY DEF Sealed
<1>2. k \in DOMAIN log /\ k \in 1 .. durable' /\ log'[k].event = "tripped"
  BY <1>1, LogGrows DEF TypeOK
<1> QED BY <1>2 DEF Sealed

\* A logged incident stays logged.
LEMMA LoggedStays ==
  ASSUME TypeOK, durable <= Len(log), NEW e \in Entry, Writes(e), Logged("tripped", "session")
  PROVE  Logged("tripped", "session")'
BY LogGrows DEF Logged

\* Nothing gets loose but by an entry of the ladder.
LEMMA LooseStays ==
  ASSUME TypeOK, durable <= Len(log), NEW e \in Entry, Writes(e), Loose = {},
         auditAppend(e) => e.event = "stopped"
  PROVE  Loose' = {}
<1> SUFFICES ASSUME NEW k \in (durable' + 1) .. Len(log'), log'[k].event # "stopped"
             PROVE  FALSE
  BY DEF Loose
<1>1. k \in DOMAIN log' /\ k > durable /\ durable \in Nat /\ log' \in Seq(Entry) /\ k \in Nat
  BY LogGrows, ForensicsTyped, SMTT(30) DEF TypeOK, Writes
<1>2. k \in DOMAIN log /\ log'[k] = log[k]
  BY <1>1, LogGrows
<1>3. k \in (durable + 1) .. Len(log)
  BY <1>1, <1>2 DEF TypeOK
<1> QED BY <1>2, <1>3 DEF Loose

\* A flush leaves nothing loose.
LEMMA FlushBinds == TypeOK /\ Flush => Loose' = {}
BY DEF Flush, Loose, TypeOK

\* Every step keeps the incident in the log once.
LEMMA NextTold == TypeOK /\ Saving /\ Told /\ [Next]_vars => Told'
<1> SUFFICES ASSUME TypeOK, Saving, Told, [Next]_vars PROVE Told'
  OBVIOUS
<1>0. durable <= Len(log) /\ OneIncident
  BY DEF Told
<1>1. ASSUME NEW e \in Entry, Writes(e), e.event # "tripped",
             ladder' = "record" => ladder \in {"off", "record"}, ladder' # "off" \/ ladder = "off",
             ladder = "off" => ladder' \in {"off", "record", "crashed"},
             ladder = "record" => ladder' \in {"record", "crashed"},
             ladder = "crashed" => ladder' = "crashed"
      PROVE  Told'
  <2>1. \A k \in DOMAIN log' : log'[k].event = "tripped" => k \in DOMAIN log /\ log'[k] = log[k]
    BY <1>0, <1>1, LogGrows
  <2>2. OneIncident'
    BY <1>0, <2>1 DEF OneIncident
  <2>3. (durable <= Len(log))'
    BY <1>0, <1>1, LogGrows
  <2>4. ladder' \notin {"off", "record", "crashed"} => Logged("tripped", "session")'
    BY <1>0, <1>1, LoggedStays DEF Told
  <2>5. ladder' \in {"off", "record"} => \A k \in DOMAIN log' : log'[k].event # "tripped"
    BY <1>1, <2>1 DEF Told
  <2> QED BY <2>2, <2>3, <2>4, <2>5 DEF Told
<1>2. CASE OnTrip
  <2>1. CASE /\ ladder = "record" /\ ladder' = "banner"
             /\ auditAppend(Event("tripped", "session", {}))
    <3> DEFINE e == Event("tripped", "session", {})
    <3>1. e \in Entry /\ e.event = "tripped" /\ e.action = "session"
      BY EventTyped DEF Event
    <3>2. log' = Append(log, e) /\ durable' = durable
      BY <2>1 DEF auditAppend
    <3> HIDE DEF e
    <3>3. /\ DOMAIN log' = 1 .. Len(log) + 1 /\ log'[Len(log) + 1] = e
          /\ Len(log') = Len(log) + 1 /\ Len(log) \in Nat
          /\ \A k \in 1 .. Len(log) : log'[k].event # "tripped"
      BY <2>1, <3>1, <3>2 DEF Told, TypeOK
    <3>4. OneIncident'
      BY <3>3 DEF OneIncident
    <3>5. Logged("tripped", "session")'
      BY <3>1, <3>3 DEF Logged
    <3> QED BY <1>0, <2>1, <3>2, <3>3, <3>4, <3>5 DEF Told, TypeOK
  <2>2. CASE ~(/\ ladder = "record" /\ ladder' = "banner"
               /\ auditAppend(Event("tripped", "session", {})))
    <3>1. /\ ladder \notin {"off", "record"} /\ ladder' \notin {"off", "record"}
          /\ ladder # "crashed"
      BY <1>2, <2>2, LadderLogs, LadderAlive
    <3>2. PICK e \in Entry : Writes(e) /\ e.event # "tripped"
      <4>1. Event("stopped", "session", {}) \in Entry /\ Event("stopped", "session", {}).event = "stopped"
        BY EventTyped DEF Event
      <4> QED BY <1>2, <2>2, <4>1, LadderLogs DEF Writes
    <3> QED BY <1>1, <3>1, <3>2
  <2> QED BY <2>1, <2>2
<1>3. CASE ~OnTrip
  <2>1. Event("stopped", "session", {}) \in Entry /\ Event("stopped", "session", {}).event # "tripped"
    BY EventTyped DEF Event
  <2>2. /\ Writes(Event("stopped", "session", {}))
        /\ \/ ladder' = ladder
           \/ ladder' = "crashed"
           \/ ladder = "off" /\ ladder' = "record"
    BY <1>3, StepLogs DEF Writes, Saving
  <2> QED BY <1>1, <2>1, <2>2
<1> QED BY <1>2, <1>3

\* Every step keeps the incident durable before anything destructive.
LEMMA NextEvidence == TypeOK /\ Saving /\ Told /\ Evidence /\ [Next]_vars => Evidence'
<1> SUFFICES ASSUME TypeOK, Saving, Told, Evidence, [Next]_vars PROVE Evidence'
  OBVIOUS
<1>0. PICK e \in Entry : Writes(e)
  <2>1. Event("stopped", "session", {}) \in Entry /\ Event("tripped", "session", {}) \in Entry
    BY EventTyped
  <2> QED BY <2>1, LadderLogs, StepLogs DEF Writes
<1>1. durable <= Len(log)
  BY DEF Told
<1>2. Sealed => Sealed'
  BY <1>0, <1>1, SealedStays
<1>3. ASSUME ~Sealed PROVE Evidence'
  <2>1. /\ ladder \notin {"isolate", "isolating", "kill-procs", "lock", "finalize", "shutdown seal",
                         "shutdown", "flush", "abort"}
        /\ worker.at = "off" /\ ~restore.set /\ exit.at # "restoring"
        /\ fw = Prior /\ did \cap {"kill-procs", "lock", "shutdown"} = {}
    BY <1>3 DEF Evidence, TypeOK
  <2>2. CASE \E c \in Callers : Trip(c)
    BY <2>1, <2>2 DEF Trip, Evidence
  <2>3. CASE Seal
    <3>1. Logged("tripped", "session") /\ log' = log /\ durable' = Len(log)
      BY <2>3 DEF Seal, Climb, Flush, Told
    <3>2. Sealed'
      BY <3>1 DEF Logged, Sealed, TypeOK
    <3> QED BY <3>2 DEF Evidence
  <2>4. CASE OnTrip /\ ~Seal
    BY <2>1, <2>4, ContainConstants
       DEF OnTrip, Record, Banner, Isolate, Isolated, TimeOut, KillProcs, Lock, Finalize,
           ShutdownSeal, Shutdown, FinalFlush, Abort, Recover, PassOver, Skip, Climb, Quiet,
           Does, Evidence
  <2>5. CASE firewallIsolate
    BY <2>1, <2>5 DEF firewallIsolate, SaveActions, BlockInbound, BlockOutbound, WorkerPanics,
                      Working, Busy
  <2>6. CASE StopGracefully
    BY <2>1, <2>6 DEF StopGracefully, Stopping, Does, Evidence
  <2>7. CASE Restore
    <3>1. CASE Exit
      BY <2>1, <3>1 DEF Exit, Leaving, Evidence, TypeOK
    <3>2. CASE RestoreTakes
      BY <2>1, <3>2 DEF RestoreTakes, Leaving, Evidence, TypeOK
    <3>3. CASE RestoreProfile
      BY <2>1, <3>3 DEF RestoreProfile
    <3>4. CASE RestoreTimesOut
      BY <2>1, <3>4 DEF RestoreTimesOut
    <3> QED BY <2>7, <3>1, <3>2, <3>3, <3>4 DEF Restore
  <2>8. CASE UNCHANGED vars
    BY <2>1, <2>8 DEF vars, Evidence
  <2> QED BY <2>2, <2>3, <2>4, <2>5, <2>6, <2>7, <2>8 DEF Next
<1> QED BY <1>2, <1>3 DEF Evidence

\* Every step keeps what the ladder has done true.
LEMMA NextClimbed == TypeOK /\ Saving /\ Told /\ Climbed /\ [Next]_vars => Climbed'
<1> SUFFICES ASSUME TypeOK, Saving, Told, Climbed, [Next]_vars PROVE Climbed'
  OBVIOUS
<1>1. CASE ~OnTrip
  <2> DEFINE e == Event("stopped", "session", {})
  <2>1. e \in Entry /\ e.event = "stopped"
    BY EventTyped DEF Event
  <2>2. /\ Writes(e) /\ durable <= Len(log) /\ did \subseteq did' /\ UNCHANGED <<cfg, elevated>>
        /\ ladder' = ladder \/ ladder' \in {"crashed", "record"}
    BY <1>1, StepLogs DEF Writes, Told
  <2>3. Loose = {} => Loose' = {}
    BY <2>1, <2>2, LooseStays
  <2> HIDE DEF e
  <2> QED BY <2>2, <2>3 DEF Climbed
<1>2. CASE OnTrip
  <2> USE DEF Climb, Quiet, Does
  <2>1. CASE Record \/ Banner \/ Seal
    BY <2>1 DEF Record, Banner, Seal, Climbed
  <2>2. CASE Isolate \/ Isolated \/ TimeOut
    BY <2>2 DEF Isolate, Isolated, TimeOut, PassOver, Skip, Climbed
  <2>3. CASE KillProcs \/ Lock
    BY <2>3 DEF KillProcs, Lock, PassOver, Skip, Climbed
  <2>4. CASE Finalize
    BY <2>4 DEF Finalize, Climbed
  <2>5. CASE ShutdownSeal
    BY <2>5, FlushBinds DEF ShutdownSeal, Climbed
  <2>6. CASE Shutdown
    BY <2>6 DEF Shutdown, PassOver, Skip, Climbed
  <2>7. CASE FinalFlush
    BY <2>7, FlushBinds DEF FinalFlush, Climbed
  <2>8. CASE Abort
    BY <2>8 DEF Abort, forensics, Loose, Climbed
  <2>9. CASE Recover
    <3>1. UNCHANGED forensics => Loose' = Loose
      BY DEF forensics, Loose
    <3> QED BY <2>9, <3>1, FlushBinds, ContainConstants DEF Recover, Climbed
  <2> QED BY <1>2, <2>1, <2>2, <2>3, <2>4, <2>5, <2>6, <2>7, <2>8, <2>9 DEF OnTrip
<1> QED BY <1>1, <1>2

\* Every step keeps the banner before the rungs.
LEMMA NextBannered == TypeOK /\ Saving /\ Told /\ Bannered /\ [Next]_vars => Bannered'
<1> SUFFICES ASSUME TypeOK, Saving, Told, Bannered, [Next]_vars PROVE Bannered'
  OBVIOUS
<1>0. durable <= Len(log)
  BY DEF Told
<1>1. ASSUME NEW e \in Entry, Writes(e), e.action = "session", OnlySession PROVE OnlySession'
  BY <1>0, <1>1, LogGrows DEF OnlySession
<1>2. did \subseteq did'
  <2>1. CASE OnTrip
    BY <2>1 DEF OnTrip, Record, Banner, Seal, Isolate, Isolated, TimeOut, KillProcs, Lock,
                Finalize, ShutdownSeal, Shutdown, FinalFlush, Abort, Recover, PassOver, Skip, Does
  <2>2. CASE ~OnTrip
    BY <2>2, StepLogs
  <2> QED BY <2>1, <2>2
<1>3. CASE "banner" \in did
  BY <1>2, <1>3 DEF Bannered
<1>4. CASE "banner" \notin did
  <2>1. /\ ladder \in {"off", "record", "banner", "recover finalize", "recover flush",
                       "recover abort", "done", "crashed"}
        /\ OnlySession
    BY <1>4 DEF Bannered
  <2>2. CASE ~OnTrip
    <3> DEFINE e == Event("stopped", "session", {})
    <3>1. e \in Entry /\ e.action = "session"
      BY EventTyped DEF Event
    <3>2. Writes(e) /\ (ladder' = ladder \/ ladder' \in {"crashed", "record"})
      BY <2>2, StepLogs DEF Writes
    <3>3. OnlySession'
      BY <1>1, <2>1, <3>1, <3>2
    <3> QED BY <2>1, <3>2, <3>3 DEF Bannered
  <2>3. CASE Record
    <3> DEFINE e == Event("tripped", "session", {})
    <3>1. e \in Entry /\ e.action = "session"
      BY EventTyped DEF Event
    <3>2. Writes(e) /\ ladder' = "banner"
      BY <2>3 DEF Record, Climb, Writes
    <3>3. OnlySession'
      BY <1>1, <2>1, <3>1, <3>2
    <3> QED BY <3>2, <3>3 DEF Bannered
  <2>4. CASE Banner
    BY <2>4 DEF Banner, Does, Bannered
  <2>5. CASE Recover
    <3>1. /\ log' = log
          /\ ladder' \in {"recover finalize", "recover flush", "recover abort", "done", "crashed"}
      BY <2>5 DEF Recover, Climb, forensics, Flush
    <3> QED BY <2>1, <3>1 DEF Bannered, OnlySession
  <2>6. OnTrip => Record \/ Banner \/ Recover
    BY <2>1 DEF OnTrip, Seal, Isolate, Isolated, TimeOut, KillProcs, Lock, Finalize,
                ShutdownSeal, Shutdown, FinalFlush, Abort, PassOver, Skip, Climb
  <2> QED BY <2>2, <2>3, <2>4, <2>5, <2>6
<1> QED BY <1>3, <1>4

\* Every step keeps what was seen blocked, and what is logged so, blocked until Restore.
LEMMA NextObserved ==
  TypeOK /\ Saving /\ Told /\ Restoring /\ Observed /\ [Next]_vars => Observed'
<1> SUFFICES ASSUME TypeOK, Saving, Told, Restoring, Observed, [Next]_vars PROVE Observed'
  OBVIOUS
<1> DEFINE Open == exit.at \in {"no", "take"}
           Shut(p) == fw[p].out = "block"
<1>0. durable <= Len(log)
  BY DEF Told
<1>1. ASSUME NEW e \in Entry, Writes(e), Open' => Open,
             e.event = "done" => e.observed \subseteq worker'.observed,
             Open' => \A p \in Profiles : Shut(p) => Shut(p)',
             Open' => \A p \in worker'.observed : p \in worker.observed \/ Shut(p)'
      PROVE  Observed'
  <2>0. SUFFICES ASSUME Open' PROVE Observed'
    BY DEF Observed, ObservedIsTrue
  <2>1. \A p \in worker'.observed : Shut(p)'
    BY <1>1, <2>0 DEF Observed, TypeOK
  <2>2. ASSUME NEW k \in DOMAIN log', log'[k].event = "done", NEW p \in log'[k].observed
        PROVE  Shut(p)'
    <3>1. CASE k \in DOMAIN log
      <4>1. log'[k] = log[k]
        BY <1>0, <1>1, <3>1, LogGrows
      <4>2. log[k] \in Entry
        BY <3>1 DEF TypeOK
      <4>3. log[k].observed \subseteq Profiles
        BY <4>2 DEF Entry
      <4>4. p \in Profiles
        BY <2>2, <4>1, <4>3
      <4>5. Open
        BY <1>1, <2>0
      <4>6. Shut(p)
        BY <2>2, <3>1, <4>1, <4>5 DEF Observed, ObservedIsTrue
      <4> QED BY <1>1, <2>0, <4>4, <4>6
    <3>2. CASE k \notin DOMAIN log
      BY <1>0, <1>1, <2>1, <2>2, <3>2, LogGrows
    <3> QED BY <3>1, <3>2
  <2> QED BY <2>1, <2>2 DEF Observed, ObservedIsTrue
<1>2. /\ Event("stopped", "session", {}) \in Entry
      /\ Event("stopped", "session", {}).event # "done"
      /\ Event("tripped", "session", {}) \in Entry
      /\ Event("tripped", "session", {}).event # "done"
  BY EventTyped DEF Event
<1>3. CASE OnTrip
  <2>1. PICK e \in Entry : Writes(e) /\ (e.event = "done" => e.observed \subseteq worker.observed)
    BY <1>2, <1>3, LadderLogs DEF Writes
  <2>2. fw' = fw /\ exit' = exit /\ worker'.observed = worker.observed
    BY <1>3, LadderEffect DEF TypeOK
  <2> QED BY <1>1, <2>1, <2>2
<1>4. CASE ~OnTrip
  <2>0. Writes(Event("stopped", "session", {}))
    BY <1>4, StepLogs DEF Writes
  <2>1. CASE worker' = worker /\ fw' = fw /\ (Open' => Open)
    BY <1>1, <1>2, <2>0, <2>1
  <2>2. CASE firewallIsolate
    <3>1. ASSUME NEW p \in Profiles, NEW dir \in {"in", "out"}, Put(p, dir, "block"),
                 NEW q \in Profiles, Shut(q)
          PROVE  Shut(q)'
      <4>1. fw[p] \in Actions /\ fw[q] \in Actions
        BY DEF TypeOK
      <4>2. CASE fw' = fw
        BY <3>1, <4>2
      <4>3. CASE fw' = [fw EXCEPT ![p] = IF dir = "in" THEN [@ EXCEPT !.in = "block"]
                                          ELSE [@ EXCEPT !.out = "block"]]
        <5>1. q # p => fw'[q] = fw[q]
          BY <4>3 DEF TypeOK
        <5>2. q = p => fw'[q] = IF dir = "in" THEN [fw[p] EXCEPT !.in = "block"]
                                ELSE [fw[p] EXCEPT !.out = "block"]
          BY <4>3 DEF TypeOK
        <5>3. q = p => fw'[q].out = "block"
          BY <3>1, <4>1, <5>2 DEF Actions
        <5> QED BY <3>1, <5>1, <5>3
      <4> QED BY <3>1, <4>2, <4>3 DEF Put
    <3>2. exit' = exit
      BY <2>2 DEF firewallIsolate, SaveActions, BlockInbound, BlockOutbound, WorkerPanics, Working
    <3>3. CASE SaveActions \/ WorkerPanics \/ Fails
      <4>1. fw' = fw /\ worker'.observed = worker.observed
        BY <3>3 DEF SaveActions, WorkerPanics, Fails, TypeOK
      <4> QED BY <1>1, <1>2, <2>0, <3>2, <4>1
    <3>4. CASE BlockInbound /\ ~Fails
      <4>1. worker.profile \in Profiles /\ Put(worker.profile, "in", "block")
        BY <3>4 DEF BlockInbound, Working, Saving, Busy
      <4>2. worker'.observed = worker.observed
        BY <3>4 DEF BlockInbound, TypeOK
      <4> QED BY <1>1, <1>2, <2>0, <3>1, <3>2, <4>1, <4>2
    <3>5. CASE BlockOutbound /\ ~Fails
      <4>1. worker.profile \in Profiles /\ Put(worker.profile, "out", "block")
        BY <3>5 DEF BlockOutbound, Working, Saving, Busy
      <4>2. worker'.observed = worker.observed \cup {p \in {worker.profile} : fw'[p].out = "block"}
        BY <3>5 DEF BlockOutbound, NextProfile, TypeOK
      <4> QED BY <1>1, <1>2, <2>0, <3>1, <3>2, <4>1, <4>2
    <3> QED BY <2>2, <3>3, <3>4, <3>5 DEF firewallIsolate
  <2>3. CASE RestoreProfile
    <3>1. ~Open'
      BY <2>3 DEF RestoreProfile, NextRestored, TypeOK
    <3> QED BY <3>1 DEF Observed, ObservedIsTrue
  <2>4. CASE Exit \/ RestoreTakes \/ RestoreTimesOut
    BY <2>1, <2>4 DEF Exit, RestoreTakes, RestoreTimesOut, Leaving, TypeOK
  <2>5. CASE \E c \in Callers : Trip(c)
    BY <2>1, <2>5 DEF Trip
  <2>6. CASE StopGracefully
    BY <2>1, <2>6 DEF StopGracefully, Stopping
  <2>7. CASE UNCHANGED vars
    BY <2>1, <2>7 DEF vars
  <2> QED BY <1>4, <2>2, <2>3, <2>4, <2>5, <2>6, <2>7 DEF Next, Restore
<1> QED BY <1>3, <1>4

-----------------------------------------------------------------------------
(* The story as a whole.                                                    *)

\* A process starts with nothing told, done or observed.
LEMMA InitStory == Init => Told /\ Evidence /\ Climbed /\ Bannered /\ Observed
<1> SUFFICES ASSUME Init PROVE Told /\ Evidence /\ Climbed /\ Bannered /\ Observed
  OBVIOUS
<1>1. Len(log) = 0 /\ DOMAIN log = {} /\ durable = 0
  BY DEF Init
<1>2. Told
  BY <1>1 DEF Init, Told, OneIncident
<1>3. Evidence
  BY DEF Init, Evidence
<1>4. Climbed
  BY DEF Init, Climbed
<1>5. Observed
  BY <1>1 DEF Init, Observed, ObservedIsTrue
<1>6. Bannered
  BY <1>1 DEF Init, Bannered, OnlySession
<1> QED BY <1>2, <1>3, <1>4, <1>5, <1>6

Story == Told /\ Evidence /\ Climbed /\ Bannered /\ Observed

\* The inductive invariant of containment.
LEMMA AlwaysStory == Spec => [](TypeOK /\ Saving /\ Restoring /\ Story)
<1>1. Init => Story
  BY InitStory DEF Story
<1>2. TypeOK /\ Saving /\ Restoring /\ Story /\ [Next]_vars => Story'
  BY NextTold, NextEvidence, NextClimbed, NextBannered, NextObserved DEF Story
<1> QED BY <1>1, <1>2, AlwaysKept, PTL DEF Spec

\* However many triggers race, whatever panics or hangs: one incident is logged, a ladder that
\* ends has done all it always does, and what the log calls blocked is blocked until Restore
\* (killswitch.go:38-61, killaction.go:108-216).
THEOREM LadderTrue == Spec => []LadderIsTrue
<1>1. TypeOK /\ Story => LadderIsTrue
  BY DEF Story, Told, Climbed, Bannered, OnlySession, Observed, LadderIsTrue, EndedLadderIsComplete
<1> QED BY <1>1, AlwaysStory, PTL

\* The step that calls shutdown finds the recording finalized and the ladder's entries durable.
LEMMA ShutdownLast == TypeOK /\ Climbed /\ [Next]_vars => ForensicsBeforeShutdown
<1> SUFFICES ASSUME TypeOK, Climbed, [Next]_vars, "shutdown" \in did' \ did
             PROVE  "finalize" \in did /\ Loose = {}
  BY DEF ForensicsBeforeShutdown
<1>1. OnTrip
  BY StepLogs
<1>2. Record \/ Banner \/ Seal => "shutdown" \notin did' \ did
  BY DEF Record, Banner, Seal, Does
<1>3. Isolate \/ Isolated \/ TimeOut => "shutdown" \notin did' \ did
  BY DEF Isolate, Isolated, TimeOut, PassOver, Skip
<1>4. KillProcs \/ Lock => "shutdown" \notin did' \ did
  BY DEF KillProcs, Lock, PassOver, Skip, Does
<1>5. Finalize \/ ShutdownSeal \/ FinalFlush \/ Abort => "shutdown" \notin did' \ did
  <2>1. ShutdownSeal \/ FinalFlush => did' = did
    BY DEF ShutdownSeal, FinalFlush
  <2>2. Finalize \/ Abort => did' \subseteq did \cup {"finalize", "abort"}
    BY DEF Finalize, Abort, Does
  <2> QED BY <2>1, <2>2
<1>6. Recover => "shutdown" \notin did' \ did
  <2>1. Recover => did' \subseteq did \cup {"finalize", "abort"}
    BY DEF Recover, Does
  <2> QED BY <2>1
<1>7. Shutdown
  BY <1>1, <1>2, <1>3, <1>4, <1>5, <1>6 DEF OnTrip
<1>8. ladder = "shutdown" /\ "shutdown" \in cfg /\ elevated
  BY <1>7 DEF Shutdown, PassOver, Skip, Climb
<1> QED BY <1>8 DEF Climbed

\* In every step: nothing is blocked, killed, locked or shut down before the incident is
\* durable, and the shutdown comes after all evidence (killaction.go:105-107, 131-205).
THEOREM EvidenceAlwaysFirst == Spec => EvidenceFirst
<1>1. TypeOK /\ Story => IncidentDurableFirst
  BY DEF Story, Evidence, Sealed, IncidentDurableFirst
<1>2. TypeOK /\ Story /\ (TypeOK /\ Story)' /\ [Next]_vars
        => [IncidentDurableFirst' /\ ForensicsBeforeShutdown]_vars
  BY <1>1, ShutdownLast, PTL DEF Story
<1> QED BY <1>2, AlwaysStory, PTL DEF Spec, EvidenceFirst

-----------------------------------------------------------------------------
(* The monitoring that trips the switch (Watch).                            *)

\* What the watchdog knows of a stall it has told of (heartbeat.go:105-129): its latch is set
\* and no beat is unseen, but after a report that a beat had overtaken.
Stall ==
  /\ told <= 2
  /\ told = 2 => late
  /\ told > 0 => reported \/ ~advanced
  /\ told > 0 /\ ~(told = 1 /\ late) => reported /\ ~advanced

\* What the loop knows of the kill file (monitor.go:91-111).
KillFile ==
  /\ fired <= 1
  /\ fired > 0 => sentinelSeen
  /\ kill = "token" => asked
  /\ fired > 0 /\ monitorCfg.token => asked

\* A bounded successor stays within the bound.
LEMMA SmallerTyped ==
  ASSUME NEW a \in Nat, NEW b \in Nat
  PROVE  Smaller(a, b) \in 0 .. b /\ (a > 0 /\ b > 0 => Smaller(a, b) > 0) /\ Smaller(a, b) <= a
BY DEF Smaller

\* A configuration of the loop.
LEMMA MonitorConfigTyped ==
  ASSUME monitorCfg \in Configs
  PROVE  /\ maxAge \in Nat /\ monitorCfg.interval \in Nat /\ Len(monitorCfg.verify) \in Nat
         /\ monitorCfg.armed \subseteq Triggers /\ monitorCfg.token \in BOOLEAN
         /\ monitorCfg.verify # <<>> => Len(monitorCfg.verify) > 0
BY WatchConstants

\* Monitoring starts well-typed, with nothing told and nothing fired.
LEMMA InitWatch == WatchInit => WatchTypeOK /\ Stall /\ KillFile
<1> SUFFICES ASSUME WatchInit PROVE WatchTypeOK /\ Stall /\ KillFile
  OBVIOUS
<1>0. /\ monitorCfg \in Configs
      /\ maxAge \in Nat /\ monitorCfg.interval \in Nat /\ Len(monitorCfg.verify) \in Nat
  BY MonitorConfigTyped DEF WatchInit
<1>1. WatchTypeOK
  <2>1. at = "off" \/ at = "wait"
    BY DEF WatchInit
  <2>2. at \in MonitorAt /\ at \notin {"verify", "appending"}
    BY <2>1 DEF MonitorAt
  <2>3. /\ verifier \in 0 .. Len(monitorCfg.verify) /\ age \in 0 .. maxAge + 1
        /\ evalAge \in 0 .. monitorCfg.interval /\ told \in 0 .. 3 /\ fired \in 0 .. 2
    BY <1>0 DEF WatchInit
  <2> QED BY <2>2, <2>3 DEF WatchInit, WatchTypeOK
<1>2. Stall /\ KillFile
  BY DEF WatchInit, Stall, KillFile
<1> QED BY <1>1, <1>2

\* The steps of the world and of the monitor loop keep the types (monitor.go:79-138).
LEMMA MonitorTyped ==
  WatchTypeOK /\ (Elapse \/ WorldChanges \/ Monitor \/ Hang) => WatchTypeOK'
<1> SUFFICES ASSUME WatchTypeOK, Elapse \/ WorldChanges \/ Monitor \/ Hang PROVE WatchTypeOK'
  OBVIOUS
<1>0. /\ maxAge \in Nat /\ monitorCfg.interval \in Nat /\ Len(monitorCfg.verify) \in Nat
      /\ monitorCfg.armed \subseteq Triggers
      /\ monitorCfg.verify # <<>> => Len(monitorCfg.verify) > 0
  BY MonitorConfigTyped DEF WatchTypeOK
<1> USE DEF file, loop, beat
<1>1. CASE Elapse
  <2>1. age' \in 0 .. maxAge + 1 /\ evalAge' \in 0 .. monitorCfg.interval
    <3>1. age + 1 \in Nat /\ maxAge + 1 \in Nat /\ evalAge + 1 \in Nat
      BY <1>0 DEF WatchTypeOK
    <3> QED BY <1>0, <1>1, <3>1, SmallerTyped DEF Elapse
  <2> QED BY <1>1, <2>1 DEF Elapse, WatchTypeOK
<1>2. CASE WorldChanges
  <2>1. /\ kill' \in {"absent", "other", "token"} /\ posture' \in BOOLEAN /\ done' \in BOOLEAN
        /\ asked' \in BOOLEAN
    BY <1>2 DEF WorldChanges, WatchTypeOK
  <2> QED BY <1>2, <2>1 DEF WorldChanges, WatchTypeOK
<1>3. CASE Tick \/ Cancelled
  BY <1>3 DEF Tick, Cancelled, Wait, WatchTypeOK, MonitorAt
<1>4. CASE Sentinel
  <2>1. Smaller(1, Len(monitorCfg.verify)) \in 0 .. Len(monitorCfg.verify)
        /\ (FirstVerifier = "verify" => Smaller(1, Len(monitorCfg.verify)) > 0)
    BY <1>0 DEF FirstVerifier, Smaller
  <2>2. fired \in Nat /\ Smaller(fired + 1, 2) \in 0 .. 2
    BY DEF WatchTypeOK, Smaller
  <2>3. FirstVerifier \in {"posture", "verify"}
    BY DEF FirstVerifier
  <2>4. stopped' \in BOOLEAN /\ fired' \in 0 .. 2 /\ sentinelSeen' \in BOOLEAN /\ ignored' \in BOOLEAN
    BY <1>4, <2>2 DEF Sentinel, fire, WatchTypeOK
  <2>5. /\ at' \in {"wait", "gone", FirstVerifier}
        /\ (verifier' = verifier /\ at' = "wait") \/ verifier' = Smaller(1, Len(monitorCfg.verify))
    BY <1>4 DEF Sentinel, GoOn, StartVerifying
  <2>6. /\ at' \in MonitorAt /\ verifier' \in 0 .. Len(monitorCfg.verify)
        /\ at' \in {"verify", "appending"} => verifier' > 0
    BY <2>1, <2>3, <2>5 DEF MonitorAt, WatchTypeOK
  <2> QED BY <1>4, <2>4, <2>6 DEF Sentinel, WatchTypeOK
<1>5. CASE Beat
  <2>1. age' \in 0 .. maxAge + 1 /\ at' \in MonitorAt /\ verifier' > 0 /\ told' \in 0 .. 3
    BY <1>0, <1>5 DEF Beat, WatchTypeOK, MonitorAt
  <2> QED BY <1>5, <2>1, ZenonT(40) DEF Beat, WatchTypeOK
<1>6. CASE Verify
  <2>1. verifier \in 1 .. Len(monitorCfg.verify)
    BY <1>6 DEF Verify, WatchTypeOK
  <2>2. verifier' \in 0 .. Len(monitorCfg.verify) /\ verifier' > 0
    BY <1>0, <1>6, <2>1 DEF Verify, Verified, Smaller
  <2>3. at' \in {"posture", "verify", "gone"} /\ stopped' \in BOOLEAN
    BY <1>6 DEF Verify, Verified, NextVerifier, fire, GoOn, WatchTypeOK
  <2> QED BY <1>6, <2>2, <2>3 DEF Verify, WatchTypeOK, MonitorAt
<1>7. CASE Posture
  <2>1. at' \in {"wait", "gone"} /\ stopped' \in BOOLEAN /\ found' \in BOOLEAN
    BY <1>7 DEF Posture, fire, GoOn, WatchTypeOK
  <2>2. evalAge' \in 0 .. monitorCfg.interval /\ verifier' \in 0 .. Len(monitorCfg.verify)
    BY <1>0, <1>7 DEF Posture, WatchTypeOK
  <2> QED BY <1>7, <2>1, <2>2 DEF Posture, WatchTypeOK, MonitorAt
<1>8. CASE Hang
  BY <1>8 DEF Hang, WatchTypeOK, MonitorAt
<1> QED BY <1>1, <1>2, <1>3, <1>4, <1>5, <1>6, <1>7, <1>8 DEF Monitor

\* The watchdog's steps keep the types (heartbeat.go:86-131).
LEMMA WatchdogTyped == WatchTypeOK /\ Watchdog => WatchTypeOK'
<1> SUFFICES ASSUME WatchTypeOK, Watchdog PROVE WatchTypeOK'
  OBVIOUS
<1> USE DEF file, loop, beat
<1>1. CASE Snapshot
  BY <1>1, ZenonT(40) DEF Snapshot, WatchTypeOK
<1>2. CASE GapExceeded
  <2>1. told \in Nat /\ Smaller(told + 1, 3) \in 0 .. 3
    BY DEF WatchTypeOK, Smaller
  <2>2. /\ reported' \in BOOLEAN /\ stopped' \in BOOLEAN /\ late' \in BOOLEAN
        /\ told' \in 0 .. 3 /\ dog' = "wait"
    BY <1>2, <2>1 DEF GapExceeded, fire, WatchTypeOK
  <2> QED BY <1>2, <2>2 DEF GapExceeded, WatchTypeOK
<1>3. CASE WatchdogEnds
  BY <1>3 DEF WatchdogEnds, WatchTypeOK
<1> QED BY <1>1, <1>2, <1>3 DEF Watchdog

\* Every step keeps the types.
LEMMA NextWatchTyped == WatchTypeOK /\ [WatchNext]_watchVars => WatchTypeOK'
<1>1. WatchTypeOK /\ UNCHANGED watchVars => WatchTypeOK'
  BY DEF watchVars, WatchTypeOK
<1> QED BY <1>1, MonitorTyped, WatchdogTyped DEF WatchNext

\* A step keeps what the watchdog knows of the stall.
LEMMA NextStall == WatchTypeOK /\ Stall /\ [WatchNext]_watchVars => Stall'
<1> SUFFICES ASSUME WatchTypeOK, Stall, [WatchNext]_watchVars PROVE Stall'
  OBVIOUS
<1> USE DEF beat
<1>1. CASE UNCHANGED <<told, late, advanced, reported>>
  BY <1>1 DEF Stall
<1>2. CASE Elapse \/ WorldChanges \/ Tick \/ Cancelled \/ Sentinel \/ Verify \/ Posture \/ Hang
           \/ WatchdogEnds \/ UNCHANGED watchVars
  BY <1>1, <1>2 DEF Elapse, WorldChanges, Tick, Cancelled, Wait, Sentinel, Verify, Posture, Hang,
                    WatchdogEnds, watchVars
<1>3. CASE Beat
  BY <1>3 DEF Beat, Stall
<1>4. CASE Snapshot
  BY <1>4 DEF Snapshot, Stall, WatchTypeOK
<1>5. CASE GapExceeded
  <2>1. CASE age > maxAge /\ ~reported
    <3>1. told \in 0 .. 1 /\ told' = told + 1 /\ (told = 1 => late /\ ~advanced)
      BY <1>5, <2>1 DEF GapExceeded, Stall, WatchTypeOK, Smaller
    <3>2. reported' = TRUE /\ late' = (late \/ advanced) /\ advanced' = advanced
      BY <1>5, <2>1 DEF GapExceeded
    <3> QED BY <3>1, <3>2 DEF Stall, WatchTypeOK
  <2>2. CASE ~(age > maxAge /\ ~reported)
    BY <1>1, <1>5, <2>2 DEF GapExceeded
  <2> QED BY <2>1, <2>2
<1> QED BY <1>2, <1>3, <1>4, <1>5 DEF WatchNext, Monitor, Watchdog

\* A step keeps what the loop knows of the kill file.
LEMMA NextKillFile == WatchTypeOK /\ KillFile /\ [WatchNext]_watchVars => KillFile'
<1> SUFFICES ASSUME WatchTypeOK, KillFile, [WatchNext]_watchVars PROVE KillFile'
  OBVIOUS
<1> USE DEF file, loop
<1>1. CASE UNCHANGED <<monitorCfg, sentinelSeen, kill, file>>
  BY <1>1 DEF KillFile
<1>2. CASE Elapse \/ Tick \/ Cancelled \/ Beat \/ Verify \/ Posture \/ Hang \/ Watchdog
           \/ UNCHANGED watchVars
  BY <1>1, <1>2 DEF Elapse, Tick, Cancelled, Wait, Beat, Verify, Posture, Hang, Watchdog, Snapshot,
                    GapExceeded, WatchdogEnds, watchVars
<1>3. CASE WorldChanges
  BY <1>3 DEF WorldChanges, KillFile, WatchTypeOK
<1>4. CASE Sentinel
  <2>1. CASE fired' = fired
    BY <1>4, <2>1 DEF Sentinel, KillFile, WatchTypeOK
  <2>2. CASE fired' # fired
    <3>1. /\ ~sentinelSeen /\ sentinelSeen' /\ readSentinel.authentic
          /\ fired' = Smaller(fired + 1, 2) /\ UNCHANGED <<monitorCfg, kill, asked>>
      BY <1>4, <2>2 DEF Sentinel
    <3>2. fired = 0 /\ fired' = 1
      BY <3>1 DEF KillFile, WatchTypeOK, Smaller
    <3>3. monitorCfg.token => asked
      BY <3>1 DEF readSentinel, KillFile
    <3> QED BY <3>1, <3>2, <3>3 DEF KillFile
  <2> QED BY <2>1, <2>2
<1> QED BY <1>2, <1>3, <1>4 DEF WatchNext, Monitor

\* No alarm twice for one cause or without one, however the loop, the watchdog, the beats and
\* the files interleave: a stall is reported once, twice only when a beat overtook the look at
\* it; the kill file fires once and only with the operator's token (heartbeat.go:105-129,
\* monitor.go:91-111).
THEOREM AlarmsTrue == WatchSpec => []AlarmsAreTrue
<1>1. WatchTypeOK /\ Stall /\ KillFile /\ [WatchNext]_watchVars
        => (WatchTypeOK /\ Stall /\ KillFile)'
  BY NextWatchTyped, NextStall, NextKillFile
<1>2. WatchTypeOK /\ Stall /\ KillFile => AlarmsAreTrue
  BY DEF Stall, KillFile, WatchTypeOK, AlarmsAreTrue, OncePerStall, KillFileIsTheOperators
<1> QED BY <1>1, <1>2, InitWatch, PTL DEF WatchSpec
=============================================================================
