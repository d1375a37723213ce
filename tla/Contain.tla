------------------------------ MODULE Contain ------------------------------
(***************************************************************************)
(* Containment (guardrails/contain): the kill switch, the ladder a trip    *)
(* runs, the firewall isolation on its own COM thread under a timeout, the *)
(* agent's graceful stop beside them, and Restore when the process exits.  *)
(*                                                                         *)
(* The executor's dependencies are all wired.  A Flush of the audit log    *)
(* makes durable what was appended; what a failing disk does to it is in   *)
(* module Audit.                                                           *)
(***************************************************************************)
EXTENDS Naturals, Sequences

CONSTANTS
  Callers,      \* the triggers that call Trip
  Prior,        \* the firewall's default actions before the session, per profile
  AgentStops,   \* may the agent's Kill tool call StopGracefully
  PanicAt       \* the calls of the ladder that may panic

Rungs    == {"isolate", "kill-procs", "lock", "shutdown"}
Value    == {"unset", "allow", "block"}
Sides    == {"in", "out"}
Actions  == [in : Value, out : Value]
Profiles == DOMAIN Prior

ASSUME ContainConstants ==
  /\ AgentStops \in BOOLEAN
  /\ PanicAt \subseteq {"banner", "isolate", "kill-procs", "lock", "finalize", "shutdown"}
  /\ Prior \in Seq(Actions) /\ Prior # <<>>

\* An entry of the audit log; observed is what the firewall said after isolation.
Entry == [event : {"tripped", "done", "failed", "skipped", "stopped"},
          action : Rungs \cup {"session"}, observed : SUBSET Profiles]

VARIABLES
  tripped,   \* KillSwitch.tripped
  calls,     \* per caller of Trip: "idle", "ladder" (it runs onTrip) or "returned"
  cfg,       \* KillActionConfig: the rungs that are armed
  elevated,
  ladder,    \* where OnTrip is
  worker,    \* the COM thread: where it is, its profile, what it saved and observed
  restore,   \* KillExecutor.restore: set, and with what it saved
  stop,      \* where StopGracefully is
  exit,      \* where the process's exit is, the profile it is at, Restore's error
  fw,        \* the firewall's default actions
  amiss,     \* what went wrong without an error: per profile and side, "read" or "put"
  log, durable,   \* the audit log, and how much of it is flushed
  did        \* the steps outside the log that have happened

switch == <<tripped, calls>>
forensics == <<log, durable>>
vars == <<tripped, calls, cfg, elevated, ladder, worker, restore, stop, exit, fw, amiss,
          log, durable, did>>

LadderAt == {"off", "record", "banner", "seal", "isolate", "isolating", "kill-procs",
             "lock", "finalize", "shutdown seal", "shutdown", "flush", "abort",
             "recover finalize", "recover flush", "recover abort", "done", "crashed"}
WorkerAt == {"off", "read", "in", "out", "ok", "err"}
Busy     == {"read", "in", "out"}
StopAt   == {"off", "record", "finalize", "flush", "abort", "done"}
ExitAt   == {"no", "take", "restoring", "exited"}
Deeds    == {"banner", "kill-procs", "lock", "finalize", "shutdown", "abort"}

TypeOK ==
  /\ tripped \in BOOLEAN
  /\ calls \in [Callers -> {"idle", "ladder", "returned"}]
  /\ cfg \subseteq Rungs /\ elevated \in BOOLEAN
  /\ ladder \in LadderAt
  /\ worker \in [at : WorkerAt, profile : Nat, saved : Seq(Actions), observed : SUBSET Profiles]
  /\ restore \in [set : BOOLEAN, saved : Seq(Actions)]
  /\ stop \in StopAt
  /\ exit \in [at : ExitAt, profile : Nat, saved : Seq(Actions), err : BOOLEAN]
  /\ fw \in [Profiles -> Actions]
  /\ amiss \subseteq (Profiles \X Sides \X {"read", "put"})
  /\ log \in Seq(Entry) /\ durable \in Nat
  /\ did \subseteq Deeds

Init ==
  /\ tripped = FALSE /\ calls = [c \in Callers |-> "idle"]
  /\ cfg \in SUBSET Rungs /\ elevated \in BOOLEAN
  /\ ladder = "off"
  /\ worker = [at |-> "off", profile |-> 0, saved |-> <<>>, observed |-> {}]
  /\ restore = [set |-> FALSE, saved |-> <<>>]
  /\ stop = "off"
  /\ exit = [at |-> "no", profile |-> 0, saved |-> <<>>, err |-> FALSE]
  /\ fw = Prior /\ amiss = {}
  /\ log = <<>> /\ durable = 0
  /\ did = {}

\* The process, and so every thread of it, is still there.
Alive == exit.at # "exited" /\ ladder # "crashed"

Event(ev, action, observed) == [event |-> ev, action |-> action, observed |-> observed]

auditAppend(e) == log' = Append(log, e) /\ UNCHANGED durable
Flush          == durable' = Len(log) /\ UNCHANGED log

-----------------------------------------------------------------------------
(* The kill switch.                                                         *)

\* The flag is tested and set under the mutex; the first caller runs the ladder,
\* outside it.
Trip(c) ==
  /\ Alive
  /\ calls[c] = "idle"
  /\ IF tripped
     THEN /\ calls' = [calls EXCEPT ![c] = "returned"]
          /\ UNCHANGED <<tripped, ladder>>
     ELSE /\ tripped' = TRUE
          /\ calls' = [calls EXCEPT ![c] = "ladder"]
          /\ ladder' = "record"
  /\ UNCHANGED <<cfg, elevated, worker, restore, stop, exit, fw, amiss, forensics, did>>

-----------------------------------------------------------------------------
(* The ladder.                                                              *)

Climb(from, to) ==
  /\ Alive
  /\ ladder = from
  /\ ladder' = to
  /\ UNCHANGED <<switch, cfg, elevated, stop, exit, amiss>>

Quiet == UNCHANGED <<worker, restore, fw>>

Does(deed) == did' = did \cup {deed}

Record ==
  /\ Climb("record", "banner")
  /\ auditAppend(Event("tripped", "session", {}))
  /\ Quiet /\ UNCHANGED did

Banner ==
  /\ Climb("banner", "seal")
  /\ Does("banner")
  /\ Quiet /\ UNCHANGED forensics

SealLater ==
  /\ Climb("seal", "isolate")
  /\ Quiet /\ UNCHANGED <<forensics, did>>

Seal ==
  /\ Climb("seal", "isolate")
  /\ Flush
  /\ Quiet /\ UNCHANGED did

\* A rung that is not armed is passed over; one that needs elevation and lacks it is
\* skipped, and the log says so.
PassOver(rung, next) ==
  /\ rung \notin cfg
  /\ Climb(rung, next)
  /\ Quiet /\ UNCHANGED <<forensics, did>>

Skip(rung, next) ==
  /\ rung \in cfg /\ ~elevated
  /\ Climb(rung, next)
  /\ auditAppend(Event("skipped", rung, {}))
  /\ Quiet /\ UNCHANGED did

Isolate ==
  \/ PassOver("isolate", "kill-procs")
  \/ Skip("isolate", "kill-procs")
  \/ /\ "isolate" \in cfg /\ elevated
     /\ Climb("isolate", "isolating")
     /\ worker' = [worker EXCEPT !.at = "read", !.profile = 1]
     /\ UNCHANGED <<restore, fw, forensics, did>>

Isolated ==
  \/ /\ worker.at = "ok"
     /\ Climb("isolating", "kill-procs")
     /\ restore' = [set |-> TRUE, saved |-> worker.saved]
     /\ auditAppend(Event("done", "isolate", worker.observed))
     /\ UNCHANGED <<worker, fw, did>>
  \/ /\ worker.at = "err"
     /\ Climb("isolating", "kill-procs")
     /\ auditAppend(Event("failed", "isolate", worker.observed))
     /\ Quiet /\ UNCHANGED did

WaitForEver == FALSE /\ UNCHANGED vars

\* WithCOMThreadTimeout gives up; the thread is abandoned, not stopped.
TimeOut ==
  /\ worker.at \in Busy
  /\ Climb("isolating", "kill-procs")
  /\ auditAppend(Event("failed", "isolate", worker.observed))
  /\ Quiet /\ UNCHANGED did

KillProcs ==
  \/ PassOver("kill-procs", "lock")
  \/ Skip("kill-procs", "lock")
  \/ /\ "kill-procs" \in cfg /\ elevated
     /\ Climb("kill-procs", "lock")
     /\ Does("kill-procs")
     /\ auditAppend(Event("done", "kill-procs", {}))
     /\ Quiet

\* No elevation needed.
Lock ==
  \/ PassOver("lock", "finalize")
  \/ /\ "lock" \in cfg
     /\ Climb("lock", "finalize")
     /\ \/ Does("lock") /\ auditAppend(Event("done", "lock", {}))
        \/ auditAppend(Event("failed", "lock", {})) /\ UNCHANGED did
     /\ Quiet

Finalize ==
  /\ Climb("finalize", "shutdown seal")
  /\ Does("finalize")
  /\ Quiet /\ UNCHANGED forensics

\* Only the branch that will shut down flushes first.
ShutdownSeal ==
  /\ Climb("shutdown seal", "shutdown")
  /\ IF "shutdown" \in cfg /\ elevated THEN Flush ELSE UNCHANGED forensics
  /\ Quiet /\ UNCHANGED did

Shutdown ==
  \/ PassOver("shutdown", "flush")
  \/ Skip("shutdown", "flush")
  \/ /\ "shutdown" \in cfg /\ elevated
     /\ Climb("shutdown", "flush")
     /\ \/ Does("shutdown") /\ UNCHANGED forensics
        \/ auditAppend(Event("failed", "shutdown", {})) /\ UNCHANGED did
     /\ Quiet

FinalFlush ==
  /\ Climb("flush", "abort")
  /\ Flush
  /\ Quiet /\ UNCHANGED did

Abort ==
  /\ Climb("abort", "done")
  /\ Does("abort")
  /\ Quiet /\ UNCHANGED forensics

\* The deferred recover of OnTrip finalizes, flushes and aborts; a second panic, in
\* finalize itself, is nobody's.
Recover ==
  \/ /\ ladder \in PanicAt \ {"isolate"}
     /\ ladder \in cfg \cup {"banner", "finalize"}
     /\ ladder \in {"kill-procs", "shutdown"} => elevated
     /\ Climb(ladder, "recover finalize")
     /\ Quiet /\ UNCHANGED <<forensics, did>>
  \/ /\ "finalize" \in PanicAt
     /\ Climb("recover finalize", "crashed")
     /\ Quiet /\ UNCHANGED <<forensics, did>>
  \/ /\ Climb("recover finalize", "recover flush")
     /\ Does("finalize")
     /\ Quiet /\ UNCHANGED forensics
  \/ /\ Climb("recover flush", "recover abort")
     /\ Flush
     /\ Quiet /\ UNCHANGED did
  \/ /\ Climb("recover abort", "done")
     /\ Does("abort")
     /\ Quiet /\ UNCHANGED forensics

OnTrip ==
  \/ Record \/ Banner \/ Seal \/ Isolate \/ Isolated \/ TimeOut \/ KillProcs \/ Lock
  \/ Finalize \/ ShutdownSeal \/ Shutdown \/ FinalFlush \/ Abort \/ Recover

-----------------------------------------------------------------------------
(* firewallIsolate, on the COM thread.                                      *)

Working(from) ==
  /\ Alive
  /\ worker.at = from
  /\ UNCHANGED <<switch, cfg, elevated, restore, stop, exit, forensics, did>>

Fails ==
  /\ worker' = [worker EXCEPT !.at = "err"]
  /\ UNCHANGED <<ladder, fw, amiss>>

\* What a Put that reports no error may have done: the value, or nothing.
Put(p, dir, v) ==
  fw' \in {fw, [fw EXCEPT ![p] = IF dir = "in" THEN [@ EXCEPT !.in = v] ELSE [@ EXCEPT !.out = v]]}

\* The firewall calls an absent value "allow".
Explicit(v) == IF v = "unset" THEN "allow" ELSE v

Unset(a) == {side \in Sides : a[side] = "unset"}

\* actionIsUnset: where the registry cannot be read, an absent value is taken as the
\* "allow" the firewall says it is.
ReadAs(a, unread) == [in  |-> IF "in" \in unread THEN Explicit(a.in) ELSE a.in,
                      out |-> IF "out" \in unread THEN Explicit(a.out) ELSE a.out]

SaveActions ==
  /\ Working("read")
  /\ \/ \E unread \in SUBSET Unset(fw[worker.profile]) :
          /\ worker' = [worker EXCEPT !.at = "in",
                          !.saved = Append(@, ReadAs(fw[worker.profile], unread))]
          /\ amiss' = amiss \cup ({worker.profile} \X unread \X {"read"})
          /\ UNCHANGED <<ladder, fw>>
     \/ Fails

BlockInbound ==
  /\ Working("in")
  /\ \/ /\ Put(worker.profile, "in", "block")
        /\ worker' = [worker EXCEPT !.at = "out"]
        /\ UNCHANGED <<ladder, amiss>>
     \/ Fails

NextProfile(seen) ==
  worker' = [worker EXCEPT
    !.at       = IF worker.profile = Len(Prior) THEN "ok" ELSE "read",
    !.profile  = @ + 1,
    !.observed = @ \cup seen]

BlockOutboundUnread ==
  /\ Working("out")
  /\ \/ /\ Put(worker.profile, "out", "block")
        /\ NextProfile({worker.profile})
        /\ UNCHANGED <<ladder, amiss>>
     \/ Fails

\* The outbound action is read back through the object that wrote it.
BlockOutbound ==
  /\ Working("out")
  /\ \/ /\ Put(worker.profile, "out", "block")
        /\ NextProfile({p \in {worker.profile} : fw'[p].out = "block"})
        /\ UNCHANGED <<ladder, amiss>>
     \/ Fails

\* A panic on this thread is outside OnTrip's recover.
WorkerPanics ==
  /\ "isolate" \in PanicAt
  /\ worker.at \in Busy
  /\ Working(worker.at)
  /\ ladder' = "crashed"
  /\ UNCHANGED <<worker, fw, amiss>>

firewallIsolate == SaveActions \/ BlockInbound \/ BlockOutbound \/ WorkerPanics

-----------------------------------------------------------------------------
(* The agent's stop, and the exit of the process.                           *)

Stopping(from, to) ==
  /\ Alive
  /\ stop = from
  /\ stop' = to
  /\ UNCHANGED <<switch, cfg, elevated, ladder, worker, restore, exit, fw, amiss>>

StopGracefully ==
  \/ /\ AgentStops
     /\ Stopping("off", "record")
     /\ auditAppend(Event("stopped", "session", {})) /\ UNCHANGED did
  \/ Stopping("record", "finalize") /\ Flush /\ UNCHANGED did
  \/ Stopping("finalize", "flush") /\ Does("finalize") /\ UNCHANGED forensics
  \/ Stopping("flush", "abort") /\ Flush /\ UNCHANGED did
  \/ Stopping("abort", "done") /\ Does("abort") /\ UNCHANGED forensics

Leaving == UNCHANGED <<switch, cfg, elevated, ladder, worker, stop, forensics, did>>

\* The aborted context makes the server return, which calls Restore.
Exit ==
  /\ Alive
  /\ exit.at = "no" /\ "abort" \in did
  /\ exit' = [exit EXCEPT !.at = "take"]
  /\ Leaving /\ UNCHANGED <<restore, fw, amiss>>

\* Restore takes the closure under the mutex; without one there is nothing to undo.
RestoreTakes ==
  /\ Alive
  /\ exit.at = "take"
  /\ restore' = [set |-> FALSE, saved |-> <<>>]
  /\ exit' = IF restore.set
             THEN [exit EXCEPT !.at = "restoring", !.profile = 1, !.saved = restore.saved]
             ELSE [exit EXCEPT !.at = "exited"]
  /\ Leaving /\ UNCHANGED <<fw, amiss>>

\* One side of a profile, put back as it was saved and, where there was no value, deleted
\* again; a Put that did not take leaves what there is now.
ReinstatedPuts(saved, now, took) == IF took THEN Explicit(saved) ELSE now

Reinstated(saved, now, took) == IF took THEN saved ELSE now

\* What a Put or a delete that fails may leave.
Half(saved, now) == {now, Explicit(saved), saved}

NextRestored(err) ==
  exit' = [exit EXCEPT !.at = IF exit.profile = Len(Prior) THEN "exited" ELSE "restoring",
                       !.profile = @ + 1, !.err = @ \/ err]

\* Every profile is tried, whatever failed before it; the first error is returned.
\* A Put may change nothing although it reports no error, and nothing reads it back; the
\* delete after it does what it says.
RestoreProfile ==
  /\ Alive
  /\ exit.at = "restoring"
  /\ LET p == exit.profile
         a == exit.saved[p]
     IN \/ \E lost \in SUBSET (Sides \ Unset(a)) :
             /\ fw' = [fw EXCEPT ![p] = [in  |-> Reinstated(a.in, @.in, "in" \notin lost),
                                        out |-> Reinstated(a.out, @.out, "out" \notin lost)]]
             /\ amiss' = amiss \cup ({p} \X lost \X {"put"})
             /\ NextRestored(FALSE)
        \/ /\ \E in \in Half(a.in, fw[p].in), out \in Half(a.out, fw[p].out) :
                fw' = [fw EXCEPT ![p] = [in |-> in, out |-> out]]
           /\ NextRestored(TRUE)
           /\ UNCHANGED amiss
  /\ Leaving /\ UNCHANGED restore

\* The COM thread Restore runs on hangs: it returns the timeout and the process exits.
RestoreTimesOut ==
  /\ Alive
  /\ exit.at = "restoring"
  /\ exit' = [exit EXCEPT !.at = "exited", !.err = TRUE]
  /\ Leaving /\ UNCHANGED <<restore, fw, amiss>>

Restore == Exit \/ RestoreTakes \/ RestoreProfile \/ RestoreTimesOut

-----------------------------------------------------------------------------
Next ==
  \/ \E c \in Callers : Trip(c)
  \/ OnTrip \/ firewallIsolate \/ StopGracefully \/ Restore

Spec == Init /\ [][Next]_vars

\* The ladder's goroutine is scheduled and its timeout fires; nothing is assumed of
\* the COM thread, which may hang, nor of the callers.
LiveSpec == Spec /\ WF_vars(OnTrip)

-----------------------------------------------------------------------------
(* Properties.                                                              *)

Logged(ev, action) == \E k \in DOMAIN log : log[k].event = ev /\ log[k].action = action

\* The entries of the ladder not yet durable.
Loose == {k \in (durable + 1) .. Len(log) : log[k].event # "stopped"}

\* "a ladder that ran twice would ... report two incidents for one event"
\* (killswitch_test.go:8-10): however many triggers call Trip, one incident is logged.
OneIncident ==
  \A j, k \in DOMAIN log : log[j].event = "tripped" /\ log[k].event = "tripped" => j = k

\* "seal the audit chain ... before anything destructive" (killaction.go:105-107, 136):
\* nothing is blocked, killed, locked or shut down before the incident is durable, even
\* by a COM thread the ladder has abandoned.
IncidentDurableFirst ==
  (fw # Prior \/ did \cap {"kill-procs", "lock", "shutdown"} # {}) =>
    \E k \in 1 .. durable : log[k].event = "tripped"

\* "finalize the recording BEFORE any shutdown, or the forensic trail is lost"
\* (killaction.go:105-107): in the step that calls shutdown the recording is finalized and every
\* entry of the ladder is durable.
ForensicsBeforeShutdown ==
  "shutdown" \in did' \ did => "finalize" \in did /\ Loose = {}

\* "every trip ALWAYS: records + seals the audit chain, raises the ... banner, finalizes
\* the recording, and aborts" (killaction.go:63-66): a ladder that ended by itself did,
\* and raised the banner before its first rung.
EndedLadderIsComplete ==
  ladder = "done" => /\ Loose = {} /\ Logged("tripped", "session")
                     /\ {"finalize", "abort"} \subseteq did
                     /\ "banner" \in did \/ \A k \in DOMAIN log : log[k].action = "session"

\* "isolate ran and isolate took effect are separate claims in the chain"
\* (killaction.go:158-161): a profile the log calls blocked is blocked until Restore.
ObservedIsTrue ==
  exit.at \in {"no", "take"} =>
    \A k \in DOMAIN log :
      log[k].event = "done" => \A p \in log[k].observed : fw[p].out = "block"

\* "a machine that inherited its firewall defaults still does" (firewall_windows.go:171-173)
\* and no value is deleted "that was really set" (firewall_windows.go:62-64): an isolation
\* logged as done, then undone without an error, leaves every default action as it was, the
\* unset ones unset.  Two calls may go amiss unseen: where a Put of Restore changed nothing
\* the action stays what it was, and where the registry could not be read an unset one is
\* left as "allow".  Whatever fails, a configured action never ends up unset.
RestoreIsExact ==
  \A p \in Profiles : \A side \in Sides :
    /\ exit.at = "exited" /\ exit.saved # <<>> /\ ~exit.err =>
         \/ fw[p][side] = Prior[p][side]
         \/ <<p, side, "put">> \in amiss
         \/ /\ <<p, side, "read">> \in amiss
            /\ Prior[p][side] = "unset" /\ fw[p][side] = "allow"
    /\ Prior[p][side] # "unset" => fw[p][side] # "unset"

\* "a hung call cannot block forever" (firewall_windows.go:226-243): a trip aborts the
\* session even when the COM thread never returns, unless a panic that nothing recovers
\* ends the process before.
TripAborts == tripped ~> ("abort" \in did \/ ladder = "crashed")

\* The order the ladder exists for: the incident is durable before anything destructive, and
\* all evidence is before the shutdown (killaction.go:105-107).
EvidenceFirst == [][IncidentDurableFirst' /\ ForensicsBeforeShutdown]_vars

\* The log tells what happened: one incident, all that always happens, and only profiles that
\* are blocked as blocked (killaction.go:108-216).
LadderIsTrue == TypeOK /\ OneIncident /\ EndedLadderIsComplete /\ ObservedIsTrue
=============================================================================
