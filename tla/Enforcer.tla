----------------------------- MODULE Enforcer -----------------------------
(***************************************************************************)
(* OS enforcement of the egress policy (guardrails/egress, Windows): the   *)
(* firewall rules, the default outbound action per profile, the user's     *)
(* WinINET settings, and the state file that a later start undoes a dead   *)
(* session from.                                                           *)
(*                                                                         *)
(* Every call that changes the machine is a step of its own, any of them   *)
(* may fail, and the process may die between two of them.  The firewall is *)
(* called on a COM thread that WithCOMThread gives up on when its time is  *)
(* over and leaves behind: it may still make its calls, until the process  *)
(* is gone.  A process starts, calls Recover, then Apply, and ends with    *)
(* the restore function that Apply returned.  A rule is its name; two      *)
(* rules of one name, which removing the names first prevents, are not     *)
(* told apart.                                                             *)
(***************************************************************************)
EXTENDS Naturals, Sequences, SequencesExt

CONSTANTS
  BlockNames,   \* the names of the block rules of the policy's applications
  ProxyRule,    \* the rule that lets the proxy's own process out
  Exceptions,   \* the rules that keep a blocked machine usable
  Foreign,      \* rules outside this package's namespace
  UserDefaults, \* the default outbound actions the user may have set, per profile
  MaxSessions, MaxCrashes, MaxFails

blockedProfiles == <<"domain", "private", "public">>
Outbound        == [Range(blockedProfiles) -> {"allow", "block"}]

ASSUME EnforcerConstants ==
  /\ UserDefaults \subseteq Outbound
  /\ BlockNames \in Seq(Range(BlockNames)) /\ Exceptions \in Seq(Range(Exceptions))
  /\ BlockNames # <<>> /\ IsFiniteSet(Foreign)
  /\ Range(BlockNames) \cap (Range(Exceptions) \cup {ProxyRule}) = {}
  /\ Foreign \cap (Range(BlockNames) \cup Range(Exceptions) \cup {ProxyRule}) = {}
  /\ {MaxSessions, MaxCrashes, MaxFails} \subseteq Nat

WinINET         == <<"ProxyEnable", "ProxyServer", "ProxyOverride">>
AllowNames      == <<ProxyRule>> \o Exceptions
Own             == Range(BlockNames) \cup Range(AllowNames)

EnforceSpec == [apps : BOOLEAN, global : BOOLEAN, proxy : BOOLEAN]
Settings    == [Range(WinINET) -> {"user", "ours"}]

VARIABLES
  outbound, rules, disabled, wininet,   \* the machine
  file,          \* the state file: none, corrupt, or what a session recorded
  pc, elevated,  \* where the process is, and what it may do
  mem,           \* the enforcementState it holds
  jobs, left,    \* the calls it still has to make, and the items left of the first
  fatal, bad, then,  \* of an undo: the jobs whose error ends it, did this one fail, what follows
  adrift,        \* the COM threads given up on, with the calls they have not made
  original,      \* the machine before the first session
  found,         \* the machine as this session's Apply found it
  ended,         \* how the last session ended
  sessions, crashes, fails,
  mishaps        \* the ways in which the record of a change has been lost

machine == <<outbound, rules, disabled, wininet>>
work    == <<jobs, left, fatal, bad, then>>
history == <<original, found, sessions>>
vars    == <<machine, file, pc, elevated, mem, work, history, ended, crashes, fails, mishaps, adrift>>

Machine == [outbound |-> outbound, rules |-> rules, wininet |-> wininet]
Blank   == [kind |-> "none", rules |-> <<>>, global |-> FALSE, saved |-> original.outbound,
            hasProxy |-> FALSE, proxy |-> original.wininet]

enforcementState == [kind : {"none", "corrupt", "state"}, rules : Seq(Own \cup Foreign),
                     global : BOOLEAN, saved : Outbound, hasProxy : BOOLEAN, proxy : Settings]
Job      == {"record", "purge", "add", "flip", "point", "defaults", "wininet", "rules", "clear"}
Mishap   == {"torn", "overwrote", "halfFlip", "unrecorded", "timedOut"}
Call     ==
  [act : {"remove", "add", "disable"}, item : Own \cup Foreign, to : {"allow", "block"}] \cup
  [act : {"block", "restore"}, item : Range(blockedProfiles), to : {"allow", "block"}]
Thread   == [calls : Seq(Call) \ {<<>>}, names : Seq(Own \cup Foreign)]

ProcessOK ==
  /\ outbound \in Outbound /\ wininet \in Settings
  /\ rules \subseteq Own \cup Foreign /\ disabled \subseteq Range(AllowNames)
  /\ file \in enforcementState /\ mem \in enforcementState
  /\ pc \in {"down", "recover", "ready", "apply", "running", "suspended", "undo"}
  /\ elevated \in BOOLEAN /\ bad \in BOOLEAN
  /\ jobs \in Seq(Job) /\ fatal \subseteq Job /\ then \in {"ready", "down"}
  /\ (pc \in {"apply", "undo"}) = (jobs # <<>>)
  /\ ended \in {"never", "crashed", "refused", "restored", "failed"}
  /\ sessions \in 0..MaxSessions /\ crashes \in 0..MaxCrashes /\ fails \in 0..MaxFails
  /\ mishaps \subseteq Mishap

TypeOK == ProcessOK /\ adrift \subseteq Thread

Init ==
  /\ outbound \in UserDefaults
  /\ wininet = [v \in Range(WinINET) |-> "user"]
  /\ rules = Foreign /\ disabled = {}
  /\ original = Machine /\ found = Machine
  /\ \E names \in {<<>>, SetToSeq(Foreign)} :
       file = [Blank EXCEPT !.kind = IF names = <<>> THEN "none" ELSE "state", !.rules = names]
  /\ mem = Blank
  /\ pc = "down" /\ elevated = FALSE /\ ended = "never"
  /\ jobs = <<>> /\ left = <<>> /\ fatal = {} /\ bad = FALSE /\ then = "down"
  /\ sessions = 0 /\ crashes = 0 /\ fails = 0 /\ mishaps = {} /\ adrift = {}

specNeedsElevation(s) == s.apps \/ s.global
specNeedsAction(s)    == specNeedsElevation(s) \/ s.proxy

ruleNames(s)         == IF s.apps THEN BlockNames ELSE <<>>
plannedAllowNames(s) == IF s.global THEN AllowNames ELSE <<>>

\* Is there firewall work to undo; the proxy-only tier has none.
Firewalled == mem.rules # <<>>

isOwnRuleName(r) == r \in Own
isAllowRuleName(r) == r \in Range(AllowNames)

\* The global allow rules, recorded after the block rules, go in before them.
addOrder(m) ==
  LET allow == IF m.global THEN AllowNames ELSE <<>>
  IN  allow \o SubSeq(m.rules, 1, Len(m.rules) - Len(allow))

\* What the calls of one job go through, in the code's order.
Items(j, m) ==
  CASE j = "record"   -> <<"truncate", "write">>
    [] j = "purge"    -> m.rules
    [] j = "add"      -> addOrder(m)
    [] j = "flip"     -> blockedProfiles
    [] j = "point"    -> WinINET
    [] j = "defaults" -> IF m.global THEN blockedProfiles ELSE <<>>
    [] j = "wininet"  -> IF m.hasProxy THEN WinINET ELSE <<>>
    [] j = "rules"    -> m.rules
    [] j = "clear"    -> <<"file">>

\* A process that has nothing more to do is at p.
Rest(p) ==
  /\ pc' = p /\ jobs' = <<>> /\ left' = <<>> /\ fatal' = {} /\ bad' = FALSE /\ then' = "down"

Begin(p, js, m, errs, t) ==
  /\ pc' = p /\ jobs' = js /\ left' = Items(js[1], m) /\ fatal' = errs /\ bad' = FALSE
  /\ then' = t /\ mem' = m

-----------------------------------------------------------------------------
(* A start, and Recover.                                                    *)

Start(e) ==
  /\ pc = "down" /\ sessions < MaxSessions
  /\ sessions' = sessions + 1 /\ elevated' = e /\ mem' = Blank /\ ended' = "never"
  /\ Rest("recover")
  /\ UNCHANGED <<machine, file, original, found, crashes, fails, mishaps>>

\* There is nothing to undo, it cannot be read, or this process may not undo it.
RecoverNothing ==
  /\ pc = "recover"
  /\ file.kind # "state" \/ (file.rules # <<>> /\ ~elevated)
  /\ Rest("ready")
  /\ UNCHANGED <<machine, file, elevated, mem, history, ended, crashes, fails, mishaps>>

RecoverProxyOnly ==
  /\ pc = "recover" /\ file.kind = "state" /\ file.rules = <<>>
  /\ Begin("undo", <<"wininet", "clear">>, file, {"wininet"}, "ready")
  /\ UNCHANGED <<machine, file, elevated, history, ended, crashes, fails, mishaps>>

RecoverRulesOnly ==
  /\ pc = "recover" /\ file.kind = "state" /\ file.rules # <<>> /\ elevated
  /\ Begin("undo", <<"defaults", "rules", "clear">>, file, {"defaults", "rules"}, "ready")
  /\ UNCHANGED <<machine, file, elevated, history, ended, crashes, fails, mishaps>>

Recover ==
  /\ pc = "recover" /\ file.kind = "state" /\ file.rules # <<>> /\ elevated
  /\ Begin("undo", <<"defaults", "wininet", "rules", "clear">>, file, {"defaults", "rules"}, "ready")
  /\ UNCHANGED <<machine, file, elevated, history, ended, crashes, fails, mishaps>>

-----------------------------------------------------------------------------
(* Apply.                                                                   *)

ApplyNothing(s) ==
  /\ pc = "ready" /\ ~specNeedsAction(s)
  /\ found' = Machine /\ mem' = Blank
  /\ Rest("running")
  /\ UNCHANGED <<machine, file, elevated, original, sessions, ended, crashes, fails, mishaps>>

\* ErrNotElevated; a read of the default actions that fails or is given up on is the same to
\* the caller, and its thread changes nothing.
ApplyRefused(s) ==
  /\ pc = "ready" /\ specNeedsElevation(s)
  /\ \/ ~elevated /\ UNCHANGED fails
     \/ elevated /\ s.global /\ fails < MaxFails /\ fails' = fails + 1
  /\ found' = Machine /\ ended' = "refused"
  /\ Rest("down")
  /\ UNCHANGED <<machine, file, elevated, mem, original, sessions, crashes, mishaps>>

ApplyRecordsLast(s) ==
  <<"purge", "add">> \o (IF s.global THEN <<"flip">> ELSE <<>>)
    \o (IF s.proxy THEN <<"point">> ELSE <<>>) \o <<"record">>

\* The record comes first and the flip after every rule; what setSystemProxy replaced is known
\* only then, and recorded by a second write.
ApplyOrder(s) ==
  <<"record", "purge", "add">> \o (IF s.global THEN <<"flip">> ELSE <<>>)
    \o (IF s.proxy THEN <<"point", "record">> ELSE <<>>)

Apply(s) ==
  /\ pc = "ready" /\ specNeedsElevation(s) /\ elevated
  /\ found' = Machine
  /\ Begin("apply", ApplyOrder(s),
           [Blank EXCEPT !.kind = "state", !.global = s.global, !.saved = outbound,
              !.rules = ruleNames(s) \o plannedAllowNames(s)],
           {}, "down")
  /\ UNCHANGED <<machine, file, elevated, original, sessions, ended, crashes, fails, mishaps>>

\* setSystemProxy, and only then the state file.
applySystemProxyOnly(s) ==
  /\ pc = "ready" /\ specNeedsAction(s) /\ ~specNeedsElevation(s)
  /\ found' = Machine
  /\ Begin("apply", <<"point", "record">>,
           [Blank EXCEPT !.kind = "state", !.hasProxy = TRUE, !.proxy = wininet], {}, "down")
  /\ UNCHANGED <<machine, file, elevated, original, sessions, ended, crashes, fails, mishaps>>

-----------------------------------------------------------------------------
(* The calls of a job.                                                      *)

Working(j) == pc \in {"apply", "undo"} /\ Head(jobs) = j /\ left # <<>>
Advance    == left' = Tail(left) /\ UNCHANGED <<pc, jobs, fatal, bad, then>>

\* The second record of a session, which adds the settings to restore to the first.
Rerecord == Firewalled /\ mem.hasProxy

\* What stopping here does to that record: the file is empty and not yet filled again.
Torn == IF Working("record") /\ left = <<"write">> /\ Rerecord THEN {"torn"} ELSE {}

\* os.WriteFile empties the file and then fills it.
writeState ==
  /\ Working("record")
  /\ \/ /\ Head(left) = "truncate"
        /\ file' = [Blank EXCEPT !.kind = "corrupt"]
        /\ mishaps' = mishaps \cup (IF file.kind = "state" /\ ~Rerecord THEN {"overwrote"} ELSE {})
     \/ Head(left) = "write" /\ file' = mem /\ UNCHANGED mishaps
  /\ Advance
  /\ UNCHANGED <<machine, elevated, mem, history, ended, crashes, fails>>

clearState ==
  /\ Working("clear")
  /\ file' = Blank
  /\ Advance
  /\ UNCHANGED <<machine, elevated, mem, history, ended, crashes, fails, mishaps>>

\* Recover leaves alone a rule outside the namespace, whoever wrote its name into the file.
Skipped == then = "ready" /\ ~isOwnRuleName(Head(left))

removeRule ==
  /\ Working("purge") \/ Working("rules")
  /\ \/ Skipped /\ UNCHANGED <<rules, disabled, fails>>
     \/ /\ ~Skipped
        /\ \/ rules' = rules \ {Head(left)} /\ disabled' = disabled \ {Head(left)} /\ UNCHANGED fails
           \/ fails < MaxFails /\ fails' = fails + 1 /\ UNCHANGED <<rules, disabled>>
  /\ Advance
  /\ UNCHANGED <<outbound, wininet, file, elevated, mem, history, ended, crashes, mishaps>>

AddRule(names) ==
  /\ Working("add") /\ Head(left) \in names
  /\ rules' = rules \cup {Head(left)} /\ disabled' = disabled \ {Head(left)}
  /\ Advance
  /\ UNCHANGED <<outbound, wininet, file, elevated, mem, history, ended, crashes, fails, mishaps>>

addProxyAllowRule == AddRule({ProxyRule})
addExceptionRule  == AddRule(Range(Exceptions))
addBlockRule      == AddRule(Range(BlockNames))

setDefaultOutbound ==
  /\ Working("flip")
  /\ outbound' = [outbound EXCEPT ![Head(left)] = "block"]
  /\ Advance
  /\ UNCHANGED <<rules, disabled, wininet, file, elevated, mem, history, ended, crashes, fails,
                 mishaps>>

restoreDefaultOutbound ==
  /\ Working("defaults")
  /\ outbound' = [outbound EXCEPT ![Head(left)] = mem.saved[Head(left)]]
  /\ Advance
  /\ UNCHANGED <<rules, disabled, wininet, file, elevated, mem, history, ended, crashes, fails,
                 mishaps>>

setSystemProxy ==
  /\ Working("point")
  /\ wininet' = [wininet EXCEPT ![Head(left)] = "ours"]
  /\ Advance
  /\ UNCHANGED <<outbound, rules, disabled, file, elevated, mem, history, ended, crashes, fails,
                 mishaps>>

restoreSystemProxy ==
  /\ Working("wininet")
  /\ wininet' = [wininet EXCEPT ![Head(left)] = mem.proxy[Head(left)]]
  /\ Advance
  /\ UNCHANGED <<outbound, rules, disabled, file, elevated, mem, history, ended, crashes, fails,
                 mishaps>>

Steps ==
  \/ writeState \/ clearState \/ removeRule \/ addProxyAllowRule \/ addExceptionRule
  \/ addBlockRule \/ setDefaultOutbound \/ restoreDefaultOutbound \/ setSystemProxy \/ restoreSystemProxy

UnwindRulesOnly(j) ==
  IF j = "record" /\ ~mem.hasProxy THEN <<>>
  ELSE IF Firewalled THEN <<"rules", "clear">> ELSE <<"wininet">>

\* What Apply undoes when a call of job j fails, each error of it ignored.
Unwind(j) ==
  LET values == IF left = WinINET /\ j = "point" THEN <<>> ELSE <<"wininet">>
  IN  CASE j = "purge"           -> <<"clear">>
        [] j \in {"add", "flip"} -> <<"rules", "clear">>
        [] j = "record" /\ ~mem.hasProxy -> <<>>
        [] OTHER -> IF Firewalled THEN values \o <<"defaults", "rules", "clear">> ELSE values

\* A call of Apply fails, except for the removal of a rule, whose error is dropped.
ApplyFails ==
  /\ pc = "apply" /\ left # <<>> /\ fails < MaxFails
  /\ Head(jobs) = "purge" => left = mem.rules
  /\ fails' = fails + 1
  /\ IF Unwind(Head(jobs)) = <<>>
       THEN Rest("down") /\ ended' = "refused" /\ UNCHANGED mem
       ELSE Begin("undo", Unwind(Head(jobs)), mem, {}, "down") /\ UNCHANGED ended
  /\ mishaps' = mishaps \cup Torn
       \cup (IF Head(jobs) = "flip" /\ outbound # found.outbound THEN {"halfFlip"} ELSE {})
  /\ UNCHANGED <<machine, file, elevated, history, crashes>>

\* Opening the firewall or the key fails the whole job; a value or profile that cannot be
\* put back is noted, and the rest are tried.
UndoFails ==
  /\ pc = "undo" /\ left # <<>> /\ fails < MaxFails
  /\ fails' = fails + 1 /\ bad' = TRUE
  /\ \/ Head(jobs) # "clear" /\ left = Items(Head(jobs), mem) /\ left' = <<>>
     \/ Head(jobs) # "rules" /\ left' = Tail(left)
  /\ UNCHANGED <<machine, file, pc, elevated, mem, jobs, fatal, then, history, ended, crashes, mishaps>>

\* Apply goes on to its next job; setSystemProxy begins by reading what it replaces.
ApplyNext ==
  /\ pc = "apply" /\ left = <<>>
  /\ IF Len(jobs) = 1
       THEN Rest("running") /\ UNCHANGED mem
       ELSE Begin("apply", Tail(jobs),
                  IF jobs[2] = "point" THEN [mem EXCEPT !.hasProxy = TRUE, !.proxy = wininet]
                  ELSE mem, {}, "down")
  /\ UNCHANGED <<machine, file, elevated, history, ended, crashes, fails, mishaps>>

UndoNext ==
  /\ pc = "undo" /\ left = <<>>
  /\ IF Len(jobs) = 1 \/ (bad /\ Head(jobs) \in fatal)
       THEN /\ Rest(then) /\ UNCHANGED mem
            /\ ended' = CASE then = "ready" -> ended
                          [] then = "down" /\ fatal = {} -> "refused"
                          [] OTHER -> IF bad THEN "failed" ELSE "restored"
       ELSE Begin("undo", Tail(jobs), mem, fatal, then) /\ UNCHANGED ended
  /\ UNCHANGED <<machine, file, elevated, history, crashes, fails, mishaps>>

-----------------------------------------------------------------------------
(* A COM thread that does not return in time.                               *)

COMJobs == {"purge", "add", "flip", "defaults", "rules"}

Act(j) ==
  CASE j \in {"purge", "rules"} -> "remove" [] j = "add" -> "add" [] j = "flip" -> "block"
    [] j = "defaults" -> "restore" [] j = "suspend" -> "disable"

Calls(j, items, m) ==
  [i \in DOMAIN items |->
     [act |-> Act(j), item |-> items[i], to |-> IF j = "defaults" THEN m.saved[items[i]] ELSE "block"]]

\* What the thread of the present job has yet to do; one thread removes the names and adds rules.
Unmade ==
  Calls(Head(jobs), left, mem)
    \o (IF Head(jobs) = "purge" THEN Calls("add", addOrder(mem), mem) ELSE <<>>)

\* A thread as it goes on, while it has calls to make.
GoesOn(calls, names) == IF calls = <<>> THEN {} ELSE {[calls |-> calls, names |-> names]}

\* ErrCOMThreadTimeout is an error like any other to the process, and it undoes less: Apply
\* only clears the record when the rules did not go in, since the thread would have undone them.
TimeOut ==
  /\ pc \in {"apply", "undo"} /\ Head(jobs) \in COMJobs /\ Items(Head(jobs), mem) # <<>>
  /\ bad => left # <<>>
  /\ fails < MaxFails /\ fails' = fails + 1 /\ mishaps' = mishaps \cup {"timedOut"}
  /\ adrift' = adrift \cup GoesOn(Unmade, mem.rules)
  /\ IF pc = "apply"
       THEN Begin("undo", IF Head(jobs) = "flip" THEN <<"rules", "clear">> ELSE <<"clear">>,
                  mem, {}, "down")
       ELSE bad' = TRUE /\ left' = <<>> /\ UNCHANGED <<pc, jobs, fatal, then, mem>>
  /\ UNCHANGED <<machine, file, elevated, history, ended, crashes>>

SuspendTimesOut ==
  /\ pc = "running" /\ elevated /\ file.kind = "state"
  /\ pc' = "suspended"
  /\ fails < MaxFails /\ fails' = fails + 1 /\ mishaps' = mishaps \cup {"timedOut"}
  /\ adrift' = adrift \cup GoesOn(Calls("suspend", file.rules, file), <<>>)
  /\ UNCHANGED <<machine, file, elevated, mem, work, history, ended, crashes>>

\* The thread makes its next call after all.
CallsLate(t) ==
  LET c == Head(t.calls)
  IN  /\ adrift' = (adrift \ {t}) \cup GoesOn(Tail(t.calls), t.names)
      /\ rules' = CASE c.act = "remove" /\ isOwnRuleName(c.item) -> rules \ {c.item}
                    [] c.act = "add" -> rules \cup {c.item}
                    [] OTHER -> rules
      /\ disabled' = CASE c.act \in {"remove", "add"} -> disabled \ {c.item}
                       [] c.act = "disable" /\ isAllowRuleName(c.item) -> disabled \cup ({c.item} \cap rules)
                       [] OTHER -> disabled
      /\ outbound' = IF c.act \in {"block", "restore"} THEN [outbound EXCEPT ![c.item] = c.to]
                     ELSE outbound
      /\ UNCHANGED <<wininet, file, pc, elevated, mem, work, history, ended, crashes, fails, mishaps>>

\* That call fails: a rule that cannot be added undoes them all, a flip ends there, and any
\* other error is dropped.
FailsLate(t) ==
  /\ adrift' = (adrift \ {t}) \cup
       (CASE Head(t.calls).act = "add"   -> GoesOn(Calls("rules", t.names, mem), <<>>)
          [] Head(t.calls).act = "block" -> {}
          [] OTHER                       -> GoesOn(Tail(t.calls), t.names))
  /\ UNCHANGED <<machine, file, pc, elevated, mem, work, history, ended, crashes, fails, mishaps>>

-----------------------------------------------------------------------------
(* The end of a session.                                                    *)

\* The kill path: the allow rules in the state file are disabled, errors ignored.
Suspend ==
  /\ pc = "running"
  /\ pc' = "suspended"
  /\ LET allowed == IF elevated /\ file.kind = "state"
                    THEN {r \in Range(file.rules) \cap rules : isAllowRuleName(r)} ELSE {}
     IN  \/ disabled' = disabled \cup allowed /\ UNCHANGED fails
         \/ /\ fails < MaxFails /\ allowed # {}
            /\ fails' = fails + 1 /\ UNCHANGED disabled
  /\ UNCHANGED <<outbound, rules, wininet, file, elevated, mem, work, history, ended, crashes, mishaps>>

\* The function Apply returned: the defaults come back before the rules go.
restore ==
  /\ pc \in {"running", "suspended"}
  /\ IF mem.kind = "none"
       THEN Rest("down") /\ ended' = "restored" /\ UNCHANGED mem
       ELSE /\ IF Firewalled
                 THEN Begin("undo", <<"defaults", "wininet", "rules", "clear">>, mem,
                            {"defaults", "wininet", "rules"}, "down")
                 ELSE Begin("undo", <<"wininet", "clear">>, mem, {"wininet"}, "down")
            /\ UNCHANGED ended
  /\ UNCHANGED <<machine, file, elevated, history, crashes, fails, mishaps>>

\* The process dies.  The record is lost if it dies while it rewrites the file, or while
\* settings it has changed are not in the file yet.
Crash ==
  /\ pc # "down" /\ crashes < MaxCrashes
  /\ crashes' = crashes + 1 /\ ended' = "crashed" /\ mem' = Blank
  /\ Rest("down")
  /\ mishaps' = mishaps \cup Torn
       \cup (IF pc = "apply" /\ wininet # found.wininet /\ ~file.hasProxy
             THEN {"unrecorded"} ELSE {})
  /\ UNCHANGED <<machine, file, elevated, history, fails>>

\* A process begins and dies with no thread but its own.
Lifetime == (\E e \in BOOLEAN : Start(e)) \/ Crash

Work ==
  \/ RecoverNothing \/ RecoverProxyOnly \/ Recover
  \/ \E s \in EnforceSpec :
       ApplyNothing(s) \/ ApplyRefused(s) \/ Apply(s) \/ applySystemProxyOnly(s)
  \/ Steps \/ ApplyFails \/ UndoFails \/ ApplyNext \/ UndoNext
  \/ Suspend \/ restore

Next ==
  \/ Lifetime /\ adrift' = {}
  \/ Work /\ UNCHANGED adrift
  \/ TimeOut \/ SuspendTimesOut
  \/ \E t \in adrift : CallsLate(t) \/ FailsLate(t)

Spec == Init /\ [][Next]_vars

-----------------------------------------------------------------------------
(* Properties.                                                              *)

Blocked == outbound # original.outbound

\* The ways in which a block may lose its record, or its exceptions: the record was torn or
\* written over by another session, the flip stopped half-way, or a COM thread was given up on
\* and flips, or adds and removes rules, behind the back of the process.
Harm == mishaps \cap {"torn", "overwrote", "halfFlip", "timedOut"}

\* "The reverse order would leave a machine blocked with nothing recording how to unblock
\* it": whenever no process is running, a default action that differs from the user's is in
\* the state file with the user's value, whatever crashed and whichever one call failed,
\* but for the mishaps above.
BlockIsRecorded ==
  pc = "down" /\ Blocked /\ Harm = {} /\ fails <= 1
    => file.kind = "state" /\ file.global /\ file.saved = original.outbound

\* "Allow rules go in BEFORE the default flips" and come off after it is back: at no moment,
\* of a session or after its death, is a profile blocked by us without the exceptions being
\* installed; and they are enabled as long as no kill has suspended them.
ExceptionsWhileBlocked ==
  /\ Blocked /\ Harm = {} /\ fails <= 1 => Range(AllowNames) \subseteq rules
  /\ pc = "running" /\ mem.global /\ "timedOut" \notin mishaps
       => Range(AllowNames) \subseteq rules \ disabled

\* An elevated start undoes all a dead session left, when no call fails: default actions,
\* rules and WinINET settings are the user's again before Apply runs.
StartUndoesCrash ==
  pc = "ready" /\ elevated /\ fails = 0 /\ mishaps = {}
    => Machine = original /\ file.kind # "state"

\* A session that ends through restore, with no error on the way, leaves the machine as its
\* Apply found it, and an elevated one leaves no record to undo.
RestorePutsBack ==
  ended = "restored" /\ pc = "down" /\ fails = 0
    => /\ outbound = found.outbound /\ wininet = found.wininet /\ rules \subseteq found.rules
       /\ elevated => file.kind # "state"

\* "A failure leaves the machine as it was found": an Apply that fails on any one call, except
\* the flip after its first profile, has undone what it did, if no COM thread was given up on.
RefusedApplyUndone ==
  ended = "refused" /\ pc = "down" /\ fails <= 1 /\ mishaps \cap {"halfFlip", "timedOut"} = {}
    => outbound = found.outbound /\ wininet = found.wininet /\ rules \subseteq found.rules

\* Recovery removes only rules of its own namespace, whatever the state file names, and so does
\* a thread it has given up on.
ForeignRulesStay == Foreign \subseteq rules

\* A blocked machine can be recovered and has its exceptions, whenever the session dies, but
\* for the mishaps (enforcer_windows.go:109-183).
BlockIsRecoverable == BlockIsRecorded /\ ExceptionsWhileBlocked

\* A session that does not die gives the machine back as it found it, whether it restores or
\* is refused, and nobody touches rules that are not ours (enforcer_windows.go:138-215).
GivenBack == TypeOK /\ RestorePutsBack /\ RefusedApplyUndone /\ ForeignRulesStay
=============================================================================
