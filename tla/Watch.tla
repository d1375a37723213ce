------------------------------ MODULE Watch -------------------------------
(***************************************************************************)
(* Continuous verification (guardrails/watch): the monitor loop with its   *)
(* sentinel file, its verifiers and its posture re-evaluation              *)
(* (monitor.go), the heartbeat that is one of the verifiers, and the       *)
(* watchdog that watches it from a goroutine of its own (heartbeat.go).    *)
(*                                                                         *)
(* Every trip is reported; only an armed one brings the server down, which *)
(* is what Stopped then says.  Ages are kept instead of times, up to one   *)
(* past their limit, and of the beat counter only whether it has moved     *)
(* since the watchdog last saw it.  Names that Contain has too begin with  *)
(* watch, so that one module can speak of both.                            *)
(***************************************************************************)
EXTENDS Naturals, Sequences

CONSTANTS
  maxAge,      \* the gap the watchdog allows between beats
  Configs      \* the configurations of the loop, and the triggers each arms

Triggers == {"sentinel", "verify", "posture", "gap"}

ASSUME WatchConstants ==
  /\ maxAge \in Nat \ {0}
  /\ \A c \in Configs : /\ c.dir \in BOOLEAN /\ c.token \in BOOLEAN /\ c.interval \in Nat
                        /\ c.verify \in Seq(STRING) /\ c.armed \subseteq Triggers

VARIABLES
  monitorCfg, \* MonitorConfig, and the triggers that are armed
  at, verifier, sentinelSeen,   \* the loop: where it is, the verifier it is at, the latch
  age, evalAge,     \* time since the last beat, and since the last evaluation
  advanced,   \* the beat counter is past the watchdog's lastCount
  dog, reported,    \* the watchdog: where it is, and its latch
  kill, posture,    \* external: the kill file; does the posture admit
  stopped, done,    \* the server is being torn down; the context is cancelled
  found,      \* posture drift has been reported
  told, late,       \* of this stall: the reports, and was a look that led to one
                    \* overtaken by a beat
  fired, asked, ignored   \* of the kill file: how often it fired, was there ever one with
                          \* the token, was one without it seen

file == <<fired, asked, ignored>>
loop == <<at, verifier, sentinelSeen, evalAge>>
beat == <<age, advanced, told, late>>
watchVars == <<monitorCfg, at, verifier, sentinelSeen, age, evalAge, advanced, dog, reported,
               kill, posture, stopped, done, found, told, late, fired, asked, ignored>>

MonitorAt == {"off", "wait", "sentinel", "verify", "appending", "posture", "hung", "gone"}

WatchTypeOK ==
  /\ monitorCfg \in Configs
  /\ at \in MonitorAt /\ sentinelSeen \in BOOLEAN
  /\ verifier \in 0 .. Len(monitorCfg.verify) /\ (at \in {"verify", "appending"} => verifier > 0)
  /\ age \in 0 .. maxAge + 1 /\ evalAge \in 0 .. monitorCfg.interval
  /\ advanced \in BOOLEAN /\ dog \in {"wait", "gap", "gone"} /\ reported \in BOOLEAN
  /\ kill \in {"absent", "other", "token"} /\ posture \in BOOLEAN
  /\ stopped \in BOOLEAN /\ done \in BOOLEAN
  /\ found \in BOOLEAN /\ told \in 0 .. 3 /\ late \in BOOLEAN
  /\ fired \in 0 .. 2 /\ asked \in BOOLEAN /\ ignored \in BOOLEAN

\* The zero lastEval is any time ago, so the first tick evaluates.
WatchInit ==
  /\ monitorCfg \in Configs
  /\ at = IF monitorCfg.interval = 0 /\ ~monitorCfg.dir /\ monitorCfg.verify = <<>>
          THEN "off" ELSE "wait"
  /\ verifier = 0 /\ sentinelSeen = FALSE
  /\ age = 0 /\ evalAge = monitorCfg.interval
  /\ advanced = FALSE /\ dog = "wait" /\ reported = FALSE
  /\ kill = "absent" /\ posture = TRUE /\ stopped = FALSE /\ done = FALSE
  /\ found = FALSE /\ told = 0 /\ late = FALSE
  /\ fired = 0 /\ asked = FALSE /\ ignored = FALSE

Smaller(a, b) == IF a < b THEN a ELSE b

\* external: time passes, the file is written or removed, the posture changes, the session ends.
Elapse ==
  /\ age' = Smaller(age + 1, maxAge + 1) /\ evalAge' = Smaller(evalAge + 1, monitorCfg.interval)
  /\ UNCHANGED <<monitorCfg, at, verifier, sentinelSeen, advanced, dog, reported, kill, posture,
                 stopped, done, found, told, late, file>>

WorldChanges ==
  /\ \/ kill' \in {"absent", "other", "token"} \ {kill} /\ UNCHANGED <<posture, done>>
     \/ posture' = ~posture /\ UNCHANGED <<kill, done>>
     \/ ~done /\ done' = TRUE /\ UNCHANGED <<kill, posture>>
  /\ asked' = (asked \/ kill' = "token")
  /\ UNCHANGED <<monitorCfg, loop, beat, dog, reported, stopped, found, fired, ignored>>

\* A trigger fires: it is reported, and obeyed when the operator has armed it.
fire(t) == stopped' = (stopped \/ t \in monitorCfg.armed)

-----------------------------------------------------------------------------
(* The monitor loop.                                                        *)

GoOnNever(next) == at' = "gone"

\* After a trigger has fired the loop goes on, unless the server is going down.
GoOn(next) == at' = IF stopped' THEN "gone" ELSE next

Wait(next) ==
  /\ at = "wait"
  /\ at' = next
  /\ UNCHANGED <<monitorCfg, verifier, sentinelSeen, evalAge, beat, dog, reported, kill, posture,
                 stopped, done, found, file>>

\* Both may be ready, and select takes either.
Tick      == Wait("sentinel")
Cancelled == done /\ Wait("gone")

\* The file, and does it carry the token; without a token its presence is enough.
readSentinel == [present |-> kill # "absent", authentic |-> ~monitorCfg.token \/ kill = "token"]

FirstVerifier == IF monitorCfg.verify = <<>> THEN "posture" ELSE "verify"
StartVerifying == verifier' = Smaller(1, Len(monitorCfg.verify))

\* The latch is set by any file; one without the token also ends the tick.
Sentinel ==
  /\ at = "sentinel"
  /\ IF monitorCfg.dir /\ ~sentinelSeen /\ readSentinel.present
     THEN /\ sentinelSeen' = TRUE
          /\ IF readSentinel.authentic
             THEN /\ fire("sentinel") /\ fired' = Smaller(fired + 1, 2)
                  /\ GoOn(FirstVerifier) /\ StartVerifying /\ UNCHANGED ignored
             ELSE at' = "wait" /\ ignored' = TRUE /\ UNCHANGED <<stopped, verifier, fired>>
     ELSE /\ at' = FirstVerifier /\ StartVerifying
          /\ UNCHANGED <<sentinelSeen, stopped, fired, ignored>>
  /\ UNCHANGED <<monitorCfg, found, evalAge, beat, dog, reported, kill, posture, done, asked>>

\* The verifier has returned: the next one, or the posture.
NextVerifier == IF verifier = Len(monitorCfg.verify) THEN "posture" ELSE "verify"
Verified ==
  /\ verifier' = Smaller(verifier + 1, Len(monitorCfg.verify))
  /\ \/ at' = NextVerifier /\ UNCHANGED stopped
     \/ fire("verify") /\ GoOn(NextVerifier)

\* Beat: the counter and the time move under the mutex, then the beat is chained.
Beat ==
  /\ at = "verify" /\ monitorCfg.verify[verifier] = "beat"
  /\ age' = 0 /\ advanced' = TRUE /\ told' = 0 /\ late' = FALSE
  /\ at' = "appending"
  /\ UNCHANGED <<monitorCfg, verifier, sentinelSeen, evalAge, dog, reported, kill, posture,
                 stopped, done, found, file>>

\* A verifier returns, with or without an error.
Verify ==
  /\ \/ at = "appending"
     \/ at = "verify" /\ monitorCfg.verify[verifier] # "beat"
  /\ Verified
  /\ UNCHANGED <<monitorCfg, found, sentinelSeen, evalAge, beat, dog, reported, kill, posture,
                 done, file>>

\* A verifier, or the chain a beat is appended to, never returns.
Hang ==
  /\ at \in {"appending", "verify"}
  /\ at' = "hung"
  /\ UNCHANGED <<monitorCfg, verifier, sentinelSeen, evalAge, beat, dog, reported, kill, posture,
                 stopped, done, found, file>>

\* The posture is evaluated once the interval has passed.
Posture ==
  /\ at = "posture"
  /\ IF monitorCfg.interval > 0 /\ evalAge >= monitorCfg.interval
     THEN /\ evalAge' = 0
          /\ IF posture THEN at' = "wait" /\ UNCHANGED <<found, stopped>>
                        ELSE found' = TRUE /\ fire("posture") /\ GoOn("wait")
     ELSE at' = "wait" /\ UNCHANGED <<evalAge, found, stopped>>
  /\ verifier' = 0
  /\ UNCHANGED <<monitorCfg, sentinelSeen, beat, dog, reported, kill, posture, done, file>>

Monitor == Tick \/ Cancelled \/ Sentinel \/ Beat \/ Verify \/ Posture

-----------------------------------------------------------------------------
(* The watchdog.                                                            *)

SnapshotHealthy ==
  /\ dog = "wait" /\ dog' = "gap"
  /\ advanced' = FALSE /\ reported' = (reported /\ age > maxAge)
  /\ UNCHANGED <<monitorCfg, loop, age, told, late, kill, posture, stopped, done, found, file>>

\* Its tick: it looks at the counter, and a moved counter re-arms it.
Snapshot ==
  /\ dog = "wait" /\ dog' = "gap"
  /\ advanced' = FALSE /\ reported' = (reported /\ ~advanced)
  /\ UNCHANGED <<monitorCfg, loop, age, told, late, kill, posture, stopped, done, found, file>>

GapExceededEachTick ==
  /\ dog = "gap" /\ dog' = "wait"
  /\ IF age > maxAge
     THEN /\ reported' = TRUE /\ fire("gap")
          /\ told' = Smaller(told + 1, 3) /\ late' = (late \/ advanced)
     ELSE UNCHANGED <<reported, stopped, told, late>>
  /\ UNCHANGED <<monitorCfg, found, loop, age, advanced, kill, posture, done, file>>

\* Then, under the mutex again, at the age of the last beat.
GapExceeded ==
  /\ dog = "gap" /\ dog' = "wait"
  /\ IF age > maxAge /\ ~reported
     THEN /\ reported' = TRUE /\ fire("gap")
          /\ told' = Smaller(told + 1, 3) /\ late' = (late \/ advanced)
     ELSE UNCHANGED <<reported, stopped, told, late>>
  /\ UNCHANGED <<monitorCfg, found, loop, age, advanced, kill, posture, done, file>>

WatchdogEnds ==
  /\ dog = "wait" /\ done /\ dog' = "gone"
  /\ UNCHANGED <<monitorCfg, loop, beat, reported, kill, posture, stopped, done, found, file>>

Watchdog == Snapshot \/ GapExceeded \/ WatchdogEnds

-----------------------------------------------------------------------------
WatchNext == Elapse \/ WorldChanges \/ Monitor \/ Hang \/ Watchdog

\* Time passes and both goroutines are scheduled, the ones that are not hung; a cancelled
\* context is taken by select in the end, tick or no tick.
WatchFairness ==
  /\ WF_watchVars(Elapse) /\ WF_watchVars(Monitor) /\ WF_watchVars(Watchdog)
  /\ SF_watchVars(Cancelled) /\ SF_watchVars(WatchdogEnds)

WatchSpec == WatchInit /\ [][WatchNext]_watchVars /\ WatchFairness

-----------------------------------------------------------------------------
(* Properties.                                                              *)

\* "Report once per stall, then keep watching" (heartbeat.go:113): one report between two beats;
\* a second one only if the beat before the stall overtook the look that led to the first.
OncePerStall == told <= IF late THEN 2 ELSE 1

\* A stall without end is reported, the second like the first: whoever stopped beating, and
\* whether or not the watchdog happened to look between the beats.
StallIsReported == []<>(age = 0) \/ []<>(dog = "gone") \/ <>[](told > 0)

\* "A sentinel the agent could have written is not an operator instruction" (monitor.go:101-102):
\* the sentinel fires once however long the file stays, and not before there was one with the
\* token, whatever files came and went between two ticks.
KillFileIsTheOperators == fired <= 1 /\ (fired > 0 /\ monitorCfg.token => asked)

\* A kill file with the token that stays is acted on, unless a file without it was there before,
\* the loop hangs or the server goes down.
KillFileIsObeyed ==
  (monitorCfg.dir /\ <>[](kill = "token")) => <>(fired > 0 \/ ignored \/ at \in {"hung", "gone"})

\* "a report-only trip does not silently end all further monitoring" (monitor.go:49-51): posture
\* that stays bad is found although verifiers fail and files appear, unless a trip was obeyed.
PostureDriftIsFound ==
  (monitorCfg.interval > 0 /\ <>[]~posture) => <>(found \/ stopped \/ done \/ at = "hung")

\* Both goroutines end with the session; only a hung verifier stays.
EndsWithSession == done ~> (at \in {"off", "gone", "hung"} /\ dog = "gone")

\* No alarm is raised twice for one cause or without one (heartbeat.go:105-129,
\* monitor.go:91-111).
AlarmsAreTrue == WatchTypeOK /\ OncePerStall /\ KillFileIsTheOperators

\* The loop overlooks neither the operator nor the posture, whatever else it finds, and ends
\* when the session does (monitor.go:79-138).
NothingIsMissed == KillFileIsObeyed /\ PostureDriftIsFound /\ EndsWithSession
=============================================================================
