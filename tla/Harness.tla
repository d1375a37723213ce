------------------------------ MODULE Harness ------------------------------
(***************************************************************************)
(* One governed session (internal/harness): the posture the layers compose *)
(* to, the refusal seam before and after the servant connects, the         *)
(* handshake and what it licenses the server to do, the client pump that   *)
(* puts each decidable call to the seam it finds, and how a session ends.  *)
(*                                                                         *)
(* The seam is a decider (internal/enforce), perhaps behind the manifest   *)
(* gate and perhaps behind the injected tools.  A policy decision is any   *)
(* severity: the engines are not modelled here.  The pump's routing is     *)
(* module Proxy, the channel's correlation module Control.                 *)
(***************************************************************************)
EXTENDS Naturals

CONSTANTS
  Calls,       \* the decidable requests the client sends
  Ungranted,   \* those naming a tool or resource outside the session manifest
  KillCalls    \* tools/call of the injected Kill tool

ASSUME HarnessConstants == Ungranted \subseteq Calls /\ KillCalls \subseteq Calls

VARIABLES
  composed,    \* the composed policy: "none", "audit" or "enforcing"
  bounded,     \* is there a session manifest
  tier,        \* does the egress policy need an elevated servant
  seam,        \* the interceptor: its decider, gate and injected tools
  injector,    \* is the tool injector installed
  servant,     \* the servant goroutine
  acked,       \* the mode of the hello.ack that was written
  shed,        \* the server dropped its own enforcement
  channel,     \* the control channel: "none", "up" or "lost"
  fatal,       \* servantFatal holds an error
  pump,        \* the client pump: where it is, its call, the seam it took
  asked,       \* calls the client has sent
  atServer,    \* calls forwarded to the server, and how they got there
  expired,     \* the manifest's clocks have run out
  eof,         \* the client closed its end
  cancelled,   \* the session's context
  child,       \* the server process
  main         \* Run: in its select, waiting for the child it killed ("reap") or
               \* whose stdin it closed ("wait"), or returned

posture == <<composed, bounded, tier>>
wiring  == <<seam, injector, servant, acked, shed, channel, fatal>>
traffic == <<pump, asked, atServer>>
ending  == <<eof, cancelled, child, main>>
vars == <<composed, bounded, tier, seam, injector, servant, acked, shed, channel,
          fatal, pump, asked, atServer, expired, eof, cancelled,
          child, main>>

Seam == [decider : {"none", "deny", "allow", "policy"}, gate : BOOLEAN, tools : BOOLEAN]

Severity == {"allow", "warn", "hold", "deny", "kill"}

\* Where the servant goroutine is, or how its handshake failed.
Stage == {"await", "elevation", "install", "inject", "swap", "ack", "serve", "over",
          "bad token", "not hello", "no version"}

Pump == [pc : {"read", "gate", "decide", "forward", "done"},
         call : Calls \cup {"none"}, seam : Seam, late : BOOLEAN, severity : Severity]

\* A call at the server: the decider that let it through and with which severity,
\* whether it was read after the clocks ran out, and whether the server had shed its
\* own enforcement.
Arrival == [call : Calls, by : {"none", "deny", "allow", "policy"},
            severity : Severity, late : BOOLEAN, shed : BOOLEAN]

OpenSeam == [decider |-> "none", gate |-> FALSE, tools |-> FALSE]

\* The pump between two calls, and after its last.
Resting(pc) == [pc |-> pc, call |-> "none", seam |-> OpenSeam, late |-> FALSE,
                severity |-> "allow"]
Idle == Resting("read")
Done == Resting("done")

TypeOK ==
  /\ composed \in {"none", "audit", "enforcing"}
  /\ bounded \in BOOLEAN /\ tier \in BOOLEAN
  /\ seam \in Seam /\ injector \in BOOLEAN
  /\ servant \in Stage
  /\ acked \in {"no", "observe", "enforce"}
  /\ shed \in BOOLEAN
  /\ channel \in {"none", "up", "lost"}
  /\ fatal \in BOOLEAN
  /\ pump \in Pump
  /\ pump.pc \in {"gate", "decide", "forward"} => pump.call \in Calls
  /\ asked \subseteq Calls
  /\ atServer \subseteq Arrival
  /\ expired \in BOOLEAN /\ eof \in BOOLEAN /\ cancelled \in BOOLEAN
  /\ child \in {"alive", "dead"}
  /\ main \in {"select", "reap", "wait", "returned"}

-----------------------------------------------------------------------------
(* Start-up: layers loaded, the child spawned, and the pre-pump interceptor.*)

enforcing == composed = "enforcing"

\* NewManifestGate returns its inner decider unchanged without a session.
Gated(d) == [decider |-> d, gate |-> bounded, tools |-> FALSE]

PrePumpOpen ==
  IF enforcing \/ bounded THEN Gated("allow")
  ELSE OpenSeam

PrePump ==
  CASE enforcing               -> Gated("deny")
    [] ~enforcing /\ bounded   -> Gated("allow")
    [] OTHER                   -> OpenSeam

Init ==
  /\ composed \in {"none", "audit", "enforcing"}
  /\ bounded \in BOOLEAN
  /\ tier \in BOOLEAN /\ (tier => composed # "none")
  /\ seam = PrePump
  /\ injector = FALSE
  /\ servant = "await" /\ acked = "no" /\ shed = FALSE
  /\ channel = "none" /\ fatal = FALSE
  /\ pump = Idle /\ asked = {} /\ atServer = {}
  /\ expired = FALSE /\ eof = FALSE /\ cancelled = FALSE
  /\ child = "alive" /\ main = "select"

-----------------------------------------------------------------------------
(* The servant goroutine.                                                   *)

\* AwaitServant: only a bad token is fatal; every other failure is logged and
\* the session goes on as it is.
AwaitServant(outcome) ==
  /\ servant = "await" /\ child = "alive" /\ ~cancelled
  /\ servant' = outcome
  /\ fatal' = (outcome = "bad token")
  /\ channel' = IF outcome = "elevation" THEN "up" ELSE "none"
  /\ UNCHANGED <<posture, seam, injector, acked, shed, traffic, expired, ending>>

GiveUp ==
  /\ servant = "await" /\ cancelled
  /\ servant' = "over"
  /\ UNCHANGED <<posture, seam, injector, acked, shed, channel, fatal, traffic,
                 expired, ending>>

\* requireServableEgress.
Elevation(elevated) ==
  /\ servant = "elevation"
  /\ IF tier /\ ~elevated
     THEN /\ servant' = "over" /\ fatal' = TRUE /\ channel' = "lost"
     ELSE /\ servant' = "install" /\ UNCHANGED <<fatal, channel>>
  /\ UNCHANGED <<posture, seam, injector, acked, shed, traffic, expired, ending>>

\* installEnforcement up to its two swaps: without policy layers, or with a layer
\* this servant's signals do not validate, the seam stays as it was.
Validate(valid) ==
  /\ servant = "install"
  /\ servant' = IF composed = "none" \/ ~valid THEN "ack"
                ELSE IF enforcing THEN "inject" ELSE "swap"
  /\ UNCHANGED <<posture, seam, injector, acked, shed, channel, fatal, traffic,
                 expired, ending>>

SetToolInjector ==
  /\ servant = "inject"
  /\ injector' = TRUE
  /\ servant' = "swap"
  /\ UNCHANGED <<posture, seam, acked, shed, channel, fatal, traffic, expired,
                 ending>>

SetUngated ==
  /\ servant = "swap"
  /\ seam' = [decider |-> "policy", gate |-> FALSE, tools |-> enforcing]
  /\ servant' = "ack"
  /\ UNCHANGED <<posture, injector, acked, shed, channel, fatal, traffic, expired,
                 ending>>

SetInterceptor ==
  /\ servant = "swap"
  /\ seam' = [Gated("policy") EXCEPT !.tools = enforcing]
  /\ servant' = "ack"
  /\ UNCHANGED <<posture, injector, acked, shed, channel, fatal, traffic, expired,
                 ending>>

AckFromDocuments == IF enforcing THEN "enforce" ELSE "observe"
AckPolicyMode    == IF seam.decider = "policy" THEN composed ELSE "observe"

\* The ack's mode is what installEnforcement reported, not what the documents say.
AckMode == IF seam.decider = "policy" /\ enforcing THEN "enforce" ELSE "observe"

Ack ==
  /\ servant = "ack"
  /\ IF channel = "up"
     THEN acked' = AckMode /\ servant' = "serve"
     ELSE servant' = "over" /\ UNCHANGED acked
  /\ UNCHANGED <<posture, seam, injector, shed, channel, fatal, traffic, expired,
                 ending>>

\* Serve returns when the channel ends; nobody else is told.
ServeEnds ==
  /\ servant = "serve" /\ channel = "lost"
  /\ servant' = "over"
  /\ UNCHANGED <<posture, seam, injector, acked, shed, channel, fatal, traffic,
                 expired, ending>>

-----------------------------------------------------------------------------
(* The client pump, on decidable calls.                                     *)

\* The frame is read and getInterceptor takes the seam it finds.
ReadCall(c) ==
  /\ pump.pc = "read" /\ ~eof
  /\ c \notin asked
  /\ asked' = asked \cup {c}
  /\ pump' = [pc |-> "gate", call |-> c, seam |-> seam, late |-> expired,
              severity |-> "allow"]
  /\ UNCHANGED <<posture, wiring, atServer, expired, ending>>

\* inject.Interceptor sits outermost and answers the Kill tool itself.
AnsweredHere == pump.seam.tools /\ pump.call \in KillCalls

\* Injector.Answer calls stop, which cancels the session before the result is written.
AnswerKill ==
  /\ pump.pc = "gate"
  /\ AnsweredHere
  /\ cancelled' = TRUE
  /\ pump' = Idle
  /\ UNCHANGED <<posture, wiring, asked, atServer, expired, eof, child,
                 main>>

\* ManifestGate.Decide: the clocks, then the grant.
ManifestGate ==
  /\ pump.pc = "gate"
  /\ ~AnsweredHere
  /\ pump' = IF pump.seam.gate /\ (expired \/ pump.call \in Ungranted)
             THEN Idle ELSE [pump EXCEPT !.pc = "decide"]
  /\ UNCHANGED <<posture, wiring, asked, atServer, expired, ending>>

\* PolicyMode.clamp.
Clamp(s) == IF enforcing \/ s = "allow" THEN s ELSE "warn"

\* Verdict.Allowed: below deny.
Allowed(s) == s \in {"allow", "warn", "hold"}

Forwarding(s) == [pump EXCEPT !.pc = "forward", !.severity = s]

\* The inner decider: none, DenyAll, AllowAll, or PolicyDecider with the severity s.
Decide(s) ==
  /\ pump.pc = "decide"
  /\ pump' = CASE pump.seam.decider = "deny"   -> Idle
               [] pump.seam.decider = "policy" ->
                    IF Allowed(Clamp(s)) THEN Forwarding(Clamp(s)) ELSE Idle
               [] OTHER                        -> Forwarding("allow")
  /\ UNCHANGED <<posture, wiring, asked, atServer, expired, ending>>

\* writeServer; it fails once the child is gone, and the pump returns.
Forward ==
  /\ pump.pc = "forward"
  /\ IF child = "alive"
     THEN /\ pump' = Idle
          /\ atServer' = atServer \cup
               {[call |-> pump.call, by |-> pump.seam.decider,
                 severity |-> pump.severity, late |-> pump.late, shed |-> shed]}
     ELSE /\ pump' = Done
          /\ UNCHANGED atServer
  /\ UNCHANGED <<posture, wiring, asked, expired, ending>>

\* The client's EOF ends the pump.
EndPump ==
  /\ pump.pc = "read" /\ eof
  /\ pump' = Done
  /\ UNCHANGED <<posture, wiring, asked, atServer, expired, ending>>

-----------------------------------------------------------------------------
(* Run's ending.                                                            *)

\* case servantFatal: cancel, which kills the child, and wait for it.
KillChild ==
  /\ main = "select" /\ fatal
  /\ cancelled' = TRUE
  /\ main' = "reap"
  /\ UNCHANGED <<posture, wiring, traffic, expired, eof, child>>

DoneWithServer ==
  /\ main = "select"
  /\ child = "dead" \/ cancelled
  /\ main' = "wait"
  /\ UNCHANGED <<posture, wiring, traffic, expired, eof, cancelled, child>>

\* case pumpDone: proxy.Run returned because a pump ended (the server's stdout
\* ends with the child) or the context did; the server's stdin is closed.
PumpDone ==
  /\ main = "select"
  /\ pump.pc = "done" \/ child = "dead" \/ cancelled
  /\ main' = "wait"
  /\ UNCHANGED <<posture, wiring, traffic, expired, eof, cancelled, child>>

\* child.Wait, and the deferred cancel.
Return ==
  /\ main \in {"wait", "reap"} /\ child = "dead"
  /\ main' = "returned"
  /\ cancelled' = TRUE
  /\ UNCHANGED <<posture, wiring, traffic, expired, eof, child>>

-----------------------------------------------------------------------------
(* The environment: the server process, its servant, the client, the clock. *)

\* exec.CommandContext kills the child when the context ends.
ContextKills ==
  /\ cancelled /\ child = "alive"
  /\ child' = "dead"
  /\ channel' = IF channel = "up" THEN "lost" ELSE channel
  /\ UNCHANGED <<posture, seam, injector, servant, acked, shed, fatal, traffic,
                 expired, eof, cancelled, main>>

\* The server exits on the end of its stdin, or crashes at any time.
ServerExits ==
  /\ child = "alive"
  /\ child' = "dead"
  /\ channel' = IF channel = "up" THEN "lost" ELSE channel
  /\ UNCHANGED <<posture, seam, injector, servant, acked, shed, fatal, traffic,
                 expired, eof, cancelled, main>>

ServerSheds ==
  /\ acked = "enforce" /\ ~shed /\ child = "alive"
  /\ shed' = TRUE
  /\ UNCHANGED <<posture, seam, injector, servant, acked, channel, fatal, traffic,
                 expired, ending>>

ChannelLost ==
  /\ channel = "up"
  /\ channel' = "lost"
  /\ UNCHANGED <<posture, seam, injector, servant, acked, shed, fatal, traffic,
                 expired, ending>>

ClientEOF ==
  /\ ~eof
  /\ eof' = TRUE
  /\ UNCHANGED <<posture, wiring, traffic, expired, cancelled, child, main>>

\* From here on Session.Check fails: the grant's age, or the idle clock, which only
\* an allowed call could have put back.
Expire ==
  /\ bounded /\ ~expired
  /\ expired' = TRUE
  /\ UNCHANGED <<posture, wiring, traffic, ending>>

-----------------------------------------------------------------------------
ServantGoroutine ==
  \/ GiveUp
  \/ \E e \in BOOLEAN : Elevation(e) \/ Validate(e)
  \/ SetToolInjector \/ SetInterceptor \/ Ack \/ ServeEnds

\* The policy decider's answer waits for the servant's: signal reads go over the
\* control channel, without a deadline (enforce.go:126).
Consulting == pump.pc = "decide" /\ pump.seam.decider = "policy"

ClientPump ==
  \/ AnswerKill \/ ManifestGate
  \/ \E s \in Severity : Decide(s)
  \/ Forward \/ EndPump

Next ==
  \/ \E o \in {"elevation", "bad token", "not hello", "no version"} : AwaitServant(o)
  \/ ServantGoroutine
  \/ \E c \in Calls : ReadCall(c)
  \/ ClientPump
  \/ KillChild \/ PumpDone \/ Return
  \/ ContextKills \/ ServerExits \/ ServerSheds \/ ChannelLost \/ ClientEOF \/ Expire

Spec == Init /\ [][Next]_vars

\* The harness's goroutines run unless they wait for the servant, the kernel kills
\* what the context kills, and a server whose stdin was closed exits
\* (harness.go:295-298 waits for it); nothing else is owed by the server, the
\* servant or the client.
Fairness ==
  /\ WF_vars(ServantGoroutine) /\ WF_vars(~Consulting /\ ClientPump)
  /\ WF_vars(KillChild) /\ WF_vars(PumpDone) /\ WF_vars(Return)
  /\ WF_vars(ContextKills)
  /\ WF_vars(main = "wait" /\ ServerExits)

FairSpec == Spec /\ Fairness

-----------------------------------------------------------------------------
(* Properties.                                                              *)

\* "mode: enforce is acked only when the harness's policy decider is actually
\* installed" (docs/wire-protocol.md:74, harness.go:238-262): the ack that lets the
\* server shed its enforcement finds the policy decider, the injected tools and,
\* for a bounded session, the gate in place.
HonestAck ==
  acked = "enforce" => /\ enforcing /\ injector
                       /\ seam = [decider |-> "policy", gate |-> bounded, tools |-> TRUE]

\* Under an enforcing composition nothing but an allowing policy verdict lets a call
\* through, from the first frame on (harness.go:185-198, enforcewire.go:111-113).
FailClosed ==
  enforcing => \A a \in atServer : a.by = "policy" /\ Allowed(a.severity)

\* No call reaches a server that has shed its own enforcement unless the policy
\* decider let it through: "the one unguarded combination" (harness.go:238-244)
\* does not arise, whatever seam the pump had taken before the swap.
NeverUnguarded == \A a \in atServer : a.shed => a.by = "policy"

\* A bounded session stays bounded on every path: no call outside the grant, and
\* none read after the clocks ran out, reaches the server (enforcewire.go:114-116,
\* manifestgate.go:20-23).
BoundedAlways ==
  bounded => \A a \in atServer : a.call \notin Ungranted /\ ~a.late

\* A session that met a fatal handshake never acked it (harness.go:212-237).
FatalNeverAcked == fatal => acked = "no"

\* A bad token, or an egress tier the servant cannot serve, ends the session with
\* its child dead (harness.go:215-237, 289-293).
FatalEnds == fatal ~> (main = "returned" /\ child = "dead")

\* The Kill tool ends the session even though its caller, the client pump, is still
\* busy with the call (harness.go:250-257, inject.go:97-111).
KillEnds ==
  (pump.pc = "gate" /\ AnsweredHere) ~> main = "returned"

\* The client's EOF ends the session (harness.go:294-305), unless the pump that
\* would read it waits for the servant's signals.
ClientEOFEnds == eof ~> (main = "returned" \/ Consulting)

\* What the ack tells the servant is so, at whatever moment calls pass or the handshake
\* fails: it may rely on it when it sheds its own enforcement (harness.go:246-269).
AckIsTrue == HonestAck /\ NeverUnguarded /\ FatalNeverAcked

\* Each way to end a session ends it and the child with it (harness.go:286-307).
SessionEnds == FatalEnds /\ KillEnds /\ ClientEOFEnds
=============================================================================
