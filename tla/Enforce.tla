------------------------------ MODULE Enforce ------------------------------
(***************************************************************************)
(* A decision point at work: the server's middleware with its plan gate    *)
(* and its approvals (guardrails/enforce), or the harness's decider on the *)
(* wire (internal/enforce), over the engines of the rule layers, each with *)
(* its signal cache and its rate limiter (guardrails/policy).              *)
(*                                                                         *)
(* Calls at the middleware overlap; on the wire one goroutine puts them to *)
(* the decider in turn.  A signal is probed outside the cache's lock, and  *)
(* a call takes its time stamp outside the limiter's: both are steps of    *)
(* their own.  Time is a number; a probe is sampled when it starts, the    *)
(* oldest its answer can be.  At the server a probe is a check of the      *)
(* device and takes at most MaxEval (external); on the wire it is a        *)
(* question to the servant, which nothing bounds.                          *)
(***************************************************************************)
EXTENDS Policy, FiniteSets

CONSTANTS
  Index,       \* the tool index: the facts of each tool it knows
  Sessions,    \* a sequence of decision points: where, the documents, the requests, the approver,
               \* and (a bound) until when requests come in and unheld ones take time
  Epoch,       \* the time at which a session starts; 0 is the zero time
  MaxEval,     \* the longest a probe takes at the server
  Timeout,     \* ApprovalTimeout
  PollInterval

ASSUME EnforceConstants ==
  /\ Epoch \in Nat /\ MaxEval \in Nat
  /\ Timeout \in Nat \ {0} /\ PollInterval \in Nat \ {0}
  /\ \A s \in Range(Sessions) :
       /\ s.point \in {"server", "wire"} /\ s.answers \subseteq Status
       /\ s.docs \in Seq(Range(s.docs)) /\ s.docs # <<>>
       /\ \A c \in DOMAIN s.requests : s.requests[c].arg.kind # "nil"
       /\ s.point = "server" => Len(s.docs) = 1
       /\ \A d \in Range(s.docs) :
            Decoded(d) /\ \A id \in DOMAIN d.ttl : d.ttl[id] <= Epoch

VARIABLES
  session,    \* the decision point
  now,
  entries,    \* signalCache.entries of each engine
  hits,       \* rateLimiter.hits of each engine
  calls,      \* the requests and how far each has come
  monitor,    \* Engine.Refresh in the background
  signed,     \* external: what the approver has signed
  cancelled   \* the context of the calls

vars == <<session, now, entries, hits, calls, monitor, signed, cancelled>>

\* The value of Sessions, evaluated once.
Points == Sessions

here == Points[session]
Calls == DOMAIN here.requests

\* One engine for each rule layer; the middleware has the one engine of its document.
Engines == [s \in DOMAIN Points |->
  IF Points[s].point = "wire" THEN Compose(Points[s].docs) ELSE Points[s].docs]
engines == Engines[session]

-----------------------------------------------------------------------------
(* Requests.                                                                *)

\* SubjectForTool: a tool the index does not know is only a name.
SubjectForTool(tool) ==
  IF tool \in DOMAIN Index THEN Index[tool] ELSE [toolset |-> "", annotations |-> {}]

\* The four methods that read server-held state are read-only and have no toolset.
dataEgressSubject == [toolset |-> "", annotations |-> {"read-only"}]

\* The argument context.  No other method has one; a tool call whose arguments are left out or
\* cannot be read has an empty one.  For "arguments": null the wire makes it empty, and the
\* server's decoder sets the map to nil.
callArguments(point, req) ==
  CASE req.method # "tool" -> [kind |-> "nil", within |-> FALSE]
    [] req.method = "tool" /\ req.readable /\ req.arg.kind # "null" -> req.arg
    [] req.method = "tool" /\ req.readable /\ req.arg.kind = "null" /\ point = "server" ->
         [kind |-> "nil", within |-> FALSE]
    [] OTHER -> [kind |-> "absent", within |-> FALSE]

\* subjectFor, on both sides; the wire reads what it can of the parameters.
subjectFor(point, req) ==
  LET name  == IF req.readable THEN req.tool ELSE ""
      facts == IF req.method = "tool" THEN SubjectForTool(name) ELSE dataEgressSubject
  IN [scope |-> "call", name |-> name, toolset |-> facts.toolset,
      annotations |-> facts.annotations, arg |-> callArguments(point, req)]

Subjects == [s \in DOMAIN Points |-> [c \in DOMAIN Points[s].requests |->
  subjectFor(Points[s].point, Points[s].requests[c])]]
Subject(c) == Subjects[session][c]

Undecidable(c) ==
  /\ here.point = "server" /\ here.requests[c].method # "other"
  /\ ~here.requests[c].readable

-----------------------------------------------------------------------------
(* State.                                                                   *)

NoProbe == [signal |-> 0, since |-> 0, status |-> "skip"]

Waiting == [pc |-> "out", arrived |-> 0, layer |-> 1, todo |-> {}, probe |-> NoProbe,
            readings |-> {}, stamps |-> <<>>, overtaken |-> FALSE, severity |-> SeverityAllow,
            intended |-> SeverityAllow, deadline |-> 0, since |-> 0, trail |-> <<>>]

Probe == [signal : Nat, since : Nat, status : Status]

\* A reading of a call: how old the sample was when the call read it, how long its probe
\* took, and whether it was taken after the call came in.
Reading == [layer : Nat, signal : Nat, status : Status, age : Nat, took : Nat, live : BOOLEAN]

Event == {"undecidable", "plan.required", "decided", "kill", "requested", "approve", "deny",
          "timeout", "error"}

TypeOK ==
  /\ session \in DOMAIN Points
  /\ now \in Nat /\ now >= Epoch
  /\ \A l \in DOMAIN entries : \A id \in DOMAIN entries[l] :
       /\ entries[l][id].status \in Status
       /\ entries[l][id].sampled <= entries[l][id].readAt /\ entries[l][id].readAt <= now
  /\ \A l \in DOMAIN hits : \A i \in DOMAIN hits[l] : hits[l][i] \in Seq(Epoch .. now)
  /\ \A c \in Calls : LET k == calls[c] IN
       /\ k.pc \in {"out", "read", "probe", "limit", "post", "wait", "ran", "refused"}
       /\ k.layer \in 1 .. Len(here.docs) + 1 /\ k.stamps \in Seq(Nat)
       /\ k.probe.status \in Status /\ k.readings \subseteq Reading
       /\ k.severity \in Severity /\ k.intended \in Severity /\ k.severity <= k.intended
       /\ k.trail \in Seq(Event)
  /\ monitor.pc \in {"idle", "scan", "probe"}
  /\ signed \subseteq (Calls \X {"approve", "deny"})
  /\ cancelled \in BOOLEAN

\* newSignalCache leaves readAt zero, so that every signal is read before it is used.
Init ==
  /\ session \in {s \in DOMAIN Points : \A d \in Range(Points[s].docs) : Validate(d)}
  /\ now = Epoch
  /\ entries = [l \in DOMAIN engines |-> [id \in DOMAIN engines[l].ttl |->
                  [status |-> "skip", readAt |-> 0, sampled |-> 0]]]
  /\ hits = [l \in DOMAIN engines |-> [i \in DOMAIN engines[l].limits |-> <<>>]]
  /\ calls = [c \in Calls |-> Waiting]
  /\ monitor = [pc |-> "idle", todo |-> {}, probe |-> NoProbe]
  /\ signed = {} /\ cancelled = FALSE

-----------------------------------------------------------------------------
(* The outcome of a verdict.                                                *)

Recorded(k, events) == [k EXCEPT !.trail = @ \o events]
Ended(k, pc) == [k EXCEPT !.pc = pc, !.probe = NoProbe, !.todo = {}]

\* On the wire, Decide forwards what it does not deny.
Decide(k) == Ended(k, IF k.severity >= SeverityDeny THEN "refused" ELSE "ran")

\* A hold builds the approval request, records it and posts it; nobody to ask is a refusal.
awaitApproval(k) ==
  IF ~here.approver THEN Ended(k, "refused")
  ELSE [Recorded(k, <<"requested">>) EXCEPT !.pc = "post", !.deadline = now + Timeout]

\* Middleware after Evaluate: the verdict is recorded before anything follows from it.
Acted(k) ==
  LET d == Recorded(k, <<"decided">>) IN
  CASE here.point = "wire" -> Decide(d)
    [] here.point = "server" /\ k.severity >= SeverityKill -> Ended(Recorded(d, <<"kill">>), "refused")
    [] here.point = "server" /\ k.severity = SeverityDeny -> Ended(d, "refused")
    [] here.point = "server" /\ k.severity = SeverityHold -> awaitApproval(d)
    [] OTHER -> Ended(d, "ran")

Required == [s \in DOMAIN Points |-> [c \in DOMAIN Points[s].requests |->
  [l \in DOMAIN Engines[s] |-> DOMAIN attributed(Engines[s][l], Subjects[s][c])]]]

\* Evaluate starts on engine l: the signals its rules require of this subject.
Begun(c, k, l) ==
  [k EXCEPT !.pc = "read", !.layer = l, !.todo = Required[session][c][l],
            !.probe = NoProbe]

\* MaxVerdict: the strictest answer of the layers so far.
MaxVerdict(k, doc, intended) ==
  [k EXCEPT !.severity = Max({@, clamp(doc.mode, intended)}), !.intended = Max({@, intended})]

\* What Evaluate on the engine the call is at intends.
IntendedBy(c, k, excess) ==
  LET status(id) == (CHOOSE r \in k.readings : r.layer = k.layer /\ r.signal = id).status
  IN Intended(engines[k.layer], Subject(c),
              [id \in Required[session][c][k.layer] |-> status(id)], excess)

\* The end of Evaluate on one engine, then the next layer or the decision.
Evaluated(c, k, excess) ==
  \E intended \in {IntendedBy(c, k, excess)} :
    \E v \in {MaxVerdict(k, engines[k.layer], intended)} :
      calls' = [calls EXCEPT ![c] =
                  IF v.layer < Len(engines) THEN Begun(c, v, v.layer + 1)
                  ELSE Acted([v EXCEPT !.layer = @ + 1])]

-----------------------------------------------------------------------------
(* Middleware and Decide.                                                   *)

InProgress(c) == calls[c].pc \notin {"out", "ran", "refused"}

\* The plan gate runs before Evaluate, so it looks at the mode itself.
PlanGate(doc) == doc.mode = "enforce"

Arrive(c) ==
  LET k == [calls[c] EXCEPT !.arrived = now]
      gated == /\ here.point = "server" /\ here.requests[c].method = "tool"
               /\ RequiresPlan(engines[1], Subject(c))
      asked == IF gated THEN Recorded(k, <<"plan.required">>) ELSE k
  IN /\ calls[c].pc = "out" /\ now <= here.until
     /\ here.point = "wire" => \A d \in Calls : ~InProgress(d)
     /\ calls' = [calls EXCEPT ![c] =
          CASE Undecidable(c) -> Ended(Recorded(k, <<"undecidable">>), "refused")
            [] here.requests[c].method = "other" -> Ended(k, "ran")
            [] ~Undecidable(c) /\ gated /\ PlanGate(engines[1]) -> Ended(asked, "refused")
            [] OTHER -> Begun(c, asked, 1)]
     /\ UNCHANGED <<session, now, entries, hits, monitor, signed, cancelled>>

-----------------------------------------------------------------------------
(* The signal cache.                                                        *)

expiredLate(e, ttl) == ttl = 0 \/ now - e.readAt > ttl

\* A zero TTL is always read live.
expired(e, ttl) == ttl = 0 \/ now - e.readAt >= ttl

Sampled(k, l, id, e) ==
  [k EXCEPT !.pc = "read", !.todo = @ \ {id}, !.probe = NoProbe,
            !.readings = @ \cup {[layer |-> l, signal |-> id, status |-> e.status,
                                  age |-> now - e.sampled, took |-> e.readAt - e.sampled,
                                  live |-> e.sampled >= k.arrived]}]

\* signalCache.Read up to the unlock, for the next signal in order: the reading that is
\* held, or the start of a probe.
Read(c) ==
  LET k == calls[c]
      id == Min(k.todo)
      e == entries[k.layer][id]
  IN /\ k.pc = "read" /\ k.todo # {}
     /\ IF expired(e, engines[k.layer].ttl[id])
        THEN \E status \in here.answers : calls' = [calls EXCEPT ![c].pc = "probe",
               ![c].probe = [signal |-> id, since |-> now, status |-> status]]
        ELSE calls' = [calls EXCEPT ![c] = Sampled(k, k.layer, id, e)]
     /\ UNCHANGED <<session, now, entries, hits, monitor, signed, cancelled>>

\* The second half: whatever is there is overwritten, and dated when the probe ended.
Stored(p) == [status |-> p.status, readAt |-> now, sampled |-> p.since]

Store(c) ==
  LET k == calls[c] IN
  /\ k.pc = "probe"
  /\ entries' = [entries EXCEPT ![k.layer][k.probe.signal] = Stored(k.probe)]
  /\ calls' = [calls EXCEPT ![c] = Sampled(k, k.layer, k.probe.signal, Stored(k.probe))]
  /\ UNCHANGED <<session, now, hits, monitor, signed, cancelled>>

\* signalCache.Refresh: every id in turn, but for those held and those with a zero TTL.
RefreshStarts ==
  /\ here.refresh /\ monitor.pc = "idle" /\ now < here.until
  /\ monitor' = [monitor EXCEPT !.pc = "scan", !.todo = DOMAIN entries[1]]
  /\ UNCHANGED <<session, now, entries, hits, calls, signed, cancelled>>

RefreshRead ==
  LET id == Min(monitor.todo)
      due == engines[1].ttl[id] > 0 /\ expired(entries[1][id], engines[1].ttl[id])
  IN /\ monitor.pc = "scan" /\ monitor.todo # {}
     /\ IF due
        THEN \E status \in here.answers : monitor' = [monitor EXCEPT !.pc = "probe",
               !.probe = [signal |-> id, since |-> now, status |-> status]]
        ELSE monitor' = [monitor EXCEPT !.todo = @ \ {id}]
     /\ UNCHANGED <<session, now, entries, hits, calls, signed, cancelled>>

RefreshStore ==
  /\ monitor.pc = "probe"
  /\ entries' = [entries EXCEPT ![1][monitor.probe.signal] = Stored(monitor.probe)]
  /\ monitor' = [pc |-> "scan", todo |-> monitor.todo \ {monitor.probe.signal},
                 probe |-> NoProbe]
  /\ UNCHANGED <<session, now, hits, calls, signed, cancelled>>

RefreshEnds ==
  /\ monitor.pc = "scan" /\ monitor.todo = {}
  /\ monitor' = [monitor EXCEPT !.pc = "idle"]
  /\ UNCHANGED <<session, now, entries, hits, calls, signed, cancelled>>

-----------------------------------------------------------------------------
(* The rate limiter.                                                        *)

\* All signals of the layer are read, and time.Now is taken; an engine without limits is
\* done.
Stamp(c) ==
  /\ calls[c].pc = "read" /\ calls[c].todo = {}
  /\ IF engines[calls[c].layer].limits = <<>>
     THEN Evaluated(c, [calls[c] EXCEPT !.stamps = Append(@, 0)], SeverityAllow)
     ELSE calls' = [calls EXCEPT ![c].pc = "limit", ![c].stamps = Append(@, now)]
  /\ UNCHANGED <<session, now, entries, hits, monitor, signed, cancelled>>

\* One window: the hits that are not out of it, and this one.
Kept(h, stamp, window) ==
  LET live[i \in 0 .. Len(h)] ==
        IF i = 0 THEN <<>>
        ELSE IF h[i] + window > stamp THEN Append(live[i - 1], h[i]) ELSE live[i - 1]
  IN Append(live[Len(h)], stamp)

exceededOneMore(limits, old, matching, stamp) ==
  LET kept == [i \in DOMAIN old |-> IF i \in matching THEN Kept(old[i], stamp, limits[i].window)
                                    ELSE old[i]]
      over == {i \in matching : Len(kept[i]) > limits[i].max + 1}
  IN [hits |-> kept, severity |-> Max({SeverityAllow} \cup {limits[i].onExceed : i \in over})]

\* rateLimiter.exceeded, under its lock: every matching limit counts the call, whether or
\* not it is refused, and the worst of those now exceeded is the answer.
exceeded(limits, old, matching, stamp) ==
  LET kept == [i \in DOMAIN old |-> IF i \in matching THEN Kept(old[i], stamp, limits[i].window)
                                    ELSE old[i]]
      over == {i \in matching : Len(kept[i]) > limits[i].max}
  IN [hits |-> kept, severity |-> Max({SeverityAllow} \cup {limits[i].onExceed : i \in over})]

Limit(c) ==
  /\ calls[c].pc = "limit"
  /\ LET l == calls[c].layer
         stamp == calls[c].stamps[l]
         limits == engines[l].limits
     IN \E matching \in {{i \in DOMAIN limits : matchesLimit(limits[i].match, Subject(c))}} :
        \E x \in {exceeded(limits, hits[l], matching, stamp)} :
          /\ hits' = [hits EXCEPT ![l] = x.hits]
          /\ Evaluated(c, [calls[c] EXCEPT !.overtaken =
                             @ \/ \E i \in matching : \E t \in Range(hits[l][i]) : t > stamp],
                       x.severity)
  /\ UNCHANGED <<session, now, entries, monitor, signed, cancelled>>

-----------------------------------------------------------------------------
(* Approvals.                                                               *)

DoneByCancelOnly(c) == cancelled

\* ctx.Err: the deadline that Await puts on the context, or the caller's cancellation.
Done(c) == cancelled \/ now >= calls[c].deadline

\* A timeout is told apart from an error by the context.
failClosed(c) == IF Done(c) THEN "timeout" ELSE "error"

verifyReplyBySignature(c, r) ==
  \/ r.decision = "pending"
  \/ here.key /\ r.signature = <<r.id, r.decision>>

\* A pending reply carries no authority; every other one must be signed, for this request.
verifyReply(c, r) ==
  \/ r.decision = "pending"
  \/ here.key /\ r.id = c /\ r.signature = <<c, r.decision>>

Resolved(c, outcome) ==
  Ended(Recorded(calls[c], <<outcome>>), IF outcome = "approve" THEN "ran" ELSE "refused")

\* A reply to a post or a poll, whatever it says: the loop of Await up to its next wait.
Reply(c, r) ==
  /\ calls[c].pc = "post" /\ now <= calls[c].deadline
  /\ calls' = [calls EXCEPT ![c] =
       CASE ~verifyReply(c, r) -> Resolved(c, failClosed(c))
         [] verifyReply(c, r) /\ r.decision \in {"approve", "deny"} -> Resolved(c, r.decision)
         [] verifyReply(c, r) /\ r.decision = "pending" -> [@ EXCEPT !.pc = "wait", !.since = now]
         [] OTHER -> Resolved(c, "error")]
  /\ UNCHANGED <<session, now, entries, hits, monitor, signed, cancelled>>

\* The request fails, or its client gives up on it.
RequestFails(c) ==
  /\ calls[c].pc = "post"
  /\ calls' = [calls EXCEPT ![c] = Resolved(c, failClosed(c))]
  /\ UNCHANGED <<session, now, entries, hits, monitor, signed, cancelled>>

\* ctx.Done, in the select between two polls or under a request.
Deadline(c) ==
  /\ calls[c].pc \in {"post", "wait"} /\ Done(c)
  /\ calls' = [calls EXCEPT ![c] = Resolved(c, failClosed(c))]
  /\ UNCHANGED <<session, now, entries, hits, monitor, signed, cancelled>>

Poll(c) ==
  /\ calls[c].pc = "wait" /\ now >= calls[c].since + PollInterval
  /\ calls' = [calls EXCEPT ![c].pc = "post"]
  /\ UNCHANGED <<session, now, entries, hits, monitor, signed, cancelled>>

\* external: the approver decides a request it has, once; a reply says anything, under any
\* signature the approver has made.
Approver(c) ==
  /\ calls[c].pc \in {"post", "wait"} /\ ~\E d \in {"approve", "deny"} : <<c, d>> \in signed
  /\ \E d \in {"approve", "deny"} : signed' = signed \cup {<<c, d>>}
  /\ UNCHANGED <<session, now, entries, hits, calls, monitor, cancelled>>

Replies == [decision : {"approve", "deny", "pending", "other"}, id : Calls,
            signature : signed \cup {<<"none", "none">>}]

Held(c) == calls[c].pc \in {"post", "wait"}

\* external: the kill stop cancels the calls.
Cancel ==
  /\ ~cancelled /\ \E c \in Calls : Held(c)
  /\ cancelled' = TRUE
  /\ UNCHANGED <<session, now, entries, hits, calls, monitor, signed>>

\* external: time.  At the server a probe ends within MaxEval (its clients have timeouts); on
\* the wire it waits for the servant under context.Background.  A timer is at most one unit
\* late.
Tick ==
  /\ here.point = "server" =>
       /\ \A c \in Calls : calls[c].pc = "probe" => now < calls[c].probe.since + MaxEval
       /\ monitor.pc = "probe" => now < monitor.probe.since + MaxEval
  /\ \A c \in Calls : Held(c) => now <= calls[c].deadline
  /\ now < here.until \/ \E c \in Calls : Held(c)
  /\ now' = now + 1
  /\ UNCHANGED <<session, entries, hits, calls, monitor, signed, cancelled>>

-----------------------------------------------------------------------------
Next ==
  \/ \E c \in Calls : \/ Arrive(c) \/ Read(c) \/ Store(c) \/ Stamp(c) \/ Limit(c)
                      \/ (\E r \in Replies : Reply(c, r))
                      \/ RequestFails(c) \/ Deadline(c) \/ Poll(c) \/ Approver(c)
  \/ RefreshStarts \/ RefreshRead \/ RefreshStore \/ RefreshEnds
  \/ Cancel \/ Tick

AnyCall == UNION {DOMAIN s.requests : s \in Range(Points)}

\* Handlers run, the probes of the server end, timers fire and time goes on; nobody has to
\* answer, the servant on the wire included.
Fairness ==
  /\ \A c \in AnyCall :
       WF_vars(c \in Calls /\ (\/ Read(c) \/ Stamp(c) \/ Limit(c) \/ Deadline(c) \/ Poll(c)
                              \/ (here.point = "server" /\ Store(c))))
  /\ WF_vars(here.point = "server" /\ RefreshStore) /\ WF_vars(Tick)

Spec == Init /\ [][Next]_vars /\ Fairness

-----------------------------------------------------------------------------
(* Properties.                                                              *)

Decided(c) == "decided" \in Range(calls[c].trail)

\* The call read the signal, as a failure each time.
ReadFailing(c, id) ==
  \A r \in calls[c].readings : r.signal = id => r.status \in {"fail", "error"}

Narrow(r) == r.match.tool # {} /\ "*" \notin r.match.tool

\* A rule that names the tool keeps its say over a broader one, wherever the broader one
\* stands: when a signal such a rule requires fails, the verdict is not below what one of
\* those rules gives (the precedence Engine.Evaluate documents, Rule.specificity).
NarrowRulePrevails ==
  \A c \in Calls : Decided(c) => \A l \in DOMAIN engines :
    LET naming(id) == {r \in Range(engines[l].rules) :
                         matches(r, Subject(c)) /\ Narrow(r) /\ id \in r.require}
    IN \A id \in DOMAIN engines[l].ttl : naming(id) # {} /\ ReadFailing(c, id) =>
         calls[c].intended >= Min({r.onFail : r \in naming(id)})

\* Layers only narrow (Compose and MaxVerdict): what the composed decision point does is at
\* least what each document alone, in its own mode, demands for what was read.
LayersOnlyNarrow ==
  \A c \in Calls : Decided(c) => \A d \in Range(here.docs) :
    LET a == attributed(d, Subject(c))
    IN \A id \in DOMAIN a : ReadFailing(c, id) =>
         calls[c].severity >= clamp(d.mode, a[id].severity)

\* What a call of the server reads is younger, when the call reads it, than its TTL and the
\* time a probe takes; on the wire, where a probe may take any time, than its TTL and the time
\* its own probe took.  With a zero TTL the signal is probed after the call came in.  Calls and
\* the background refresh, which overwrite each other's readings, included (signalCache).  The
\* probes of the signals after it pass before the call is decided (engine.go:326-327).
ReadingsAreFresh ==
  \A c \in Calls : \A r \in calls[c].readings :
    LET ttl == engines[r.layer].ttl[r.signal]
    IN IF ttl = 0 THEN r.live
       ELSE r.age < ttl + IF here.point = "server" THEN MaxEval ELSE r.took

\* No more calls than a refusing limit allows run within one of its windows, counting those
\* whose stamp was not overtaken on the way to the limiter's lock (rateLimiter).
RateIsBounded ==
  \A l \in DOMAIN engines : \A i \in DOMAIN engines[l].limits :
    LET limit == engines[l].limits[i]
        ran == {c \in Calls : /\ calls[c].pc = "ran" /\ Decided(c) /\ ~calls[c].overtaken
                              /\ matchesLimit(limit.match, Subject(c))}
    IN engines[l].mode = "enforce" /\ limit.onExceed >= SeverityDeny =>
         \A c \in ran : LET t == calls[c].stamps[l] IN
           Cardinality({d \in ran : calls[d].stamps[l] <= t /\ calls[d].stamps[l] + limit.window > t})
             <= limit.max

\* A session all of whose documents are in audit mode refuses nothing it can read, the
\* plan gate included (enforce.go: "the one thing audit mode promises will not happen").
AuditModeRefusesNothing ==
  (\A d \in Range(here.docs) : d.mode = "audit") =>
    \A c \in Calls : calls[c].pc = "refused" => Undecidable(c)

\* A held call runs only when the approver has granted that very request, and not after its
\* deadline, whatever replies, late, repeated or meant for another request, come in.
NoUnapprovedRun ==
  \A c \in Calls : Held(c) /\ calls'[c].pc = "ran" => /\ <<c, "approve">> \in signed
                                                        /\ now <= calls[c].deadline

\* The approval record tells what happened: a refusal is recorded only if the approver refused,
\* a timeout only if the deadline passed or the calls were cancelled (failClosed).
OutcomesAreTrue ==
  \A c \in Calls :
    /\ "deny" \in Range(calls[c].trail) => <<c, "deny">> \in signed
    /\ "timeout" \in Range(calls[c].trail) => cancelled \/ now >= calls[c].deadline

Probed(c) == c \in Calls /\ calls[c].pc = "probe"

\* Every request that comes in is answered: probes that overlap, a full window and an
\* approver that never decides hold no call for ever.  On the wire this needs a servant that
\* answers: a call in a probe waits for it without a timeout (signalsource.go:50).
CallsEnd ==
  \A c \in AnyCall :
    ([]<>(here.point = "server" \/ ~Probed(c))) =>
      ((c \in Calls /\ InProgress(c)) ~> (c \in Calls /\ ~InProgress(c)))

\* The arguments of a call, as the client sent them, do not meet a constraint: they are left
\* out, null or unreadable, of another kind, or out of bounds.
Misfits(q, r) ==
  /\ q.method = "tool" /\ r.constraint # {}
  /\ \/ ~q.readable \/ q.arg.kind \in {"absent", "null"}
     \/ \E bound \in r.constraint : q.arg.kind # bound \/ ~q.arg.within

\* A caller cannot dodge a constraint: arguments that do not meet one that a rule puts on the
\* call count with that rule's severity (enforce.go:420-423).
NoConstraintDodged ==
  \A c \in Calls : Decided(c) => \A l \in DOMAIN engines : \A r \in Range(engines[l].rules) :
    matches(r, Subject(c)) /\ Misfits(here.requests[c], r) => calls[c].intended >= r.onFail

\* The same of all arguments but null at the server, which skips the constraints.
ConstraintsCount ==
  \A c \in Calls : Decided(c) => \A l \in DOMAIN engines : \A r \in Range(engines[l].rules) :
    /\ matches(r, Subject(c)) /\ Misfits(here.requests[c], r)
    /\ here.point = "wire" \/ here.requests[c].arg.kind # "null"
    => calls[c].intended >= r.onFail

\* The verdict follows the documents: narrow rules prevail, layers only narrow, constraints
\* count, and audit mode refuses nothing (engine.go:248-323, compose.go:62-138,
\* enforce.go:104-158).
VerdictsFollow ==
  TypeOK /\ NarrowRulePrevails /\ LayersOnlyNarrow /\ ConstraintsCount /\ AuditModeRefusesNothing

\* An approval is what the approver said of this request in time, in what runs and in what is
\* recorded (approval.go:91-247).
ApprovalsAreTrue == [][OutcomesAreTrue' /\ NoUnapprovedRun]_vars
=============================================================================
