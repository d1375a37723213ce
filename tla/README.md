# agentweave-harness in TLA+

agentweave-harness stands between an MCP client (an agent host) and an MCP
server it spawns. It pumps the JSON-RPC frames of both over stdio, puts every
decidable call to a policy, keeps a hash-chained audit log, watches the session
and, when something goes wrong, contains the machine. This directory holds TLA+
models of its core, the TLC configurations that check them on small instances,
and TLAPS proofs of the properties that matter most.

Paths below are relative to the repository. `PROJECT.json` lists, for every
definition, the lines it models; for every run, its properties; for every
property, a mutation of the code that breaks it.

    tlc -workers 2 -config MCProxy.cfg MCProxy      # a run
    tlapm ProxyProofs.tla                           # a proof module

## 1. The system

### Parts, their state and their operations

| Part | State | Operations | Talks to |
|---|---|---|---|
| stdio proxy (`internal/proxy`) | `nextID`, `pending`, `remapped`, `listReqs`, `closed` under one mutex; interceptor and tool injector as atomic pointers | two pumps, `Inject`, `Run`/`close`, `SetInterceptor`, `SetToolInjector` | client and server pipes; the seam's `Decide`; callers of `Inject` |
| control channel (`internal/control`, `wire`) | `nextID`, `pending`, the connection | `AwaitServant`, `Ack`, `Serve`, `Request`, `closePending` | the servant, a library inside the server |
| session orchestration (`internal/harness`) | posture composed of the policy layers, the seam, the servant goroutine, `servantFatal`, the child | `Run`'s start and select, `installEnforcement`, `requireServableEgress`, the ack | all of the above |
| wire-side enforcement (`internal/enforce`, `internal/inject`) | a decider stack: injected tools, manifest gate, policy or a constant | `Decide`, `Check`, `Touch`, the Kill tool | signals over the control channel; the kill switch |
| observer, drift (`internal/observe`, `guardrails/watch/rugpull.go`) | request attribution, tool index, pinned surfaces | frame taps, pin-or-recheck | proxy taps, drift monitor, kill switch |
| continuous verification (`guardrails/watch`) | stop latch, sentinel latch, beat counter | monitor tick, watchdog tick | kill switch |
| policy engine (`guardrails/policy`) | rules, signal cache, rate windows | `Evaluate`, `EvaluatePlan` | signal sources |
| policy layering (`guardrails/manifest`) | documents, session grant and its clocks | `Compose`, `Check`, `Touch` | engine, egress |
| audit chain (`guardrails/audit`) | per-session file, chain head and sequence, the shared manifest | open, `Append`, `Flush`, `Close`, `VerifyDir` | everybody appends |
| containment (`guardrails/contain`) | trip flag, ladder, restore function | `Trip`, `OnTrip`, `StopGracefully`, `Restore` | audit log, firewall, OS, session abort |
| egress proxy, egress enforcement (`guardrails/egress`) | counters; firewall rules, default actions, state file | connection checks; `Apply`, `Suspend`, `Recover` | policy, OS |
| server-side enforcement (`guardrails/enforce`) | calls in progress, approvals that are waited for | middleware, approval handshake | engine, approver |
| host matching (`guardrails/hostmatch`) | compiled pattern sets | `Match`, `ForbiddenAddr` | egress proxy, layering |
| plans, evidence, export, status, telemetry, signals | documents, archives, read-only views | pure functions and I/O | |

### What is hard about it

* **Interleavings.** Two pumps, the callers of `Inject`, the servant goroutine,
  the context and `Run` share the proxy and the control channel; a channel
  handed from one to another must be neither closed nor full when it is used.
  The interceptor is swapped while a call is being decided by the old one.
* **Namespaces.** Client, harness and server choose request ids independently.
* **Handshake order.** Install, choose the mode, ack: calls already flow.
* **Crashes.** A session dies between any two writes of its log, or power fails
  between a write and its sync; the next session builds on what is left.
* **Timeouts.** An answer arrives after its caller has left, or never where nothing
  limits the wait; a COM thread is abandoned while it is still changing the firewall.
* **Partial failure.** One of several profiles, layers or writes fails; a rung
  of the ladder panics; an `Apply` stops half-way through the machine's settings.
* **Stale state.** A signal reading outlives its sample, a time stamp its place in
  the queue, a baseline the list it was taken from.
* **Competing documents.** Rules shadow rules and layers meet layers: hosts, ports,
  modes and verdicts may only get narrower.

`PROJECT.json` lists 40 such places under `hazards`, each at its line, with the
properties that would notice it going wrong.

### What makes each part correct

| Part | Properties |
|---|---|
| proxy | ids unique at the server; an answer goes back once, under the client's id; a refused call never reaches the server; an injected call gets its own answer or an error and ends |
| control | a session only for an authentic servant, at the best common version; an answer goes to the caller who asked; nobody waits for ever |
| harness, enforcement | nothing passes an enforcing posture before the deciders are there; a grant is never exceeded; the ack claims no more than is installed; every ending takes the child with it |
| audit | a directory that passes the strict check holds exactly what was appended; honest crashes leave only the traces the verifier expects; a flushed entry survives |
| containment | one incident; evidence durable before anything destructive; every trip aborts; `Restore` puts back what was there |
| observer, drift | an answer is read as what was asked; drift is reported when there is some, once a surface, and a standing one without help of the client |
| watch | a stall is reported, once; the operator's kill file is obeyed and nobody else's; an unarmed trigger ends nothing |
| engine, layering, approvals | a narrow rule prevails, layers only narrow, constraints count, readings are fresh, limits hold, audit mode refuses nothing, a held call runs only when granted and always ends |
| egress proxy | it reaches what every layer allows, refuses nothing else, asks no resolver about what it refuses, counts each request, ends its tunnels |
| egress enforcement | what is blocked is on record and has its exceptions; a start, a restore and a failed `Apply` put back what was found; foreign rules stay |

## 2. The modules

| Module | Models | Instantiated by |
|---|---|---|
| `Relay` | what a client may rely on: each request is delivered or refused, and answered at most once | by `Proxy`, as the abstract specification |
| `Proxy` | `internal/proxy/proxy.go`, `frames.go` | `MCProxy` |
| `Control` | `internal/control/control.go`, `wire/` | its cfgs directly |
| `Harness` | `internal/harness`, `internal/enforce`, `internal/inject`, the gate of `guardrails/manifest/session.go` | its cfgs directly |
| `Audit` | `guardrails/audit` in directory mode | `MCAudit` |
| `Contain` | `guardrails/contain` | `MCContain` |
| `Drift` | `internal/observe`, `guardrails/watch/rugpull.go`, `driftMonitor` | `MCDrift` |
| `Watch` | `guardrails/watch/monitor.go`, `heartbeat.go` | `MCWatch` |
| `HostMatch` | `guardrails/hostmatch`, the egress half of `guardrails/manifest/compose.go`; operators only | through `Egress` |
| `Egress` | `guardrails/egress/proxy.go`, `counters.go`, `egress.go`, the proxy's start in `internal/harness/egresswire.go` | `MCEgress` |
| `Enforcer` | `guardrails/egress/enforcer_windows.go` and the files it calls | `MCEnforcer` |
| `Policy` | matching, precedence, constraints, modes, validation and layering of documents; operators only | through `Enforce` |
| `Enforce` | `guardrails/enforce`, `internal/enforce`'s decider, the engine's `Evaluate`, signal cache and rate limiter | `MCEnforce` |
| `ProxyProofs`, `ControlProofs`, `HarnessProofs`, `AuditProofs`, `ContainProofs`, `EgressProofs`, `EnforcerProofs`, `EnforceProofs` | theorems about the module each is named after; `ContainProofs` also about `Watch`, `HarnessProofs` also about `Drift` | – |

An operator such as `RefuseAndForward` or `CloseKeepsPending` that stands just before
a definition and is used by nothing is a mutant: a plausible bug, listed under
`mutants`, that breaks the property named there.

### Proxy

State: the fields of `Proxy` under their own names, the program counter and
current line of each pump (`c2s`, `s2c`), each `Inject` call (`inj`: where it
is, its id, its sink, what it received), and the histories `toServer`,
`answered`, `toClient`, `refused`, `wants` the properties read. Every critical
section of `Proxy.mu` and every write, receive or send is one action; between
them anything may happen. An id is a namespace and a number, because all the code
ever asks of an id is whether it is a string and which prefix it has; `ask` and
`by` in a frame are the body the proxy never reads. The server may answer any
request, once, in any order, or never, may fail a `tools/list`, and may send
requests and notifications of its own under ids that look like the harness's.

`Proxy` implements `Relay` under the mapping `PhaseOf`: a request is new,
in flight, at the server, refused or answered.

### Control

`AwaitServant` with every first line (another type, wrong token, any version
range), the gap in which `installEnforcement` runs, `Ack`, and `Serve`, whose
`deliver` is split where the mutex is released: taking the sink and sending on
it are two steps. Each caller is a goroutine in `Request`. `Deadlined` callers
have a context that ends; the others pass one that does not.
The servant is external: it may answer a request any number of times and at any
delay, send an envelope of an unknown type or a line that does not parse, or go
away. Calls may start before the ack, as the session is handed to the engines
first.

### Harness

One session: the posture (`composed`, `bounded`, `tier`) is any the layers can
compose to, `seam` is the decider stack the pump loads, and `pump` keeps the
seam it loaded for the call it is at, as the code does. `servant` walks through
`AwaitServant`, the elevation gate, validation, the two swaps, the ack and
`Serve`. `main` is `Run`'s select and what follows it. A policy verdict is any
severity: which one the engine gives is the engine's business; what the seam does
with it, clamped by an audit-only mode, is modelled. The grant's two clocks are
one flag, `expired`, read once per call where the gate reads the time.

### Audit

`proc` is the log of one run of the harness (`AuditLog.mu` serialises its callers); `file` and `manifest` are the lines on
disk and `synced`, `manifestSynced` how many of them survive a power loss. A
hash is the history it commits to, so it is injective and nothing else.
A file has a name, and `createSessionFile` takes the first that is free: the stamp in
the name is the same for every session of the harness (`harness.go:163-167`, and
`main.go` sets none), so the name of a deleted file is given out again. Records name
files, and the verifier knows a session by that name.
`Kill` ends a session between any two steps; `PowerLoss` ends all and keeps
any prefix at least as long as what was synced, perhaps with a torn line behind;
`Damage` and `Drop` alter or delete the file of a session that has ended.
`faulty`, fixed at the start, is whether writes may stop half-way and syncs fail.
`VerifyChain`, `VerifyManifest`, `Problems` and `VerifyDirOK` are the verifier,
translated check by check.

### Contain

`Trip` is the kill switch; the ladder is `OnTrip`, one action per rung, with
a `Recover` for a call in `PanicAt` that panics; `worker` is the COM thread of
`firewallIsolate`, which works through the profiles while the ladder waits
for it or gives up; `stop` is the agent's graceful stop, `exit` the
process's exit with `Restore`, which may be given up on too (`RestoreTimesOut`). The
firewall is a function from profiles to two default actions that may be unset; a Put may
fail, or succeed and change nothing, in `Restore` as well, where nothing reads it back; and
an unset action is saved as "allow" when the registry cannot be read (`actionIsUnset`).
`amiss` remembers where one of the two happened.

### Drift

Two sides, chosen at the start. On the *wire* the server pump and `driftMonitor`
are two goroutines that hand lists to one observer: `OnClientFrame` notes a method
under an id, `OnServerFrame` takes it off, and `pinOrRecheck` is split where the
observer's mutex is released, between marking a surface as seen and pinning it, and
again between the latch of `compareSurface` and the report. In the *library* the
baselines are pinned before serving, the middlewares compare what is listed, and `Recheck`
re-lists the tools alone, as the in-process monitor does (`rugpull.go:349-360`).
`manifest` is what the server lists now; it may change, answer in any order and in
pages, fail, or stay silent (`server = "free"`), and a client may use an id again once
it was answered. The observer skips a page by its `nextCursor` and never looks at the
request's cursor, so the last page of a client that pages is taken for the list: `paged`
is what has happened of that to each surface. A fingerprint is the set it was taken of. `log` is the chained
reports; `taken` and `blind` are histories. A report is a call of `Trip` in `Contain`.

### Watch

The monitor loop, one action per thing a tick does (the kill file, each verifier,
the posture), and the watchdog, whose tick is two reads with a beat possibly between
them. Ages take the place of times. Every trigger reports; whether it is armed
decides if the server goes down, and `GoOn` if the loop goes on. A verifier may fail
or hang; kill files, with the token or without, come and go between ticks.

### HostMatch and Egress

A host name is the sequence of its labels from the root. Hosts and patterns are kept as
they are written: a trailing dot is a label of its own, a label need not be in punycode
(`ToASCII`, a constant, is what IDNA makes of it), and a pattern may have a blank before
it. `Normal` is what `normalizeHost` makes of a name; `Match` normalises both sides,
`coveredBy` compares wildcards as they are written. A host also has a form, for the
spellings of an address and for a name that cannot be encoded, and an address has
a class and may carry another inside it. A target without a port has that of its scheme. `composeEgress` and `ApplyManifest` are the
code's; the reference they are checked against is `reach`, what every layer allows
when asked by itself. `Egress` is then the proxy on the composed configuration:
each request a goroutine from `ServeHTTP` to its end, the resolver's answers any, a
tunnel two copying goroutines and their half-closes, `Stop` at any moment.

### Enforcer

The machine is `outbound`, `rules`, `disabled` and `wininet`; `file` is the state file.
A process recovers, applies, may suspend its exceptions, and restores. `Apply`,
its unwinding, the restore function and `Recover` are lists of jobs in the order of
the code, and each call of a job (a rule, a profile, a registry value, the state
file) is one step, which may fail, and before which the process may die. The firewall is
called on a COM thread, and a third thing may happen to it: `TimeOut`. The process then
goes on as after an error, and the thread is `adrift` with the calls it has not made, any
of which it may still make (`CallsLate`) or see fail (`FailsLate`) until the process is
gone. `mishaps` names the five ways in which the record of a change gets lost or
overtaken (section 4); the properties that need the record say which of them they except.

### Policy and Enforce

`Policy` is what a document says about one request: `matches`, `specificity`, the loop
that attributes a signal to a rule (`attributed`), constraints, `clamp`, `RequiresPlan`,
`Validate`, and `Compose`, which keeps the layers apart. `Enforce` is a decision point
at work, in the server's middleware, where calls overlap, or on the wire, where one
goroutine decides. A call goes through the plan gate, reads its signals through the
cache (`Read` up to the unlock, a probe, `Store`), takes a stamp, takes its place in
the rate windows, and is decided; a held one posts, polls and waits until a signed
answer, the deadline or a cancelled context. At the server a probe ends within `MaxEval`,
since the clients it uses have timeouts (`guardrails/signals/remote.go:66`, `graph.go:69`);
on the wire it is `fetchSignal` under `context.Background()`, and nothing bounds it. The
argument context is `callArguments`, which differs on the two sides for `null`. `Refresh`
runs beside the calls. `signed` is what
the approver really decided; a reply may say anything under any signature there is.

## 3. The runs

| Run | Instance | What it shows |
|---|---|---|
| `proxy` | a client that lists under the id the first `Inject` draws and calls under a plain one; one `Inject` | `InjectGetsOwnAnswer`, `SinkReadyForSend`, `InjectEndsAfterClose`; `FaithfulPipe` (`UniqueIdsAtServer`, `AnswersKeepClientId`, `AnsweredOnce`, `RefusedNeverForwarded`, `InjectedStaysInside`, `ListsCarryTools`); the refinement `ImplementsRelay` |
| `control` | every hello with versions 0 and 2 against 1..1; two callers, two requests | `SessionIsAuthentic`, `RequestGetsOwnAnswer`, `SinkReadyForSend`, `CallersEnd` (`RequestsEnd`, `DeadlinedEnd`) |
| `harness` | a granted call, an ungranted one, the Kill tool; every posture | `FailClosed`, `BoundedAlways`, `AckIsTrue` (`HonestAck`, `NeverUnguarded`, `FatalNeverAcked`), `SessionEnds` (`FatalEnds`, `KillEnds`, `ClientEOFEnds`) |
| `audit` | two sessions in turn, two entries each and two file names, a sound disk and a faulty one | `StrictMeansComplete`, `FlushedSurvive`, `HonestHistory` (`HonestDirVerifies`, `SessionsLeaveATrace`) |
| `contain` | two triggers, one profile with a configured side and one never set, every set of rungs, every panic | `LadderIsTrue` (`OneIncident`, `EndedLadderIsComplete`, `ObservedIsTrue`), `EvidenceFirst` (`IncidentDurableFirst`, `ForensicsBeforeShutdown`), `RestoreIsExact`, `TripAborts` |
| `drift` | two surfaces, two manifests, one of them empty, one change, two requests under one id, lists in full and in pages | `AttributedRight`, `DriftIsReported` (`ReportsAreReal`, `ReportedOnce`, `SeenDriftIsReported`, `UncomparedOnlyWhilePinned`), `NothingStaysUnseen` (`SeenIsPinned`, `StandingDriftIsReported`) |
| `drift_own` | one surface that never changes | `OwnToolsAreNoDrift` is violated, see below |
| `watch` | everything watched, armed or not, and each part by itself | `AlarmsAreTrue` (`OncePerStall`, `KillFileIsTheOperators`), `StallIsReported`, `NothingIsMissed` (`KillFileIsObeyed`, `PostureDriftIsFound`, `EndsWithSession`) |
| `egress` | all pairs of 15 layer blocks, with and without a manifest, wildcards in three spellings; two requests | `ReachIsExact` (`DialsWhatEveryLayerAllows`, `RefusedLeaveNoQuery`, `NoUndueRefusal`), `CountsAreFaithful` (`EndedAreCounted`, `DeniedTableIsFaithful`), `TunnelEnds` |
| `enforcer` | three processes, two crashes, one call that fails or is given up on; every tier | `BlockIsRecoverable` (`BlockIsRecorded`, `ExceptionsWhileBlocked`), `StartUndoesCrash`, `GivenBack` (`RestorePutsBack`, `RefusedApplyUndone`, `ForeignRulesStay`) |
| `enforce` | forty-odd decision points, each with up to four requests, that bring out one thing each | `VerdictsFollow` (`NarrowRulePrevails`, `LayersOnlyNarrow`, `ConstraintsCount`, `AuditModeRefusesNothing`), `ReadingsAreFresh`, `RateIsBounded`, `ApprovalsAreTrue` (`NoUnapprovedRun`, `OutcomesAreTrue`), `CallsEnd` |
| `enforce_null` | the same | `NoConstraintDodged` is violated, see below |

A property followed by names in brackets is their conjunction; each part is a definition
of its own with its own comment. `TypeOK` is checked by itself in `proxy`, `control` and
`harness`, where it is proved as well, and elsewhere as one more conjunct of
`HonestHistory`, `LadderIsTrue`, `DriftIsReported`, `AlarmsAreTrue`, `CountsAreFaithful`,
`GivenBack` and `VerdictsFollow`.

The violation is the result of two runs, each of which checks a sentence of the repository
(quoted under `findings`) against the code.

`drift_own` checks one of `docs/architecture.md`. The harness's own tools are in the list the client
gets when it is fingerprinted, but not in the answer to `driftMonitor`'s re-list, which
never passes `maybeInjectTools`. With a server that changes nothing the second
fingerprint of `tools/list` diverges from the first, drift is reported, and the latch
then hides a real one.

`enforce_null` checks the comment on `subjectFor` (`guardrails/enforce/enforce.go:420-423`):
"a caller cannot dodge a constraint". With `"arguments": null` the decoder sets the empty
map that was made for it to nil, and the engine skips all constraints of a subject without
a map (`engine.go:315`). `ConstraintsCount`, a part of `VerdictsFollow`, is the same
property of all other arguments and of the wire.

### Bounds, and why they are enough

* **Proxy**: `MaxInject` bounds `nextID`. The hazards are between one client
  request and one or two injected ones: a clash of ids (the client holds the id
  the first call will draw), a sink still in use when the next is made, a late
  answer. The run reaches all but the second; correlation and hand-over are
  proved for any number of calls, and for any client ids.
* **Control**: two callers, one with a deadline, and two requests by either, so
  that an answer may be late (its caller already has another request), doubled,
  and racing both `closePending` and a context. With three requests the run
  passes too, in five and a half minutes. Versions 0 and 2 give a range too old,
  one too new, one inverted, and one that contains the harness's only version.
* **Harness**: calls are independent but for the pump, so one of each kind is
  enough; all postures are initial states, all handshake outcomes are steps.
* **Audit**: two sessions are needed for a manifest with a predecessor, two
  entries for a chain with an interior. With two names the second session finds the name
  of the first taken, or free again; `MaxNames` is 1001 in the code. The run keeps the sessions one after
  another; with overlap `StrictMeansComplete` holds as well, on an exploration
  that takes somewhat longer than five minutes. Sessions and events are symmetric.
* **Contain**: a profile with a configured side and one that was never set has both
  cases of a restore, and an isolation may stop between the two; two triggers for the race of
  `Trip`. The safety properties are proved for any number of profiles.
* **Drift**: two surfaces so that the drift of one could mask another's, one id used
  twice so that an answer could be taken for another's, an empty manifest because an
  empty list is a fingerprint too, two requests because a last page needs a page before
  it, one change because a second one meets the latch.
* **Watch**: `maxAge = 1` and ages one past it tell fresh, due and overdue apart; a
  posture interval of two ticks is longer than a tick, of one equal to it.
* **Egress**: the layers contain a wildcard, plain, with a trailing dot and with a blank
  before it, its apex, a name below it in punycode and not, a narrower
  wildcard and an address literal, ports unset, shared and disjoint; two requests race
  for one place in the table of refused hosts.
* **Enforcer**: a session that dies, one that recovers and may die or fail itself, and
  one that finds the result; three profiles, one application rule, one exception.
  More than one failed or abandoned call in one history is left out (`MaxFails`).
* **Enforce**: `until` bounds the time in which calls come in. One session for each
  question (two layers in each mix of modes; every pair of a narrow and a broader
  rule; arguments in and out of bounds, left out, unreadable and null, on both sides; two
  calls and a refresh over a cached and a live
  signal; four calls at a window for two; two calls held at once; plan gates): the parts
  share nothing but the verdict. `Epoch` is past every TTL, as a clock is past the
  zero time.

Deadlock is not checked: every model ends, by design, with a session that is
over and peers that may say nothing more. That a call or a session does
not stop *early* is what the liveness properties are for.

### Fairness

Only steps of the harness's own goroutines are fair, and only where the code
loops or selects without a bound of its own. No peer is assumed to answer, but for the
promises named here, each of which its property states as a condition or a hazard names.

* **Proxy** `FairSpec`: weak fairness of each step of an `Inject` call, and of the
  server pump's send once it holds an answer and its sink. The peers' reads and writes
  are not fair.
* **Control** `FairSpec`: the servant goroutine's steps, the read loop's
  reception of what has arrived and of EOF, and each caller's own steps. Nothing of
  the servant.
* **Harness** `FairSpec`: the servant goroutine, the client pump except while it
  waits for a signal answer, `Run`'s select and reaping, the kill that
  `exec.CommandContext` performs on cancellation, and one external promise: a
  child whose stdin is closed and for which `Run` waits does exit. Without the
  last one `ClientEOFEnds` does not hold, as `Run` waits without a bound; it is
  listed as a hazard.
* **Contain** `LiveSpec`: `OnTrip`'s goroutine goes on. The COM thread may hang
  for ever: the timeout is a step of the ladder.
* **Drift** `DriftFairness`: both goroutines, the ticker and the library's recheck; a server
  of the kind `"answers"` takes up each request, one of the kind `"free"` owes nothing.
  `StandingDriftIsReported` is claimed for the former alone: `Inject` has no timeout.
* **Watch** `WatchFairness`: time, the loop when it does not hang, the watchdog; strong
  fairness of the two `ctx.Done` branches, since a Go `select` picks among ready cases at
  random and so takes a lasting one in the end.
* **Egress** `Fairness`: a handler goes on (dials have a timeout); a peer that has been
  told of the other's end by a half-close ends too. Nothing else of the peers.
* **Enforce** `Fairness`: a call's own steps, the end of a probe at the server (its client
  has a timeout), time. The approver need never decide and no request need be answered. On
  the wire the end of a probe is not fair: a silent servant holds a call for ever
  (`signalsource.go:50`), and `CallsEnd` is claimed there of calls whose probes end.
* **Audit** and **Enforcer** have no liveness.

## 4. Other divergences

Met while modelling; the models contain the behaviour, and the properties above
state the condition under which the documented sentence does hold.
(For the manifest of overlapping sessions set `Overlap = TRUE` in `Audit`.)

| Where | Sentence | What the code does |
|---|---|---|
| `internal/proxy/proxy.go:418` | an injected request's response "never reaches the client" (:180) | it does when it is late, after the context ended: `InjectedStaysInside` has that condition |
| `internal/proxy/proxy.go:422` | everything but trespassing requests "is byte-faithful" (:403-406) | an answer under a client id that spells a remapped id is rewritten; `AnswersKeepClientId` is checked for clients without such ids |
| `internal/proxy/proxy.go:329` | tools are appended "to every tools/list result" (:81-82) | only under string ids: the condition `IsString` of `ListsCarryTools` |
| `internal/proxy/proxy.go:211` | `Inject` "returns the raw response frame" (:179-180) | woken by `close` it returns nil and no error: the result `"nil"` |
| `internal/proxy/proxy.go:171` | "Both directions stop before Run returns." (:161) | `close` waits for one pump only |
| `internal/harness/harness.go:259` | "The servant blocks reading the ack, so nothing races this ordering" (:246-248) | the session is handed out before the ack: `HasSession` includes the stage `"ack"` |
| `internal/harness/harness.go:278` | "Never keep serving from cache" (`docs/wire-protocol.md:100-102`) | `ServeEnds` tells nobody |
| `internal/harness/harness.go:215-219` | "Never run degraded", "anything else (or a wrong token) kills the child" (`docs/wire-protocol.md:49-50`, `:31-32`) | only a bad token is fatal: `AwaitServant` |
| `internal/enforce/enforce.go:243` | on a kill verdict "The kill switch trips" (`docs/policy-config.md:33`) | the call is refused and nothing else happens: `Decide` |
| `guardrails/audit/manifest.go:124` | a crashed session "still left an open record" (:33-34) | not when it is killed before writing it: the exception in `HonestDirVerifies` |
| `guardrails/audit/manifest.go:162` | "that is how a dropped or rewritten session is caught" (`verify.go:132-135`) | a session that takes the name of a deleted file also takes its place in the verification, which knows sessions by their names (:170-177, :207, :223-227): `Reused` in `StrictMeansComplete` |
| `guardrails/contain/firewall_windows.go:164` | `Restore` "reinstates the saved actions" (:99-100) | "A Put that returns no error has not necessarily changed anything" (:139-140), and here nothing reads it back: the exception `"put"` in `RestoreIsExact`; an unset action that could not be read becomes "allow", as :62-63 says |
| `guardrails/contain/firewall_windows.go:257` | a panic on the ladder: "the session is being aborted anyway" (`killaction.go:117`) | not one on the COM thread, `WorkerPanics` |
| `internal/control/control.go:290` | `closePending` runs "so a caller blocked in Request unblocks rather than waiting for its context" (:259-260) | a request registered after it, or before an ack whose write fails, is never woken: the condition of `RequestsEnd` |
| `internal/enforce/enforce.go:243` | a held call "is suspended on an out-of-band human decision" (`docs/policy-config.md:31`) | on the wire every verdict below deny is forwarded: `Decide` |
| `guardrails/audit/manifest.go:148` | records are "each linked to the previous record's hash" (:30-33) | the head is read once: two overlapping sessions write records with one predecessor and `VerifyManifest` fails on an undamaged directory |
| `guardrails/audit/manifest.go:249` | "a write failure does not leave a gap" (`audit.go:194-196`) | a write that stops half-way leaves a torn line to which the next entry is appended: `Torn` |
| `guardrails/contain/firewall_windows.go:153` | "Restore undoes network isolation if it was applied" (`killaction.go:240`) | not the profiles blocked before one failed, or by an abandoned thread: no restore function is returned |
| `guardrails/egress/enforcer_windows.go:219-231` | the record is persisted before the machine is changed (`enforcer.go:16-18`) | the proxy-only tier changes WinINET first: the mishap `"unrecorded"` |
| `guardrails/egress/state_windows.go:86` | the same | the record is rewritten in place; a crash in the write leaves none: `"torn"` |
| `guardrails/egress/enforcer_windows.go:228` | the same | an unelevated proxy-only session writes over the record of a dead elevated one: `"overwrote"` |
| `guardrails/egress/enforcer_windows.go:150` | a failed `Apply` leaves the machine as it was found | `setDefaultOutbound` that fails at the second profile leaves the first blocked: `"halfFlip"` |
| `guardrails/egress/enforcer_windows.go:144` | "nothing was installed" | after `ErrCOMThreadTimeout` the rules that are in stay, and the thread may add more: `"timedOut"` |
| `guardrails/egress/enforcer_windows.go:151` | a failed `Apply` leaves the machine as it was found | after a flip that timed out the rules and the record go, and the thread may block every profile then: a blocked machine with no record and no exceptions, `"timedOut"` in `BlockIsRecoverable` and `GivenBack` |
| `guardrails/egress/enforcer_windows.go:257` | a blocked machine keeps its exceptions | not after `Suspend`, by design: `ExceptionsWhileBlocked` asks for enabled ones until then |
| `guardrails/manifest/compose.go:283` | "A wildcard "*.x" … is covered only by a wildcard "*.y" with x at or below y" (:272-276) | as they are written: "*.example.com." and "*.example.com" drop each other, although each admits what the other does: the condition `plain` of `NoUndueRefusal` |
| `guardrails/manifest/compose.go:307` | "the composed reachable set can only shrink" (:89) | disjoint port lists become the default ports (`egresswire.go:55-58`): the condition of `DialsWhatEveryLayerAllows` |
| `guardrails/egress/egress.go:122` | `Stop` ends the service | hijacked tunnels go on: `Stop` |
| `guardrails/watch/heartbeat.go:113` | "Report once per stall" | twice, when the beat before the stall falls between the watchdog's two looks: `late` in `OncePerStall` |
| `guardrails/watch/monitor.go:95` | the kill file with the token is the operator's instruction | a file without it latches the check, and a later one with it is not read: `ignored` in `KillFileIsObeyed` |
| `internal/observe/observe.go:193` | "Only complete single-page responses are fingerprinted: a paginated list would otherwise read as drift" (:180-182) | a page is known by its `nextCursor` alone, also at :209 and :224; the last page of a client that pages is pinned, or compared, as the list (and replaces the tool index): the exception `paged` in `ReportsAreReal` |
| `guardrails/policy/engine.go:269` | a limit bounds the calls in a window | the stamp is taken before the lock; a call overtaken there is counted in a window that ends in the past: `overtaken` in `RateIsBounded` |
| `guardrails/policy/engine.go:570` | the same | a refused call is a hit too, so a steady caller stays refused |
| `guardrails/policy/signalcache.go:114` | a reading is at most its TTL old | it is dated when the probe ends, and an older sample may overwrite a newer one: `ReadingsAreFresh` adds the longest probe at the server, and on the wire, where there is none, the time of its own. It is the age at the read; the probes of the signals after it pass before the decision (`engine.go:326-327`) |
| `internal/harness/signalsource.go:50` | "Any failure — a dead channel, a malformed reply, an empty result — is an error-status result" (:41-44) | a servant that says nothing is no failure: the call waits as long as the channel is open (`internal/enforce/enforce.go:126`): the condition of `CallsEnd` |
| `guardrails/enforce/approval.go:227` | a pending reply's `poll_url` "is not trusted to redirect polling, which is checked by the caller" (:96-97) | `Await` polls it as given |
| `guardrails/enforce/enforce.go:141` | a verdict is about the state of the device | it is not taken again after the wait for an approval |
| `guardrails/manifest/compose.go:98` | `require_plan` is composed for the session | nothing on the wire asks for a plan: `Arrive` |
| `guardrails/contain/killaction.go:120` | the same as for `firewall_windows.go:257` | not one in `finalize`, which the recover calls again: `Recover` |

## 5. What is proved

All theorems hold for every value of the constants that the named assumption of
the module admits: `ProxyConstants`, `ControlConstants`, `HarnessConstants`,
`WatchConstants`, `AuditConstants` (bounds are naturals, switches Boolean, subsets
are subsets); `ContainConstants`
(there is at least one firewall profile); `EnforcerConstants` (the names are finite
sequences, a session that blocks applications blocks at least one, the foreign rules
that a state file may name are finitely many, and names of different kinds differ);
`EgressConstants` (layers are egress
blocks, hosts are hosts, requests are finitely many, and IDNA makes labels of labels); `DriftConstants` (the surfaces are
those of the code, manifests are finite, and the harness's tools are no tools of the
server's); `EnforceConstants` (documents
are decoded policies, the server side has one of them, and the clock is further from
its zero than any TTL, as a wall clock is). Each rests on an invariant that
is inductive relative to `TypeOK`.

**ProxyProofs.** `TypeCorrect`, `InjectCorrelated` (`InjectGetsOwnAnswer`),
`SinkHandOver` (`SinkReadyForSend`). The invariant `Correlation`:
`ReservedAtServer` (a request at the server under a reserved id is the
harness's, and carries its own id: what remapping is for), `IdsBelowNext` (every
id handed out is at most `nextID`, so the next is fresh), `SinksOpen` (a sink is
reached through `pending` or through the pump that took it out, never both) and
`BoxesOwn` (a sink holds the answer to its own call). `InjectGetsOwnAnswer` alone is
not inductive: it says nothing about the frame the pump holds.

`PipeFaithful` (`FaithfulPipe`) and `PumpsImplementRelay` (`ImplementsRelay`) need more:
`Faith` follows every request through the pipe. `Servers` and `Upward` say what the
server holds and what the client pump is about to give it (each request once, under
an id no other request has), `Remaps` and `Injected` what the proxy remembers for as
long as an answer is `Owed`, `Downward` and `AtClient` the way back, and `Lists` which
responses carry tools. `OwedOnce` is the fact the way back rests on: a response has one
origin (`OneOrigin`), and once its answer is routed it is never owed again. For
`InjectedStaysInside`, `CallOf` relates the position of an `Inject` call to whether its
request was sent, answered or given up, since the deferred delete in `Inject` may forget a sink
only when the answer was delivered or the session is over. The step simulation of
`Relay` then has one case per action.

Both theorems have the hypothesis `PlainClients`: no client id begins with
`remapPrefix`. The code does not enforce it: only `reservedPrefix` ids are remapped, and
`routeServerFrame` gives the answer to a client id that is spelt like a live remapped
one the other request's id. The instance of the `proxy` run satisfies it. The theorems on correlation
do not need it.

**ControlProofs.** `TypeCorrect`, `RequestCorrelated`
(`RequestGetsOwnAnswer`), `SinkHandOver`, `AlwaysAuthentic`
(`SessionIsAuthentic`). The invariant, again `Correlation`: `WireTraced` and `HandTraced` (an
envelope on the wire or in `deliver`'s hand carries the id its asker drew),
`IdsOwn`, `PendingOpen`, `BoxesOwn`. `NegotiateHighest` is the lemma on
`Candidate`: the version picked is the greatest both ranges contain.

**HarnessProofs.** `AlwaysFailClosed` and `AlwaysBounded` from `Fenced`: the seam
*and the seam a call took* are both guarded by what the posture requires, and a
call past the gate is within the grant. `AlwaysHonest`, `AlwaysGuarded` and
`FatalUnacked`, and with them `AckAlwaysTrue` (`AckIsTrue`), from `Staged`: what the servant's stage says about the swaps, the
ack and the fatal error.

The module also has `AnswersAttributed` (`AttributedRight`) and `DriftReported`
(`DriftIsReported`, with its types), of `Drift`, whose `driftMonitor` the same session
runs; it has names of its own where `Harness` has the same. Both from `DriftInvariant`, and
`DriftInv` is, besides the types,

* `Attributed`: an unanswered request of the client is noted under its id, which no other
  such request has, and there is at most one re-list, the one `driftMonitor` waits for;
* `Real`: what a goroutine holds, and every baseline, is a list the server has had, or one
  of tools once the harness adds its own, or the last page of one, and a latch was set for a reason;
* `Latched`: a set latch is reported or has one goroutine that is about to, never both;
* `Pinned`: a surface that is marked has a baseline or one goroutine about to pin it, so
  that a list can miss the baseline only in between;
* `Compared`: of a surface no list of which missed the baseline, all that was handled is the
  baseline, or its latch is set.

`Real` rests on `ListedInFull`: as many entries as a manifest has, all of them its own and
none twice, are that manifest. `Starts` is the one description of all five ways in which a list gets
into a goroutine's hands, so that each part has one case for them.

**AuditProofs.** `StrictIsComplete` (`StrictMeansComplete`), `FlushIsDurable`
(`FlushedSurvive`), `HistoryIsHonest` (`HonestHistory`), for any number of sessions,
events and entries. None of the three is inductive; the invariants under them are

* `Inv`, on any disk and for overlapping sessions: what a session has accepted is a
  chain whose length and head are `proc`'s (`Chained`), a seal in the manifest repeats
  them and its session can no longer append (`Recorded`), no two files in the directory
  have one name (`Named`), and nothing is accepted before the
  open record is among the durable lines of the manifest, or lost behind a torn one that makes
  the directory unreadable (`Traced`);
* `Durable`, on a disk that does not fault: a file nobody touched is the start of what
  was accepted, as long as it while its session runs, and wholly synced once a seal is
  written, which is why `Close` syncs the entries before the seal;
* `Alone`, with one session at a time on such a disk: the manifest is a chain and the
  running session holds its head.

`StrictIsComplete` needs only `Inv`, and `OneHeadOneChain`: two chains of one length and
one head are the same. `NameIsSession` is where a reused name has to be excepted: only a
name that one session has had stands for that session. `OneHeadOneChain` is read from the end, since a hash commits to its entry and to the hash
before it (`HashReadsBack`), and a first index at which the chains part would have
a predecessor (`LeastNat`). `HistoryIsHonest` has the hypothesis `~Overlap`: each session reads the
manifest's head once, when it opens, so two sessions that overlap fork the manifest's chain.
Its part `SessionsLeaveATrace` follows from `Inv` alone. `OneMoves` reduces every action to what it does to one session and
to the manifest, so that each invariant has one case per kind of move.

**ContainProofs.** `RestoreExact` (`RestoreIsExact`), `LadderTrue`
(`LadderIsTrue`), `EvidenceAlwaysFirst` (`EvidenceFirst`), for any number of
profiles, callers and panicking rungs. `Saving`: what the COM thread has saved is
what was there, or "allow" for an unset action that could not be read, and it has changed
only what it saved. `Restoring`: the saved sequence reaches `Restore` unharmed, and a
`Restore` without an error has put back every side of the profiles up to the one it is at,
but for Puts that changed nothing (`Back`); and no step unsets a side that was configured
(`Set`). `Story` is what the position on the ladder says about the
log: the incident is told once (`Told`), nothing that changes the machine can
begin before it is durable (`Evidence`), a rung that is reached means the ones
before it are done and their entries are durable (`Climbed`), no rung runs before the banner
(`Bannered`), and what the COM
thread saw blocked is blocked until `Restore` (`Observed`).

The module also has `AlarmsTrue` (`AlarmsAreTrue` of `Watch`, whose triggers trip the
switch; it has names of its own where `Contain` has the same), from `Stall`, which ties the
number of reports of a stall to the watchdog's latch and to the beat it has not yet
seen, and `KillFile`, which ties the one firing to the latch and the token.

**EgressProofs.** `IntersectionIsExact`: the intersection of two allowlists admits a
host only when both do, and whenever both do if their wildcards are written as `Compile` keeps
them (`WildcardsPlain`). The first half holds of any spelling because what is written below a
name is below it after normalisation (`NormalBelow`). The heart of the second is
`OneIsCovered`: two patterns that admit the
same host are comparable, because two suffixes of one name are. `ComposeIsExact` and
`ManifestIsExact` lift it to the composition of a session, which gives `Agreed`;
with `Served` (how far a request has come says what was decided of it) and `Seen`
(what was looked up and dialled was allowed) it gives `ReachExact` (`ReachIsExact`).
`CountsFaithful` (`CountsAreFaithful`): the totals are stated with cardinalities, so
`Counted` follows each step's effect on the set of requests that are over; `Table` has the
bound of the table of refused hosts, and `Noted` relates the sum of its rows to the
refusals counted. That sum is a fold of the library over a set, in the order in which
`CHOOSE` takes its elements. `SumExists` shows that there is a function the fold's equation
defines, `AnyOrder` that any element may be taken first, `SumsAgree` that only the rows
themselves matter, and `SumOfOneMore`, which the step needs, follows.

**EnforcerProofs.** `BlockedIsRecoverable` (`BlockIsRecoverable`), `StartUndoes`
(`StartUndoesCrash`) and `MachineGivenBack` (`GivenBack`), for any rules and exceptions
and any number of sessions, crashes and failing calls. What a session has changed is in
up to three places, the machine, the process's memory and the state file, and none of
the properties says how they go together at every call. `Inv` does. Its first part holds in
every history; the others in those in which no COM thread was given up on (`Prompt`), each
resting on the ones before it:

* `Typed`: with the types, which jobs may be left of an Apply or an undo and which items
  of the first (`Plan`), and that a record of a global block names its exceptions (`Matter`);
* `Files`: when the file is what the process remembers. It is from the first write to the
  last job of an undo, but for the moment of a write (`Filling`) and for the settings that
  the second write adds;
* `Returned`: what the session remembers leads from the machine as it is to the machine
  Apply found (`Session`, `Applying`), and an undo leads there, `Undoing(found)`: what is
  not yet as it was is recorded as it was, and still to come (`Pending`);
* `Recoverable`, up to one failing call: the exceptions are there while the machine is
  blocked, the file says how to unblock it, and an undo that may remove a rule has put the
  default actions back, or gives up before it does;
* `Undoable`, when nothing has gone wrong: what is not the user's is in the file, and
  Recover leads back to the user's machine, `Undoing(original)`;
* `Enabled`: the exceptions that are in are enabled until a kill suspends them.

The two undos of the code, Recover and restore, and the unwinding of a failed Apply are one
argument, four lemmas about `Undoing(T)` (`UndoingBegins`, `UndoingStep`, `UndoingNext`,
`UndoingEnds`). The exceptions of the properties (a torn, overwritten or missing record, the
half-done flip, a thread given up on) are where the induction breaks: each of them is a step
from which no invariant of this kind leads on. What does hold of an abandoned thread is in the
first part of `Inv`: it removes no rule outside the namespace, so that foreign rules
stay (`LateTyped`).

**EnforceProofs.** The longest of the decision path. `IndInv` says of every call how far it is
(`StageOf`), that its verdict is the one of the layers that are done (`VerdictOf`)
and that its readings and the one its probe will bring are fresh (`FreshOf`); of
the cache, that every entry was sampled before it was dated and at the server at most
`MaxEval` before, whoever wrote it; of the limiters, that they hold stamps. From it:

* `FreshReadings` (`ReadingsAreFresh`);
* `Verdicts` (`VerdictsFollow`), with two facts about the engine for any list of
  rules: `AttributionIsMostSpecific` (a signal is attributed to a matching rule that
  requires it and no other such rule is more specific) and `EnginesAreLayers`; for
  `ConstraintsCount`, `VerdictOf` also says that a rule whose constraint is not met has had
  its say, and `ContextFails` that the context a rule sees fails what the request fails, but
  for null at the server;
* `ApprovalsTrue` (`ApprovalsAreTrue`), with `OutcomesAreTrue`, inductive relative
  to `IndInv`;
* `RateBounded` (`RateIsBounded`) from `RateInv`. The bound itself is not inductive,
  since a window forgets. `Placed` says what it remembers: there is an injection from
  the calls that were counted into the places of the window, but for calls whose stamp
  is a window older than some stamp still in it. `CountStep` carries the injection over
  one turn of the limiter, and a call that nothing overtook finds the calls of
  its window among the places, of which there are at most `max` when it passes.

The loops of the source (the attribution over the rules, the sift of the window) are
recursive functions here, and the sum of the table of refused hosts is a fold. That such
a function exists and what it computes is proved from `LeastNat`: an assumed
counterexample has a least index or a smallest set, which gives one by contradiction. The
library's induction rules, which take an operator as a parameter, are not needed.

## 6. What is only model-checked

Liveness under fairness (`InjectEndsAfterClose`, `CallersEnd`, `SessionEnds`,
`TripAborts`, `NothingStaysUnseen`, `StallIsReported`, `NothingIsMissed`, `TunnelEnds`,
`CallsEnd`), which is out of the prover's reach. Every other property that a passing run
checks is a theorem of section 5 (`FaithfulPipe`, `ImplementsRelay` and `HonestHistory` under
the hypotheses named there).

## 7. What is left out

* In **Proxy**, JSON itself: `peekFrame`, `rewriteID` and `appendTools` are
  modelled by what they recognise and change. The observer's taps see frames and
  change nothing here; they are in Drift.
* In **Control**, the listener and the pipe's platform code; `Request`'s payloads.
* In **Harness**, spawning the child, the GuardrailStatus tool, which
  changes no state, and the two separate clocks of the grant.
* In **Audit**, the single-file and stderr destinations, the HMAC and timestamps. A power loss never takes a directory entry; a write cut
  just before its newline counts as torn; a `Flush` that fails changes nothing.
* In **Contain**, what a rung does to the machine, except for the firewall; a
  `Flush` always succeeds, and all dependencies are wired.
* In **Drift**, the content of what is hashed: entries are told apart by name and
  two versions of an entry are two entries. `resources` and `discover` are like the
  other surfaces and not in the instance.
* In **Watch**, the text of the kill file beyond whether it holds the token.
* In **Egress**, HTTP itself, what IDNA computes (a function on labels, and a form that
  cannot be encoded), header stripping and the buffering of copies.
* In **Enforcer**, COM and the registry (a call succeeds, fails, or comes late), the DACL of the
  state directory, and two sessions at the same time.
* In **Policy** and **Enforce**, parsing, the spelling of names, `EvaluatePlan`,
  `ReadAll` and `Explain`; an argument is one value that is within its bounds or not; redaction
  and the wording of refusals; HTTP under the approval client.
* **Plans**: what executes them is not in this repository.
* Pure I/O and presentation (export, telemetry, status, evidence archives, the
  command line, probes of the device) are not modelled; `components` says why for each.

## 8. Plan

Done: the modules of section 2 and the proofs of section 5. What is left to prove of what
the runs check is liveness.

Worth modelling later: the two clocks of the grant in `Harness` and the wait between
`Check` and `Touch`; `EvaluatePlan`; an append-only durable log above `Audit`, and "each
incident is contained once" above `Watch`, `Drift` and `Contain`.
