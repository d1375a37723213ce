------------------------------ MODULE Drift -------------------------------
(***************************************************************************)
(* Drift detection: the detector (guardrails/watch/rugpull.go) as the two  *)
(* sides use it.  On the wire the observer (internal/observe/observe.go)   *)
(* attributes each answer to its request and pins or rechecks the surface  *)
(* it lists, from the server pump and from driftMonitor's re-lists         *)
(* (internal/harness/harness.go) at once.  In a server that links the      *)
(* library the baselines are pinned before serving, and the middlewares    *)
(* and the monitor's recheck compare with them.                            *)
(*                                                                         *)
(* The governed server, and what it answers, are external.  Names that     *)
(* Harness has too begin with drift, so that one module can speak of both. *)
(***************************************************************************)
EXTENDS Naturals, Sequences, SequencesExt, FiniteSets

CONSTANTS
  Surfaces,      \* the surfaces in play: of "tools", "prompts", "resources", "discover"
  Manifest,      \* the manifests a surface may have, each a set of entries
  HarnessTools,  \* the tools the harness adds to tools/list, as a sequence
  Ids,           \* the ids a client uses; one it has seen answered it may use again
  StringIds,     \* those that are strings
  MaxRequests,   \* how many requests it sends
  MaxChanges     \* how often the server changes a manifest

ASSUME DriftConstants ==
  /\ Surfaces \subseteq {"tools", "prompts", "resources", "discover"}
  /\ StringIds \subseteq Ids /\ MaxRequests \in Nat /\ MaxChanges \in Nat
  /\ HarnessTools \in Seq(ToSet(HarnessTools)) /\ ToSet(HarnessTools) \cap UNION Manifest = {}
  /\ \A m \in Manifest : IsFiniteSet(m)

VARIABLES
  side,       \* "wire" or "library"
  server,     \* "answers": every list in full; "free": as it likes, or not at all
  manifest, had,  \* per surface: what the server lists now, and all it has listed
  changes, requests, recorded,   \* how many there have been, and how many calls were chained
  outstanding, inbox,   \* the client's ids not yet answered; the requests at the server
  injecting,     \* the tool injector is installed
  pending, index, seen,   \* Observer.pending, index, seenSurfaces
  baselines, tripped,     \* RugPull.baselines, tripped
  go,         \* per goroutine: where it is, and the list it is at
  re,         \* the surfaces driftMonitor has still to re-list in this tick
  log,        \* the drifts chained
  taken, blind,   \* the fingerprints handled, and those that met no baseline
  paged       \* per surface: a cursor was "given" to the client; the last page was "read" as the list

wire == <<outstanding, inbox, pending, requests, recorded>>
host == <<side, server, manifest, had, changes>>
driftVars == <<side, server, manifest, had, changes, requests, recorded, outstanding, inbox,
               injecting, pending, index, seen, baselines, tripped, go, re, log, taken, blind,
               paged>>

Goroutines == {"pump", "monitor"}
Methods    == Surfaces \cup {"tools/call"}
Paginated  == Surfaces \ {"discover"}
Entries    == UNION Manifest
Fingerprint == SUBSET (Entries \cup ToSet(HarnessTools))
Put(f, k, v) == [x \in DOMAIN f \cup {k} |-> IF x = k THEN v ELSE f[x]]
Drop(f, k)   == [x \in DOMAIN f \ {k} |-> f[x]]
Rest == [at |-> "idle", surface |-> "none", list |-> <<>>, pinned |-> FALSE]

InPlay(s) == IF s \in Surfaces THEN <<s>> ELSE <<>>

RelistedTools == InPlay("tools")

\* What driftMonitor re-lists, in its order.
Relisted == InPlay("tools") \o InPlay("prompts") \o InPlay("resources")

DriftTypeOK ==
  /\ \A s \in Surfaces : manifest[s] \in Manifest /\ manifest[s] \in had[s]
  /\ outstanding \subseteq Ids /\ DOMAIN pending \subseteq Ids
  /\ \A i \in DOMAIN pending : pending[i] \in Methods
  /\ index \in Fingerprint /\ seen \subseteq Surfaces /\ tripped \subseteq Surfaces
  /\ paged \in [Surfaces -> {"no", "given", "read"}]
  /\ DOMAIN baselines \subseteq Surfaces /\ \A s \in DOMAIN baselines : baselines[s] \in Fingerprint
  /\ \A g \in Goroutines : go[g].at \in {"idle", "asked", "mark", "fn", "report"}
                           /\ go[g].surface \in Surfaces \cup {"none"}
  /\ \A k \in DOMAIN log : log[k] \in [surface : Surfaces, hash : Fingerprint, base : Fingerprint]
  /\ changes \in 0 .. MaxChanges /\ requests \in 0 .. MaxRequests /\ recorded \in 0 .. requests

\* The entries hashed in the order of their names, whatever order they were listed in.
HashTools(list) == ToSet(list)

\* On the wire nothing is pinned yet; a server pins what it has registered before it serves.
DriftInit ==
  /\ side \in {"wire", "library"} /\ server \in {"answers", "free"}
  /\ manifest \in [Surfaces -> Manifest] /\ had = [s \in Surfaces |-> {manifest[s]}]
  /\ baselines = IF side = "wire" THEN <<>> ELSE manifest
  /\ changes = 0 /\ requests = 0 /\ recorded = 0
  /\ outstanding = {} /\ inbox = {} /\ injecting = FALSE
  /\ pending = <<>> /\ index = {} /\ seen = {} /\ tripped = {}
  /\ go = [g \in Goroutines |-> Rest] /\ re = <<>>
  /\ log = <<>> /\ taken = [s \in Surfaces |-> {}] /\ blind = {}
  /\ paged = [s \in Surfaces |-> "no"]

-----------------------------------------------------------------------------
(* The server and the client (external).                                    *)

\* external: the server changes what it lists.
Mutate(s) ==
  /\ changes < MaxChanges
  /\ \E m \in Manifest \ {manifest[s]} :
       manifest' = [manifest EXCEPT ![s] = m] /\ had' = [had EXCEPT ![s] = @ \cup {m}]
  /\ changes' = changes + 1
  /\ UNCHANGED <<side, server, wire, injecting, index, paged, seen, baselines, tripped, go, re,
                 log, taken, blind>>

\* external: what it may list: all of a manifest in any order, or, on a page, some of it.
Listed(method, kind) ==
  IF method = "tools/call" \/ kind = "error" THEN {<<>>}
  ELSE IF kind = "full" THEN SetToSeqs(manifest[method])
  ELSE UNION {SetToSeqs(part) : part \in SUBSET manifest[method]}

\* external: its answer to a request: a list in full, a page with a nextCursor, the last page,
\* or an error.  Only a request that carries a cursor is answered by the last page.
Answer(r) ==
  LET kinds == IF server = "answers" \/ r.method = "tools/call" THEN {"full"}
               ELSE {IF r.cursor THEN "last" ELSE "full", "error"}
                      \cup (IF r.method \in Paginated THEN {"page"} ELSE {})
  IN  UNION {[kind : {k}, list : Listed(r.method, k)] : k \in kinds}

-----------------------------------------------------------------------------
(* The observer, on the client pump.                                        *)

\* The decidable methods are chained.
record(method) == recorded' = recorded + (IF method = "tools/call" THEN 1 ELSE 0)

OnClientFrameKeeps(id, method) ==
  /\ pending' = IF id \in DOMAIN pending THEN pending ELSE Put(pending, id, method)
  /\ record(method)

\* The request is noted under its id, and chained, before anything is decided about it.
OnClientFrame(id, method) == pending' = Put(pending, id, method) /\ record(method)

\* The proxy adds the harness's tools to the answer of a tools/list that it noted: one with a
\* string id, sent when the injector was there.
noteListRequest(id, method) == injecting /\ method = "tools" /\ id \in StringIds

\* A request goes to the server, unless the interceptor answers it, which only happens to a
\* decidable method; the note of a refused one stays.  A client has a cursor
\* when the server gave one.
ClientSends(id, method, cursor) ==
  /\ side = "wire" /\ requests < MaxRequests /\ id \notin outstanding
  /\ cursor => method \in Paginated /\ paged[method] # "no"
  /\ OnClientFrame(id, method)
  /\ requests' = requests + 1
  /\ \/ /\ outstanding' = outstanding \cup {id}
        /\ inbox' = inbox \cup {[to |-> "client", id |-> id, method |-> method,
                                  cursor |-> cursor,
                                  noted |-> noteListRequest(id, method)]}
     \/ method = "tools/call" /\ UNCHANGED <<outstanding, inbox>>
  /\ UNCHANGED <<host, injecting, index, paged, seen, baselines, tripped, go, re, log, taken,
                 blind>>

\* The servant has connected: enforcement, and with it the harness's tools, is installed.
installEnforcement ==
  /\ side = "wire" /\ ~injecting
  /\ injecting' = TRUE
  /\ UNCHANGED <<host, wire, index, paged, seen, baselines, tripped, go, re, log, taken, blind>>

-----------------------------------------------------------------------------
(* Fingerprints, on the server pump and in driftMonitor.                    *)

\* A result is read: one with a nextCursor is skipped, and so is what lists no surface.  The
\* request's cursor is not looked at: the last page is taken for the list.  A list of tools
\* is the new tool index.
fingerprint(g, surface, a, list) ==
  LET skipped == surface \notin Surfaces \/ a.kind \in {"page", "error"}
  IN  /\ go' = [go EXCEPT ![g] =
                  IF skipped THEN Rest
                  ELSE [Rest EXCEPT !.at = "mark", !.surface = surface,
                                    !.list = list]]
      /\ index' = IF skipped \/ surface # "tools" THEN index ELSE ToSet(list)

\* The server pump reads the answer to a client's request: it gets the harness's tools, and
\* is attributed and fingerprinted.  (The pump reads answers in the order they were written,
\* so an answer is taken to be written when it is read.)
OnServerFrame(r) ==
  /\ go["pump"].at = "idle" /\ r.to = "client" /\ inbox' = inbox \ {r}
  /\ \E a \in Answer(r) :
       /\ fingerprint("pump", IF r.id \in DOMAIN pending THEN pending[r.id] ELSE "none", a,
                      IF r.noted /\ a.kind # "error" THEN a.list \o HarnessTools ELSE a.list)
       /\ paged' = IF a.kind = "last" THEN [paged EXCEPT ![r.method] = "read"]
                   ELSE IF a.kind = "page" /\ paged[r.method] = "no"
                   THEN [paged EXCEPT ![r.method] = "given"]
                   ELSE paged
  /\ pending' = Drop(pending, r.id) /\ outstanding' = outstanding \ {r.id}
  /\ UNCHANGED <<host, requests, recorded, injecting, seen, baselines, tripped, re, log, taken,
                 blind>>

\* It reads the answer to a re-list, which goes to Inject's caller as the server wrote it.
FingerprintInjected(r) ==
  /\ go["pump"].at = "idle" /\ go["monitor"].at = "asked"
  /\ r.to = "monitor" /\ inbox' = inbox \ {r}
  /\ \E a \in Answer(r) : fingerprint("monitor", go["monitor"].surface, a, a.list)
  /\ UNCHANGED <<host, requests, recorded, outstanding, pending, injecting, paged, seen, baselines,
                 tripped, re, log, taken, blind>>

\* The surface is marked under the observer's lock; what follows happens outside it.
pinOrRecheck(g) ==
  /\ go[g].at = "mark"
  /\ seen' = seen \cup {go[g].surface}
  /\ go' = [go EXCEPT ![g].at = "fn", ![g].pinned = go[g].surface \in seen]
  /\ UNCHANGED <<host, wire, injecting, index, paged, baselines, tripped, re, log, taken, blind>>

setBaseline(g) ==
  /\ go[g].at = "fn" /\ ~go[g].pinned
  /\ baselines' = Put(baselines, go[g].surface, HashTools(go[g].list))
  /\ taken' = [taken EXCEPT ![go[g].surface] = @ \cup {HashTools(go[g].list)}]
  /\ go' = [go EXCEPT ![g] = Rest]
  /\ UNCHANGED <<host, wire, injecting, index, paged, seen, tripped, re, log, blind>>

TrippedAny(s) == tripped # {}

\* Drift of this surface has been reported: the latch is the surface's own.
Tripped(s) == s \in tripped

\* Test and latch are one step under the detector's lock; no baseline, no comparison.
compareSurface(g) ==
  /\ go[g].at = "fn" /\ go[g].pinned
  /\ LET s == go[g].surface
         hash == HashTools(go[g].list)
     IN  /\ taken' = [taken EXCEPT ![s] = @ \cup {hash}]
         /\ blind' = IF s \in DOMAIN baselines THEN blind ELSE blind \cup {s}
         /\ IF s \notin DOMAIN baselines \/ hash = baselines[s] \/ Tripped(s)
              THEN go' = [go EXCEPT ![g] = Rest] /\ UNCHANGED tripped
              ELSE go' = [go EXCEPT ![g].at = "report"] /\ tripped' = tripped \cup {s}
  /\ UNCHANGED <<host, wire, injecting, index, paged, seen, baselines, re, log>>

\* The drift is chained, and handed to the trip function.
Report(g) ==
  /\ go[g].at = "report"
  /\ log' = Append(log, [surface |-> go[g].surface, hash |-> HashTools(go[g].list),
                         base |-> baselines[go[g].surface]])
  /\ go' = [go EXCEPT ![g] = Rest]
  /\ UNCHANGED <<host, wire, injecting, index, paged, seen, baselines, tripped, re, taken, blind>>

-----------------------------------------------------------------------------
(* The two monitors, and the library's middlewares.                                    *)

\* A tick.  On the wire the surfaces are listed one after the other, each once the one before
\* is answered, and under no other deadline than the session's; the library's monitor
\* rechecks the tools, and other surfaces are compared only when a client lists them.
Tick ==
  /\ go["monitor"].at = "idle" /\ re = <<>>
  /\ re' = IF side = "wire" THEN Relisted ELSE InPlay("tools")
  /\ UNCHANGED <<host, wire, injecting, index, paged, seen, baselines, tripped, go, log, taken, blind>>

driftMonitor ==
  /\ side = "wire" /\ go["monitor"].at = "idle" /\ re # <<>>
  /\ re' = Tail(re)
  /\ inbox' = inbox \cup {[to |-> "monitor", id |-> 0, method |-> Head(re), cursor |-> FALSE,
                             noted |-> FALSE]}
  /\ go' = [go EXCEPT !["monitor"] = [Rest EXCEPT !.at = "asked", !.surface = Head(re)]]
  /\ UNCHANGED <<host, requests, recorded, outstanding, pending, injecting, index, paged, seen,
                 baselines, tripped, log, taken, blind>>

\* A list handler of the library has answered in full; a later page is not compared.
Middleware(s) ==
  /\ side = "library" /\ go["pump"].at = "idle"
  /\ \E list \in Listed(s, "full") :
       go' = [go EXCEPT !["pump"] = [Rest EXCEPT !.at = "fn", !.surface = s,
                                                !.list = list, !.pinned = TRUE]]
  /\ UNCHANGED <<host, wire, injecting, index, paged, seen, baselines, tripped, re, log, taken, blind>>

\* The library's monitor fingerprints the live tools.
Recheck ==
  /\ side = "library" /\ go["monitor"].at = "idle" /\ re # <<>>
  /\ re' = Tail(re)
  /\ \E list \in Listed(Head(re), "full") :
       go' = [go EXCEPT !["monitor"] = [Rest EXCEPT !.at = "fn", !.surface = Head(re),
                                          !.list = list, !.pinned = TRUE]]
  /\ UNCHANGED <<host, wire, injecting, index, paged, seen, baselines, tripped, log, taken, blind>>

Observe(g) ==
  pinOrRecheck(g) \/ setBaseline(g) \/ compareSurface(g) \/ Report(g)

DriftNext ==
  \/ \E s \in Surfaces : Mutate(s) \/ Middleware(s)
  \/ \E r \in inbox : OnServerFrame(r) \/ FingerprintInjected(r)
  \/ \E id \in Ids, method \in Methods, cursor \in BOOLEAN : ClientSends(id, method, cursor)
  \/ installEnforcement
  \/ \E g \in Goroutines : Observe(g)
  \/ Tick \/ driftMonitor \/ Recheck

\* Goroutines run and the ticker ticks.  Of the server nothing is assumed but what its kind
\* says: one that answers takes up every request it has.
DriftFairness ==
  /\ \A g \in Goroutines : WF_driftVars(Observe(g))
  /\ WF_driftVars(Tick) /\ WF_driftVars(driftMonitor)
  /\ WF_driftVars(Recheck)
  /\ WF_driftVars(server = "answers" /\ \E r \in inbox : OnServerFrame(r) \/ FingerprintInjected(r))

DriftSpec == DriftInit /\ [][DriftNext]_driftVars /\ DriftFairness

-----------------------------------------------------------------------------
(* Properties.                                                              *)

\* An answer is read as what its request asked for: no list is pinned or compared as another
\* kind of list, or goes unread, although ids come again and refused requests are not answered.
AttributedRight ==
  [][ \A r \in inbox \ inbox' :
        LET read == go'[IF r.to = "client" THEN "pump" ELSE "monitor"].surface
        IN  /\ read \in {r.method, "none"}
            /\ server = "answers" /\ r.method \in Surfaces => read = r.method ]_driftVars

\* Drift is chained only when the server has changed what it lists, or the harness has: order,
\* overlapping lists and pages with a nextCursor are no drift.  The one exception is a client
\* that pages to the end: the last page is taken for the list (observe.go:193, 209, 224).
ReportsAreReal ==
  \A k \in DOMAIN log :
    \/ Cardinality(had[log[k].surface]) > 1
    \/ log[k].surface = "tools" /\ injecting
    \/ paged[log[k].surface] = "read"

\* "a standing mutation is reported once" (rugpull.go:127-128), whichever goroutines meet it.
ReportedOnce ==
  \A j, k \in DOMAIN log : log[j].surface = log[k].surface => j = k

Handling(s) == \E g \in Goroutines : go[g].surface = s /\ go[g].at \in {"fn", "report"}
Reported(s) == \E k \in DOMAIN log : log[k].surface = s

\* Two different lists of a surface that have been handled are a reported drift, whatever was
\* reported of other surfaces, unless one of them met no baseline.
SeenDriftIsReported ==
  \A s \in Surfaces :
    /\ ~Handling(s) /\ s \notin blind
    /\ Cardinality(taken[s] \cup (IF s \in DOMAIN baselines THEN {baselines[s]} ELSE {})) > 1
    => Reported(s)

\* A list meets no baseline only while the other goroutine is between marking the surface as
\* seen and pinning it.
UncomparedOnlyWhilePinned ==
  [][ \A s \in blind' \ blind :
        \E g \in Goroutines : go[g].surface = s /\ go[g].at = "fn" /\ ~go[g].pinned ]_driftVars

\* A surface marked as seen is pinned, if the session goes on.
SeenIsPinned == \A s \in Surfaces : s \in seen ~> s \in DOMAIN baselines

\* Drift that stays is reported although the client lists nothing, as long as the server goes
\* on answering re-lists: each surface in its turn.  In the library only the tools are
\* rechecked (rugpull.go:349-360).
StandingDriftIsReported ==
  \A s \in Paginated :
    (server = "answers" /\ (side = "wire" \/ s = "tools") /\
     <>[](s \in DOMAIN baselines /\ manifest[s] # baselines[s]))
      => <>Reported(s)

\* No drift that was seen is lost and none is made up but of a last page: reports are real, one
\* a surface, and made for all that was handled, of which only the lists beside the first one
\* go uncompared (observe.go:252-265, rugpull.go:197-241).
DriftIsReported ==
  /\ [](DriftTypeOK /\ ReportsAreReal /\ ReportedOnce /\ SeenDriftIsReported)
  /\ UncomparedOnlyWhilePinned

\* Detection goes on by itself: what is seen is pinned, and what drifts and stays is found
\* (harness.go:309-340).
NothingStaysUnseen == SeenIsPinned /\ StandingDriftIsReported

\* docs/architecture.md:75: the harness's tools are "Injected into the proxied manifest before
\* fingerprinting (so no drift)".
OwnToolsAreNoDrift ==
  \A k \in DOMAIN log : Cardinality(had[log[k].surface]) > 1 \/ paged[log[k].surface] = "read"
=============================================================================
