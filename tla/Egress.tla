------------------------------ MODULE Egress ------------------------------
(***************************************************************************)
(* The loopback forward proxy (guardrails/egress/proxy.go) as the harness  *)
(* starts it from the composed policy (internal/harness/egresswire.go):    *)
(* requests served side by side, the decision of checkTarget, the one      *)
(* lookup and the dial to the address it vetted, tunnels with half-close,  *)
(* the counters and the bounded table of refused hosts.                    *)
(***************************************************************************)
EXTENDS HostMatch, FiniteSetsExt

CONSTANTS
  Requests,      \* the requests served, each by its own goroutine
  Hosts,         \* the hosts a client may name, as it writes them
  Ports,         \* the ports it may write; 0 when it writes none
  Layers,        \* the egress blocks a policy layer may carry
  OriginLists,   \* the origins a session manifest may carry
  Tokens,        \* is a token configured: a subset of BOOLEAN
  Answers,       \* what the resolver may answer: sequences of addresses
  maxTrackedDeniedHosts

ASSUME EgressConstants ==
  /\ maxTrackedDeniedHosts \in Nat /\ Tokens \subseteq BOOLEAN /\ IsFiniteSet(Requests)
  /\ Layers \subseteq EgressPolicy /\ \A o \in OriginLists : o \subseteq Pattern
  /\ DefaultPorts \subseteq Nat \ {0} /\ Ports \subseteq Nat
  /\ \A w \in Hosts : w.host \in Host
  /\ Answers \subseteq Seq(Addr)

VARIABLES
  cfg,       \* egress.Config, and whether the listener is up
  reach,     \* what every layer allows by itself: the reference for cfg
  req,       \* per request: what it asks and where its goroutine is
  counters, denied,   \* the totals, and the table of refused hosts
  queried,   \* the written hosts a lookup was made for, with the port asked
  dialled    \* the targets dialled: host, port, address, and was it a looked-up one

vars == <<cfg, reach, req, counters, denied, queried, dialled>>

Credential == {"none", "wrong", "bare", "bearer", "basic", "bad basic"}
Counter    == {"allowed", "deniedHost", "deniedPort", "deniedAddress", "deniedAuth", "failed"}
Stage == {"idle", "new", "resolve", "dial", "hijack", "respond", "tunnel", "done"}
Idle  == [at |-> "idle", connect |-> FALSE, written |-> Written(Name(<<>>), "plain"), port |-> 0,
          addr |-> Plain("public"), counted |-> {}, up |-> "none", down |-> "none", client |-> "open",
          upstream |-> "open"]

TypeOK ==
  /\ cfg \in [up : {"off", "refused", "up", "stopped"}, token : BOOLEAN, private : BOOLEAN,
              allow : SUBSET UNION {l.allow : l \in Layers \cup {[allow |-> UNION OriginLists]}},
              ports : SUBSET (Nat \ {0})]
  /\ \A r \in Requests : req[r].at \in Stage /\ req[r].port \in Nat /\ req[r].addr \in Addr
                         /\ req[r].up \in {"none", "copying", "done"}
                         /\ req[r].down \in {"none", "copying", "done"}
  /\ counters \in [Counter -> Nat]
  /\ denied \in [DOMAIN denied -> Nat \ {0}] /\ DOMAIN denied \subseteq Hosts
  /\ \A d \in dialled : d.addr \in Addr /\ d.port \in Nat \ {0}

\* What all the layers allow, each asked by itself.
EveryLayer(layers, origins) ==
  LET on == {l \in layers : l.enabled}
  IN  [hosts   |-> {w \in Hosts : /\ \A l \in on : Match(l.allow, w)
                                  /\ \A o \in origins : Match(o, w)},
       ports   |-> {p \in UNION {l.ports : l \in on} : \A l \in on : p \in l.ports},
       private |-> \A l \in on : l.private,
       plain   |-> /\ \A l \in on : WildcardsPlain(l.allow)
                   /\ \A o \in origins : WildcardsPlain(o)]

\* startEgressProxy: an allowlist that admits nothing is refused, empty ports are the default.
startEgressProxy(e, token) ==
  [up      |-> IF ~e.enabled THEN "off" ELSE IF e.allow = {} THEN "refused" ELSE "up",
   token   |-> token, allow |-> e.allow, private |-> e.private,
   ports   |-> IF e.ports = {} THEN DefaultPorts ELSE e.ports]

Init ==
  /\ \E m, u \in {Parse(l) : l \in Layers}, o \in {{}} \cup {{l} : l \in OriginLists}, t \in Tokens :
       /\ cfg = startEgressProxy(ApplyManifest(composeEgress(u, m), o), t)
       /\ reach = EveryLayer({m, u}, o)
  /\ req = [r \in Requests |-> Idle]
  /\ counters = [c \in Counter |-> 0] /\ denied = <<>>
  /\ queried = {} /\ dialled = {}

Count(cs) == counters' = [c \in Counter |-> counters[c] + (IF c \in cs THEN 1 ELSE 0)]

\* The request's goroutine goes on at s, or ends with the counters cs raised.
GoTo(r, s) == req' = [req EXCEPT ![r].at = s]
End(r, cs) == req' = [req EXCEPT ![r].at = "done", ![r].counted = cs] /\ Count(cs)

noteDenied(h) ==
  denied' = IF h \in DOMAIN denied THEN [denied EXCEPT ![h] = @ + 1]
            ELSE IF Cardinality(DOMAIN denied) >= maxTrackedDeniedHosts THEN denied
            ELSE [x \in DOMAIN denied \cup {h} |-> IF x = h THEN 1 ELSE denied[x]]

-----------------------------------------------------------------------------
(* ServeHTTP.                                                               *)

\* Any of the accepted forms that carries the token.
authorized(cred) == ~cfg.token \/ cred \in {"bare", "bearer", "basic"}

\* A target with no port has that of the way it is asked for: CONNECT, or an absolute URI.
Scheme == {"connect", "http", "https"}
splitTarget(scheme, port) == IF port # 0 THEN port ELSE IF scheme = "http" THEN 80 ELSE 443

Asked(w, port, scheme) ==
  [Idle EXCEPT !.at = "new", !.connect = (scheme = "connect"), !.written = w,
               !.port = splitTarget(scheme, port)]

\* A request arrives.  It ends here without the credential, or when its target cannot be
\* read: a relative URI, an empty authority, a port that is no number.
ServeHTTP(r) ==
  /\ cfg.up = "up" /\ req[r].at = "idle"
  /\ \E cred \in Credential :
       \/ ~authorized(cred) /\ End(r, {"deniedAuth"})
       \/ authorized(cred) /\ End(r, {"failed"})
       \/ /\ authorized(cred)
          /\ \E w \in Hosts, port \in Ports, scheme \in Scheme :
               req' = [req EXCEPT ![r] = Asked(w, port, scheme)]
          /\ UNCHANGED counters
  /\ UNCHANGED <<cfg, reach, denied, queried, dialled>>

denyHost(r) ==
  /\ End(r, {"deniedHost"}) /\ noteDenied(req[r].written)
  /\ UNCHANGED <<cfg, reach, queried, dialled>>

denyAddress(r) ==
  /\ End(r, {"deniedAddress"}) /\ noteDenied(req[r].written)
  /\ UNCHANGED <<cfg, reach, queried, dialled>>

\* The destination is settled: it is this address that will be dialled.
Vetted(r, a) ==
  /\ req' = [req EXCEPT ![r].at = "dial", ![r].addr = a]
  /\ UNCHANGED <<cfg, reach, counters, denied, queried, dialled>>

\* The lookup that follows the decision; what it answers comes in resolve.
Query(r) ==
  /\ GoTo(r, "resolve")
  /\ queried' = queried \cup {[written |-> req[r].written, port |-> req[r].port]}
  /\ UNCHANGED <<cfg, reach, counters, denied, dialled>>

checkTarget(r) ==
  /\ req[r].at = "new"
  /\ LET w == req[r].written
     IN  IF req[r].port \notin cfg.ports
           THEN End(r, {"deniedPort"}) /\ UNCHANGED <<cfg, reach, denied, queried, dialled>>
         ELSE IF ~Match(cfg.allow, w) THEN denyHost(r)
         ELSE IF w.host.kind = "name" THEN Query(r)
         ELSE IF ForbiddenAddr(w.host.addr, cfg.private) THEN denyAddress(r)
         ELSE Vetted(r, w.host.addr)

\* The resolver answers or not; the first address that may be dialled is taken.
resolve(r) ==
  /\ req[r].at = "resolve"
  /\ \/ End(r, {"failed"}) /\ UNCHANGED <<cfg, reach, denied, queried, dialled>>
     \/ \E a \in Answers :
          LET Forbidden(i) == ForbiddenAddr(a[i], cfg.private)
          IN  \/ (\A i \in DOMAIN a : Forbidden(i)) /\ denyAddress(r)
              \/ \E i \in DOMAIN a :
                   ~Forbidden(i) /\ (\A j \in 1 .. i - 1 : Forbidden(j)) /\ Vetted(r, a[i])

\* The vetted address is dialled, and no other lookup is made.
dial(r) ==
  /\ req[r].at = "dial"
  /\ dialled' = dialled \cup {[written |-> req[r].written, port |-> req[r].port,
                               addr |-> req[r].addr]}
  /\ \/ End(r, {"failed"})
     \/ GoTo(r, IF req[r].connect THEN "hijack" ELSE "respond") /\ UNCHANGED counters
  /\ UNCHANGED <<cfg, reach, denied, queried>>

hijackUncounted(r) ==
  /\ req[r].at = "hijack"
  /\ \/ End(r, {"failed"})
     \/ req' = [req EXCEPT ![r].at = "tunnel", ![r].up = "copying", ![r].down = "copying"]
        /\ UNCHANGED counters
  /\ UNCHANGED <<cfg, reach, denied, queried, dialled>>

\* The connection is taken over and what the client sent early goes upstream; the request is
\* counted, then told so, and it is counted again when that cannot be written.
serveConnect(r) ==
  /\ req[r].at = "hijack"
  /\ \/ End(r, {"failed"})
     \/ End(r, {"allowed", "failed"})
     \/ /\ req' = [req EXCEPT ![r].at = "tunnel", ![r].counted = {"allowed"},
                             ![r].up = "copying", ![r].down = "copying"]
        /\ Count({"allowed"})
  /\ UNCHANGED <<cfg, reach, denied, queried, dialled>>

\* A plain request: the upstream answers within the timeout or not, and its body is copied.
serveHTTP(r) ==
  /\ req[r].at = "respond"
  /\ End(r, {"failed"}) \/ End(r, {"allowed"})
  /\ UNCHANGED <<cfg, reach, denied, queried, dialled>>

-----------------------------------------------------------------------------
(* A tunnel: two copies, each of which passes on the half-close.            *)

\* external: a peer stops sending, by itself or once it is told that the other has.
PeerFinishes(r, side) ==
  /\ req[r].at = "tunnel" /\ req[r][side] # "finished"
  /\ req' = [req EXCEPT ![r][side] = "finished"]
  /\ UNCHANGED <<cfg, reach, counters, denied, queried, dialled>>

closeWriteNever(peer) == peer

closeWrite(peer) == IF peer = "open" THEN "told" ELSE peer

CopyUp(r) ==
  /\ req[r].at = "tunnel" /\ req[r].up = "copying" /\ req[r].client = "finished"
  /\ req' = [req EXCEPT ![r].up = "done", ![r].upstream = closeWrite(@)]
  /\ UNCHANGED <<cfg, reach, counters, denied, queried, dialled>>

CopyDown(r) ==
  /\ req[r].at = "tunnel" /\ req[r].down = "copying" /\ req[r].upstream = "finished"
  /\ req' = [req EXCEPT ![r].down = "done", ![r].client = closeWrite(@)]
  /\ UNCHANGED <<cfg, reach, counters, denied, queried, dialled>>

\* tunnel waits for both copies, then both connections are closed.
TunnelReturns(r) ==
  /\ req[r].at = "tunnel" /\ req[r].up = "done" /\ req[r].down = "done"
  /\ GoTo(r, "done")
  /\ UNCHANGED <<cfg, reach, counters, denied, queried, dialled>>

\* Stop closes the listener; a tunnel, whose connection was taken over, goes on.
Stop ==
  /\ cfg.up = "up"
  /\ cfg' = [cfg EXCEPT !.up = "stopped"]
  /\ UNCHANGED <<reach, req, counters, denied, queried, dialled>>

Handler(r) ==
  \/ checkTarget(r) \/ resolve(r) \/ dial(r) \/ serveConnect(r) \/ serveHTTP(r)
  \/ CopyUp(r) \/ CopyDown(r) \/ TunnelReturns(r)

Next ==
  \/ \E r \in Requests :
       ServeHTTP(r) \/ Handler(r) \/ (\E side \in {"client", "upstream"} : PeerFinishes(r, side))
  \/ Stop

\* Goroutines run, the outbound leg is bounded by its timeouts, and a peer that is told that
\* the other side has finished finishes too.
Fairness ==
  \A r \in Requests :
    /\ WF_vars(Handler(r))
    /\ \A side \in {"client", "upstream"} :
         WF_vars(req[r][side] = "told" /\ PeerFinishes(r, side))

Spec == Init /\ [][Next]_vars /\ Fairness

-----------------------------------------------------------------------------
(* Properties.                                                              *)

\* What is dialled, every layer and the manifest allow by themselves: the host as written, the
\* port (where their lists have one in common), and no address of a forbidden class, however
\* the name is spelled, the resolver answers or an address is wrapped.
DialsWhatEveryLayerAllows ==
  \A d \in dialled :
    /\ d.written \in reach.hosts
    /\ reach.ports # {} => d.port \in reach.ports
    /\ {d.addr.class, d.addr.embeds} \cap {"special"} = {}
    /\ "private" \in {d.addr.class, d.addr.embeds} => reach.private

\* "A refused host produces no DNS query": a name is looked up only once it, and the port asked
\* for, are allowed.
RefusedLeaveNoQuery ==
  \A q \in queried : q.written \in reach.hosts /\ q.port \in cfg.ports

\* Composition narrows and no further: a request refused for its host names one that some
\* layer, asked by itself, does not allow, and one refused for its port likewise.  The host
\* half is promised of layers whose wildcards are written as Compile keeps them: coveredBy
\* compares wildcards unnormalised (compose.go:277-292), so "*.example.com." and
\* "*.example.com" drop each other although both admit the same hosts.
NoUndueRefusal ==
  \A r \in Requests :
    /\ "deniedHost" \in req[r].counted /\ reach.plain => req[r].written \notin reach.hosts
    /\ "deniedPort" \in req[r].counted => req[r].port \notin reach.ports

\* Every request that has ended is counted, and all are counted once but for a CONNECT that was
\* let through and could not be told so; one that is still tunnelled has been counted.
EndedAreCounted ==
  LET ended == {r \in Requests : req[r].at \in {"tunnel", "done"}}
      total == counters["allowed"] + counters["deniedHost"] + counters["deniedPort"]
               + counters["deniedAddress"] + counters["deniedAuth"] + counters["failed"]
      twice == {r \in ended : req[r].connect /\ req[r].counted = {"allowed", "failed"}}
  IN  total = Cardinality(ended) + Cardinality(twice)

\* The table never outgrows its bound, and until it is full it has every refused host.
DeniedTableIsFaithful ==
  LET refused == counters["deniedHost"] + counters["deniedAddress"]
      noted   == MapThenSumSet(LAMBDA w : denied[w], DOMAIN denied)
  IN  /\ Cardinality(DOMAIN denied) <= maxTrackedDeniedHosts
      /\ noted <= refused
      /\ Cardinality(DOMAIN denied) < maxTrackedDeniedHosts => noted = refused

\* A tunnel whose one peer has finished comes to its end, since the half-close is passed on.
TunnelEnds ==
  \A r \in Requests :
    req[r].at = "tunnel" /\ "finished" \in {req[r].client, req[r].upstream} ~> req[r].at = "done"

\* What the proxy looks up and dials is what every layer allows, no more however the patterns
\* are written and, where their wildcards are written as Compile keeps them, no less
\* (compose.go:205-311, proxy.go:335-396).
ReachIsExact == DialsWhatEveryLayerAllows /\ RefusedLeaveNoQuery /\ NoUndueRefusal

\* The totals and the table of refused hosts account for every request that has ended, however
\* requests interleave (counters.go, proxy.go:161-333).
CountsAreFaithful == TypeOK /\ EndedAreCounted /\ DeniedTableIsFaithful
=============================================================================
