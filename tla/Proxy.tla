------------------------------- MODULE Proxy -------------------------------
(***************************************************************************)
(* The MCP stdio pump of internal/proxy: two pump goroutines, the          *)
(* goroutines that call Inject, and Run, which closes the proxy when the   *)
(* first pump ends or the context is cancelled.                            *)
(*                                                                         *)
(* A JSON-RPC id is a record: its namespace and a number.  "aw" is         *)
(* reservedPrefix, "awr" remapPrefix, "str" any other string id, "num" a   *)
(* non-string id.  A frame carries, besides what peekFrame sees, who asked *)
(* the question it belongs to (by, ask): the body of a request, and the    *)
(* body of the response the server writes for it.  The proxy never looks   *)
(* at those two fields; the properties do.                                 *)
(*                                                                         *)
(* The pipes hold no state of their own: the client's next frame exists    *)
(* when the pump reads it, and the server may answer any request that was  *)
(* written to it, in any order, or not at all.                             *)
(***************************************************************************)
EXTENDS Naturals

CONSTANTS
  Client,      \* the ids the MCP client puts on its requests
  Lister,      \* the ids among them that it uses for tools/list
  Injectors,   \* the goroutines that call Inject (driftMonitor's re-lists)
  MaxInject    \* bound: nextID when Inject may still be called

Id == [ns : {"aw", "awr", "str", "num"}, n : Nat]

ASSUME ProxyConstants ==
  /\ Client \subseteq Id
  /\ Lister \subseteq Client
  /\ MaxInject \in Nat

IsString(id) == id.ns # "num"
Reserved(id) == id.ns = "aw"

InjectId(k) == [ns |-> "aw", n |-> k]
RemapId(k)  == [ns |-> "awr", n |-> k]
NoId        == [ns |-> "num", n |-> 0]

(***************************************************************************)
(* Frames.  by is "seam" on a response the interceptor synthesized; tools  *)
(* marks a tools/list result with the harness's tools in it.               *)
(***************************************************************************)
Frame == [kind : {"req", "note", "resp", "error"}, id : Id, list : BOOLEAN,
          by : {"client", "server", "harness", "seam"}, ask : Id, tools : BOOLEAN]

ClientRequest(i) ==
  [kind |-> "req", id |-> i, list |-> i \in Lister,
   by |-> "client", ask |-> i, tools |-> FALSE]

InjectedRequest(i) ==
  [kind |-> "req", id |-> i, list |-> TRUE,
   by |-> "harness", ask |-> i, tools |-> FALSE]

ServerRequest ==
  [kind |-> "req", id |-> InjectId(1), list |-> FALSE,
   by |-> "server", ask |-> InjectId(1), tools |-> FALSE]

Response(f) == [f EXCEPT !.kind = "resp"]
Failure(f)  == [f EXCEPT !.kind = "error"]

\* peekFrame's isResponse: a result or an error member, and no method.
IsResponse(f) == f.kind \in {"resp", "error"}

rewriteID(f, i) == [f EXCEPT !.id = i]

\* A response without a result is an error to appendTools.
appendTools(f) == [f EXCEPT !.tools = (f.kind = "resp")]

VARIABLES
  interceptor,  \* is an Interceptor installed
  injector,     \* is a ToolInjector installed
  nextID, pending, remapped, listReqs, closed,   \* the fields under Proxy.mu
  c2s,          \* pumpClientToServer: where it is, and its line
  s2c,          \* pumpServerToClient: where it is, and its line
  inj,          \* per Inject caller: where it is, its id, its sink, its result
  cancelled,    \* the context handed to Run and Inject
  sent,         \* ids the client has used so far
  toServer,     \* requests written to the server
  answered,     \* requests the server has answered
  toClient,     \* responses written to the client
  refused,      \* ids of requests the interceptor answered itself
  wants         \* tools/list ids that passed noteListRequest under an injector

shared == <<nextID, pending, remapped, listReqs, closed>>
seams  == <<interceptor, injector>>
vars   == <<interceptor, injector, nextID, pending, remapped, listReqs, closed,
            c2s, s2c, inj, cancelled, sent, toServer, answered, toClient,
            refused, wants>>

\* A Go map as a function: m[k] = v, and delete(m, k).  pending is the set of its
\* keys: the sink under a key is the channel the Inject call with that id made.
Put(m, k, v) == [x \in DOMAIN m \cup {k} |-> IF x = k THEN v ELSE m[x]]
Delete(m, k) == [x \in DOMAIN m \ {k} |-> m[x]]

EmptyMap == [x \in {} |-> NoId]

NoFrame == [kind |-> "note", id |-> NoId, list |-> FALSE,
            by |-> "client", ask |-> NoId, tools |-> FALSE]

\* A pump between two lines, and after its last.
Reading == [pc |-> "read", line |-> NoFrame]
Done    == [pc |-> "done", line |-> NoFrame]

\* One goroutine's current call of Inject: its sink is a channel of capacity one.
Call == [pc : {"idle", "send", "wait", "return"}, id : Id,
         sink : {"open", "full", "closed"}, box : Frame,
         result : {"none", "err", "nil", "resp"}]

TypeOK ==
  /\ interceptor \in BOOLEAN /\ injector \in BOOLEAN
  /\ nextID \in Nat
  /\ pending \subseteq Id
  /\ DOMAIN remapped \subseteq Id
  /\ \A i \in DOMAIN remapped : remapped[i] \in Id
  /\ listReqs \subseteq Id
  /\ closed \in BOOLEAN /\ cancelled \in BOOLEAN
  /\ c2s \in [pc : {"read", "intercept", "note", "forward", "write", "done"},
              line : Frame]
  /\ s2c \in [pc : {"read", "route", "deliver", "inject", "write", "done"},
              line : Frame]
  /\ inj \in [Injectors -> Call]
  /\ sent \subseteq Id /\ refused \subseteq Id /\ wants \subseteq Id
  /\ toServer \subseteq Frame /\ answered \subseteq Frame
  /\ toClient \subseteq Frame

Init ==
  /\ interceptor = FALSE /\ injector = FALSE
  /\ nextID = 0
  /\ pending = {} /\ remapped = EmptyMap /\ listReqs = {}
  /\ closed = FALSE /\ cancelled = FALSE
  /\ c2s = Reading /\ s2c = Reading
  /\ inj = [t \in Injectors |-> [pc |-> "idle", id |-> NoId, sink |-> "open",
                                 box |-> NoFrame, result |-> "none"]]
  /\ sent = {} /\ refused = {} /\ wants = {} /\ toServer = {} /\ answered = {}
  /\ toClient = {}

-----------------------------------------------------------------------------
(* The seams, swappable while pumping. *)

SetInterceptor ==
  /\ ~interceptor
  /\ interceptor' = TRUE
  /\ UNCHANGED <<injector, shared, c2s, s2c, inj, cancelled, sent, toServer,
                 answered, toClient, refused, wants>>

SetToolInjector ==
  /\ ~injector
  /\ injector' = TRUE
  /\ UNCHANGED <<interceptor, shared, c2s, s2c, inj, cancelled, sent, toServer,
                 answered, toClient, refused, wants>>

-----------------------------------------------------------------------------
(* pumpClientToServer.                                                      *)

\* readLine and OnClientFrame: a request under a fresh id, or the client's answer
\* to a request of the server's (which passes like a notification does).
ClientFrame(f) ==
  \/ \E i \in Client \ sent : f = ClientRequest(i)
  \/ f = Response(ServerRequest)

ReadClient(f) ==
  /\ c2s.pc = "read"
  /\ ClientFrame(f)
  /\ c2s' = [pc |-> "intercept", line |-> f]
  /\ sent' = IF f.kind = "req" THEN sent \cup {f.id} ELSE sent
  /\ UNCHANGED <<seams, shared, s2c, inj, cancelled, toServer, answered,
                 toClient, refused, wants>>

RefuseAndForward ==
  /\ c2s.pc = "intercept"
  /\ interceptor
  /\ c2s.line.kind = "req" /\ ~c2s.line.list
  /\ refused' = refused \cup {c2s.line.id}
  /\ toClient' = toClient \cup {[Response(c2s.line) EXCEPT !.by = "seam"]}
  /\ c2s' = [c2s EXCEPT !.pc = "note"]
  /\ UNCHANGED <<seams, shared, s2c, inj, cancelled, sent, toServer, answered,
                 wants>>

\* getInterceptor and Intercept.  The decision is the interceptor's own; it only
\* answers requests (internal/enforce), and never a tools/list.
Refuse ==
  /\ c2s.pc = "intercept"
  /\ interceptor
  /\ c2s.line.kind = "req" /\ ~c2s.line.list
  /\ refused' = refused \cup {c2s.line.id}
  /\ toClient' = toClient \cup {[Response(c2s.line) EXCEPT !.by = "seam"]}
  /\ c2s' = Reading
  /\ UNCHANGED <<seams, shared, s2c, inj, cancelled, sent, toServer, answered,
                 wants>>

Allow ==
  /\ c2s.pc = "intercept"
  /\ c2s' = [c2s EXCEPT !.pc = "note"]
  /\ UNCHANGED <<seams, shared, s2c, inj, cancelled, sent, toServer, answered,
                 toClient, refused, wants>>

noteListRequest ==
  /\ c2s.pc = "note"
  /\ listReqs' = IF /\ injector
                    /\ c2s.line.kind = "req" /\ c2s.line.list
                    /\ IsString(c2s.line.id)
                 THEN listReqs \cup {c2s.line.id}
                 ELSE listReqs
  /\ wants' = IF injector /\ c2s.line.kind = "req" /\ c2s.line.list
              THEN wants \cup {c2s.line.id} ELSE wants
  /\ c2s' = [c2s EXCEPT !.pc = "forward"]
  /\ UNCHANGED <<seams, nextID, pending, remapped, closed, s2c, inj, cancelled,
                 sent, toServer, answered, toClient, refused>>

TrespassesNever(f) == FALSE

\* A client request under an id of the reserved namespace.
Trespasses(f) == f.kind = "req" /\ Reserved(f.id)

forwardClientFrame ==
  /\ c2s.pc = "forward"
  /\ IF Trespasses(c2s.line)
     THEN /\ nextID' = nextID + 1
          /\ remapped' = Put(remapped, RemapId(nextID + 1), c2s.line.id)
          /\ c2s' = [pc |-> "write", line |-> rewriteID(c2s.line, RemapId(nextID + 1))]
     ELSE /\ c2s' = [c2s EXCEPT !.pc = "write"]
          /\ UNCHANGED <<nextID, remapped>>
  /\ UNCHANGED <<seams, pending, listReqs, closed, s2c, inj, cancelled, sent,
                 toServer, answered, toClient, refused, wants>>

WriteServer ==
  /\ c2s.pc = "write"
  /\ toServer' = IF c2s.line.kind = "req" THEN toServer \cup {c2s.line} ELSE toServer
  /\ c2s' = Reading
  /\ UNCHANGED <<seams, shared, s2c, inj, cancelled, sent, answered, toClient,
                 refused, wants>>

\* The pump returns: the client's EOF, a line over MaxFrameBytes, a read error,
\* or a failed write of the line it holds.
EndClientPump ==
  /\ c2s.pc \in {"read", "intercept", "write"}
  /\ c2s' = Done
  /\ UNCHANGED <<seams, shared, s2c, inj, cancelled, sent, toServer, answered,
                 toClient, refused, wants>>

-----------------------------------------------------------------------------
(* pumpServerToClient.                                                      *)

\* readLine: the response to a request not answered yet, or a request of the
\* server's own (which passes like a notification does).  The pump tells results
\* and errors apart only when it appends tools, so errors answer lists only.
Answers(r) == IF r.list THEN {Response(r), Failure(r)} ELSE {Response(r)}

ServerFrame(f) ==
  \/ \E r \in toServer \ answered : r.kind = "req" /\ f \in Answers(r)
  \/ f = ServerRequest

ReadServer(f) ==
  /\ s2c.pc = "read"
  /\ ServerFrame(f)
  /\ s2c' = [s2c EXCEPT !.pc = "route", !.line = f]
  /\ answered' = answered \cup {r \in toServer : r.kind = "req" /\ f \in Answers(r)}
  /\ UNCHANGED <<seams, shared, c2s, inj, cancelled, sent, toServer, toClient,
                 refused, wants>>

RestoredNothing(f) == f
RestoredTooLate(f) == rewriteID(f, <<>>)

\* The response under the id the client gave its request.
Restored(f) == rewriteID(f, remapped[f.id])

routeServerFrame ==
  /\ s2c.pc = "route"
  /\ LET f == s2c.line
         routed == IsResponse(f) /\ IsString(f.id)
         isInjected == routed /\ f.id \in pending
         isRemapped == routed /\ f.id \in DOMAIN remapped
     IN  /\ pending' = IF isInjected THEN pending \ {f.id} ELSE pending
         /\ remapped' = IF isRemapped THEN Delete(remapped, f.id) ELSE remapped
         /\ s2c' = IF isInjected
                   THEN [s2c EXCEPT !.pc = "deliver"]
                   ELSE IF isRemapped
                   THEN [s2c EXCEPT !.pc = "inject", !.line = Restored(f)]
                   ELSE [s2c EXCEPT !.pc = "inject"]
  /\ UNCHANGED <<seams, nextID, listReqs, closed, c2s, inj, cancelled, sent,
                 toServer, answered, toClient, refused, wants>>

\* sink <- line, on the channel of the call with this id.  When its caller has gone
\* on to another call, nobody will receive from it.
DeliverInjected ==
  /\ s2c.pc = "deliver"
  /\ inj' = [t \in Injectors |->
               IF inj[t].id = s2c.line.id
               THEN [inj[t] EXCEPT !.sink = "full", !.box = s2c.line] ELSE inj[t]]
  /\ s2c' = Reading
  /\ UNCHANGED <<seams, shared, c2s, cancelled, sent, toServer, answered,
                 toClient, refused, wants>>

\* When appendTools fails the line is forwarded as it is; its id is no longer tracked
\* either way.
maybeInjectTools ==
  /\ s2c.pc = "inject"
  /\ LET f == s2c.line
         tracked == /\ injector
                    /\ IsResponse(f) /\ IsString(f.id)
                    /\ f.id \in listReqs
     IN  /\ listReqs' = IF tracked THEN listReqs \ {f.id} ELSE listReqs
         /\ s2c' = [pc |-> "write", line |-> IF tracked THEN appendTools(f) ELSE f]
  /\ UNCHANGED <<seams, nextID, pending, remapped, closed, c2s, inj, cancelled,
                 sent, toServer, answered, toClient, refused, wants>>

\* OnServerFrame and writeClient.
WriteClient ==
  /\ s2c.pc = "write"
  /\ toClient' = IF IsResponse(s2c.line) THEN toClient \cup {s2c.line}
                                             ELSE toClient
  /\ s2c' = Reading
  /\ UNCHANGED <<seams, shared, c2s, inj, cancelled, sent, toServer, answered,
                 refused, wants>>

EndServerPump ==
  /\ s2c.pc \in {"read", "write"}
  /\ s2c' = Done
  /\ UNCHANGED <<seams, shared, c2s, inj, cancelled, sent, toServer, answered,
                 toClient, refused, wants>>

-----------------------------------------------------------------------------
(* Inject, by the goroutine t.                                              *)

InjectAfterClose(t) ==
  /\ inj[t].pc = "idle"
  /\ nextID < MaxInject
  /\ nextID' = nextID + 1
  /\ pending' = pending \cup {InjectId(nextID + 1)}
  /\ inj' = [inj EXCEPT ![t] = [pc |-> "send", id |-> InjectId(nextID + 1),
                                sink |-> "open", box |-> NoFrame, result |-> "none"]]
  /\ UNCHANGED <<seams, remapped, listReqs, closed, c2s, s2c, cancelled, sent,
                 toServer, answered, toClient, refused, wants>>

InjectRegister(t) ==
  /\ inj[t].pc = "idle"
  /\ ~closed
  /\ nextID < MaxInject
  /\ nextID' = nextID + 1
  /\ pending' = pending \cup {InjectId(nextID + 1)}
  /\ inj' = [inj EXCEPT ![t] = [pc |-> "send", id |-> InjectId(nextID + 1),
                                sink |-> "open", box |-> NoFrame, result |-> "none"]]
  /\ UNCHANGED <<seams, remapped, listReqs, closed, c2s, s2c, cancelled, sent,
                 toServer, answered, toClient, refused, wants>>

InjectClosed(t) ==
  /\ inj[t].pc = "idle"
  /\ closed
  /\ inj' = [inj EXCEPT ![t].result = "err"]
  /\ UNCHANGED <<seams, shared, c2s, s2c, cancelled, sent, toServer, answered,
                 toClient, refused, wants>>

\* The call of t is about to return r.
Returning(t, r) == [inj EXCEPT ![t] = [inj[t] EXCEPT !.pc = "return", !.result = r]]

InjectSend(t) ==
  /\ inj[t].pc = "send"
  /\ \/ /\ toServer' = toServer \cup {InjectedRequest(inj[t].id)}
        /\ inj' = [inj EXCEPT ![t].pc = "wait"]
     \/ /\ inj' = Returning(t, "err")
        /\ UNCHANGED toServer
  /\ UNCHANGED <<seams, shared, c2s, s2c, cancelled, sent, answered, toClient,
                 refused, wants>>

\* case resp := <-sink: a closed channel yields nil, and Inject returns it.
InjectReceive(t) ==
  /\ inj[t].pc = "wait"
  /\ inj[t].sink # "open"
  /\ inj' = Returning(t, IF inj[t].sink = "full" THEN "resp" ELSE "nil")
  /\ UNCHANGED <<seams, shared, c2s, s2c, cancelled, sent, toServer, answered,
                 toClient, refused, wants>>

\* case <-ctx.Done().
InjectCancelled(t) ==
  /\ inj[t].pc = "wait"
  /\ cancelled
  /\ inj' = Returning(t, "err")
  /\ UNCHANGED <<seams, shared, c2s, s2c, cancelled, sent, toServer, answered,
                 toClient, refused, wants>>

\* The deferred delete, and the return.
InjectReturn(t) ==
  /\ inj[t].pc = "return"
  /\ pending' = pending \ {inj[t].id}
  /\ inj' = [inj EXCEPT ![t].pc = "idle"]
  /\ UNCHANGED <<seams, nextID, remapped, listReqs, closed, c2s, s2c, cancelled,
                 sent, toServer, answered, toClient, refused, wants>>

-----------------------------------------------------------------------------
(* Run.                                                                     *)

Cancel ==
  /\ ~cancelled
  /\ cancelled' = TRUE
  /\ UNCHANGED <<seams, shared, c2s, s2c, inj, sent, toServer, answered,
                 toClient, refused, wants>>

CloseKeepsPending ==
  /\ ~closed
  /\ c2s.pc = "done" \/ s2c.pc = "done" \/ cancelled
  /\ closed' = TRUE
  /\ inj' = [t \in Injectors |->
               IF inj[t].id \in pending
               THEN [inj[t] EXCEPT !.sink = "closed"] ELSE inj[t]]
  /\ UNCHANGED <<seams, nextID, pending, remapped, listReqs, c2s, s2c, cancelled, sent,
                 toServer, answered, toClient, refused, wants>>

\* Run's select and its deferred close: every pending sink is closed and
\* forgotten under mu.  The other pump is not waited for.
close ==
  /\ ~closed
  /\ c2s.pc = "done" \/ s2c.pc = "done" \/ cancelled
  /\ closed' = TRUE
  /\ pending' = {}
  /\ inj' = [t \in Injectors |->
               IF inj[t].id \in pending
               THEN [inj[t] EXCEPT !.sink = "closed"] ELSE inj[t]]
  /\ UNCHANGED <<seams, nextID, remapped, listReqs, c2s, s2c, cancelled, sent,
                 toServer, answered, toClient, refused, wants>>

-----------------------------------------------------------------------------
pumpClientToServer ==
  \/ \E f \in {ClientRequest(i) : i \in Client} \cup {Response(ServerRequest)} :
       ReadClient(f)
  \/ Refuse \/ Allow \/ noteListRequest \/ forwardClientFrame \/ WriteServer
  \/ EndClientPump

pumpServerToClient ==
  \/ \E f \in (UNION {Answers(r) : r \in toServer}) \cup {ServerRequest} : ReadServer(f)
  \/ routeServerFrame \/ DeliverInjected \/ maybeInjectTools \/ WriteClient
  \/ EndServerPump

Inject(t) ==
  \/ InjectRegister(t) \/ InjectClosed(t) \/ InjectSend(t)
  \/ InjectReceive(t) \/ InjectCancelled(t) \/ InjectReturn(t)

Next ==
  \/ SetInterceptor \/ SetToolInjector
  \/ pumpClientToServer \/ pumpServerToClient
  \/ \E t \in Injectors : Inject(t)
  \/ Cancel \/ close

Spec == Init /\ [][Next]_vars

\* A goroutine that is not blocked on a pipe, a channel or the context runs: Inject, and
\* the server pump once it holds an answer and its sink.  The client, the server and the
\* context owe nothing.
Fairness == WF_vars(DeliverInjected) /\ \A t \in Injectors : WF_vars(Inject(t))

FairSpec == Spec /\ Fairness

-----------------------------------------------------------------------------
(* Properties.                                                              *)

\* An Inject call that returns a response returns the response to its own
\* request, whatever ids the client uses (proxy.go:30-37, 417-431): a client id in
\* the reserved namespace never reaches the server under that name.
InjectGetsOwnAnswer ==
  \A t \in Injectors :
    inj[t].result = "resp" => inj[t].box.by = "harness" /\ inj[t].box.ask = inj[t].id

\* When the server pump sends on the sink it took from pending (proxy.go:428-431),
\* that channel is neither closed nor already full: no panic against a concurrent
\* close, and no pump blocked on a full channel.
SinkReadyForSend ==
  s2c.pc = "deliver" =>
    \A t \in Injectors : inj[t].id = s2c.line.id => inj[t].sink = "open"

\* No two requests at the server carry the same id, so its answers can be told
\* apart (proxy.go:30-33, "impossible by construction rather than improbable").
UniqueIdsAtServer ==
  \A f, g \in toServer : f.kind = "req" /\ g.kind = "req" /\ f.id = g.id => f = g

\* What the server answers to a client request reaches the client under the id the
\* client chose (proxy.go:403-440), remapped or not.
AnswersKeepClientId ==
  \A f \in toClient : f.by \in {"client", "seam"} => f.id = f.ask

\* A client request is answered at most once: by the seam or by the server, never
\* by both (proxy.go:243-253).
AnsweredOnce ==
  \A f, g \in toClient :
    f.by # "harness" /\ g.by # "harness" /\ f.ask = g.ask => f = g

\* The server never sees a request the interceptor refused (proxy.go:61-65).
RefusedNeverForwarded ==
  \A f \in toServer : f.by = "client" /\ f.kind = "req" => f.ask \notin refused

\* The answer to an injected request stays inside the harness for as long as the
\* proxy is open and the context alive (proxy.go:179-182).
InjectedStaysInside ==
  (\E f \in toClient : f.by = "harness") => closed \/ cancelled

NoStray ==
  /\ \A f \in toClient : f.by # "harness"
  /\ ~(s2c.pc = "write" /\ s2c.line.by = "harness")

\* A tools/list result carries the injected tools when the injector was installed
\* as its request passed, under a string id, and nothing else ever carries them
\* (proxy.go:317-371).
ListsCarryTools ==
  NoStray =>
    \A f \in toClient :
      /\ f.tools => f.list /\ f.kind = "resp"
      /\ f.list /\ f.kind = "resp" /\ f.ask \in wants /\ IsString(f.ask) => f.tools

(***************************************************************************)
(* The proxy implements Relay, provided no client id looks like a remapped *)
(* one: routeServerFrame would give its answer another request's id.       *)
(***************************************************************************)
FromClient(f, i) == f.by = "client" /\ f.ask = i

PhaseOf(i) ==
  IF i \notin sent THEN "new"
  ELSE IF \E f \in toClient : FromClient(f, i) THEN "answered"
  ELSE IF \E f \in toServer : FromClient(f, i) THEN "forwarded"
  ELSE IF i \in refused THEN "refused"
  ELSE "asked"

R == INSTANCE Relay WITH
       phase <- [i \in Client |-> PhaseOf(i)],
       seen  <- {f.id : f \in {g \in toClient : g.by # "harness"}},
       stray <- \E f \in toClient : f.by = "harness",
       over  <- closed \/ cancelled

\* The pump implements Relay: a request is refused or forwarded, answered once,
\* under its own id, and nothing else reaches the client before the end
\* (proxy.go:237-273, 373-440).
ImplementsRelay == R!RelaySpec

\* Once Run has returned no Inject call is left waiting (proxy.go:183-226): the
\* registration that raced close is woken by its sink or refused by closed.
InjectEndsAfterClose == closed ~> \A t \in Injectors : inj[t].pc = "idle"

\* What passes through the proxy is neither mixed up, doubled nor leaked: ids at the server,
\* the client's ids, refusals, injected answers and tool lists together (proxy.go:237-440).
FaithfulPipe ==
  /\ UniqueIdsAtServer /\ AnswersKeepClientId /\ AnsweredOnce
  /\ RefusedNeverForwarded /\ InjectedStaysInside /\ ListsCarryTools
=============================================================================
