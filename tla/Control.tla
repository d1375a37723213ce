------------------------------ MODULE Control ------------------------------
(***************************************************************************)
(* The harness side of the control channel (internal/control): the hello   *)
(* exchange, the request/response correlation of one Session, and the read *)
(* loop that routes responses, as harness.Run's servant goroutine drives   *)
(* them.  The callers of Request are the policy engines' signal reads, on  *)
(* the client pump and without a deadline, and the egress push, under the  *)
(* session's context.  The servant at the other end is external: it may    *)
(* answer, say nothing, send an unreadable line, or go away.               *)
(***************************************************************************)
EXTENDS Naturals, Sequences

CONSTANTS
  Callers,       \* goroutines that call Session.Request
  Deadlined,     \* those whose context ends with the session's
  MaxRequests,   \* bound on nextID
  MinProtocolVersion, MaxProtocolVersion,
  Versions       \* the protocol versions a servant's range may name

ASSUME ControlConstants ==
  /\ Deadlined \subseteq Callers
  /\ MaxRequests \in Nat
  /\ MinProtocolVersion \in Nat /\ MaxProtocolVersion \in Nat
  /\ Versions \subseteq Nat

VARIABLES
  host,       \* the servant goroutine of harness.Run
  hello,      \* the first message of the servant that was accepted
  version,    \* Session.Version
  peer,       \* the servant's end of the connection
  down,       \* what was written to the servant, in order
  up,         \* what it answered and the harness has not read
  nextID, pending,   \* the fields under Session.pmu
  serve,      \* Serve: where it is, and its envelope
  req,        \* per caller: where it is, its id, its sink, what it received
  cancelled   \* the session's context

handshake == <<hello, version>>
channel   == <<peer, down, up>>
corr      == <<nextID, pending>>
vars == <<host, hello, version, peer, down, up, nextID, pending, serve, req,
          cancelled>>

\* A first message: its type, whether its token is the host's, its version range.
Hello(range) == [type : {"hello", "other"}, token : BOOLEAN, min : range, max : range]
NoHello      == [type |-> "other", token |-> FALSE, min |-> 0, max |-> 0]

\* by is who asked, in the body of a request and of the answer to it.
Envelope == [type : {"ack", "request", "unsupported"}, id : Nat,
             by : Callers \cup {"harness"}]

Ours(typ)     == [type |-> typ, id |-> 0, by |-> "harness"]
Asked(t, i)   == [type |-> "request", id |-> i, by |-> t]
NoEnvelope    == Ours("ack")

Stage == {"await", "install", "ack", "serve", "close", "closed",
          "bad token", "not hello", "no version", "gave up"}

\* One goroutine's current call of Request: its sink is a channel of capacity one.
Call == [pc : {"idle", "send", "wait", "return"}, id : Nat,
         sink : {"open", "full", "closed"}, box : Envelope,
         result : {"none", "resp", "err"}]

TypeOK ==
  /\ host \in Stage
  /\ hello \in Hello(Nat)
  /\ version \in Nat
  /\ peer \in {"absent", "open", "gone"}
  /\ down \in Seq(Envelope)
  /\ up \subseteq Envelope
  /\ nextID \in Nat
  /\ pending \subseteq Nat
  /\ serve \in [pc : {"read", "deliver"}, env : Envelope]
  /\ req \in [Callers -> Call]
  /\ cancelled \in BOOLEAN

Init ==
  /\ host = "await" /\ hello = NoHello /\ version = 0
  /\ peer = "absent" /\ down = <<>> /\ up = {}
  /\ nextID = 0 /\ pending = {}
  /\ serve = [pc |-> "read", env |-> NoEnvelope]
  /\ req = [t \in Callers |-> [pc |-> "idle", id |-> 0, sink |-> "open",
                               box |-> NoEnvelope, result |-> "none"]]
  /\ cancelled = FALSE

-----------------------------------------------------------------------------
(* AwaitServant.                                                            *)

Least(a, b)    == IF a < b THEN a ELSE b
Greatest(a, b) == IF a > b THEN a ELSE b

\* negotiate: the candidate version, and whether both ranges admit it.
Candidate(min, max) == Least(MaxProtocolVersion, max)
AdmitsUpTo(min, max) == Candidate(min, max) >= MinProtocolVersion
Admits(min, max)    == Candidate(min, max) >= Greatest(MinProtocolVersion, min)

Verdict(h) ==
  CASE h.type # "hello"        -> "not hello"
    [] ~h.token                -> "bad token"
    [] ~Admits(h.min, h.max)   -> "no version"
    [] OTHER                   -> "install"

\* One connection is accepted; every failed exchange closes it.
AwaitServant(h) ==
  /\ host = "await" /\ ~cancelled
  /\ hello' = h
  /\ host' = Verdict(h)
  /\ IF Verdict(h) = "install"
     THEN version' = Candidate(h.min, h.max) /\ peer' = "open"
     ELSE UNCHANGED version /\ peer' = "gone"
  /\ UNCHANGED <<down, up, corr, serve, req, cancelled>>

\* case <-ctx.Done(): the listener is closed.
GiveUp ==
  /\ host = "await" /\ cancelled
  /\ host' = "gave up"
  /\ UNCHANGED <<handshake, channel, corr, serve, req, cancelled>>

-----------------------------------------------------------------------------
(* The servant goroutine after AwaitServant (harness.go:224-280).           *)

\* installEnforcement hands the session to the engines; it does no IO itself.
Install ==
  /\ host = "install"
  /\ host' = "ack"
  /\ UNCHANGED <<handshake, channel, corr, serve, req, cancelled>>

\* Session.Ack.  When the write fails the goroutine returns, closing the
\* connection: Serve, and with it closePending, never runs.
Ack ==
  /\ host = "ack"
  /\ \/ /\ peer = "open"
        /\ down' = Append(down, Ours("ack"))
        /\ host' = "serve"
        /\ UNCHANGED peer
     \/ /\ peer = "gone"
        /\ host' = "closed"
        /\ UNCHANGED <<down, peer>>
  /\ UNCHANGED <<handshake, up, corr, serve, req, cancelled>>

ServeKeepsPending(e) ==
  /\ host = "serve" /\ serve.pc = "read"
  /\ e \in up
  /\ up' = up \ {e}
  /\ serve' = IF e.id \in pending THEN [pc |-> "deliver", env |-> e] ELSE serve
  /\ UNCHANGED <<host, handshake, peer, down, corr, req, cancelled>>

\* Serve reads a response; deliver takes its sink out of pending.  A response that
\* nobody waits for goes to the handlers, which only log it.
ServeResponse(e) ==
  /\ host = "serve" /\ serve.pc = "read"
  /\ e \in up
  /\ up' = up \ {e}
  /\ IF e.id \in pending
     THEN pending' = pending \ {e.id} /\ serve' = [pc |-> "deliver", env |-> e]
     ELSE UNCHANGED <<pending, serve>>
  /\ UNCHANGED <<host, handshake, peer, down, nextID, req, cancelled>>

DeliverRelabelled ==
  /\ serve.pc = "deliver"
  /\ req' = [t \in Callers |->
               IF req[t].id = serve.env.id
               THEN [req[t] EXCEPT !.sink = "full", !.box = [serve.env EXCEPT !.by = "servant"]] ELSE req[t]]
  /\ serve' = [pc |-> "read", env |-> NoEnvelope]
  /\ UNCHANGED <<host, handshake, channel, corr, cancelled>>

\* sink <- env, on the channel of the call with this id.
Deliver ==
  /\ serve.pc = "deliver"
  /\ req' = [t \in Callers |->
               IF req[t].id = serve.env.id
               THEN [req[t] EXCEPT !.sink = "full", !.box = serve.env] ELSE req[t]]
  /\ serve' = [pc |-> "read", env |-> NoEnvelope]
  /\ UNCHANGED <<host, handshake, channel, corr, cancelled>>

ForgetPending ==
  /\ host' = "close"
  /\ pending' = {}
  /\ UNCHANGED req

\* Every sink in pending is closed and forgotten; Serve has returned.
closePending ==
  /\ host' = "close"
  /\ pending' = {}
  /\ req' = [t \in Callers |-> IF req[t].id \in pending
                               THEN [req[t] EXCEPT !.sink = "closed"] ELSE req[t]]

\* An envelope with an id and a type no handler knows gets an error reply (bound:
\* one of them); a failed reply ends the loop.  Notifications change nothing.
RefuseUnknown ==
  /\ host = "serve" /\ serve.pc = "read"
  /\ \/ /\ peer = "open"
        /\ ~\E k \in DOMAIN down : down[k].type = "unsupported"
        /\ down' = Append(down, Ours("unsupported"))
        /\ UNCHANGED <<host, pending, req>>
     \/ /\ peer = "gone"
        /\ closePending
        /\ UNCHANGED down
  /\ UNCHANGED <<handshake, peer, up, nextID, serve, cancelled>>

\* EOF, once everything the servant wrote has been read.
ServeEOF ==
  /\ host = "serve" /\ serve.pc = "read"
  /\ peer = "gone" /\ up = {}
  /\ closePending
  /\ UNCHANGED <<handshake, channel, nextID, serve, cancelled>>

\* A line over MaxLineBytes, or one that is not an envelope.
ServeBadLine ==
  /\ host = "serve" /\ serve.pc = "read"
  /\ closePending
  /\ UNCHANGED <<handshake, channel, nextID, serve, cancelled>>

\* The goroutine's deferred sess.Close.
Close ==
  /\ host = "close"
  /\ host' = "closed"
  /\ UNCHANGED <<handshake, channel, corr, serve, req, cancelled>>

-----------------------------------------------------------------------------
(* Request, by the goroutine t.                                             *)

\* installEnforcement has handed the session out before the ack is written.
HasSession == host \in {"ack", "serve", "close", "closed"}

RequestReusesId(t) ==
  /\ req[t].pc = "idle"
  /\ HasSession
  /\ pending' = pending \cup {1}
  /\ req' = [req EXCEPT ![t] = [pc |-> "send", id |-> 1, sink |-> "open",
                                box |-> NoEnvelope, result |-> "none"]]
  /\ UNCHANGED <<host, handshake, channel, nextID, serve, cancelled>>

RequestRegister(t) ==
  /\ req[t].pc = "idle"
  /\ HasSession
  /\ nextID < MaxRequests
  /\ nextID' = nextID + 1
  /\ pending' = pending \cup {nextID + 1}
  /\ req' = [req EXCEPT ![t] = [pc |-> "send", id |-> nextID + 1, sink |-> "open",
                                box |-> NoEnvelope, result |-> "none"]]
  /\ UNCHANGED <<host, handshake, channel, serve, cancelled>>

\* The call of t is about to return r.
Returning(t, r) == [req EXCEPT ![t] = [req[t] EXCEPT !.pc = "return", !.result = r]]

RequestSend(t) ==
  /\ req[t].pc = "send"
  /\ IF peer = "open" /\ host # "closed"
     THEN /\ down' = Append(down, Asked(t, req[t].id))
          /\ req' = [req EXCEPT ![t].pc = "wait"]
     ELSE /\ req' = Returning(t, "err")
          /\ UNCHANGED down
  /\ UNCHANGED <<host, handshake, peer, up, corr, serve, cancelled>>

RequestReceive(t) ==
  /\ req[t].pc = "wait"
  /\ req[t].sink # "open"
  /\ req' = Returning(t, IF req[t].sink = "full" THEN "resp" ELSE "err")
  /\ UNCHANGED <<host, handshake, channel, corr, serve, cancelled>>

RequestCancelled(t) ==
  /\ req[t].pc = "wait"
  /\ t \in Deadlined /\ cancelled
  /\ req' = Returning(t, "err")
  /\ UNCHANGED <<host, handshake, channel, corr, serve, cancelled>>

\* The deferred delete, and the return.
RequestReturn(t) ==
  /\ req[t].pc = "return"
  /\ pending' = pending \ {req[t].id}
  /\ req' = [req EXCEPT ![t].pc = "idle"]
  /\ UNCHANGED <<host, handshake, channel, nextID, serve, cancelled>>

Request(t) ==
  \/ RequestRegister(t) \/ RequestSend(t) \/ RequestReceive(t)
  \/ RequestCancelled(t) \/ RequestReturn(t)

-----------------------------------------------------------------------------
(* The environment: the servant, and the context of the session.            *)

\* The servant may answer a request late, or more than once.
ServantAnswers(k) ==
  /\ peer = "open"
  /\ k \in DOMAIN down /\ down[k].type = "request"
  /\ up' = up \cup {down[k]}
  /\ UNCHANGED <<host, handshake, peer, down, corr, serve, req, cancelled>>

ServantGoes ==
  /\ peer = "open"
  /\ peer' = "gone"
  /\ UNCHANGED <<host, handshake, down, up, corr, serve, req, cancelled>>

Cancel ==
  /\ ~cancelled
  /\ cancelled' = TRUE
  /\ UNCHANGED <<host, handshake, channel, corr, serve, req>>

-----------------------------------------------------------------------------
ServantGoroutine ==
  \/ \E h \in Hello(Versions) : AwaitServant(h)
  \/ GiveUp \/ Install \/ Ack
  \/ \E e \in up : ServeResponse(e)
  \/ Deliver \/ RefuseUnknown \/ ServeEOF \/ ServeBadLine \/ Close

Next ==
  \/ ServantGoroutine
  \/ \E t \in Callers : Request(t)
  \/ \E k \in DOMAIN down : ServantAnswers(k)
  \/ ServantGoes \/ Cancel

Spec == Init /\ [][Next]_vars

\* Goroutines that can run do: Read returns once the servant is gone or has
\* answered, and a caller takes its next step.  Neither a servant's dialling in nor
\* its answers, nor a cancelled context, is assumed.
Fairness ==
  /\ WF_vars(GiveUp) /\ WF_vars(Install) /\ WF_vars(Ack) /\ WF_vars(Close)
  /\ WF_vars(Deliver)
  /\ WF_vars(\E e \in up : ServeResponse(e))
  /\ WF_vars(ServeEOF)
  /\ \A t \in Callers :
       /\ WF_vars(RequestSend(t)) /\ WF_vars(RequestReceive(t))
       /\ WF_vars(RequestCancelled(t)) /\ WF_vars(RequestReturn(t))

FairSpec == Spec /\ Fairness

-----------------------------------------------------------------------------
(* Properties.                                                              *)

\* A Request that returns an envelope returns the one that answers it
\* (control.go:212-257), however many callers share the read loop.
RequestGetsOwnAnswer ==
  \A t \in Callers :
    req[t].result = "resp" => req[t].box = Asked(t, req[t].id)

\* When Serve sends on the sink it took, the channel is open and empty: no panic
\* against closePending, no read loop blocked on a caller (control.go:246-256).
SinkReadyForSend ==
  serve.pc = "deliver" =>
    \A t \in Callers : req[t].id = serve.env.id => req[t].sink = "open"

\* A session exists only for a servant that said hello, knew the token and shares a
\* version with the harness; the session's version is the highest of those
\* (control.go:137-186).
SessionIsAuthentic ==
  version # 0 =>
    /\ hello.type = "hello" /\ hello.token
    /\ LET common == (hello.min .. hello.max) \cap (MinProtocolVersion .. MaxProtocolVersion)
       IN version \in common /\ \A v \in common : v <= version

Waiting(t) == req[t].pc \in {"send", "wait", "return"}

\* When Serve ends, whatever ended it, every call it had registered is woken
\* (control.go:259-267): what closePending emptied leaves no caller behind.
RequestsEnd ==
  \A t \in Callers :
    (host = "close" /\ Waiting(t) /\ req[t].id \notin pending) ~> ~Waiting(t)

\* A caller under the session's context never outlives it (control.go:229-237),
\* even when no answer comes and the channel stays open.
DeadlinedEnd == \A t \in Deadlined : cancelled ~> ~Waiting(t)

\* No caller of Request waits for ever for want of somebody to wake it: one that Serve has
\* seen is woken by its end, one whose context ends by that (control.go:207-268).
CallersEnd == RequestsEnd /\ DeadlinedEnd
=============================================================================
