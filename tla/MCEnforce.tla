----------------------------- MODULE MCEnforce -----------------------------
(* Decision points that bring out one thing each, and their requests.       *)
EXTENDS Enforce

MCIndex == [del  |-> [toolset |-> "fs", annotations |-> {"destructive"}],
            Plan |-> [toolset |-> "planning", annotations |-> {"destructive"}]]

Match(tool, toolset, annotation) ==
  [tool |-> tool, toolset |-> toolset, annotation |-> annotation]
Everything  == Match({}, {"*"}, {})
Named       == Match({"del"}, {}, {})
AnyTool     == Match({"*"}, {"*"}, {})
InFs        == Match({}, {"fs"}, {})
Destructive == Match({}, {}, {"destructive"})
ReadOnly    == Match({}, {}, {"read-only"})

Rule(match, require, onFail) ==
  [scope |-> "call", match |-> match, require |-> require, constraint |-> {}, onFail |-> onFail]
Constrained(match, kinds, onFail) == [Rule(match, {}, onFail) EXCEPT !.constraint = kinds]
AtStartup(require) == [Rule(Everything, require, SeverityKill) EXCEPT !.scope = "startup"]

Doc(mode, rules, ttl) ==
  [mode |-> mode, rules |-> rules, ttl |-> ttl, limits |-> <<>>, requirePlan |-> {},
   webhook |-> TRUE]

Arg(kind, within) == [kind |-> kind, within |-> within]
Call(tool) == [method |-> "tool", readable |-> TRUE, tool |-> tool, arg |-> Arg("number", TRUE)]
CallWith(arg) == [Call("del") EXCEPT !.arg = arg]
Unreadable(method) == [Call("") EXCEPT !.method = method, !.readable = FALSE]
Fetch == [Call("state") EXCEPT !.method = "data"]
List  == [Call("") EXCEPT !.method = "other"]

Server(doc, requests) ==
  [point |-> "server", docs |-> <<doc>>, requests |-> requests, approver |-> TRUE,
   key |-> TRUE, refresh |-> FALSE, until |-> 4, answers |-> {"pass", "fail"}]
Wire(docs, requests) ==
  [point |-> "wire", docs |-> docs, requests |-> requests, approver |-> FALSE,
   key |-> FALSE, refresh |-> FALSE, until |-> 5, answers |-> Status]

\* The sequence of F(p) for the parameters p in turn, and of F(p, q) for all pairs.
Each(F(_), ps) == [i \in 1 .. Len(ps) |-> F(ps[i])]
Both(F(_, _), ps, qs) ==
  [i \in 1 .. Len(ps) * Len(qs) |-> F(ps[((i - 1) \div Len(qs)) + 1], qs[((i - 1) % Len(qs)) + 1])]

Modes == <<"audit", "enforce">>
Live == [id \in {1} |-> 0]
Briefly == [id \in {1} |-> 1]
Mixed == [id \in {1, 2} |-> 2 - id]

\* Two layers that require the same signal, the user's by a weaker and narrower rule; and
\* one layer that holds, which the wire forwards.
Layers(m, u) ==
  Wire(<<Doc(m, <<Rule(Everything, {1}, SeverityDeny)>>, Briefly),
         Doc(u, <<Rule(Named, {1}, SeverityWarn)>>, Live)>>,
       [c1 |-> Call("del")])
OneLayer(q) ==
  Wire(<<Doc("enforce", <<Rule(ReadOnly, {1}, SeverityHold)>>, Live)>>,
       [c1 |-> q, c2 |-> Unreadable("tool")])
Layered == Both(Layers, Modes, Modes) \o Each(OneLayer, <<Fetch, Unreadable("data"), List>>)

\* A reading on the wire that a second call may find in the cache.
Cached ==
  <<[Wire(<<Doc("enforce", <<Rule(Everything, {1}, SeverityDeny)>>, Briefly)>>,
          [c1 |-> Call("del"), c2 |-> Call("del")]) EXCEPT !.answers = {"pass", "fail"}]>>

\* Rules that compete for one signal: the narrow one first, a broader one after it.
Competition(broad, tool) ==
  Server(Doc("enforce", <<Rule(Named, {1}, SeverityDeny), Rule(broad, {1}, SeverityWarn),
                          AtStartup({1})>>, Live), [c1 |-> Call(tool)])
Competing == Both(Competition, <<Everything, AnyTool, InFs, Destructive>>, <<"del", "new">>)

\* Arguments in and out of bounds, absent, null and of the wrong kind, at the server and on
\* the wire.
Argument(m, q) ==
  Server(Doc(m, <<Constrained(Named, {"number"}, SeverityKill)>>, Live), [c1 |-> q])
OnTheWire(q) ==
  Wire(<<Doc("enforce", <<Constrained(Destructive, {"number"}, SeverityDeny)>>, Live)>>, [c1 |-> q])
Given == <<CallWith(Arg("number", TRUE)), CallWith(Arg("number", FALSE)),
           CallWith(Arg("absent", FALSE)), CallWith(Arg("null", FALSE)),
           CallWith(Arg("string", TRUE)), Unreadable("tool")>>
Arguments ==
  Both(Argument, Modes, Given \o <<Unreadable("data"), List, Fetch>>) \o Each(OnTheWire, Given)

\* Two calls and the refresh over one cached and one live signal.
Overlapping ==
  <<[Server(Doc("enforce", <<Rule(Everything, {1, 2}, SeverityDeny)>>, Mixed),
            [c1 |-> Call("del"), c2 |-> Call("del")])
       EXCEPT !.refresh = TRUE, !.answers = {"pass"}, !.until = 5]>>

\* Four calls against a window for two of them, and three against one for one.
Limits(max, window, onExceed) ==
  <<[match |-> Destructive, window |-> window, max |-> max, onExceed |-> onExceed]>>
Two(m) ==
  Server([Doc(m, <<>>, Live) EXCEPT !.limits = Limits(2, 1, SeverityDeny)],
         [c1 |-> Call("del"), c2 |-> Call("del"), c3 |-> Call("del"), c4 |-> Call("del")])
One(m) ==
  [Server([Doc(m, <<>>, Live) EXCEPT !.limits = Limits(1, 2, SeverityKill)],
          [c1 |-> Call("del"), c2 |-> Call("Plan"), c3 |-> Fetch]) EXCEPT !.until = 5]
Limited == <<Two("enforce")>> \o Each(One, Modes)

\* Two calls held at once, with and without somebody to ask and a key to check the answer.
Holds(a, k) ==
  [Server(Doc("enforce", <<Constrained(Destructive, {"string"}, SeverityHold)>>, Live),
          [c1 |-> Call("del"), c2 |-> Call("del")])
     EXCEPT !.approver = a, !.key = k, !.until = Epoch]
Holding == Both(Holds, <<TRUE, FALSE>>, <<TRUE, FALSE>>)

\* Tools that need a plan.
Plans(m) ==
  Server([Doc(m, <<Rule(Everything, {1}, SeverityDeny)>>, Live)
            EXCEPT !.requirePlan = {Destructive}],
         [c1 |-> Call("del"), c2 |-> Call("Plan")])
Planned == Each(Plans, Modes)

MCSessions ==
  Layered \o Cached \o Competing \o Arguments \o Overlapping \o Limited \o Holding \o Planned
=============================================================================
