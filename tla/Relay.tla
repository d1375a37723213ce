------------------------------- MODULE Relay -------------------------------
(***************************************************************************)
(* What the proxy promises its client, with the pumps, the injected        *)
(* requests and the id rewriting left out: a request that was read is      *)
(* either refused by the harness or forwarded, a forwarded one is answered *)
(* at most once and under the id the client gave it, and until the session *)
(* is over the client sees no other response.                              *)
(***************************************************************************)
CONSTANT Client    \* the ids the client puts on its requests

VARIABLES
  phase,   \* per request: how far it has come
  seen,    \* ids of the responses to its requests the client was sent
  stray,   \* has the client been sent an answer to a request of the harness
  over     \* the session's context was cancelled or its proxy closed

relayVars == <<phase, seen, stray, over>>

RelayInit ==
  /\ phase = [i \in Client |-> "new"]
  /\ seen = {}
  /\ stray = FALSE
  /\ over = FALSE

Move(i, from, to) ==
  /\ phase[i] = from
  /\ phase' = [phase EXCEPT ![i] = to]
  /\ UNCHANGED <<stray, over>>

Ask(i)     == Move(i, "new", "asked") /\ UNCHANGED seen
Forward(i) == Move(i, "asked", "forwarded") /\ UNCHANGED seen
RefuseAsk(i) == Move(i, "asked", "refused") /\ seen' = seen \cup {i}
Answer(i)  == Move(i, "forwarded", "answered") /\ seen' = seen \cup {i}

End == ~over /\ over' = TRUE /\ UNCHANGED <<phase, seen, stray>>

\* After the end, and only then, the client may be sent what it never asked for.
StrayAnswer == over /\ stray' = TRUE /\ UNCHANGED <<phase, seen, over>>

RelayNext ==
  \/ \E i \in Client : Ask(i) \/ Forward(i) \/ RefuseAsk(i) \/ Answer(i)
  \/ End \/ StrayAnswer

RelaySpec == RelayInit /\ [][RelayNext]_relayVars
=============================================================================
