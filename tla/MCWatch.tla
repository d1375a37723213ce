----------------------------- MODULE MCWatch ------------------------------
(* An instance of Watch for TLC.                                           *)
EXTENDS Watch

Full(armed) ==
  [dir |-> TRUE, token |-> TRUE, interval |-> 2, verify |-> <<"recheck", "beat">>, armed |-> armed]
Idle == [dir |-> FALSE, token |-> FALSE, interval |-> 0, verify |-> <<>>, armed |-> {}]

\* Everything is watched and nothing armed, or triggers of each goroutine are; the posture alone
\* is watched, and the file alone without a token; nothing is.
MCConfigs ==
  {Full({}), Full({"verify", "gap"}),
   [Idle EXCEPT !.interval = 1, !.armed = {"posture"}], [Idle EXCEPT !.dir = TRUE], Idle}
=============================================================================
