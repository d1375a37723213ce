----------------------------- MODULE MCDrift ------------------------------
(* Instances of Drift for TLC.                                             *)
EXTENDS Drift

Kill == <<"Kill">>
One == {{"e1"}}
EmptyOrTwo == {{}, {"e1", "e2"}}
=============================================================================
