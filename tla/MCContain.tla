----------------------------- MODULE MCContain -----------------------------
(* Contain for TLC: one profile, with a configured side and one that was     *)
(* never set.                                                                *)
EXTENDS Contain

MixedDefaults == << [in |-> "block", out |-> "unset"] >>
=============================================================================
