------------------------------ MODULE MCAudit ------------------------------
(* Audit for TLC: neither sessions nor events are told apart. *)
EXTENDS Audit

Interchangeable == Permutations(Sessions) \cup Permutations(Events)
=============================================================================
