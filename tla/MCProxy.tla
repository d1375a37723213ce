------------------------------ MODULE MCProxy ------------------------------
(* Small instances of Proxy: which ids the client uses. *)
EXTENDS Proxy

\* The id the first injected request would draw.
Colliding == {[ns |-> "aw", n |-> 1]}

\* That id, and an ordinary string id.
ReservedAndPlain == Colliding \cup {[ns |-> "str", n |-> 1]}

NoIds == {}
=============================================================================
