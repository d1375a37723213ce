---------------------------- MODULE MCEnforcer ----------------------------
(* Instances of Enforcer for TLC: one application, one exception.          *)
EXTENDS Enforcer

\* No profile, one in the middle and every profile blocked by the user already.
MCDefaults   == {[p \in Range(blockedProfiles) |-> IF p \in b THEN "block" ELSE "allow"] :
                  b \in {{}, {"private"}, Range(blockedProfiles)}}
MCBlock      == <<"block-app">>
MCExceptions == <<"allow-dns">>
=============================================================================
