----------------------------- MODULE MCEgress -----------------------------
(* Instances of Egress for TLC.                                            *)
EXTENDS Egress

MCLabel   == {".", "com", "ex", "fakeex", "www", "wide"}
MCToASCII == [l \in MCLabel |-> IF l = "wide" THEN "www" ELSE l]

Ex     == <<"com", "ex">>
ExDot  == <<".", "com", "ex">>
Www    == <<"com", "ex", "www">>
Wide   == <<"com", "ex", "wide">>
Fake   == <<"com", "fakeex">>
Wrapped == [class |-> "public", embeds |-> "private"]

\* A name below a wildcard, the apex with a trailing dot, a name that only looks alike, and an
\* address literal.
MCHosts == {Written(Name(Www), "plain"), Written(Name(ExDot), "plain"),
            Written(Name(Fake), "plain"), Written(Literal(Plain("private")), "other")}
MCDefault == {80, 443}
\* Wildcards as Compile keeps them, with a trailing dot and with a blank before them, opposite
\* each other and opposite exact names, one of them not in punycode.
MCLayers ==
  {NoEgress} \cup
  [enabled : {TRUE}, private : {TRUE}, ports : {{}, {443}},
   allow : {{Wildcard(Ex)}, {Wildcard(ExDot)}, {Exact(Ex), Exact(Wide)}, {Wildcard(Www)}}] \cup
  [enabled : {TRUE}, private : {FALSE}, ports : {{443}, {8443}},
   allow : {{Wildcard(Ex)}, {Blanked(Wildcard(Ex)), Exact(ExDot)},
            {Exact(Www), AddrPattern(Plain("private"))}}]
MCOrigins == {{Exact(Www)}, {Wildcard(Ex), AddrPattern(Plain("private"))}}
MCAnswers == {<<>>, <<Plain("special"), Plain("public")>>, <<Wrapped>>}
=============================================================================
