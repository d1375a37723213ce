---------------------------- MODULE HostMatch ----------------------------
(***************************************************************************)
(* Host patterns, addresses that are never dialled (guardrails/hostmatch)  *)
(* and the composition of the layers' egress blocks (guardrails/manifest). *)
(*                                                                         *)
(* A host name is the sequence of its labels from the root, so a name at   *)
(* or below another has it as a prefix.  Hosts and patterns are kept as    *)
(* they are written, but for the case of letters: a trailing dot is a      *)
(* label "." at the root, and a label need not be in punycode.  A host     *)
(* also has a form, for the spellings of an address and for a name that    *)
(* cannot be encoded.                                                      *)
(***************************************************************************)
EXTENDS Naturals, Sequences, SequencesExt, FiniteSets

CONSTANTS
  DefaultPorts,  \* policy.DefaultEgressPorts
  Label,         \* the labels names are written with
  ToASCII        \* external: idna.Lookup.ToASCII, label by label

ASSUME LabelConstants == ToASCII \in [Label -> Label]

\* An address: what it is, and what an IPv6 transition form of it carries.
Class == {"public", "private", "special"}
Addr  == [class : Class, embeds : Class \cup {"none"}]
Plain(c) == [class |-> c, embeds |-> "none"]

\* Written hosts, and the patterns of a list; blank: written with blanks before it.
Name(labels)      == [kind |-> "name", labels |-> labels, addr |-> Plain("public")]
Literal(a)        == [kind |-> "addr", labels |-> <<>>, addr |-> a]
Exact(labels)     == [kind |-> "name", labels |-> labels, addr |-> Plain("public"), blank |-> FALSE]
Wildcard(labels)  == [kind |-> "wild", labels |-> labels, addr |-> Plain("public"), blank |-> FALSE]
AddrPattern(a)    == [kind |-> "addr", labels |-> <<>>, addr |-> a, blank |-> FALSE]
Blanked(p)        == [p EXCEPT !.blank = TRUE]
Written(h, form)  == [host |-> h, form |-> form]

Host    == [kind : {"name", "addr"}, labels : Seq(Label), addr : Addr]
Pattern == [kind : {"name", "addr", "wild"}, labels : Seq(Label), addr : Addr, blank : BOOLEAN]

\* normalizeHost of a name: without the trailing dot, and in punycode.
Normal(labels) ==
  LET root == IF Len(labels) > 0 /\ labels[1] = "." THEN 1 ELSE 0
  IN  [i \in 1 .. Len(labels) - root |-> ToASCII[labels[i + root]]]

\* normalizeHost and Unmap: one spelling for every form that can be encoded.
normalizeHost(w) == IF w.form = "bad" THEN {} ELSE {[w.host EXCEPT !.labels = Normal(@)]}

AtOrBelow(labels, suffix) == IsPrefix(suffix, labels)

\* Compile and Set.Match: a literal is matched by literals alone, and a wildcard also matches
\* its apex.
Match(allow, w) ==
  \E h \in normalizeHost(w), p \in allow :
    CASE p.kind = "wild" -> h.kind = "name" /\ AtOrBelow(h.labels, Normal(p.labels))
      [] p.kind = "addr" -> h.kind = "addr" /\ h.addr = p.addr
      [] OTHER           -> h.kind = "name" /\ h.labels = Normal(p.labels)

\* Is the address in a class the proxy never dials, private ones by permission.
ForbiddenClass(c, allowPrivate) == c = "special" \/ (c = "private" /\ ~allowPrivate)

ForbiddenAddr(a, allowPrivate) ==
  \/ a.embeds # "none" /\ ForbiddenClass(a.embeds, allowPrivate)
  \/ ForbiddenClass(a.class, allowPrivate)

-----------------------------------------------------------------------------
(* Composition.  An egress block is [enabled, allow, ports, private]; what  *)
(* it asks of the OS, block_all_outbound and applications, is in Enforcer.  *)

EgressPolicy == [enabled : BOOLEAN, allow : SUBSET Pattern, ports : SUBSET (Nat \ {0}),
                 private : BOOLEAN]

NoEgress == [enabled |-> FALSE, allow |-> {}, ports |-> {}, private |-> FALSE]

\* Parse fills in the ports of an enabled block.
Parse(e) == IF e.enabled /\ e.ports = {} THEN [e EXCEPT !.ports = DefaultPorts] ELSE e

coveredByProbe(p, other) == 
  \E o \in other : AtOrBelow(p.labels, o.labels) \/ AtOrBelow(o.labels, p.labels)

\* A wildcard is covered by wildcards alone, and these are compared as they are written: one
\* with blanks before it is not seen to be a wildcard.  Any other entry is looked up.
coveredBy(p, other) ==
  IF p.kind = "wild"
  THEN \E o \in other : o.kind = "wild" /\ ~p.blank /\ ~o.blank /\ AtOrBelow(p.labels, o.labels)
  ELSE Match(other, Written(p, "plain"))

\* The wildcards of the list are written as Compile keeps them.
WildcardsPlain(allow) ==
  \A p \in allow : p.kind = "wild" => ~p.blank /\ Normal(p.labels) = p.labels

intersectHostSets(a, b) == {p \in a : coveredBy(p, b)} \cup {p \in b : coveredBy(p, a)}

\* An empty list is an unset one.
intersectPorts(a, b) == IF a = {} THEN b ELSE IF b = {} THEN a ELSE a \cap b

composeEgress(user, managed) ==
  IF ~managed.enabled THEN user
  ELSE IF ~user.enabled THEN managed
  ELSE [user EXCEPT !.allow   = intersectHostSets(managed.allow, @),
                    !.ports   = intersectPorts(@, managed.ports),
                    !.private = @ /\ managed.private]

\* The session manifest's origins, a set of at most one list, narrow an enabled block.
ApplyManifest(e, origins) ==
  IF ~e.enabled \/ origins = {} THEN e
  ELSE [e EXCEPT !.allow = intersectHostSets(CHOOSE o \in origins : TRUE, @)]
=============================================================================
