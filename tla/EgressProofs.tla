---------------------------- MODULE EgressProofs ---------------------------
(***************************************************************************)
(* Proofs about HostMatch and Egress: the intersection of two allowlists   *)
(* admits no host that one of them does not and, where their wildcards are *)
(* written as Compile keeps them, all that both admit, so that what is     *)
(* looked up and dialled is what every layer allows; and the counters and  *)
(* the table of refused hosts account for every request that is over.      *)
(***************************************************************************)
EXTENDS Egress, FiniteSetTheorems, NaturalsInduction, WellFoundedInduction, TLAPS

-----------------------------------------------------------------------------
(* Patterns.                                                                *)

\* A name at or below another agrees with it label by label (hostmatch.go:154-183).
LEMMA BelowLabels ==
  ASSUME NEW s \in Seq(Label), NEW t \in Seq(Label)
  PROVE  AtOrBelow(t, s) <=> /\ Len(s) <= Len(t)
                             /\ \A i \in 1 .. Len(s) : s[i] = t[i]
<1>1. ASSUME Len(s) <= Len(t)
      PROVE  SubSeq(s, 1, Len(s)) = SubSeq(t, 1, Len(s)) <=> \A i \in 1 .. Len(s) : s[i] = t[i]
  <2>1. /\ SubSeq(s, 1, Len(s)) = [i \in 1 .. Len(s) |-> s[i]]
        /\ SubSeq(t, 1, Len(s)) = [i \in 1 .. Len(s) |-> t[i]]
    BY <1>1
  <2> QED BY <2>1
<1> QED BY <1>1 DEF AtOrBelow, IsPrefix

\* Below is transitive.
LEMMA BelowTransitive ==
  ASSUME NEW s \in Seq(Label), NEW t \in Seq(Label), NEW u \in Seq(Label),
         AtOrBelow(t, s), AtOrBelow(u, t)
  PROVE  AtOrBelow(u, s)
<1>1. Len(s) <= Len(t) /\ \A i \in 1 .. Len(s) : s[i] = t[i]
  BY BelowLabels
<1>2. Len(t) <= Len(u) /\ \A i \in 1 .. Len(t) : t[i] = u[i]
  BY BelowLabels
<1>3. Len(s) <= Len(u) /\ \A i \in 1 .. Len(s) : s[i] = u[i]
  BY <1>1, <1>2
<1> QED BY <1>3, BelowLabels

\* Of two suffixes of one name, one is at or below the other.
LEMMA BelowComparable ==
  ASSUME NEW s \in Seq(Label), NEW t \in Seq(Label), NEW u \in Seq(Label),
         AtOrBelow(u, s), AtOrBelow(u, t)
  PROVE  AtOrBelow(t, s) \/ AtOrBelow(s, t)
<1>1. Len(s) <= Len(u) /\ \A i \in 1 .. Len(s) : s[i] = u[i]
  BY BelowLabels
<1>2. Len(t) <= Len(u) /\ \A i \in 1 .. Len(t) : t[i] = u[i]
  BY BelowLabels
<1>3. CASE Len(s) <= Len(t)
  <2>1. \A i \in 1 .. Len(s) : s[i] = t[i]
    BY <1>1, <1>2, <1>3
  <2> QED BY <1>3, <2>1, BelowLabels
<1>4. CASE Len(t) <= Len(s)
  <2>1. \A i \in 1 .. Len(t) : t[i] = s[i]
    BY <1>1, <1>2, <1>4
  <2> QED BY <1>4, <2>1, BelowLabels
<1> QED BY <1>3, <1>4

\* Where normalisation begins: after the label of a trailing dot.
Root(labels) == IF Len(labels) > 0 /\ labels[1] = "." THEN 1 ELSE 0

\* A normalised name has the labels that follow the trailing dot, each in punycode
\* (hostmatch.go:137-152).
LEMMA NormalLabels ==
  ASSUME NEW s \in Seq(Label)
  PROVE  /\ Normal(s) \in Seq(Label) /\ Len(Normal(s)) = Len(s) - Root(s)
         /\ \A i \in 1 .. Len(Normal(s)) : Normal(s)[i] = ToASCII[s[i + Root(s)]]
         /\ Root(s) \in {0, 1} /\ Root(s) <= Len(s)
<1>1. Root(s) \in {0, 1} /\ Root(s) <= Len(s)
  BY DEF Root
<1>2. PICK k \in {0, 1} : k = Root(s) /\ k <= Len(s)
  BY <1>1
<1>3. PICK n \in Nat : n = Len(s) - k
  BY <1>2
<1>4. Normal(s) = [i \in 1 .. n |-> ToASCII[s[i + k]]]
  BY <1>2, <1>3 DEF Normal, Root
<1>5. \A i \in 1 .. n : ToASCII[s[i + k]] \in Label
  BY <1>2, <1>3, LabelConstants
<1>6. Normal(s) \in Seq(Label) /\ Len(Normal(s)) = n
  BY <1>4, <1>5
<1> QED BY <1>2, <1>3, <1>4, <1>6

\* A name written below another is below it once both are normalised (compose.go:283-291).
LEMMA NormalBelow ==
  ASSUME NEW s \in Seq(Label), NEW t \in Seq(Label), AtOrBelow(t, s)
  PROVE  AtOrBelow(Normal(t), Normal(s))
<1>1. Len(s) <= Len(t) /\ \A i \in 1 .. Len(s) : s[i] = t[i]
  BY BelowLabels
<1>2. CASE Len(s) = 0
  <2>1. Root(s) = 0
    BY <1>2 DEF Root
  <2>2. Normal(s) \in Seq(Label) /\ Len(Normal(s)) = Len(s) - Root(s)
    BY NormalLabels
  <2>3. Normal(t) \in Seq(Label) /\ Len(Normal(t)) \in Nat /\ Len(Normal(s)) = 0
    BY <1>2, <2>1, <2>2, NormalLabels
  <2>4. PICK x \in Seq(Label), y \in Seq(Label) :
          x = Normal(s) /\ y = Normal(t) /\ Len(x) = 0
    BY <2>2, <2>3
  <2>5. Len(x) <= Len(y) /\ \A i \in 1 .. Len(x) : x[i] = y[i]
    BY <2>4
  <2>6. AtOrBelow(y, x)
    BY <2>5, BelowLabels
  <2> QED BY <2>4, <2>6
<1>3. CASE Len(s) # 0
  <2>1. PICK k \in {0, 1} : k = Root(s) /\ k = Root(t) /\ k <= Len(s) /\ k <= Len(t)
    BY <1>1, <1>3 DEF Root
  <2>2. /\ Normal(s) \in Seq(Label) /\ Len(Normal(s)) = Len(s) - k
        /\ \A i \in 1 .. Len(s) - k : Normal(s)[i] = ToASCII[s[i + k]]
    <3>1. /\ Normal(s) \in Seq(Label) /\ Len(Normal(s)) = Len(s) - Root(s)
          /\ \A i \in 1 .. Len(Normal(s)) : Normal(s)[i] = ToASCII[s[i + Root(s)]]
      BY NormalLabels
    <3> QED BY <2>1, <3>1
  <2>3. /\ Normal(t) \in Seq(Label) /\ Len(Normal(t)) = Len(t) - k
        /\ \A i \in 1 .. Len(t) - k : Normal(t)[i] = ToASCII[t[i + k]]
    <3>1. /\ Normal(t) \in Seq(Label) /\ Len(Normal(t)) = Len(t) - Root(t)
          /\ \A i \in 1 .. Len(Normal(t)) : Normal(t)[i] = ToASCII[t[i + Root(t)]]
      BY NormalLabels
    <3> QED BY <2>1, <3>1
  <2>4. \A i \in 1 .. Len(s) - k : Normal(s)[i] = Normal(t)[i]
    <3> SUFFICES ASSUME NEW i \in 1 .. Len(s) - k PROVE Normal(s)[i] = Normal(t)[i]
      OBVIOUS
    <3>1. i + k \in 1 .. Len(s) /\ i \in 1 .. Len(t) - k
      BY <1>1, <2>1
    <3> QED BY <1>1, <2>2, <2>3, <3>1
  <2> QED BY <1>1, <2>1, <2>2, <2>3, <2>4, BelowLabels
<1> QED BY <1>2, <1>3

\* One pattern admits a normalised host: the body of Set.Match.
Admits(p, h) ==
  CASE p.kind = "wild" -> h.kind = "name" /\ AtOrBelow(h.labels, Normal(p.labels))
    [] p.kind = "addr" -> h.kind = "addr" /\ h.addr = p.addr
    [] OTHER           -> h.kind = "name" /\ h.labels = Normal(p.labels)

Normalised(h) == [h EXCEPT !.labels = Normal(@)]

\* Set.Match asks the patterns one by one.
LEMMA MatchAdmits ==
  ASSUME NEW allow, NEW w
  PROVE  Match(allow, w) <=> w.form # "bad" /\ \E p \in allow : Admits(p, Normalised(w.host))
BY DEF Match, normalizeHost, Admits, Normalised

\* A normalised host is one.
LEMMA NormalisedHost == ASSUME NEW h \in Host PROVE Normalised(h) \in Host
BY NormalLabels DEF Normalised, Host

\* An entry that is no wildcard is covered when some pattern admits the host it names.
LEMMA CoveredExact ==
  ASSUME NEW allow \in SUBSET Pattern, NEW p \in Pattern, p.kind # "wild"
  PROVE  coveredBy(p, allow) <=> \E q \in allow : Admits(q, Normalised(p))
<1>1. Written(p, "plain").form # "bad" /\ Written(p, "plain").host = p
  BY DEF Written
<1>2. coveredBy(p, allow) <=> Match(allow, Written(p, "plain"))
  BY DEF coveredBy
<1> QED BY <1>1, <1>2, MatchAdmits

\* Such an entry admits no other host than the one it names.
LEMMA ExactAdmits ==
  ASSUME NEW p \in Pattern, p.kind # "wild", NEW h \in Host, Admits(p, h), NEW q \in Pattern
  PROVE  Admits(q, h) <=> Admits(q, Normalised(p))
<1>1. Normalised(p).kind = p.kind /\ Normalised(p).labels = Normal(p.labels)
      /\ Normalised(p).addr = p.addr
  BY DEF Normalised, Pattern
<1>2. CASE p.kind = "addr"
  BY <1>1, <1>2 DEF Admits, Pattern
<1>3. CASE p.kind = "name"
  BY <1>1, <1>3 DEF Admits, Pattern
<1> QED BY <1>2, <1>3 DEF Pattern

\* A covered pattern admits nothing that the covering set does not (compose.go:272-292).
LEMMA CoveredIsAdmitted ==
  ASSUME NEW allow \in SUBSET Pattern, NEW p \in Pattern, coveredBy(p, allow),
         NEW h \in Host, Admits(p, h)
  PROVE  \E q \in allow : Admits(q, h)
<1>1. CASE p.kind = "wild"
  <2>1. PICK o \in allow : o.kind = "wild" /\ AtOrBelow(p.labels, o.labels)
    BY <1>1 DEF coveredBy
  <2>2. h.kind = "name" /\ AtOrBelow(h.labels, Normal(p.labels))
    BY <1>1 DEF Admits
  <2>3. p.labels \in Seq(Label) /\ o.labels \in Seq(Label) /\ h.labels \in Seq(Label)
    BY DEF Pattern, Host
  <2>4. AtOrBelow(Normal(p.labels), Normal(o.labels))
    BY <2>1, <2>3, NormalBelow
  <2>5. AtOrBelow(h.labels, Normal(o.labels))
    BY <2>2, <2>3, <2>4, NormalLabels, BelowTransitive
  <2> QED BY <2>1, <2>2, <2>5 DEF Admits
<1>2. CASE p.kind # "wild"
  <2>1. PICK q \in allow : Admits(q, Normalised(p))
    BY <1>2, CoveredExact
  <2> QED BY <1>2, <2>1, ExactAdmits
<1> QED BY <1>1, <1>2

\* Of two patterns that admit one host, one is covered by the other's set, if the wildcards are
\* written as they are kept.
LEMMA OneIsCovered ==
  ASSUME NEW a \in SUBSET Pattern, NEW b \in SUBSET Pattern, NEW p \in a, NEW q \in b,
         WildcardsPlain(a), WildcardsPlain(b), NEW h \in Host, Admits(p, h), Admits(q, h)
  PROVE  coveredBy(p, b) \/ coveredBy(q, a)
<1>1. CASE p.kind # "wild"
  BY <1>1, ExactAdmits, CoveredExact
<1>2. CASE q.kind # "wild"
  BY <1>2, ExactAdmits, CoveredExact
<1>3. CASE p.kind = "wild" /\ q.kind = "wild"
  <2>1. ~p.blank /\ ~q.blank /\ Normal(p.labels) = p.labels /\ Normal(q.labels) = q.labels
    BY <1>3 DEF WildcardsPlain
  <2>2. AtOrBelow(h.labels, p.labels) /\ AtOrBelow(h.labels, q.labels)
    BY <1>3, <2>1 DEF Admits
  <2>3. AtOrBelow(q.labels, p.labels) \/ AtOrBelow(p.labels, q.labels)
    BY <2>2, BelowComparable DEF Pattern, Host
  <2> QED BY <1>3, <2>1, <2>3 DEF coveredBy
<1> QED BY <1>1, <1>2, <1>3

\* The intersection of two allowlists admits a host, however host and patterns are written,
\* only when both do; and it admits all that both do when their wildcards are written as
\* Compile keeps them, for wildcards are compared unnormalised (compose.go:234-311).
THEOREM IntersectionIsExact ==
  ASSUME NEW a \in SUBSET Pattern, NEW b \in SUBSET Pattern, NEW w, w.host \in Host
  PROVE  /\ Match(intersectHostSets(a, b), w) => Match(a, w) /\ Match(b, w)
         /\ WildcardsPlain(a) /\ WildcardsPlain(b) /\ Match(a, w) /\ Match(b, w)
              => Match(intersectHostSets(a, b), w)
<1>0. PICK h \in Host : h = Normalised(w.host)
  BY NormalisedHost
<1>1. ASSUME Match(intersectHostSets(a, b), w) PROVE Match(a, w) /\ Match(b, w)
  <2>1. PICK p \in intersectHostSets(a, b) : w.form # "bad" /\ Admits(p, h)
    BY <1>0, <1>1, MatchAdmits
  <2>2. (p \in a /\ coveredBy(p, b)) \/ (p \in b /\ coveredBy(p, a))
    BY DEF intersectHostSets
  <2>3. /\ \E q \in a : Admits(q, h)
        /\ \E q \in b : Admits(q, h)
    BY <2>1, <2>2, CoveredIsAdmitted
  <2> QED BY <1>0, <2>1, <2>3, MatchAdmits
<1>2. ASSUME WildcardsPlain(a), WildcardsPlain(b), Match(a, w), Match(b, w)
      PROVE  Match(intersectHostSets(a, b), w)
  <2>1. PICK p \in a : w.form # "bad" /\ Admits(p, h)
    BY <1>0, <1>2, MatchAdmits
  <2>2. PICK q \in b : Admits(q, h)
    BY <1>0, <1>2, MatchAdmits
  <2>3. coveredBy(p, b) \/ coveredBy(q, a)
    BY <1>2, <2>1, <2>2, OneIsCovered
  <2>4. p \in intersectHostSets(a, b) \/ q \in intersectHostSets(a, b)
    BY <2>3 DEF intersectHostSets
  <2> QED BY <1>0, <2>1, <2>2, <2>4, MatchAdmits
<1> QED BY <1>1, <1>2

-----------------------------------------------------------------------------
(* Composition of the layers.                                               *)

On(m, u) == {l \in {m, u} : l.enabled}

Common(m, u) == {p \in UNION {l.ports : l \in On(m, u)} : \A l \in On(m, u) : p \in l.ports}

\* allow is composed of the lists: no wider than any and, if their wildcards are written as they
\* are kept, as wide as all of them.
Composed(allow, lists) ==
  /\ \A w : w.host \in Host /\ Match(allow, w) => \A l \in lists : Match(l, w)
  /\ (\A l \in lists : WildcardsPlain(l)) =>
       /\ WildcardsPlain(allow)
       /\ \A w : w.host \in Host /\ (\A l \in lists : Match(l, w)) => Match(allow, w)

Lists(m, u) == {l.allow : l \in On(m, u)}

\* An intersection is composed of the two lists.
LEMMA IntersectionComposed ==
  ASSUME NEW a \in SUBSET Pattern, NEW b \in SUBSET Pattern
  PROVE  Composed(intersectHostSets(a, b), {a, b})
<1>1. WildcardsPlain(a) /\ WildcardsPlain(b) => WildcardsPlain(intersectHostSets(a, b))
  BY DEF WildcardsPlain, intersectHostSets
<1>2. ASSUME NEW w, w.host \in Host
      PROVE  /\ Match(intersectHostSets(a, b), w) => Match(a, w) /\ Match(b, w)
             /\ WildcardsPlain(a) /\ WildcardsPlain(b) /\ Match(a, w) /\ Match(b, w)
                  => Match(intersectHostSets(a, b), w)
  BY <1>2, IntersectionIsExact
<1> QED BY <1>1, <1>2 DEF Composed

\* A parsed egress block is one (policyconfig.go:756-766).
LEMMA ParseTyped == ASSUME NEW l \in Layers PROVE Parse(l) \in EgressPolicy
<1>1. l \in EgressPolicy /\ DefaultPorts \in SUBSET (Nat \ {0})
  BY EgressConstants
<1> QED BY <1>1 DEF Parse, EgressPolicy

\* An intersection has patterns of both lists only.
LEMMA IntersectionTyped ==
  ASSUME NEW a \in SUBSET Pattern, NEW b \in SUBSET Pattern
  PROVE  intersectHostSets(a, b) \in SUBSET Pattern
BY DEF intersectHostSets

\* An enabled composition is composed of the enabled layers, on a port they have in common if
\* there is one, and private addresses when all allow them (compose.go:205-232).
LEMMA ComposeIsExact ==
  ASSUME NEW m \in EgressPolicy, NEW u \in EgressPolicy, composeEgress(u, m).enabled
  PROVE  /\ composeEgress(u, m) \in EgressPolicy
         /\ Composed(composeEgress(u, m).allow, Lists(m, u))
         /\ Common(m, u) \subseteq composeEgress(u, m).ports
         /\ Common(m, u) # {} => composeEgress(u, m).ports = Common(m, u)
         /\ composeEgress(u, m).private => \A l \in On(m, u) : l.private
<1> DEFINE c == composeEgress(u, m)
<1>1. CASE ~m.enabled \/ ~u.enabled
  <2>1. PICK l \in {m, u} : c = l /\ On(m, u) = {l}
    BY <1>1 DEF composeEgress, On
  <2>2. Common(m, u) = l.ports /\ Lists(m, u) = {l.allow}
    BY <2>1 DEF Common, Lists
  <2>3. Composed(l.allow, {l.allow})
    BY DEF Composed
  <2> HIDE DEF c
  <2>4. c \in EgressPolicy /\ Composed(c.allow, Lists(m, u))
    BY <2>1, <2>2, <2>3
  <2>5. /\ Common(m, u) = c.ports
        /\ c.private => \A x \in On(m, u) : x.private
    BY <2>1, <2>2
  <2> QED BY <2>4, <2>5 DEF c
<1>2. CASE m.enabled /\ u.enabled
  <2>1. On(m, u) = {m, u}
    BY <1>2 DEF On
  <2>2. c = [u EXCEPT !.allow   = intersectHostSets(m.allow, @),
                      !.ports   = intersectPorts(@, m.ports),
                      !.private = @ /\ m.private]
    BY <1>2 DEF composeEgress
  <2>3. /\ m.allow \in SUBSET Pattern /\ u.allow \in SUBSET Pattern
        /\ m.ports \in SUBSET (Nat \ {0}) /\ u.ports \in SUBSET (Nat \ {0})
        /\ m.private \in BOOLEAN /\ u.private \in BOOLEAN
    BY DEF EgressPolicy
  <2>4. /\ c.allow = intersectHostSets(m.allow, u.allow)
        /\ c.ports = intersectPorts(u.ports, m.ports)
        /\ c.private = (u.private /\ m.private)
    BY <2>2 DEF EgressPolicy
  <2>5. intersectPorts(u.ports, m.ports) \in SUBSET (Nat \ {0})
    BY <2>3 DEF intersectPorts
  <2>6. c \in EgressPolicy
    <3>1. /\ intersectHostSets(m.allow, u.allow) \in SUBSET Pattern
          /\ (u.private /\ m.private) \in BOOLEAN /\ u.enabled \in BOOLEAN
      BY <2>3, IntersectionTyped DEF EgressPolicy
    <3>2. c = [enabled |-> u.enabled, allow |-> intersectHostSets(m.allow, u.allow),
               ports |-> intersectPorts(u.ports, m.ports), private |-> (u.private /\ m.private)]
      BY <2>2 DEF EgressPolicy
    <3> QED BY <2>5, <3>1, <3>2 DEF EgressPolicy
  <2>7. Common(m, u) = m.ports \cap u.ports
    BY <2>1 DEF Common
  <2> HIDE DEF c
  <2>8. Composed(c.allow, Lists(m, u))
    <3>1. Lists(m, u) = {m.allow, u.allow}
      BY <2>1 DEF Lists
    <3> QED BY <2>3, <2>4, <3>1, IntersectionComposed
  <2>9. /\ Common(m, u) \subseteq c.ports
        /\ Common(m, u) # {} => c.ports = Common(m, u)
    BY <2>4, <2>7 DEF intersectPorts
  <2>10. c.private => \A l \in On(m, u) : l.private
    BY <2>1, <2>3, <2>4
  <2> QED BY <2>6, <2>8, <2>9, <2>10 DEF c
<1> QED BY <1>1, <1>2

\* A composition of egress blocks is one.
LEMMA ComposeTyped ==
  ASSUME NEW m \in EgressPolicy, NEW u \in EgressPolicy
  PROVE  composeEgress(u, m) \in EgressPolicy
<1>1. CASE ~m.enabled \/ ~u.enabled
  BY <1>1 DEF composeEgress
<1>2. CASE m.enabled /\ u.enabled
  <2>1. composeEgress(u, m).enabled = u.enabled
    BY <1>2 DEF composeEgress, EgressPolicy
  <2> QED BY <1>2, <2>1, ComposeIsExact
<1> QED BY <1>1, <1>2

\* The configuration allows what the layers and the manifest all allow.
Agreed ==
  cfg.up \in {"up", "stopped"} =>
    /\ \A w \in Hosts : Match(cfg.allow, w) => w \in reach.hosts
    /\ reach.plain => \A w \in reach.hosts : Match(cfg.allow, w)
    /\ reach.ports \subseteq cfg.ports
    /\ reach.ports # {} => cfg.ports = reach.ports
    /\ cfg.private => reach.private

\* The manifest's origins narrow an enabled block to what they admit too (compose.go:140-155).
LEMMA ManifestIsExact ==
  ASSUME NEW e \in EgressPolicy, NEW o, o = {} \/ \E l \in OriginLists : o = {l}
  PROVE  /\ ApplyManifest(e, o) \in EgressPolicy
         /\ ApplyManifest(e, o).enabled = e.enabled /\ ApplyManifest(e, o).ports = e.ports
         /\ ApplyManifest(e, o).private = e.private
         /\ e.enabled => Composed(ApplyManifest(e, o).allow, {e.allow} \cup o)
<1> DEFINE f == ApplyManifest(e, o)
<1>1. CASE ~e.enabled \/ o = {}
  <2>1. ApplyManifest(e, o) = e
    BY <1>1 DEF ApplyManifest
  <2>2. e.enabled => {e.allow} \cup o = {e.allow}
    BY <1>1
  <2>3. Composed(e.allow, {e.allow})
    BY DEF Composed
  <2> QED BY <2>1, <2>2, <2>3
<1>2. CASE e.enabled /\ o # {}
  <2>1. PICK l \in OriginLists : o = {l}
    BY <1>2
  <2>2. l \in SUBSET Pattern /\ e.allow \in SUBSET Pattern
    BY EgressConstants DEF EgressPolicy
  <2>3. f = [e EXCEPT !.allow = intersectHostSets(l, @)]
    BY <1>2, <2>1 DEF ApplyManifest
  <2>4. /\ f \in EgressPolicy /\ f.enabled = e.enabled /\ f.ports = e.ports
        /\ f.private = e.private /\ f.allow = intersectHostSets(l, e.allow)
    BY <2>2, <2>3, IntersectionTyped DEF EgressPolicy
  <2> HIDE DEF f
  <2>5. Composed(f.allow, {e.allow} \cup o)
    <3>1. {e.allow} \cup o = {l, e.allow}
      BY <2>1
    <3> QED BY <2>2, <2>4, <3>1, IntersectionComposed
  <2> QED BY <2>4, <2>5 DEF f
<1> QED BY <1>1, <1>2

\* A proxy starts with what the layers and the manifest all allow.
LEMMA InitAgreed == Init => Agreed
<1> SUFFICES ASSUME Init, cfg.up \in {"up", "stopped"} PROVE Agreed
  BY DEF Agreed
<1>1. PICK m, u \in {Parse(l) : l \in Layers}, o \in {{}} \cup {{l} : l \in OriginLists}, t \in Tokens :
        /\ cfg = startEgressProxy(ApplyManifest(composeEgress(u, m), o), t)
        /\ reach = EveryLayer({m, u}, o)
  BY DEF Init
<1>2. m \in EgressPolicy /\ u \in EgressPolicy
  BY ParseTyped
<1> DEFINE c == composeEgress(u, m)
           e == ApplyManifest(c, o)
<1>3. c \in EgressPolicy
  BY <1>2, ComposeTyped
<1>4. o = {} \/ \E l \in OriginLists : o = {l}
  OBVIOUS
<1> HIDE DEF c, e
<1>5. cfg = startEgressProxy(e, t)
  BY <1>1 DEF c, e
<1>6. e.enabled
  BY <1>5 DEF startEgressProxy
<1>7. /\ cfg.allow = e.allow /\ cfg.private = e.private
      /\ cfg.ports = IF e.ports = {} THEN DefaultPorts ELSE e.ports
  BY <1>5 DEF startEgressProxy
<1>8. c.enabled /\ e.ports = c.ports /\ e.private = c.private
      /\ Composed(e.allow, {c.allow} \cup o)
  BY <1>3, <1>4, <1>6, ManifestIsExact DEF e
<1>9. /\ Composed(c.allow, Lists(m, u))
      /\ Common(m, u) \subseteq c.ports
      /\ Common(m, u) # {} => c.ports = Common(m, u)
      /\ c.private => \A l \in On(m, u) : l.private
  BY <1>2, <1>8, ComposeIsExact DEF c
<1>10. /\ reach.hosts = {w \in Hosts : /\ \A l \in On(m, u) : Match(l.allow, w)
                                       /\ \A l \in o : Match(l, w)}
       /\ reach.ports = Common(m, u) /\ (reach.private <=> \A l \in On(m, u) : l.private)
       /\ (reach.plain <=> /\ \A l \in On(m, u) : WildcardsPlain(l.allow)
                           /\ \A l \in o : WildcardsPlain(l))
  BY <1>1 DEF EveryLayer, On, Common
<1>11. /\ \A w \in Hosts : Match(cfg.allow, w) => w \in reach.hosts
       /\ reach.plain => \A w \in reach.hosts : Match(cfg.allow, w)
  <2>1. \A w \in Hosts : w.host \in Host
    BY EgressConstants
  <2>2. /\ \A w : w.host \in Host /\ Match(c.allow, w) => \A l \in On(m, u) : Match(l.allow, w)
        /\ (\A l \in On(m, u) : WildcardsPlain(l.allow)) =>
             /\ WildcardsPlain(c.allow)
             /\ \A w : w.host \in Host /\ (\A l \in On(m, u) : Match(l.allow, w))
                        => Match(c.allow, w)
    BY <1>9 DEF Composed, Lists
  <2>3. /\ \A w : w.host \in Host /\ Match(e.allow, w)
               => Match(c.allow, w) /\ \A l \in o : Match(l, w)
        /\ WildcardsPlain(c.allow) /\ (\A l \in o : WildcardsPlain(l)) =>
             \A w : w.host \in Host /\ Match(c.allow, w) /\ (\A l \in o : Match(l, w))
                    => Match(e.allow, w)
    BY <1>8 DEF Composed
  <2>4. \A w \in Hosts : Match(cfg.allow, w) => w \in reach.hosts
    BY <1>7, <1>10, <2>1, <2>2, <2>3
  <2>5. ASSUME reach.plain, NEW w \in reach.hosts PROVE Match(cfg.allow, w)
    BY <1>7, <1>10, <2>1, <2>2, <2>3, <2>5
  <2> QED BY <2>4, <2>5
<1>12. /\ reach.ports \subseteq cfg.ports
       /\ reach.ports # {} => cfg.ports = reach.ports
       /\ cfg.private => reach.private
  BY <1>7, <1>8, <1>9, <1>10
<1> QED BY <1>11, <1>12 DEF Agreed

-----------------------------------------------------------------------------
(* One request.                                                             *)

Halves  == {"none", "copying", "done"}
Peer    == {"open", "told", "finished"}
Over    == {"tunnel", "done"}
Request == [at : Stage, connect : BOOLEAN, written : Hosts \cup {Idle.written}, port : Nat,
            addr : Addr, counted : SUBSET Counter, up : Halves, down : Halves, client : Peer,
            upstream : Peer]

\* How far a request has come says what has been decided of it (proxy.go:161-396): a name is
\* looked up and an address dialled only when host, port and address are allowed, and a
\* request that is not over is not counted.
Served(q) ==
  /\ q.at # "idle" => cfg.up \in {"up", "stopped"}
  /\ q.at \notin Over => q.counted = {}
  /\ q.at \in {"new", "resolve", "dial"} => q.written \in Hosts
  /\ q.at \in {"resolve", "dial"} => Match(cfg.allow, q.written) /\ q.port \in cfg.ports
  /\ q.at = "dial" => ~ForbiddenAddr(q.addr, cfg.private)
  /\ q.at = "hijack" => q.connect
  /\ "deniedHost" \in q.counted => q.written \in Hosts /\ ~Match(cfg.allow, q.written)
  /\ "deniedPort" \in q.counted => q.port \notin cfg.ports

AllServed == req \in [Requests -> Request] /\ \A r \in Requests : Served(req[r])

\* A step of r makes it q and counts cs: nothing, or what it ends with.
Moves(r, q, cs) ==
  /\ req' = [req EXCEPT ![r] = q] /\ q \in Request /\ Served(q)
  /\ cfg' = cfg /\ reach' = reach
  /\ cs = {} => /\ counters' = counters
                /\ q.at \in Over <=> req[r].at \in Over
                /\ q.at \in Over => q.counted = req[r].counted /\ q.connect = req[r].connect
  /\ cs # {} => /\ req[r].at \notin Over /\ q.at \in Over /\ q.counted = cs /\ Count(cs)
                /\ (\E c \in Counter : cs = {c}) \/ (cs = {"allowed", "failed"} /\ q.connect)

\* The request that has not come in yet.
LEMMA IdleTyped == Idle \in Request /\ Idle.at = "idle" /\ Idle.counted = {}
<1>1. Plain("public") \in Addr
  BY DEF Plain, Addr, Class
<1> QED BY <1>1 DEF Idle, Request, Stage, Halves, Peer, Counter

\* Whatever ends a request counts what it ended with.
LEMMA EndMoves ==
  ASSUME AllServed, NEW r \in Requests, NEW cs \in SUBSET Counter, End(r, cs), cs # {},
         req[r].at \notin Over, cfg.up \in {"up", "stopped"}, cfg' = cfg, reach' = reach,
         (\E c \in Counter : cs = {c}) \/ (cs = {"allowed", "failed"} /\ req[r].connect),
         "deniedHost" \in cs => req[r].written \in Hosts /\ ~Match(cfg.allow, req[r].written),
         "deniedPort" \in cs => req[r].port \notin cfg.ports
  PROVE  \E q : Moves(r, q, cs)
<1> DEFINE q == [req[r] EXCEPT !.at = "done", !.counted = cs]
<1>1. req[r] \in Request
  BY DEF AllServed
<1>2. req' = [req EXCEPT ![r] = q]
  BY DEF End, AllServed
<1>3. q \in Request /\ q.at = "done" /\ q.counted = cs /\ q.connect = req[r].connect
      /\ q.written = req[r].written /\ q.port = req[r].port
  BY <1>1 DEF Request, Stage
<1> HIDE DEF q
<1>4. Served(q)
  BY <1>3 DEF Served, Over
<1>5. Count(cs)
  BY DEF End
<1>6. Moves(r, q, cs)
  BY <1>2, <1>3, <1>4, <1>5 DEF Moves, Over
<1> QED BY <1>6

\* A request comes in, or is ended at once (proxy.go:90-159).
LEMMA ServeMoves ==
  ASSUME AllServed, NEW r \in Requests, ServeHTTP(r)
  PROVE  \E q, cs : cs \subseteq Counter /\ Moves(r, q, cs)
<1>0. cfg.up = "up" /\ req[r].at = "idle" /\ UNCHANGED <<cfg, reach>>
  BY DEF ServeHTTP
<1>1. CASE End(r, {"deniedAuth"})
  <2>1. {"deniedAuth"} \in SUBSET Counter /\ {"deniedAuth"} # {}
    BY DEF Counter
  <2> QED BY <1>0, <1>1, <2>1, EndMoves DEF Over
<1>2. CASE End(r, {"failed"})
  <2>1. {"failed"} \in SUBSET Counter /\ {"failed"} # {}
    BY DEF Counter
  <2> QED BY <1>0, <1>2, <2>1, EndMoves DEF Over
<1>3. CASE ~End(r, {"deniedAuth"}) /\ ~End(r, {"failed"})
  <2>1. PICK w \in Hosts, port \in Ports, scheme \in Scheme :
          /\ req' = [req EXCEPT ![r] = Asked(w, port, scheme)]
          /\ UNCHANGED counters
    BY <1>3 DEF ServeHTTP
  <2> DEFINE q == Asked(w, port, scheme)
  <2>2. splitTarget(scheme, port) \in Nat
    BY EgressConstants DEF splitTarget
  <2>3. q \in Request /\ q.at = "new" /\ q.counted = {} /\ q.written = w
    BY <2>2, IdleTyped DEF Request, Stage, Asked
  <2>4. req' = [req EXCEPT ![r] = q]
    BY <2>1
  <2> HIDE DEF q
  <2>5. Moves(r, q, {})
    BY <1>0, <2>1, <2>3, <2>4 DEF Moves, Served, Over
  <2> QED BY <2>5
<1> QED BY <1>1, <1>2, <1>3

\* A step that decides nothing against the request and counts nothing.
LEMMA GoMoves ==
  ASSUME AllServed, NEW r \in Requests, NEW q \in Request, req' = [req EXCEPT ![r] = q],
         Served(q), UNCHANGED <<cfg, reach, counters>>, q.at \in Over <=> req[r].at \in Over,
         q.counted = req[r].counted, q.connect = req[r].connect
  PROVE  Moves(r, q, {})
BY DEF Moves

\* An address that is vetted is one that may be dialled (proxy.go:335-396).
LEMMA VettedMoves ==
  ASSUME AllServed, NEW r \in Requests, NEW a \in Addr, Vetted(r, a),
         ~ForbiddenAddr(a, cfg.private), req[r].at \in {"new", "resolve"},
         Match(cfg.allow, req[r].written), req[r].port \in cfg.ports
  PROVE  \E q : Moves(r, q, {})
<1> DEFINE q == [req[r] EXCEPT !.at = "dial", !.addr = a]
<1>1. req[r] \in Request /\ Served(req[r])
  BY DEF AllServed
<1>2. req' = [req EXCEPT ![r] = q] /\ UNCHANGED <<cfg, reach, counters>>
  BY DEF Vetted, AllServed
<1>3. /\ q \in Request /\ q.at = "dial" /\ q.addr = a /\ q.counted = req[r].counted
      /\ q.written = req[r].written /\ q.port = req[r].port /\ q.connect = req[r].connect
  BY <1>1 DEF Request, Stage
<1> HIDE DEF q
<1>4. Served(q)
  BY <1>1, <1>3 DEF Served, Over
<1> QED BY <1>2, <1>3, <1>4, GoMoves DEF Over

\* A refused host or address ends the request and is counted as such (proxy.go:398-416).
LEMMA DenyMoves ==
  ASSUME AllServed, NEW r \in Requests, req[r].at \in {"new", "resolve"},
         \/ denyHost(r) /\ ~Match(cfg.allow, req[r].written)
         \/ denyAddress(r)
  PROVE  \E q, cs : cs \subseteq Counter /\ Moves(r, q, cs)
<1>0. /\ cfg.up \in {"up", "stopped"} /\ req[r].written \in Hosts /\ req[r].at \notin Over
  BY DEF AllServed, Served, Over
<1>1. CASE denyHost(r) /\ ~Match(cfg.allow, req[r].written)
  <2>1. /\ {"deniedHost"} \in SUBSET Counter /\ {"deniedHost"} # {}
        /\ End(r, {"deniedHost"}) /\ cfg' = cfg /\ reach' = reach
    BY <1>1 DEF Counter, denyHost
  <2> QED BY <1>0, <1>1, <2>1, EndMoves
<1>2. CASE denyAddress(r)
  <2>1. /\ {"deniedAddress"} \in SUBSET Counter /\ {"deniedAddress"} # {}
        /\ End(r, {"deniedAddress"}) /\ cfg' = cfg /\ reach' = reach
    BY <1>2 DEF Counter, denyAddress
  <2> QED BY <1>0, <2>1, EndMoves
<1> QED BY <1>1, <1>2

\* The decision (proxy.go:335-371).
LEMMA CheckMoves ==
  ASSUME AllServed, NEW r \in Requests, checkTarget(r)
  PROVE  \E q, cs : cs \subseteq Counter /\ Moves(r, q, cs)
<1>0. /\ req[r].at = "new" /\ cfg.up \in {"up", "stopped"} /\ req[r].written \in Hosts
      /\ req[r].at \notin Over /\ req[r] \in Request /\ Served(req[r])
  BY DEF checkTarget, AllServed, Served, Over
<1>1. CASE req[r].port \notin cfg.ports
  <2>1. /\ {"deniedPort"} \in SUBSET Counter /\ {"deniedPort"} # {}
        /\ End(r, {"deniedPort"}) /\ cfg' = cfg /\ reach' = reach
    BY <1>1 DEF Counter, checkTarget
  <2> QED BY <1>0, <1>1, <2>1, EndMoves
<1>2. CASE req[r].port \in cfg.ports /\ ~Match(cfg.allow, req[r].written)
  <2>1. denyHost(r)
    BY <1>2 DEF checkTarget
  <2> QED BY <1>0, <1>2, <2>1, DenyMoves
<1>3. CASE req[r].port \in cfg.ports /\ Match(cfg.allow, req[r].written)
  <2>1. CASE req[r].written.host.kind = "name"
    <3> DEFINE q == [req[r] EXCEPT !.at = "resolve"]
    <3>1. req' = [req EXCEPT ![r] = q] /\ UNCHANGED <<cfg, reach, counters>>
      BY <1>3, <2>1 DEF checkTarget, Query, GoTo, AllServed
    <3>2. /\ q \in Request /\ q.at = "resolve" /\ q.counted = req[r].counted
          /\ q.written = req[r].written /\ q.port = req[r].port /\ q.connect = req[r].connect
      BY <1>0 DEF Request, Stage
    <3> HIDE DEF q
    <3>3. Served(q)
      BY <1>0, <1>3, <3>2 DEF Served, Over
    <3>4. Moves(r, q, {})
      BY <1>0, <3>1, <3>2, <3>3, GoMoves DEF Over
    <3> QED BY <3>4
  <2>2. CASE req[r].written.host.kind # "name" /\ ForbiddenAddr(req[r].written.host.addr, cfg.private)
    <3>1. denyAddress(r)
      BY <1>3, <2>2 DEF checkTarget
    <3> QED BY <1>0, <3>1, DenyMoves
  <2>3. CASE req[r].written.host.kind # "name" /\ ~ForbiddenAddr(req[r].written.host.addr, cfg.private)
    <3>1. Vetted(r, req[r].written.host.addr)
      BY <1>3, <2>3 DEF checkTarget
    <3>2. req[r].written.host.addr \in Addr
      BY <1>0, EgressConstants DEF Host
    <3>3. \E q : Moves(r, q, {})
      BY <1>0, <1>3, <2>3, <3>1, <3>2, VettedMoves
    <3> QED BY <3>3
  <2> QED BY <2>1, <2>2, <2>3
<1> QED BY <1>1, <1>2, <1>3

\* The answer of the resolver (proxy.go:373-396).
LEMMA ResolveMoves ==
  ASSUME AllServed, NEW r \in Requests, resolve(r)
  PROVE  \E q, cs : cs \subseteq Counter /\ Moves(r, q, cs)
<1>0. /\ req[r].at = "resolve" /\ cfg.up \in {"up", "stopped"} /\ req[r].at \notin Over
      /\ Match(cfg.allow, req[r].written) /\ req[r].port \in cfg.ports
  BY DEF resolve, AllServed, Served, Over
<1>1. CASE End(r, {"failed"}) /\ UNCHANGED <<cfg, reach>>
  <2>1. {"failed"} \in SUBSET Counter /\ {"failed"} # {}
    BY DEF Counter
  <2> QED BY <1>0, <1>1, <2>1, EndMoves
<1>2. CASE denyAddress(r)
  BY <1>0, <1>2, DenyMoves
<1>3. ASSUME NEW a \in Answers, NEW i \in DOMAIN a, ~ForbiddenAddr(a[i], cfg.private), Vetted(r, a[i])
      PROVE  \E q, cs : cs \subseteq Counter /\ Moves(r, q, cs)
  <2>1. a[i] \in Addr
    BY <1>3, EgressConstants
  <2>2. \E q : Moves(r, q, {})
    BY <1>0, <1>3, <2>1, VettedMoves
  <2> QED BY <2>2
<1> QED BY <1>1, <1>2, <1>3 DEF resolve

\* A step that changes where a request is or a half of its tunnel, once it is past the dial.
LEMMA PastMoves ==
  ASSUME AllServed, NEW r \in Requests, NEW q \in Request, req' = [req EXCEPT ![r] = q],
         UNCHANGED <<cfg, reach, counters>>, req[r].at # "idle",
         \/ q.at \in {"hijack", "respond"} /\ req[r].at = "dial" /\ (q.at = "hijack" => q.connect)
         \/ q.at \in Over /\ req[r].at \in Over,
         q.counted = req[r].counted, q.connect = req[r].connect, q.written = req[r].written,
         q.port = req[r].port
  PROVE  Moves(r, q, {})
<1>1. Served(req[r])
  BY DEF AllServed
<1>2. Served(q)
  BY <1>1 DEF Served, Over
<1>3. q.at \in Over <=> req[r].at \in Over
  BY DEF Over
<1> QED BY <1>2, <1>3, GoMoves

\* The dial (proxy.go:435-445).
LEMMA DialMoves ==
  ASSUME AllServed, NEW r \in Requests, dial(r)
  PROVE  \E q, cs : cs \subseteq Counter /\ Moves(r, q, cs)
<1>0. /\ req[r].at = "dial" /\ cfg.up \in {"up", "stopped"} /\ req[r].at \notin Over
      /\ req[r] \in Request /\ UNCHANGED <<cfg, reach>>
  BY DEF dial, AllServed, Served, Over
<1>1. CASE End(r, {"failed"})
  <2>1. {"failed"} \in SUBSET Counter /\ {"failed"} # {}
    BY DEF Counter
  <2> QED BY <1>0, <1>1, <2>1, EndMoves
<1>2. CASE GoTo(r, IF req[r].connect THEN "hijack" ELSE "respond") /\ UNCHANGED counters
  <2> DEFINE q == [req[r] EXCEPT !.at = IF req[r].connect THEN "hijack" ELSE "respond"]
  <2>1. req' = [req EXCEPT ![r] = q]
    BY <1>2 DEF GoTo, AllServed
  <2>2. /\ q \in Request /\ q.at \in {"hijack", "respond"} /\ (q.at = "hijack" => q.connect)
        /\ q.counted = req[r].counted /\ q.written = req[r].written /\ q.port = req[r].port
        /\ q.connect = req[r].connect
    BY <1>0 DEF Request, Stage
  <2> HIDE DEF q
  <2>3. Moves(r, q, {})
    BY <1>0, <1>2, <2>1, <2>2, PastMoves
  <2> QED BY <2>3
<1> QED BY <1>1, <1>2 DEF dial

\* The connection is taken over or the plain request answered (proxy.go:161-333).
LEMMA AnswerMoves ==
  ASSUME AllServed, NEW r \in Requests, serveConnect(r) \/ serveHTTP(r)
  PROVE  \E q, cs : cs \subseteq Counter /\ Moves(r, q, cs)
<1>0. /\ req[r].at \in {"hijack", "respond"} /\ cfg.up \in {"up", "stopped"} /\ req[r].at \notin Over
      /\ req[r] \in Request /\ UNCHANGED <<cfg, reach>> /\ req[r].counted = {}
      /\ serveConnect(r) => req[r].connect
  BY DEF serveConnect, serveHTTP, AllServed, Served, Over
<1>1. CASE End(r, {"failed"}) \/ End(r, {"allowed"}) \/ (serveConnect(r) /\ End(r, {"allowed", "failed"}))
  <2>1. /\ {"failed"} \in SUBSET Counter /\ {"allowed"} \in SUBSET Counter
        /\ {"allowed", "failed"} \in SUBSET Counter
        /\ {"failed"} # {} /\ {"allowed"} # {} /\ {"allowed", "failed"} # {}
        /\ {"deniedHost", "deniedPort"} \cap {"allowed", "failed"} = {}
        /\ "failed" \in Counter /\ "allowed" \in Counter
    BY DEF Counter
  <2>2. CASE End(r, {"failed"})
    BY <1>0, <2>1, <2>2, EndMoves
  <2>3. CASE End(r, {"allowed"})
    BY <1>0, <2>1, <2>3, EndMoves
  <2>4. CASE serveConnect(r) /\ End(r, {"allowed", "failed"})
    BY <1>0, <2>1, <2>4, EndMoves
  <2> QED BY <1>1, <2>2, <2>3, <2>4
<1>2. CASE /\ req' = [req EXCEPT ![r].at = "tunnel", ![r].counted = {"allowed"},
                                  ![r].up = "copying", ![r].down = "copying"]
           /\ Count({"allowed"})
  <2> DEFINE q == [req[r] EXCEPT !.at = "tunnel", !.counted = {"allowed"}, !.up = "copying",
                                 !.down = "copying"]
  <2>1. req' = [req EXCEPT ![r] = q]
    BY <1>2 DEF AllServed
  <2>2. q \in Request /\ q.at = "tunnel" /\ q.counted = {"allowed"}
    BY <1>0 DEF Request, Stage, Halves, Counter
  <2>3. {"allowed"} \subseteq Counter /\ {"allowed"} # {} /\ "allowed" \in Counter
    BY DEF Counter
  <2> HIDE DEF q
  <2>4. Served(q)
    BY <1>0, <2>2 DEF Served, Over
  <2>5. Moves(r, q, {"allowed"})
    BY <1>0, <1>2, <2>1, <2>2, <2>3, <2>4 DEF Moves, Over
  <2> QED BY <2>3, <2>5
<1> QED BY <1>1, <1>2 DEF serveConnect, serveHTTP

\* A tunnel runs and ends, uncounted (proxy.go:223-246).
LEMMA TunnelMoves ==
  ASSUME AllServed, NEW r \in Requests,
         \/ CopyUp(r) \/ CopyDown(r) \/ TunnelReturns(r)
         \/ \E side \in {"client", "upstream"} : PeerFinishes(r, side)
  PROVE  \E q, cs : cs \subseteq Counter /\ Moves(r, q, cs)
<1>0. /\ req[r].at = "tunnel" /\ req[r] \in Request /\ UNCHANGED <<cfg, reach, counters>>
  BY DEF CopyUp, CopyDown, TunnelReturns, PeerFinishes, AllServed
<1>1. ASSUME NEW q \in Request, req' = [req EXCEPT ![r] = q], q.at \in Over,
             q.counted = req[r].counted, q.connect = req[r].connect, q.written = req[r].written,
             q.port = req[r].port
      PROVE  \E x, cs : cs \subseteq Counter /\ Moves(r, x, cs)
  <2>1. Moves(r, q, {})
    BY <1>0, <1>1, PastMoves DEF Over
  <2> QED BY <2>1
<1>2. CASE CopyUp(r)
  <2> DEFINE q == [req[r] EXCEPT !.up = "done", !.upstream = closeWrite(@)]
  <2>1. req' = [req EXCEPT ![r] = q]
    BY <1>2 DEF CopyUp, AllServed
  <2>2. /\ q \in Request /\ q.at \in Over /\ q.counted = req[r].counted /\ q.connect = req[r].connect
        /\ q.written = req[r].written /\ q.port = req[r].port
    BY <1>0 DEF Request, Halves, Peer, closeWrite, Over
  <2> HIDE DEF q
  <2> QED BY <1>1, <2>1, <2>2
<1>3. CASE CopyDown(r)
  <2> DEFINE q == [req[r] EXCEPT !.down = "done", !.client = closeWrite(@)]
  <2>1. req' = [req EXCEPT ![r] = q]
    BY <1>3 DEF CopyDown, AllServed
  <2>2. /\ q \in Request /\ q.at \in Over /\ q.counted = req[r].counted /\ q.connect = req[r].connect
        /\ q.written = req[r].written /\ q.port = req[r].port
    BY <1>0 DEF Request, Halves, Peer, closeWrite, Over
  <2> HIDE DEF q
  <2> QED BY <1>1, <2>1, <2>2
<1>4. CASE TunnelReturns(r)
  <2> DEFINE q == [req[r] EXCEPT !.at = "done"]
  <2>1. req' = [req EXCEPT ![r] = q]
    BY <1>4 DEF TunnelReturns, GoTo, AllServed
  <2>2. /\ q \in Request /\ q.at \in Over /\ q.counted = req[r].counted /\ q.connect = req[r].connect
        /\ q.written = req[r].written /\ q.port = req[r].port
    BY <1>0 DEF Request, Stage, Over
  <2> HIDE DEF q
  <2> QED BY <1>1, <2>1, <2>2
<1>5. ASSUME NEW side \in {"client", "upstream"}, PeerFinishes(r, side)
      PROVE  \E x, cs : cs \subseteq Counter /\ Moves(r, x, cs)
  <2> DEFINE q == [req[r] EXCEPT ![side] = "finished"]
  <2>1. req' = [req EXCEPT ![r] = q]
    BY <1>5 DEF PeerFinishes, AllServed
  <2>2. /\ q \in Request /\ q.at \in Over /\ q.counted = req[r].counted /\ q.connect = req[r].connect
        /\ q.written = req[r].written /\ q.port = req[r].port
    <3>1. CASE side = "client"
      BY <1>0, <3>1 DEF Request, Peer, Over
    <3>2. CASE side = "upstream"
      BY <1>0, <3>2 DEF Request, Peer, Over
    <3> QED BY <3>1, <3>2
  <2> HIDE DEF q
  <2> QED BY <1>1, <2>1, <2>2
<1> QED BY <1>2, <1>3, <1>4, <1>5

\* Every step is a move of one request, the stop of the listener, or nothing.
LEMMA StepShape ==
  ASSUME AllServed, [Next]_vars
  PROVE  \/ \E r \in Requests : \E q, cs : cs \subseteq Counter /\ Moves(r, q, cs)
         \/ Stop
         \/ UNCHANGED vars
<1>1. ASSUME NEW r \in Requests,
             \/ ServeHTTP(r) \/ Handler(r)
             \/ \E side \in {"client", "upstream"} : PeerFinishes(r, side)
      PROVE  \E q, cs : cs \subseteq Counter /\ Moves(r, q, cs)
  BY <1>1, ServeMoves, CheckMoves, ResolveMoves, DialMoves, AnswerMoves, TunnelMoves DEF Handler
<1> QED BY <1>1 DEF Next

-----------------------------------------------------------------------------
(* The proxy.                                                               *)

AllPatterns == UNION {l.allow : l \in Layers \cup {[allow |-> UNION OriginLists]}}

Config == [up : {"off", "refused", "up", "stopped"}, token : BOOLEAN, private : BOOLEAN,
           allow : SUBSET AllPatterns, ports : SUBSET (Nat \ {0})]

\* What has been looked up and dialled was allowed, and is well-typed.
Seen ==
  /\ \A q \in queried : q.written \in Hosts /\ Match(cfg.allow, q.written) /\ q.port \in cfg.ports
  /\ \A d \in dialled : /\ d.written \in Hosts /\ Match(cfg.allow, d.written) /\ d.port \in cfg.ports
                        /\ d.addr \in Addr /\ ~ForbiddenAddr(d.addr, cfg.private)
  /\ queried \cup dialled # {} => cfg.up \in {"up", "stopped"}

\* A composition has patterns of its layers and of the manifest only.
LEMMA ComposedPatterns ==
  ASSUME NEW m \in EgressPolicy, NEW u \in EgressPolicy, m.allow \subseteq AllPatterns,
         u.allow \subseteq AllPatterns, NEW o, o = {} \/ \E l \in OriginLists : o = {l}
  PROVE  ApplyManifest(composeEgress(u, m), o).allow \subseteq AllPatterns
<1> DEFINE c == composeEgress(u, m)
<1>1. c.allow \subseteq AllPatterns
  <2>1. CASE ~m.enabled \/ ~u.enabled
    BY <2>1 DEF composeEgress
  <2>2. CASE m.enabled /\ u.enabled
    <3>1. c.allow = intersectHostSets(m.allow, u.allow)
      BY <2>2 DEF composeEgress, EgressPolicy
    <3> QED BY <3>1 DEF intersectHostSets
  <2> QED BY <2>1, <2>2
<1>2. CASE o = {} \/ ~c.enabled
  BY <1>1, <1>2 DEF ApplyManifest
<1>3. CASE o # {} /\ c.enabled
  <2>1. PICK l \in OriginLists : o = {l}
    BY <1>3
  <2>2. l \subseteq AllPatterns
    <3>1. l \subseteq UNION OriginLists
      OBVIOUS
    <3>2. [allow |-> UNION OriginLists].allow = UNION OriginLists
      OBVIOUS
    <3>3. UNION OriginLists \in {x.allow : x \in Layers \cup {[allow |-> UNION OriginLists]}}
      BY <3>2
    <3> QED BY <3>1, <3>3 DEF AllPatterns
  <2>3. ApplyManifest(c, o) = [c EXCEPT !.allow = intersectHostSets(l, @)]
    BY <1>3, <2>1 DEF ApplyManifest
  <2>0. c \in EgressPolicy
    BY ComposeTyped
  <2> HIDE DEF c
  <2>4. ApplyManifest(c, o).allow = intersectHostSets(l, c.allow)
    BY <2>0, <2>3 DEF EgressPolicy
  <2>5. ApplyManifest(c, o).allow \subseteq AllPatterns
    BY <1>1, <2>2, <2>4 DEF intersectHostSets
  <2> QED BY <2>5 DEF c
<1> QED BY <1>2, <1>3

\* A proxy starts with a configuration and idle requests.
LEMMA InitProxy == Init => cfg \in Config /\ AllServed /\ Seen
<1> SUFFICES ASSUME Init PROVE cfg \in Config /\ AllServed /\ Seen
  OBVIOUS
<1>1. PICK k, j \in Layers, o \in {{}} \cup {{l} : l \in OriginLists}, t \in Tokens :
        cfg = startEgressProxy(ApplyManifest(composeEgress(Parse(j), Parse(k)), o), t)
  BY DEF Init
<1>2. /\ Parse(k) \in EgressPolicy /\ Parse(j) \in EgressPolicy
      /\ Parse(k).allow = k.allow /\ Parse(j).allow = j.allow
  BY ParseTyped, EgressConstants DEF Parse, EgressPolicy
<1>3. k.allow \subseteq AllPatterns /\ j.allow \subseteq AllPatterns
  BY DEF AllPatterns
<1> DEFINE c == composeEgress(Parse(j), Parse(k))
           e == ApplyManifest(c, o)
<1>4. o = {} \/ \E l \in OriginLists : o = {l}
  OBVIOUS
<1>5. c \in EgressPolicy
  BY <1>2, ComposeTyped
<1>6. e.allow \subseteq AllPatterns
  BY <1>2, <1>3, <1>4, ComposedPatterns
<1> HIDE DEF c
<1>7. e \in EgressPolicy
  BY <1>4, <1>5, ManifestIsExact
<1>8. cfg = startEgressProxy(e, t)
  BY <1>1 DEF c
<1> HIDE DEF e
<1>9. cfg \in Config
  <2>1. /\ t \in BOOLEAN /\ e.private \in BOOLEAN /\ e.ports \in SUBSET (Nat \ {0})
        /\ DefaultPorts \in SUBSET (Nat \ {0})
    BY <1>7, EgressConstants DEF EgressPolicy
  <2> QED BY <1>6, <1>8, <2>1 DEF startEgressProxy, Config
<1>10. AllServed
  BY IdleTyped DEF Init, AllServed, Served
<1>11. Seen
  BY DEF Init, Seen
<1> QED BY <1>9, <1>10, <1>11

\* Only Stop changes the configuration, and only that the listener is up.
LEMMA ConfigStays ==
  ASSUME cfg \in Config, AllServed, [Next]_vars
  PROVE  /\ cfg' \in Config /\ reach' = reach
         /\ cfg'.allow = cfg.allow /\ cfg'.ports = cfg.ports /\ cfg'.private = cfg.private
         /\ cfg'.up \in {"up", "stopped"} <=> cfg.up \in {"up", "stopped"}
<1>1. CASE Stop
  <2>1. cfg.up = "up" /\ cfg' = [cfg EXCEPT !.up = "stopped"] /\ reach' = reach
    BY <1>1 DEF Stop
  <2> QED BY <2>1 DEF Config
<1>2. CASE cfg' = cfg /\ reach' = reach
  BY <1>2
<1> QED BY <1>1, <1>2, StepShape DEF Moves, vars

\* Every step keeps what is true of every request.
LEMMA NextServed == cfg \in Config /\ AllServed /\ [Next]_vars => AllServed'
<1> SUFFICES ASSUME cfg \in Config, AllServed, [Next]_vars PROVE AllServed'
  OBVIOUS
<1>1. ASSUME NEW r \in Requests, NEW q, NEW cs, Moves(r, q, cs)
      PROVE  AllServed'
  <2>1. req' = [req EXCEPT ![r] = q] /\ q \in Request /\ Served(q) /\ cfg' = cfg
    BY <1>1 DEF Moves
  <2>2. req' \in [Requests -> Request]
    BY <2>1 DEF AllServed
  <2>3. ASSUME NEW x \in Requests PROVE Served(req'[x])
    BY <2>1 DEF AllServed
  <2>4. ASSUME NEW x \in Requests PROVE Served(req[x])'
    BY <2>1, <2>3 DEF Served
  <2> QED BY <2>2, <2>4 DEF AllServed
<1>2. CASE Stop
  <2>1. req' = req
    BY <1>2 DEF Stop
  <2>2. ASSUME NEW x \in Requests PROVE Served(req[x])'
    BY <2>1, ConfigStays DEF AllServed, Served
  <2> QED BY <2>1, <2>2 DEF AllServed
<1>3. CASE UNCHANGED vars
  BY <1>3 DEF vars, AllServed, Served
<1> QED BY <1>1, <1>2, <1>3, StepShape

\* Every step keeps the configuration agreed.
LEMMA NextAgreed == cfg \in Config /\ AllServed /\ Agreed /\ [Next]_vars => Agreed'
BY ConfigStays DEF Agreed, Match

\* A step looks up and dials only what has been allowed.
LEMMA NextSeen == cfg \in Config /\ AllServed /\ Seen /\ [Next]_vars => Seen'
<1> SUFFICES ASSUME cfg \in Config, AllServed, Seen, [Next]_vars PROVE Seen'
  OBVIOUS
<1>0. /\ cfg'.allow = cfg.allow /\ cfg'.ports = cfg.ports /\ cfg'.private = cfg.private
      /\ cfg'.up \in {"up", "stopped"} <=> cfg.up \in {"up", "stopped"}
  BY ConfigStays
<1>1. CASE queried' = queried /\ dialled' = dialled
  BY <1>0, <1>1 DEF Seen
<1>2. ASSUME NEW r \in Requests, checkTarget(r), ~(queried' = queried /\ dialled' = dialled)
      PROVE  Seen'
  <2>1. /\ req[r].port \in cfg.ports /\ Match(cfg.allow, req[r].written)
        /\ queried' = queried \cup {[written |-> req[r].written, port |-> req[r].port]}
        /\ dialled' = dialled
    BY <1>2 DEF checkTarget, denyHost, denyAddress, Vetted, Query
  <2>2. req[r].written \in Hosts /\ cfg.up \in {"up", "stopped"}
    BY <1>2 DEF checkTarget, AllServed, Served
  <2> QED BY <1>0, <2>1, <2>2 DEF Seen
<1>3. ASSUME NEW r \in Requests, dial(r)
      PROVE  Seen'
  <2>1. /\ req[r].at = "dial" /\ queried' = queried
        /\ dialled' = dialled \cup {[written |-> req[r].written, port |-> req[r].port,
                                     addr |-> req[r].addr]}
    BY <1>3 DEF dial
  <2>2. /\ req[r].written \in Hosts /\ cfg.up \in {"up", "stopped"} /\ req[r].addr \in Addr
        /\ req[r].port \in cfg.ports /\ Match(cfg.allow, req[r].written)
        /\ ~ForbiddenAddr(req[r].addr, cfg.private)
    BY <2>1 DEF AllServed, Served, Request
  <2> QED BY <1>0, <2>1, <2>2 DEF Seen
<1>4. ASSUME NEW r \in Requests,
             \/ ServeHTTP(r) \/ resolve(r) \/ serveConnect(r) \/ serveHTTP(r)
             \/ CopyUp(r) \/ CopyDown(r) \/ TunnelReturns(r)
             \/ \E side \in {"client", "upstream"} : PeerFinishes(r, side)
      PROVE  queried' = queried /\ dialled' = dialled
  BY <1>4 DEF ServeHTTP, resolve, serveConnect, serveHTTP, CopyUp, CopyDown, TunnelReturns,
              PeerFinishes, denyAddress, Vetted
<1>5. CASE Stop \/ UNCHANGED vars
  BY <1>1, <1>5 DEF Stop, vars
<1> QED BY <1>1, <1>2, <1>3, <1>4, <1>5 DEF Next, Handler

\* However requests interleave, names are spelled, addresses wrapped and the resolver answers:
\* what the proxy looks up and dials is what every layer and the manifest allow by themselves,
\* and what it refuses for its host or port one of them does not (compose.go:140-311,
\* proxy.go:335-396).
THEOREM ReachExact == Spec => []ReachIsExact
<1> DEFINE Inv == cfg \in Config /\ AllServed /\ Agreed /\ Seen
<1>1. Init => Inv
  BY InitAgreed, InitProxy
<1>2. Inv /\ [Next]_vars => Inv'
  BY ConfigStays, NextServed, NextAgreed, NextSeen
<1>3. Inv => ReachIsExact
  <2> SUFFICES ASSUME Inv PROVE ReachIsExact
    OBVIOUS
  <2>1. DialsWhatEveryLayerAllows
    <3> SUFFICES ASSUME NEW d \in dialled
                 PROVE  /\ d.written \in reach.hosts
                        /\ reach.ports # {} => d.port \in reach.ports
                        /\ {d.addr.class, d.addr.embeds} \cap {"special"} = {}
                        /\ "private" \in {d.addr.class, d.addr.embeds} => reach.private
      BY DEF DialsWhatEveryLayerAllows
    <3>1. /\ d.written \in Hosts /\ Match(cfg.allow, d.written) /\ d.port \in cfg.ports
          /\ ~ForbiddenAddr(d.addr, cfg.private) /\ cfg.up \in {"up", "stopped"}
      BY DEF Seen
    <3>2. d.written \in reach.hosts /\ (reach.ports # {} => d.port \in reach.ports)
          /\ (cfg.private => reach.private)
      BY <3>1 DEF Agreed
    <3>3. /\ {d.addr.class, d.addr.embeds} \cap {"special"} = {}
          /\ "private" \in {d.addr.class, d.addr.embeds} => cfg.private
      BY <3>1 DEF ForbiddenAddr, ForbiddenClass
    <3> QED BY <3>2, <3>3
  <2>2. RefusedLeaveNoQuery
    BY DEF RefusedLeaveNoQuery, Seen, Agreed
  <2>3. NoUndueRefusal
    <3> SUFFICES ASSUME NEW r \in Requests
                 PROVE  /\ "deniedHost" \in req[r].counted /\ reach.plain
                             => req[r].written \notin reach.hosts
                        /\ "deniedPort" \in req[r].counted => req[r].port \notin reach.ports
      BY DEF NoUndueRefusal
    <3>1. Served(req[r])
      BY DEF AllServed
    <3>2. req[r].counted # {} => cfg.up \in {"up", "stopped"}
      BY <3>1 DEF Served, Over
    <3> QED BY <3>1, <3>2 DEF Served, Agreed
  <2> QED BY <2>1, <2>2, <2>3 DEF ReachIsExact
<1> QED BY <1>1, <1>2, <1>3, PTL DEF Spec

-----------------------------------------------------------------------------
(* The sum of a table: MapThenSumSet adds up the elements in the order in    *)
(* which CHOOSE takes them, and the order does not matter.                  *)

AnyOf(s) == CHOOSE x \in s : TRUE

\* g adds up f over every subset of S, taking one element after another.
AddsUp(g, f, S) ==
  g = [s \in SUBSET S |-> IF s = {} THEN 0 ELSE f[AnyOf(s)] + g[s \ {AnyOf(s)}]]

\* The sum of a table's rows, as the fold of the library computes it.
SumOf(f) == MapThenSumSet(LAMBDA w : f[w], DOMAIN f)

\* Every nonempty set of naturals has a least element.
LEMMA LeastNat ==
  ASSUME NEW T \in SUBSET Nat, T # {}
  PROVE  \E n \in T : \A m \in T : n <= m
<1> DEFINE R == OpToRel(<, Nat)
<1>1. IsWellFoundedOn(R, Nat)
  BY NatLessThanWellFounded
<1> HIDE DEF R
<1>2. PICK n \in T : \A m \in T : ~(<<m, n>> \in R)
  BY <1>1, WFMin
<1>3. ASSUME NEW m \in T PROVE n <= m
  <2>1. <<m, n>> \in Nat \X Nat /\ <<m, n>>[1] = m /\ <<m, n>>[2] = n
    OBVIOUS
  <2>2. ~(m < n)
    BY <1>2, <2>1 DEF R, OpToRel
  <2> QED BY <2>2
<1> QED BY <1>2, <1>3

\* Among the subsets of a finite set with a property, one has the fewest elements.
LEMMA SmallestSubset ==
  ASSUME NEW S, IsFiniteSet(S), NEW B \in SUBSET (SUBSET S), B # {}
  PROVE  \E s \in B : \A t \in B : Cardinality(s) <= Cardinality(t)
<1> DEFINE T == {Cardinality(s) : s \in B}
<1>1. \A s \in B : Cardinality(s) \in Nat
  BY FS_Subset, FS_CardinalityType
<1>2. T \in SUBSET Nat /\ T # {}
  BY <1>1
<1>3. PICK n \in T : \A m \in T : n <= m
  <2> HIDE DEF T
  <2> QED BY <1>2, LeastNat
<1> QED BY <1>3

\* A set without one of its elements is smaller.
LEMMA Without ==
  ASSUME NEW S, IsFiniteSet(S), NEW s \in SUBSET S, NEW x \in s
  PROVE  /\ s \ {x} \in SUBSET S /\ IsFiniteSet(s)
         /\ Cardinality(s) \in Nat /\ Cardinality(s \ {x}) \in Nat
         /\ Cardinality(s) = Cardinality(s \ {x}) + 1
<1>1. IsFiniteSet(s) /\ Cardinality(s) \in Nat
  BY FS_Subset, FS_CardinalityType
<1>2. IsFiniteSet(s \ {x}) /\ Cardinality(s \ {x}) = Cardinality(s) - 1
  BY <1>1, FS_RemoveElement
<1>3. Cardinality(s \ {x}) \in Nat
  BY <1>2, FS_CardinalityType
<1> QED BY <1>1, <1>2, <1>3

\* What the fold returns.
LEMMA SumDef ==
  ASSUME NEW f
  PROVE  SumOf(f) = (CHOOSE g : AddsUp(g, f, DOMAIN f))[DOMAIN f]
BY DEF SumOf, MapThenSumSet, MapThenFoldSet, AddsUp, AnyOf

\* What adding up means, subset by subset.
LEMMA AddsUpMeans ==
  ASSUME NEW S, NEW f, NEW g, AddsUp(g, f, S), NEW s \in SUBSET S
  PROVE  /\ s = {} => g[s] = 0
         /\ s # {} => AnyOf(s) \in s /\ g[s] = f[AnyOf(s)] + g[s \ {AnyOf(s)}]
<1>1. g[s] = IF s = {} THEN 0 ELSE f[AnyOf(s)] + g[s \ {AnyOf(s)}]
  BY DEF AddsUp
<1>2. s # {} => AnyOf(s) \in s
  BY DEF AnyOf
<1> QED BY <1>1, <1>2

\* Over a finite set there is a function that adds up: one for the subsets of n elements gives
\* one for those of n + 1.
LEMMA SumExists ==
  ASSUME NEW S, IsFiniteSet(S), NEW f \in [S -> Nat]
  PROVE  \E g : AddsUp(g, f, S)
<1> DEFINE Upto(n) == \E g \in [SUBSET S -> Nat] :
                        \A s \in SUBSET S : Cardinality(s) <= n =>
                          g[s] = IF s = {} THEN 0 ELSE f[AnyOf(s)] + g[s \ {AnyOf(s)}]
           Bad     == {n \in Nat : ~Upto(n)}
<1>0. \A s \in SUBSET S : /\ IsFiniteSet(s) /\ Cardinality(s) \in Nat
                          /\ Cardinality(s) <= Cardinality(S) /\ (Cardinality(s) = 0 <=> s = {})
  BY FS_Subset, FS_CardinalityType, FS_EmptySet
<1>1. Upto(0)
  <2>1. \A s \in SUBSET S : Cardinality(s) <= 0 => s = {}
    BY <1>0
  <2>2. [s \in SUBSET S |-> 0] \in [SUBSET S -> Nat]
    OBVIOUS
  <2> QED BY <2>1, <2>2
<1>2. ASSUME NEW n \in Nat, Upto(n) PROVE Upto(n + 1)
  <2>1. PICK g \in [SUBSET S -> Nat] :
               \A s \in SUBSET S : Cardinality(s) <= n =>
                 g[s] = IF s = {} THEN 0 ELSE f[AnyOf(s)] + g[s \ {AnyOf(s)}]
    BY <1>2
  <2> DEFINE h == [s \in SUBSET S |-> IF s # {} THEN f[AnyOf(s)] + g[s \ {AnyOf(s)}] ELSE 0]
  <2>2. \A s \in SUBSET S : s # {} => AnyOf(s) \in s /\ AnyOf(s) \in S /\ s \ {AnyOf(s)} \in SUBSET S
    BY DEF AnyOf
  <2>3. h \in [SUBSET S -> Nat]
    BY <2>2
  <2>4. ASSUME NEW s \in SUBSET S, Cardinality(s) <= n PROVE h[s] = g[s]
    BY <2>1, <2>4
  <2>5. ASSUME NEW s \in SUBSET S, Cardinality(s) <= n + 1, s # {}
        PROVE  h[s] = f[AnyOf(s)] + h[s \ {AnyOf(s)}]
    <3>1. AnyOf(s) \in s /\ s \ {AnyOf(s)} \in SUBSET S
      BY <2>2, <2>5
    <3>2. /\ Cardinality(s) \in Nat /\ Cardinality(s \ {AnyOf(s)}) \in Nat
          /\ Cardinality(s) = Cardinality(s \ {AnyOf(s)}) + 1
      BY <3>1, Without
    <3>3. Cardinality(s \ {AnyOf(s)}) <= n
      BY <2>5, <3>2
    <3>4. h[s \ {AnyOf(s)}] = g[s \ {AnyOf(s)}]
      BY <2>4, <3>1, <3>3
    <3>5. h[s] = f[AnyOf(s)] + g[s \ {AnyOf(s)}]
      BY <2>5
    <3> QED BY <3>4, <3>5
  <2>6. \A s \in SUBSET S : s = {} => h[s] = 0
    OBVIOUS
  <2> HIDE DEF h
  <2> QED BY <2>3, <2>5, <2>6
<1>3. \A n \in Nat : Upto(n)
  <2> SUFFICES ASSUME Bad # {} PROVE FALSE
    OBVIOUS
  <2>1. PICK n \in Bad : \A m \in Bad : n <= m
    BY LeastNat
  <2>2. n \in Nat /\ ~Upto(n) /\ n # 0
    BY <1>1
  <2>3. n - 1 \in Nat /\ (n - 1) + 1 = n /\ ~(n <= n - 1)
    BY <2>2
  <2>4. n - 1 \notin Bad
    BY <2>1, <2>3
  <2>5. Upto(n - 1)
    BY <2>3, <2>4
  <2> HIDE DEF Upto, Bad
  <2>6. Upto((n - 1) + 1)
    BY <1>2, <2>3, <2>5
  <2> QED BY <2>2, <2>3, <2>6
<1>4. Cardinality(S) \in Nat
  BY FS_CardinalityType
<1>5. PICK g \in [SUBSET S -> Nat] :
             \A s \in SUBSET S : Cardinality(s) <= Cardinality(S) =>
               g[s] = IF s = {} THEN 0 ELSE f[AnyOf(s)] + g[s \ {AnyOf(s)}]
  BY <1>3, <1>4
<1>6. \A s \in SUBSET S : g[s] = IF s = {} THEN 0 ELSE f[AnyOf(s)] + g[s \ {AnyOf(s)}]
  BY <1>0, <1>5
<1>7. AddsUp(g, f, S)
  BY <1>6 DEF AddsUp
<1> QED BY <1>7

\* The sum over a subset is a natural number.
LEMMA SumTyped ==
  ASSUME NEW S, IsFiniteSet(S), NEW f \in [S -> Nat], NEW g, AddsUp(g, f, S)
  PROVE  \A s \in SUBSET S : g[s] \in Nat
<1> DEFINE B == {s \in SUBSET S : g[s] \notin Nat}
<1> SUFFICES ASSUME B # {} PROVE FALSE
  OBVIOUS
<1>1. PICK s \in B : \A t \in B : Cardinality(s) <= Cardinality(t)
  BY SmallestSubset
<1>2. s \in SUBSET S /\ g[s] \notin Nat
  OBVIOUS
<1>3. s # {} /\ AnyOf(s) \in s /\ g[s] = f[AnyOf(s)] + g[s \ {AnyOf(s)}]
  <2> HIDE DEF B
  <2>1. /\ s = {} => g[s] = 0
        /\ s # {} => AnyOf(s) \in s /\ g[s] = f[AnyOf(s)] + g[s \ {AnyOf(s)}]
    BY <1>2, AddsUpMeans
  <2>2. s # {}
    BY <1>2, <2>1
  <2> QED BY <2>1, <2>2
<1>4. /\ s \ {AnyOf(s)} \in SUBSET S /\ Cardinality(s \ {AnyOf(s)}) \in Nat
      /\ Cardinality(s) = Cardinality(s \ {AnyOf(s)}) + 1
  BY <1>2, <1>3, Without
<1>5. s \ {AnyOf(s)} \notin B
  <2> HIDE DEF B
  <2>1. ~(Cardinality(s) <= Cardinality(s \ {AnyOf(s)}))
    BY <1>4
  <2> QED BY <1>1, <2>1
<1>6. g[s \ {AnyOf(s)}] \in Nat /\ f[AnyOf(s)] \in Nat
  BY <1>2, <1>3, <1>4, <1>5
<1> QED BY <1>2, <1>3, <1>6

\* Any element may be taken first.
LEMMA AnyOrder ==
  ASSUME NEW S, IsFiniteSet(S), NEW f \in [S -> Nat], NEW g, AddsUp(g, f, S),
         NEW t \in SUBSET S, NEW y \in t
  PROVE  g[t] = f[y] + g[t \ {y}]
<1> DEFINE B == {s \in SUBSET S : \E x \in s : g[s] # f[x] + g[s \ {x}]}
<1> SUFFICES ASSUME B # {} PROVE FALSE
  OBVIOUS
<1>1. PICK s \in B : \A v \in B : Cardinality(s) <= Cardinality(v)
  BY SmallestSubset
<1>2. PICK x \in s : g[s] # f[x] + g[s \ {x}]
  OBVIOUS
<1>3. s \in SUBSET S /\ s # {}
  BY <1>2
<1> DEFINE c == AnyOf(s)
<1>4. c \in s /\ g[s] = f[c] + g[s \ {c}]
  <2> HIDE DEF B
  <2>1. /\ s = {} => g[s] = 0
        /\ s # {} => AnyOf(s) \in s /\ g[s] = f[AnyOf(s)] + g[s \ {AnyOf(s)}]
    BY <1>3, AddsUpMeans
  <2> QED BY <1>3, <2>1
<1> HIDE DEF c
<1>5. c # x
  BY <1>2, <1>4
<1>6. /\ s \ {c} \in SUBSET S /\ Cardinality(s \ {c}) \in Nat
      /\ Cardinality(s) = Cardinality(s \ {c}) + 1
  BY <1>3, <1>4, Without
<1>7. /\ s \ {x} \in SUBSET S /\ Cardinality(s \ {x}) \in Nat
      /\ Cardinality(s) = Cardinality(s \ {x}) + 1
  BY <1>2, <1>3, Without
<1>8. s \ {c} \notin B /\ s \ {x} \notin B
  <2> HIDE DEF B
  <2>1. ~(Cardinality(s) <= Cardinality(s \ {c})) /\ ~(Cardinality(s) <= Cardinality(s \ {x}))
    BY <1>6, <1>7
  <2> QED BY <1>1, <2>1
<1> DEFINE rest == (s \ {c}) \ {x}
<1>9. x \in s \ {c} /\ c \in s \ {x} /\ rest = (s \ {x}) \ {c} /\ rest \in SUBSET S
  BY <1>2, <1>3, <1>4, <1>5
<1>10. g[s \ {c}] = f[x] + g[rest]
  BY <1>6, <1>8, <1>9
<1>11. g[s \ {x}] = f[c] + g[rest]
  BY <1>7, <1>8, <1>9
<1>12. g[rest] \in Nat /\ f[x] \in Nat /\ f[c] \in Nat
  BY <1>2, <1>3, <1>4, <1>9, SumTyped
<1> HIDE DEF rest
<1> QED BY <1>2, <1>4, <1>10, <1>11, <1>12

\* Tables that agree on a set add up to the same over it.
LEMMA SumsAgree ==
  ASSUME NEW S, IsFiniteSet(S), NEW f \in [S -> Nat], NEW g, AddsUp(g, f, S),
         NEW T, IsFiniteSet(T), NEW h \in [T -> Nat], NEW k, AddsUp(k, h, T),
         NEW u \in SUBSET S, u \in SUBSET T, \A x \in u : f[x] = h[x]
  PROVE  g[u] = k[u]
<1> DEFINE B == {s \in SUBSET S : s \subseteq u /\ g[s] # k[s]}
<1> SUFFICES ASSUME B # {} PROVE FALSE
  OBVIOUS
<1>1. PICK s \in B : \A t \in B : Cardinality(s) <= Cardinality(t)
  BY SmallestSubset
<1>2. s \in SUBSET S /\ s \in SUBSET T /\ s \subseteq u /\ g[s] # k[s]
  OBVIOUS
<1>3. s # {}
  BY <1>2, AddsUpMeans
<1> DEFINE c == AnyOf(s)
<1>4. c \in s /\ g[s] = f[c] + g[s \ {c}] /\ k[s] = h[c] + k[s \ {c}]
  <2> HIDE DEF B
  <2>1. c \in s /\ g[s] = f[c] + g[s \ {c}]
    BY <1>2, <1>3, AddsUpMeans
  <2>2. k[s] = h[c] + k[s \ {c}]
    BY <1>2, <1>3, AddsUpMeans
  <2> QED BY <2>1, <2>2
<1> HIDE DEF c
<1>5. /\ s \ {c} \in SUBSET S /\ Cardinality(s \ {c}) \in Nat
      /\ Cardinality(s) = Cardinality(s \ {c}) + 1
  BY <1>2, <1>4, Without
<1>6. s \ {c} \notin B
  <2> HIDE DEF B
  <2>1. ~(Cardinality(s) <= Cardinality(s \ {c}))
    BY <1>5
  <2> QED BY <1>1, <2>1
<1>7. g[s \ {c}] = k[s \ {c}]
  BY <1>2, <1>5, <1>6
<1> QED BY <1>2, <1>4, <1>7

\* The fold returns what some function that adds up returns for the whole domain.
LEMMA SumIs ==
  ASSUME NEW f, IsFiniteSet(DOMAIN f), f \in [DOMAIN f -> Nat]
  PROVE  \E g : AddsUp(g, f, DOMAIN f) /\ SumOf(f) = g[DOMAIN f]
<1>1. \E g : AddsUp(g, f, DOMAIN f)
  BY SumExists
<1> DEFINE g == CHOOSE k : AddsUp(k, f, DOMAIN f)
<1>2. AddsUp(g, f, DOMAIN f)
  BY <1>1
<1>3. SumOf(f) = g[DOMAIN f]
  BY SumDef
<1> HIDE DEF g
<1> QED BY <1>2, <1>3

\* The rows of an empty table add up to nothing.
LEMMA SumOfNone ==
  ASSUME NEW f, DOMAIN f = {}, f \in [DOMAIN f -> Nat]
  PROVE  SumOf(f) = 0
<1>1. IsFiniteSet(DOMAIN f)
  BY FS_EmptySet
<1>2. PICK g : AddsUp(g, f, DOMAIN f) /\ SumOf(f) = g[DOMAIN f]
  BY <1>1, SumIs
<1>3. DOMAIN f \in SUBSET DOMAIN f
  OBVIOUS
<1>4. g[DOMAIN f] = 0
  BY <1>2, <1>3, AddsUpMeans
<1> QED BY <1>2, <1>4

\* One more in a row, old or new, is one more in the sum.
LEMMA SumOfOneMore ==
  ASSUME NEW f, IsFiniteSet(DOMAIN f), f \in [DOMAIN f -> Nat],
         NEW x, NEW h, DOMAIN h = DOMAIN f \cup {x}, h \in [DOMAIN h -> Nat],
         \A y \in DOMAIN f : y # x => h[y] = f[y],
         h[x] = IF x \in DOMAIN f THEN f[x] + 1 ELSE 1
  PROVE  SumOf(f) \in Nat /\ SumOf(h) = SumOf(f) + 1
<1>1. PICK g : AddsUp(g, f, DOMAIN f) /\ SumOf(f) = g[DOMAIN f]
  BY SumIs
<1>2. IsFiniteSet(DOMAIN h)
  BY FS_AddElement
<1>3. PICK k : AddsUp(k, h, DOMAIN h) /\ SumOf(h) = k[DOMAIN h]
  BY <1>2, SumIs
<1> DEFINE D == DOMAIN f
           E == DOMAIN h
           u == D \ {x}
<1>4. IsFiniteSet(D) /\ f \in [D -> Nat] /\ AddsUp(g, f, D)
  BY <1>1
<1>5. IsFiniteSet(E) /\ h \in [E -> Nat] /\ AddsUp(k, h, E)
  BY <1>2, <1>3
<1>6. /\ E = D \cup {x} /\ u = D \ {x}
      /\ \A y \in D : y # x => h[y] = f[y]
      /\ h[x] = IF x \in D THEN f[x] + 1 ELSE 1
  OBVIOUS
<1>7. SumOf(f) = g[D] /\ SumOf(h) = k[E]
  BY <1>1, <1>3
<1> HIDE DEF D, E, u
<1>8. u \in SUBSET D /\ u \in SUBSET E /\ u = E \ {x} /\ x \in E /\ (\A y \in u : f[y] = h[y])
  BY <1>6
<1>9. g[u] = k[u]
  BY <1>4, <1>5, <1>8, SumsAgree
<1>10. k[E] = h[x] + k[u]
  <2>1. E \in SUBSET E /\ x \in E
    BY <1>8
  <2>2. k[E] = h[x] + k[E \ {x}]
    BY <1>5, <2>1, AnyOrder
  <2> QED BY <1>8, <2>2
<1>11. g[u] \in Nat /\ g[D] \in Nat
  <2>1. \A s \in SUBSET D : g[s] \in Nat
    BY <1>4, SumTyped
  <2> QED BY <1>8, <2>1
<1>12. CASE x \in D
  <2>1. D \in SUBSET D
    OBVIOUS
  <2>2. g[D] = f[x] + g[u]
    BY <1>4, <1>6, <1>12, <2>1, AnyOrder
  <2>3. h[x] = f[x] + 1 /\ f[x] \in Nat
    BY <1>4, <1>6, <1>12
  <2>4. k[E] = g[D] + 1
    BY <1>9, <1>10, <1>11, <2>2, <2>3
  <2> QED BY <1>7, <1>11, <2>4
<1>13. CASE x \notin D
  <2>1. u = D /\ h[x] = 1
    BY <1>6, <1>13
  <2>2. k[E] = g[D] + 1
    BY <1>9, <1>10, <1>11, <2>1
  <2> QED BY <1>7, <1>11, <2>2
<1> QED BY <1>12, <1>13

-----------------------------------------------------------------------------
(* The counters and the table of refused hosts.                             *)

Ended == {r \in Requests : req[r].at \in Over}
Twice == {r \in Ended : req[r].connect /\ req[r].counted = {"allowed", "failed"}}
Total == counters["allowed"] + counters["deniedHost"] + counters["deniedPort"]
         + counters["deniedAddress"] + counters["deniedAuth"] + counters["failed"]

Counted == counters \in [Counter -> Nat] /\ Total = Cardinality(Ended) + Cardinality(Twice)

\* The table of refused hosts stays within its bound.
Table ==
  /\ denied \in [DOMAIN denied -> Nat \ {0}] /\ DOMAIN denied \subseteq Hosts
  /\ IsFiniteSet(DOMAIN denied) /\ Cardinality(DOMAIN denied) <= maxTrackedDeniedHosts

\* Its rows add up to no more refusals than were counted and, while it has room, to all.
Refused == counters["deniedHost"] + counters["deniedAddress"]
Noted ==
  /\ SumOf(denied) \in Nat /\ SumOf(denied) <= Refused
  /\ Cardinality(DOMAIN denied) < maxTrackedDeniedHosts => SumOf(denied) = Refused

\* The requests that are over are finitely many, and one more counts one more.
LEMMA EndedFinite ==
  /\ IsFiniteSet(Ended) /\ IsFiniteSet(Twice)
  /\ Cardinality(Ended) \in Nat /\ Cardinality(Twice) \in Nat
<1>1. Ended \subseteq Requests /\ Twice \subseteq Requests
  BY DEF Ended, Twice
<1>2. IsFiniteSet(Ended) /\ IsFiniteSet(Twice)
  BY <1>1, EgressConstants, FS_Subset
<1> QED BY <1>2, FS_CardinalityType

\* A new proxy has counted nothing.
LEMMA InitCounted == Init => Counted /\ Table
<1> SUFFICES ASSUME Init PROVE Counted /\ Table
  OBVIOUS
<1>1. Ended = {} /\ Twice = {}
  BY DEF Init, Idle, Ended, Twice, Over
<1>2. Cardinality({}) = 0 /\ IsFiniteSet({})
  BY FS_EmptySet
<1>3. Counted
  BY <1>1, <1>2 DEF Init, Counted, Total, Counter
<1>4. DOMAIN denied = {} /\ denied \in [{} -> Nat \ {0}]
  BY DEF Init
<1>5. Table
  BY <1>2, <1>4, EgressConstants DEF Table
<1> QED BY <1>3, <1>5

\* Every step that ends a request raises the total by one, by two when it is counted twice.
LEMMA NextCounted == AllServed /\ Counted /\ [Next]_vars => Counted'
<1> SUFFICES ASSUME AllServed, Counted, [Next]_vars PROVE Counted'
  OBVIOUS
<1>1. CASE UNCHANGED <<req, counters>>
  <2>1. Ended' = Ended /\ Twice' = Twice /\ Total' = Total
    BY <1>1 DEF Ended, Twice, Total
  <2> QED BY <1>1, <2>1 DEF Counted
<1>2. ASSUME NEW r \in Requests, NEW q, NEW cs, cs \subseteq Counter, Moves(r, q, cs)
      PROVE  Counted'
  <2>0. /\ req' = [req EXCEPT ![r] = q] /\ req'[r] = q
        /\ \A x \in Requests : x # r => req'[x] = req[x]
    BY <1>2 DEF Moves, AllServed
  <2>1. CASE cs = {}
    <3>1. /\ counters' = counters
          /\ q.at \in Over <=> req[r].at \in Over
          /\ q.at \in Over => q.counted = req[r].counted /\ q.connect = req[r].connect
      BY <1>2, <2>1 DEF Moves
    <3>2. Ended' = Ended
      BY <2>0, <3>1 DEF Ended
    <3>3. Twice' = Twice
      BY <2>0, <3>1, <3>2 DEF Twice, Ended
    <3> QED BY <3>1, <3>2, <3>3 DEF Counted, Total
  <2>2. CASE cs # {}
    <3>1. /\ req[r].at \notin Over /\ q.at \in Over /\ q.counted = cs /\ Count(cs)
          /\ (\E c \in Counter : cs = {c}) \/ (cs = {"allowed", "failed"} /\ q.connect)
      BY <1>2, <2>2 DEF Moves
    <3>2. Ended' = Ended \cup {r} /\ r \notin Ended
      BY <2>0, <3>1 DEF Ended
    <3>3. Cardinality(Ended') = Cardinality(Ended) + 1
      BY <3>2, EndedFinite, FS_AddElement
    <3>4. counters' = [c \in Counter |-> counters[c] + (IF c \in cs THEN 1 ELSE 0)]
      BY <3>1 DEF Count
    <3>5. counters' \in [Counter -> Nat]
      BY <3>4 DEF Counted
    <3>6. CASE \E c \in Counter : cs = {c}
      <4>1. PICK c \in Counter : cs = {c}
        BY <3>6
      <4>2. cs # {"allowed", "failed"}
        BY <4>1
      <4>3. Twice' = Twice
        BY <2>0, <3>1, <3>2, <4>2 DEF Twice, Ended
      <4>4. Total' = Total + 1
        BY <3>4, <4>1 DEF Counted, Total, Counter
      <4> QED BY <3>3, <3>5, <4>3, <4>4, EndedFinite DEF Counted
    <3>7. CASE cs = {"allowed", "failed"} /\ q.connect
      <4>1. Twice' = Twice \cup {r} /\ r \notin Twice
        BY <2>0, <3>1, <3>2, <3>7 DEF Twice, Ended
      <4>2. Cardinality(Twice') = Cardinality(Twice) + 1
        BY <4>1, EndedFinite, FS_AddElement
      <4>3. Total' = Total + 2
        BY <3>4, <3>7 DEF Counted, Total, Counter
      <4> QED BY <3>3, <3>5, <4>2, <4>3, EndedFinite DEF Counted
    <3> QED BY <3>1, <3>6, <3>7
  <2> QED BY <2>1, <2>2
<1>3. CASE Stop \/ UNCHANGED vars
  BY <1>1, <1>3 DEF Stop, vars
<1> QED BY <1>2, <1>3, StepShape

\* A refused host is noted in its row, in a new one while there is room, or not at all
\* (counters.go:59-71).
LEMMA NotedTable ==
  ASSUME Table, NEW h \in Hosts, noteDenied(h)
  PROVE  Table'
<1>1. CASE h \in DOMAIN denied
  <2>1. denied' = [denied EXCEPT ![h] = @ + 1]
    BY <1>1 DEF noteDenied
  <2>2. denied[h] \in Nat \ {0} /\ denied[h] + 1 \in Nat \ {0}
    BY <1>1 DEF Table
  <2>3. DOMAIN denied' = DOMAIN denied
    BY <2>1
  <2>4. denied' \in [DOMAIN denied -> Nat \ {0}]
    BY <2>1, <2>2 DEF Table
  <2> QED BY <2>3, <2>4 DEF Table
<1>2. CASE h \notin DOMAIN denied /\ Cardinality(DOMAIN denied) >= maxTrackedDeniedHosts
  BY <1>2 DEF noteDenied, Table
<1>3. CASE h \notin DOMAIN denied /\ ~(Cardinality(DOMAIN denied) >= maxTrackedDeniedHosts)
  <2>1. denied' = [x \in DOMAIN denied \cup {h} |-> IF x = h THEN 1 ELSE denied[x]]
    BY <1>3 DEF noteDenied
  <2>2. DOMAIN denied' = DOMAIN denied \cup {h} /\ denied' \in [DOMAIN denied' -> Nat \ {0}]
    BY <2>1 DEF Table
  <2>3. IsFiniteSet(DOMAIN denied') /\ Cardinality(DOMAIN denied') = Cardinality(DOMAIN denied) + 1
    BY <1>3, <2>2, FS_AddElement DEF Table
  <2>4. Cardinality(DOMAIN denied) \in Nat
    BY FS_CardinalityType DEF Table
  <2> QED BY <1>3, <2>2, <2>3, <2>4, EgressConstants DEF Table
<1> QED BY <1>1, <1>2, <1>3

\* Every step keeps the table within its bound.
LEMMA NextTable == AllServed /\ Table /\ [Next]_vars => Table'
<1> SUFFICES ASSUME AllServed, Table, [Next]_vars PROVE Table'
  OBVIOUS
<1>1. CASE denied' = denied
  BY <1>1 DEF Table
<1>2. ASSUME NEW r \in Requests, checkTarget(r) \/ resolve(r)
      PROVE  denied' = denied \/ (noteDenied(req[r].written) /\ req[r].written \in Hosts)
  <2>1. req[r].written \in Hosts
    BY <1>2 DEF checkTarget, resolve, AllServed, Served
  <2> QED BY <1>2, <2>1 DEF checkTarget, resolve, denyHost, denyAddress, Vetted, Query
<1>3. ASSUME NEW r \in Requests,
             \/ ServeHTTP(r) \/ dial(r) \/ serveConnect(r) \/ serveHTTP(r)
             \/ CopyUp(r) \/ CopyDown(r) \/ TunnelReturns(r)
             \/ \E side \in {"client", "upstream"} : PeerFinishes(r, side)
      PROVE  denied' = denied
  BY <1>3 DEF ServeHTTP, dial, serveConnect, serveHTTP, CopyUp, CopyDown, TunnelReturns,
              PeerFinishes
<1>4. CASE Stop \/ UNCHANGED vars
  BY <1>1, <1>4 DEF Stop, vars
<1> QED BY <1>1, <1>2, <1>3, <1>4, NotedTable DEF Next, Handler

\* A new table has no rows.
LEMMA InitNoted == Init => Noted
<1> SUFFICES ASSUME Init PROVE Noted
  OBVIOUS
<1>1. DOMAIN denied = {} /\ denied \in [DOMAIN denied -> Nat]
  BY DEF Init
<1>2. SumOf(denied) = 0
  BY <1>1, SumOfNone
<1>3. Refused = 0
  BY DEF Init, Refused, Counter
<1> QED BY <1>2, <1>3 DEF Noted

\* A refusal that is counted and noted: in a row, or nowhere when the table is full
\* (counters.go:59-71).
LEMMA NotedOneMore ==
  ASSUME Table, Noted, NEW h \in Hosts, noteDenied(h), Refused \in Nat, Refused' = Refused + 1
  PROVE  Noted'
<1>0. Cardinality(DOMAIN denied) \in Nat /\ maxTrackedDeniedHosts \in Nat
  BY EgressConstants, FS_CardinalityType DEF Table
<1>1. CASE h \notin DOMAIN denied /\ Cardinality(DOMAIN denied) >= maxTrackedDeniedHosts
  <2>1. denied' = denied
    BY <1>1 DEF noteDenied
  <2>2. ~(Cardinality(DOMAIN denied) < maxTrackedDeniedHosts)
    BY <1>0, <1>1
  <2>3. SumOf(denied') = SumOf(denied) /\ DOMAIN denied' = DOMAIN denied
    BY <2>1
  <2>4. SumOf(denied) \in Nat /\ SumOf(denied) <= Refused + 1
    BY DEF Noted
  <2> QED BY <2>2, <2>3, <2>4 DEF Noted
<1>2. CASE h \in DOMAIN denied \/ ~(Cardinality(DOMAIN denied) >= maxTrackedDeniedHosts)
  <2>1. /\ DOMAIN denied' = DOMAIN denied \cup {h}
        /\ \A y \in DOMAIN denied : y # h => denied'[y] = denied[y]
        /\ denied'[h] = IF h \in DOMAIN denied THEN denied[h] + 1 ELSE 1
    BY <1>2 DEF noteDenied
  <2>2. IsFiniteSet(DOMAIN denied) /\ denied \in [DOMAIN denied -> Nat]
    BY DEF Table
  <2>3. Table'
    BY NotedTable
  <2>4. denied' \in [DOMAIN denied' -> Nat]
    BY <2>3 DEF Table
  <2>5. SumOf(denied) \in Nat /\ SumOf(denied') = SumOf(denied) + 1
    BY <2>1, <2>2, <2>4, SumOfOneMore
  <2>6. Cardinality(DOMAIN denied') < maxTrackedDeniedHosts
          => Cardinality(DOMAIN denied) < maxTrackedDeniedHosts
    <3>1. Cardinality(DOMAIN denied') = IF h \in DOMAIN denied THEN Cardinality(DOMAIN denied)
                                        ELSE Cardinality(DOMAIN denied) + 1
      BY <2>1, <2>2, FS_AddElement
    <3> QED BY <1>0, <3>1
  <2> QED BY <2>5, <2>6 DEF Noted
<1> QED BY <1>1, <1>2

\* What a step that ends a request adds to the refusals.
LEMMA RefusedCount ==
  ASSUME Counted, NEW cs, Count(cs)
  PROVE  /\ Refused \in Nat
         /\ {"deniedHost", "deniedAddress"} \cap cs = {} => Refused' = Refused
         /\ cs \in {{"deniedHost"}, {"deniedAddress"}} => Refused' = Refused + 1
<1>1. /\ counters["deniedHost"] \in Nat /\ counters["deniedAddress"] \in Nat
      /\ counters'["deniedHost"] = counters["deniedHost"] + (IF "deniedHost" \in cs THEN 1 ELSE 0)
      /\ counters'["deniedAddress"] = counters["deniedAddress"] + (IF "deniedAddress" \in cs THEN 1 ELSE 0)
  BY DEF Counted, Count, Counter
<1>2. {"deniedHost", "deniedAddress"} \cap cs = {}
        => "deniedHost" \notin cs /\ "deniedAddress" \notin cs
  OBVIOUS
<1> QED BY <1>1, <1>2 DEF Refused

\* Every step keeps the sum of the table.
LEMMA NextNoted == AllServed /\ Counted /\ Table /\ Noted /\ [Next]_vars => Noted'
<1> SUFFICES ASSUME AllServed, Counted, Table, Noted, [Next]_vars PROVE Noted'
  OBVIOUS
<1>0. Refused \in Nat
  BY DEF Counted, Counter, Refused
<1>1. CASE denied' = denied /\ Refused' = Refused
  BY <1>1 DEF Noted
<1>2. ASSUME NEW r \in Requests, req[r].at \in {"new", "resolve"}, denyHost(r) \/ denyAddress(r)
      PROVE  Noted'
  <2>1. req[r].written \in Hosts /\ noteDenied(req[r].written)
    BY <1>2 DEF AllServed, Served, denyHost, denyAddress
  <2>2. Refused' = Refused + 1
    BY <1>2, RefusedCount DEF denyHost, denyAddress, End
  <2> QED BY <1>0, <2>1, <2>2, NotedOneMore
<1>3. ASSUME NEW cs, cs \subseteq {"deniedAuth", "deniedPort", "allowed", "failed"},
             counters' = counters \/ Count(cs), denied' = denied
      PROVE  Noted'
  <2>1. {"deniedHost", "deniedAddress"} \cap cs = {}
    BY <1>3
  <2>2. CASE counters' = counters
    BY <1>1, <1>3, <2>2 DEF Refused
  <2>3. CASE Count(cs)
    BY <1>1, <1>3, <2>1, <2>3, RefusedCount
  <2> QED BY <1>3, <2>2, <2>3
<1>4. ASSUME NEW r \in Requests, checkTarget(r) \/ resolve(r)
      PROVE  Noted'
  <2>1. req[r].at \in {"new", "resolve"}
    BY <1>4 DEF checkTarget, resolve
  <2>2. \/ denyHost(r) \/ denyAddress(r)
        \/ denied' = denied /\ (counters' = counters \/ Count({"deniedPort"}) \/ Count({"failed"}))
    BY <1>4 DEF checkTarget, resolve, Vetted, Query, End
  <2> QED BY <1>2, <1>3, <2>1, <2>2
<1>5. ASSUME NEW r \in Requests,
             \/ ServeHTTP(r) \/ dial(r) \/ serveConnect(r) \/ serveHTTP(r)
             \/ CopyUp(r) \/ CopyDown(r) \/ TunnelReturns(r)
             \/ \E side \in {"client", "upstream"} : PeerFinishes(r, side)
      PROVE  Noted'
  <2>1. /\ denied' = denied
        /\ \/ counters' = counters \/ Count({"deniedAuth"}) \/ Count({"failed"})
           \/ Count({"allowed"}) \/ Count({"allowed", "failed"})
    BY <1>5 DEF ServeHTTP, dial, serveConnect, serveHTTP, CopyUp, CopyDown, TunnelReturns,
                PeerFinishes, End
  <2> QED BY <1>3, <2>1
<1>6. CASE Stop \/ UNCHANGED vars
  BY <1>1, <1>6 DEF Stop, vars, Refused
<1> QED BY <1>4, <1>5, <1>6 DEF Next, Handler

\* However requests interleave, each that is over is counted, once but for a CONNECT that was
\* let through and could not be told so; the table of refused hosts, whatever is asked for,
\* never outgrows its bound, notes no refusal that did not happen and, while it has room,
\* every one that did (counters.go:18-71, proxy.go:90-333).
THEOREM CountsFaithful == Spec => []CountsAreFaithful
<1> DEFINE Inv == cfg \in Config /\ AllServed /\ Seen /\ Counted /\ Table /\ Noted
<1>1. Init => Inv
  BY InitProxy, InitCounted, InitNoted
<1>2. Inv /\ [Next]_vars => Inv'
  BY ConfigStays, NextServed, NextSeen, NextCounted, NextTable, NextNoted
<1>3. Inv => CountsAreFaithful
  <2> SUFFICES ASSUME Inv
               PROVE  TypeOK /\ EndedAreCounted /\ DeniedTableIsFaithful
    BY DEF CountsAreFaithful
  <2>1. \A r \in Requests : req[r].at \in Stage /\ req[r].port \in Nat /\ req[r].addr \in Addr
                            /\ req[r].up \in Halves /\ req[r].down \in Halves
    BY DEF AllServed, Request
  <2>2. \A d \in dialled : d.addr \in Addr /\ d.port \in Nat \ {0}
    BY DEF Seen, Config
  <2>3. TypeOK
    BY <2>1, <2>2 DEF TypeOK, Config, AllPatterns, Halves, Counted, Table
  <2>4. EndedAreCounted
    BY DEF EndedAreCounted, Counted, Total, Ended, Twice, Over
  <2>5. DeniedTableIsFaithful
    BY DEF DeniedTableIsFaithful, Table, Noted, SumOf, Refused
  <2> QED BY <2>3, <2>4, <2>5
<1> QED BY <1>1, <1>2, <1>3, PTL DEF Spec
=============================================================================
