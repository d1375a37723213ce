--------------------------- MODULE EnforceProofs ---------------------------
(***************************************************************************)
(* Proofs about Policy and Enforce, for any documents, requests and bounds *)
(* that EnforceConstants admits.                                           *)
(***************************************************************************)
EXTENDS Enforce, FiniteSetTheorems, SequenceTheorems, NaturalsInduction,
        WellFoundedInduction, TLAPS

-----------------------------------------------------------------------------
(* Numbers.                                                                 *)

\* The induction that the lemmas on sequences use: a set of naturals has a least element.
LEMMA LeastNat ==
  ASSUME NEW T \in SUBSET Nat, T # {}
  PROVE  \E x \in T : \A y \in T : x <= y
<1> DEFINE R == OpToRel(<, Nat)
<1>1. IsWellFoundedOn(R, Nat)
  BY NatLessThanWellFounded
<1> HIDE DEF R
<1>2. PICK x \in T : \A y \in T : ~(<<y, x>> \in R)
  BY <1>1, WFMin
<1>3. ASSUME NEW y \in T PROVE x <= y
  <2>1. <<y, x>> \in Nat \X Nat /\ <<y, x>>[1] = y /\ <<y, x>>[2] = x
    OBVIOUS
  <2>2. ~(y < x)
    BY <1>2, <2>1 DEF R, OpToRel
  <2> QED BY <2>2
<1> QED BY <1>2, <1>3

LEMMA MinOf ==
  ASSUME NEW S \in SUBSET Nat, S # {}
  PROVE  Min(S) \in S /\ \A y \in S : Min(S) <= y
BY LeastNat DEF Min

LEMMA MaxOf ==
  ASSUME NEW S \in SUBSET Severity, S # {}
  PROVE  Max(S) \in S /\ \A y \in S : Max(S) >= y
<1> USE DEF Severity, SeverityAllow, SeverityKill
<1> DEFINE T == {4 - x : x \in S}
<1>0. \A x \in S : x \in 0 .. 4 /\ 4 - x \in T /\ 4 - x \in Nat
  OBVIOUS
<1>1. T \in SUBSET Nat /\ T # {}
  BY <1>0
<1>2. PICK t \in T : \A u \in T : t <= u
  BY <1>1, LeastNat
<1>3. PICK x \in S : t = 4 - x
  OBVIOUS
<1>4. ASSUME NEW y \in S PROVE x >= y
  <2>1. 4 - x <= 4 - y
    BY <1>0, <1>2, <1>3
  <2>2. x \in 0 .. 4 /\ y \in 0 .. 4
    OBVIOUS
  <2> HIDE DEF T
  <2> QED BY <2>1, <2>2
<1>5. \A y \in S : x >= y
  BY <1>4
<1> QED BY <1>5 DEF Max

-----------------------------------------------------------------------------
(* The attribution of signals to rules.                                     *)

\* f records what evaluateSignals has attributed after each of the first n rules.
Attributes(f, rules, subj, n) ==
  f = [i \in 0 .. n |-> IF i = 0 THEN <<>> ELSE Take(f[i - 1], rules[i], subj)]

\* The loop over the rules has a run, whatever the rules are.
LEMMA AttributionRuns ==
  ASSUME NEW doc, NEW subj, doc.rules \in Seq(Range(doc.rules))
  PROVE  \E f : Attributes(f, doc.rules, subj, Len(doc.rules)) /\ attributed(doc, subj) = f[Len(doc.rules)]
<1> DEFINE rules == doc.rules
           N == Len(rules)
           A(f, n) == Attributes(f, rules, subj, n)
           T == {n \in 0 .. N : ~\E f : A(f, n)}
<1>1. N \in Nat
  OBVIOUS
<1>2. A([i \in 0 .. 0 |-> <<>>], 0)
  BY DEF Attributes
<1>3. ASSUME NEW n \in 1 .. N, NEW g, A(g, n - 1)
      PROVE  A([i \in 0 .. n |-> IF i = n THEN Take(g[n - 1], rules[n], subj) ELSE g[i]], n)
  <2> DEFINE f == [i \in 0 .. n |-> IF i = n THEN Take(g[n - 1], rules[n], subj) ELSE g[i]]
  <2>1. \A i \in 0 .. n - 1 : g[i] = IF i = 0 THEN <<>> ELSE Take(g[i - 1], rules[i], subj)
    BY <1>3 DEF Attributes
  <2>2. ASSUME NEW i \in 0 .. n
        PROVE  f[i] = IF i = 0 THEN <<>> ELSE Take(f[i - 1], rules[i], subj)
    BY <1>1, <2>1
  <2> HIDE DEF f
  <2>3. f = [i \in 0 .. n |-> f[i]]
    BY DEF f
  <2>4. f = [i \in 0 .. n |-> IF i = 0 THEN <<>> ELSE Take(f[i - 1], rules[i], subj)]
    BY <2>2, <2>3
  <2>5. A(f, n)
    BY <2>4 DEF Attributes
  <2> QED BY <2>5 DEF f
<1>4. T = {}
  <2> SUFFICES ASSUME T # {} PROVE FALSE
    OBVIOUS
  <2>0. T \in SUBSET Nat
    BY <1>1
  <2>1. PICK n \in T : \A m \in T : n <= m
    <3> HIDE DEF T
    <3> QED BY <2>0, LeastNat
  <2>2. n # 0
    BY <1>2, <2>1
  <2>3. n \in 1 .. N /\ n - 1 \in 0 .. N /\ n - 1 \notin T
    BY <1>1, <2>1, <2>2
  <2> HIDE DEF A
  <2>4. PICK g : A(g, n - 1)
    BY <2>3
  <2>5. \E f : A(f, n)
    BY <1>3, <2>3, <2>4
  <2> QED BY <2>1, <2>5
<1>5. \E f : A(f, N)
  BY <1>1, <1>4
<1>6. A(CHOOSE f : A(f, N), N)
  BY <1>5
<1>7. attributed(doc, subj) = (CHOOSE f : A(f, N))[N]
  BY DEF attributed, Attributes
<1> QED BY <1>6, <1>7

\* A matching rule of the document that requires the signal.
Claims(r, subj, id) == matches(r, subj) /\ id \in r.require

\* Every signal some matching rule requires is attributed, to one of the most specific of
\* the rules that require it (engine.go:248-323).
LEMMA AttributionIsMostSpecific ==
  ASSUME NEW doc, NEW subj, doc.rules \in Seq(Range(doc.rules))
  PROVE  LET a == attributed(doc, subj) IN
         /\ \A id : id \in DOMAIN a <=> \E r \in Range(doc.rules) : Claims(r, subj, id)
         /\ \A id \in DOMAIN a :
              /\ \E r \in Range(doc.rules) :
                   /\ Claims(r, subj, id)
                   /\ a[id] = [severity |-> r.onFail, specificity |-> specificity(r)]
              /\ \A r \in Range(doc.rules) :
                   Claims(r, subj, id) => specificity(r) <= a[id].specificity
<1> DEFINE rules == doc.rules
           N == Len(rules)
<1>1. N \in Nat /\ DOMAIN rules = 1 .. N
  OBVIOUS
<1>2. PICK f : Attributes(f, rules, subj, N) /\ attributed(doc, subj) = f[N]
  BY AttributionRuns
<1>3. f[0] = <<>> /\ \A i \in 1 .. N : f[i] = Take(f[i - 1], rules[i], subj)
  <2>1. f = [i \in 0 .. N |-> IF i = 0 THEN <<>> ELSE Take(f[i - 1], rules[i], subj)]
    BY <1>2 DEF Attributes
  <2>2. 0 \in 0 .. N /\ \A i \in 1 .. N : i \in 0 .. N /\ i # 0
    BY <1>1
  <2>3. \A i \in 0 .. N : f[i] = IF i = 0 THEN <<>> ELSE Take(f[i - 1], rules[i], subj)
    BY <2>1
  <2> QED BY <2>2, <2>3
<1> DEFINE Owned(i, id) == \E j \in 1 .. i :
             /\ Claims(rules[j], subj, id)
             /\ f[i][id] = [severity |-> rules[j].onFail, specificity |-> specificity(rules[j])]
           Best(i, id) == \A j \in 1 .. i :
             Claims(rules[j], subj, id) => specificity(rules[j]) <= f[i][id].specificity
           Whole(i) == \A id : id \in DOMAIN f[i] <=> \E j \in 1 .. i : Claims(rules[j], subj, id)
           Good(i) == Whole(i) /\ \A id \in DOMAIN f[i] : Owned(i, id) /\ Best(i, id)
<1>4. Good(0)
  BY <1>3
<1>5. \A j \in 1 .. N : specificity(rules[j]) \in Nat
  BY DEF specificity
<1>6. ASSUME NEW i \in 1 .. N, Good(i - 1) PROVE Good(i)
  <2> DEFINE r == rules[i]
  <2>0. f[i] = Take(f[i - 1], r, subj)
    BY <1>3
  <2>1. CASE ~matches(r, subj)
    <3>1. f[i] = f[i - 1]
      BY <2>0, <2>1 DEF Take
    <3>2. \A id : ~Claims(rules[i], subj, id)
      BY <2>1 DEF Claims
    <3>3. 1 .. i = (1 .. i - 1) \cup {i}
      BY <1>1
    <3> QED BY <1>6, <3>1, <3>2, <3>3
  <2>2. CASE matches(r, subj)
    <3>1. /\ DOMAIN f[i] = DOMAIN f[i - 1] \cup r.require
          /\ \A id \in DOMAIN f[i] : f[i][id] =
               IF id \notin r.require
                  \/ (id \in DOMAIN f[i - 1] /\ f[i - 1][id].specificity > specificity(r))
               THEN f[i - 1][id]
               ELSE [severity |-> r.onFail, specificity |-> specificity(r)]
      BY <2>0, <2>2 DEF Take
    <3>2. \A id : Claims(rules[i], subj, id) <=> id \in r.require
      BY <2>2 DEF Claims
    <3>3. 1 .. i = (1 .. i - 1) \cup {i}
      BY <1>1
    <3>4. Whole(i)
      BY <1>6, <3>1, <3>2, <3>3
    <3>5. ASSUME NEW id \in DOMAIN f[i] PROVE Owned(i, id) /\ Best(i, id)
      <4>1. CASE id \notin r.require
        <5>1. id \in DOMAIN f[i - 1] /\ f[i][id] = f[i - 1][id]
          BY <3>1, <3>5, <4>1
        <5>2. Owned(i - 1, id) /\ Best(i - 1, id)
          BY <1>6, <5>1
        <5> QED BY <3>2, <3>3, <4>1, <5>1, <5>2
      <4>2. CASE id \in r.require /\ id \in DOMAIN f[i - 1]
                 /\ f[i - 1][id].specificity > specificity(r)
        <5>1. f[i][id] = f[i - 1][id]
          BY <3>1, <3>5, <4>2
        <5>2. Owned(i - 1, id) /\ Best(i - 1, id)
          BY <1>6, <4>2
        <5>3. f[i - 1][id].specificity \in Nat
          BY <1>1, <1>5, <5>2
        <5>4. Owned(i, id)
          BY <3>3, <5>1, <5>2
        <5>5. Best(i, id)
          BY <1>5, <3>3, <4>2, <5>1, <5>2, <5>3
        <5> QED BY <5>4, <5>5
      <4>3. CASE id \in r.require
                 /\ ~(id \in DOMAIN f[i - 1] /\ f[i - 1][id].specificity > specificity(r))
        <5>1. f[i][id] = [severity |-> r.onFail, specificity |-> specificity(r)]
          BY <3>1, <3>5, <4>3
        <5>2. Owned(i, id)
          BY <1>1, <3>2, <4>3, <5>1
        <5>3. ASSUME NEW j \in 1 .. i, Claims(rules[j], subj, id)
              PROVE  specificity(rules[j]) <= specificity(r)
          <6>1. CASE j = i
            BY <1>5, <6>1
          <6>2. CASE j # i
            <7>1. j \in 1 .. i - 1
              BY <1>1, <6>2
            <7>2. id \in DOMAIN f[i - 1]
              BY <1>6, <5>3, <7>1
            <7>3. Owned(i - 1, id) /\ Best(i - 1, id)
              BY <1>6, <7>2
            <7>4. f[i - 1][id].specificity \in Nat
              BY <1>1, <1>5, <7>3
            <7>5. specificity(rules[j]) <= f[i - 1][id].specificity
              BY <5>3, <7>1, <7>3
            <7>6. f[i - 1][id].specificity <= specificity(r)
              BY <1>5, <4>3, <7>2, <7>4
            <7>7. specificity(rules[j]) \in Nat /\ specificity(r) \in Nat
              BY <1>1, <1>5
            <7> QED BY <7>4, <7>5, <7>6, <7>7
          <6> QED BY <6>1, <6>2
        <5>4. Best(i, id)
          BY <5>1, <5>3
        <5> QED BY <5>2, <5>4
      <4> QED BY <4>1, <4>2, <4>3
    <3> HIDE DEF Owned, Best, Whole
    <3> QED BY <3>4, <3>5
  <2> QED BY <2>1, <2>2
<1> HIDE DEF Good
<1>7. Good(N)
  <2> DEFINE T == {i \in 0 .. N : ~Good(i)}
  <2> SUFFICES ASSUME T # {} PROVE FALSE
    BY <1>1
  <2>0. T \in SUBSET Nat
    BY <1>1
  <2>1. PICK i \in T : \A j \in T : i <= j
    <3> HIDE DEF T
    <3> QED BY <2>0, LeastNat
  <2>2. i # 0
    BY <1>4, <2>1
  <2>3. i - 1 \in 0 .. N /\ Good(i - 1)
    BY <1>1, <2>1, <2>2
  <2> QED BY <1>1, <1>6, <2>1, <2>2, <2>3
<1>8. Whole(N) /\ \A id \in DOMAIN f[N] : Owned(N, id) /\ Best(N, id)
  BY <1>7 DEF Good
<1>9. Range(rules) = {rules[j] : j \in 1 .. N}
  BY <1>1 DEF Range
<1> QED BY <1>2, <1>8, <1>9

\* A narrow rule is one of the most specific there are.
LEMMA NarrowIsMostSpecific ==
  ASSUME NEW r
  PROVE  specificity(r) \in 0 .. 3 /\ (specificity(r) = 3 <=> Narrow(r))
BY DEF specificity, Narrow

-----------------------------------------------------------------------------
(* The decision point and its engines.                                      *)

\* A session starts only with documents that are valid.
Config == session \in DOMAIN Points /\ \A d \in Range(here.docs) : Validate(d)

NDocs == Len(here.docs)

LEMMA HereFacts ==
  ASSUME Config
  PROVE  /\ here.point \in {"server", "wire"} /\ here.answers \subseteq Status
         /\ NDocs \in Nat /\ NDocs >= 1 /\ DOMAIN here.docs = 1 .. NDocs
         /\ here.point = "server" => NDocs = 1
         /\ \A l \in 1 .. NDocs : here.docs[l] \in Range(here.docs)
         /\ \A d \in Range(here.docs) :
              Decoded(d) /\ Validate(d) /\ \A id \in DOMAIN d.ttl : d.ttl[id] <= Epoch
<1>1. here \in Range(Sessions)
  BY DEF Config, here, Points, Range
<1>2. here.docs \in Seq(Range(here.docs)) /\ here.docs # <<>>
  BY <1>1, EnforceConstants
<1>3. NDocs \in Nat /\ NDocs >= 1 /\ DOMAIN here.docs = 1 .. NDocs
  BY <1>2 DEF NDocs
<1>4. \A l \in 1 .. NDocs : here.docs[l] \in Range(here.docs)
  BY <1>3 DEF Range
<1> HIDE DEF NDocs
<1>5. here.point = "server" => NDocs = 1
  BY <1>1, EnforceConstants DEF NDocs
<1>6. here.point \in {"server", "wire"} /\ here.answers \subseteq Status
  BY <1>1, EnforceConstants
<1>7. \A d \in Range(here.docs) :
        Decoded(d) /\ \A id \in DOMAIN d.ttl : d.ttl[id] <= Epoch
  BY <1>1, EnforceConstants
<1> QED BY <1>3, <1>4, <1>5, <1>6, <1>7 DEF Config

\* An engine has the rules of its document, and its mode or a stricter one.
LEMMA EnginesAreLayers ==
  ASSUME Config
  PROVE  /\ DOMAIN engines = 1 .. NDocs /\ Len(engines) = NDocs
         /\ \A l \in 1 .. NDocs :
              /\ engines[l].rules = here.docs[l].rules /\ engines[l].ttl = here.docs[l].ttl
              /\ engines[l].limits = here.docs[l].limits
              /\ engines[l].mode \in {"audit", "enforce"}
              /\ here.docs[l].mode = "enforce" => engines[l].mode = "enforce"
         /\ (\A d \in Range(here.docs) : d.mode = "audit") =>
              \A l \in 1 .. NDocs : engines[l].mode = "audit"
<1>1. engines = IF here.point = "wire" THEN Compose(here.docs) ELSE here.docs
  BY DEF engines, Engines, here, Config
<1>2. /\ NDocs \in Nat /\ DOMAIN here.docs = 1 .. NDocs
      /\ \A l \in 1 .. NDocs : here.docs[l] \in Range(here.docs)
      /\ \A d \in Range(here.docs) : Decoded(d) /\ Validate(d)
  BY HereFacts
<1>3. \A l \in 1 .. NDocs :
        /\ DOMAIN here.docs[l] = {"mode", "rules", "ttl", "limits", "requirePlan", "webhook"}
        /\ here.docs[l].mode \in {"audit", "enforce"}
  BY <1>2 DEF Decoded, Validate
<1>4. CASE here.point # "wire"
  <2>1. engines = here.docs
    BY <1>1, <1>4
  <2> QED BY <1>2, <1>3, <2>1 DEF NDocs
<1>5. CASE here.point = "wire"
  <2> DEFINE mode == ComposedMode(here.docs)
  <2>1. engines = [i \in 1 .. NDocs |-> [here.docs[i] EXCEPT !.mode = mode]]
    BY <1>1, <1>5 DEF Compose, NDocs
  <2>2. DOMAIN engines = 1 .. NDocs /\ Len(engines) = NDocs
    BY <1>2, <2>1
  <2>3. /\ mode \in {"audit", "enforce"}
        /\ \A l \in 1 .. NDocs : here.docs[l].mode = "enforce" => mode = "enforce"
        /\ (\A d \in Range(here.docs) : d.mode = "audit") => mode = "audit"
    BY <1>2 DEF ComposedMode, NDocs
  <2> HIDE DEF mode
  <2>4. ASSUME NEW l \in 1 .. NDocs
        PROVE  /\ engines[l].rules = here.docs[l].rules /\ engines[l].ttl = here.docs[l].ttl
               /\ engines[l].limits = here.docs[l].limits /\ engines[l].mode = mode
    <3>1. engines[l] = [here.docs[l] EXCEPT !.mode = mode]
      BY <2>1
    <3> QED BY <1>3, <3>1
  <2> QED BY <2>2, <2>3, <2>4
<1> QED BY <1>4, <1>5

\* What an engine requires of a call is declared, with a TTL that does not reach back to
\* the zero time.
LEMMA EngineFacts ==
  ASSUME Config, NEW l \in 1 .. NDocs
  PROVE  /\ DOMAIN engines[l].ttl \subseteq Nat
         /\ \A id \in DOMAIN engines[l].ttl :
              engines[l].ttl[id] \in Nat /\ engines[l].ttl[id] <= Epoch
         /\ engines[l].rules \in Seq(Range(engines[l].rules))
         /\ \A r \in Range(engines[l].rules) :
              r.onFail \in Severity /\ r.require \subseteq DOMAIN engines[l].ttl
         /\ engines[l].limits \in Seq(Range(engines[l].limits))
         /\ \A i \in DOMAIN engines[l].limits : LET limit == engines[l].limits[i] IN
              /\ limit.window \in Nat /\ limit.window > 0 /\ limit.max \in Nat
              /\ limit.onExceed \in Severity
<1> DEFINE d == here.docs[l]
<1>1. d \in Range(here.docs) /\ Decoded(d) /\ Validate(d)
      /\ \A id \in DOMAIN d.ttl : d.ttl[id] <= Epoch
  BY HereFacts
<1>2. engines[l].rules = d.rules /\ engines[l].ttl = d.ttl /\ engines[l].limits = d.limits
  BY EnginesAreLayers
<1> HIDE DEF d
<1>3. /\ DOMAIN d.ttl \subseteq Nat /\ \A id \in DOMAIN d.ttl : d.ttl[id] \in Nat
      /\ d.rules \in Seq(Range(d.rules)) /\ d.limits \in Seq(Range(d.limits))
      /\ \A r \in Range(d.rules) : r.onFail \in Severity
  BY <1>1 DEF Decoded
<1>4. \A r \in Range(d.rules) : r.require \subseteq DOMAIN d.ttl
  BY <1>1 DEF Validate, ValidRule
<1>5. \A x \in Range(d.limits) : /\ x.window \in Nat /\ x.window > 0 /\ x.max \in Nat
                                 /\ x.onExceed \in Severity
  BY <1>1 DEF Decoded, Validate, ValidRateLimit
<1>6. \A i \in DOMAIN d.limits : d.limits[i] \in Range(d.limits)
  BY DEF Range
<1> QED BY <1>1, <1>2, <1>3, <1>4, <1>5, <1>6

LEMMA RequiredFacts ==
  ASSUME Config, NEW c \in Calls, NEW l \in 1 .. NDocs
  PROVE  /\ Required[session][c][l] = DOMAIN attributed(engines[l], Subject(c))
         /\ Required[session][c][l] \subseteq DOMAIN engines[l].ttl
         /\ \A id \in DOMAIN attributed(engines[l], Subject(c)) :
              attributed(engines[l], Subject(c))[id].severity \in Severity
<1>1. l \in DOMAIN Engines[session] /\ c \in DOMAIN Points[session].requests
      /\ session \in DOMAIN Points
  BY EnginesAreLayers DEF engines, Calls, here, Config
<1>2. Required[session][c][l] = DOMAIN attributed(engines[l], Subject(c))
  BY <1>1 DEF Required, Subject, engines
<1>3. /\ engines[l].rules \in Seq(Range(engines[l].rules))
      /\ \A r \in Range(engines[l].rules) :
           r.onFail \in Severity /\ r.require \subseteq DOMAIN engines[l].ttl
  BY EngineFacts
<1> DEFINE a == attributed(engines[l], Subject(c))
<1>4. /\ \A id : id \in DOMAIN a <=> \E r \in Range(engines[l].rules) : Claims(r, Subject(c), id)
      /\ \A id \in DOMAIN a : \E r \in Range(engines[l].rules) :
           a[id] = [severity |-> r.onFail, specificity |-> specificity(r)]
  BY <1>3, AttributionIsMostSpecific, SMTT(30)
<1> HIDE DEF a
<1>5. DOMAIN a \subseteq DOMAIN engines[l].ttl
  BY <1>3, <1>4 DEF Claims
<1>6. \A id \in DOMAIN a : a[id].severity \in Severity
  BY <1>3, <1>4
<1> QED BY <1>2, <1>5, <1>6 DEF a

-----------------------------------------------------------------------------
(* What holds of one call, at a time t.                                     *)

CallState ==
  [pc : {"out", "read", "probe", "limit", "post", "wait", "ran", "refused"}, arrived : Nat,
   layer : Nat, todo : SUBSET Nat, probe : Probe, readings : SUBSET Reading, stamps : Seq(Nat),
   overtaken : BOOLEAN, severity : Severity, intended : Severity, deadline : Nat, since : Nat,
   trail : Seq(Event)]

Evaluating(k) == k.pc \in {"read", "probe", "limit"}
Asking(k) == k.pc \in {"post", "wait"}

\* How far the call is: the layer it is at, the stamps it has and what is recorded of it.
StageOf(k, t) ==
  /\ k.pc = "out" => k = Waiting
  /\ k.layer \in 1 .. NDocs + 1
  /\ Evaluating(k) => /\ k.layer \in 1 .. NDocs /\ k.arrived <= t
                      /\ Len(k.stamps) = IF k.pc = "limit" THEN k.layer ELSE k.layer - 1
                      /\ Range(k.trail) \subseteq {"plan.required"}
  /\ Asking(k) => /\ here.point = "server" /\ k.severity = SeverityHold
                  /\ Range(k.trail) \subseteq {"plan.required", "decided", "requested"}
  /\ "decided" \in Range(k.trail) => k.layer = NDocs + 1 /\ Len(k.stamps) = NDocs
  /\ k.pc = "limit" => engines[k.layer].limits # <<>>
  /\ Len(k.stamps) <= NDocs
  /\ \A l \in 1 .. Len(k.stamps) : engines[l].limits # <<>> => k.stamps[l] \in Epoch .. t

HasReading(k, l, id) == \E r \in k.readings : r.layer = l /\ r.signal = id

FailedAt(k, l, id) ==
  \A r \in k.readings : r.layer = l /\ r.signal = id => r.status \in {"fail", "error"}

\* A rule's constraint that the call does not meet.
Forbids(c, r) == matches(r, Subject(c)) /\ constraintFails(r, Subject(c).arg)

\* The verdict is not below what engine l asks for a failure it attributes to a.
Followed(c, k, l) ==
  LET a == attributed(engines[l], Subject(c)) IN
  /\ \A id \in DOMAIN a : FailedAt(k, l, id) =>
       /\ k.intended >= a[id].severity
       /\ k.severity >= clamp(engines[l].mode, a[id].severity)
  /\ \A r \in Range(engines[l].rules) : Forbids(c, r) => k.intended >= r.onFail

AllAudit == \A d \in Range(here.docs) : d.mode = "audit"

\* The verdict so far is that of the layers that are done, and the readings for the others
\* are there when they are needed.
VerdictOf(c, k) ==
  /\ k.severity <= k.intended
  /\ \A l \in 1 .. NDocs : l < k.layer => Followed(c, k, l)
  /\ Evaluating(k) => \A id \in Required[session][c][k.layer] \ k.todo : HasReading(k, k.layer, id)
  /\ k.pc = "limit" => k.todo = {}
  /\ k.pc = "ran" /\ "decided" \in Range(k.trail) => k.severity < SeverityDeny
  /\ AllAudit => /\ k.severity <= SeverityWarn /\ ~Asking(k)
                 /\ k.pc = "refused" => Undecidable(c)

-----------------------------------------------------------------------------
(* Verdicts.                                                                *)

\* What an engine intends is at least what it gives for an exceeded limit, for every signal it
\* attributes that was only read as a failure, and for every constraint that is not met.
LEMMA IntendedCovers ==
  ASSUME Config, NEW c \in Calls, NEW k \in CallState, k.layer \in 1 .. NDocs,
         NEW excess \in Severity,
         \A id \in Required[session][c][k.layer] : HasReading(k, k.layer, id)
  PROVE  /\ IntendedBy(c, k, excess) \in Severity /\ IntendedBy(c, k, excess) >= excess
         /\ \A id \in DOMAIN attributed(engines[k.layer], Subject(c)) :
              FailedAt(k, k.layer, id) =>
                IntendedBy(c, k, excess) >= attributed(engines[k.layer], Subject(c))[id].severity
         /\ \A r \in Range(engines[k.layer].rules) :
              Forbids(c, r) => IntendedBy(c, k, excess) >= r.onFail
<1> DEFINE doc == engines[k.layer]
           subj == Subject(c)
           a == attributed(doc, subj)
           req == Required[session][c][k.layer]
           status(id) == (CHOOSE r \in k.readings : r.layer = k.layer /\ r.signal = id).status
           reading == [id \in req |-> status(id)]
           constraints == {r.onFail : r \in {q \in Range(doc.rules) :
                             matches(q, subj) /\ constraintFails(q, subj.arg)}}
           signals == {readingSeverity(reading[id], a[id]) : id \in DOMAIN a}
           all == {SeverityAllow, excess} \cup constraints \cup signals
<1>1. req = DOMAIN a /\ \A id \in DOMAIN a : a[id].severity \in Severity
  BY RequiredFacts
<1>2. \A r \in Range(doc.rules) : r.onFail \in Severity
  BY EngineFacts
<1>3. IntendedBy(c, k, excess) = Max(all)
  BY DEF IntendedBy, Intended
<1> HIDE DEF a, req
<1>4. \A id \in req : reading[id] = status(id)
  OBVIOUS
<1>5. \A id \in req : \E r \in k.readings :
        r.layer = k.layer /\ r.signal = id /\ r.status = status(id)
  BY DEF HasReading, req
<1> HIDE DEF status, reading
<1>6. \A id \in DOMAIN a : readingSeverity(reading[id], a[id]) \in Severity
  BY <1>1 DEF readingSeverity, Severity, SeverityAllow, SeverityKill, SeverityWarn
<1>7. all \in SUBSET Severity /\ all # {} /\ excess \in all
  <2>1. constraints \subseteq Severity
    BY <1>2
  <2>2. signals \subseteq Severity
    BY <1>6
  <2>3. SeverityAllow \in Severity
    BY DEF Severity, SeverityAllow, SeverityKill
  <2> HIDE DEF constraints, signals
  <2> QED BY <2>1, <2>2, <2>3
<1>8. Max(all) \in Severity /\ \A x \in all : Max(all) >= x
  <2> HIDE DEF all
  <2> QED BY <1>7, MaxOf
<1>9. ASSUME NEW id \in DOMAIN a, FailedAt(k, k.layer, id)
      PROVE  a[id].severity \in all
  <2>1. status(id) \in {"fail", "error"}
    BY <1>1, <1>5, <1>9 DEF FailedAt
  <2>2. readingSeverity(reading[id], a[id]) = a[id].severity
    BY <1>1, <1>4, <2>1 DEF readingSeverity
  <2> QED BY <2>2
<1>10. \A r \in Range(doc.rules) : Forbids(c, r) => r.onFail \in all
  BY DEF Forbids
<1> HIDE DEF all
<1> QED BY <1>3, <1>7, <1>8, <1>9, <1>10 DEF a

\* PolicyMode.clamp lowers nothing in enforce mode, caps at a warning in audit mode, and keeps
\* the order of severities.
LEMMA ClampFacts ==
  ASSUME NEW m \in {"audit", "enforce"}, NEW s \in Severity
  PROVE  /\ clamp(m, s) \in Severity /\ clamp(m, s) <= s
         /\ m = "enforce" => clamp(m, s) = s
         /\ m = "audit" => clamp(m, s) <= SeverityWarn
         /\ \A u \in Severity : u >= s => clamp(m, u) >= clamp(m, s)
         /\ \A n \in {"audit", "enforce"} :
              (m = "enforce" => n = "enforce") => clamp(n, s) >= clamp(m, s)
BY DEF clamp, Severity, SeverityAllow, SeverityWarn, SeverityKill

LEMMA MaxOfTwo ==
  ASSUME NEW x \in Severity, NEW y \in Severity
  PROVE  /\ Max({x, y}) \in Severity /\ Max({x, y}) >= x /\ Max({x, y}) >= y
         /\ Max({x, y}) = x \/ Max({x, y}) = y
<1>1. {x, y} \in SUBSET Severity /\ {x, y} # {}
  OBVIOUS
<1> QED BY <1>1, MaxOf

LEMMA NoProbeType == NoProbe \in Probe
BY DEF NoProbe, Probe, Status

\* Ended and Begun change the fields they name and no other.
LEMMA EndedFields ==
  ASSUME NEW k \in CallState, NEW pc \in {"ran", "refused"}
  PROVE  LET e == Ended(k, pc) IN
         /\ e \in CallState /\ e.pc = pc /\ e.todo = {}
         /\ e.arrived = k.arrived /\ e.layer = k.layer /\ e.readings = k.readings
         /\ e.stamps = k.stamps /\ e.overtaken = k.overtaken /\ e.severity = k.severity
         /\ e.intended = k.intended /\ e.deadline = k.deadline /\ e.trail = k.trail
BY NoProbeType DEF Ended, CallState

LEMMA BegunFields ==
  ASSUME Config, NEW c \in Calls, NEW k \in CallState, NEW l \in 1 .. NDocs
  PROVE  LET b == Begun(c, k, l) IN
         /\ b \in CallState /\ b.pc = "read" /\ b.layer = l /\ b.todo = Required[session][c][l]
         /\ b.arrived = k.arrived /\ b.readings = k.readings
         /\ b.stamps = k.stamps /\ b.overtaken = k.overtaken /\ b.severity = k.severity
         /\ b.intended = k.intended /\ b.deadline = k.deadline /\ b.trail = k.trail
<1>1. Required[session][c][l] \in SUBSET Nat
  BY RequiredFacts, EngineFacts
<1>2. l \in Nat
  BY HereFacts
<1> DEFINE R == Required[session][c][l]
<1>3. Begun(c, k, l) = [k EXCEPT !.pc = "read", !.layer = l, !.todo = R, !.probe = NoProbe]
  BY DEF Begun
<1> HIDE DEF R
<1>4. R \in SUBSET Nat
  BY <1>1 DEF R
<1>5. LET b == [k EXCEPT !.pc = "read", !.layer = l, !.todo = R, !.probe = NoProbe] IN
         /\ b \in CallState /\ b.pc = "read" /\ b.layer = l /\ b.todo = R
         /\ b.arrived = k.arrived /\ b.readings = k.readings
         /\ b.stamps = k.stamps /\ b.overtaken = k.overtaken /\ b.severity = k.severity
         /\ b.intended = k.intended /\ b.deadline = k.deadline /\ b.trail = k.trail
  BY <1>2, <1>4, NoProbeType DEF CallState
<1> QED BY <1>3, <1>5 DEF R

LEMMA RecordedFields ==
  ASSUME NEW k \in CallState, NEW e \in Event
  PROVE  LET d == Recorded(k, <<e>>) IN
         /\ d \in CallState /\ Range(d.trail) = Range(k.trail) \cup {e}
         /\ d.pc = k.pc /\ d.todo = k.todo /\ d.probe = k.probe
         /\ d.arrived = k.arrived /\ d.layer = k.layer /\ d.readings = k.readings
         /\ d.stamps = k.stamps /\ d.overtaken = k.overtaken /\ d.severity = k.severity
         /\ d.intended = k.intended /\ d.deadline = k.deadline
<1> DEFINE t == k.trail
<1>1. t \in Seq(Event)
  BY DEF CallState
<1>2. t \o <<e>> \in Seq(Event) /\ Range(t \o <<e>>) = Range(t) \cup {e}
  <2>1. /\ Len(t \o <<e>>) = Len(t) + 1 /\ Len(t) \in Nat /\ (t \o <<e>>)[Len(t) + 1] = e
        /\ \A i \in 1 .. Len(t) : (t \o <<e>>)[i] = t[i]
        /\ t \o <<e>> \in Seq(Event)
    BY <1>1
  <2> DEFINE u == t \o <<e>>
  <2>2. DOMAIN u = 1 .. Len(t) + 1 /\ DOMAIN t = 1 .. Len(t)
    BY <1>1, <2>1
  <2> HIDE DEF u, t
  <2>3. Range(u) = Range(t) \cup {e}
    BY <2>1, <2>2 DEF Range, u
  <2> QED BY <2>1, <2>3 DEF u
<1>3. Recorded(k, <<e>>) = [k EXCEPT !.trail = t \o <<e>>]
  BY DEF Recorded
<1> DEFINE u == t \o <<e>>
           d == [k EXCEPT !.trail = u]
<1>4. u \in Seq(Event) /\ Range(u) = Range(k.trail) \cup {e}
  BY <1>2
<1>5. Recorded(k, <<e>>) = d
  BY <1>3
<1> HIDE DEF u
<1>6. /\ d \in CallState /\ d.trail = u
      /\ d.pc = k.pc /\ d.todo = k.todo /\ d.probe = k.probe
      /\ d.arrived = k.arrived /\ d.layer = k.layer /\ d.readings = k.readings
      /\ d.stamps = k.stamps /\ d.overtaken = k.overtaken /\ d.severity = k.severity
      /\ d.intended = k.intended /\ d.deadline = k.deadline
  BY <1>4 DEF CallState
<1> HIDE DEF d
<1> QED BY <1>4, <1>5, <1>6

\* The fields an evaluation has settled.
SameVerdict(n, k) ==
  /\ n.arrived = k.arrived /\ n.layer = k.layer /\ n.readings = k.readings
  /\ n.stamps = k.stamps /\ n.overtaken = k.overtaken /\ n.severity = k.severity
  /\ n.intended = k.intended

\* The three things that can follow a verdict, which is recorded first.
ActedOn(n, k) ==
  \/ /\ n.pc = "ran" /\ k.severity < SeverityDeny
     /\ Range(n.trail) = Range(k.trail) \cup {"decided"}
  \/ /\ n.pc = "refused" /\ k.severity >= SeverityHold
     /\ Range(n.trail) \subseteq Range(k.trail) \cup {"decided", "kill"}
  \/ /\ n.pc = "post" /\ here.point = "server" /\ k.severity = SeverityHold
     /\ Range(n.trail) = Range(k.trail) \cup {"decided", "requested"}

LEMMA ActedFollows ==
  ASSUME Config, NEW k \in CallState, now \in Nat
  PROVE  /\ Acted(k) \in CallState /\ SameVerdict(Acted(k), k) /\ ActedOn(Acted(k), k)
         /\ "decided" \in Range(Acted(k).trail)
<1> DEFINE d == Recorded(k, <<"decided">>)
           n == Acted(k)
<1> USE DEF Severity, SeverityAllow, SeverityWarn, SeverityHold, SeverityDeny, SeverityKill
<1>1. here.point \in {"server", "wire"} /\ k.severity \in Severity
  BY HereFacts DEF CallState
<1>2. /\ d \in CallState /\ Range(d.trail) = Range(k.trail) \cup {"decided"}
      /\ SameVerdict(d, k)
  BY RecordedFields DEF Event, SameVerdict
<1>3. n = CASE here.point = "wire" -> Decide(d)
            [] here.point = "server" /\ k.severity >= SeverityKill ->
                 Ended(Recorded(d, <<"kill">>), "refused")
            [] here.point = "server" /\ k.severity = SeverityDeny -> Ended(d, "refused")
            [] here.point = "server" /\ k.severity = SeverityHold -> awaitApproval(d)
            [] OTHER -> Ended(d, "ran")
  BY DEF Acted
<1> HIDE DEF d, n
<1>4. ASSUME NEW pc \in {"ran", "refused"}
      PROVE  LET e == Ended(d, pc) IN
             /\ e \in CallState /\ SameVerdict(e, k) /\ e.pc = pc
             /\ Range(e.trail) = Range(k.trail) \cup {"decided"}
  BY <1>2, EndedFields DEF SameVerdict
<1>5. CASE here.point = "wire"
  <2>1. n = Ended(d, IF k.severity >= SeverityDeny THEN "refused" ELSE "ran")
    BY <1>2, <1>3, <1>5 DEF Decide, SameVerdict
  <2>2. CASE k.severity >= SeverityDeny
    <3>1. n = Ended(d, "refused")
      BY <2>1, <2>2
    <3> QED BY <1>1, <1>4, <2>2, <3>1 DEF ActedOn, n
  <2>3. CASE ~(k.severity >= SeverityDeny)
    <3>1. n = Ended(d, "ran")
      BY <2>1, <2>3
    <3> QED BY <1>1, <1>4, <2>3, <3>1 DEF ActedOn, n
  <2> QED BY <2>2, <2>3
<1>6. CASE here.point = "server" /\ k.severity = SeverityKill
  <2> DEFINE e == Recorded(d, <<"kill">>)
  <2>1. n = Ended(e, "refused")
    BY <1>3, <1>6
  <2>2. /\ e \in CallState /\ Range(e.trail) = Range(k.trail) \cup {"decided", "kill"}
        /\ SameVerdict(e, k)
    BY <1>2, RecordedFields DEF Event, SameVerdict
  <2> HIDE DEF e
  <2>3. /\ n \in CallState /\ SameVerdict(n, k) /\ n.pc = "refused"
        /\ Range(n.trail) = Range(k.trail) \cup {"decided", "kill"}
    BY <2>1, <2>2, EndedFields DEF SameVerdict
  <2> QED BY <1>1, <1>6, <2>3 DEF ActedOn, n
<1>7. CASE here.point = "server" /\ k.severity = SeverityDeny
  <2>1. n = Ended(d, "refused")
    BY <1>3, <1>7
  <2> QED BY <1>1, <1>4, <1>7, <2>1 DEF ActedOn, n
<1>8. CASE here.point = "server" /\ k.severity = SeverityHold
  <2>1. n = awaitApproval(d)
    BY <1>3, <1>8
  <2>2. CASE ~here.approver
    <3>1. n = Ended(d, "refused")
      BY <2>1, <2>2 DEF awaitApproval
    <3> QED BY <1>1, <1>4, <1>8, <3>1 DEF ActedOn, n
  <2>3. CASE here.approver
    <3> DEFINE e == Recorded(d, <<"requested">>)
               till == now + Timeout
    <3>1. n = [e EXCEPT !.pc = "post", !.deadline = till]
      BY <2>1, <2>3 DEF awaitApproval
    <3>2. /\ e \in CallState /\ Range(e.trail) = Range(k.trail) \cup {"decided", "requested"}
          /\ SameVerdict(e, k)
      BY <1>2, RecordedFields DEF Event, SameVerdict
    <3>3. till \in Nat
      BY EnforceConstants
    <3> HIDE DEF e, till
    <3>4. /\ n \in CallState /\ SameVerdict(n, e) /\ n.pc = "post" /\ n.trail = e.trail
      BY <3>1, <3>2, <3>3 DEF CallState, SameVerdict
    <3>5. SameVerdict(n, k) /\ Range(n.trail) = Range(k.trail) \cup {"decided", "requested"}
      BY <3>2, <3>4 DEF SameVerdict
    <3> QED BY <1>8, <3>4, <3>5 DEF ActedOn, n
  <2> QED BY <2>2, <2>3
<1>9. CASE here.point = "server" /\ k.severity < SeverityHold
  <2>1. n = Ended(d, "ran")
    BY <1>1, <1>3, <1>9
  <2> QED BY <1>1, <1>4, <1>9, <2>1 DEF ActedOn, n
<1> QED BY <1>1, <1>5, <1>6, <1>7, <1>8, <1>9

\* The end of Evaluate on one engine: the verdict of this layer is joined to that of the
\* layers before it, and the next layer begins or the call is acted on.
EvaluatedTo(c, n, k, excess) ==
  \E intended \in Severity, v \in CallState :
    /\ intended >= excess
    /\ \A id \in DOMAIN attributed(engines[k.layer], Subject(c)) : FailedAt(k, k.layer, id) =>
         intended >= attributed(engines[k.layer], Subject(c))[id].severity
    /\ \A r \in Range(engines[k.layer].rules) : Forbids(c, r) => intended >= r.onFail
    /\ v.severity >= k.severity /\ v.severity >= clamp(engines[k.layer].mode, intended)
    /\ v.severity \in {k.severity, clamp(engines[k.layer].mode, intended)}
    /\ v.intended >= k.intended /\ v.intended >= intended
    /\ v.layer = k.layer + 1 /\ v.arrived = k.arrived /\ v.readings = k.readings
    /\ v.stamps = k.stamps /\ v.overtaken = k.overtaken /\ Range(v.trail) = Range(k.trail)
    /\ n \in CallState /\ SameVerdict(n, v)
    /\ \/ /\ k.layer < NDocs /\ n.pc = "read" /\ Range(n.trail) = Range(k.trail)
          /\ n.todo = Required[session][c][n.layer]
       \/ k.layer = NDocs /\ ActedOn(n, v) /\ "decided" \in Range(n.trail)

LEMMA EvaluatedFollows ==
  ASSUME Config, NEW c \in Calls, NEW k \in CallState, k.layer \in 1 .. NDocs,
         NEW excess \in Severity, now \in Nat, calls \in [Calls -> CallState],
         \A id \in Required[session][c][k.layer] : HasReading(k, k.layer, id),
         Evaluated(c, k, excess)
  PROVE  EvaluatedTo(c, calls'[c], k, excess) /\ calls' = [calls EXCEPT ![c] = calls'[c]]
<1> DEFINE intended == IntendedBy(c, k, excess)
           mode == engines[k.layer].mode
           sev == Max({k.severity, clamp(mode, intended)})
           int == Max({k.intended, intended})
           v == MaxVerdict(k, engines[k.layer], intended)
           w == [v EXCEPT !.layer = @ + 1]
<1>1. /\ intended \in Severity /\ intended >= excess
      /\ \A id \in DOMAIN attributed(engines[k.layer], Subject(c)) : FailedAt(k, k.layer, id) =>
           intended >= attributed(engines[k.layer], Subject(c))[id].severity
      /\ \A r \in Range(engines[k.layer].rules) : Forbids(c, r) => intended >= r.onFail
  BY IntendedCovers
<1>2. calls' = [calls EXCEPT ![c] = IF v.layer < Len(engines) THEN Begun(c, v, v.layer + 1)
                                    ELSE Acted(w)]
  BY DEF Evaluated
<1>3. v = [k EXCEPT !.severity = sev, !.intended = int]
  BY DEF MaxVerdict
<1> HIDE DEF intended
<1>4. mode \in {"audit", "enforce"} /\ Len(engines) = NDocs /\ NDocs \in Nat
  BY EnginesAreLayers, HereFacts
<1> HIDE DEF mode
<1>5. k.severity \in Severity /\ k.intended \in Severity /\ clamp(mode, intended) \in Severity
  BY <1>1, <1>4, ClampFacts DEF CallState
<1>6. /\ sev \in Severity /\ sev >= k.severity /\ sev >= clamp(mode, intended)
      /\ sev \in {k.severity, clamp(mode, intended)}
      /\ int \in Severity /\ int >= k.intended /\ int >= intended
  BY <1>1, <1>5, MaxOfTwo
<1> HIDE DEF sev, int, v
<1>7. /\ v \in CallState /\ v.severity = sev /\ v.intended = int /\ v.layer = k.layer
      /\ v.arrived = k.arrived /\ v.readings = k.readings /\ v.stamps = k.stamps
      /\ v.overtaken = k.overtaken /\ v.trail = k.trail
  BY <1>3, <1>6 DEF CallState
<1>8. /\ w \in CallState /\ w.layer = k.layer + 1 /\ w.severity = sev /\ w.intended = int
      /\ w.arrived = k.arrived /\ w.readings = k.readings /\ w.stamps = k.stamps
      /\ w.overtaken = k.overtaken /\ w.trail = k.trail
  <2> DEFINE up == k.layer + 1
  <2>1. up \in Nat /\ w = [v EXCEPT !.layer = up]
    BY <1>4, <1>7
  <2> HIDE DEF up, w
  <2>2. /\ w \in CallState /\ w.layer = up /\ w.severity = v.severity /\ w.intended = v.intended
        /\ w.arrived = v.arrived /\ w.readings = v.readings /\ w.stamps = v.stamps
        /\ w.overtaken = v.overtaken /\ w.trail = v.trail
    BY <1>7, <2>1 DEF CallState
  <2> QED BY <1>7, <2>2 DEF up
<1> HIDE DEF w
<1>9. CASE k.layer < NDocs
  <2>1. k.layer + 1 \in 1 .. NDocs
    BY <1>4, <1>9
  <2>2. calls'[c] = Begun(c, v, k.layer + 1)
    BY <1>2, <1>4, <1>7, <1>9
  <2> DEFINE n == calls'[c]
  <2>3. /\ n \in CallState /\ n.pc = "read" /\ n.layer = k.layer + 1
        /\ n.todo = Required[session][c][n.layer]
        /\ n.arrived = v.arrived /\ n.readings = v.readings
        /\ n.stamps = v.stamps /\ n.overtaken = v.overtaken /\ n.severity = v.severity
        /\ n.intended = v.intended /\ n.trail = v.trail
    BY <1>7, <2>1, <2>2, BegunFields
  <2>4. SameVerdict(n, w) /\ Range(n.trail) = Range(k.trail)
    BY <1>7, <1>8, <2>3 DEF SameVerdict
  <2>5. EvaluatedTo(c, n, k, excess)
    <3> HIDE DEF n
    <3> QED BY <1>1, <1>6, <1>8, <1>9, <2>3, <2>4 DEF EvaluatedTo, mode
  <2> QED BY <1>2, <2>5
<1>10. CASE k.layer = NDocs
  <2>1. calls'[c] = Acted(w)
    BY <1>2, <1>4, <1>7, <1>10
  <2> DEFINE n == calls'[c]
  <2>2. n \in CallState /\ SameVerdict(n, w) /\ ActedOn(n, w) /\ "decided" \in Range(n.trail)
    BY <1>8, <2>1, ActedFollows
  <2>3. EvaluatedTo(c, n, k, excess)
    <3> HIDE DEF n
    <3> QED BY <1>1, <1>6, <1>8, <1>10, <2>2 DEF EvaluatedTo, mode
  <2> QED BY <1>2, <2>3
<1> QED BY <1>4, <1>9, <1>10

-----------------------------------------------------------------------------
(* The inductive invariant.                                                 *)

\* How much older than its date a reading may be, if its probe took that long.
Lag(took) == IF here.point = "server" THEN MaxEval ELSE took

IsFresh(r) ==
  LET ttl == engines[r.layer].ttl[r.signal] IN
  IF ttl = 0 THEN r.live ELSE r.age < ttl + Lag(r.took)

\* A probe in hand: how long it may have taken is known at the server only.
Probing(p, t) == p.since <= t /\ (here.point = "server" => t <= p.since + MaxEval)

\* The readings of a call are fresh, and so is what its probe will bring.
FreshOf(c, k, t) ==
  /\ \A r \in k.readings : /\ r.layer \in 1 .. NDocs /\ r.signal \in DOMAIN engines[r.layer].ttl
                           /\ IsFresh(r)
  /\ k.pc \in {"read", "probe"} => k.todo \subseteq Required[session][c][k.layer]
  /\ k.pc = "probe" => k.probe.signal \in k.todo /\ k.arrived <= k.probe.since /\ Probing(k.probe, t)

CallOK(c, k, t) == StageOf(k, t) /\ VerdictOf(c, k) /\ FreshOf(c, k, t)

Entry == [status : Status, readAt : Nat, sampled : Nat]

\* Whatever overwrites a reading at the server, it was sampled at most MaxEval before it was
\* dated.
EntryOK(e, t) ==
  /\ e \in Entry /\ e.sampled <= e.readAt /\ e.readAt <= t
  /\ here.point = "server" => e.readAt <= e.sampled + MaxEval

CacheOK(es, t) ==
  /\ DOMAIN es = 1 .. NDocs
  /\ \A l \in 1 .. NDocs : /\ DOMAIN es[l] = DOMAIN engines[l].ttl
                           /\ \A id \in DOMAIN engines[l].ttl : EntryOK(es[l][id], t)

MonitorOK(m, t) ==
  /\ m \in [pc : {"idle", "scan", "probe"}, todo : SUBSET Nat, probe : Probe]
  /\ m.pc # "idle" => m.todo \subseteq DOMAIN engines[1].ttl
  /\ m.pc = "probe" => m.probe.signal \in m.todo /\ Probing(m.probe, t)

HitsOK(h, t) ==
  /\ DOMAIN h = 1 .. NDocs
  /\ \A l \in 1 .. NDocs : /\ DOMAIN h[l] = DOMAIN engines[l].limits
                           /\ \A i \in DOMAIN engines[l].limits : h[l][i] \in Seq(Epoch .. t)

SignedOK(s) == s \subseteq (Calls \X {"approve", "deny"})

IndInv ==
  /\ Config
  /\ now \in Nat /\ now >= Epoch
  /\ calls \in [Calls -> CallState] /\ \A c \in Calls : CallOK(c, calls[c], now)
  /\ CacheOK(entries, now) /\ MonitorOK(monitor, now) /\ HitsOK(hits, now)
  /\ SignedOK(signed) /\ cancelled \in BOOLEAN

\* The session does not change, so that it is enough to show the invariant of the new state
\* with the documents, the engines and the requests of the old one.
LEMMA Carry ==
  ASSUME Config, session' = session, now' \in Nat, now' >= Epoch,
         calls' \in [Calls -> CallState], \A c \in Calls : CallOK(c, calls'[c], now'),
         CacheOK(entries', now'), MonitorOK(monitor', now'), HitsOK(hits', now'),
         SignedOK(signed'), cancelled' \in BOOLEAN
  PROVE  IndInv'
<1>1. /\ here' = here /\ Calls' = Calls /\ engines' = engines /\ NDocs' = NDocs
      /\ AllAudit' = AllAudit
  BY DEF here, Calls, engines, NDocs, AllAudit
<1>2. Config'
  BY <1>1 DEF Config
<1>3. \A c \in Calls : StageOf(calls[c], now)'
  <2>1. \A c \in Calls : StageOf(calls'[c], now')
    BY DEF CallOK
  <2> QED BY <1>1, <2>1 DEF StageOf, Evaluating, Asking
<1>4. ASSUME NEW c \in Calls PROVE VerdictOf(c, calls[c])'
  <2>1. VerdictOf(c, calls'[c])
    BY DEF CallOK
  <2>2. Subject(c)' = Subject(c) /\ Undecidable(c)' = Undecidable(c)
    BY <1>1 DEF Subject, Undecidable
  <2> QED BY <1>1, <2>1, <2>2 DEF VerdictOf, Followed, Forbids, FailedAt, HasReading, Evaluating, Asking
<1>5. ASSUME NEW c \in Calls PROVE FreshOf(c, calls[c], now)'
  <2>1. FreshOf(c, calls'[c], now')
    BY DEF CallOK
  <2> QED BY <1>1, <2>1 DEF FreshOf, IsFresh, Lag, Probing
<1>6. CacheOK(entries, now)'
  BY <1>1 DEF CacheOK, EntryOK
<1>7. MonitorOK(monitor, now)'
  BY <1>1 DEF MonitorOK, Probing
<1>8. HitsOK(hits, now)'
  BY <1>1 DEF HitsOK
<1>9. SignedOK(signed)'
  BY <1>1 DEF SignedOK
<1> QED BY <1>1, <1>2, <1>3, <1>4, <1>5, <1>6, <1>7, <1>8, <1>9 DEF IndInv, CallOK

LEMMA InitInv == Init => IndInv
<1> SUFFICES ASSUME Init PROVE IndInv
  OBVIOUS
<1> USE DEF Severity, SeverityAllow, SeverityWarn, SeverityHold, SeverityDeny, SeverityKill
<1>1. Config
  BY DEF Init, Config, here
<1>2. /\ DOMAIN engines = 1 .. NDocs /\ NDocs \in Nat /\ NDocs >= 1
  BY <1>1, EnginesAreLayers, HereFacts
<1>3. Waiting \in CallState
  BY NoProbeType DEF Waiting, CallState
<1>4. /\ Waiting.pc = "out" /\ Waiting.layer = 1 /\ Waiting.trail = <<>> /\ Waiting.stamps = <<>>
      /\ Waiting.readings = {} /\ Waiting.severity = 0 /\ Waiting.intended = 0
  BY DEF Waiting
<1>5. Range(<<>>) = {}
  BY DEF Range
<1>6. StageOf(Waiting, now)
  BY <1>2, <1>4, <1>5 DEF StageOf, Evaluating, Asking
<1>7. ASSUME NEW c \in Calls PROVE VerdictOf(c, Waiting) /\ FreshOf(c, Waiting, now)
  BY <1>2, <1>4 DEF VerdictOf, FreshOf, Evaluating, Asking
<1>8. calls \in [Calls -> CallState] /\ \A c \in Calls : CallOK(c, calls[c], now)
  <2>1. calls = [c \in Calls |-> Waiting]
    BY DEF Init
  <2>2. \A c \in Calls : calls[c] = Waiting
    BY <2>1
  <2> QED BY <1>3, <1>6, <1>7, <2>1, <2>2 DEF CallOK
<1>9. CacheOK(entries, now)
  <2>1. \A l \in 1 .. NDocs : \A id \in DOMAIN engines[l].ttl :
          entries[l][id] = [status |-> "skip", readAt |-> 0, sampled |-> 0]
    BY <1>2 DEF Init
  <2>2. DOMAIN entries = 1 .. NDocs /\ \A l \in 1 .. NDocs : DOMAIN entries[l] = DOMAIN engines[l].ttl
    BY <1>2 DEF Init
  <2>3. EntryOK([status |-> "skip", readAt |-> 0, sampled |-> 0], now)
    BY EnforceConstants DEF EntryOK, Entry, Status, Init
  <2> QED BY <2>1, <2>2, <2>3 DEF CacheOK
<1>10. MonitorOK(monitor, now)
  BY NoProbeType DEF Init, MonitorOK
<1>11. HitsOK(hits, now)
  <2>1. /\ DOMAIN hits = 1 .. NDocs
        /\ \A l \in 1 .. NDocs : /\ DOMAIN hits[l] = DOMAIN engines[l].limits
                                 /\ \A i \in DOMAIN engines[l].limits : hits[l][i] = <<>>
    BY <1>2 DEF Init
  <2>2. <<>> \in Seq(Epoch .. now)
    OBVIOUS
  <2> QED BY <2>1, <2>2 DEF HitsOK
<1>12. now \in Nat /\ now >= Epoch
  BY EnforceConstants DEF Init
<1>13. SignedOK(signed) /\ cancelled \in BOOLEAN
  BY DEF Init, SignedOK
<1> QED BY <1>1, <1>8, <1>9, <1>10, <1>11, <1>12, <1>13 DEF IndInv

-----------------------------------------------------------------------------
(* Steps that change no call.                                               *)

LEMMA RefreshInv ==
  ASSUME IndInv, RefreshStarts \/ RefreshRead \/ RefreshStore \/ RefreshEnds
  PROVE  IndInv'
<1> USE DEF IndInv
<1>0. /\ session' = session /\ now' = now /\ calls' = calls /\ hits' = hits /\ signed' = signed
      /\ cancelled' = cancelled
  BY DEF RefreshStarts, RefreshRead, RefreshStore, RefreshEnds
<1> DEFINE M == [pc : {"idle", "scan", "probe"}, todo : SUBSET Nat, probe : Probe]
<1>1. /\ monitor \in M /\ MonitorOK(monitor, now) /\ CacheOK(entries, now)
      /\ monitor.pc # "idle" => monitor.todo \subseteq DOMAIN engines[1].ttl
  BY DEF MonitorOK
<1>2. /\ 1 \in 1 .. NDocs /\ DOMAIN engines[1].ttl \subseteq Nat /\ here.answers \subseteq Status
      /\ DOMAIN entries[1] = DOMAIN engines[1].ttl /\ DOMAIN entries = 1 .. NDocs
  <2>1. 1 \in 1 .. NDocs /\ here.answers \subseteq Status
    BY HereFacts
  <2> QED BY <1>1, <2>1, EngineFacts DEF CacheOK
<1>3. SUFFICES MonitorOK(monitor', now) /\ CacheOK(entries', now)
  BY <1>0, Carry
<1>4. CASE RefreshStarts
  <2>1. monitor' = [monitor EXCEPT !.pc = "scan", !.todo = DOMAIN engines[1].ttl] /\ entries' = entries
    BY <1>2, <1>4 DEF RefreshStarts
  <2>2. monitor' \in M /\ monitor'.pc = "scan" /\ monitor'.todo = DOMAIN engines[1].ttl
    BY <1>1, <1>2, <2>1
  <2> QED BY <1>1, <2>1, <2>2 DEF MonitorOK
<1>5. CASE RefreshRead
  <2> DEFINE id == Min(monitor.todo)
             due == engines[1].ttl[id] > 0 /\ expired(entries[1][id], engines[1].ttl[id])
  <2>1. /\ monitor.pc = "scan" /\ monitor.todo # {} /\ entries' = entries
        /\ IF due THEN \E status \in here.answers : monitor' = [monitor EXCEPT !.pc = "probe",
                         !.probe = [signal |-> id, since |-> now, status |-> status]]
           ELSE monitor' = [monitor EXCEPT !.todo = @ \ {id}]
    BY <1>5 DEF RefreshRead
  <2>2. id \in monitor.todo /\ id \in Nat
    BY <1>1, <2>1, MinOf
  <2> HIDE DEF id, due
  <2>3. CASE due
    <3>1. PICK status \in here.answers : monitor' = [monitor EXCEPT !.pc = "probe",
                         !.probe = [signal |-> id, since |-> now, status |-> status]]
      BY <2>1, <2>3
    <3> DEFINE p == [signal |-> id, since |-> now, status |-> status]
    <3>2. p \in Probe /\ p.signal = id /\ p.since = now
      BY <1>2, <2>2 DEF Probe
    <3> HIDE DEF p
    <3>3. /\ monitor' \in M /\ monitor'.pc = "probe" /\ monitor'.todo = monitor.todo
          /\ monitor'.probe = p
      BY <1>1, <3>1, <3>2 DEF p
    <3>4. Probing(p, now)
      BY <3>2, EnforceConstants DEF Probing
    <3> QED BY <1>1, <2>1, <2>2, <3>2, <3>3, <3>4 DEF MonitorOK
  <2>4. CASE ~due
    <3>1. monitor' = [monitor EXCEPT !.todo = @ \ {id}]
      BY <2>1, <2>4
    <3>2. monitor' \in M /\ monitor'.pc = "scan" /\ monitor'.todo = monitor.todo \ {id}
      BY <1>1, <2>1, <3>1
    <3> QED BY <1>1, <2>1, <3>2 DEF MonitorOK
  <2> QED BY <2>3, <2>4
<1>6. CASE RefreshStore
  <2> DEFINE p == monitor.probe
  <2>1. /\ monitor.pc = "probe"
        /\ entries' = [entries EXCEPT ![1][p.signal] = Stored(p)]
        /\ monitor' = [pc |-> "scan", todo |-> monitor.todo \ {p.signal}, probe |-> NoProbe]
    BY <1>6 DEF RefreshStore
  <2>2. p \in Probe /\ p.signal \in DOMAIN engines[1].ttl /\ Probing(p, now)
    BY <1>1, <2>1 DEF MonitorOK
  <2>3. EntryOK(Stored(p), now)
    BY <2>2, EnforceConstants DEF EntryOK, Entry, Stored, Probe, Probing
  <2> HIDE DEF p
  <2>4. CacheOK(entries', now)
    <3> DEFINE e == Stored(p)
    <3> HIDE DEF e
    <3>1. entries' = [entries EXCEPT ![1] = [entries[1] EXCEPT ![p.signal] = e]]
      BY <2>1 DEF e
    <3> QED BY <1>1, <1>2, <2>2, <2>3, <3>1 DEF CacheOK, e
  <2>5. MonitorOK(monitor', now)
    BY <1>1, <2>1, NoProbeType DEF MonitorOK
  <2> QED BY <2>4, <2>5
<1>7. CASE RefreshEnds
  <2>1. monitor' = [monitor EXCEPT !.pc = "idle"] /\ entries' = entries
    BY <1>7 DEF RefreshEnds
  <2>2. monitor' \in M /\ monitor'.pc = "idle"
    BY <1>1, <2>1
  <2> QED BY <1>1, <2>1, <2>2 DEF MonitorOK
<1> QED BY <1>4, <1>5, <1>6, <1>7

LEMMA WorldInv ==
  ASSUME IndInv, Cancel \/ \E c \in Calls : Approver(c)
  PROVE  IndInv'
<1> USE DEF IndInv
<1>1. /\ session' = session /\ now' = now /\ calls' = calls /\ hits' = hits /\ entries' = entries
      /\ monitor' = monitor
  BY DEF Cancel, Approver
<1>2. CASE Cancel
  <2>1. signed' = signed /\ cancelled' = TRUE
    BY <1>2 DEF Cancel
  <2> QED BY <1>1, <2>1, Carry
<1>3. ASSUME NEW c \in Calls, Approver(c) PROVE IndInv'
  <2>1. cancelled' = cancelled /\ \E d \in {"approve", "deny"} : signed' = signed \cup {<<c, d>>}
    BY <1>3 DEF Approver
  <2>2. SignedOK(signed')
    BY <2>1 DEF SignedOK
  <2> QED BY <1>1, <2>1, <2>2, Carry
<1> QED BY <1>2, <1>3

LEMMA TickInv ==
  ASSUME IndInv, Tick
  PROVE  IndInv'
<1> USE DEF IndInv
<1>1. /\ session' = session /\ now' = now + 1 /\ calls' = calls /\ hits' = hits
      /\ entries' = entries /\ monitor' = monitor /\ signed' = signed /\ cancelled' = cancelled
      /\ now + 1 \in Nat /\ now + 1 >= Epoch
  BY EnforceConstants DEF Tick
<1>2. ASSUME NEW c \in Calls PROVE CallOK(c, calls[c], now + 1)
  <2> DEFINE k == calls[c]
  <2>1. k \in CallState /\ StageOf(k, now) /\ VerdictOf(c, k) /\ FreshOf(c, k, now)
    BY DEF CallOK
  <2>2. here.point = "server" /\ k.pc = "probe" => now < k.probe.since + MaxEval
    BY DEF Tick
  <2> HIDE DEF k
  <2>3. StageOf(k, now + 1)
    <3>1. k.arrived \in Nat /\ k.stamps \in Seq(Nat)
      BY <2>1 DEF CallState
    <3>2. \A l \in 1 .. Len(k.stamps) : engines[l].limits # <<>> => k.stamps[l] \in Epoch .. now + 1
      BY <2>1, EnforceConstants DEF StageOf
    <3>3. Evaluating(k) => k.arrived <= now + 1
      BY <2>1, <3>1 DEF StageOf
    <3> QED BY <2>1, <3>2, <3>3 DEF StageOf
  <2>4. k.pc = "probe" => Probing(k.probe, now + 1)
    <3>1. k.probe.since \in Nat
      BY <2>1 DEF CallState, Probe
    <3> QED BY <2>1, <2>2, <3>1, EnforceConstants DEF FreshOf, Probing
  <2>5. FreshOf(c, k, now + 1)
    BY <2>1, <2>4 DEF FreshOf
  <2> QED BY <2>1, <2>3, <2>5 DEF CallOK, k
<1>3. CacheOK(entries, now + 1)
  <2>1. \A e : EntryOK(e, now) => EntryOK(e, now + 1)
    BY DEF EntryOK, Entry
  <2> QED BY <2>1 DEF CacheOK
<1>4. MonitorOK(monitor, now + 1)
  <2>1. here.point = "server" /\ monitor.pc = "probe" => now < monitor.probe.since + MaxEval
    BY DEF Tick
  <2>2. monitor.probe.since \in Nat
    BY DEF MonitorOK, Probe
  <2> QED BY <2>1, <2>2, EnforceConstants DEF MonitorOK, Probing
<1>5. HitsOK(hits, now + 1)
  <2>1. ASSUME NEW s \in Seq(Epoch .. now) PROVE s \in Seq(Epoch .. now + 1)
    <3>1. Epoch .. now \subseteq Epoch .. now + 1
      BY EnforceConstants
    <3> QED BY <3>1, SeqMonotonic
  <2> QED BY <2>1 DEF HitsOK
<1> QED BY <1>1, <1>2, <1>3, <1>4, <1>5, Carry

-----------------------------------------------------------------------------
(* Steps of a call.                                                         *)

\* A step of one call leaves the others as they are.
LEMMA CallStep ==
  ASSUME IndInv, NEW c \in Calls, NEW n \in CallState, calls' = [calls EXCEPT ![c] = n],
         CallOK(c, n, now), CacheOK(entries', now), HitsOK(hits', now),
         session' = session, now' = now, monitor' = monitor, signed' = signed,
         cancelled' = cancelled
  PROVE  IndInv'
<1> USE DEF IndInv
<1>1. calls' \in [Calls -> CallState]
  OBVIOUS
<1>2. \A d \in Calls : CallOK(d, calls'[d], now)
  OBVIOUS
<1> QED BY <1>1, <1>2, Carry

\* A call that has only just come in has nothing yet.
Blank(k, t) ==
  /\ k.layer = 1 /\ k.readings = {} /\ k.stamps = <<>> /\ k.arrived = t
  /\ k.severity = SeverityAllow /\ k.intended = SeverityAllow /\ ~k.overtaken

LEMMA BlankOK ==
  ASSUME Config, NEW c \in Calls, NEW k \in CallState, NEW t \in Nat, Blank(k, t),
         "decided" \notin Range(k.trail),
         \/ k.pc = "read" /\ Range(k.trail) \subseteq {"plan.required"}
                          /\ k.todo = Required[session][c][1]
         \/ k.pc = "ran"
         \/ k.pc = "refused" /\ (AllAudit => Undecidable(c))
  PROVE  CallOK(c, k, t)
<1>1. NDocs \in Nat /\ NDocs >= 1
  BY HereFacts
<1>2. /\ k.layer = 1 /\ k.readings = {} /\ k.stamps = <<>> /\ k.arrived = t /\ Len(k.stamps) = 0
      /\ k.severity = SeverityAllow /\ k.intended = SeverityAllow
  BY DEF Blank
<1>3. StageOf(k, t)
  BY <1>1, <1>2 DEF StageOf, Evaluating, Asking
<1>4. VerdictOf(c, k)
  BY <1>1, <1>2 DEF VerdictOf, Evaluating, Asking, SeverityAllow, SeverityWarn
<1>5. FreshOf(c, k, t)
  BY <1>2 DEF FreshOf
<1> QED BY <1>3, <1>4, <1>5 DEF CallOK

LEMMA ArriveEffect ==
  ASSUME IndInv, NEW c \in Calls, Arrive(c)
  PROVE  /\ calls[c].pc = "out" /\ UNCHANGED <<session, now, entries, hits, monitor, signed, cancelled>>
         /\ \E n \in CallState :
              /\ calls' = [calls EXCEPT ![c] = n] /\ CallOK(c, n, now) /\ Blank(n, now)
              /\ n.pc \in {"read", "ran", "refused"}
              /\ Range(n.trail) \subseteq {"undecidable", "plan.required"}
<1> USE DEF IndInv
<1> DEFINE k == [calls[c] EXCEPT !.arrived = now]
           gated == /\ here.point = "server" /\ here.requests[c].method = "tool"
                    /\ RequiresPlan(engines[1], Subject(c))
           asked == IF gated THEN Recorded(k, <<"plan.required">>) ELSE k
           n == CASE Undecidable(c) -> Ended(Recorded(k, <<"undecidable">>), "refused")
                  [] here.requests[c].method = "other" -> Ended(k, "ran")
                  [] ~Undecidable(c) /\ gated /\ PlanGate(engines[1]) -> Ended(asked, "refused")
                  [] OTHER -> Begun(c, asked, 1)
<1>1. /\ calls[c].pc = "out" /\ calls' = [calls EXCEPT ![c] = n]
      /\ UNCHANGED <<session, now, entries, hits, monitor, signed, cancelled>>
  BY DEF Arrive
<1>2. calls[c] = Waiting /\ calls[c] \in CallState
  BY <1>1 DEF CallOK, StageOf
<1>3. /\ k \in CallState /\ Blank(k, now) /\ k.trail = <<>>
  <2> DEFINE w == calls[c]
  <2>1. /\ w \in CallState /\ w.layer = 1 /\ w.readings = {} /\ w.stamps = <<>>
        /\ w.severity = SeverityAllow /\ w.intended = SeverityAllow /\ ~w.overtaken
        /\ w.trail = <<>>
    BY <1>2 DEF Waiting
  <2>2. k = [w EXCEPT !.arrived = now]
    OBVIOUS
  <2> HIDE DEF w, k
  <2>3. /\ k \in CallState /\ k.arrived = now /\ k.layer = w.layer /\ k.readings = w.readings
        /\ k.stamps = w.stamps /\ k.severity = w.severity /\ k.intended = w.intended
        /\ k.overtaken = w.overtaken /\ k.trail = w.trail
    BY <2>1, <2>2 DEF CallState
  <2> QED BY <2>1, <2>3 DEF Blank
<1> HIDE DEF k, gated
<1>4. Range(k.trail) = {}
  BY <1>3 DEF Range
<1>5. ASSUME NEW e \in Event
      PROVE  /\ Recorded(k, <<e>>) \in CallState /\ Blank(Recorded(k, <<e>>), now)
             /\ Range(Recorded(k, <<e>>).trail) = {e}
  <2> DEFINE d == Recorded(k, <<e>>)
  <2>1. /\ d \in CallState /\ Range(d.trail) = Range(k.trail) \cup {e}
        /\ d.arrived = k.arrived /\ d.layer = k.layer /\ d.readings = k.readings
        /\ d.stamps = k.stamps /\ d.overtaken = k.overtaken /\ d.severity = k.severity
        /\ d.intended = k.intended
    BY <1>3, RecordedFields
  <2> HIDE DEF d
  <2>2. d \in CallState /\ Blank(d, now) /\ Range(d.trail) = {e}
    BY <1>3, <1>4, <2>1 DEF Blank
  <2> QED BY <2>2 DEF d
<1>6. asked \in CallState /\ Blank(asked, now) /\ Range(asked.trail) \subseteq {"plan.required"}
  <2>1. "plan.required" \in Event
    BY DEF Event
  <2> QED BY <1>3, <1>4, <1>5, <2>1
<1> HIDE DEF asked
<1>7. ASSUME NEW m \in CallState, Blank(m, now), NEW pc \in {"ran", "refused"}
      PROVE  /\ Ended(m, pc) \in CallState /\ Blank(Ended(m, pc), now) /\ Ended(m, pc).pc = pc
             /\ Ended(m, pc).trail = m.trail
  BY <1>7, EndedFields DEF Blank
<1>8. /\ n \in CallState /\ CallOK(c, n, now) /\ Blank(n, now) /\ n.pc \in {"read", "ran", "refused"}
      /\ Range(n.trail) \subseteq {"undecidable", "plan.required"}
  <2>1. CASE Undecidable(c)
    <3> DEFINE r == Recorded(k, <<"undecidable">>)
    <3>1. r \in CallState /\ Blank(r, now) /\ Range(r.trail) = {"undecidable"}
      BY <1>5 DEF Event
    <3>2. n = Ended(r, "refused")
      BY <2>1 DEF Undecidable
    <3> HIDE DEF r, n
    <3>3. n \in CallState /\ Blank(n, now) /\ n.pc = "refused" /\ Range(n.trail) = {"undecidable"}
      BY <1>7, <3>1, <3>2
    <3> QED BY <2>1, <3>3, BlankOK
  <2>2. CASE here.requests[c].method = "other"
    <3>1. n = Ended(k, "ran")
      BY <2>2 DEF Undecidable, gated
    <3> HIDE DEF n
    <3>2. n \in CallState /\ Blank(n, now) /\ n.pc = "ran" /\ Range(n.trail) = {}
      BY <1>3, <1>4, <1>7, <3>1
    <3> QED BY <3>2, BlankOK
  <2>3. CASE ~Undecidable(c) /\ here.requests[c].method # "other" /\ gated /\ PlanGate(engines[1])
    <3>1. n = Ended(asked, "refused")
      BY <2>3
    <3> HIDE DEF n
    <3>2. /\ n \in CallState /\ Blank(n, now) /\ n.pc = "refused"
          /\ Range(n.trail) \subseteq {"plan.required"}
      BY <1>6, <1>7, <3>1
    <3>3. ~AllAudit
      <4>1. 1 \in 1 .. NDocs
        BY HereFacts
      <4>2. engines[1].mode = "enforce"
        BY <2>3 DEF PlanGate
      <4> QED BY <4>1, <4>2, EnginesAreLayers DEF AllAudit
    <3> QED BY <3>2, <3>3, BlankOK
  <2>4. CASE ~Undecidable(c) /\ here.requests[c].method # "other" /\ ~(gated /\ PlanGate(engines[1]))
    <3>1. n = Begun(c, asked, 1)
      BY <2>4
    <3>2. 1 \in 1 .. NDocs
      BY HereFacts
    <3> HIDE DEF n
    <3>3. /\ n \in CallState /\ Blank(n, now) /\ n.pc = "read" /\ n.todo = Required[session][c][1]
          /\ Range(n.trail) \subseteq {"plan.required"}
      BY <1>6, <3>1, <3>2, BegunFields DEF Blank
    <3> QED BY <3>3, BlankOK
  <2> QED BY <2>1, <2>2, <2>3, <2>4
<1> HIDE DEF n
<1> QED BY <1>1, <1>8

LEMMA ArriveInv ==
  ASSUME IndInv, NEW c \in Calls, Arrive(c)
  PROVE  IndInv'
<1>1. PICK n \in CallState : calls' = [calls EXCEPT ![c] = n] /\ CallOK(c, n, now)
  BY ArriveEffect
<1>2. UNCHANGED <<session, now, entries, hits, monitor, signed, cancelled>>
  BY ArriveEffect
<1> QED BY <1>1, <1>2, CallStep DEF IndInv

\* A reading joins those of the call.
LEMMA SampledOK ==
  ASSUME Config, NEW c \in Calls, NEW k \in CallState, now \in Nat, CallOK(c, k, now),
         k.pc \in {"read", "probe"}, NEW id \in k.todo, NEW e \in Entry,
         e.sampled <= e.readAt, e.readAt <= now,
         IF engines[k.layer].ttl[id] = 0 THEN e.sampled >= k.arrived
         ELSE now - e.sampled < engines[k.layer].ttl[id] + Lag(e.readAt - e.sampled)
  PROVE  /\ Sampled(k, k.layer, id, e) \in CallState
         /\ CallOK(c, Sampled(k, k.layer, id, e), now)
<1> DEFINE r == [layer |-> k.layer, signal |-> id, status |-> e.status,
                 age |-> now - e.sampled, took |-> e.readAt - e.sampled,
                 live |-> e.sampled >= k.arrived]
           n == Sampled(k, k.layer, id, e)
<1>1. /\ k.layer \in Nat /\ id \in Nat /\ e.status \in Status /\ e.sampled \in Nat
      /\ k.arrived \in Nat /\ k.readings \in SUBSET Reading /\ k.todo \in SUBSET Nat
  BY DEF CallState, Entry
<1>2. StageOf(k, now) /\ VerdictOf(c, k) /\ FreshOf(c, k, now)
  BY DEF CallOK
<1>3. k.layer \in 1 .. NDocs /\ NDocs \in Nat
  BY <1>2, HereFacts DEF StageOf, Evaluating
<1>4. id \in DOMAIN engines[k.layer].ttl
  BY <1>2, <1>3, RequiredFacts DEF FreshOf
<1>5. r \in Reading
  <2>1. now - e.sampled \in Nat /\ e.readAt - e.sampled \in Nat
    BY DEF Entry
  <2> QED BY <1>1, <2>1 DEF Reading
<1>6. IsFresh(r)
  BY DEF IsFresh
<1>7. n = [k EXCEPT !.pc = "read", !.todo = k.todo \ {id}, !.probe = NoProbe,
                    !.readings = k.readings \cup {r}]
  BY DEF Sampled
<1>8. r.layer = k.layer /\ r.signal = id
  OBVIOUS
<1> HIDE DEF r, n
<1>9. /\ n \in CallState /\ n.pc = "read" /\ n.todo = k.todo \ {id}
      /\ n.readings = k.readings \cup {r} /\ n.layer = k.layer /\ n.arrived = k.arrived
      /\ n.stamps = k.stamps /\ n.severity = k.severity /\ n.intended = k.intended
      /\ n.trail = k.trail
  BY <1>1, <1>5, <1>7, NoProbeType DEF CallState
<1>10. StageOf(n, now)
  BY <1>2, <1>9 DEF StageOf, Evaluating, Asking
<1>11. VerdictOf(c, n)
  <2>1. \A l \in 1 .. NDocs : l < n.layer => Followed(c, n, l)
    BY <1>2, <1>9 DEF VerdictOf, Followed, FailedAt
  <2>2. \A x \in Required[session][c][n.layer] \ n.todo : HasReading(n, n.layer, x)
    BY <1>2, <1>8, <1>9 DEF VerdictOf, HasReading, Evaluating
  <2>3. ~Asking(n)
    BY <1>9 DEF Asking
  <2> QED BY <1>2, <1>9, <2>1, <2>2, <2>3 DEF VerdictOf
<1>12. FreshOf(c, n, now)
  BY <1>2, <1>3, <1>4, <1>6, <1>8, <1>9 DEF FreshOf
<1> QED BY <1>9, <1>10, <1>11, <1>12 DEF CallOK, n

LEMMA ReadInv ==
  ASSUME IndInv, NEW c \in Calls, Read(c)
  PROVE  IndInv'
<1> USE DEF IndInv
<1> DEFINE k == calls[c]
           id == Min(k.todo)
           e == entries[k.layer][id]
           ttl == engines[k.layer].ttl[id]
<1>1. /\ k.pc = "read" /\ k.todo # {}
      /\ IF expired(e, ttl)
         THEN \E status \in here.answers : calls' = [calls EXCEPT ![c].pc = "probe",
                ![c].probe = [signal |-> id, since |-> now, status |-> status]]
         ELSE calls' = [calls EXCEPT ![c] = Sampled(k, k.layer, id, e)]
      /\ UNCHANGED <<session, now, entries, hits, monitor, signed, cancelled>>
  BY DEF Read
<1>2. k \in CallState /\ StageOf(k, now) /\ VerdictOf(c, k) /\ FreshOf(c, k, now)
  BY DEF CallOK
<1>3. k.todo \in SUBSET Nat
  BY <1>2 DEF CallState
<1>4. id \in k.todo /\ id \in Nat
  BY <1>1, <1>3, MinOf
<1>5. k.layer \in 1 .. NDocs /\ k.arrived <= now /\ k.arrived \in Nat
  BY <1>1, <1>2 DEF StageOf, Evaluating, CallState
<1>6. id \in DOMAIN engines[k.layer].ttl
  BY <1>1, <1>2, <1>4, <1>5, RequiredFacts DEF FreshOf
<1>7. ttl \in Nat /\ EntryOK(e, now)
  BY <1>5, <1>6, EngineFacts DEF CacheOK
<1> HIDE DEF id, e, ttl
<1>8. CASE expired(e, ttl)
  <2>1. PICK status \in here.answers : calls' = [calls EXCEPT ![c].pc = "probe",
                ![c].probe = [signal |-> id, since |-> now, status |-> status]]
    BY <1>1, <1>8
  <2> DEFINE p == [signal |-> id, since |-> now, status |-> status]
             n == [k EXCEPT !.pc = "probe", !.probe = p]
  <2>2. status \in Status
    BY HereFacts
  <2>3. p \in Probe /\ p.signal = id /\ p.since = now
    BY <1>4, <2>2 DEF Probe
  <2>4. calls' = [calls EXCEPT ![c] = n]
    BY <2>1
  <2> HIDE DEF p, k
  <2>5. /\ n \in CallState /\ n.pc = "probe" /\ n.probe = p /\ n.todo = k.todo
        /\ n.readings = k.readings /\ n.layer = k.layer /\ n.arrived = k.arrived
        /\ n.stamps = k.stamps /\ n.severity = k.severity /\ n.intended = k.intended
        /\ n.trail = k.trail
    BY <1>2, <2>3 DEF CallState
  <2> HIDE DEF n
  <2>6. StageOf(n, now)
    BY <1>1, <1>2, <2>5 DEF StageOf, Evaluating, Asking
  <2>7. VerdictOf(c, n)
    BY <1>1, <1>2, <2>5 DEF VerdictOf, Evaluating, Asking, Followed, FailedAt, HasReading
  <2>8. Probing(p, now)
    BY <2>3, EnforceConstants DEF Probing
  <2>9. FreshOf(c, n, now)
    BY <1>1, <1>2, <1>4, <1>5, <2>3, <2>5, <2>8 DEF FreshOf
  <2>10. CallOK(c, n, now)
    BY <2>6, <2>7, <2>9 DEF CallOK
  <2> QED BY <1>1, <2>4, <2>5, <2>10, CallStep
<1>9. CASE ~expired(e, ttl)
  <2> DEFINE n == Sampled(k, k.layer, id, e)
  <2>1. calls' = [calls EXCEPT ![c] = n]
    BY <1>1, <1>9
  <2>2. /\ e \in Entry /\ e.sampled \in Nat /\ e.readAt \in Nat /\ e.sampled <= e.readAt
        /\ e.readAt <= now /\ (here.point = "server" => e.readAt <= e.sampled + MaxEval)
    BY <1>7 DEF EntryOK, Entry
  <2>3. ttl # 0 /\ now - e.readAt < ttl
    BY <1>7, <1>9, <2>2 DEF expired
  <2>4. now - e.sampled < ttl + Lag(e.readAt - e.sampled)
    BY <1>7, <2>2, <2>3, EnforceConstants DEF Lag
  <2>5. n \in CallState /\ CallOK(c, n, now)
    BY <1>1, <1>2, <1>4, <2>2, <2>3, <2>4, SampledOK DEF CallOK, ttl
  <2> HIDE DEF n
  <2> QED BY <1>1, <2>1, <2>5, CallStep
<1> QED BY <1>8, <1>9

LEMMA StoreInv ==
  ASSUME IndInv, NEW c \in Calls, Store(c)
  PROVE  IndInv'
<1> USE DEF IndInv
<1> DEFINE k == calls[c]
           id == k.probe.signal
           e == Stored(k.probe)
           n == Sampled(k, k.layer, id, e)
<1>1. /\ k.pc = "probe" /\ entries' = [entries EXCEPT ![k.layer][id] = e]
      /\ calls' = [calls EXCEPT ![c] = n]
      /\ UNCHANGED <<session, now, hits, monitor, signed, cancelled>>
  BY DEF Store
<1>2. k \in CallState /\ StageOf(k, now) /\ VerdictOf(c, k) /\ FreshOf(c, k, now)
  BY DEF CallOK
<1>3. /\ k.probe \in Probe /\ id \in k.todo /\ k.arrived <= k.probe.since /\ Probing(k.probe, now)
      /\ k.probe.since \in Nat /\ k.probe.status \in Status /\ k.arrived \in Nat
  BY <1>1, <1>2 DEF FreshOf, CallState, Probe
<1>4. k.layer \in 1 .. NDocs
  BY <1>1, <1>2 DEF StageOf, Evaluating
<1>5. id \in DOMAIN engines[k.layer].ttl
  BY <1>1, <1>2, <1>3, <1>4, RequiredFacts DEF FreshOf
<1>6. /\ e = [status |-> k.probe.status, readAt |-> now, sampled |-> k.probe.since]
      /\ e \in Entry /\ EntryOK(e, now) /\ e.sampled = k.probe.since
  BY <1>3 DEF Stored, EntryOK, Entry, Probing
<1>7. engines[k.layer].ttl[id] \in Nat
  BY <1>4, <1>5, EngineFacts
<1> HIDE DEF id, e
<1>8. CacheOK(entries', now)
  <2>1. entries' = [entries EXCEPT ![k.layer] = [entries[k.layer] EXCEPT ![id] = e]]
    BY <1>1
  <2> HIDE DEF k
  <2> QED BY <1>4, <1>5, <1>6, <2>1 DEF CacheOK
<1>9. /\ e.sampled <= e.readAt /\ e.readAt <= now
      /\ IF engines[k.layer].ttl[id] = 0 THEN e.sampled >= k.arrived
         ELSE now - e.sampled < engines[k.layer].ttl[id] + Lag(e.readAt - e.sampled)
  <2>1. e.readAt = now /\ e.sampled = k.probe.since /\ k.probe.since <= now
    BY <1>3, <1>6 DEF Probing
  <2>2. now - e.sampled <= Lag(now - e.sampled) /\ now - e.sampled \in Int
        /\ Lag(now - e.sampled) \in Int
    BY <1>3, <2>1, EnforceConstants DEF Probing, Lag
  <2> QED BY <1>3, <1>7, <2>1, <2>2
<1>10. n \in CallState /\ CallOK(c, n, now)
  BY <1>1, <1>2, <1>3, <1>6, <1>9, SampledOK DEF CallOK
<1> HIDE DEF n
<1> QED BY <1>1, <1>8, <1>10, CallStep

-----------------------------------------------------------------------------
(* A window of the rate limiter.                                            *)

\* f records what is left of the hits after each of the first n was looked at.
Sifts(f, h, stamp, window, n) ==
  f = [i \in 0 .. n |->
        IF i = 0 THEN <<>>
        ELSE IF h[i] + window > stamp THEN Append(f[i - 1], h[i]) ELSE f[i - 1]]

LEMMA SiftRuns ==
  ASSUME NEW S, NEW h \in Seq(S), NEW stamp, NEW window
  PROVE  \E f : Sifts(f, h, stamp, window, Len(h)) /\ Kept(h, stamp, window) = Append(f[Len(h)], stamp)
<1> DEFINE N == Len(h)
           A(f, n) == Sifts(f, h, stamp, window, n)
           step(g, i) == IF h[i] + window > stamp THEN Append(g[i - 1], h[i]) ELSE g[i - 1]
           T == {n \in 0 .. N : ~\E f : A(f, n)}
<1>1. N \in Nat
  OBVIOUS
<1>2. A([i \in 0 .. 0 |-> <<>>], 0)
  BY DEF Sifts
<1>3. ASSUME NEW n \in 1 .. N, NEW g, A(g, n - 1)
      PROVE  A([i \in 0 .. n |-> IF i = n THEN step(g, n) ELSE g[i]], n)
  <2> DEFINE f == [i \in 0 .. n |-> IF i = n THEN step(g, n) ELSE g[i]]
  <2>1. \A i \in 0 .. n - 1 : g[i] = IF i = 0 THEN <<>> ELSE step(g, i)
    BY <1>3 DEF Sifts
  <2>2. ASSUME NEW i \in 0 .. n
        PROVE  f[i] = IF i = 0 THEN <<>> ELSE step(f, i)
    BY <1>1, <2>1, SMTT(30)
  <2> HIDE DEF f
  <2>3. f = [i \in 0 .. n |-> f[i]]
    BY DEF f
  <2>4. f = [i \in 0 .. n |-> IF i = 0 THEN <<>> ELSE step(f, i)]
    BY <2>2, <2>3
  <2>5. A(f, n)
    BY <2>4 DEF Sifts
  <2> QED BY <2>5 DEF f
<1>4. T = {}
  <2> SUFFICES ASSUME T # {} PROVE FALSE
    OBVIOUS
  <2>0. T \in SUBSET Nat
    BY <1>1
  <2>1. PICK n \in T : \A m \in T : n <= m
    <3> HIDE DEF T
    <3> QED BY <2>0, LeastNat
  <2>2. n # 0
    BY <1>2, <2>1
  <2>3. n \in 1 .. N /\ n - 1 \in 0 .. N /\ n - 1 \notin T
    BY <1>1, <2>1, <2>2
  <2> HIDE DEF A
  <2>4. PICK g : A(g, n - 1)
    BY <2>3
  <2>5. \E f : A(f, n)
    BY <1>3, <2>3, <2>4
  <2> QED BY <2>1, <2>5
<1>5. \E f : A(f, N)
  BY <1>1, <1>4
<1>6. A(CHOOSE f : A(f, N), N)
  BY <1>5
<1>7. Kept(h, stamp, window) = Append((CHOOSE f : A(f, N))[N], stamp)
  BY DEF Kept, Sifts
<1> QED BY <1>6, <1>7

\* The places of h that are not yet out of the window.
Surviving(h, stamp, window, n) == {j \in 1 .. n : h[j] + window > stamp}

\* g finds a place of its own in s for every hit at the places in J.
Places(g, s, h, J) ==
  /\ g \in [J -> 1 .. Len(s)]
  /\ \A j \in J : s[g[j]] = h[j]
  /\ \A j1, j2 \in J : g[j1] = g[j2] => j1 = j2

\* Pruning keeps every hit that is not out of the window, in a place of its own, and puts
\* the new one after them (engine.go:520-547).
LEMMA KeptFacts ==
  ASSUME NEW S \in SUBSET Nat, NEW h \in Seq(S), NEW stamp \in S, NEW window \in Nat
  PROVE  LET kept == Kept(h, stamp, window) IN
         /\ kept \in Seq(S) /\ Len(kept) >= 1 /\ kept[Len(kept)] = stamp
         /\ \E g : /\ Places(g, kept, h, Surviving(h, stamp, window, Len(h)))
                   /\ \A j \in Surviving(h, stamp, window, Len(h)) : g[j] # Len(kept)
<1> DEFINE N == Len(h)
           J(n) == Surviving(h, stamp, window, n)
<1>1. N \in Nat /\ \A j \in 1 .. N : h[j] \in S /\ h[j] \in Nat
  BY ElementOfSeq, LenProperties
<1>2. PICK f : /\ Sifts(f, h, stamp, window, N)
               /\ Kept(h, stamp, window) = Append(f[N], stamp)
  BY SiftRuns
<1>3. /\ f[0] = <<>>
      /\ \A i \in 1 .. N :
           f[i] = IF h[i] + window > stamp THEN Append(f[i - 1], h[i]) ELSE f[i - 1]
  <2>1. f = [i \in 0 .. N |->
          IF i = 0 THEN <<>>
          ELSE IF h[i] + window > stamp THEN Append(f[i - 1], h[i]) ELSE f[i - 1]]
    BY <1>2 DEF Sifts
  <2>2. 0 \in 0 .. N /\ \A i \in 1 .. N : i \in 0 .. N /\ i # 0
    BY <1>1
  <2>3. \A i \in 0 .. N : f[i] = IF i = 0 THEN <<>>
          ELSE IF h[i] + window > stamp THEN Append(f[i - 1], h[i]) ELSE f[i - 1]
    BY <2>1
  <2> QED BY <2>2, <2>3
<1> DEFINE Good(n) == f[n] \in Seq(S) /\ \E g : Places(g, f[n], h, J(n))
<1>4. Good(0)
  <2>1. J(0) = {}
    BY DEF Surviving
  <2>2. Places([j \in {} |-> 0], <<>>, h, {})
    BY DEF Places
  <2>3. <<>> \in Seq(S)
    OBVIOUS
  <2> QED BY <1>3, <2>1, <2>2, <2>3
<1>5. ASSUME NEW n \in 1 .. N, Good(n - 1) PROVE Good(n)
  <2>1. PICK g : Places(g, f[n - 1], h, J(n - 1))
    BY <1>5
  <2>2. CASE ~(h[n] + window > stamp)
    <3>1. f[n] = f[n - 1]
      BY <1>3, <2>2
    <3>2. J(n) = J(n - 1)
      BY <1>1, <2>2 DEF Surviving
    <3> QED BY <1>5, <3>1, <3>2
  <2>3. CASE h[n] + window > stamp
    <3> DEFINE s == f[n - 1]
               t == Append(s, h[n])
               g2 == [j \in J(n) |-> IF j = n THEN Len(t) ELSE g[j]]
    <3>1. f[n] = t
      BY <1>3, <2>3
    <3>2. J(n) = J(n - 1) \cup {n} /\ n \notin J(n - 1)
      BY <1>1, <2>3 DEF Surviving
    <3>3. s \in Seq(S) /\ h[n] \in S
      BY <1>1, <1>5
    <3> HIDE DEF s
    <3>4. /\ t \in Seq(S) /\ Len(t) = Len(s) + 1 /\ Len(s) \in Nat /\ t[Len(t)] = h[n]
          /\ \A i \in 1 .. Len(s) : t[i] = s[i]
      BY <3>3
    <3> HIDE DEF t
    <3>5. /\ \A j \in J(n - 1) : g[j] \in 1 .. Len(s) /\ s[g[j]] = h[j]
          /\ \A j1, j2 \in J(n - 1) : g[j1] = g[j2] => j1 = j2
      BY <2>1 DEF Places, s
    <3> HIDE DEF J
    <3>6. \A j \in J(n) : g2[j] \in 1 .. Len(t) /\ t[g2[j]] = h[j]
      BY <3>2, <3>4, <3>5
    <3>7. \A j1, j2 \in J(n) : g2[j1] = g2[j2] => j1 = j2
      BY <3>2, <3>4, <3>5
    <3>8. g2 \in [J(n) -> 1 .. Len(t)]
      BY <3>6
    <3>9. Places(g2, t, h, J(n))
      BY <3>6, <3>7, <3>8 DEF Places
    <3> QED BY <3>1, <3>4, <3>9
  <2> QED BY <2>2, <2>3
<1> HIDE DEF Good
<1>6. Good(N)
  <2> DEFINE T == {i \in 0 .. N : ~Good(i)}
  <2> SUFFICES ASSUME T # {} PROVE FALSE
    BY <1>1
  <2>0. T \in SUBSET Nat
    BY <1>1
  <2>1. PICK i \in T : \A j \in T : i <= j
    <3> HIDE DEF T
    <3> QED BY <2>0, LeastNat
  <2>2. i # 0
    BY <1>4, <2>1
  <2>3. i \in 1 .. N /\ i - 1 \in 0 .. N /\ Good(i - 1)
    BY <1>1, <2>1, <2>2
  <2> QED BY <1>5, <2>1, <2>3
<1> DEFINE s == f[N]
           kept == Append(s, stamp)
<1>7. s \in Seq(S) /\ \E g : Places(g, s, h, J(N))
  BY <1>6 DEF Good
<1>8. PICK g : Places(g, s, h, J(N))
  BY <1>7
<1> HIDE DEF s, J
<1>9. /\ kept \in Seq(S) /\ Len(kept) = Len(s) + 1 /\ Len(s) \in Nat /\ kept[Len(kept)] = stamp
      /\ \A i \in 1 .. Len(s) : kept[i] = s[i]
  BY <1>7
<1>10. Places(g, kept, h, J(N)) /\ \A j \in J(N) : g[j] # Len(kept)
  <2> HIDE DEF kept
  <2>1. \A j \in J(N) : g[j] \in 1 .. Len(s)
    BY <1>8 DEF Places
  <2>2. g \in [J(N) -> 1 .. Len(kept)]
    BY <1>8, <1>9 DEF Places
  <2>3. \A j \in J(N) : kept[g[j]] = h[j] /\ g[j] # Len(kept)
    BY <1>8, <1>9, <2>1 DEF Places
  <2> QED BY <1>8, <2>2, <2>3 DEF Places
<1>11. Kept(h, stamp, window) = kept
  BY <1>2 DEF s
<1> HIDE DEF kept
<1>12. Len(kept) >= 1
  BY <1>9
<1> QED BY <1>9, <1>10, <1>11, <1>12 DEF J

\* The limiter: a matching limit counts the call, and a limit that is then exceeded is
\* part of the answer.
LEMMA ExceededFacts ==
  ASSUME Config, NEW l \in 1 .. NDocs, NEW old, NEW stamp, NEW t \in Nat,
         DOMAIN old = DOMAIN engines[l].limits,
         \A i \in DOMAIN engines[l].limits : old[i] \in Seq(Epoch .. t),
         stamp \in Epoch .. t, NEW matching \in SUBSET DOMAIN engines[l].limits
  PROVE  LET limits == engines[l].limits
             x == exceeded(limits, old, matching, stamp)
         IN /\ DOMAIN x.hits = DOMAIN limits
            /\ \A i \in DOMAIN limits :
                 x.hits[i] = IF i \in matching THEN Kept(old[i], stamp, limits[i].window) ELSE old[i]
            /\ \A i \in DOMAIN limits : x.hits[i] \in Seq(Epoch .. t)
            /\ x.severity \in Severity
            /\ \A i \in matching : Len(x.hits[i]) > limits[i].max => x.severity >= limits[i].onExceed
<1> DEFINE limits == engines[l].limits
           kept == [i \in DOMAIN old |-> IF i \in matching THEN Kept(old[i], stamp, limits[i].window)
                                         ELSE old[i]]
           over == {i \in matching : Len(kept[i]) > limits[i].max}
           all == {SeverityAllow} \cup {limits[i].onExceed : i \in over}
           x == exceeded(limits, old, matching, stamp)
<1>1. x = [hits |-> kept, severity |-> Max(all)]
  BY DEF exceeded
<1>2. \A i \in DOMAIN limits : limits[i].window \in Nat /\ limits[i].onExceed \in Severity
  BY EngineFacts
<1>3. all \in SUBSET Severity /\ all # {}
  <2>1. \A i \in over : limits[i].onExceed \in Severity
    BY <1>2
  <2>2. SeverityAllow \in Severity
    BY DEF Severity, SeverityAllow, SeverityKill
  <2> HIDE DEF over
  <2> QED BY <2>1, <2>2
<1>4. Max(all) \in Severity /\ \A y \in all : Max(all) >= y
  <2> HIDE DEF all
  <2> QED BY <1>3, MaxOf
<1>5. Epoch .. t \in SUBSET Nat
  BY EnforceConstants
<1>6. \A i \in DOMAIN limits : kept[i] \in Seq(Epoch .. t)
  <2>1. ASSUME NEW i \in matching PROVE Kept(old[i], stamp, limits[i].window) \in Seq(Epoch .. t)
    BY <1>2, <1>5, KeptFacts
  <2> QED BY <2>1
<1>7. \A i \in matching : Len(kept[i]) > limits[i].max => Max(all) >= limits[i].onExceed
  BY <1>4
<1>8. /\ DOMAIN kept = DOMAIN limits
      /\ \A i \in DOMAIN limits :
           kept[i] = IF i \in matching THEN Kept(old[i], stamp, limits[i].window) ELSE old[i]
  OBVIOUS
<1>9. x.hits = kept /\ x.severity = Max(all)
  BY <1>1
<1> HIDE DEF kept, all, x
<1> QED BY <1>4, <1>6, <1>7, <1>8, <1>9 DEF x

-----------------------------------------------------------------------------
(* The end of an evaluation.                                                *)

\* Everything the engine the call is at needs is there.
Ready(c, k, t) ==
  /\ k.layer \in 1 .. NDocs /\ Len(k.stamps) = k.layer /\ k.arrived <= t
  /\ Range(k.trail) \subseteq {"plan.required"}
  /\ \A l \in 1 .. Len(k.stamps) : engines[l].limits # <<>> => k.stamps[l] \in Epoch .. t
  /\ k.severity <= k.intended /\ (AllAudit => k.severity <= SeverityWarn)
  /\ \A l \in 1 .. NDocs : l < k.layer => Followed(c, k, l)
  /\ \A id \in Required[session][c][k.layer] : HasReading(k, k.layer, id)
  /\ \A r \in k.readings : /\ r.layer \in 1 .. NDocs /\ r.signal \in DOMAIN engines[r.layer].ttl
                           /\ IsFresh(r)

LEMMA EvaluatedOK ==
  ASSUME Config, NEW c \in Calls, NEW k \in CallState, NEW t \in Nat, Ready(c, k, t),
         NEW excess, NEW n, EvaluatedTo(c, n, k, excess)
  PROVE  n \in CallState /\ CallOK(c, n, t)
<1> USE DEF Severity, SeverityAllow, SeverityWarn, SeverityHold, SeverityDeny, SeverityKill
<1> DEFINE mode == engines[k.layer].mode
           a == attributed(engines[k.layer], Subject(c))
<1>1. PICK intended \in Severity, v \in CallState :
        /\ \A id \in DOMAIN a : FailedAt(k, k.layer, id) => intended >= a[id].severity
        /\ \A r \in Range(engines[k.layer].rules) : Forbids(c, r) => intended >= r.onFail
        /\ v.severity >= k.severity /\ v.severity >= clamp(mode, intended)
        /\ v.severity \in {k.severity, clamp(mode, intended)}
        /\ v.intended >= k.intended /\ v.intended >= intended
        /\ v.layer = k.layer + 1 /\ v.arrived = k.arrived /\ v.readings = k.readings
        /\ v.stamps = k.stamps /\ Range(v.trail) = Range(k.trail)
        /\ n \in CallState /\ SameVerdict(n, v)
        /\ \/ /\ k.layer < NDocs /\ n.pc = "read" /\ Range(n.trail) = Range(k.trail)
              /\ n.todo = Required[session][c][n.layer]
           \/ k.layer = NDocs /\ ActedOn(n, v) /\ "decided" \in Range(n.trail)
  BY DEF EvaluatedTo
<1>2. /\ n.layer = k.layer + 1 /\ n.arrived = k.arrived /\ n.readings = k.readings
      /\ n.stamps = k.stamps /\ n.severity = v.severity /\ n.intended = v.intended
  BY <1>1 DEF SameVerdict
<1>3. /\ k.layer \in 1 .. NDocs /\ NDocs \in Nat /\ mode \in {"audit", "enforce"}
      /\ AllAudit => mode = "audit"
  <2>1. k.layer \in 1 .. NDocs
    BY DEF Ready
  <2> QED BY <2>1, HereFacts, EnginesAreLayers DEF AllAudit
<1>4. \A id \in DOMAIN a : a[id].severity \in Severity
  BY <1>3, RequiredFacts
<1> HIDE DEF mode
<1>5. n.pc \in {"read", "ran", "refused", "post"} /\ (n.pc = "read" <=> k.layer < NDocs)
  BY <1>1, <1>3 DEF ActedOn
<1>6. k.severity \in Severity /\ v.severity \in Severity /\ k.intended \in Severity
      /\ v.intended \in Severity
  BY <1>1 DEF CallState
<1>7. StageOf(n, t)
  <2>1. n.layer \in 1 .. NDocs + 1 /\ Len(n.stamps) = k.layer /\ Len(n.stamps) <= NDocs
    BY <1>2, <1>3 DEF Ready
  <2>2. \A l \in 1 .. Len(n.stamps) : engines[l].limits # <<>> => n.stamps[l] \in Epoch .. t
    BY <1>2 DEF Ready
  <2>3. CASE k.layer < NDocs
    <3>1. n.pc = "read" /\ n.layer \in 1 .. NDocs /\ Len(n.stamps) = n.layer - 1 /\ n.arrived <= t
          /\ Range(n.trail) \subseteq {"plan.required"}
      BY <1>1, <1>2, <1>3, <2>1, <2>3 DEF Ready
    <3> QED BY <2>1, <2>2, <3>1 DEF StageOf, Evaluating, Asking
  <2>4. CASE k.layer = NDocs
    <3>1. n.layer = NDocs + 1 /\ Len(n.stamps) = NDocs
      BY <1>2, <2>1, <2>4
    <3>2. n.pc = "post" => /\ here.point = "server" /\ n.severity = SeverityHold
                           /\ Range(n.trail) \subseteq {"plan.required", "decided", "requested"}
      BY <1>1, <1>2, <2>4 DEF ActedOn, Ready
    <3>3. n.pc \in {"ran", "refused", "post"}
      BY <1>3, <1>5, <2>4
    <3> QED BY <2>1, <2>2, <3>1, <3>2, <3>3 DEF StageOf, Evaluating, Asking
  <2> QED BY <1>3, <2>3, <2>4
<1>8. VerdictOf(c, n)
  <2>1. n.severity <= n.intended
    <3>1. clamp(mode, intended) <= intended /\ clamp(mode, intended) \in Severity
      BY <1>3, ClampFacts
    <3> QED BY <1>1, <1>2, <1>6, <3>1 DEF Ready
  <2>2. ASSUME NEW l \in 1 .. NDocs, l < n.layer PROVE Followed(c, n, l)
    <3>1. CASE l < k.layer
      <4>1. Followed(c, k, l)
        BY <3>1 DEF Ready
      <4> DEFINE b == attributed(engines[l], Subject(c))
      <4>2. \A id \in DOMAIN b : b[id].severity \in Severity
        BY RequiredFacts
      <4>3. engines[l].mode \in {"audit", "enforce"}
        BY EnginesAreLayers
      <4>4. ASSUME NEW id \in DOMAIN b, FailedAt(n, l, id)
            PROVE  n.intended >= b[id].severity /\ n.severity >= clamp(engines[l].mode, b[id].severity)
        <5>1. FailedAt(k, l, id)
          BY <1>2, <4>4 DEF FailedAt
        <5>2. k.intended >= b[id].severity /\ k.severity >= clamp(engines[l].mode, b[id].severity)
          BY <4>1, <5>1 DEF Followed
        <5>3. clamp(engines[l].mode, b[id].severity) \in Severity
          BY <4>2, <4>3, ClampFacts
        <5> HIDE DEF b
        <5> QED BY <1>1, <1>2, <1>6, <4>2, <5>2, <5>3
      <4>5. ASSUME NEW r \in Range(engines[l].rules), Forbids(c, r) PROVE n.intended >= r.onFail
        <5>1. k.intended >= r.onFail
          BY <4>1, <4>5 DEF Followed
        <5>2. r.onFail \in Severity
          BY EngineFacts
        <5> QED BY <1>1, <1>2, <1>6, <5>1, <5>2
      <4> QED BY <4>4, <4>5 DEF Followed
    <3>2. CASE l = k.layer
      <4>1. ASSUME NEW id \in DOMAIN a, FailedAt(n, l, id)
            PROVE  n.intended >= a[id].severity /\ n.severity >= clamp(mode, a[id].severity)
        <5>1. intended >= a[id].severity
          BY <1>1, <1>2, <3>2, <4>1 DEF FailedAt
        <5>2. clamp(mode, intended) >= clamp(mode, a[id].severity)
          BY <1>3, <1>4, <5>1, ClampFacts
        <5>3. clamp(mode, intended) \in Severity /\ clamp(mode, a[id].severity) \in Severity
          BY <1>3, <1>4, ClampFacts
        <5> HIDE DEF a
        <5> QED BY <1>1, <1>2, <1>4, <1>6, <5>1, <5>2, <5>3
      <4>2. ASSUME NEW r \in Range(engines[l].rules), Forbids(c, r) PROVE n.intended >= r.onFail
        <5>1. intended >= r.onFail
          BY <1>1, <3>2, <4>2
        <5>2. r.onFail \in Severity
          BY EngineFacts
        <5> QED BY <1>1, <1>2, <1>6, <5>1, <5>2
      <4> QED BY <3>2, <4>1, <4>2 DEF Followed, mode
    <3> QED BY <1>2, <1>3, <2>2, <3>1, <3>2
  <2>3. Evaluating(n) => \A id \in Required[session][c][n.layer] \ n.todo : HasReading(n, n.layer, id)
    BY <1>1, <1>3, <1>5 DEF Evaluating, ActedOn
  <2>4. n.pc # "limit"
    BY <1>5
  <2>5. AllAudit => n.severity <= SeverityWarn
    <3>1. AllAudit => clamp(mode, intended) <= SeverityWarn
      BY <1>3, ClampFacts
    <3> QED BY <1>1, <1>2, <3>1 DEF Ready
  <2>6. AllAudit => ~Asking(n) /\ n.pc # "refused"
    <3>1. n.pc \in {"refused", "post"} => n.severity >= SeverityHold
      BY <1>1, <1>2, <1>5, <1>6 DEF ActedOn
    <3> QED BY <1>2, <1>5, <1>6, <2>5, <3>1 DEF Asking
  <2>7. n.pc = "ran" => n.severity < SeverityDeny
    BY <1>1, <1>2, <1>5 DEF ActedOn
  <2> QED BY <2>1, <2>2, <2>3, <2>4, <2>5, <2>6, <2>7 DEF VerdictOf
<1>9. FreshOf(c, n, t)
  <2>1. n.pc = "read" => n.todo = Required[session][c][n.layer]
    BY <1>1, <1>3, <1>5
  <2> QED BY <1>2, <1>5, <2>1 DEF FreshOf, Ready
<1> QED BY <1>1, <1>7, <1>8, <1>9 DEF CallOK

\* A stamp is appended for the layer the call is at.
LEMMA StampedReady ==
  ASSUME Config, NEW c \in Calls, NEW k \in CallState, NEW t \in Nat, CallOK(c, k, t),
         k.pc = "read", k.todo = {}, NEW s \in Nat,
         engines[k.layer].limits # <<>> => s \in Epoch .. t
  PROVE  /\ [k EXCEPT !.stamps = Append(@, s)] \in CallState
         /\ Ready(c, [k EXCEPT !.stamps = Append(@, s)], t)
<1> DEFINE st == Append(k.stamps, s)
           n == [k EXCEPT !.stamps = st]
<1>1. StageOf(k, t) /\ VerdictOf(c, k) /\ FreshOf(c, k, t)
  BY DEF CallOK
<1>2. k.stamps \in Seq(Nat) /\ k.layer \in 1 .. NDocs /\ NDocs \in Nat
  BY <1>1, HereFacts DEF CallState, StageOf, Evaluating
<1>3. Len(k.stamps) = k.layer - 1
  BY <1>1 DEF StageOf, Evaluating
<1>4. /\ st \in Seq(Nat) /\ Len(st) = k.layer /\ st[k.layer] = s
      /\ \A l \in 1 .. Len(k.stamps) : st[l] = k.stamps[l]
  BY <1>2, <1>3
<1> HIDE DEF st
<1>5. /\ n \in CallState /\ n.stamps = st /\ n.layer = k.layer /\ n.arrived = k.arrived
      /\ n.trail = k.trail /\ n.severity = k.severity /\ n.intended = k.intended
      /\ n.readings = k.readings
  BY <1>4 DEF CallState
<1> HIDE DEF n
<1>6. \A l \in 1 .. Len(st) : engines[l].limits # <<>> => st[l] \in Epoch .. t
  <2>1. \A l \in 1 .. Len(k.stamps) : engines[l].limits # <<>> => k.stamps[l] \in Epoch .. t
    BY <1>1 DEF StageOf
  <2>2. 1 .. Len(st) = (1 .. Len(k.stamps)) \cup {k.layer}
    BY <1>2, <1>3, <1>4
  <2> QED BY <1>4, <2>1, <2>2
<1>7. \A l \in 1 .. NDocs : l < n.layer => Followed(c, n, l)
  BY <1>1, <1>5 DEF VerdictOf, Followed, FailedAt
<1>8. \A id \in Required[session][c][n.layer] : HasReading(n, n.layer, id)
  BY <1>1, <1>5 DEF VerdictOf, HasReading, Evaluating
<1>9. n.severity <= n.intended /\ (AllAudit => n.severity <= SeverityWarn)
  BY <1>1, <1>5 DEF VerdictOf
<1>10. \A r \in n.readings : /\ r.layer \in 1 .. NDocs /\ r.signal \in DOMAIN engines[r.layer].ttl
                             /\ IsFresh(r)
  BY <1>1, <1>5 DEF FreshOf
<1>11. n.arrived <= t /\ Range(n.trail) \subseteq {"plan.required"}
  BY <1>1, <1>5 DEF StageOf, Evaluating
<1>12. Ready(c, n, t)
  BY <1>2, <1>4, <1>5, <1>6, <1>7, <1>8, <1>9, <1>10, <1>11 DEF Ready
<1>13. n = [k EXCEPT !.stamps = Append(@, s)]
  BY DEF n, st
<1> QED BY <1>5, <1>12, <1>13

\* What a step of Evaluate leaves of the call, for the invariants to come.
LEMMA StampEffect ==
  ASSUME IndInv, NEW c \in Calls, Stamp(c)
  PROVE  LET k == calls[c]
             k0 == [k EXCEPT !.stamps = Append(@, 0)]
             n == [k EXCEPT !.pc = "limit", !.stamps = Append(@, now)]
         IN /\ k \in CallState /\ k.pc = "read" /\ k.layer \in 1 .. NDocs
            /\ Len(k.stamps) = k.layer - 1
            /\ UNCHANGED <<session, now, entries, hits, monitor, signed, cancelled>>
            /\ \/ /\ engines[k.layer].limits = <<>> /\ k0 \in CallState /\ Ready(c, k0, now)
                  /\ EvaluatedTo(c, calls'[c], k0, SeverityAllow)
                  /\ calls' = [calls EXCEPT ![c] = calls'[c]]
               \/ /\ engines[k.layer].limits # <<>> /\ calls' = [calls EXCEPT ![c] = n]
                  /\ n \in CallState /\ CallOK(c, n, now)
<1> USE DEF IndInv
<1> DEFINE k == calls[c]
           k0 == [k EXCEPT !.stamps = Append(@, 0)]
           n == [k EXCEPT !.pc = "limit", !.stamps = Append(@, now)]
<1>1. /\ k.pc = "read" /\ k.todo = {}
      /\ UNCHANGED <<session, now, entries, hits, monitor, signed, cancelled>>
  BY DEF Stamp
<1>2. k \in CallState /\ CallOK(c, k, now) /\ StageOf(k, now) /\ VerdictOf(c, k) /\ FreshOf(c, k, now)
  BY DEF CallOK
<1>3. k.layer \in 1 .. NDocs /\ Len(k.stamps) = k.layer - 1
  BY <1>1, <1>2 DEF StageOf, Evaluating
<1>4. CASE engines[k.layer].limits = <<>>
  <2>1. Evaluated(c, k0, SeverityAllow)
    BY <1>4 DEF Stamp
  <2>2. k0 \in CallState /\ Ready(c, k0, now)
    BY <1>1, <1>2, <1>4, StampedReady
  <2> HIDE DEF k0
  <2>3. SeverityAllow \in Severity
    BY DEF Severity, SeverityAllow, SeverityKill
  <2>4. /\ k0.layer \in 1 .. NDocs
        /\ \A id \in Required[session][c][k0.layer] : HasReading(k0, k0.layer, id)
    BY <2>2 DEF Ready
  <2>5. EvaluatedTo(c, calls'[c], k0, SeverityAllow) /\ calls' = [calls EXCEPT ![c] = calls'[c]]
    BY <2>1, <2>2, <2>3, <2>4, EvaluatedFollows
  <2> QED BY <1>1, <1>2, <1>3, <1>4, <2>2, <2>5 DEF k0
<1>5. CASE engines[k.layer].limits # <<>>
  <2>1. calls' = [calls EXCEPT ![c].pc = "limit", ![c].stamps = Append(@, now)]
    BY <1>5 DEF Stamp
  <2>2. calls' = [calls EXCEPT ![c] = n]
    BY <2>1
  <2> DEFINE s0 == [k EXCEPT !.stamps = Append(@, now)]
  <2>3. now \in Epoch .. now
    BY EnforceConstants
  <2>4. s0 \in CallState /\ Ready(c, s0, now)
    BY <1>1, <1>2, <2>3, StampedReady
  <2>5. n = [s0 EXCEPT !.pc = "limit"] /\ s0.todo = {}
    BY <1>1, <1>2 DEF CallState
  <2> HIDE DEF s0, n
  <2>6. /\ n \in CallState /\ n.pc = "limit" /\ n.stamps = s0.stamps /\ n.layer = s0.layer
        /\ n.arrived = s0.arrived /\ n.trail = s0.trail /\ n.severity = s0.severity
        /\ n.intended = s0.intended /\ n.readings = s0.readings /\ n.todo = {}
    BY <2>4, <2>5 DEF CallState
  <2>7. NDocs \in Nat /\ s0.layer \in 1 .. NDocs /\ Len(s0.stamps) = s0.layer
        /\ s0.layer = k.layer
    BY <1>2, <2>4, HereFacts DEF Ready, s0, CallState
  <2>8. StageOf(n, now)
    BY <1>5, <2>4, <2>6, <2>7 DEF StageOf, Ready, Evaluating, Asking
  <2>9. VerdictOf(c, n)
    BY <2>4, <2>6 DEF VerdictOf, Ready, Evaluating, Asking, Followed, FailedAt, HasReading
  <2>10. FreshOf(c, n, now)
    BY <2>4, <2>6 DEF FreshOf, Ready
  <2>11. CallOK(c, n, now)
    BY <2>8, <2>9, <2>10 DEF CallOK
  <2> QED BY <1>1, <1>2, <1>3, <1>5, <2>2, <2>6, <2>11 DEF n
<1> QED BY <1>4, <1>5

LEMMA StampInv ==
  ASSUME IndInv, NEW c \in Calls, Stamp(c)
  PROVE  IndInv'
<1> DEFINE k == calls[c]
           k0 == [k EXCEPT !.stamps = Append(@, 0)]
           n == [k EXCEPT !.pc = "limit", !.stamps = Append(@, now)]
<1>1. /\ UNCHANGED <<session, now, entries, hits, monitor, signed, cancelled>>
      /\ \/ /\ k0 \in CallState /\ Ready(c, k0, now)
            /\ EvaluatedTo(c, calls'[c], k0, SeverityAllow)
            /\ calls' = [calls EXCEPT ![c] = calls'[c]]
         \/ calls' = [calls EXCEPT ![c] = n] /\ n \in CallState /\ CallOK(c, n, now)
  BY StampEffect
<1> HIDE DEF k0, n
<1>2. Config /\ now \in Nat /\ CacheOK(entries', now) /\ HitsOK(hits', now)
  BY <1>1 DEF IndInv
<1>3. CASE /\ k0 \in CallState /\ Ready(c, k0, now)
           /\ EvaluatedTo(c, calls'[c], k0, SeverityAllow)
           /\ calls' = [calls EXCEPT ![c] = calls'[c]]
  <2>1. calls'[c] \in CallState /\ CallOK(c, calls'[c], now)
    BY <1>2, <1>3, EvaluatedOK
  <2> QED BY <1>1, <1>2, <1>3, <2>1, CallStep
<1> QED BY <1>1, <1>2, <1>3, CallStep

\* What rateLimiter.exceeded and the rest of Evaluate do, for a call at the limiter.
LimitMatches(c, l) == {i \in DOMAIN engines[l].limits :
                         matchesLimit(engines[l].limits[i].match, Subject(c))}

LEMMA LimitEffect ==
  ASSUME IndInv, NEW c \in Calls, Limit(c)
  PROVE  LET k == calls[c]
             l == k.layer
             limits == engines[l].limits
             stamp == k.stamps[l]
         IN /\ k \in CallState /\ k.pc = "limit" /\ l \in 1 .. NDocs /\ Len(k.stamps) = l
            /\ stamp \in Epoch .. now
            /\ UNCHANGED <<session, now, entries, monitor, signed, cancelled>>
            /\ \E excess \in Severity, k1 \in CallState :
                 /\ k1.overtaken =
                      (k.overtaken \/ \E i \in LimitMatches(c, l) : \E t \in Range(hits[l][i]) : t > stamp)
                 /\ k1.layer = l /\ k1.stamps = k.stamps /\ k1.severity = k.severity
                 /\ Ready(c, k1, now) /\ EvaluatedTo(c, calls'[c], k1, excess)
                 /\ calls' = [calls EXCEPT ![c] = calls'[c]]
                 /\ DOMAIN hits' = DOMAIN hits /\ \A m \in DOMAIN hits : m # l => hits'[m] = hits[m]
                 /\ DOMAIN hits'[l] = DOMAIN limits
                 /\ \A i \in DOMAIN limits :
                      hits'[l][i] = IF i \in LimitMatches(c, l)
                                    THEN Kept(hits[l][i], stamp, limits[i].window) ELSE hits[l][i]
                 /\ \A i \in DOMAIN limits : hits'[l][i] \in Seq(Epoch .. now)
                 /\ \A i \in LimitMatches(c, l) :
                      Len(hits'[l][i]) > limits[i].max => excess >= limits[i].onExceed
<1> USE DEF IndInv
<1> DEFINE k == calls[c]
           l == k.layer
           limits == engines[l].limits
           stamp == k.stamps[l]
           matching == LimitMatches(c, l)
           x == exceeded(limits, hits[l], matching, stamp)
           late == k.overtaken \/ \E i \in matching : \E t \in Range(hits[l][i]) : t > stamp
           k1 == [k EXCEPT !.overtaken = late]
<1>1. /\ k.pc = "limit" /\ hits' = [hits EXCEPT ![l] = x.hits]
      /\ Evaluated(c, [k EXCEPT !.overtaken =
                        @ \/ \E i \in matching : \E t \in Range(hits[l][i]) : t > stamp], x.severity)
      /\ UNCHANGED <<session, now, entries, monitor, signed, cancelled>>
  BY DEF Limit, LimitMatches
<1>2. k \in CallState /\ StageOf(k, now) /\ VerdictOf(c, k) /\ FreshOf(c, k, now)
  BY DEF CallOK
<1>3. /\ l \in 1 .. NDocs /\ Len(k.stamps) = l /\ limits # <<>> /\ NDocs \in Nat
      /\ k.stamps \in Seq(Nat)
  BY <1>1, <1>2, HereFacts DEF StageOf, Evaluating, CallState
<1>4. stamp \in Epoch .. now
  BY <1>2, <1>3 DEF StageOf
<1>5. /\ DOMAIN hits[l] = DOMAIN limits /\ DOMAIN hits = 1 .. NDocs
      /\ \A i \in DOMAIN limits : hits[l][i] \in Seq(Epoch .. now)
  BY <1>3 DEF HitsOK
<1>6. matching \in SUBSET DOMAIN limits
  BY DEF LimitMatches
<1> HIDE DEF matching, stamp
<1>7. /\ DOMAIN x.hits = DOMAIN limits
      /\ \A i \in DOMAIN limits :
           x.hits[i] = IF i \in matching THEN Kept(hits[l][i], stamp, limits[i].window) ELSE hits[l][i]
      /\ \A i \in DOMAIN limits : x.hits[i] \in Seq(Epoch .. now)
      /\ x.severity \in Severity
      /\ \A i \in matching : Len(x.hits[i]) > limits[i].max => x.severity >= limits[i].onExceed
  <2> HIDE DEF l
  <2> DEFINE old == hits[l]
  <2>1. /\ DOMAIN old = DOMAIN limits /\ \A i \in DOMAIN limits : old[i] \in Seq(Epoch .. now)
        /\ now \in Nat /\ Config
    BY <1>5
  <2> HIDE DEF old
  <2> DEFINE y == exceeded(limits, old, matching, stamp)
  <2>2. /\ DOMAIN y.hits = DOMAIN limits
        /\ \A i \in DOMAIN limits :
             y.hits[i] = IF i \in matching THEN Kept(old[i], stamp, limits[i].window) ELSE old[i]
        /\ \A i \in DOMAIN limits : y.hits[i] \in Seq(Epoch .. now)
        /\ y.severity \in Severity
        /\ \A i \in matching : Len(y.hits[i]) > limits[i].max => y.severity >= limits[i].onExceed
    BY <1>3, <1>4, <1>6, <2>1, ExceededFacts
  <2>3. x = y
    BY DEF old
  <2> HIDE DEF x, y
  <2> QED BY <2>2, <2>3 DEF old
<1> HIDE DEF x
<1>8. /\ hits'[l] = x.hits /\ DOMAIN hits' = DOMAIN hits
      /\ \A m \in DOMAIN hits : m # l => hits'[m] = hits[m]
  BY <1>1, <1>3, <1>5
<1>9. late \in BOOLEAN
  BY <1>2 DEF CallState
<1>10. Evaluated(c, k1, x.severity)
  <2>1. k1 = [k EXCEPT !.overtaken =
               @ \/ \E i \in matching : \E t \in Range(hits[l][i]) : t > stamp]
    BY <1>2 DEF CallState
  <2> QED BY <1>1, <2>1
<1> HIDE DEF late
<1>11. /\ k1 \in CallState /\ k1.overtaken = late /\ k1.layer = k.layer /\ k1.stamps = k.stamps
       /\ k1.severity = k.severity /\ k1.intended = k.intended /\ k1.readings = k.readings
       /\ k1.arrived = k.arrived /\ k1.trail = k.trail
  BY <1>2, <1>9 DEF CallState
<1> HIDE DEF k1
<1>12. Ready(c, k1, now)
  <2>1. \A m \in 1 .. NDocs : m < k1.layer => Followed(c, k1, m)
    BY <1>2, <1>11 DEF VerdictOf, Followed, FailedAt
  <2>2. \A id \in Required[session][c][k1.layer] : HasReading(k1, k1.layer, id)
    BY <1>1, <1>2, <1>11 DEF VerdictOf, HasReading, Evaluating
  <2>3. k1.severity <= k1.intended /\ (AllAudit => k1.severity <= SeverityWarn)
    BY <1>2, <1>11 DEF VerdictOf
  <2>4. \A r \in k1.readings : /\ r.layer \in 1 .. NDocs /\ r.signal \in DOMAIN engines[r.layer].ttl
                               /\ IsFresh(r)
    BY <1>2, <1>11 DEF FreshOf
  <2>5. k1.arrived <= now /\ Range(k1.trail) \subseteq {"plan.required"}
    BY <1>1, <1>2, <1>11 DEF StageOf, Evaluating
  <2>6. \A m \in 1 .. Len(k1.stamps) : engines[m].limits # <<>> => k1.stamps[m] \in Epoch .. now
    BY <1>2, <1>11 DEF StageOf
  <2> QED BY <1>3, <1>11, <2>1, <2>2, <2>3, <2>4, <2>5, <2>6 DEF Ready
<1>13. /\ k1.layer \in 1 .. NDocs
       /\ \A id \in Required[session][c][k1.layer] : HasReading(k1, k1.layer, id)
  BY <1>12 DEF Ready
<1>14. EvaluatedTo(c, calls'[c], k1, x.severity) /\ calls' = [calls EXCEPT ![c] = calls'[c]]
  BY <1>7, <1>10, <1>11, <1>13, EvaluatedFollows
<1>15. k1.overtaken = (k.overtaken \/ \E i \in matching : \E t \in Range(hits[l][i]) : t > stamp)
  BY <1>11 DEF late
<1>16. \E excess \in Severity, m1 \in CallState :
         /\ m1.overtaken = (k.overtaken \/ \E i \in matching : \E t \in Range(hits[l][i]) : t > stamp)
         /\ m1.layer = l /\ m1.stamps = k.stamps /\ m1.severity = k.severity
         /\ Ready(c, m1, now) /\ EvaluatedTo(c, calls'[c], m1, excess)
         /\ calls' = [calls EXCEPT ![c] = calls'[c]]
         /\ DOMAIN hits' = DOMAIN hits /\ \A m \in DOMAIN hits : m # l => hits'[m] = hits[m]
         /\ DOMAIN hits'[l] = DOMAIN limits
         /\ \A i \in DOMAIN limits :
              hits'[l][i] = IF i \in matching
                            THEN Kept(hits[l][i], stamp, limits[i].window) ELSE hits[l][i]
         /\ \A i \in DOMAIN limits : hits'[l][i] \in Seq(Epoch .. now)
         /\ \A i \in matching : Len(hits'[l][i]) > limits[i].max => excess >= limits[i].onExceed
  <2> HIDE DEF k, l, limits
  <2> x.severity \in Severity /\ k1 \in CallState
    BY <1>7, <1>11
  <2> WITNESS x.severity \in Severity, k1 \in CallState
  <2> QED BY <1>7, <1>8, <1>11, <1>12, <1>14, <1>15 DEF l
<1> QED BY <1>1, <1>2, <1>3, <1>4, <1>16 DEF matching, stamp

LEMMA LimitInv ==
  ASSUME IndInv, NEW c \in Calls, Limit(c)
  PROVE  IndInv'
<1> DEFINE l == calls[c].layer
<1>1. /\ l \in 1 .. NDocs
      /\ UNCHANGED <<session, now, entries, monitor, signed, cancelled>>
      /\ \E excess \in Severity, k1 \in CallState :
           /\ Ready(c, k1, now) /\ EvaluatedTo(c, calls'[c], k1, excess)
           /\ calls' = [calls EXCEPT ![c] = calls'[c]]
           /\ DOMAIN hits' = DOMAIN hits /\ \A m \in DOMAIN hits : m # l => hits'[m] = hits[m]
           /\ DOMAIN hits'[l] = DOMAIN engines[l].limits
           /\ \A i \in DOMAIN engines[l].limits : hits'[l][i] \in Seq(Epoch .. now)
  BY LimitEffect
<1> HIDE DEF l
<1>2. Config /\ now \in Nat /\ CacheOK(entries', now)
  BY <1>1 DEF IndInv
<1>3. calls'[c] \in CallState /\ CallOK(c, calls'[c], now)
  BY <1>1, <1>2, EvaluatedOK
<1>4. HitsOK(hits', now)
  BY <1>1 DEF HitsOK, IndInv
<1> QED BY <1>1, <1>2, <1>3, <1>4, CallStep

-----------------------------------------------------------------------------
(* Approvals.                                                               *)

\* How an approval ends: what is recorded, and what may be recorded when.
Settled(c, n, k) ==
  \E o \in {"approve", "deny", "timeout", "error"} :
    /\ n.pc = IF o = "approve" THEN "ran" ELSE "refused"
    /\ Range(n.trail) = Range(k.trail) \cup {o} /\ n.deadline = k.deadline
    /\ o = "approve" => <<c, "approve">> \in signed /\ now <= k.deadline
    /\ o = "deny" => <<c, "deny">> \in signed
    /\ o = "timeout" => cancelled \/ now >= k.deadline

LEMMA ResolvedOK ==
  ASSUME IndInv, NEW c \in Calls, Asking(calls[c]),
         NEW o \in {"approve", "deny", "timeout", "error"},
         o = "approve" => <<c, "approve">> \in signed /\ now <= calls[c].deadline,
         o = "deny" => <<c, "deny">> \in signed,
         o = "timeout" => cancelled \/ now >= calls[c].deadline
  PROVE  /\ Resolved(c, o) \in CallState /\ CallOK(c, Resolved(c, o), now)
         /\ Settled(c, Resolved(c, o), calls[c]) /\ SameVerdict(Resolved(c, o), calls[c])
<1> USE DEF IndInv
<1> DEFINE k == calls[c]
           r == Recorded(k, <<o>>)
           pc == IF o = "approve" THEN "ran" ELSE "refused"
           n == Resolved(c, o)
<1>1. k \in CallState /\ StageOf(k, now) /\ VerdictOf(c, k) /\ FreshOf(c, k, now)
  BY DEF CallOK
<1>2. o \in Event
  BY DEF Event
<1>3. n = Ended(r, pc) /\ pc \in {"ran", "refused"}
  BY DEF Resolved
<1>4. Asking(k)
  OBVIOUS
<1> HIDE DEF k, n
<1>5. /\ r \in CallState /\ Range(r.trail) = Range(k.trail) \cup {o}
      /\ SameVerdict(r, k) /\ r.deadline = k.deadline
  BY <1>1, <1>2, RecordedFields DEF SameVerdict
<1> HIDE DEF r, pc
<1>6. /\ n \in CallState /\ Range(n.trail) = Range(k.trail) \cup {o} /\ n.pc = pc
      /\ SameVerdict(n, k) /\ n.deadline = k.deadline
  BY <1>3, <1>5, EndedFields DEF SameVerdict
<1>7. Settled(c, n, k)
  BY <1>6 DEF Settled, pc, k
<1>8. /\ n.arrived = k.arrived /\ n.layer = k.layer /\ n.readings = k.readings
      /\ n.stamps = k.stamps /\ n.severity = k.severity /\ n.intended = k.intended
  BY <1>6 DEF SameVerdict
<1>9. StageOf(n, now)
  <2>1. "decided" \in Range(n.trail) <=> "decided" \in Range(k.trail)
    BY <1>6
  <2> QED BY <1>1, <1>3, <1>6, <1>8, <2>1 DEF StageOf, Evaluating, Asking
<1>10. VerdictOf(c, n)
  <2>1. n.severity < SeverityDeny
    BY <1>1, <1>4, <1>8 DEF StageOf, SeverityHold, SeverityDeny
  <2> QED BY <1>1, <1>3, <1>4, <1>6, <1>8, <2>1
          DEF VerdictOf, Followed, FailedAt, Evaluating, Asking
<1>11. FreshOf(c, n, now)
  BY <1>1, <1>3, <1>6, <1>8 DEF FreshOf
<1> QED BY <1>6, <1>7, <1>9, <1>10, <1>11 DEF CallOK, n, k

\* A held call that goes on waiting.
LEMMA WaitingOK ==
  ASSUME IndInv, NEW c \in Calls, Asking(calls[c]), NEW n \in CallState,
         n.pc \in {"post", "wait"}, SameVerdict(n, calls[c]), n.trail = calls[c].trail
  PROVE  CallOK(c, n, now)
<1> USE DEF IndInv
<1> DEFINE k == calls[c]
<1>1. k \in CallState /\ StageOf(k, now) /\ VerdictOf(c, k) /\ FreshOf(c, k, now)
  BY DEF CallOK
<1>2. Asking(k) /\ SameVerdict(n, k) /\ n.trail = k.trail
  OBVIOUS
<1> HIDE DEF k
<1>3. StageOf(n, now)
  BY <1>1, <1>2 DEF StageOf, SameVerdict, Evaluating, Asking
<1>4. VerdictOf(c, n)
  BY <1>1, <1>2 DEF VerdictOf, SameVerdict, Followed, FailedAt, Evaluating, Asking
<1>5. FreshOf(c, n, now)
  BY <1>1, <1>2 DEF FreshOf, SameVerdict
<1> QED BY <1>3, <1>4, <1>5 DEF CallOK

ApprovalStep(c) ==
  (\E r \in Replies : Reply(c, r)) \/ RequestFails(c) \/ Deadline(c) \/ Poll(c)

LEMMA ApprovalEffect ==
  ASSUME IndInv, NEW c \in Calls, ApprovalStep(c)
  PROVE  /\ Asking(calls[c])
         /\ UNCHANGED <<session, now, entries, hits, monitor, signed, cancelled>>
         /\ \E n \in CallState :
              /\ calls' = [calls EXCEPT ![c] = n] /\ CallOK(c, n, now) /\ SameVerdict(n, calls[c])
              /\ \/ n.pc \in {"post", "wait"} /\ n.trail = calls[c].trail
                 \/ Settled(c, n, calls[c])
<1> USE DEF IndInv
<1> DEFINE k == calls[c]
           Goal == \E n \in CallState :
              /\ calls' = [calls EXCEPT ![c] = n] /\ CallOK(c, n, now) /\ SameVerdict(n, calls[c])
              /\ \/ n.pc \in {"post", "wait"} /\ n.trail = calls[c].trail
                 \/ Settled(c, n, calls[c])
<1>1. k \in CallState
  OBVIOUS
<1>2. /\ Asking(k)
      /\ UNCHANGED <<session, now, entries, hits, monitor, signed, cancelled>>
  BY DEF ApprovalStep, Reply, RequestFails, Deadline, Poll, Asking
<1>3. ASSUME NEW o \in {"approve", "deny", "timeout", "error"},
             o = "approve" => <<c, "approve">> \in signed /\ now <= k.deadline,
             o = "deny" => <<c, "deny">> \in signed,
             o = "timeout" => cancelled \/ now >= k.deadline,
             calls' = [calls EXCEPT ![c] = Resolved(c, o)]
      PROVE  Goal
  BY <1>2, <1>3, ResolvedOK
<1>4. ASSUME calls' = [calls EXCEPT ![c] = Resolved(c, failClosed(c))] PROVE Goal
  <2>1. failClosed(c) \in {"timeout", "error"} /\ (failClosed(c) = "timeout" => Done(c))
    BY DEF failClosed
  <2>2. Done(c) => cancelled \/ now >= k.deadline
    BY DEF Done
  <2> DEFINE o == failClosed(c)
  <2> HIDE DEF o, Goal
  <2> QED BY <1>3, <1>4, <2>1, <2>2 DEF o
<1>5. ASSUME NEW r \in Replies, Reply(c, r) PROVE Goal
  <2>1. /\ now <= k.deadline
        /\ calls' = [calls EXCEPT ![c] =
             CASE ~verifyReply(c, r) -> Resolved(c, failClosed(c))
               [] verifyReply(c, r) /\ r.decision \in {"approve", "deny"} -> Resolved(c, r.decision)
               [] verifyReply(c, r) /\ r.decision = "pending" -> [@ EXCEPT !.pc = "wait", !.since = now]
               [] OTHER -> Resolved(c, "error")]
    BY <1>5 DEF Reply
  <2>2. /\ r.decision \in {"approve", "deny", "pending", "other"}
        /\ r.signature \in signed \cup {<<"none", "none">>}
    BY DEF Replies
  <2>3. CASE ~verifyReply(c, r)
    <3>1. calls' = [calls EXCEPT ![c] = Resolved(c, failClosed(c))]
      BY <2>1, <2>3
    <3> QED BY <1>4, <3>1
  <2>4. CASE verifyReply(c, r) /\ r.decision \in {"approve", "deny"}
    <3>1. calls' = [calls EXCEPT ![c] = Resolved(c, r.decision)]
      BY <2>1, <2>4
    <3>2. r.signature = <<c, r.decision>>
      BY <2>4 DEF verifyReply
    <3>3. <<c, r.decision>> # <<"none", "none">>
      BY <2>4
    <3>4. <<c, r.decision>> \in signed
      BY <2>2, <3>2, <3>3
    <3> DEFINE o == r.decision
    <3>5. o \in {"approve", "deny"} /\ <<c, o>> \in signed
      BY <2>4, <3>4
    <3> HIDE DEF o, Goal
    <3> QED BY <1>3, <2>1, <3>1, <3>5 DEF o
  <2>5. CASE verifyReply(c, r) /\ r.decision = "pending"
    <3> DEFINE n == [k EXCEPT !.pc = "wait", !.since = now]
    <3>1. calls' = [calls EXCEPT ![c] = n]
      BY <2>1, <2>5
    <3>2. n \in CallState /\ n.pc = "wait" /\ SameVerdict(n, k) /\ n.trail = k.trail
      BY <1>1 DEF CallState, SameVerdict
    <3> HIDE DEF n
    <3>3. CallOK(c, n, now)
      BY <1>2, <3>2, WaitingOK
    <3> QED BY <3>1, <3>2, <3>3
  <2>6. CASE verifyReply(c, r) /\ r.decision = "other"
    <3>1. calls' = [calls EXCEPT ![c] = Resolved(c, "error")]
      BY <2>1, <2>6
    <3> HIDE DEF Goal
    <3> QED BY <1>3, <3>1
  <2> HIDE DEF Goal
  <2> QED BY <2>2, <2>3, <2>4, <2>5, <2>6
<1>6. ASSUME RequestFails(c) \/ Deadline(c) PROVE Goal
  <2>1. calls' = [calls EXCEPT ![c] = Resolved(c, failClosed(c))]
    BY <1>6 DEF RequestFails, Deadline
  <2> QED BY <1>4, <2>1
<1>7. ASSUME Poll(c) PROVE Goal
  <2> DEFINE n == [k EXCEPT !.pc = "post"]
  <2>1. calls' = [calls EXCEPT ![c] = n]
    BY <1>7 DEF Poll
  <2>2. n \in CallState /\ n.pc = "post" /\ SameVerdict(n, k) /\ n.trail = k.trail
    BY <1>1 DEF CallState, SameVerdict
  <2> HIDE DEF n
  <2>3. CallOK(c, n, now)
    BY <1>2, <2>2, WaitingOK
  <2> QED BY <2>1, <2>2, <2>3
<1>8. Goal
  <2> HIDE DEF Goal
  <2> QED BY <1>5, <1>6, <1>7 DEF ApprovalStep
<1> QED BY <1>2, <1>8

LEMMA ApprovalInv ==
  ASSUME IndInv, NEW c \in Calls, ApprovalStep(c)
  PROVE  IndInv'
<1>1. PICK n \in CallState : calls' = [calls EXCEPT ![c] = n] /\ CallOK(c, n, now)
  BY ApprovalEffect
<1>2. UNCHANGED <<session, now, entries, hits, monitor, signed, cancelled>>
  BY ApprovalEffect
<1> QED BY <1>1, <1>2, CallStep DEF IndInv

LEMMA NextInv == IndInv /\ [Next]_vars => IndInv'
<1> SUFFICES ASSUME IndInv, [Next]_vars PROVE IndInv'
  OBVIOUS
<1>1. CASE UNCHANGED vars
  BY <1>1, Carry DEF vars, IndInv
<1>2. ASSUME NEW c \in Calls,
             Arrive(c) \/ Read(c) \/ Store(c) \/ Stamp(c) \/ Limit(c) \/ ApprovalStep(c) \/ Approver(c)
      PROVE  IndInv'
  BY <1>2, ArriveInv, ReadInv, StoreInv, StampInv, LimitInv, ApprovalInv, WorldInv
<1>3. CASE RefreshStarts \/ RefreshRead \/ RefreshStore \/ RefreshEnds
  BY <1>3, RefreshInv
<1>4. CASE Cancel \/ Tick
  BY <1>4, WorldInv, TickInv
<1> QED BY <1>1, <1>2, <1>3, <1>4 DEF Next, ApprovalStep

LEMMA SpecInv == Spec => []IndInv
BY InitInv, NextInv, PTL DEF Spec

-----------------------------------------------------------------------------
(* Readings and verdicts.                                                   *)

\* No call reads a signal that is then older than its TTL and the time a probe takes at the
\* server, or its own probe took on the wire, or, where the TTL is zero, that was not probed
\* after the call came in (signalCache.Read, Refresh).
THEOREM FreshReadings == Spec => []ReadingsAreFresh
<1>1. IndInv => ReadingsAreFresh
  BY DEF IndInv, CallOK, FreshOf, IsFresh, Lag, ReadingsAreFresh
<1> QED BY <1>1, SpecInv, PTL

LEMMA InvTypeOK == IndInv => TypeOK
<1> SUFFICES ASSUME IndInv PROVE TypeOK
  OBVIOUS
<1> USE DEF IndInv
<1>1. \A l \in DOMAIN entries : \A id \in DOMAIN entries[l] :
        /\ entries[l][id].status \in Status
        /\ entries[l][id].sampled <= entries[l][id].readAt /\ entries[l][id].readAt <= now
  BY DEF CacheOK, EntryOK, Entry
<1>2. \A l \in DOMAIN hits : \A i \in DOMAIN hits[l] : hits[l][i] \in Seq(Epoch .. now)
  BY DEF HitsOK
<1>3. ASSUME NEW c \in Calls
      PROVE  LET k == calls[c] IN
             /\ k.pc \in {"out", "read", "probe", "limit", "post", "wait", "ran", "refused"}
             /\ k.layer \in 1 .. Len(here.docs) + 1 /\ k.stamps \in Seq(Nat)
             /\ k.probe.status \in Status /\ k.readings \subseteq Reading
             /\ k.severity \in Severity /\ k.intended \in Severity /\ k.severity <= k.intended
             /\ k.trail \in Seq(Event)
  <2> DEFINE k == calls[c]
  <2>1. k \in CallState /\ StageOf(k, now) /\ VerdictOf(c, k)
    BY DEF CallOK
  <2> HIDE DEF k
  <2>2. k.layer \in 1 .. Len(here.docs) + 1 /\ k.severity <= k.intended
    BY <2>1 DEF StageOf, VerdictOf, NDocs
  <2>3. /\ k.pc \in {"out", "read", "probe", "limit", "post", "wait", "ran", "refused"}
        /\ k.stamps \in Seq(Nat) /\ k.probe.status \in Status /\ k.readings \subseteq Reading
        /\ k.severity \in Severity /\ k.intended \in Severity /\ k.trail \in Seq(Event)
    BY <2>1 DEF CallState, Probe
  <2> QED BY <2>2, <2>3 DEF k
<1>4. session \in DOMAIN Points /\ monitor.pc \in {"idle", "scan", "probe"}
  BY DEF Config, MonitorOK
<1>5. signed \subseteq (Calls \X {"approve", "deny"})
  BY DEF SignedOK
<1> QED BY <1>1, <1>2, <1>3, <1>4, <1>5 DEF TypeOK

\* A call that is decided has followed every engine.
LEMMA DecidedFollowed ==
  ASSUME IndInv, NEW c \in Calls, Decided(c), NEW l \in 1 .. NDocs
  PROVE  Followed(c, calls[c], l) /\ \A id : ReadFailing(c, id) => FailedAt(calls[c], l, id)
<1>1. StageOf(calls[c], now) /\ VerdictOf(c, calls[c])
  BY DEF IndInv, CallOK
<1>2. calls[c].layer = NDocs + 1 /\ NDocs \in Nat
  BY <1>1, HereFacts DEF StageOf, Decided, IndInv
<1>3. l < calls[c].layer
  BY <1>2
<1> QED BY <1>1, <1>3 DEF VerdictOf, ReadFailing, FailedAt

LEMMA InvNarrow == IndInv => NarrowRulePrevails
<1> SUFFICES ASSUME IndInv, NEW c \in Calls, Decided(c), NEW l \in DOMAIN engines
             PROVE  LET naming(id) == {r \in Range(engines[l].rules) :
                                         matches(r, Subject(c)) /\ Narrow(r) /\ id \in r.require}
                    IN \A id \in DOMAIN engines[l].ttl : naming(id) # {} /\ ReadFailing(c, id) =>
                         calls[c].intended >= Min({r.onFail : r \in naming(id)})
  BY DEF NarrowRulePrevails
<1> USE DEF IndInv
<1> DEFINE naming(id) == {r \in Range(engines[l].rules) :
                            matches(r, Subject(c)) /\ Narrow(r) /\ id \in r.require}
           a == attributed(engines[l], Subject(c))
<1>1. l \in 1 .. NDocs
  BY EnginesAreLayers
<1>2. ASSUME NEW id \in DOMAIN engines[l].ttl, naming(id) # {}, ReadFailing(c, id)
      PROVE  calls[c].intended >= Min({r.onFail : r \in naming(id)})
  <2>1. /\ engines[l].rules \in Seq(Range(engines[l].rules))
        /\ \A r \in Range(engines[l].rules) : r.onFail \in Severity
    BY <1>1, EngineFacts
  <2>2. PICK q \in naming(id) : TRUE
    BY <1>2
  <2>3. q \in Range(engines[l].rules) /\ Claims(q, Subject(c), id) /\ specificity(q) = 3
    BY NarrowIsMostSpecific DEF Claims
  <2>4. /\ id \in DOMAIN a
        /\ \E r \in Range(engines[l].rules) :
             /\ Claims(r, Subject(c), id)
             /\ a[id] = [severity |-> r.onFail, specificity |-> specificity(r)]
        /\ \A r \in Range(engines[l].rules) :
             Claims(r, Subject(c), id) => specificity(r) <= a[id].specificity
    BY <2>1, <2>3, AttributionIsMostSpecific
  <2> HIDE DEF a
  <2>5. PICK r \in Range(engines[l].rules) :
          /\ Claims(r, Subject(c), id)
          /\ a[id] = [severity |-> r.onFail, specificity |-> specificity(r)]
    BY <2>4
  <2>6. specificity(r) \in 0 .. 3 /\ 3 <= specificity(r)
    BY <2>3, <2>4, <2>5, NarrowIsMostSpecific
  <2>7. r \in naming(id)
    BY <2>5, <2>6, NarrowIsMostSpecific DEF Claims
  <2>8. calls[c].intended >= r.onFail
    <3>1. Followed(c, calls[c], l) /\ FailedAt(calls[c], l, id)
      BY <1>1, <1>2, DecidedFollowed
    <3>2. calls[c].intended >= a[id].severity
      BY <2>4, <3>1 DEF Followed, a
    <3> QED BY <2>5, <3>2
  <2> DEFINE sev == {x.onFail : x \in naming(id)}
  <2>9. sev \in SUBSET Nat /\ sev # {} /\ r.onFail \in sev
    BY <2>1, <2>7 DEF Severity, SeverityAllow, SeverityKill
  <2>10. Min(sev) \in sev /\ Min(sev) <= r.onFail
    <3> HIDE DEF sev
    <3> QED BY <2>9, MinOf
  <2>11. Min(sev) \in Nat /\ r.onFail \in Nat /\ calls[c].intended \in Nat
    <3>1. calls[c] \in CallState
      OBVIOUS
    <3>2. calls[c].intended \in Severity
      BY <3>1 DEF CallState
    <3>3. calls[c].intended \in Nat
      BY <3>2 DEF Severity, SeverityAllow, SeverityKill
    <3> HIDE DEF sev
    <3>4. Min(sev) \in Nat /\ r.onFail \in Nat
      BY <2>9, <2>10
    <3> QED BY <3>3, <3>4
  <2> QED BY <2>8, <2>10, <2>11
<1> QED BY <1>2

LEMMA InvLayers == IndInv => LayersOnlyNarrow
<1> SUFFICES ASSUME IndInv, NEW c \in Calls, Decided(c), NEW d \in Range(here.docs),
                    NEW id \in DOMAIN attributed(d, Subject(c)), ReadFailing(c, id)
             PROVE  calls[c].severity >= clamp(d.mode, attributed(d, Subject(c))[id].severity)
  BY DEF LayersOnlyNarrow
<1> USE DEF IndInv
<1>1. PICK l \in 1 .. NDocs : d = here.docs[l]
  BY HereFacts DEF Range
<1> DEFINE a == attributed(engines[l], Subject(c))
<1>2. engines[l].rules = d.rules /\ engines[l].mode \in {"audit", "enforce"}
      /\ (d.mode = "enforce" => engines[l].mode = "enforce")
  BY <1>1, EnginesAreLayers
<1>3. attributed(d, Subject(c)) = a
  BY <1>2 DEF attributed
<1>4. a[id].severity \in Severity /\ id \in DOMAIN a
  BY <1>3, RequiredFacts
<1>5. Followed(c, calls[c], l) /\ FailedAt(calls[c], l, id)
  BY DecidedFollowed
<1>6. calls[c].severity >= clamp(engines[l].mode, a[id].severity)
  BY <1>4, <1>5 DEF Followed
<1>7. d.mode \in {"audit", "enforce"}
  BY DEF Config, Validate
<1> HIDE DEF a
<1>8. /\ clamp(engines[l].mode, a[id].severity) >= clamp(d.mode, a[id].severity)
      /\ clamp(engines[l].mode, a[id].severity) \in Severity
      /\ clamp(d.mode, a[id].severity) \in Severity
  BY <1>2, <1>4, <1>7, ClampFacts
<1>9. calls[c].severity \in Severity
  <2>1. calls[c] \in CallState
    OBVIOUS
  <2> QED BY <2>1 DEF CallState
<1>10. calls[c].severity >= clamp(d.mode, a[id].severity)
  BY <1>6, <1>8, <1>9 DEF Severity, SeverityAllow, SeverityKill
<1> QED BY <1>3, <1>10

\* The context the rules see is that of the request, but for null at the server.
LEMMA ContextFails ==
  ASSUME Config, NEW c \in Calls, NEW r, Misfits(here.requests[c], r),
         here.point = "wire" \/ here.requests[c].arg.kind # "null"
  PROVE  constraintFails(r, Subject(c).arg)
<1> DEFINE q == here.requests[c]
           a == callArguments(here.point, q)
<1>1. Subject(c).arg = a
  BY Zenon DEF Subject, Subjects, subjectFor, here, Config, Calls
<1>2. q.arg.kind # "nil"
  BY EnforceConstants DEF here, Config, Calls, Points, Range
<1>3. here.point \in {"server", "wire"}
  BY HereFacts
<1>4. \/ a = q.arg /\ q.arg.kind # "null" /\ q.readable
      \/ a = [kind |-> "absent", within |-> FALSE]
  BY <1>3 DEF callArguments, Misfits
<1> HIDE DEF a, q
<1>5. CASE a = [kind |-> "absent", within |-> FALSE]
  BY <1>1, <1>5 DEF constraintFails, Misfits
<1>6. CASE a = q.arg /\ q.arg.kind # "null" /\ q.readable
  BY <1>1, <1>2, <1>6 DEF constraintFails, Misfits, q
<1> QED BY <1>4, <1>5, <1>6

LEMMA InvConstraints == IndInv => ConstraintsCount
<1> SUFFICES ASSUME IndInv, NEW c \in Calls, Decided(c), NEW l \in DOMAIN engines,
                    NEW r \in Range(engines[l].rules),
                    matches(r, Subject(c)), Misfits(here.requests[c], r),
                    here.point = "wire" \/ here.requests[c].arg.kind # "null"
             PROVE  calls[c].intended >= r.onFail
  BY DEF ConstraintsCount
<1>1. Config
  BY DEF IndInv
<1>2. l \in 1 .. NDocs
  BY <1>1, EnginesAreLayers
<1>3. Followed(c, calls[c], l)
  BY <1>2, DecidedFollowed
<1>4. Forbids(c, r)
  BY <1>1, ContextFails DEF Forbids
<1> QED BY <1>3, <1>4 DEF Followed

\* Every verdict follows the documents: the most specific rule has a signal, no layer takes
\* back what another demands, arguments that do not meet a constraint count, and a session
\* in audit mode refuses nothing that can be read (Engine.Evaluate, Compose, MaxVerdict, Middleware).
THEOREM Verdicts == Spec => []VerdictsFollow
<1>1. IndInv => AuditModeRefusesNothing
  BY DEF IndInv, CallOK, VerdictOf, AllAudit, AuditModeRefusesNothing
<1>2. IndInv => VerdictsFollow
  BY <1>1, InvTypeOK, InvNarrow, InvLayers, InvConstraints DEF VerdictsFollow
<1> QED BY <1>2, SpecInv, PTL

-----------------------------------------------------------------------------
(* What is recorded of an approval.                                         *)

\* Reading and storing a signal settle nothing.
LEMMA ReadEffect ==
  ASSUME IndInv, NEW c \in Calls, Read(c) \/ Store(c)
  PROVE  /\ calls[c].pc \in {"read", "probe"}
         /\ UNCHANGED <<session, now, hits, signed, cancelled>>
         /\ \E n \in CallState :
              /\ calls' = [calls EXCEPT ![c] = n] /\ n.pc \in {"read", "probe"}
              /\ n.layer = calls[c].layer /\ n.stamps = calls[c].stamps
              /\ n.overtaken = calls[c].overtaken /\ n.severity = calls[c].severity
              /\ n.trail = calls[c].trail
<1> DEFINE k == calls[c]
<1>1. k \in CallState /\ calls \in [Calls -> CallState] /\ IndInv'
  BY ReadInv, StoreInv DEF IndInv
<1>2. Calls' = Calls /\ UNCHANGED <<session, now, hits, signed, cancelled>>
  BY DEF Calls, here, Read, Store
<1>3. calls' \in [Calls -> CallState]
  BY <1>1, <1>2 DEF IndInv
<1>4. ASSUME NEW l, NEW id, NEW e
      PROVE  LET n == Sampled(k, l, id, e) IN
             /\ n.pc = "read" /\ n.layer = k.layer /\ n.stamps = k.stamps
             /\ n.overtaken = k.overtaken /\ n.severity = k.severity /\ n.trail = k.trail
  BY <1>1 DEF Sampled, CallState
<1>5. CASE Read(c)
  <2> DEFINE id == Min(k.todo)
             e == entries[k.layer][id]
  <2>1. k.pc = "read" /\ monitor' = monitor
    BY <1>5 DEF Read
  <2>2. \/ \E p : calls' = [calls EXCEPT ![c].pc = "probe", ![c].probe = p]
        \/ calls' = [calls EXCEPT ![c] = Sampled(k, k.layer, id, e)]
    BY <1>5 DEF Read
  <2>3. CASE \E p : calls' = [calls EXCEPT ![c].pc = "probe", ![c].probe = p]
    <3>1. PICK p : calls' = [calls EXCEPT ![c].pc = "probe", ![c].probe = p]
      BY <2>3
    <3>2. calls' = [calls EXCEPT ![c] = [k EXCEPT !.pc = "probe", !.probe = p]]
      BY <3>1
    <3> DEFINE n == calls'[c]
    <3>3. n \in CallState /\ n = [k EXCEPT !.pc = "probe", !.probe = p]
      BY <1>1, <1>3, <3>2
    <3>4. /\ n.pc = "probe" /\ n.layer = k.layer /\ n.stamps = k.stamps
          /\ n.overtaken = k.overtaken /\ n.severity = k.severity /\ n.trail = k.trail
      BY <1>1, <3>3 DEF CallState
    <3> HIDE DEF n
    <3> QED BY <1>2, <2>1, <3>2, <3>3, <3>4
  <2>4. CASE calls' = [calls EXCEPT ![c] = Sampled(k, k.layer, id, e)]
    <3> DEFINE n == Sampled(k, k.layer, id, e)
    <3>1. n = calls'[c] /\ n \in CallState
      BY <1>1, <1>3, <2>4
    <3>2. /\ n.pc = "read" /\ n.layer = k.layer /\ n.stamps = k.stamps
          /\ n.overtaken = k.overtaken /\ n.severity = k.severity /\ n.trail = k.trail
      BY <1>4
    <3> HIDE DEF n
    <3> QED BY <1>2, <2>1, <2>4, <3>1, <3>2 DEF n
  <2> QED BY <2>2, <2>3, <2>4
<1>6. CASE Store(c)
  <2> DEFINE n == Sampled(k, k.layer, k.probe.signal, Stored(k.probe))
  <2>1. k.pc = "probe" /\ calls' = [calls EXCEPT ![c] = n]
    BY <1>6 DEF Store
  <2>2. n = calls'[c] /\ n \in CallState
    BY <1>1, <1>3, <2>1
  <2>3. /\ n.pc = "read" /\ n.layer = k.layer /\ n.stamps = k.stamps
        /\ n.overtaken = k.overtaken /\ n.severity = k.severity /\ n.trail = k.trail
    BY <1>4
  <2> HIDE DEF n
  <2> QED BY <1>2, <1>6, <2>1, <2>2, <2>3
<1> QED BY <1>5, <1>6

\* Before an approval is settled nothing is recorded of its outcome.
Deliberates(c) == Arrive(c) \/ Read(c) \/ Store(c) \/ Stamp(c) \/ Limit(c)

LEMMA DeliberationEffect ==
  ASSUME IndInv, NEW c \in Calls, Deliberates(c)
  PROVE  /\ ~Held(c) /\ UNCHANGED <<session, now, signed, cancelled>>
         /\ \A d \in Calls : d # c => calls'[d] = calls[d]
         /\ "deny" \notin Range(calls'[c].trail) /\ "timeout" \notin Range(calls'[c].trail)
<1>0. calls \in [Calls -> CallState] /\ StageOf(calls[c], now)
  BY DEF IndInv, CallOK
<1>1. CASE Arrive(c)
  <2>1. PICK n \in CallState : calls' = [calls EXCEPT ![c] = n]
                               /\ Range(n.trail) \subseteq {"undecidable", "plan.required"}
    BY <1>1, ArriveEffect
  <2>2. calls[c].pc = "out" /\ UNCHANGED <<session, now, signed, cancelled>>
    BY <1>1, ArriveEffect
  <2> QED BY <1>0, <2>1, <2>2 DEF Held
<1>2. CASE Read(c) \/ Store(c)
  <2>1. PICK n \in CallState : calls' = [calls EXCEPT ![c] = n] /\ n.trail = calls[c].trail
    BY <1>2, ReadEffect
  <2>2. calls[c].pc \in {"read", "probe"} /\ UNCHANGED <<session, now, signed, cancelled>>
    BY <1>2, ReadEffect
  <2>3. Range(calls[c].trail) \subseteq {"plan.required"}
    BY <1>0, <2>2 DEF StageOf, Evaluating
  <2> QED BY <1>0, <2>1, <2>2, <2>3 DEF Held
<1>3. ASSUME NEW k \in CallState, Ready(c, k, now), NEW excess,
             EvaluatedTo(c, calls'[c], k, excess)
      PROVE  Range(calls'[c].trail) \subseteq {"plan.required", "decided", "kill", "requested"}
  <2>1. Range(k.trail) \subseteq {"plan.required"}
    BY <1>3 DEF Ready
  <2>2. \E v : /\ Range(v.trail) = Range(k.trail)
               /\ Range(calls'[c].trail) = Range(k.trail) \/ ActedOn(calls'[c], v)
    BY <1>3 DEF EvaluatedTo
  <2> QED BY <2>1, <2>2 DEF ActedOn
<1>4. CASE Stamp(c)
  <2> DEFINE k == calls[c]
             k0 == [k EXCEPT !.stamps = Append(@, 0)]
             n == [k EXCEPT !.pc = "limit", !.stamps = Append(@, now)]
  <2>1. k \in CallState /\ k.pc = "read" /\ UNCHANGED <<session, now, signed, cancelled>>
    BY <1>4, StampEffect
  <2>2. \/ /\ k0 \in CallState /\ Ready(c, k0, now)
           /\ EvaluatedTo(c, calls'[c], k0, SeverityAllow)
           /\ calls' = [calls EXCEPT ![c] = calls'[c]]
        \/ calls' = [calls EXCEPT ![c] = n] /\ n \in CallState /\ CallOK(c, n, now)
    BY <1>4, StampEffect
  <2>3. n.pc = "limit"
    BY <2>1 DEF CallState
  <2> HIDE DEF k0, n
  <2>4. CASE calls' = [calls EXCEPT ![c] = n] /\ n \in CallState /\ CallOK(c, n, now)
    <3>1. Range(n.trail) \subseteq {"plan.required"} /\ calls'[c] = n
      BY <1>0, <2>3, <2>4 DEF CallOK, StageOf, Evaluating
    <3> QED BY <1>0, <2>1, <2>4, <3>1 DEF Held
  <2>5. CASE /\ k0 \in CallState /\ Ready(c, k0, now)
             /\ EvaluatedTo(c, calls'[c], k0, SeverityAllow)
             /\ calls' = [calls EXCEPT ![c] = calls'[c]]
    <3>1. Range(calls'[c].trail) \subseteq {"plan.required", "decided", "kill", "requested"}
      BY <1>3, <2>5
    <3>2. \A d \in Calls : d # c => calls'[d] = calls[d]
      BY <1>0, <2>5
    <3> QED BY <2>1, <3>1, <3>2 DEF Held
  <2> QED BY <2>2, <2>4, <2>5
<1>5. CASE Limit(c)
  <2>1. calls[c].pc = "limit" /\ UNCHANGED <<session, now, signed, cancelled>>
    BY <1>5, LimitEffect
  <2>2. \E excess \in Severity, k1 \in CallState :
          /\ Ready(c, k1, now) /\ EvaluatedTo(c, calls'[c], k1, excess)
          /\ calls' = [calls EXCEPT ![c] = calls'[c]]
    BY <1>5, LimitEffect
  <2>3. Range(calls'[c].trail) \subseteq {"plan.required", "decided", "kill", "requested"}
    BY <1>3, <2>2
  <2>4. \A d \in Calls : d # c => calls'[d] = calls[d]
    BY <1>0, <2>2
  <2> QED BY <2>1, <2>3, <2>4 DEF Held
<1> QED BY <1>1, <1>2, <1>4, <1>5 DEF Deliberates

LEMMA OutcomeStep ==
  ASSUME IndInv, OutcomesAreTrue, [Next]_vars
  PROVE  OutcomesAreTrue' /\ NoUnapprovedRun
<1> USE DEF IndInv
<1>1. Calls' = Calls /\ session' = session
  <2>1. session' = session
    BY DEF Next, vars, Arrive, Read, Store, Stamp, Limit, Reply, RequestFails, Deadline, Poll,
           Approver, RefreshStarts, RefreshRead, RefreshStore, RefreshEnds, Cancel, Tick
  <2> QED BY <2>1 DEF Calls, here
<1> DEFINE True(c, k, sg, cn, t) ==
             /\ "deny" \in Range(k.trail) => <<c, "deny">> \in sg
             /\ "timeout" \in Range(k.trail) => cn \/ t >= k.deadline
           Kept0(c) == /\ True(c, calls'[c], signed', cancelled', now')
                       /\ Held(c) /\ calls'[c].pc = "ran" =>
                            <<c, "approve">> \in signed /\ now <= calls[c].deadline
<1>2. \A c \in Calls : True(c, calls[c], signed, cancelled, now)
  BY DEF OutcomesAreTrue
<1>3. SUFFICES \A c \in Calls : Kept0(c)
  BY <1>1, <1>3 DEF OutcomesAreTrue, NoUnapprovedRun
<1>4. ASSUME NEW c \in Calls, calls'[c] = calls[c], signed \subseteq signed',
             cancelled => cancelled', now' \in Nat, now <= now'
      PROVE  Kept0(c)
  <2>1. calls[c] \in CallState
    OBVIOUS
  <2>2. calls[c].deadline \in Nat
    BY <2>1 DEF CallState
  <2>3. True(c, calls'[c], signed', cancelled', now')
    BY <1>2, <1>4, <2>2
  <2> QED BY <1>4, <2>3 DEF Held
<1>5. ASSUME calls' = calls, signed \subseteq signed', cancelled => cancelled', now' \in Nat, now <= now'
      PROVE  \A c \in Calls : Kept0(c)
  <2> HIDE DEF Kept0
  <2> QED BY <1>4, <1>5
<1>6. CASE \/ UNCHANGED vars
           \/ RefreshStarts \/ RefreshRead \/ RefreshStore \/ RefreshEnds
           \/ \E d \in Calls : Approver(d)
  <2>1. calls' = calls /\ signed \subseteq signed' /\ now' = now /\ cancelled' = cancelled
    BY <1>6 DEF vars, RefreshStarts, RefreshRead, RefreshStore, RefreshEnds, Approver
  <2>2. now' \in Nat /\ now <= now'
    BY <2>1
  <2> HIDE DEF Kept0
  <2> QED BY <1>5, <2>1, <2>2
<1>7. CASE Cancel \/ Tick
  <2>1. calls' = calls /\ signed' = signed
    BY <1>7 DEF Cancel, Tick
  <2>2. now' \in Nat /\ now <= now'
    BY <1>7 DEF Cancel, Tick
  <2>3. cancelled' = TRUE \/ cancelled' = cancelled
    BY <1>7 DEF Cancel, Tick
  <2>4. cancelled => cancelled'
    BY <2>3
  <2> HIDE DEF Kept0
  <2> QED BY <1>5, <2>1, <2>2, <2>4
<1>8. ASSUME NEW d \in Calls, Deliberates(d) PROVE \A c \in Calls : Kept0(c)
  <2>1. /\ ~Held(d) /\ UNCHANGED <<session, now, signed, cancelled>>
        /\ \A c \in Calls : c # d => calls'[c] = calls[c]
        /\ "deny" \notin Range(calls'[d].trail) /\ "timeout" \notin Range(calls'[d].trail)
    BY <1>8, DeliberationEffect
  <2>2. Kept0(d)
    BY <2>1
  <2> HIDE DEF Kept0
  <2> QED BY <1>4, <2>1, <2>2
<1>9. ASSUME NEW d \in Calls, ApprovalStep(d) PROVE \A c \in Calls : Kept0(c)
  <2>1. Asking(calls[d]) /\ UNCHANGED <<session, now, signed, cancelled>>
    BY <1>9, ApprovalEffect
  <2>2. PICK n \in CallState :
          /\ calls' = [calls EXCEPT ![d] = n]
          /\ \/ n.pc \in {"post", "wait"} /\ n.trail = calls[d].trail
             \/ Settled(d, n, calls[d])
    BY <1>9, ApprovalEffect
  <2>3. calls'[d] = n /\ \A c \in Calls : c # d => calls'[c] = calls[c]
    BY <2>2
  <2>4. Range(calls[d].trail) \subseteq {"plan.required", "decided", "requested"}
    BY <2>1 DEF CallOK, StageOf
  <2>5. Kept0(d)
    <3>1. CASE n.pc \in {"post", "wait"} /\ n.trail = calls[d].trail
      BY <2>3, <2>4, <3>1
    <3>2. CASE Settled(d, n, calls[d])
      BY <2>1, <2>3, <2>4, <3>2 DEF Settled
    <3> QED BY <2>2, <3>1, <3>2
  <2> HIDE DEF Kept0
  <2> QED BY <1>4, <2>1, <2>3, <2>5
<1> HIDE DEF Kept0
<1> QED BY <1>6, <1>7, <1>8, <1>9 DEF Next, Deliberates, ApprovalStep

\* A held call runs only on the approver's signed word for that very request and in time, and
\* what is recorded of an approval is what happened (Await, verifyReply, failClosed).
THEOREM ApprovalsTrue == Spec => ApprovalsAreTrue
<1>1. Init => OutcomesAreTrue
  <2> SUFFICES ASSUME Init PROVE OutcomesAreTrue
    OBVIOUS
  <2>1. \A c \in Calls : calls[c].trail = <<>>
    BY DEF Init, Waiting
  <2>2. Range(<<>>) = {}
    BY DEF Range
  <2> QED BY <2>1, <2>2 DEF OutcomesAreTrue
<1>2. IndInv /\ OutcomesAreTrue /\ [Next]_vars => OutcomesAreTrue'
  BY OutcomeStep
<1>3. IndInv /\ OutcomesAreTrue /\ [Next]_vars => [OutcomesAreTrue' /\ NoUnapprovedRun]_vars
  BY OutcomeStep
<1> QED BY <1>1, <1>2, <1>3, SpecInv, PTL DEF Spec, ApprovalsAreTrue

-----------------------------------------------------------------------------
(* Rate limits.                                                             *)

\* The limiter of engine l has counted the call.
Counted(k, l) == Len(k.stamps) >= l /\ ~(k.pc = "limit" /\ k.layer = l)

Hitters(cs, l, i) ==
  {c \in Calls : matchesLimit(engines[l].limits[i].match, Subject(c)) /\ Counted(cs[c], l)}

\* Every call that was counted has a place of its own in the window, unless its stamp has
\* dropped out of it; the hit that made it drop out, or a later one, is there.
Placed(cs, h, l, i) ==
  \E S \in SUBSET Hitters(cs, l, i) : \E f \in [S -> 1 .. Len(h)] :
    /\ \A c \in S : h[f[c]] = cs[c].stamps[l]
    /\ \A c, d \in S : f[c] = f[d] => c = d
    /\ \A c \in Hitters(cs, l, i) \ S :
         \E j \in 1 .. Len(h) : cs[c].stamps[l] + engines[l].limits[i].window <= h[j]

\* The calls that may still run, and those of them in the window that ends at t.
Passing(cs, l, i) ==
  {c \in Hitters(cs, l, i) : ~cs[c].overtaken /\ cs[c].severity < SeverityDeny}

InWindow(cs, l, i, t) ==
  {d \in Passing(cs, l, i) : /\ cs[d].stamps[l] <= t
                             /\ cs[d].stamps[l] + engines[l].limits[i].window > t}

Refusing(l, i) == engines[l].mode = "enforce" /\ engines[l].limits[i].onExceed >= SeverityDeny

Bounded(cs, l, i) ==
  Refusing(l, i) => \A c \in Passing(cs, l, i) :
    /\ IsFiniteSet(InWindow(cs, l, i, cs[c].stamps[l]))
    /\ Cardinality(InWindow(cs, l, i, cs[c].stamps[l])) <= engines[l].limits[i].max

RateInv ==
  \A l \in 1 .. NDocs : \A i \in DOMAIN engines[l].limits :
    Placed(calls, hits[l][i], l, i) /\ Bounded(calls, l, i)

\* A step of a call at which no limiter of engine l counts it.
QuietCall(k, n, l) ==
  /\ Counted(n, l) <=> Counted(k, l)
  /\ Counted(k, l) => n.stamps[l] = k.stamps[l]
  /\ k.overtaken => n.overtaken
  /\ n.severity >= k.severity

LEMMA QuietStep ==
  ASSUME Config, NEW l \in 1 .. NDocs, NEW i \in DOMAIN engines[l].limits,
         NEW cs \in [Calls -> CallState], NEW ds \in [Calls -> CallState], NEW h,
         \A c \in Calls : matchesLimit(engines[l].limits[i].match, Subject(c)) =>
                            QuietCall(cs[c], ds[c], l),
         Placed(cs, h, l, i), Bounded(cs, l, i)
  PROVE  Placed(ds, h, l, i) /\ Bounded(ds, l, i)
<1>1. Hitters(ds, l, i) = Hitters(cs, l, i)
  BY DEF Hitters, QuietCall
<1>2. \A c \in Hitters(cs, l, i) :
        /\ c \in Calls /\ ds[c].stamps[l] = cs[c].stamps[l] /\ (cs[c].overtaken => ds[c].overtaken)
        /\ ds[c].severity >= cs[c].severity
  BY DEF Hitters, QuietCall
<1>3. Placed(ds, h, l, i)
  <2> DEFINE H == Hitters(cs, l, i)
             w == engines[l].limits[i].window
  <2>0. PICK S \in SUBSET H : \E f \in [S -> 1 .. Len(h)] :
          /\ \A c \in S : h[f[c]] = cs[c].stamps[l]
          /\ \A c, d \in S : f[c] = f[d] => c = d
          /\ \A c \in H \ S : \E j \in 1 .. Len(h) : cs[c].stamps[l] + w <= h[j]
    BY DEF Placed
  <2>1. PICK f \in [S -> 1 .. Len(h)] :
          /\ \A c \in S : h[f[c]] = cs[c].stamps[l]
          /\ \A c, d \in S : f[c] = f[d] => c = d
          /\ \A c \in H \ S : \E j \in 1 .. Len(h) : cs[c].stamps[l] + w <= h[j]
    BY <2>0
  <2> HIDE DEF H, w
  <2>2. /\ \A c \in S : h[f[c]] = ds[c].stamps[l]
        /\ \A c \in H \ S : \E j \in 1 .. Len(h) : ds[c].stamps[l] + w <= h[j]
    BY <1>2, <2>1 DEF H
  <2>3. H = Hitters(ds, l, i) /\ S \in SUBSET Hitters(ds, l, i)
    BY <1>1 DEF H
  <2>4. \E g \in [S -> 1 .. Len(h)] :
          /\ \A c \in S : h[g[c]] = ds[c].stamps[l]
          /\ \A c, d \in S : g[c] = g[d] => c = d
          /\ \A c \in Hitters(ds, l, i) \ S :
               \E j \in 1 .. Len(h) : ds[c].stamps[l] + engines[l].limits[i].window <= h[j]
    <3> WITNESS f \in [S -> 1 .. Len(h)]
    <3> QED BY <2>1, <2>2, <2>3 DEF w
  <2> QED BY ONLY <2>3, <2>4 DEF Placed
<1>4. \A c \in Calls : cs[c].severity \in 0 .. 4 /\ ds[c].severity \in 0 .. 4
  <2>1. \A k \in CallState : k.severity \in 0 .. 4
    BY DEF CallState, Severity, SeverityAllow, SeverityKill
  <2> QED BY <2>1
<1>5. Passing(ds, l, i) \subseteq Passing(cs, l, i)
  BY <1>1, <1>2, <1>4 DEF Passing, SeverityDeny
<1>6. \A t : InWindow(ds, l, i, t) \subseteq InWindow(cs, l, i, t)
  BY <1>2, <1>5 DEF InWindow, Passing
<1>7. ASSUME Refusing(l, i), NEW c \in Passing(ds, l, i)
      PROVE  /\ IsFiniteSet(InWindow(ds, l, i, ds[c].stamps[l]))
             /\ Cardinality(InWindow(ds, l, i, ds[c].stamps[l])) <= engines[l].limits[i].max
  <2> DEFINE t == cs[c].stamps[l]
             V == InWindow(cs, l, i, t)
             W == InWindow(ds, l, i, t)
  <2>1. c \in Passing(cs, l, i) /\ ds[c].stamps[l] = t
    BY <1>2, <1>5 DEF Passing
  <2>2. IsFiniteSet(V) /\ Cardinality(V) <= engines[l].limits[i].max
    BY <1>7, <2>1 DEF Bounded
  <2>3. W \subseteq V
    BY <1>6
  <2>4. engines[l].limits[i].max \in Nat
    BY EngineFacts
  <2> HIDE DEF V, W
  <2>5. IsFiniteSet(W) /\ Cardinality(W) <= Cardinality(V) /\ Cardinality(W) \in Nat
        /\ Cardinality(V) \in Nat
    BY <2>2, <2>3, FS_Subset, FS_CardinalityType
  <2>6. IsFiniteSet(W) /\ Cardinality(W) <= engines[l].limits[i].max
    BY <2>2, <2>4, <2>5
  <2> QED BY <2>1, <2>6 DEF W
<1> QED BY <1>3, <1>7 DEF Bounded

\* The places of a history: as many as it is long.
LEMMA IntervalSize ==
  ASSUME NEW n \in Nat
  PROVE  IsFiniteSet(1 .. n) /\ Cardinality(1 .. n) = n
BY FS_Interval

\* The limiter counts one call: it has a place, whoever drops out does so for good, and when
\* nothing overtook it the calls of its window that may run have places next to it.
LEMMA CountStep ==
  ASSUME Config, NEW l \in 1 .. NDocs, NEW i \in DOMAIN engines[l].limits,
         NEW cs \in [Calls -> CallState], NEW ds \in [Calls -> CallState], NEW c \in Calls,
         \A d \in Calls : d # c => ds[d] = cs[d],
         matchesLimit(engines[l].limits[i].match, Subject(c)),
         NEW h \in Seq(Nat), NEW stamp \in Nat, ds[c].stamps[l] = stamp,
         ~Counted(cs[c], l), Counted(ds[c], l), NEW h2,
         h2 = Kept(h, stamp, engines[l].limits[i].window),
         ~ds[c].overtaken => \A j \in 1 .. Len(h) : h[j] <= stamp,
         Refusing(l, i) /\ ds[c].severity < SeverityDeny => Len(h2) <= engines[l].limits[i].max,
         Placed(cs, h, l, i), Bounded(cs, l, i)
  PROVE  Placed(ds, h2, l, i) /\ Bounded(ds, l, i)
<1> DEFINE w == engines[l].limits[i].window
           H == Hitters(cs, l, i)
           J == Surviving(h, stamp, w, Len(h))
<1>1. w \in Nat /\ w > 0 /\ engines[l].limits[i].max \in Nat
  BY EngineFacts
<1>2. /\ h2 \in Seq(Nat) /\ Len(h2) >= 1 /\ h2[Len(h2)] = stamp
      /\ \E g : Places(g, h2, h, J) /\ \A j \in J : g[j] # Len(h2)
  <2> DEFINE T == Nat
  <2>1. T \in SUBSET Nat /\ h \in Seq(T) /\ stamp \in T /\ w \in Nat /\ h2 = Kept(h, stamp, w)
    BY <1>1
  <2> HIDE DEF w, T
  <2> DEFINE kept == Kept(h, stamp, w)
  <2>2. /\ kept \in Seq(T) /\ Len(kept) >= 1 /\ kept[Len(kept)] = stamp
        /\ \E g : Places(g, kept, h, J) /\ \A j \in J : g[j] # Len(kept)
    BY <2>1, KeptFacts
  <2> HIDE DEF kept, J
  <2>3. h2 = kept
    BY <2>1 DEF kept
  <2> QED BY <2>2, <2>3 DEF T
<1>3. PICK g : Places(g, h2, h, J) /\ \A j \in J : g[j] # Len(h2)
  BY <1>2
<1>4. PICK S \in SUBSET H : \E f \in [S -> 1 .. Len(h)] :
        /\ \A d \in S : h[f[d]] = cs[d].stamps[l]
        /\ \A d, e \in S : f[d] = f[e] => d = e
        /\ \A d \in H \ S : \E j \in 1 .. Len(h) : cs[d].stamps[l] + w <= h[j]
  BY DEF Placed
<1>5. PICK f \in [S -> 1 .. Len(h)] :
        /\ \A d \in S : h[f[d]] = cs[d].stamps[l]
        /\ \A d, e \in S : f[d] = f[e] => d = e
        /\ \A d \in H \ S : \E j \in 1 .. Len(h) : cs[d].stamps[l] + w <= h[j]
  BY <1>4
<1>6. Hitters(ds, l, i) = H \cup {c} /\ c \notin H
  BY DEF Hitters
<1>7. ASSUME NEW d \in H
      PROVE  d \in Calls /\ d # c /\ ds[d] = cs[d] /\ cs[d].stamps[l] \in Nat
  <2>1. d \in Calls /\ d # c /\ Counted(cs[d], l)
    BY <1>6 DEF Hitters
  <2>2. cs[d].stamps \in Seq(Nat)
    BY <2>1 DEF CallState
  <2>3. l \in 1 .. Len(cs[d].stamps)
    BY <2>1, <2>2, HereFacts DEF Counted
  <2>4. cs[d].stamps[l] \in Nat
    BY <2>2, <2>3, ElementOfSeq
  <2> QED BY <2>1, <2>4
<1>8. /\ \A j \in 1 .. Len(h) : h[j] \in Nat
      /\ \A j \in 1 .. Len(h2) : h2[j] \in Nat
      /\ Len(h) \in Nat /\ Len(h2) \in Nat
  BY <1>2, ElementOfSeq, LenProperties
<1>9. /\ \A j \in J : j \in 1 .. Len(h) /\ g[j] \in 1 .. Len(h2) /\ h2[g[j]] = h[j] /\ g[j] # Len(h2)
      /\ \A j1, j2 \in J : g[j1] = g[j2] => j1 = j2
      /\ \A j \in 1 .. Len(h) : j \in J <=> h[j] + w > stamp
  BY <1>3 DEF Places, Surviving
<1> HIDE DEF J, H, w
<1> DEFINE S2 == {d \in S : f[d] \in J} \cup {c}
           f2 == [d \in S2 |-> IF d = c THEN Len(h2) ELSE g[f[d]]]
<1>10. /\ S2 \in SUBSET (H \cup {c}) /\ \A d \in S : d # c
  BY <1>7
<1>11. ASSUME NEW d \in S2 PROVE f2[d] \in 1 .. Len(h2) /\ h2[f2[d]] = ds[d].stamps[l]
  <2>1. CASE d = c
    <3>1. f2[d] = Len(h2)
      BY <2>1
    <3> QED BY <1>2, <1>8, <2>1, <3>1
  <2>2. CASE d # c
    <3>1. d \in S /\ f[d] \in J /\ f2[d] = g[f[d]]
      BY <1>10, <2>2
    <3>2. h[f[d]] = cs[d].stamps[l] /\ ds[d] = cs[d]
      BY <1>5, <1>7, <3>1
    <3> QED BY ONLY <1>9, <3>1, <3>2
  <2> QED BY <2>1, <2>2
<1>12. \A d, e \in S2 : f2[d] = f2[e] => d = e
  BY <1>5, <1>9, <1>10
<1>13. f2 \in [S2 -> 1 .. Len(h2)]
  BY <1>11
\* A call without a place is out of the window of a hit that is there.
<1>14. ASSUME NEW d \in (H \cup {c}) \ S2
       PROVE  \E j \in 1 .. Len(h2) : ds[d].stamps[l] + w <= h2[j]
  <2>1. d \in H /\ ds[d].stamps[l] = cs[d].stamps[l] /\ cs[d].stamps[l] \in Nat
    BY <1>7, <1>14
  <2>2. Len(h2) \in 1 .. Len(h2) /\ h2[Len(h2)] = stamp
    BY <1>2, <1>8
  <2>3. CASE d \in S
    <3>1. f[d] \in 1 .. Len(h) /\ f[d] \notin J
      BY <1>5, <1>14, <2>3
    <3>2. ~(h[f[d]] + w > stamp) /\ h[f[d]] = cs[d].stamps[l]
      BY <1>5, <1>9, <2>3, <3>1
    <3>3. ds[d].stamps[l] + w <= stamp
      BY <1>1, <2>1, <3>2 DEF w
    <3> QED BY <2>2, <3>3
  <2>4. CASE d \notin S
    <3>1. PICK j \in 1 .. Len(h) : cs[d].stamps[l] + w <= h[j]
      BY <1>5, <2>1, <2>4
    <3>2. CASE j \in J
      <4>1. g[j] \in 1 .. Len(h2) /\ h2[g[j]] = h[j]
        BY <1>9, <3>2
      <4> QED BY <2>1, <3>1, <4>1
    <3>3. CASE j \notin J
      <4>1. ~(h[j] + w > stamp) /\ h[j] \in Nat
        BY <1>8, <1>9, <3>3
      <4>2. w \in Nat /\ w > 0
        BY <1>1 DEF w
      <4> DEFINE x == cs[d].stamps[l]
                 y == h[j]
      <4>3. x \in Nat /\ y \in Nat /\ x + w <= y /\ ~(y + w > stamp)
        BY <2>1, <3>1, <4>1
      <4> HIDE DEF x, y
      <4>4. x + w <= stamp
        BY ONLY <4>2, <4>3, stamp \in Nat
      <4>5. ds[d].stamps[l] + w <= stamp
        BY <2>1, <4>4 DEF x
      <4> QED BY <2>2, <4>5
    <3> QED BY <3>2, <3>3
  <2> QED BY <2>3, <2>4
<1>15. Placed(ds, h2, l, i)
  <2>1. S2 \in SUBSET Hitters(ds, l, i)
    BY <1>6, <1>10
  <2> HIDE DEF S2, f2
  <2>2. /\ \A d \in S2 : h2[f2[d]] = ds[d].stamps[l]
        /\ \A d, e \in S2 : f2[d] = f2[e] => d = e
        /\ \A d \in Hitters(ds, l, i) \ S2 :
             \E j \in 1 .. Len(h2) : ds[d].stamps[l] + engines[l].limits[i].window <= h2[j]
    BY <1>6, <1>11, <1>12, <1>14 DEF w
  <2>3. \E q \in [S2 -> 1 .. Len(h2)] :
          /\ \A d \in S2 : h2[q[d]] = ds[d].stamps[l]
          /\ \A d, e \in S2 : q[d] = q[e] => d = e
          /\ \A d \in Hitters(ds, l, i) \ S2 :
               \E j \in 1 .. Len(h2) : ds[d].stamps[l] + engines[l].limits[i].window <= h2[j]
    BY <1>13, <2>2
  <2> QED BY <2>1, <2>3 DEF Placed
<1>16. ds[c].severity \in 0 .. 4
  <2>1. \A k \in CallState : k.severity \in 0 .. 4
    BY DEF CallState, Severity, SeverityAllow, SeverityKill
  <2> QED BY <2>1
\* The window that ends with the new call, when nothing has overtaken it.
<1> DEFINE W == InWindow(ds, l, i, stamp)
<1>17. ASSUME Refusing(l, i), c \in Passing(ds, l, i)
       PROVE  IsFiniteSet(W) /\ Cardinality(W) <= engines[l].limits[i].max
  <2>1. ~ds[c].overtaken /\ ds[c].severity < SeverityDeny
    BY <1>17 DEF Passing
  <2>2. Len(h2) <= engines[l].limits[i].max /\ \A j \in 1 .. Len(h) : h[j] <= stamp
    BY <1>17, <2>1
  <2>3. ASSUME NEW d \in W PROVE d \in S2
    <3>1. /\ d \in H \cup {c} /\ ds[d].stamps[l] + w > stamp
      BY <1>6 DEF InWindow, Passing, w
    <3>2. CASE d # c
      <4>1. d \in H /\ ds[d].stamps[l] = cs[d].stamps[l] /\ cs[d].stamps[l] \in Nat
        BY <1>7, <3>1, <3>2
      <4>2. CASE d \notin S
        <5>1. PICK j \in 1 .. Len(h) : cs[d].stamps[l] + w <= h[j]
          BY <1>5, <4>1, <4>2
        <5> DEFINE x == cs[d].stamps[l]
                   y == h[j]
        <5>2. /\ x + w <= y /\ y <= stamp /\ x + w > stamp
              /\ x \in Nat /\ y \in Nat /\ w \in Nat
          BY <1>1, <1>8, <2>2, <3>1, <4>1, <5>1 DEF w
        <5> HIDE DEF x, y
        <5> QED BY ONLY <5>2, stamp \in Nat
      <4>3. CASE d \in S
        <5>1. f[d] \in 1 .. Len(h) /\ h[f[d]] + w > stamp
          BY <1>5, <3>1, <4>1, <4>3
        <5> QED BY <1>9, <4>3, <5>1
      <4> QED BY <4>2, <4>3
    <3> QED BY <3>2
  <2> DEFINE f3 == [d \in W |-> f2[d]]
  <2> HIDE DEF S2, f2, W
  <2>4. f3 \in [W -> 1 .. Len(h2)] /\ \A d, e \in W : f3[d] = f3[e] => d = e
    <3>1. \A d \in W : f3[d] = f2[d] /\ d \in S2 /\ f2[d] \in 1 .. Len(h2)
      BY ONLY <1>11, <2>3
    <3>2. f3 \in [W -> 1 .. Len(h2)]
      BY ONLY <3>1
    <3> QED BY ONLY <1>12, <3>1, <3>2
  <2>5. f3 \in Injection(W, 1 .. Len(h2))
    <3> DEFINE T == 1 .. Len(h2)
    <3> HIDE DEF f3
    <3>1. f3 \in [W -> T] /\ \A d, e \in W : f3[d] = f3[e] => d = e
      BY <2>4
    <3> HIDE DEF T
    <3>2. f3 \in Injection(W, T)
      BY ONLY <3>1 DEF Injection, IsInjective
    <3> QED BY <3>2 DEF T
  <2>6. IsFiniteSet(1 .. Len(h2)) /\ Cardinality(1 .. Len(h2)) = Len(h2)
    <3>1. Len(h2) \in Nat
      BY <1>2, <1>8
    <3> QED BY ONLY <3>1, IntervalSize
  <2>7. IsFiniteSet(W) /\ Cardinality(W) <= Cardinality(1 .. Len(h2))
    BY <2>5, <2>6, FS_Injection
  <2>8. Cardinality(W) \in Nat
    BY <2>7, FS_CardinalityType
  <2> QED BY <1>1, <1>8, <2>2, <2>6, <2>7, <2>8
<1>18. ASSUME Refusing(l, i), NEW e \in Passing(ds, l, i), e # c
       PROVE  LET V == InWindow(ds, l, i, ds[e].stamps[l]) IN
              IsFiniteSet(V) /\ Cardinality(V) <= engines[l].limits[i].max
  <2> DEFINE t == cs[e].stamps[l]
  <2>1. e \in H /\ ds[e] = cs[e] /\ t \in Nat
    BY <1>6, <1>7, <1>18 DEF Passing
  <2>2. e \in Passing(cs, l, i)
    BY <1>18, <2>1 DEF Passing, H
  <2>3. IsFiniteSet(InWindow(cs, l, i, t)) /\ Cardinality(InWindow(cs, l, i, t)) <= engines[l].limits[i].max
    BY <1>18, <2>2 DEF Bounded
  <2>4. \A d \in Passing(ds, l, i) : d # c => d \in Passing(cs, l, i) /\ ds[d] = cs[d]
    BY <1>6, <1>7 DEF Passing, H
  <2>5. \A d \in Passing(cs, l, i) : d \in Passing(ds, l, i) /\ ds[d] = cs[d]
    BY <1>6, <1>7 DEF Passing, H
  <2>6. CASE c \notin InWindow(ds, l, i, t)
    <3>1. InWindow(ds, l, i, t) = InWindow(cs, l, i, t)
      BY <2>4, <2>5, <2>6 DEF InWindow
    <3> QED BY <2>1, <2>3, <3>1
  <2>7. CASE c \in InWindow(ds, l, i, t)
    <3>1. c \in Passing(ds, l, i) /\ stamp <= t /\ ~ds[c].overtaken
      BY <2>7 DEF InWindow, Passing
    <3>2. \A j \in 1 .. Len(h) : h[j] <= stamp
      BY <3>1
    <3>3. t <= stamp
      <4>1. CASE e \in S
        BY <1>5, <3>2, <4>1
      <4>2. CASE e \notin S
        <5>1. PICK j \in 1 .. Len(h) : t + w <= h[j]
          BY <1>5, <2>1, <4>2
        <5> DEFINE y == h[j]
        <5>2. t + w <= y /\ y <= stamp /\ y \in Nat /\ w \in Nat /\ t \in Nat
          BY <1>1, <1>8, <2>1, <3>2, <5>1 DEF w
        <5> HIDE DEF y, t
        <5> QED BY ONLY <5>2, stamp \in Nat
      <4> QED BY <4>1, <4>2
    <3>4. t = stamp
      BY <2>1, <3>1, <3>3
    <3> QED BY <1>17, <1>18, <2>1, <3>1, <3>4
  <2> QED BY <2>6, <2>7
<1>19. Bounded(ds, l, i)
  BY <1>17, <1>18 DEF Bounded
<1> QED BY <1>15, <1>19

\* What an evaluation leaves for the limiters.
LEMMA EvaluatedFields ==
  ASSUME Config, NEW c, NEW k \in CallState, k.layer \in 1 .. NDocs, NEW excess \in Severity, NEW n,
         EvaluatedTo(c, n, k, excess)
  PROVE  /\ n \in CallState /\ n.pc \in {"read", "ran", "refused", "post"}
         /\ n.stamps = k.stamps /\ n.overtaken = k.overtaken /\ n.severity >= k.severity
         /\ engines[k.layer].mode = "enforce" => n.severity >= excess
<1> DEFINE mode == engines[k.layer].mode
<1>1. PICK intended \in Severity, v \in CallState :
        /\ intended >= excess
        /\ v.severity >= k.severity /\ v.severity >= clamp(mode, intended)
        /\ v.stamps = k.stamps /\ v.overtaken = k.overtaken
        /\ n \in CallState /\ SameVerdict(n, v)
        /\ n.pc = "read" \/ ActedOn(n, v)
  BY DEF EvaluatedTo
<1>2. mode \in {"audit", "enforce"}
  BY EnginesAreLayers
<1> HIDE DEF mode
<1>3. mode = "enforce" => clamp(mode, intended) = intended
  BY <1>2, ClampFacts
<1>4. v.severity \in Severity
  BY DEF CallState
<1>5. mode = "enforce" => v.severity >= excess
  BY <1>1, <1>3, <1>4 DEF Severity, SeverityAllow, SeverityKill
<1> QED BY <1>1, <1>5 DEF SameVerdict, ActedOn, mode

LEMMA CarryRate ==
  ASSUME session' = session,
         \A l \in 1 .. NDocs : \A i \in DOMAIN engines[l].limits :
           Placed(calls', hits'[l][i], l, i) /\ Bounded(calls', l, i)
  PROVE  RateInv'
<1>1. /\ here' = here /\ Calls' = Calls /\ engines' = engines /\ NDocs' = NDocs
  BY DEF here, Calls, engines, NDocs
<1>2. ASSUME NEW l \in 1 .. NDocs, NEW i \in DOMAIN engines[l].limits
      PROVE  Placed(calls, hits[l][i], l, i)' /\ Bounded(calls, l, i)'
  <2>1. Placed(calls', hits'[l][i], l, i) /\ Bounded(calls', l, i)
    OBVIOUS
  <2>2. Hitters(calls, l, i)' = Hitters(calls', l, i)
    BY <1>1 DEF Hitters, Subject, Counted
  <2>3. Passing(calls, l, i)' = Passing(calls', l, i)
    BY <2>2 DEF Passing
  <2>4. Placed(calls, hits[l][i], l, i)'
    BY <1>1, <2>1, <2>2, ZenonT(40) DEF Placed
  <2>5. Bounded(calls, l, i)'
    BY <1>1, <2>1, <2>3 DEF Bounded, Refusing, InWindow
  <2> QED BY <2>4, <2>5
<1> QED BY <1>1, <1>2 DEF RateInv

LEMMA StillQuiet ==
  ASSUME NEW k \in CallState, NEW l
  PROVE  QuietCall(k, k, l)
<1>1. k.severity \in 0 .. 4
  BY DEF CallState, Severity, SeverityAllow, SeverityKill
<1> QED BY <1>1 DEF QuietCall

\* Steps at which no limiter counts anybody.
LEMMA RateQuiet ==
  ASSUME IndInv, RateInv, session' = session, hits' = hits, calls' \in [Calls -> CallState],
         \A c \in Calls : \A l \in 1 .. NDocs :
           engines[l].limits # <<>> => QuietCall(calls[c], calls'[c], l)
  PROVE  RateInv'
<1> USE DEF IndInv
<1>1. ASSUME NEW l \in 1 .. NDocs, NEW i \in DOMAIN engines[l].limits
      PROVE  Placed(calls', hits'[l][i], l, i) /\ Bounded(calls', l, i)
  <2>1. engines[l].limits # <<>>
    OBVIOUS
  <2>2. Placed(calls, hits[l][i], l, i) /\ Bounded(calls, l, i)
    BY DEF RateInv
  <2> DEFINE h == hits[l][i]
             ds == calls'
  <2>3. Placed(calls, h, l, i) /\ h = hits'[l][i] /\ ds \in [Calls -> CallState]
        /\ \A c \in Calls : QuietCall(calls[c], ds[c], l)
    BY <2>1, <2>2
  <2> HIDE DEF h, ds
  <2>4. Placed(ds, h, l, i) /\ Bounded(ds, l, i)
    BY <2>2, <2>3, QuietStep
  <2> QED BY <2>3, <2>4 DEF ds
<1> QED BY <1>1, CarryRate

LEMMA RateCallQuiet ==
  ASSUME IndInv, RateInv, session' = session, hits' = hits, NEW c \in Calls, NEW n \in CallState,
         calls' = [calls EXCEPT ![c] = n],
         \A l \in 1 .. NDocs : engines[l].limits # <<>> => QuietCall(calls[c], n, l)
  PROVE  RateInv'
<1>1. calls \in [Calls -> CallState]
  BY DEF IndInv
<1>2. calls' \in [Calls -> CallState]
  BY <1>1
<1>3. \A d \in Calls : d # c => calls'[d] = calls[d] /\ calls[d] \in CallState
  BY <1>1
<1>4. calls'[c] = n
  BY <1>1
<1>5. \A d \in Calls : \A l \in 1 .. NDocs :
        engines[l].limits # <<>> => QuietCall(calls[d], calls'[d], l)
  BY <1>3, <1>4, StillQuiet
<1> QED BY <1>2, <1>5, RateQuiet

LEMMA RateStamp ==
  ASSUME IndInv, RateInv, NEW c \in Calls, Stamp(c)
  PROVE  RateInv'
<1> DEFINE k == calls[c]
           k0 == [k EXCEPT !.stamps = Append(@, 0)]
           n0 == [k EXCEPT !.pc = "limit", !.stamps = Append(@, now)]
<1>1. /\ k \in CallState /\ k.pc = "read" /\ k.layer \in 1 .. NDocs
      /\ Len(k.stamps) = k.layer - 1 /\ session' = session /\ hits' = hits
  BY StampEffect
<1>2. \/ /\ engines[k.layer].limits = <<>> /\ k0 \in CallState
         /\ EvaluatedTo(c, calls'[c], k0, SeverityAllow)
         /\ calls' = [calls EXCEPT ![c] = calls'[c]]
      \/ /\ engines[k.layer].limits # <<>> /\ calls' = [calls EXCEPT ![c] = n0]
         /\ n0 \in CallState
  BY StampEffect
<1>3. Config /\ NDocs \in Nat /\ SeverityAllow \in Severity /\ now \in Nat
  BY HereFacts DEF IndInv, Severity, SeverityAllow, SeverityKill
<1>4. k.stamps \in Seq(Nat) /\ k.severity \in 0 .. 4
  BY <1>1 DEF CallState, Severity, SeverityAllow, SeverityKill
<1>5. ASSUME NEW x \in Nat
      PROVE  LET st == Append(k.stamps, x) IN
             Len(st) = k.layer /\ \A l \in 1 .. k.layer - 1 : st[l] = k.stamps[l]
  BY <1>1, <1>3, <1>4
<1>6. ASSUME NEW n \in CallState, NEW x \in Nat, n.stamps = Append(k.stamps, x),
             n.overtaken = k.overtaken, n.severity >= k.severity, NEW l \in 1 .. NDocs,
             \/ n.pc # "limit" /\ l # k.layer
             \/ n.pc = "limit" /\ n.layer = k.layer
      PROVE  QuietCall(k, n, l)
  <2>1. Len(n.stamps) = k.layer /\ \A m \in 1 .. k.layer - 1 : n.stamps[m] = k.stamps[m]
    BY <1>5, <1>6
  <2>2. Counted(k, l) <=> l <= k.layer - 1
    BY <1>1, <1>3 DEF Counted
  <2>3. Counted(n, l) <=> l <= k.layer - 1
    BY <1>1, <1>3, <1>6, <2>1 DEF Counted
  <2>4. l <= k.layer - 1 => l \in 1 .. k.layer - 1
    BY <1>1, <1>3
  <2> QED BY <1>6, <2>1, <2>2, <2>3, <2>4 DEF QuietCall
<1> HIDE DEF k
<1>7. CASE /\ engines[k.layer].limits = <<>> /\ k0 \in CallState
           /\ EvaluatedTo(c, calls'[c], k0, SeverityAllow)
           /\ calls' = [calls EXCEPT ![c] = calls'[c]]
  <2> DEFINE n == calls'[c]
  <2>1. k0.stamps = Append(k.stamps, 0) /\ k0.overtaken = k.overtaken /\ k0.severity = k.severity
        /\ k0.layer = k.layer
    BY <1>1 DEF CallState
  <2> HIDE DEF k0
  <2>2. /\ n \in CallState /\ n.pc \in {"read", "ran", "refused", "post"} /\ n.stamps = k0.stamps
        /\ n.overtaken = k0.overtaken /\ n.severity >= k0.severity
    BY <1>1, <1>3, <1>7, <2>1, EvaluatedFields
  <2>3. calls' = [calls EXCEPT ![c] = n]
    BY <1>7
  <2> HIDE DEF n
  <2>4. \A l \in 1 .. NDocs : engines[l].limits # <<>> => QuietCall(k, n, l)
    BY <1>6, <1>7, <2>1, <2>2
  <2> QED BY <1>1, <2>2, <2>3, <2>4, RateCallQuiet DEF k
<1>8. CASE /\ engines[k.layer].limits # <<>> /\ calls' = [calls EXCEPT ![c] = n0]
           /\ n0 \in CallState
  <2>1. /\ n0.stamps = Append(k.stamps, now) /\ n0.overtaken = k.overtaken
        /\ n0.severity = k.severity /\ n0.layer = k.layer /\ n0.pc = "limit"
    BY <1>1 DEF CallState
  <2> HIDE DEF n0
  <2>2. n0.severity >= k.severity
    BY <1>4, <2>1
  <2>3. \A l \in 1 .. NDocs : engines[l].limits # <<>> => QuietCall(k, n0, l)
    BY <1>3, <1>6, <1>8, <2>1, <2>2
  <2> QED BY <1>1, <1>8, <2>3, RateCallQuiet DEF k
<1> QED BY <1>2, <1>7, <1>8

LEMMA RateLimit ==
  ASSUME IndInv, RateInv, NEW c \in Calls, Limit(c)
  PROVE  RateInv'
<1> USE DEF IndInv
<1> DEFINE k == calls[c]
           lk == k.layer
           stamp == k.stamps[lk]
           n == calls'[c]
<1>1. /\ k \in CallState /\ k.pc = "limit" /\ lk \in 1 .. NDocs /\ Len(k.stamps) = lk
      /\ stamp \in Epoch .. now /\ session' = session
  BY LimitEffect
<1>2. PICK excess \in Severity, k1 \in CallState :
        /\ k1.overtaken =
             (k.overtaken \/ \E i \in LimitMatches(c, lk) : \E t \in Range(hits[lk][i]) : t > stamp)
        /\ k1.layer = lk /\ k1.stamps = k.stamps /\ k1.severity = k.severity
        /\ EvaluatedTo(c, n, k1, excess)
        /\ calls' = [calls EXCEPT ![c] = n]
        /\ DOMAIN hits' = DOMAIN hits /\ \A m \in DOMAIN hits : m # lk => hits'[m] = hits[m]
        /\ \A i \in DOMAIN engines[lk].limits :
             hits'[lk][i] = IF i \in LimitMatches(c, lk)
                            THEN Kept(hits[lk][i], stamp, engines[lk].limits[i].window)
                            ELSE hits[lk][i]
        /\ \A i \in LimitMatches(c, lk) :
             Len(hits'[lk][i]) > engines[lk].limits[i].max => excess >= engines[lk].limits[i].onExceed
  BY LimitEffect
<1>3. /\ n \in CallState /\ n.pc \in {"read", "ran", "refused", "post"} /\ n.stamps = k.stamps
      /\ n.overtaken = k1.overtaken /\ n.severity >= k.severity
      /\ engines[lk].mode = "enforce" => n.severity >= excess
  BY <1>1, <1>2, EvaluatedFields
<1>4. calls' \in [Calls -> CallState] /\ \A d \in Calls : d # c => calls'[d] = calls[d]
  BY <1>2, <1>3
<1>5. NDocs \in Nat /\ stamp \in Nat /\ now \in Nat
  BY <1>1, HereFacts, EnforceConstants
<1>6. ASSUME NEW l \in 1 .. NDocs, l # lk PROVE QuietCall(k, n, l)
  <2>1. Counted(k, l) <=> l <= lk
    BY <1>1, <1>5, <1>6 DEF Counted
  <2>2. Counted(n, l) <=> l <= lk
    BY <1>1, <1>3, <1>5, <1>6 DEF Counted
  <2>3. k.overtaken => n.overtaken
    BY <1>2, <1>3
  <2> QED BY <1>3, <2>1, <2>2, <2>3 DEF QuietCall
<1>7. ASSUME NEW d \in Calls, d # c, NEW l PROVE QuietCall(calls[d], calls'[d], l)
  BY <1>4, <1>7, StillQuiet
<1>8. ASSUME NEW l \in 1 .. NDocs, NEW i \in DOMAIN engines[l].limits
      PROVE  Placed(calls', hits'[l][i], l, i) /\ Bounded(calls', l, i)
  <2>1. Placed(calls, hits[l][i], l, i) /\ Bounded(calls, l, i)
    BY DEF RateInv
  <2>2. CASE ~(l = lk /\ i \in LimitMatches(c, lk))
    <3>1. hits'[l][i] = hits[l][i]
      BY <1>2, <1>8, <2>2 DEF HitsOK
    <3>2. \A d \in Calls : matchesLimit(engines[l].limits[i].match, Subject(d)) =>
                             QuietCall(calls[d], calls'[d], l)
      BY <1>6, <1>7, <2>2 DEF LimitMatches
    <3> DEFINE h == hits[l][i]
               ds == calls'
    <3>3. /\ Placed(calls, h, l, i) /\ h = hits'[l][i] /\ ds \in [Calls -> CallState]
          /\ \A d \in Calls : matchesLimit(engines[l].limits[i].match, Subject(d)) =>
                                QuietCall(calls[d], ds[d], l)
      BY <1>4, <2>1, <3>1, <3>2
    <3> HIDE DEF h, ds
    <3>4. Placed(ds, h, l, i) /\ Bounded(ds, l, i)
      BY <2>1, <3>3, QuietStep
    <3> QED BY <3>3, <3>4 DEF ds
  <2>3. CASE l = lk /\ i \in LimitMatches(c, lk)
    <3> DEFINE h == hits[l][i]
               h2 == hits'[l][i]
               ds == calls'
    <3>1. h \in Seq(Epoch .. now)
      BY <1>8 DEF HitsOK
    <3>2. h \in Seq(Nat)
      <4>1. Epoch .. now \subseteq Nat
        BY EnforceConstants
      <4> QED BY <3>1, <4>1, SeqMonotonic
    <3>3. h2 = Kept(h, stamp, engines[l].limits[i].window)
      BY <1>2, <1>8, <2>3
    <3>4. ~Counted(calls[c], l) /\ Counted(ds[c], l)
      BY <1>1, <1>3, <2>3 DEF Counted
    <3>5. ~ds[c].overtaken => \A j \in 1 .. Len(h) : h[j] <= stamp
      <4>1. \A j \in 1 .. Len(h) : h[j] \in Range(h) /\ h[j] \in Nat
        BY <3>2, ElementOfSeq, LenProperties DEF Range
      <4>2. ~ds[c].overtaken => \A t \in Range(h) : ~(t > stamp)
        BY <1>2, <1>3, <2>3
      <4> QED BY <1>5, <4>1, <4>2
    <3>6. Refusing(l, i) /\ ds[c].severity < SeverityDeny => Len(h2) <= engines[l].limits[i].max
      <4> SUFFICES ASSUME Refusing(l, i), ~(Len(h2) <= engines[l].limits[i].max)
                   PROVE  ~(ds[c].severity < SeverityDeny)
        OBVIOUS
      <4>1. /\ engines[l].limits[i].max \in Nat /\ engines[l].limits[i].onExceed \in Severity
        BY EngineFacts
      <4>2. Len(h2) > engines[l].limits[i].max
        <5>1. hits'[l][i] \in Seq(Epoch .. now)
          BY <1>8, LimitInv, <1>1, LimitEffect, <2>3
        <5>2. Len(h2) \in Nat
          BY <5>1, LenProperties
        <5> QED BY <4>1, <5>2
      <4>3. excess >= engines[l].limits[i].onExceed /\ n.severity >= excess
        BY <1>2, <1>3, <2>3, <4>2 DEF Refusing
      <4>4. engines[l].limits[i].onExceed >= SeverityDeny /\ n.severity \in Severity
        BY <1>3 DEF Refusing, CallState
      <4> QED BY <4>1, <4>3, <4>4 DEF Severity, SeverityAllow, SeverityKill, SeverityDeny
    <3>7. /\ matchesLimit(engines[l].limits[i].match, Subject(c)) /\ ds[c].stamps[l] = stamp
      BY <1>3, <2>3 DEF LimitMatches
    <3>8. /\ ds \in [Calls -> CallState] /\ \A d \in Calls : d # c => ds[d] = calls[d]
          /\ Placed(calls, h, l, i)
      BY <1>4, <2>1
    <3> DEFINE cs == calls
    <3>9. /\ cs \in [Calls -> CallState] /\ \A d \in Calls : d # c => ds[d] = cs[d]
          /\ ~Counted(cs[c], l) /\ Placed(cs, h, l, i) /\ Bounded(cs, l, i)
      BY <2>1, <3>4, <3>8
    <3>10. Config /\ ds \in [Calls -> CallState] /\ stamp \in Nat /\ Counted(ds[c], l)
      BY <1>5, <3>4, <3>8
    <3> HIDE DEF h, h2, ds, stamp, cs, lk, k, n, IndInv
    <3>11. Placed(ds, h2, l, i) /\ Bounded(ds, l, i)
      BY ONLY c \in Calls, l \in 1 .. NDocs, i \in DOMAIN engines[l].limits,
              <3>2, <3>3, <3>5, <3>6, <3>7, <3>9, <3>10, CountStep
    <3> QED BY <3>11 DEF ds, h2
  <2> QED BY <2>2, <2>3
<1> QED BY <1>1, <1>8, CarryRate

LEMMA RateStep == IndInv /\ RateInv /\ [Next]_vars => RateInv'
<1> SUFFICES ASSUME IndInv, RateInv, [Next]_vars PROVE RateInv'
  OBVIOUS
<1>1. calls \in [Calls -> CallState] /\ NDocs \in Nat
  BY HereFacts DEF IndInv
<1>2. CASE \/ UNCHANGED vars
           \/ RefreshStarts \/ RefreshRead \/ RefreshStore \/ RefreshEnds \/ Cancel \/ Tick
           \/ \E d \in Calls : Approver(d)
  <2>1. calls' = calls /\ hits' = hits /\ session' = session
    BY <1>2 DEF vars, RefreshStarts, RefreshRead, RefreshStore, RefreshEnds, Approver, Cancel, Tick
  <2>2. \A c \in Calls : \A l \in 1 .. NDocs : QuietCall(calls[c], calls'[c], l)
    BY <1>1, <2>1, StillQuiet
  <2>3. calls' \in [Calls -> CallState]
    BY <1>1, <2>1
  <2> QED BY <2>1, <2>2, <2>3, RateQuiet
<1>3. ASSUME NEW c \in Calls, Arrive(c) PROVE RateInv'
  <2> DEFINE k == calls[c]
  <2>1. k.pc = "out" /\ UNCHANGED <<session, hits>>
    BY <1>3, ArriveEffect
  <2>2. PICK n \in CallState : calls' = [calls EXCEPT ![c] = n] /\ Blank(n, now)
    BY <1>3, ArriveEffect
  <2>3. k = Waiting
    BY <2>1 DEF IndInv, CallOK, StageOf
  <2>4. /\ k.stamps = <<>> /\ n.stamps = <<>> /\ k.severity = SeverityAllow
        /\ n.severity = SeverityAllow /\ ~k.overtaken
    BY <2>2, <2>3 DEF Waiting, Blank
  <2> HIDE DEF k
  <2>5. \A l \in 1 .. NDocs : ~Counted(k, l) /\ ~Counted(n, l)
    BY <1>1, <2>4 DEF Counted
  <2>6. \A l \in 1 .. NDocs : QuietCall(k, n, l)
    BY <2>4, <2>5 DEF QuietCall, SeverityAllow
  <2> QED BY <2>1, <2>2, <2>6, RateCallQuiet DEF k
<1>4. ASSUME NEW c \in Calls, Read(c) \/ Store(c) \/ ApprovalStep(c) PROVE RateInv'
  <2> DEFINE k == calls[c]
  <2>1. k \in CallState /\ k.pc # "limit" /\ UNCHANGED <<session, hits>>
    BY <1>1, <1>4, ReadEffect, ApprovalEffect DEF Asking
  <2>2. PICK n \in CallState :
          /\ calls' = [calls EXCEPT ![c] = n] /\ n.pc # "limit" /\ n.stamps = k.stamps
          /\ n.overtaken = k.overtaken /\ n.severity = k.severity
    <3>1. CASE Read(c) \/ Store(c)
      BY <3>1, ReadEffect
    <3>2. CASE ApprovalStep(c)
      BY <3>2, ApprovalEffect DEF SameVerdict, Settled
    <3> QED BY <1>4, <3>1, <3>2
  <2>3. k.severity \in 0 .. 4
    BY <2>1 DEF CallState, Severity, SeverityAllow, SeverityKill
  <2> HIDE DEF k
  <2>4. \A l \in 1 .. NDocs : QuietCall(k, n, l)
    BY <2>1, <2>2, <2>3 DEF QuietCall, Counted
  <2> QED BY <2>1, <2>2, <2>4, RateCallQuiet DEF k
<1>5. ASSUME NEW c \in Calls, Stamp(c) \/ Limit(c) PROVE RateInv'
  BY <1>5, RateStamp, RateLimit
<1> QED BY <1>2, <1>3, <1>4, <1>5 DEF Next, ApprovalStep

LEMMA RateInit == Init => RateInv
<1> SUFFICES ASSUME Init, NEW l \in 1 .. NDocs, NEW i \in DOMAIN engines[l].limits
             PROVE  Placed(calls, hits[l][i], l, i) /\ Bounded(calls, l, i)
  BY DEF RateInv
<1>1. NDocs \in Nat
  BY InitInv, HereFacts DEF IndInv
<1>2. \A c \in Calls : ~Counted(calls[c], l)
  BY <1>1 DEF Init, Waiting, Counted
<1>3. Hitters(calls, l, i) = {}
  BY <1>2 DEF Hitters
<1> DEFINE f == [c \in {} |-> 1]
<1>4. f \in [{} -> 1 .. Len(hits[l][i])]
  OBVIOUS
<1>5. Placed(calls, hits[l][i], l, i)
  BY <1>3, <1>4 DEF Placed
<1>6. Bounded(calls, l, i)
  BY <1>3 DEF Bounded, Passing
<1> QED BY <1>5, <1>6

LEMMA InvRate == IndInv /\ RateInv => RateIsBounded
<1> SUFFICES ASSUME IndInv, RateInv, NEW l \in DOMAIN engines, NEW i \in DOMAIN engines[l].limits,
                    Refusing(l, i)
             PROVE  LET limit == engines[l].limits[i]
                        ran == {c \in Calls :
                                  /\ calls[c].pc = "ran" /\ Decided(c) /\ ~calls[c].overtaken
                                  /\ matchesLimit(limit.match, Subject(c))}
                    IN \A c \in ran : LET t == calls[c].stamps[l] IN
                         Cardinality({d \in ran : /\ calls[d].stamps[l] <= t
                                                  /\ calls[d].stamps[l] + limit.window > t}) <= limit.max
  BY DEF RateIsBounded, Refusing
<1>1. Config /\ l \in 1 .. NDocs /\ NDocs \in Nat
  BY EnginesAreLayers, HereFacts DEF IndInv, NDocs
<1>2. engines[l].limits[i].max \in Nat
  BY <1>1, EngineFacts
<1>3. Bounded(calls, l, i)
  BY <1>1 DEF RateInv
<1> DEFINE limit == engines[l].limits[i]
           ran == {c \in Calls : /\ calls[c].pc = "ran" /\ Decided(c) /\ ~calls[c].overtaken
                                 /\ matchesLimit(limit.match, Subject(c))}
<1>4. ran \subseteq Passing(calls, l, i)
  <2> SUFFICES ASSUME NEW c \in ran PROVE c \in Passing(calls, l, i)
    OBVIOUS
  <2>1. Len(calls[c].stamps) = NDocs /\ calls[c].severity < SeverityDeny
    BY DEF IndInv, CallOK, StageOf, VerdictOf, Decided
  <2>2. Counted(calls[c], l)
    BY <1>1, <2>1 DEF Counted
  <2> QED BY <2>1, <2>2 DEF Passing, Hitters
<1>5. ASSUME NEW c \in ran
      PROVE  Cardinality({d \in ran : /\ calls[d].stamps[l] <= calls[c].stamps[l]
                                      /\ calls[d].stamps[l] + limit.window > calls[c].stamps[l]})
               <= limit.max
  <2> DEFINE t == calls[c].stamps[l]
             V == InWindow(calls, l, i, t)
             W == {d \in ran : calls[d].stamps[l] <= t /\ calls[d].stamps[l] + limit.window > t}
  <2>1. IsFiniteSet(V) /\ Cardinality(V) <= limit.max
    BY <1>3, <1>4 DEF Bounded
  <2>2. W \subseteq V
    BY <1>4 DEF InWindow
  <2> HIDE DEF V, W
  <2>3. Cardinality(W) <= Cardinality(V) /\ Cardinality(W) \in Nat /\ Cardinality(V) \in Nat
    BY <2>1, <2>2, FS_Subset, FS_CardinalityType
  <2>4. Cardinality(W) <= limit.max
    BY <1>2, <2>1, <2>3
  <2> QED BY <2>4 DEF W
<1> QED BY <1>5

\* No more calls than a refusing limit allows run within one of its windows, whatever the
\* calls interleave between taking their stamp and the limiter's lock (rateLimiter).
THEOREM RateBounded == Spec => []RateIsBounded
BY InitInv, NextInv, RateInit, RateStep, InvRate, PTL DEF Spec
=============================================================================
