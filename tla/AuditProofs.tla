---------------------------- MODULE AuditProofs ----------------------------
(***************************************************************************)
(* Proofs about Audit: its types, that a strictly verified directory is    *)
(* complete whatever happened to it, that flushed entries survive on a     *)
(* sound disk, and that an honest directory verifies when sessions run one *)
(* at a time.  For any number of sessions, events and entries.             *)
(***************************************************************************)
EXTENDS Audit, SequenceTheorems, NaturalsInduction, WellFoundedInduction, TLAPS

-----------------------------------------------------------------------------
(* Facts about sequences and lines.                                         *)

\* A set of naturals has a least element: the induction of these proofs.
LEMMA LeastNat ==
  ASSUME NEW T \in SUBSET Nat, T # {}
  PROVE  \E x \in T : \A y \in T : x <= y
<1> DEFINE R == OpToRel(<, Nat)
<1>1. IsWellFoundedOn(R, Nat)
  BY NatLessThanWellFounded
<1> HIDE DEF R
<1>2. PICK x \in T : \A y \in T : ~(<<y, x>> \in R)
  BY <1>1, WFMin
<1>3. ASSUME NEW y \in T PROVE x <= y
  <2>1. <<y, x>> \in Nat \X Nat /\ <<y, x>>[1] = y /\ <<y, x>>[2] = x
    OBVIOUS
  <2>2. ~(y < x)
    BY <1>2, <2>1 DEF R, OpToRel
  <2> QED BY <2>2
<1> QED BY <1>2, <1>3

\* A line that does not parse is neither an entry nor a record.
LEMMA TornIsNoLine == Torn \notin Entry /\ Torn \notin Record
<1>1. DOMAIN Torn = {"torn"}
  BY DEF Torn
<1>2. \A e \in Entry : DOMAIN e = {"seq", "event", "prev", "hash"}
  BY DEF Entry
<1>3. \A r \in Record : DOMAIN r = {"of", "prev", "hash"}
  BY DEF Record
<1> QED BY <1>1, <1>2, <1>3

\* Two sequences of one length that agree everywhere are the same.
LEMMA SameSeq ==
  ASSUME NEW S, NEW T, NEW f \in Seq(S), NEW g \in Seq(T), Len(f) = Len(g),
         \A k \in 1 .. Len(f) : f[k] = g[k]
  PROVE  f = g
<1>1. DOMAIN f = 1 .. Len(f) /\ DOMAIN g = 1 .. Len(f)
  OBVIOUS
<1>2. f = [k \in 1 .. Len(f) |-> f[k]] /\ g = [k \in 1 .. Len(f) |-> g[k]]
  BY <1>1
<1> QED BY <1>2

\* The front of a sequence.
LEMMA FrontFacts ==
  ASSUME NEW T, NEW f \in Seq(T), NEW n \in 0 .. Len(f)
  PROVE  /\ SubSeq(f, 1, n) \in Seq(T) /\ Len(SubSeq(f, 1, n)) = n
         /\ \A k \in 1 .. n : SubSeq(f, 1, n)[k] = f[k]
OBVIOUS

\* The empty sequence.
LEMMA NoElements == Len(<<>>) = 0 /\ DOMAIN <<>> = {} /\ 1 .. 0 = {}
OBVIOUS

\* An interval of one number.
LEMMA OnePoint == \A n \in Nat : \A k \in n .. n : k = n
OBVIOUS

\* A sequence grows by one element at a time.
LEMMA LongerByOne ==
  ASSUME NEW T, NEW f \in Seq(T), NEW x \in T
  PROVE  Len(Append(f, x)) = Len(f) + 1 /\ Len(f) \in Nat
OBVIOUS

\* What is in a hash can be read back from it (audit.go, hashEntry).
LEMMA HashReadsBack ==
  ASSUME NEW f \in Hash, NEW g \in Hash, NEW x \in Content, NEW y \in Content,
         Append(f, x) = Append(g, y)
  PROVE  f = g /\ x = y
<1>0. f \in Seq(Content) /\ g \in Seq(Content)
  BY DEF Hash
<1>1. Len(f) = Len(g)
  <2>1. Len(Append(f, x)) = Len(f) + 1 /\ Len(Append(g, y)) = Len(g) + 1
    BY <1>0
  <2>2. Len(f) \in Nat /\ Len(g) \in Nat
    BY <1>0
  <2> QED BY <2>1, <2>2
<1>2. \A k \in 1 .. Len(f) : f[k] = Append(f, x)[k] /\ g[k] = Append(g, y)[k]
  BY <1>0, <1>1
<1>3. Append(f, x)[Len(f) + 1] = x /\ Append(g, y)[Len(g) + 1] = y
  BY <1>0
<1> QED BY <1>0, <1>1, <1>2, <1>3, SameSeq

\* Lines of a file or of the manifest.
Lines(T) == Seq(T \cup {Torn})

\* A write adds its line, or loses it behind a torn one (manifest.go:249-262).
LEMMA WrittenFacts ==
  ASSUME NEW T, NEW f \in Lines(T), NEW x \in T \cup {Torn}
  PROVE  LET g == Written(f, x) IN
         /\ g \in Lines(T)
         /\ Len(f) <= Len(g)
         /\ \A k \in 1 .. Len(f) : g[k] = f[k]
         /\ \/ g = f /\ f # <<>> /\ f[Len(f)] = Torn
            \/ /\ Len(g) = Len(f) + 1 /\ g[Len(g)] = x
               /\ f = <<>> \/ f[Len(f)] # Torn
<1>1. Append(f, x) \in Lines(T) /\ Len(Append(f, x)) = Len(f) + 1
      /\ Append(f, x)[Len(f) + 1] = x /\ \A k \in 1 .. Len(f) : Append(f, x)[k] = f[k]
  BY DEF Lines
<1>2. Len(f) \in Nat
  BY DEF Lines
<1> QED BY <1>1, <1>2 DEF Written, Last

\* What a failed write may leave.
LEMMA FailedFacts ==
  ASSUME NEW T, NEW f \in Lines(T), NEW g \in Failed(f)
  PROVE  /\ g \in Lines(T)
         /\ Len(f) <= Len(g)
         /\ \A k \in 1 .. Len(f) : g[k] = f[k]
         /\ \A k \in 1 .. Len(g) : k \in 1 .. Len(f) \/ g[k] = Torn
         /\ ~faulty => g = f
<1>1. CASE g = f
  BY <1>1 DEF Lines
<1>2. CASE g # f
  <2>1. faulty /\ g = Written(f, Torn)
    BY <1>2 DEF Failed
  <2>2. /\ g \in Lines(T)
        /\ Len(f) <= Len(g)
        /\ \A k \in 1 .. Len(f) : g[k] = f[k]
        /\ Len(g) = Len(f) + 1 /\ g[Len(g)] = Torn
    BY <1>2, <2>1, WrittenFacts
  <2>3. Len(f) \in Nat
    BY DEF Lines
  <2> QED BY <2>1, <2>2, <2>3
<1> QED BY <1>1, <1>2

\* What a power loss leaves: the durable lines at least, as they were, then some of the others,
\* and on a faulty disk a torn one.
LEMMA RemainsFacts ==
  ASSUME NEW T, NEW f \in Lines(T), NEW n \in 0 .. Len(f), NEW g \in Remains(f, n)
  PROVE  /\ g \in Lines(T)
         /\ n <= Len(g) /\ Len(g) <= Len(f)
         /\ \A k \in 1 .. n : g[k] = f[k]
         /\ \A k \in 1 .. Len(g) : g[k] = f[k] \/ g[k] = Torn
         /\ ~faulty => \A k \in 1 .. Len(g) : g[k] = f[k]
<1>0. Len(f) \in Nat /\ n \in Nat /\ f \in Seq(T \cup {Torn})
  BY DEF Lines
<1>1. ASSUME NEW k \in n .. Len(f), g = SubSeq(f, 1, k)
      PROVE  /\ g \in Lines(T)
             /\ n <= Len(g) /\ Len(g) <= Len(f)
             /\ \A j \in 1 .. Len(g) : g[j] = f[j]
  <2>1. k \in 0 .. Len(f)
    BY <1>0
  <2> QED BY <1>0, <1>1, <2>1, FrontFacts DEF Lines
<1>2. ASSUME NEW k \in n .. (Len(f) - 1), g = Append(SubSeq(f, 1, k), Torn)
      PROVE  /\ g \in Lines(T)
             /\ n <= Len(g) /\ Len(g) <= Len(f)
             /\ \A j \in 1 .. n : g[j] = f[j]
             /\ \A j \in 1 .. Len(g) : g[j] = f[j] \/ g[j] = Torn
  <2>1. k \in 0 .. Len(f) /\ k + 1 <= Len(f)
    BY <1>0
  <2> DEFINE h == SubSeq(f, 1, k)
  <2>2. h \in Seq(T \cup {Torn}) /\ Len(h) = k /\ \A j \in 1 .. k : h[j] = f[j]
    BY <1>0, <2>1, FrontFacts
  <2> HIDE DEF h
  <2>3. /\ g \in Seq(T \cup {Torn}) /\ Len(g) = k + 1 /\ g[k + 1] = Torn
        /\ \A j \in 1 .. k : g[j] = h[j]
    BY <1>2, <2>2 DEF h
  <2> QED BY <1>0, <2>1, <2>2, <2>3 DEF Lines
<1>3. \/ \E k \in n .. Len(f) : g = SubSeq(f, 1, k)
      \/ faulty /\ \E k \in n .. (Len(f) - 1) : g = Append(SubSeq(f, 1, k), Torn)
  BY DEF Remains
<1>4. CASE \E k \in n .. Len(f) : g = SubSeq(f, 1, k)
  <2>1. /\ g \in Lines(T)
        /\ n <= Len(g) /\ Len(g) <= Len(f)
        /\ \A j \in 1 .. Len(g) : g[j] = f[j]
    BY <1>1, <1>4
  <2>2. Len(g) \in Nat
    BY <2>1 DEF Lines
  <2> QED BY <1>0, <2>1, <2>2
<1>5. CASE faulty /\ \E k \in n .. (Len(f) - 1) : g = Append(SubSeq(f, 1, k), Torn)
  BY <1>2, <1>5
<1> QED BY <1>3, <1>4, <1>5

\* An altered file is still lines.
LEMMA AlterationsTyped ==
  ASSUME NEW f \in Lines(Entry), NEW g \in Alterations(f)
  PROVE  g \in Lines(Entry)
<1>0. f \in Seq(Entry \cup {Torn}) /\ Len(f) \in Nat /\ DOMAIN f = 1 .. Len(f)
  BY DEF Lines
<1>1. ASSUME NEW k \in DOMAIN f, g = RemoveAt(f, k) PROVE g \in Lines(Entry)
  <2>1. k - 1 \in 0 .. Len(f) /\ k \in Nat
    BY <1>0
  <2>2. SubSeq(f, 1, k - 1) \in Seq(Entry \cup {Torn})
    BY <1>0, <2>1, FrontFacts
  <2>3. SubSeq(f, k + 1, Len(f)) \in Seq(Entry \cup {Torn})
    BY <1>0, <2>1
  <2> QED BY <1>1, <2>2, <2>3 DEF RemoveAt, Lines
<1>2. ASSUME NEW h \in Lines(Entry), NEW k, NEW e \in Entry \cup {Torn}
      PROVE  ReplaceAt(h, k, e) \in Lines(Entry)
  <2>1. h \in [1 .. Len(h) -> Entry \cup {Torn}] /\ Len(h) \in Nat
    BY DEF Lines
  <2>2. [h EXCEPT ![k] = e] \in [1 .. Len(h) -> Entry \cup {Torn}]
    BY <2>1
  <2> QED BY <2>1, <2>2, SeqDef DEF ReplaceAt, Lines
<1>3. ASSUME NEW k \in 1 .. (Len(f) - 1), g = ReplaceAt(ReplaceAt(f, k, f[k + 1]), k + 1, f[k])
      PROVE  g \in Lines(Entry)
  <2>1. f[k] \in Entry \cup {Torn} /\ f[k + 1] \in Entry \cup {Torn}
    BY <1>0
  <2> QED BY <1>2, <1>3, <2>1
<1>4. ASSUME NEW k \in DOMAIN f, f[k] # Torn, NEW ev \in Events,
             g = ReplaceAt(f, k, [f[k] EXCEPT !.event = ev])
      PROVE  g \in Lines(Entry)
  <2>1. f[k] \in Entry
    BY <1>0, <1>4
  <2>2. [f[k] EXCEPT !.event = ev] \in Entry
    BY <2>1 DEF Entry
  <2> QED BY <1>2, <1>4, <2>2
<1> QED BY <1>1, <1>3, <1>4 DEF Alterations

-----------------------------------------------------------------------------
(* Types.                                                                   *)

Proc == [pc : Stage, name : Nat, seq : Nat, head : Hash, link : ManifestHash]

\* What a session hashes and writes is typed (audit.go, manifest.go).
LEMMA NewTyped ==
  ASSUME TypeOK, NEW s \in Sessions
  PROVE  /\ proc[s] \in Proc
         /\ \A ev \in Events : NewEntry(proc[s], ev) \in Entry
         /\ \A b \in BOOLEAN : NewRecord(s, b) \in Record
<1>1. proc[s] \in Proc
  BY DEF TypeOK, Proc
<1>2. ASSUME NEW ev \in Events PROVE NewEntry(proc[s], ev) \in Entry
  <2>1. [seq |-> proc[s].seq, event |-> ev] \in Content
    BY <1>1 DEF Proc, Content
  <2>2. hashEntry(proc[s].seq, ev, proc[s].head) \in Hash
    BY <1>1, <2>1 DEF hashEntry, Hash, Proc
  <2> QED BY <1>1, <2>2 DEF NewEntry, Entry, Proc
<1>3. ASSUME NEW b \in BOOLEAN PROVE NewRecord(s, b) \in Record
  <2> DEFINE of == [file |-> proc[s].name, opened |-> s, sealed |-> b,
                    seq |-> proc[s].seq, head |-> proc[s].head]
  <2>1. of \in Summary
    BY <1>1 DEF Proc, Summary
  <2>2. hashManifest(of, proc[s].link) \in ManifestHash
    BY <1>1, <2>1 DEF hashManifest, ManifestHash, Proc
  <2> QED BY <1>1, <2>1, <2>2 DEF NewRecord, Record, Proc
<1> QED BY <1>1, <1>2, <1>3

\* The fields of what a session writes.
LEMMA NewFields ==
  ASSUME NEW s, NEW b \in BOOLEAN
  PROVE  /\ NewRecord(s, b).of.file = proc[s].name
         /\ NewRecord(s, b).of.opened = s /\ (NewRecord(s, b).of.sealed <=> b)
         /\ NewRecord(s, b).of.seq = proc[s].seq /\ NewRecord(s, b).of.head = proc[s].head
         /\ NewRecord(s, b).prev = proc[s].link
         /\ NewRecord(s, b).hash = hashManifest(NewRecord(s, b).of, proc[s].link)
<1>1. CASE b = TRUE
  BY <1>1 DEF NewRecord
<1>2. CASE b = FALSE
  BY <1>2 DEF NewRecord
<1> QED BY <1>1, <1>2

\* The audit directory starts well-typed.
LEMMA InitTyped == Init => TypeOK
<1> SUFFICES ASSUME Init PROVE TypeOK
  OBVIOUS
<1>1. proc \in [Sessions -> Proc]
  BY DEF Init, Proc, Stage, Hash, ManifestHash, None
<1>2. faulty \in BOOLEAN
  BY AuditConstants DEF Init
<1> QED BY <1>1, <1>2 DEF Init, TypeOK, Proc

\* What every step of a session that only moves it on does to its record.
LEMMA AtFacts ==
  ASSUME TypeOK, NEW s \in Sessions, NEW from, NEW to \in Stage, At(s, from, to)
  PROVE  /\ proc' \in [Sessions -> Proc]
         /\ proc[s].pc = from /\ proc'[s].pc = to
         /\ proc'[s].seq = proc[s].seq /\ proc'[s].head = proc[s].head
         /\ proc'[s].link = proc[s].link /\ proc'[s].name = proc[s].name
         /\ \A t \in Sessions \ {s} : proc'[t] = proc[t]
BY DEF At, TypeOK, Proc

\* Every step keeps the types, one case per action.
LEMMA NextTyped == TypeOK /\ [Next]_vars => TypeOK'
<1> SUFFICES ASSUME TypeOK, [Next]_vars PROVE TypeOK'
  OBVIOUS
<1>0. /\ proc \in [Sessions -> Proc] /\ file \in [Sessions -> Lines(Entry)]
      /\ manifest \in Lines(Record) /\ synced \in [Sessions -> Nat]
      /\ accepted \in [Sessions -> Seq(Entry)] /\ flushed \in [Sessions -> Nat]
  BY DEF TypeOK, Proc, Lines
<1>1. ASSUME proc' \in [Sessions -> Proc], file' \in [Sessions -> Lines(Entry)],
             synced' \in [Sessions -> Nat], manifest' \in Lines(Record), manifestSynced' \in Nat,
             UNCHANGED <<told, faulty>>
      PROVE  TypeOK'
  BY <1>1 DEF TypeOK, Proc, Lines, told
<1>2. ASSUME NEW s \in Sessions, Session(s), UNCHANGED faulty PROVE TypeOK'
  <2>1. CASE createSessionFile(s)
    <3>1. proc' \in [Sessions -> Proc]
      <4>1. CASE At(s, "new", "refused")
        BY <4>1, AtFacts DEF Stage
      <4>2. ASSUME NEW n \in Free,
                   proc' = [proc EXCEPT ![s] = [@ EXCEPT !.pc = "link", !.name = n]]
            PROVE  proc' \in [Sessions -> Proc]
        <5>1. n \in Nat
          BY AuditConstants DEF Free, Names
        <5> QED BY <1>0, <4>2, <5>1 DEF Proc, Stage
      <4> QED BY <2>1, <4>1, <4>2 DEF createSessionFile
    <3> QED BY <1>0, <1>1, <1>2, <2>1, <3>1 DEF createSessionFile, disk, TypeOK
  <2>2. CASE lastManifestHash(s)
    <3>1. manifest # <<>> /\ (\A k \in DOMAIN manifest : manifest[k] # Torn) =>
            Last(manifest).hash \in ManifestHash
      <4> SUFFICES ASSUME manifest # <<>>, \A k \in DOMAIN manifest : manifest[k] # Torn
                   PROVE  Last(manifest).hash \in ManifestHash
        OBVIOUS
      <4>1. Len(manifest) \in DOMAIN manifest /\ manifest[Len(manifest)] \in Record \cup {Torn}
        BY DEF TypeOK
      <4>2. manifest[Len(manifest)] \in Record
        BY <4>1
      <4> QED BY <4>2 DEF Last, Record
    <3>2. <<>> \in ManifestHash
      BY DEF ManifestHash
    <3> DEFINE link == IF manifest = <<>> THEN <<>> ELSE Last(manifest).hash
               refused == [proc[s] EXCEPT !.pc = "refused"]
               opened  == [proc[s] EXCEPT !.pc = "open", !.link = link]
               torn    == \E k \in DOMAIN manifest : manifest[k] = Torn
    <3>3. proc' = [proc EXCEPT ![s] = IF torn THEN refused ELSE opened]
      BY <2>2 DEF lastManifestHash
    <3>4. proc[s] \in Proc
      BY <1>0
    <3>5. refused \in Proc
      BY <3>4 DEF Proc, Stage
    <3>6. ~torn => opened \in Proc
      <4> HIDE DEF link
      <4>1. ~torn => link \in ManifestHash
        BY <3>1, <3>2 DEF link
      <4> QED BY <3>4, <4>1 DEF Proc, Stage
    <3> HIDE DEF torn, refused, opened
    <3>7. proc' \in [Sessions -> Proc]
      BY <1>0, <3>3, <3>5, <3>6
    <3> QED BY <1>0, <1>1, <1>2, <2>2, <3>7 DEF lastManifestHash, disk, TypeOK
  <2>3. ASSUME NEW b \in BOOLEAN, NEW from, NEW to \in Stage, NEW err \in Stage,
               writeManifest(s, b, from, to, err)
        PROVE  TypeOK'
    <3>1. proc' \in [Sessions -> Proc]
      BY <2>3, AtFacts DEF writeManifest
    <3>2. NewRecord(s, b) \in Record
      BY NewTyped
    <3>3. Written(manifest, NewRecord(s, b)) \in Lines(Record)
      BY <1>0, <3>2, WrittenFacts
    <3>4. Failed(manifest) \subseteq Lines(Record)
      BY <1>0, FailedFacts
    <3>5. manifest' \in Lines(Record)
      BY <2>3, <3>3, <3>4 DEF writeManifest
    <3> QED BY <1>0, <1>1, <1>2, <2>3, <3>1, <3>5 DEF writeManifest, TypeOK
  <2>4. ASSUME NEW b \in BOOLEAN, NEW from, NEW to \in Stage, NEW err \in Stage,
               syncManifest(s, b, from, to, err)
        PROVE  TypeOK'
    <3>1. NewRecord(s, b).hash \in ManifestHash
      BY NewTyped DEF Record
    <3>2. CASE At(s, from, err) /\ UNCHANGED manifestSynced
      <4>1. proc' \in [Sessions -> Proc]
        BY <3>2, AtFacts
      <4> QED BY <1>0, <1>1, <1>2, <2>4, <3>2, <4>1 DEF syncManifest, TypeOK
    <3>3. CASE /\ proc' = [proc EXCEPT ![s] = [@ EXCEPT !.pc = to, !.link = NewRecord(s, b).hash]]
               /\ manifestSynced' = Len(manifest)
      <4>1. proc' \in [Sessions -> Proc]
        BY <1>0, <3>1, <3>3 DEF Proc
      <4>2. manifestSynced' \in Nat
        BY <1>0, <3>3 DEF Lines
      <4> QED BY <1>0, <1>1, <1>2, <2>4, <4>1, <4>2 DEF syncManifest
    <3> QED BY <2>4, <3>2, <3>3 DEF syncManifest
  <2>5. ASSUME NEW ev \in Events, AppendEntry(s, ev) PROVE TypeOK'
    <3>1. NewEntry(proc[s], ev) \in Entry /\ NewEntry(proc[s], ev).hash \in Hash
      BY NewTyped DEF Entry
    <3>2. file' \in [Sessions -> Lines(Entry)]
      <4>1. Written(file[s], NewEntry(proc[s], ev)) \in Lines(Entry)
        BY <1>0, <3>1, WrittenFacts
      <4>2. Failed(file[s]) \subseteq Lines(Entry)
        BY <1>0, FailedFacts
      <4> QED BY <1>0, <2>5, <4>1, <4>2 DEF AppendEntry
    <3> DEFINE e == NewEntry(proc[s], ev)
    <3> HIDE DEF e
    <3>3. [proc[s] EXCEPT !.seq = proc[s].seq + 1, !.head = e.hash] \in Proc
      <4>1. proc[s] \in Proc /\ e.hash \in Hash
        BY <1>0, <3>1 DEF e
      <4>2. proc[s].seq + 1 \in Nat
        BY <4>1 DEF Proc
      <4> QED BY <4>1, <4>2 DEF Proc
    <3>4. Append(accepted[s], e) \in Seq(Entry)
      BY <1>0, <3>1 DEF e
    <3>5. \/ /\ proc' = [proc EXCEPT ![s] = [proc[s] EXCEPT !.seq = proc[s].seq + 1,
                                                            !.head = e.hash]]
             /\ accepted' = [accepted EXCEPT ![s] = Append(accepted[s], e)]
          \/ UNCHANGED <<proc, accepted>>
      BY <1>0, <2>5 DEF AppendEntry, e
    <3>6. proc' \in [Sessions -> Proc] /\ accepted' \in [Sessions -> Seq(Entry)]
      BY <1>0, <3>3, <3>4, <3>5
    <3> QED BY <1>2, <2>5, <3>2, <3>6 DEF AppendEntry, TypeOK, Lines, Proc
  <2>6. CASE Flush(s)
    <3>1. Len(file[s]) \in Nat /\ Len(accepted[s]) \in Nat
      BY <1>0 DEF Lines
    <3> QED BY <1>2, <2>6, <3>1 DEF Flush, TypeOK
  <2>7. CASE Close(s)
    <3>1. Len(file[s]) \in Nat
      BY <1>0 DEF Lines
    <3>2. proc' \in [Sessions -> Proc]
      BY <2>7, AtFacts DEF Close, Stage
    <3>3. synced' \in [Sessions -> Nat]
      BY <1>0, <2>7, <3>1 DEF Close
    <3> QED BY <1>0, <1>1, <1>2, <2>7, <3>2, <3>3 DEF Close, TypeOK
  <2>8. CASE OpenRecord(s) \/ SealRecord(s)
    BY <2>3, <2>8 DEF OpenRecord, SealRecord, Stage
  <2>9. CASE OpenSync(s) \/ SealSync(s)
    BY <2>4, <2>9 DEF OpenSync, SealSync, Stage
  <2> QED BY <1>2, <2>1, <2>2, <2>5, <2>6, <2>7, <2>8, <2>9 DEF Session
<1>3. ASSUME NEW s \in Sessions, Kill(s), UNCHANGED faulty PROVE TypeOK'
  <2>1. proc' \in [Sessions -> Proc]
    BY <1>0, <1>3 DEF Kill, Proc, Stage
  <2> QED BY <1>0, <1>1, <1>3, <2>1 DEF Kill, disk, TypeOK
<1>4. ASSUME NEW s \in Sessions, Damage(s), UNCHANGED faulty PROVE TypeOK'
  <2>1. PICK f \in Alterations(file[s]) : /\ file' = [file EXCEPT ![s] = f]
                                          /\ synced' = [synced EXCEPT ![s] = Len(f)]
    BY <1>4 DEF Damage
  <2>2. f \in Lines(Entry) /\ Len(f) \in Nat
    <3>1. file[s] \in Lines(Entry)
      BY <1>0
    <3>2. f \in Lines(Entry)
      BY <3>1, AlterationsTyped
    <3> QED BY <3>2 DEF Lines
  <2>3. file' \in [Sessions -> Lines(Entry)] /\ synced' \in [Sessions -> Nat]
    BY <1>0, <2>1, <2>2
  <2> QED BY <1>4, <2>3 DEF Damage, TypeOK, Lines
<1>5. ASSUME NEW s \in Sessions, Drop(s), UNCHANGED faulty PROVE TypeOK'
  BY <1>5 DEF Drop, TypeOK, disk
<1>6. CASE PowerLoss /\ UNCHANGED faulty
  <2>1. proc' \in [Sessions -> Proc]
    <3>1. ASSUME NEW s \in Sessions PROVE [proc[s] EXCEPT !.pc = "dead"] \in Proc
      <4>1. proc[s] \in Proc
        BY <1>0
      <4> QED BY <4>1 DEF Proc, Stage
    <3>2. proc' = [s \in Sessions |-> IF proc[s].pc \in Live
                                     THEN [proc[s] EXCEPT !.pc = "dead"] ELSE proc[s]]
      BY <1>6 DEF PowerLoss
    <3> QED BY <1>0, <3>1, <3>2
  <2>2. ASSUME NEW T, NEW f \in Lines(T), NEW n \in Nat, NEW g \in Remains(f, n)
        PROVE  g \in Lines(T)
    <3>1. f \in Seq(T \cup {Torn}) /\ Len(f) \in Nat
      BY DEF Lines
    <3>2. ASSUME NEW k \in n .. Len(f) PROVE SubSeq(f, 1, k) \in Seq(T \cup {Torn})
      <4>1. k \in 0 .. Len(f)
        BY <3>1
      <4> QED BY <3>1, <4>1, FrontFacts
    <3>3. ASSUME NEW k \in n .. (Len(f) - 1)
          PROVE  Append(SubSeq(f, 1, k), Torn) \in Seq(T \cup {Torn})
      <4>1. k \in n .. Len(f)
        BY <3>1
      <4>2. SubSeq(f, 1, k) \in Seq(T \cup {Torn})
        BY <3>2, <4>1
      <4> QED BY <4>2
    <3> QED BY <3>2, <3>3 DEF Remains, Lines
  <2>3. file' \in [Sessions -> Lines(Entry)] /\ synced' \in [Sessions -> Nat]
    <3>1. PICK f \in [Sessions -> UNION {Remains(file[s], synced[s]) : s \in Sessions}] :
            /\ \A s \in Sessions : f[s] \in Remains(file[s], synced[s])
            /\ file' = f
            /\ synced' = [s \in Sessions |-> Len(f[s])]
      BY <1>6 DEF PowerLoss
    <3>2. \A s \in Sessions : f[s] \in Lines(Entry)
      BY <1>0, <2>2, <3>1
    <3>3. \A s \in Sessions : Len(f[s]) \in Nat
      BY <3>2 DEF Lines
    <3> QED BY <3>1, <3>2, <3>3
  <2>4. manifest' \in Lines(Record) /\ manifestSynced' \in Nat
    <3>1. manifest' \in Lines(Record)
      BY <1>0, <1>6, <2>2 DEF PowerLoss, TypeOK
    <3> QED BY <1>6, <3>1 DEF PowerLoss, Lines
  <2> QED BY <1>1, <1>6, <2>1, <2>3, <2>4 DEF PowerLoss
<1>7. CASE UNCHANGED vars
  BY <1>7 DEF vars, TypeOK
<1> QED BY <1>2, <1>3, <1>4, <1>5, <1>6, <1>7 DEF Next

\* The audit directory and the sessions keep their types (audit.go:80-140, manifest.go:60-110).
THEOREM TypeCorrect == Spec => []TypeOK
BY InitTyped, NextTyped, PTL DEF Spec

-----------------------------------------------------------------------------
(* The inductive invariants.                                                *)

StartOf(f, g) == Len(f) <= Len(g) /\ \A k \in 1 .. Len(f) : f[k] = g[k]
HeadOf(f)     == IF f = <<>> THEN <<>> ELSE f[Len(f)].hash

\* What a session has accepted is a chain, and proc holds its length and its head.
Chained ==
  \A s \in Sessions :
    /\ VerifyChain(accepted[s])
    /\ proc[s].seq = Len(accepted[s]) /\ proc[s].head = HeadOf(accepted[s])
    /\ accepted[s] # <<>> => proc[s].pc \in {"run", "seal", "seal sync", "closed", "dead"}

SealOf(k, s) == manifest[k] # Torn /\ manifest[k].of.opened = s /\ manifest[k].of.sealed

\* A record speaks of a session that opened, and a seal says how it ended.
Recorded ==
  \A k \in 1 .. Len(manifest) : \A s \in Sessions :
    /\ manifest[k] # Torn /\ manifest[k].of.opened = s =>
         /\ proc[s].pc \notin {"new", "link", "open"}
         /\ manifest[k].of.file = proc[s].name
    /\ SealOf(k, s) => /\ proc[s].pc \in {"seal sync", "closed", "dead"}
                       /\ manifest[k].of.seq = proc[s].seq
                       /\ manifest[k].of.head = proc[s].head

\* A session that has begun has a name, and no two files in the directory have the same.
Named ==
  /\ \A s \in Sessions : /\ proc[s].name \in Names \cup {None}
                         /\ proc[s].pc \notin {"new", "refused"} => proc[s].name \in Names
                         /\ proc[s].pc = "new" => proc[s].name = None
  /\ \A s, t \in OnDisk : proc[s].name = proc[t].name => s = t

\* The first n lines of the manifest name the session, or do not parse.
Trace(s, n) == \E k \in 1 .. n : manifest[k] = Torn \/ manifest[k].of.opened = s

\* Nothing is accepted before the open record is durable.
Traced ==
  /\ manifestSynced <= Len(manifest)
  /\ \A s \in Sessions :
       /\ proc[s].pc = "open sync" => Trace(s, Len(manifest))
       /\ proc[s].pc \in {"run", "seal", "seal sync"} \/ accepted[s] # <<>> =>
            Trace(s, manifestSynced)

\* On a disk that does not fault, an untouched file is a front of what was accepted.
Durable ==
  ~faulty => \A s \in Sessions \ damaged :
    /\ flushed[s] <= synced[s] /\ synced[s] <= Len(file[s])
    /\ StartOf(file[s], accepted[s])
    /\ proc[s].pc \in {"run", "seal", "seal sync"} => Len(file[s]) = Len(accepted[s])
    /\ proc[s].pc \in {"seal", "seal sync"} \/ (\E k \in 1 .. Len(manifest) : SealOf(k, s)) =>
         synced[s] = Len(accepted[s])

\* With one session at a time, on such a disk, the manifest is a chain and the running
\* session holds its head.
Alone ==
  ~Overlap /\ ~faulty =>
    /\ \A k \in 1 .. Len(manifest) : manifest[k] # Torn
    /\ VerifyManifest(manifest)
    /\ \A s, t \in Sessions : proc[s].pc \in Live /\ proc[t].pc \in Live => s = t
    /\ \A s \in Sessions :
         /\ proc[s].pc \in {"open", "run", "seal"} => proc[s].link = HeadOf(manifest)
         /\ proc[s].pc = "open sync" => HeadOf(manifest) = NewRecord(s, FALSE).hash
         /\ proc[s].pc = "seal sync" => HeadOf(manifest) = NewRecord(s, TRUE).hash

-----------------------------------------------------------------------------
(* What a step does to a session and to the manifest.                       *)

Kept(s) ==
  /\ proc'[s].seq = proc[s].seq /\ proc'[s].head = proc[s].head
  /\ proc[s].pc # "new" => proc'[s].name = proc[s].name
  /\ accepted'[s] = accepted[s]

Goes(s, from, to) == Kept(s) /\ proc[s].pc = from /\ proc'[s].pc = to

Still(s) == proc'[s] = proc[s] /\ accepted'[s] = accepted[s]

Accepts(s) ==
  /\ proc[s].pc = "run" /\ proc'[s].pc = "run" /\ proc'[s].link = proc[s].link
  /\ proc'[s].name = proc[s].name
  /\ \E ev \in Events :
       LET e == NewEntry(proc[s], ev)
       IN /\ accepted'[s] = Append(accepted[s], e)
          /\ proc'[s].seq = proc[s].seq + 1 /\ proc'[s].head = e.hash

\* The steps of a session that leave the manifest alone.
Quiet(s) ==
  /\ \/ Still(s)
     \/ Accepts(s)
     \/ Goes(s, "new", "refused") /\ proc'[s].name = proc[s].name
     \/ /\ Goes(s, "new", "link") /\ proc'[s].name \in Free
        /\ (~Overlap => \A t \in Sessions : proc[t].pc \notin Live)
     \/ Goes(s, "link", "refused")
     \/ /\ Goes(s, "link", "open") /\ proc'[s].link = HeadOf(manifest)
        /\ \A k \in 1 .. Len(manifest) : manifest[k] # Torn
     \/ Goes(s, "open sync", "refused")
     \/ Goes(s, "run", "seal") /\ proc'[s].link = proc[s].link
     \/ Goes(s, "seal sync", "closed")
     \/ proc[s].pc \in Live /\ Goes(s, proc[s].pc, "dead")
  /\ UNCHANGED <<manifest, manifestSynced>>

Before(seal) == IF seal THEN "seal" ELSE "open"
During(seal) == IF seal THEN "seal sync" ELSE "open sync"
After(seal)  == IF seal THEN "closed" ELSE "run"
Error(seal)  == IF seal THEN "closed" ELSE "refused"

Writes(s, seal) ==
  /\ Goes(s, Before(seal), During(seal)) /\ proc'[s].link = proc[s].link
  /\ manifest' = Written(manifest, NewRecord(s, seal)) /\ UNCHANGED manifestSynced

Fails(s, seal) ==
  /\ Goes(s, Before(seal), Error(seal))
  /\ manifest' \in Failed(manifest) /\ UNCHANGED manifestSynced

Syncs(s, seal) ==
  /\ Goes(s, During(seal), After(seal)) /\ proc'[s].link = NewRecord(s, seal).hash
  /\ manifestSynced' = Len(manifest) /\ UNCHANGED manifest

Moves(s) ==
  Quiet(s) \/ \E seal \in BOOLEAN : Writes(s, seal) \/ Fails(s, seal) \/ Syncs(s, seal)

\* A step moves one session and leaves the others, or is a power loss.
LEMMA OneMoves ==
  ASSUME TypeOK, Next, ~PowerLoss
  PROVE  \E s \in Sessions : Moves(s) /\ \A t \in Sessions \ {s} : Still(t)
<1>0. proc \in [Sessions -> Proc] /\ accepted \in [Sessions -> Seq(Entry)]
  BY DEF TypeOK, Proc
<1>1. PICK s \in Sessions : Session(s) \/ Kill(s) \/ Damage(s) \/ Drop(s)
  BY DEF Next
<1> USE <1>0
<1>2. ASSUME NEW from, NEW to, At(s, from, to), UNCHANGED accepted
      PROVE  /\ Goes(s, from, to) /\ proc'[s].link = proc[s].link
             /\ proc'[s].name = proc[s].name
             /\ \A t \in Sessions \ {s} : Still(t)
  BY <1>2 DEF At, Goes, Kept, Still, Proc
<1>3. CASE createSessionFile(s)
  <2>1. CASE At(s, "new", "refused")
    BY <1>2, <1>3, <2>1 DEF createSessionFile, Moves, Quiet, disk, told
  <2>2. ASSUME NEW n \in Free, proc[s].pc = "new",
               proc' = [proc EXCEPT ![s] = [@ EXCEPT !.pc = "link", !.name = n]]
        PROVE  Moves(s) /\ \A t \in Sessions \ {s} : Still(t)
    <3>1. UNCHANGED <<accepted, manifest, manifestSynced>>
      BY <1>3 DEF createSessionFile, disk, told
    <3>2. Goes(s, "new", "link") /\ proc'[s].name \in Free
      BY <2>2, <3>1 DEF Goes, Kept, Proc
    <3>3. \A t \in Sessions \ {s} : Still(t)
      BY <2>2, <3>1 DEF Still
    <3>4. ~Overlap => \A t \in Sessions : proc[t].pc \notin Live
      BY <1>3 DEF createSessionFile
    <3> QED BY <3>1, <3>2, <3>3, <3>4 DEF Moves, Quiet
  <2> QED BY <1>3, <2>1, <2>2 DEF createSessionFile
<1>4. CASE lastManifestHash(s)
  <2>1. \A t \in Sessions \ {s} : Still(t)
    BY <1>4 DEF lastManifestHash, Still, told
  <2>2. Goes(s, "link", "refused") \/ Goes(s, "link", "open")
    BY <1>4 DEF lastManifestHash, Goes, Kept, Proc, told
  <2>3. Goes(s, "link", "open") =>
          /\ proc'[s].link = HeadOf(manifest)
          /\ \A k \in 1 .. Len(manifest) : manifest[k] # Torn
    <3>1. DOMAIN manifest = 1 .. Len(manifest)
      BY DEF TypeOK
    <3> QED BY <1>4, <3>1 DEF lastManifestHash, Goes, HeadOf, Last, Proc
  <2> QED BY <1>4, <2>1, <2>2, <2>3 DEF lastManifestHash, Moves, Quiet, disk
<1>5. ASSUME NEW seal \in BOOLEAN,
             writeManifest(s, seal, Before(seal), During(seal), Error(seal))
      PROVE  Moves(s) /\ \A t \in Sessions \ {s} : Still(t)
  BY <1>2, <1>5 DEF writeManifest, Moves, Writes, Fails, told
<1>6. ASSUME NEW seal \in BOOLEAN,
             syncManifest(s, seal, During(seal), After(seal), Error(seal))
      PROVE  Moves(s) /\ \A t \in Sessions \ {s} : Still(t)
  <2>1. CASE At(s, During(seal), Error(seal)) /\ UNCHANGED manifestSynced
    BY <1>2, <1>6, <2>1 DEF syncManifest, Moves, Quiet, told, During, Error
  <2>2. CASE /\ proc[s].pc = During(seal)
             /\ proc' = [proc EXCEPT ![s] = [@ EXCEPT !.pc = After(seal),
                                                      !.link = NewRecord(s, seal).hash]]
             /\ manifestSynced' = Len(manifest)
    <3>1. UNCHANGED <<accepted, manifest>>
      BY <1>6 DEF syncManifest, told
    <3>2. Goes(s, During(seal), After(seal)) /\ proc'[s].link = NewRecord(s, seal).hash
      BY <2>2, <3>1 DEF Goes, Kept, Proc
    <3>3. \A t \in Sessions \ {s} : Still(t)
      BY <2>2, <3>1 DEF Still
    <3> QED BY <2>2, <3>1, <3>2, <3>3 DEF Moves, Syncs
  <2> QED BY <1>6, <2>1, <2>2 DEF syncManifest
<1>7. ASSUME NEW ev \in Events, AppendEntry(s, ev)
      PROVE  Moves(s) /\ \A t \in Sessions \ {s} : Still(t)
  <2> DEFINE e == NewEntry(proc[s], ev)
  <2> HIDE DEF e
  <2>1. \/ /\ proc' = [proc EXCEPT ![s] = [proc[s] EXCEPT !.seq = proc[s].seq + 1, !.head = e.hash]]
           /\ accepted' = [accepted EXCEPT ![s] = Append(accepted[s], e)]
        \/ UNCHANGED <<proc, accepted>>
    BY <1>7 DEF AppendEntry, e
  <2>2. proc[s].pc = "run" /\ UNCHANGED <<manifest, manifestSynced>>
    BY <1>7 DEF AppendEntry
  <2>3. \A t \in Sessions \ {s} : Still(t)
    BY <2>1 DEF Still
  <2>4. Still(s) \/ Accepts(s)
    <3>1. CASE UNCHANGED <<proc, accepted>>
      BY <3>1 DEF Still
    <3>2. CASE /\ proc' = [proc EXCEPT ![s] = [proc[s] EXCEPT !.seq = proc[s].seq + 1,
                                                              !.head = e.hash]]
               /\ accepted' = [accepted EXCEPT ![s] = Append(accepted[s], e)]
      <4>1. /\ proc'[s].pc = "run" /\ proc'[s].link = proc[s].link
            /\ proc'[s].name = proc[s].name
            /\ proc'[s].seq = proc[s].seq + 1 /\ proc'[s].head = e.hash
            /\ accepted'[s] = Append(accepted[s], e)
        BY <2>2, <3>2 DEF Proc
      <4> QED BY <2>2, <4>1 DEF Accepts, e
    <3> QED BY <2>1, <3>1, <3>2
  <2> QED BY <2>2, <2>3, <2>4 DEF Moves, Quiet
<1>8. CASE Flush(s) \/ Damage(s) \/ Drop(s)
  BY <1>8 DEF Flush, Damage, Drop, Moves, Quiet, Still, disk
<1>9. CASE Close(s)
  BY <1>2, <1>9 DEF Close, Moves, Quiet, told
<1>10. CASE Kill(s)
  BY <1>10 DEF Kill, Moves, Quiet, Goes, Kept, Still, disk, told, Proc
<1>11. CASE OpenRecord(s) \/ SealRecord(s)
  BY <1>5, <1>11 DEF OpenRecord, SealRecord, Before, During, Error
<1>12. CASE OpenSync(s) \/ SealSync(s)
  BY <1>6, <1>12 DEF OpenSync, SealSync, During, After, Error
<1> QED BY <1>1, <1>3, <1>4, <1>5, <1>7, <1>8, <1>9, <1>10, <1>11, <1>12 DEF Session

\* A power loss ends what was running.
LEMMA PowerEnds ==
  ASSUME TypeOK, PowerLoss
  PROVE  /\ \A s \in Sessions : /\ Kept(s) /\ proc'[s].link = proc[s].link
                                /\ IF proc[s].pc \in Live THEN proc'[s].pc = "dead"
                                                          ELSE proc'[s].pc = proc[s].pc
         /\ manifest' \in Remains(manifest, manifestSynced)
         /\ manifestSynced' = Len(manifest')
<1>1. proc \in [Sessions -> Proc]
  BY DEF TypeOK, Proc
<1> QED BY <1>1 DEF PowerLoss, Kept, told, Proc

-----------------------------------------------------------------------------
(* The chain of a session.                                                  *)

\* An entry made from the head of a chain continues it (audit.go, Append and VerifyChain).
LEMMA ChainGrows ==
  ASSUME NEW f \in Seq(Entry), VerifyChain(f), NEW p \in Proc, NEW ev \in Events,
         p.seq = Len(f), p.head = HeadOf(f)
  PROVE  LET e == NewEntry(p, ev) IN
         VerifyChain(Append(f, e)) /\ HeadOf(Append(f, e)) = e.hash
<1> DEFINE e == NewEntry(p, ev)
           g == Append(f, e)
<1>1. /\ e.seq = Len(f) /\ e.prev = HeadOf(f) /\ e.event = ev
      /\ e.hash = hashEntry(e.seq, e.event, e.prev)
  BY DEF NewEntry
<1> HIDE DEF e
<1>2. /\ Len(g) = Len(f) + 1 /\ g[Len(f) + 1] = e /\ Len(f) \in Nat
      /\ \A k \in 1 .. Len(f) : g[k] = f[k]
      /\ DOMAIN g = 1 .. (Len(f) + 1) /\ DOMAIN f = 1 .. Len(f)
  OBVIOUS
<1> HIDE DEF g
<1>3. HeadOf(g) = e.hash
  <2>1. g # <<>>
    BY <1>2
  <2> QED BY <1>2, <2>1 DEF HeadOf
<1>4. ASSUME NEW k \in DOMAIN g
      PROVE  /\ g[k].seq = k - 1
             /\ g[k].prev = IF k = 1 THEN <<>> ELSE g[k - 1].hash
             /\ g[k].hash = hashEntry(g[k].seq, g[k].event, g[k].prev)
  <2>1. CASE k \in 1 .. Len(f)
    <3>1. g[k] = f[k] /\ (k # 1 => g[k - 1] = f[k - 1])
      BY <1>2, <2>1
    <3>2. /\ f[k].seq = k - 1
          /\ f[k].prev = IF k = 1 THEN <<>> ELSE f[k - 1].hash
          /\ f[k].hash = hashEntry(f[k].seq, f[k].event, f[k].prev)
      BY <1>2, <2>1 DEF VerifyChain
    <3> QED BY <3>1, <3>2
  <2>2. CASE k = Len(f) + 1
    <3>1. g[k] = e
      BY <1>2, <2>2
    <3>2. CASE Len(f) = 0
      <4>1. f = <<>>
        BY <3>2
      <4> QED BY <1>1, <2>2, <3>1, <3>2, <4>1 DEF HeadOf
    <3>3. CASE Len(f) # 0
      <4>1. f # <<>> /\ k # 1 /\ g[k - 1] = f[Len(f)] /\ k - 1 = Len(f)
        BY <1>2, <2>2, <3>3
      <4> QED BY <1>1, <3>1, <4>1 DEF HeadOf
    <3> QED BY <3>2, <3>3
  <2> QED BY <1>2, <2>1, <2>2
<1>5. VerifyChain(g)
  BY <1>4 DEF VerifyChain
<1> QED BY <1>3, <1>5 DEF e, g

\* Every step keeps the chains.
LEMMA NextChained == TypeOK /\ Chained /\ [Next]_vars => Chained'
<1> SUFFICES ASSUME TypeOK, Chained, [Next]_vars, NEW s \in Sessions
             PROVE  /\ VerifyChain(accepted'[s])
                    /\ proc'[s].seq = Len(accepted'[s]) /\ proc'[s].head = HeadOf(accepted'[s])
                    /\ accepted'[s] # <<>> =>
                         proc'[s].pc \in {"run", "seal", "seal sync", "closed", "dead"}
  BY DEF Chained, VerifyChain, HeadOf
<1>0. /\ VerifyChain(accepted[s])
      /\ proc[s].seq = Len(accepted[s]) /\ proc[s].head = HeadOf(accepted[s])
      /\ accepted[s] # <<>> => proc[s].pc \in {"run", "seal", "seal sync", "closed", "dead"}
  BY DEF Chained
<1>1. CASE Still(s)
  BY <1>0, <1>1 DEF Still
<1>2. CASE Kept(s) /\ (proc[s].pc \in {"run", "seal", "seal sync", "closed", "dead"} =>
                        proc'[s].pc \in {"run", "seal", "seal sync", "closed", "dead"})
  BY <1>0, <1>2 DEF Kept
<1>3. CASE Accepts(s)
  <2>1. PICK ev \in Events :
          /\ accepted'[s] = Append(accepted[s], NewEntry(proc[s], ev))
          /\ proc'[s].seq = proc[s].seq + 1 /\ proc'[s].head = NewEntry(proc[s], ev).hash
    BY <1>3 DEF Accepts
  <2>2. accepted[s] \in Seq(Entry) /\ NewEntry(proc[s], ev) \in Entry /\ proc[s] \in Proc
    BY NewTyped DEF TypeOK
  <2>3. /\ VerifyChain(accepted'[s])
        /\ proc'[s].head = HeadOf(accepted'[s])
    BY <1>0, <2>1, <2>2, ChainGrows
  <2>4. proc'[s].seq = Len(accepted'[s])
    <3>1. Len(accepted'[s]) = Len(accepted[s]) + 1
      BY <2>1, <2>2, LongerByOne
    <3> QED BY <1>0, <2>1, <3>1
  <2> QED BY <1>3, <2>3, <2>4 DEF Accepts
<1>4. CASE PowerLoss
  BY <1>2, <1>4, PowerEnds
<1>5. CASE Next /\ ~PowerLoss
  <2>1. Moves(s) \/ Still(s)
    BY <1>5, OneMoves
  <2>2. CASE Quiet(s)
    BY <1>1, <1>2, <1>3, <2>2 DEF Quiet, Goes
  <2>3. CASE \E seal \in BOOLEAN : Writes(s, seal) \/ Fails(s, seal) \/ Syncs(s, seal)
    BY <1>2, <2>3 DEF Writes, Fails, Syncs, Goes, Before, During, After, Error
  <2> QED BY <1>1, <2>1, <2>2, <2>3 DEF Moves
<1>6. CASE UNCHANGED vars
  BY <1>1, <1>6 DEF vars, Still
<1> QED BY <1>4, <1>5, <1>6

-----------------------------------------------------------------------------
(* The records of the manifest.                                             *)

\* A line of the manifest is an old one, a torn one, or the record of the session that moves
\* past its write.
LEMMA ManifestLines ==
  ASSUME TypeOK, manifestSynced <= Len(manifest), [Next]_vars, NEW k \in 1 .. Len(manifest')
  PROVE  \/ k \in 1 .. Len(manifest) /\ manifest'[k] = manifest[k]
         \/ manifest'[k] = Torn
         \/ \E s \in Sessions, seal \in BOOLEAN :
              /\ manifest'[k] = NewRecord(s, seal)
              /\ proc[s].pc = Before(seal) /\ proc'[s].pc = During(seal) /\ Kept(s)
<1>0. /\ manifest \in Lines(Record) /\ Len(manifest) \in Nat
      /\ manifestSynced \in 0 .. Len(manifest)
  BY DEF TypeOK, Lines
<1>1. CASE UNCHANGED manifest
  BY <1>1
<1>2. CASE PowerLoss
  <2>1. manifest' \in Remains(manifest, manifestSynced)
    BY <1>2, PowerEnds
  <2>2. /\ Len(manifest') <= Len(manifest)
        /\ \A j \in 1 .. Len(manifest') : manifest'[j] = manifest[j] \/ manifest'[j] = Torn
        /\ manifest' \in Lines(Record)
    BY <1>0, <2>1, RemainsFacts
  <2>3. Len(manifest') \in Nat
    BY <2>2 DEF Lines
  <2> QED BY <1>0, <2>2, <2>3
<1>3. CASE Next /\ ~PowerLoss
  <2>1. PICK s \in Sessions : Moves(s)
    BY <1>3, OneMoves
  <2>2. ASSUME NEW seal \in BOOLEAN, Fails(s, seal)
        PROVE  \/ k \in 1 .. Len(manifest) /\ manifest'[k] = manifest[k]
               \/ manifest'[k] = Torn
    <3>1. manifest' \in Failed(manifest)
      BY <2>2 DEF Fails
    <3> QED BY <1>0, <3>1, FailedFacts
  <2>3. ASSUME NEW seal \in BOOLEAN, Writes(s, seal)
        PROVE  \/ k \in 1 .. Len(manifest) /\ manifest'[k] = manifest[k]
               \/ /\ manifest'[k] = NewRecord(s, seal)
                  /\ proc[s].pc = Before(seal) /\ proc'[s].pc = During(seal) /\ Kept(s)
    <3>1. NewRecord(s, seal) \in Record
      BY NewTyped
    <3>2. /\ \A j \in 1 .. Len(manifest) : manifest'[j] = manifest[j]
          /\ \/ manifest' = manifest
             \/ Len(manifest') = Len(manifest) + 1 /\ manifest'[Len(manifest')] = NewRecord(s, seal)
      BY <1>0, <2>3, <3>1, WrittenFacts DEF Writes
    <3> QED BY <1>0, <2>3, <3>2 DEF Writes, Goes
  <2> QED BY <1>1, <2>1, <2>2, <2>3 DEF Moves, Quiet, Syncs
<1> QED BY <1>1, <1>2, <1>3 DEF vars

\* A session does not go back, and what it sealed it keeps.
LEMMA NoWayBack ==
  ASSUME TypeOK, [Next]_vars, NEW s \in Sessions
  PROVE  /\ proc[s].pc \notin {"new", "link", "open"} =>
              /\ proc'[s].pc \notin {"new", "link", "open"}
              /\ proc'[s].name = proc[s].name
         /\ proc[s].pc \in {"seal sync", "closed", "dead"} =>
              proc'[s].pc \in {"seal sync", "closed", "dead"} /\ Kept(s)
<1>1. CASE PowerLoss
  BY <1>1, PowerEnds DEF Live, Kept
<1>2. CASE Next /\ ~PowerLoss
  <2>1. Moves(s) \/ Still(s)
    BY <1>2, OneMoves
  <2>2. CASE Still(s)
    BY <2>2 DEF Still, Kept
  <2>3. CASE Quiet(s)
    BY <2>2, <2>3 DEF Quiet, Goes, Accepts, Kept, Live
  <2>4. CASE \E seal \in BOOLEAN : Writes(s, seal) \/ Fails(s, seal) \/ Syncs(s, seal)
    BY <2>4 DEF Writes, Fails, Syncs, Goes, Kept, Before, During, After, Error
  <2> QED BY <2>1, <2>2, <2>3, <2>4 DEF Moves
<1>3. CASE UNCHANGED vars
  BY <1>3 DEF vars, Kept
<1> QED BY <1>1, <1>2, <1>3

\* Every step keeps the records true.
LEMMA NextRecorded ==
  TypeOK /\ Recorded /\ manifestSynced <= Len(manifest) /\ [Next]_vars => Recorded'
<1> SUFFICES ASSUME TypeOK, Recorded, manifestSynced <= Len(manifest), [Next]_vars,
                    NEW k \in 1 .. Len(manifest'), NEW s \in Sessions,
                    manifest'[k] # Torn, manifest'[k].of.opened = s
             PROVE  /\ proc'[s].pc \notin {"new", "link", "open"}
                    /\ manifest'[k].of.file = proc'[s].name
                    /\ manifest'[k].of.sealed =>
                         /\ proc'[s].pc \in {"seal sync", "closed", "dead"}
                         /\ manifest'[k].of.seq = proc'[s].seq
                         /\ manifest'[k].of.head = proc'[s].head
  BY DEF Recorded, SealOf
<1>1. CASE k \in 1 .. Len(manifest) /\ manifest'[k] = manifest[k]
  <2>1. /\ proc[s].pc \notin {"new", "link", "open"}
        /\ manifest[k].of.file = proc[s].name
        /\ manifest[k].of.sealed =>
             /\ proc[s].pc \in {"seal sync", "closed", "dead"}
             /\ manifest[k].of.seq = proc[s].seq
             /\ manifest[k].of.head = proc[s].head
    BY <1>1 DEF Recorded, SealOf
  <2> QED BY <1>1, <2>1, NoWayBack DEF Kept
<1>2. ASSUME NEW t \in Sessions, NEW seal \in BOOLEAN, manifest'[k] = NewRecord(t, seal),
             proc[t].pc = Before(seal), proc'[t].pc = During(seal), Kept(t)
      PROVE  /\ proc'[s].pc \notin {"new", "link", "open"}
             /\ manifest'[k].of.file = proc'[s].name
             /\ manifest'[k].of.sealed =>
                  /\ proc'[s].pc \in {"seal sync", "closed", "dead"}
                  /\ manifest'[k].of.seq = proc'[s].seq
                  /\ manifest'[k].of.head = proc'[s].head
  <2>1. /\ manifest'[k].of.file = proc[t].name /\ manifest'[k].of.opened = t /\ (manifest'[k].of.sealed <=> seal)
        /\ manifest'[k].of.seq = proc[t].seq /\ manifest'[k].of.head = proc[t].head
    <3>1. LET r == NewRecord(t, seal) IN
          /\ r.of.file = proc[t].name /\ r.of.opened = t /\ (r.of.sealed <=> seal)
          /\ r.of.seq = proc[t].seq /\ r.of.head = proc[t].head
      BY NewFields
    <3>2. manifest'[k] = NewRecord(t, seal)
      BY <1>2
    <3> QED BY <3>1, <3>2
  <2>2. s = t
    BY <2>1
  <2> QED BY <1>2, <2>1, <2>2 DEF Before, During, Kept
<1> QED BY <1>1, <1>2, ManifestLines

-----------------------------------------------------------------------------
(* The trace a session leaves.                                              *)

\* A trace in lines that stay, stays.
LEMMA TraceStays ==
  ASSUME NEW s, NEW n \in Nat, NEW m \in Nat, n <= m, Trace(s, n),
         \A k \in 1 .. n : manifest'[k] = manifest[k]
  PROVE  \E k \in 1 .. m : manifest'[k] = Torn \/ manifest'[k].of.opened = s
BY DEF Trace

\* Every step keeps the traces.
LEMMA NextTraced == TypeOK /\ Chained /\ Traced /\ [Next]_vars => Traced'
<1> SUFFICES ASSUME TypeOK, Chained, Traced, [Next]_vars PROVE Traced'
  OBVIOUS
<1> DEFINE Left(s, n) == \E k \in 1 .. n : manifest'[k] = Torn \/ manifest'[k].of.opened = s
<1>0. /\ manifest \in Lines(Record) /\ Len(manifest) \in Nat /\ manifestSynced \in Nat
      /\ manifestSynced \in 0 .. Len(manifest)
  <2>1. manifest \in Lines(Record) /\ manifestSynced \in Nat
    BY DEF TypeOK, Lines
  <2>2. Len(manifest) \in Nat
    BY <2>1 DEF Lines
  <2>3. manifestSynced <= Len(manifest)
    BY DEF Traced
  <2> QED BY <2>1, <2>2, <2>3
<1>1. SUFFICES /\ manifestSynced' <= Len(manifest')
               /\ \A s \in Sessions :
                    /\ proc'[s].pc = "open sync" => Left(s, Len(manifest'))
                    /\ proc'[s].pc \in {"run", "seal", "seal sync"} \/ accepted'[s] # <<>> =>
                         Left(s, manifestSynced')
  BY DEF Traced, Trace
<1>t. manifest' \in Lines(Record) /\ Len(manifest') \in Nat /\ manifestSynced' \in Nat
  <2>1. TypeOK'
    BY NextTyped
  <2>2. manifest' \in Lines(Record) /\ manifestSynced' \in Nat
    BY <2>1 DEF TypeOK, Lines
  <2> QED BY <2>2 DEF Lines
<1>2. ASSUME manifestSynced <= manifestSynced', manifestSynced' <= Len(manifest'),
             \A k \in 1 .. manifestSynced : manifest'[k] = manifest[k],
             NEW s \in Sessions,
             proc[s].pc \in {"run", "seal", "seal sync"} \/ accepted[s] # <<>>
      PROVE  Left(s, manifestSynced') /\ Left(s, Len(manifest'))
  <2>1. Trace(s, manifestSynced)
    BY <1>2 DEF Traced
  <2>2. Left(s, manifestSynced')
    BY <1>0, <1>t, <1>2, <2>1, TraceStays
  <2>3. Left(s, Len(manifest'))
    <3>0. manifestSynced <= manifestSynced' /\ manifestSynced' <= Len(manifest')
      BY <1>2
    <3>1. manifestSynced <= Len(manifest')
      BY <1>0, <1>t, <3>0
    <3> QED BY <1>0, <1>t, <1>2, <2>1, <3>1, TraceStays
  <2> QED BY <2>2, <2>3
<1>3. CASE PowerLoss
  <2>1. /\ manifest' \in Remains(manifest, manifestSynced)
        /\ manifestSynced' = Len(manifest')
    BY <1>3, PowerEnds
  <2>2. /\ manifestSynced <= manifestSynced' /\ manifestSynced' <= Len(manifest')
        /\ \A k \in 1 .. manifestSynced : manifest'[k] = manifest[k]
    BY <1>0, <1>t, <2>1, RemainsFacts
  <2>3. ASSUME NEW s \in Sessions
        PROVE  /\ proc'[s].pc \notin {"open sync", "run", "seal", "seal sync"}
               /\ accepted'[s] = accepted[s]
    BY <1>3, PowerEnds DEF Live, Kept
  <2> QED BY <1>2, <2>2, <2>3
<1>4. CASE Next /\ ~PowerLoss
  <2>1. PICK s \in Sessions : Moves(s) /\ \A t \in Sessions \ {s} : Still(t)
    BY <1>4, OneMoves
  <2>2. /\ manifestSynced <= manifestSynced' /\ manifestSynced' <= Len(manifest')
        /\ Len(manifest) <= Len(manifest')
        /\ \A k \in 1 .. Len(manifest) : manifest'[k] = manifest[k]
    <3>1. CASE UNCHANGED manifest /\ manifestSynced' \in {manifestSynced, Len(manifest)}
      BY <1>0, <3>1
    <3>2. ASSUME UNCHANGED manifestSynced, Len(manifest) <= Len(manifest')
          PROVE  manifestSynced <= manifestSynced' /\ manifestSynced' <= Len(manifest')
      BY <1>0, <1>t, <3>2
    <3>3. ASSUME NEW seal \in BOOLEAN, Writes(s, seal)
          PROVE  Len(manifest) <= Len(manifest') /\ UNCHANGED manifestSynced
                 /\ \A k \in 1 .. Len(manifest) : manifest'[k] = manifest[k]
      <4>1. NewRecord(s, seal) \in Record
        BY NewTyped
      <4> QED BY <1>0, <3>3, <4>1, WrittenFacts DEF Writes
    <3>4. ASSUME NEW seal \in BOOLEAN, Fails(s, seal)
          PROVE  Len(manifest) <= Len(manifest') /\ UNCHANGED manifestSynced
                 /\ \A k \in 1 .. Len(manifest) : manifest'[k] = manifest[k]
      BY <1>0, <3>4, FailedFacts DEF Fails
    <3>5. ASSUME NEW seal \in BOOLEAN, Syncs(s, seal)
          PROVE  UNCHANGED manifest /\ manifestSynced' = Len(manifest)
      BY <3>5 DEF Syncs
    <3>6. Quiet(s) => UNCHANGED <<manifest, manifestSynced>>
      BY DEF Quiet
    <3> QED BY <2>1, <3>1, <3>2, <3>3, <3>4, <3>5, <3>6 DEF Moves
  <2>3. \A k \in 1 .. manifestSynced : manifest'[k] = manifest[k]
    BY <1>0, <2>2
  <2>4. ASSUME NEW t \in Sessions, Trace(t, Len(manifest)) PROVE Left(t, Len(manifest'))
    BY <1>0, <1>t, <2>2, <2>4, TraceStays
  <2>5. ASSUME NEW t \in Sessions, Still(t)
        PROVE  /\ proc'[t].pc = "open sync" => Left(t, Len(manifest'))
               /\ proc'[t].pc \in {"run", "seal", "seal sync"} \/ accepted'[t] # <<>> =>
                    Left(t, manifestSynced')
    BY <1>2, <2>2, <2>3, <2>4, <2>5 DEF Still, Traced
  <2>6. ASSUME Quiet(s)
        PROVE  /\ proc'[s].pc = "open sync" => Left(s, Len(manifest'))
               /\ proc'[s].pc \in {"run", "seal", "seal sync"} \/ accepted'[s] # <<>> =>
                    Left(s, manifestSynced')
    <3>1. CASE Still(s)
      BY <2>5, <3>1
    <3>2. CASE ~Still(s)
      <4>1. proc'[s].pc # "open sync"
        BY <2>6, <3>2 DEF Quiet, Goes, Accepts
      <4>2. proc'[s].pc \in {"run", "seal", "seal sync"} \/ accepted'[s] # <<>> =>
              proc[s].pc \in {"run", "seal", "seal sync"} \/ accepted[s] # <<>>
        BY <2>6, <3>2 DEF Quiet, Goes, Accepts, Kept
      <4> QED BY <1>2, <2>2, <2>3, <4>1, <4>2
    <3> QED BY <3>1, <3>2
  <2>7. ASSUME NEW seal \in BOOLEAN, Writes(s, seal)
        PROVE  /\ proc'[s].pc = "open sync" => Left(s, Len(manifest'))
               /\ proc'[s].pc \in {"run", "seal", "seal sync"} \/ accepted'[s] # <<>> =>
                    Left(s, manifestSynced')
    <3>1. NewRecord(s, seal) \in Record /\ NewRecord(s, seal).of.opened = s
      BY NewTyped, NewFields
    <3>2. \/ manifest' = manifest /\ manifest # <<>> /\ manifest[Len(manifest)] = Torn
          \/ Len(manifest') = Len(manifest) + 1 /\ manifest'[Len(manifest')] = NewRecord(s, seal)
      BY <1>0, <2>7, <3>1, WrittenFacts DEF Writes
    <3>3. Len(manifest') \in 1 .. Len(manifest')
      BY <1>0, <1>t, <3>2 DEF Lines
    <3>4. Left(s, Len(manifest'))
      BY <3>1, <3>2, <3>3
    <3>5. proc'[s].pc \in {"run", "seal", "seal sync"} \/ accepted'[s] # <<>> =>
            proc[s].pc \in {"run", "seal", "seal sync"} \/ accepted[s] # <<>>
      BY <2>7 DEF Writes, Goes, Kept, Before, During
    <3> QED BY <1>2, <2>2, <2>3, <3>4, <3>5
  <2>8. ASSUME NEW seal \in BOOLEAN, Fails(s, seal)
        PROVE  /\ proc'[s].pc \notin {"open sync", "run", "seal", "seal sync"}
               /\ accepted'[s] = accepted[s]
    BY <2>8 DEF Fails, Goes, Kept, Error
  <2>9. ASSUME NEW seal \in BOOLEAN, Syncs(s, seal)
        PROVE  /\ proc'[s].pc # "open sync"
               /\ Left(s, manifestSynced')
    <3>1. manifestSynced' = Len(manifest')
      BY <2>9 DEF Syncs
    <3>2. Left(s, Len(manifest'))
      <4>1. CASE seal
        BY <1>2, <2>2, <2>3, <2>9, <4>1 DEF Syncs, Goes, During
      <4>2. CASE ~seal
        <5>1. Trace(s, Len(manifest))
          BY <2>9, <4>2 DEF Syncs, Goes, During, Traced
        <5> QED BY <2>4, <5>1
      <4> QED BY <4>1, <4>2
    <3> QED BY <2>9, <3>1, <3>2 DEF Syncs, Goes, After
  <2>10. \A t \in Sessions : t = s \/ Still(t)
    BY <2>1
  <2>11. /\ proc'[s].pc = "open sync" => Left(s, Len(manifest'))
         /\ proc'[s].pc \in {"run", "seal", "seal sync"} \/ accepted'[s] # <<>> =>
              Left(s, manifestSynced')
    BY <1>2, <2>1, <2>2, <2>3, <2>6, <2>7, <2>8, <2>9 DEF Moves
  <2> QED BY <2>2, <2>5, <2>10, <2>11
<1>5. CASE UNCHANGED vars
  BY <1>0, <1>5 DEF vars, Traced, Trace
<1> QED BY <1>3, <1>4, <1>5

\* A file once deleted does not come back.
LEMMA DropsStay == [Next]_vars => dropped \subseteq dropped'
BY DEF Next, vars, Session, createSessionFile, lastManifestHash, OpenRecord, OpenSync,
       SealRecord, SealSync, writeManifest, syncManifest, AppendEntry, Flush, Close, Kill,
       PowerLoss, Damage, Drop, told

\* Every step keeps the names apart.
LEMMA NextNamed == TypeOK /\ Named /\ [Next]_vars => Named'
<1> SUFFICES ASSUME TypeOK, Named, [Next]_vars PROVE Named'
  OBVIOUS
<1>0. ASSUME \A s \in Sessions : /\ proc'[s].name = proc[s].name
                                 /\ proc'[s].pc = "new" => proc[s].pc = "new"
                                 /\ proc[s].pc \in {"new", "refused"} =>
                                      proc'[s].pc \in {"new", "refused"}
      PROVE  Named'
  <2>1. OnDisk' \subseteq OnDisk
    BY <1>0, DropsStay DEF OnDisk
  <2> QED BY <1>0, <2>1 DEF Named, OnDisk
<1>1. CASE PowerLoss
  <2>1. ASSUME NEW s \in Sessions, proc[s].pc = "new" PROVE proc'[s].name = proc[s].name
    BY <1>1, <2>1 DEF PowerLoss, TypeOK, Live
  <2> QED BY <1>0, <1>1, <2>1, PowerEnds DEF Kept, Live
<1>2. CASE Next /\ ~PowerLoss
  <2>1. PICK s \in Sessions : Moves(s) /\ \A t \in Sessions \ {s} : Still(t)
    BY <1>2, OneMoves
  <2>2. \A t \in Sessions \ {s} : proc'[t] = proc[t]
    BY <2>1 DEF Still
  <2>3. CASE ~(Goes(s, "new", "link") /\ proc'[s].name \in Free)
    <3>1. CASE Quiet(s)
      <4>1. /\ proc'[s].name = proc[s].name
            /\ proc'[s].pc = "new" => proc[s].pc = "new"
            /\ proc[s].pc \in {"new", "refused"} => proc'[s].pc \in {"new", "refused"}
        BY <2>3, <3>1 DEF Quiet, Goes, Kept, Accepts, Still, Live
      <4> QED BY <1>0, <2>2, <4>1
    <3>2. CASE \E seal \in BOOLEAN : Writes(s, seal) \/ Fails(s, seal) \/ Syncs(s, seal)
      <4>1. /\ proc'[s].name = proc[s].name
            /\ proc'[s].pc # "new" /\ proc[s].pc \notin {"new", "refused"}
        BY <3>2 DEF Writes, Fails, Syncs, Goes, Kept, Before, During, After, Error
      <4> QED BY <1>0, <2>2, <4>1
    <3> QED BY <2>1, <3>1, <3>2 DEF Moves
  <2>4. CASE Goes(s, "new", "link") /\ proc'[s].name \in Free
    <3>1. proc'[s].name \in Names /\ \A t \in OnDisk : proc[t].name # proc'[s].name
      BY <2>4 DEF Free
    <3>2. OnDisk' \subseteq OnDisk \cup {s} /\ s \notin OnDisk
      BY <2>2, <2>4, DropsStay DEF OnDisk, Named, Goes
    <3>3. \A t, u \in OnDisk' : proc'[t].name = proc'[u].name => t = u
      <4>1. \A t \in OnDisk : proc'[t] = proc[t]
        BY <2>2, <3>2 DEF OnDisk
      <4> QED BY <3>1, <3>2, <4>1 DEF Named
    <3>4. ASSUME NEW t \in Sessions
          PROVE  /\ proc'[t].name \in Names \cup {None}
                 /\ proc'[t].pc \notin {"new", "refused"} => proc'[t].name \in Names
                 /\ proc'[t].pc = "new" => proc'[t].name = None
      <4>1. CASE t = s
        BY <2>4, <3>1, <4>1 DEF Goes
      <4>2. CASE t # s
        BY <2>2, <4>2 DEF Named
      <4> QED BY <4>1, <4>2
    <3> QED BY <3>3, <3>4 DEF Named
  <2> QED BY <2>3, <2>4
<1>3. CASE UNCHANGED vars
  BY <1>0, <1>3 DEF vars
<1> QED BY <1>1, <1>2, <1>3

\* What holds on any disk, however sessions overlap.
Inv == TypeOK /\ Chained /\ Named /\ Recorded /\ Traced

\* Nothing is recorded or accepted at the start.
LEMMA InitInv == Init => Inv
<1> SUFFICES ASSUME Init PROVE Inv
  OBVIOUS
<1>1. TypeOK
  BY InitTyped
<1>2. /\ \A s \in Sessions : /\ accepted[s] = <<>> /\ proc[s].pc = "new"
                             /\ proc[s].seq = 0 /\ proc[s].head = <<>>
                             /\ proc[s].name = None
      /\ manifest = <<>> /\ manifestSynced = 0
  BY DEF Init
<1>3. Chained
  BY <1>2, NoElements DEF Chained, VerifyChain, HeadOf
<1>4. Recorded
  BY <1>2, NoElements DEF Recorded
<1>5. Traced
  <2>1. manifestSynced <= Len(manifest)
    BY <1>2, NoElements
  <2>2. \A s \in Sessions : /\ proc[s].pc \notin {"open sync", "run", "seal", "seal sync"}
                            /\ accepted[s] = <<>>
    BY <1>2
  <2> QED BY <2>1, <2>2 DEF Traced
<1>6. Named
  BY <1>2 DEF Named, OnDisk
<1> QED BY <1>1, <1>3, <1>4, <1>5, <1>6 DEF Inv

\* Every step keeps all of it.
LEMMA NextInv == Inv /\ [Next]_vars => Inv'
BY NextTyped, NextChained, NextNamed, NextRecorded, NextTraced DEF Inv, Traced

-----------------------------------------------------------------------------
(* A directory that verifies strictly.                                      *)

\* Two chains of one length and one head are the same chain.  Read from the end: the last
\* hash commits to the last entry and to the hash before it.
LEMMA OneHeadOneChain ==
  ASSUME NEW f \in Seq(Entry), NEW g \in Seq(Entry), VerifyChain(f), VerifyChain(g),
         Len(f) = Len(g), HeadOf(f) = HeadOf(g)
  PROVE  f = g
<1> DEFINE n == Len(f)
           Agree(j) == f[j].hash = g[j].hash
           T == {j \in 1 .. n : \A k \in j .. n : Agree(k)}
<1>0. n \in Nat /\ DOMAIN f = 1 .. n /\ DOMAIN g = 1 .. n
  OBVIOUS
<1>e. \A k \in 1 .. n : f[k] \in Entry /\ g[k] \in Entry
  BY <1>0
<1>1. ASSUME NEW k \in 1 .. n, Agree(k)
      PROVE  f[k] = g[k] /\ (k # 1 => Agree(k - 1))
  <2>1. f[k] \in Entry /\ g[k] \in Entry
    BY <1>e
  <2>2. /\ f[k].seq \in Nat /\ f[k].event \in Events /\ f[k].prev \in Hash
        /\ g[k].seq \in Nat /\ g[k].event \in Events /\ g[k].prev \in Hash
    BY <2>1 DEF Entry
  <2>3. /\ f[k].hash = Append(f[k].prev, [seq |-> f[k].seq, event |-> f[k].event])
        /\ g[k].hash = Append(g[k].prev, [seq |-> g[k].seq, event |-> g[k].event])
        /\ f[k].prev = (IF k = 1 THEN <<>> ELSE f[k - 1].hash)
        /\ g[k].prev = (IF k = 1 THEN <<>> ELSE g[k - 1].hash)
    BY <1>0 DEF VerifyChain, hashEntry
  <2>4. /\ [seq |-> f[k].seq, event |-> f[k].event] \in Content
        /\ [seq |-> g[k].seq, event |-> g[k].event] \in Content
    BY <2>2 DEF Content
  <2>5. /\ f[k].prev = g[k].prev
        /\ [seq |-> f[k].seq, event |-> f[k].event] = [seq |-> g[k].seq, event |-> g[k].event]
    <3> DEFINE c == [seq |-> f[k].seq, event |-> f[k].event]
               d == [seq |-> g[k].seq, event |-> g[k].event]
    <3>1. c \in Content /\ d \in Content
      BY <2>4
    <3>2. f[k].hash = Append(f[k].prev, c) /\ g[k].hash = Append(g[k].prev, d)
      BY <2>3
    <3> HIDE DEF c, d
    <3>3. /\ f[k].prev \in Hash /\ g[k].prev \in Hash
          /\ Append(f[k].prev, c) = Append(g[k].prev, d)
      BY <1>1, <2>2, <3>2
    <3>4. f[k].prev = g[k].prev /\ c = d
      BY <3>1, <3>3, HashReadsBack
    <3> QED BY <3>4 DEF c, d
  <2>6. f[k].seq = g[k].seq /\ f[k].event = g[k].event
    BY <2>5
  <2>7. /\ f[k] = [seq |-> f[k].seq, event |-> f[k].event, prev |-> f[k].prev, hash |-> f[k].hash]
        /\ g[k] = [seq |-> g[k].seq, event |-> g[k].event, prev |-> g[k].prev, hash |-> g[k].hash]
    BY <2>1 DEF Entry
  <2> QED BY <1>1, <2>3, <2>5, <2>6, <2>7
<1>2. CASE n = 0
  <2>1. \A k \in 1 .. n : f[k] = g[k]
    BY <1>2, NoElements
  <2> QED BY <2>1, SameSeq
<1>3. CASE n # 0
  <2>1. Agree(n)
    <3>1. f # <<>> /\ g # <<>>
      BY <1>3
    <3> QED BY <3>1 DEF HeadOf
  <2>2. n \in T /\ T \in SUBSET Nat
    <3>1. \A k \in n .. n : k = n
      BY <1>0, OnePoint
    <3> QED BY <1>0, <1>3, <2>1, <3>1
  <2>3. PICK x \in T : \A y \in T : x <= y
    BY <2>2, LeastNat
  <2>4. x \in 1 .. n /\ \A k \in x .. n : Agree(k)
    OBVIOUS
  <2> HIDE DEF Agree
  <2>5. x = 1
    <3> SUFFICES ASSUME x # 1 PROVE FALSE
      OBVIOUS
    <3>1. Agree(x) /\ x - 1 \in 1 .. n /\ x \in 1 .. n
      BY <1>0, <2>4
    <3>2. Agree(x - 1)
      BY <1>1, <3>1
    <3>3. \A k \in (x - 1) .. n : k = x - 1 \/ k \in x .. n
      BY <1>0, <2>4
    <3>4. \A k \in (x - 1) .. n : Agree(k)
      BY <2>4, <3>2, <3>3
    <3>5. x - 1 \in T
      BY <3>1, <3>4
    <3>6. x <= x - 1
      BY <2>3, <3>5
    <3> QED BY <1>0, <2>4, <3>6
  <2>6. \A k \in 1 .. n : f[k] = g[k]
    BY <1>1, <2>4, <2>5
  <2> QED BY <2>6, SameSeq
<1> QED BY <1>2, <1>3

\* Lines that all parse are entries.
LEMMA ParsedLines ==
  ASSUME NEW T, NEW f \in Lines(T), \A k \in DOMAIN f : f[k] # Torn
  PROVE  f \in Seq(T)
<1>1. f \in [1 .. Len(f) -> T \cup {Torn}] /\ Len(f) \in Nat /\ DOMAIN f = 1 .. Len(f)
  BY DEF Lines
<1>2. \A k \in 1 .. Len(f) : f[k] \in T
  BY <1>1
<1>3. f \in [1 .. Len(f) -> T]
  BY <1>1, <1>2
<1> QED BY <1>1, <1>3, SeqDef

\* A name that one session has had stands for it.
LEMMA NameIsSession ==
  ASSUME Inv, NEW s \in Sessions, proc[s].name # None, ~Reused(s), NEW k \in DOMAIN manifest,
         manifest[k] # Torn, manifest[k].of.file = proc[s].name
  PROVE  manifest[k].of.opened = s
<1>1. k \in 1 .. Len(manifest) /\ manifest[k] \in Record
  BY DEF Inv, TypeOK
<1>2. manifest[k].of.opened \in Sessions
  BY <1>1 DEF Record, Summary
<1>3. proc[manifest[k].of.opened].name = proc[s].name
  BY <1>1, <1>2 DEF Inv, Recorded
<1> QED BY <1>2, <1>3 DEF Reused

\* The seals of a name that VerifyDir compares the file with say how its session ended.
LEMMA SealIsTrue ==
  ASSUME Inv, NEW s \in Sessions, \A k \in DOMAIN manifest : manifest[k] # Torn,
         proc[s].name # None, ~Reused(s), Sealed(proc[s].name)
  PROVE  HeadMatches(s) <=> /\ Len(accepted[s]) = Len(file[s])
                            /\ HeadOf(accepted[s]) = HeadOf(file[s])
<1> DEFINE seals == Seals(proc[s].name)
           top == CHOOSE k \in seals : \A j \in seals : j <= k
<1>1. DOMAIN manifest = 1 .. Len(manifest) /\ Len(manifest) \in Nat
  BY DEF Inv, TypeOK
<1>2. seals # {} /\ seals \subseteq 1 .. Len(manifest)
  BY <1>1 DEF Sealed, Seals
<1>s. \A k \in seals : SealOf(k, s)
  BY NameIsSession DEF Seals, SealOf
<1> HIDE DEF seals
<1>3. \E k \in seals : \A j \in seals : j <= k
  <2> DEFINE R == {Len(manifest) - k : k \in seals}
  <2>1. R \in SUBSET Nat /\ R # {}
    <3>1. \A k \in seals : Len(manifest) - k \in Nat
      BY <1>1, <1>2
    <3> QED BY <1>2, <3>1
  <2>2. PICK x \in R : \A y \in R : x <= y
    BY <2>1, LeastNat
  <2>3. PICK k \in seals : x = Len(manifest) - k
    BY <2>2
  <2>4. ASSUME NEW j \in seals PROVE j <= k
    <3>1. Len(manifest) - k <= Len(manifest) - j
      BY <2>2, <2>3
    <3>2. j \in 1 .. Len(manifest) /\ k \in 1 .. Len(manifest)
      BY <1>2
    <3> QED BY <1>1, <3>1, <3>2
  <2> QED BY <2>4
<1>4. top \in seals
  BY <1>3
<1>5. manifest[top].of.seq = Len(accepted[s]) /\ manifest[top].of.head = HeadOf(accepted[s])
  <2>1. top \in 1 .. Len(manifest) /\ SealOf(top, s)
    BY <1>2, <1>4, <1>s
  <2>2. manifest[top].of.seq = proc[s].seq /\ manifest[top].of.head = proc[s].head
    BY <2>1 DEF Inv, Recorded
  <2> QED BY <2>2 DEF Inv, Chained
<1>6. HeadMatches(s) <=> /\ manifest[top].of.seq = Len(file[s])
                         /\ manifest[top].of.head = HeadOf(file[s])
  BY DEF HeadMatches, HeadOf, Last, seals
<1> QED BY <1>5, <1>6

\* The last step: what StrictOK checked leaves one possible file.
LEMMA StrictFollows == Inv => StrictMeansComplete
<1> SUFFICES ASSUME Inv, StrictOK, NEW s \in Sessions, ~Reused(s)
             PROVE  IF s \in OnDisk THEN file[s] = accepted[s] ELSE accepted[s] = <<>>
  BY DEF StrictMeansComplete
<1>0. Readable /\ Problems = {} /\ \A t \in OnDisk : Sealed(proc[t].name)
  BY DEF StrictOK, VerifyDirOK
<1>1. CASE s \in OnDisk
  <2>1. /\ Sealed(proc[s].name) /\ proc[s].name # None
        /\ \A k \in DOMAIN manifest : manifest[k] # Torn
    BY <1>0, <1>1 DEF Readable, OnDisk
  <2>2. VerifyChain(file[s])
    <3>1. ~VerifyChain(file[s]) => <<"chain", s>> \in Problems
      BY <1>1 DEF Problems
    <3> QED BY <1>0, <3>1
  <2>3. HeadMatches(s)
    <3>1. ~HeadMatches(s) => <<"head", s>> \in Problems
      BY <1>1, <2>1 DEF Problems
    <3> QED BY <1>0, <3>1
  <2>4. Len(accepted[s]) = Len(file[s]) /\ HeadOf(accepted[s]) = HeadOf(file[s])
    BY <2>1, <2>3, SealIsTrue
  <2>5. file[s] \in Seq(Entry)
    <3>1. file[s] \in Lines(Entry)
      BY DEF Inv, TypeOK, Lines
    <3>2. \A k \in DOMAIN file[s] : file[s][k] # Torn
      BY <1>0, <1>1 DEF Readable
    <3> QED BY <3>1, <3>2, ParsedLines
  <2>6. accepted[s] \in Seq(Entry) /\ VerifyChain(accepted[s])
    BY DEF Inv, TypeOK, Chained
  <2> QED BY <1>1, <2>2, <2>4, <2>5, <2>6, OneHeadOneChain
<1>2. CASE s \notin OnDisk
  <2> SUFFICES ASSUME accepted[s] # <<>> PROVE FALSE
    BY <1>2
  <2>0. proc[s].name \in Names
    BY DEF Inv, Chained, Named
  <2>1. Known(proc[s].name)
    <3>1. Trace(s, manifestSynced) /\ manifestSynced <= Len(manifest)
      BY DEF Inv, Traced
    <3>2. manifestSynced \in Nat /\ Len(manifest) \in Nat /\ DOMAIN manifest = 1 .. Len(manifest)
      BY DEF Inv, TypeOK
    <3>3. PICK k \in 1 .. manifestSynced : manifest[k] = Torn \/ manifest[k].of.opened = s
      BY <3>1 DEF Trace
    <3>4. k \in DOMAIN manifest
      BY <3>1, <3>2
    <3>5. manifest[k].of.file = proc[s].name
      BY <1>0, <3>2, <3>3, <3>4 DEF Inv, Recorded, Readable
    <3> QED BY <3>4, <3>5 DEF Known
  <2>2. <<"missing", proc[s].name>> \in Problems
    <3>1. \A t \in OnDisk : proc[t].name # proc[s].name
      BY <1>2, <2>0 DEF Reused, OnDisk
    <3> QED BY <2>0, <2>1, <3>1 DEF Problems, Missing
  <2> QED BY <1>0, <2>2
<1> QED BY <1>1, <1>2

\* "StrictOK asks whether everything is provably right" (verify.go:45-53): a directory that passes
\* it holds, for every session, exactly the entries whose Append succeeded, on any disk, however
\* sessions overlapped or ended and whatever was done to their files afterwards.  A name that came
\* again after its file was deleted is left out: VerifyDir cannot tell its sessions apart.
THEOREM StrictIsComplete == Spec => []StrictMeansComplete
<1>1. Spec => []Inv
  BY InitInv, NextInv, PTL DEF Spec
<1> QED BY <1>1, StrictFollows, PTL

-----------------------------------------------------------------------------
(* What is on a disk that does not fault.                                   *)

Same(s) ==
  /\ file'[s] = file[s] /\ synced'[s] = synced[s] /\ flushed'[s] = flushed[s]
  /\ accepted'[s] = accepted[s]
  /\ proc'[s].pc = "run" => proc[s].pc \in {"run", "open sync"}
  /\ proc'[s].pc \in {"seal", "seal sync"} => proc[s].pc \in {"seal", "seal sync"}

Grows(s) ==
  /\ proc[s].pc = "run" /\ proc'[s].pc = "run"
  /\ synced'[s] = synced[s] /\ flushed'[s] = flushed[s]
  /\ \E e \in Entry : /\ file'[s] = Written(file[s], e)
                      /\ accepted'[s] = Append(accepted[s], e)

Commits(s) ==
  /\ proc[s].pc = "run" /\ file'[s] = file[s] /\ accepted'[s] = accepted[s]
  /\ synced'[s] = Len(file[s])
  /\ \/ proc'[s].pc = "run" /\ flushed'[s] = Len(accepted[s])
     \/ proc'[s].pc = "seal" /\ flushed'[s] = flushed[s]

\* What a step does to a file that is not damaged by it.
LEMMA FileMoves ==
  ASSUME TypeOK, Next, ~PowerLoss, ~faulty, NEW s \in Sessions, s \notin damaged'
  PROVE  s \notin damaged /\ (Same(s) \/ Grows(s) \/ Commits(s))
<1>0. /\ proc \in [Sessions -> Proc] /\ file \in [Sessions -> Lines(Entry)]
      /\ accepted \in [Sessions -> Seq(Entry)]
      /\ synced \in [Sessions -> Nat] /\ flushed \in [Sessions -> Nat]
  BY DEF TypeOK, Proc, Lines
<1> USE <1>0
<1>1. PICK u \in Sessions : Session(u) \/ Kill(u) \/ Damage(u) \/ Drop(u)
  BY DEF Next
<1>2. ASSUME NEW from, NEW to, At(u, from, to)
      PROVE  proc[u].pc = from /\ proc'[u].pc = to /\ \A t \in Sessions \ {u} : proc'[t] = proc[t]
  BY <1>2 DEF At, Proc
<1>q. ASSUME UNCHANGED <<file, synced, told>>, \A t \in Sessions \ {u} : proc'[t] = proc[t],
             proc'[u].pc = "run" => proc[u].pc = "open sync", proc'[u].pc # "seal",
             proc'[u].pc = "seal sync" => proc[u].pc = "seal"
      PROVE  s \notin damaged /\ Same(s)
  <2>1. s \notin damaged /\ UNCHANGED <<file, synced, flushed, accepted>>
    BY <1>q DEF told
  <2>2. /\ proc'[s].pc = "run" => proc[s].pc \in {"run", "open sync"}
        /\ proc'[s].pc \in {"seal", "seal sync"} => proc[s].pc \in {"seal", "seal sync"}
    <3>1. CASE s = u
      BY <1>q, <3>1
    <3>2. CASE s # u
      BY <1>q, <3>2
    <3> QED BY <3>1, <3>2
  <2> QED BY <2>1, <2>2 DEF Same
<1>3. CASE createSessionFile(u)
  <2>1. UNCHANGED <<file, synced, told>>
    BY <1>3 DEF createSessionFile, disk
  <2>2. proc'[u].pc \in {"link", "refused"} /\ \A t \in Sessions \ {u} : proc'[t] = proc[t]
    <3>1. ASSUME NEW n,
                 proc' = [proc EXCEPT ![u] = [@ EXCEPT !.pc = "link", !.name = n]]
          PROVE  proc'[u].pc = "link" /\ \A t \in Sessions \ {u} : proc'[t] = proc[t]
      BY <3>1 DEF Proc
    <3>2. CASE At(u, "new", "refused")
      BY <1>2, <3>2
    <3> QED BY <1>3, <3>1, <3>2 DEF createSessionFile
  <2> QED BY <1>q, <2>1, <2>2
<1>4. CASE lastManifestHash(u)
  <2>1. proc'[u].pc \in {"open", "refused"} /\ \A t \in Sessions \ {u} : proc'[t] = proc[t]
    BY <1>4 DEF lastManifestHash, Proc
  <2>2. UNCHANGED <<file, synced, told>>
    BY <1>4 DEF lastManifestHash, disk
  <2> QED BY <1>q, <2>1, <2>2
<1>5. CASE OpenRecord(u) \/ SealRecord(u)
  <2>1. ASSUME NEW seal, NEW from, NEW to, NEW err, writeManifest(u, seal, from, to, err)
        PROVE  UNCHANGED <<file, synced, told>> /\ (At(u, from, to) \/ At(u, from, err))
    BY <2>1 DEF writeManifest
  <2>2. CASE OpenRecord(u)
    <3>1. /\ UNCHANGED <<file, synced, told>>
          /\ At(u, "open", "open sync") \/ At(u, "open", "refused")
      BY <2>1, <2>2 DEF OpenRecord
    <3>2. /\ proc'[u].pc \in {"open sync", "refused"}
          /\ \A t \in Sessions \ {u} : proc'[t] = proc[t]
      BY <1>2, <3>1
    <3> QED BY <1>q, <3>1, <3>2
  <2>3. CASE SealRecord(u)
    <3>1. /\ UNCHANGED <<file, synced, told>>
          /\ At(u, "seal", "seal sync") \/ At(u, "seal", "closed")
      BY <2>1, <2>3 DEF SealRecord
    <3>2. /\ proc[u].pc = "seal" /\ proc'[u].pc \in {"seal sync", "closed"}
          /\ \A t \in Sessions \ {u} : proc'[t] = proc[t]
      BY <1>2, <3>1
    <3> QED BY <1>q, <3>1, <3>2
  <2> QED BY <1>5, <2>2, <2>3
<1>6. CASE OpenSync(u) \/ SealSync(u)
  <2>1. ASSUME NEW seal, NEW from, NEW to, NEW err, syncManifest(u, seal, from, to, err)
        PROVE  /\ proc[u].pc = from /\ proc'[u].pc = to
               /\ \A t \in Sessions \ {u} : proc'[t] = proc[t]
               /\ UNCHANGED <<file, synced, told>>
    <3> DEFINE h == NewRecord(u, seal).hash
    <3> HIDE DEF h
    <3>1. /\ proc[u].pc = from /\ UNCHANGED <<file, synced, told>>
          /\ proc' = [proc EXCEPT ![u] = [proc[u] EXCEPT !.pc = to, !.link = h]]
      BY <2>1 DEF syncManifest, h
    <3>2. proc[u] \in Proc
      OBVIOUS
    <3>3. proc'[u].pc = to
      BY <3>1, <3>2 DEF Proc
    <3>4. \A t \in Sessions \ {u} : proc'[t] = proc[t]
      BY <3>1
    <3> QED BY <3>1, <3>3, <3>4
  <2>2. CASE OpenSync(u)
    <3>1. /\ proc[u].pc = "open sync" /\ proc'[u].pc = "run"
          /\ \A t \in Sessions \ {u} : proc'[t] = proc[t]
          /\ UNCHANGED <<file, synced, told>>
      BY <2>1, <2>2 DEF OpenSync
    <3> QED BY <1>q, <3>1
  <2>3. CASE SealSync(u)
    <3>1. /\ proc'[u].pc = "closed"
          /\ \A t \in Sessions \ {u} : proc'[t] = proc[t]
          /\ UNCHANGED <<file, synced, told>>
      BY <2>1, <2>3 DEF SealSync
    <3> QED BY <1>q, <3>1
  <2> QED BY <1>6, <2>2, <2>3
<1>7. ASSUME NEW ev \in Events, AppendEntry(u, ev)
      PROVE  s \notin damaged /\ (Same(s) \/ Grows(s) \/ Commits(s))
  <2> DEFINE e == NewEntry(proc[u], ev)
  <2>1. e \in Entry
    BY NewTyped
  <2> HIDE DEF e
  <2>2. /\ proc[u].pc = "run" /\ UNCHANGED <<synced, flushed, damaged>>
        /\ \/ /\ file' = [file EXCEPT ![u] = Written(file[u], e)]
              /\ proc' = [proc EXCEPT ![u] = [proc[u] EXCEPT !.seq = proc[u].seq + 1,
                                                             !.head = e.hash]]
              /\ accepted' = [accepted EXCEPT ![u] = Append(accepted[u], e)]
           \/ /\ \E f \in Failed(file[u]) : file' = [file EXCEPT ![u] = f]
              /\ UNCHANGED <<proc, accepted>>
    BY <1>7 DEF AppendEntry, e
  <2>3. CASE /\ \E f \in Failed(file[u]) : file' = [file EXCEPT ![u] = f]
             /\ UNCHANGED <<proc, accepted>>
    <3>1. file' = file
      BY <2>3 DEF Failed
    <3> QED BY <2>2, <2>3, <3>1 DEF Same
  <2>4. CASE /\ file' = [file EXCEPT ![u] = Written(file[u], e)]
             /\ proc' = [proc EXCEPT ![u] = [proc[u] EXCEPT !.seq = proc[u].seq + 1,
                                                            !.head = e.hash]]
             /\ accepted' = [accepted EXCEPT ![u] = Append(accepted[u], e)]
    <3>1. CASE s = u
      <4>1. /\ file'[s] = Written(file[s], e) /\ accepted'[s] = Append(accepted[s], e)
            /\ proc'[s].pc = "run"
        BY <2>2, <2>4, <3>1 DEF Proc
      <4> QED BY <2>1, <2>2, <3>1, <4>1 DEF Grows
    <3>2. CASE s # u
      <4>1. file'[s] = file[s] /\ accepted'[s] = accepted[s] /\ proc'[s] = proc[s]
        BY <2>4, <3>2
      <4> QED BY <2>2, <4>1 DEF Same
    <3> QED BY <3>1, <3>2
  <2> QED BY <2>2, <2>3, <2>4
<1>8. CASE Flush(u)
  BY <1>8 DEF Flush, Same, Commits
<1>9. CASE Close(u)
  <2>1. /\ UNCHANGED <<file, told>> /\ proc[u].pc = "run" /\ proc'[u].pc = "seal"
        /\ \A t \in Sessions \ {u} : proc'[t] = proc[t]
        /\ synced' = [synced EXCEPT ![u] = Len(file[u])]
    BY <1>2, <1>9 DEF Close
  <2> QED BY <2>1 DEF Same, Commits, told
<1>10. CASE Kill(u)
  <2>1. proc'[u].pc = "dead" /\ \A t \in Sessions \ {u} : proc'[t] = proc[t]
    BY <1>10 DEF Kill, Proc
  <2>2. UNCHANGED <<file, synced, told>>
    BY <1>10 DEF Kill, disk
  <2> QED BY <1>q, <2>1, <2>2
<1>11. CASE Damage(u)
  BY <1>11 DEF Damage, Same
<1>12. CASE Drop(u)
  BY <1>12 DEF Drop, Same, disk
<1> QED BY <1>1, <1>3, <1>4, <1>5, <1>6, <1>7, <1>8, <1>9, <1>10, <1>11, <1>12 DEF Session

\* A seal in the manifest is an old one, unless its session writes it now.
LEMMA SealIsOld ==
  ASSUME Inv, [Next]_vars, NEW s \in Sessions, NEW k \in 1 .. Len(manifest'), SealOf(k, s)'
  PROVE  proc[s].pc = "seal" \/ \E j \in 1 .. Len(manifest) : SealOf(j, s)
<1>0. TypeOK /\ manifestSynced <= Len(manifest)
  BY DEF Inv, Traced
<1>1. manifest'[k] # Torn /\ manifest'[k].of.opened = s /\ manifest'[k].of.sealed
  BY DEF SealOf
<1>2. CASE k \in 1 .. Len(manifest) /\ manifest'[k] = manifest[k]
  BY <1>1, <1>2 DEF SealOf
<1>3. ASSUME NEW t \in Sessions, NEW seal \in BOOLEAN, manifest'[k] = NewRecord(t, seal),
             proc[t].pc = Before(seal)
      PROVE  proc[s].pc = "seal"
  <2>1. NewRecord(t, seal).of.opened = t /\ (NewRecord(t, seal).of.sealed <=> seal)
    BY NewFields
  <2>2. t = s /\ seal
    BY <1>1, <1>3, <2>1
  <2> QED BY <1>3, <2>2 DEF Before
<1> QED BY <1>0, <1>1, <1>2, <1>3, ManifestLines

Sound(s) ==
  /\ flushed[s] <= synced[s] /\ synced[s] <= Len(file[s])
  /\ StartOf(file[s], accepted[s])
  /\ proc[s].pc \in {"run", "seal", "seal sync"} => Len(file[s]) = Len(accepted[s])
  /\ proc[s].pc \in {"seal", "seal sync"} \/ (\E k \in 1 .. Len(manifest) : SealOf(k, s)) =>
       synced[s] = Len(accepted[s])

\* Every step keeps what is on the disk.
LEMMA NextDurable == Inv /\ Durable /\ [Next]_vars => Durable'
<1> SUFFICES ASSUME Inv, Durable, [Next]_vars, ~faulty, faulty' = faulty,
                    NEW s \in Sessions, s \notin damaged'
             PROVE  Sound(s)'
  <2>1. [Next]_vars => faulty' = faulty
    BY DEF Next, vars
  <2> QED BY <2>1 DEF Durable, Sound
<1>0. /\ file[s] \in Lines(Entry) /\ accepted[s] \in Seq(Entry)
      /\ synced[s] \in Nat /\ flushed[s] \in Nat
  BY DEF Inv, TypeOK, Lines
<1>l. Len(file[s]) \in Nat /\ Len(accepted[s]) \in Nat
  BY <1>0 DEF Lines
<1>i. Inv'
  BY NextInv
<1>1. s \notin damaged => Sound(s)
  BY DEF Durable, Sound
<1>a. Sound(s) => /\ flushed[s] <= synced[s] /\ synced[s] <= Len(file[s])
                  /\ Len(file[s]) <= Len(accepted[s])
  BY DEF Sound, StartOf
<1>2. CASE PowerLoss
  <2>1. s \notin damaged /\ flushed'[s] = flushed[s] /\ accepted'[s] = accepted[s]
    BY <1>2 DEF PowerLoss, told
  <2>2. file'[s] \in Remains(file[s], synced[s]) /\ synced'[s] = Len(file'[s])
    BY <1>2 DEF PowerLoss
  <2>3. Sound(s)
    BY <1>1, <2>1
  <2>4. synced[s] \in 0 .. Len(file[s])
    BY <1>0, <1>l, <1>a, <2>3
  <2>5. /\ file'[s] \in Lines(Entry)
        /\ synced[s] <= Len(file'[s]) /\ Len(file'[s]) <= Len(file[s])
        /\ \A k \in 1 .. Len(file'[s]) : file'[s][k] = file[s][k]
    BY <1>0, <2>2, <2>4, RemainsFacts
  <2>6. Len(file'[s]) \in Nat
    BY <2>5 DEF Lines
  <2>7. flushed'[s] <= synced'[s] /\ synced'[s] <= Len(file'[s])
    <3>1. flushed[s] <= synced[s] /\ synced[s] <= Len(file'[s])
      BY <1>a, <2>3, <2>5
    <3> QED BY <1>0, <2>1, <2>2, <2>6, <3>1
  <2>8. StartOf(file'[s], accepted'[s])
    <3>1. Len(file'[s]) <= Len(file[s]) /\ Len(file[s]) <= Len(accepted[s])
      BY <1>a, <2>3, <2>5
    <3>2. Len(file'[s]) <= Len(accepted[s])
      BY <1>l, <2>6, <3>1
    <3>3. \A k \in 1 .. Len(file[s]) : file[s][k] = accepted[s][k]
      BY <2>3 DEF Sound, StartOf
    <3>4. \A k \in 1 .. Len(file'[s]) : file'[s][k] = accepted[s][k]
      BY <1>l, <2>5, <2>6, <3>1, <3>3
    <3> QED BY <2>1, <3>2, <3>4 DEF StartOf
  <2>9. proc'[s].pc \notin {"run", "seal", "seal sync"}
    BY <1>2, PowerEnds DEF Live, Inv
  <2>10. ASSUME NEW k \in 1 .. Len(manifest'), SealOf(k, s)'
         PROVE  synced'[s] = Len(accepted'[s])
    <3>1. proc[s].pc = "seal" \/ \E j \in 1 .. Len(manifest) : SealOf(j, s)
      BY <2>10, SealIsOld
    <3>2. synced[s] = Len(accepted[s])
      BY <2>3, <3>1 DEF Sound
    <3>3. /\ synced[s] <= Len(file'[s]) /\ Len(file'[s]) <= Len(file[s])
          /\ Len(file[s]) <= Len(accepted[s])
      BY <1>a, <2>3, <2>5
    <3>4. Len(file'[s]) = Len(accepted[s])
      BY <1>0, <1>l, <2>6, <3>2, <3>3
    <3> QED BY <2>1, <2>2, <3>4
  <2> QED BY <2>7, <2>8, <2>9, <2>10 DEF Sound, StartOf
<1>3. ASSUME Sound(s), Same(s) PROVE Sound(s)'
  <2>1. flushed'[s] <= synced'[s] /\ synced'[s] <= Len(file'[s]) /\ StartOf(file'[s], accepted'[s])
    BY <1>3 DEF Same, Sound
  <2>2. proc'[s].pc \in {"run", "seal", "seal sync"} => Len(file'[s]) = Len(accepted'[s])
    <3>1. CASE proc[s].pc \in {"run", "seal", "seal sync"}
      BY <1>3, <3>1 DEF Same, Sound
    <3>2. CASE proc[s].pc = "open sync"
      <4>1. accepted[s] = <<>>
        BY <3>2 DEF Inv, Chained
      <4>2. Len(file[s]) = Len(accepted[s])
        <5>1. Len(file[s]) <= 0 /\ Len(accepted[s]) = 0
          BY <1>3, <1>a, <4>1, NoElements
        <5> QED BY <1>l, <5>1
      <4> QED BY <1>3, <4>2 DEF Same
    <3> QED BY <1>3, <3>1, <3>2 DEF Same
  <2>3. ASSUME NEW k \in 1 .. Len(manifest'), SealOf(k, s)'
        PROVE  synced'[s] = Len(accepted'[s])
    BY <1>3, <2>3, SealIsOld DEF Same, Sound
  <2>4. proc'[s].pc \in {"seal", "seal sync"} => synced'[s] = Len(accepted'[s])
    BY <1>3 DEF Same, Sound
  <2> QED BY <2>1, <2>2, <2>3, <2>4 DEF Sound, StartOf
<1>4. ASSUME NEW k \in 1 .. Len(manifest'), SealOf(k, s)'
      PROVE  proc'[s].pc \in {"seal sync", "closed", "dead"}
  BY <1>4, <1>i DEF Inv, Recorded
<1>5. ASSUME Sound(s), Grows(s) PROVE Sound(s)'
  <2>1. PICK e \in Entry : file'[s] = Written(file[s], e) /\ accepted'[s] = Append(accepted[s], e)
    BY <1>5 DEF Grows
  <2>2. Len(file[s]) = Len(accepted[s]) /\ \A k \in 1 .. Len(file[s]) : file[s][k] = accepted[s][k]
    BY <1>5 DEF Sound, Grows, StartOf
  <2>3. file[s] # <<>> => file[s][Len(file[s])] # Torn
    <3> SUFFICES ASSUME file[s] # <<>> PROVE file[s][Len(file[s])] # Torn
      OBVIOUS
    <3>1. Len(file[s]) \in 1 .. Len(file[s])
      BY <1>0 DEF Lines
    <3>2. file[s][Len(file[s])] \in Entry
      BY <1>0, <2>2, <3>1
    <3> QED BY <3>2, TornIsNoLine
  <2>4. /\ Len(file'[s]) = Len(file[s]) + 1 /\ file'[s][Len(file'[s])] = e
        /\ \A k \in 1 .. Len(file[s]) : file'[s][k] = file[s][k]
    <3> DEFINE g == Written(file[s], e)
    <3> HIDE DEF g
    <3>1. /\ \A k \in 1 .. Len(file[s]) : g[k] = file[s][k]
          /\ \/ g = file[s] /\ file[s] # <<>> /\ file[s][Len(file[s])] = Torn
             \/ Len(g) = Len(file[s]) + 1 /\ g[Len(g)] = e
      BY <1>0, WrittenFacts DEF g
    <3>2. file'[s] = g
      BY <2>1 DEF g
    <3> QED BY <2>3, <3>1, <3>2
  <2>5. /\ Len(accepted'[s]) = Len(accepted[s]) + 1 /\ accepted'[s][Len(accepted[s]) + 1] = e
        /\ \A k \in 1 .. Len(accepted[s]) : accepted'[s][k] = accepted[s][k]
    BY <1>0, <2>1
  <2>6. StartOf(file'[s], accepted'[s]) /\ Len(file'[s]) = Len(accepted'[s])
    BY <1>l, <2>2, <2>4, <2>5 DEF StartOf
  <2>7. flushed'[s] <= synced'[s] /\ synced'[s] <= Len(file'[s]) /\ proc'[s].pc = "run"
    BY <1>0, <1>l, <1>5, <2>4 DEF Sound, Grows
  <2> QED BY <1>4, <2>6, <2>7 DEF Sound, StartOf
<1>6. ASSUME Sound(s), Commits(s) PROVE Sound(s)'
  <2>1. Len(file'[s]) = Len(accepted'[s]) /\ StartOf(file'[s], accepted'[s])
    BY <1>6 DEF Sound, Commits
  <2>2. synced'[s] = Len(file'[s]) /\ flushed'[s] <= synced'[s]
    BY <1>0, <1>l, <1>6 DEF Sound, Commits, StartOf
  <2>3. proc'[s].pc \in {"run", "seal"}
    BY <1>6 DEF Commits
  <2>4. synced'[s] <= Len(file'[s])
    BY <1>6, <1>l, <2>2 DEF Commits
  <2> QED BY <1>4, <2>1, <2>2, <2>3, <2>4 DEF Sound, StartOf
<1>7. CASE Next /\ ~PowerLoss
  BY <1>1, <1>3, <1>5, <1>6, <1>7, FileMoves DEF Inv
<1>8. CASE UNCHANGED vars
  BY <1>1, <1>8 DEF vars, Sound, StartOf, SealOf
<1> QED BY <1>2, <1>7, <1>8

\* Nothing is flushed at the start.
LEMMA InitDurable == Init => Durable
<1> SUFFICES ASSUME Init, NEW s \in Sessions PROVE Sound(s)
  BY DEF Durable, Sound
<1>1. /\ file[s] = <<>> /\ accepted[s] = <<>> /\ synced[s] = 0 /\ flushed[s] = 0
      /\ proc[s].pc = "new" /\ manifest = <<>>
  BY DEF Init
<1> QED BY <1>1, NoElements DEF Sound, StartOf

\* "Flush must durably commit (fsync) so the chain survives an abrupt shutdown" (audit.go:51-52):
\* what a Flush returned for is in the file, in order, after any kill or power loss, on a disk
\* that does not fault.
THEOREM FlushIsDurable == Spec => []FlushedSurvive
<1>1. Inv /\ Durable => FlushedSurvive
  <2> SUFFICES ASSUME Inv, Durable, ~faulty, NEW s \in Sessions, s \notin damaged
               PROVE  /\ flushed[s] <= Len(file[s])
                      /\ SubSeq(file[s], 1, flushed[s]) = SubSeq(accepted[s], 1, flushed[s])
    BY DEF FlushedSurvive
  <2>1. /\ flushed[s] <= synced[s] /\ synced[s] <= Len(file[s])
        /\ Len(file[s]) <= Len(accepted[s])
        /\ \A k \in 1 .. Len(file[s]) : file[s][k] = accepted[s][k]
    BY DEF Durable, StartOf
  <2>2. /\ file[s] \in Seq(Entry \cup {Torn}) /\ accepted[s] \in Seq(Entry)
        /\ flushed[s] \in Nat /\ synced[s] \in Nat
    BY DEF Inv, TypeOK
  <2>3. flushed[s] \in 0 .. Len(file[s]) /\ flushed[s] \in 0 .. Len(accepted[s])
    BY <2>1, <2>2
  <2> DEFINE f == SubSeq(file[s], 1, flushed[s])
             g == SubSeq(accepted[s], 1, flushed[s])
  <2>4. /\ f \in Seq(Entry \cup {Torn}) /\ Len(f) = flushed[s]
        /\ \A k \in 1 .. flushed[s] : f[k] = file[s][k]
    BY <2>2, <2>3, FrontFacts
  <2>5. /\ g \in Seq(Entry) /\ Len(g) = flushed[s]
        /\ \A k \in 1 .. flushed[s] : g[k] = accepted[s][k]
    BY <2>2, <2>3, FrontFacts
  <2>6. \A k \in 1 .. flushed[s] : f[k] = g[k]
    BY <2>1, <2>2, <2>3, <2>4, <2>5
  <2> HIDE DEF f, g
  <2>7. f = g
    BY <2>4, <2>5, <2>6, SameSeq
  <2> QED BY <2>3, <2>7 DEF f, g
<1>2. Spec => [](Inv /\ Durable)
  BY InitInv, NextInv, InitDurable, NextDurable, PTL DEF Spec
<1> QED BY <1>1, <1>2, PTL

-----------------------------------------------------------------------------
(* The manifest, with one session at a time.                                *)

\* A record made from the head of the manifest continues it (manifest.go, writeManifest).
LEMMA ManifestGrows ==
  ASSUME NEW m, NEW g, NEW n \in Nat, DOMAIN m = 1 .. n, DOMAIN g = 1 .. (n + 1),
         \A k \in 1 .. n : g[k] = m[k], VerifyManifest(m),
         g[n + 1].prev = IF n = 0 THEN <<>> ELSE m[n].hash,
         g[n + 1].hash = hashManifest(g[n + 1].of, g[n + 1].prev)
  PROVE  VerifyManifest(g)
<1> SUFFICES ASSUME NEW k \in 1 .. (n + 1)
             PROVE  /\ g[k].prev = IF k = 1 THEN <<>> ELSE g[k - 1].hash
                    /\ g[k].hash = hashManifest(g[k].of, g[k].prev)
  BY DEF VerifyManifest
<1>1. CASE k \in 1 .. n
  <2>1. g[k] = m[k] /\ (k # 1 => g[k - 1] = m[k - 1])
    BY <1>1
  <2>2. /\ m[k].prev = IF k = 1 THEN <<>> ELSE m[k - 1].hash
        /\ m[k].hash = hashManifest(m[k].of, m[k].prev)
    BY <1>1 DEF VerifyManifest
  <2> QED BY <2>1, <2>2
<1>2. CASE k = n + 1
  <2>1. CASE n = 0
    BY <1>2, <2>1
  <2>2. CASE n # 0
    <3>1. k # 1 /\ k - 1 = n /\ n \in 1 .. n
      BY <1>2, <2>2
    <3>2. g[k - 1] = m[n]
      BY <3>1
    <3> QED BY <1>2, <2>2, <3>1, <3>2
  <2> QED BY <2>1, <2>2
<1> QED BY <1>1, <1>2

\* The first lines of a chained manifest are chained.
LEMMA ManifestFront ==
  ASSUME NEW m, NEW g, NEW n \in Nat, NEW l \in Nat, l <= n, DOMAIN m = 1 .. n, DOMAIN g = 1 .. l,
         \A k \in 1 .. l : g[k] = m[k], VerifyManifest(m)
  PROVE  VerifyManifest(g)
<1> SUFFICES ASSUME NEW k \in 1 .. l
             PROVE  /\ g[k].prev = IF k = 1 THEN <<>> ELSE g[k - 1].hash
                    /\ g[k].hash = hashManifest(g[k].of, g[k].prev)
  BY DEF VerifyManifest
<1>1. g[k] = m[k] /\ (k # 1 => g[k - 1] = m[k - 1]) /\ k \in 1 .. n
  OBVIOUS
<1>2. /\ m[k].prev = IF k = 1 THEN <<>> ELSE m[k - 1].hash
      /\ m[k].hash = hashManifest(m[k].of, m[k].prev)
  BY <1>1 DEF VerifyManifest
<1> QED BY <1>1, <1>2

Sole == \A s, t \in Sessions : proc[s].pc \in Live /\ proc[t].pc \in Live => s = t

Linked(s) ==
  /\ proc[s].pc \in {"open", "run", "seal"} => proc[s].link = HeadOf(manifest)
  /\ proc[s].pc = "open sync" => HeadOf(manifest) = NewRecord(s, FALSE).hash
  /\ proc[s].pc = "seal sync" => HeadOf(manifest) = NewRecord(s, TRUE).hash

\* A session's record depends on its own state only.
LEMMA RecordKept ==
  ASSUME NEW s, proc'[s].seq = proc[s].seq, proc'[s].head = proc[s].head,
         proc'[s].link = proc[s].link, proc'[s].name = proc[s].name
  PROVE  \A seal : NewRecord(s, seal)' = NewRecord(s, seal)
BY DEF NewRecord

\* Every step keeps one session running, and the manifest whole.
LEMMA NextAlone == Inv /\ Alone /\ [Next]_vars => Alone'
<1> SUFFICES ASSUME Inv, Alone, [Next]_vars, ~Overlap, ~faulty
             PROVE  /\ \A k \in 1 .. Len(manifest') : manifest'[k] # Torn
                    /\ VerifyManifest(manifest')
                    /\ Sole'
                    /\ \A s \in Sessions : Linked(s)'
  <2>1. [Next]_vars => faulty' = faulty
    BY DEF Next, vars
  <2> QED BY <2>1 DEF Alone, Sole, Linked, VerifyManifest
<1>0. TypeOK /\ TypeOK' /\ Inv'
  BY NextInv DEF Inv
<1>m. /\ manifest \in Lines(Record) /\ Len(manifest) \in Nat /\ DOMAIN manifest = 1 .. Len(manifest)
      /\ manifestSynced \in 0 .. Len(manifest)
  <2>1. manifest \in Lines(Record) /\ manifestSynced \in Nat /\ manifestSynced <= Len(manifest)
    BY <1>0 DEF TypeOK, Lines, Inv, Traced
  <2>2. Len(manifest) \in Nat /\ DOMAIN manifest = 1 .. Len(manifest)
    BY <2>1 DEF Lines
  <2> QED BY <2>1, <2>2
<1>n. /\ manifest' \in Lines(Record) /\ Len(manifest') \in Nat
      /\ DOMAIN manifest' = 1 .. Len(manifest')
  <2>1. manifest' \in Lines(Record)
    BY <1>0 DEF TypeOK, Lines
  <2> QED BY <2>1 DEF Lines
<1>a. /\ \A k \in 1 .. Len(manifest) : manifest[k] # Torn
      /\ VerifyManifest(manifest)
      /\ Sole
      /\ \A s \in Sessions : Linked(s)
  BY DEF Alone, Sole, Linked
<1>1. CASE PowerLoss
  <2>1. manifest' \in Remains(manifest, manifestSynced)
    BY <1>0, <1>1, PowerEnds
  <2>2. Len(manifest') <= Len(manifest) /\ \A k \in 1 .. Len(manifest') : manifest'[k] = manifest[k]
    BY <1>m, <2>1, RemainsFacts
  <2>3. \A k \in 1 .. Len(manifest') : manifest'[k] # Torn
    BY <1>a, <1>m, <1>n, <2>2
  <2>4. VerifyManifest(manifest')
    BY <1>a, <1>m, <1>n, <2>2, ManifestFront
  <2>5. \A s \in Sessions : proc'[s].pc \notin Live
    BY <1>0, <1>1, PowerEnds DEF Live
  <2>6. Sole' /\ \A s \in Sessions : Linked(s)'
    BY <2>5 DEF Sole, Linked, Live
  <2> QED BY <2>3, <2>4, <2>6
<1>2. ASSUME NEW s \in Sessions, Still(s), UNCHANGED manifest PROVE Linked(s)'
  <2>1. \A seal : NewRecord(s, seal)' = NewRecord(s, seal)
    BY <1>2, RecordKept DEF Still
  <2> QED BY <1>2, <1>a, <2>1 DEF Linked, Still, HeadOf
<1>3. CASE Next /\ ~PowerLoss
  <2>1. PICK s \in Sessions : Moves(s) /\ \A t \in Sessions \ {s} : Still(t)
    BY <1>0, <1>3, OneMoves
  <2>2. CASE Quiet(s)
    <3>1. UNCHANGED manifest
      BY <2>2 DEF Quiet
    <3>2. Sole'
      <4>1. CASE proc'[s].pc \in Live => proc[s].pc \in Live
        BY <1>a, <2>1, <4>1 DEF Sole, Still
      <4>2. CASE \A t \in Sessions : proc[t].pc \notin Live
        BY <2>1, <4>2 DEF Sole, Still
      <4>3. \/ proc'[s].pc \in Live => proc[s].pc \in Live
            \/ \A t \in Sessions : proc[t].pc \notin Live
        BY <2>2 DEF Quiet, Goes, Accepts, Still, Live
      <4> QED BY <4>1, <4>2, <4>3
    <3>3. Linked(s)'
      <4>1. CASE Still(s)
        BY <1>2, <3>1, <4>1
      <4>2. CASE ~Still(s)
        <5>1. proc'[s].pc \notin {"open sync", "seal sync"}
          BY <2>2, <4>2 DEF Quiet, Goes, Accepts
        <5>2. proc'[s].pc \in {"open", "run", "seal"} => proc'[s].link = HeadOf(manifest)
          BY <1>a, <2>2, <4>2 DEF Quiet, Goes, Accepts, Linked
        <5> QED BY <3>1, <5>1, <5>2 DEF Linked, HeadOf
      <4> QED BY <4>1, <4>2
    <3>4. \A t \in Sessions : Linked(t)'
      BY <1>2, <2>1, <3>1, <3>3
    <3> QED BY <1>a, <3>1, <3>2, <3>4
  <2>3. ASSUME NEW seal \in BOOLEAN, Writes(s, seal)
        PROVE  /\ \A k \in 1 .. Len(manifest') : manifest'[k] # Torn
               /\ VerifyManifest(manifest')
               /\ Sole'
               /\ \A t \in Sessions : Linked(t)'
    <3> DEFINE r == NewRecord(s, seal)
    <3>1. r \in Record /\ r.prev = proc[s].link /\ r.hash = hashManifest(r.of, r.prev) /\ r # Torn
      BY <1>0, NewTyped, NewFields, TornIsNoLine
    <3>2. /\ manifest' = Written(manifest, r) /\ Kept(s) /\ proc'[s].link = proc[s].link
          /\ proc[s].pc = Before(seal) /\ proc'[s].pc = During(seal)
      BY <2>3 DEF Writes, Goes
    <3>3. proc[s].pc \in Live /\ proc[s].link = HeadOf(manifest)
      BY <1>a, <3>2 DEF Linked, Before, Live
    <3> HIDE DEF r
    <3>4. manifest # <<>> => manifest[Len(manifest)] # Torn
      <4>1. manifest # <<>> => Len(manifest) \in 1 .. Len(manifest)
        BY <1>m DEF Lines
      <4> QED BY <1>a, <4>1
    <3>5. /\ Len(manifest') = Len(manifest) + 1 /\ manifest'[Len(manifest')] = r
          /\ \A k \in 1 .. Len(manifest) : manifest'[k] = manifest[k]
      BY <1>m, <3>1, <3>2, <3>4, WrittenFacts
    <3>6. \A k \in 1 .. Len(manifest') : manifest'[k] # Torn
      <4>1. \A k \in 1 .. Len(manifest') : k \in 1 .. Len(manifest) \/ k = Len(manifest')
        BY <1>m, <3>5
      <4> QED BY <1>a, <3>1, <3>5, <4>1
    <3>7. VerifyManifest(manifest')
      <4>1. manifest'[Len(manifest) + 1].prev =
              IF Len(manifest) = 0 THEN <<>> ELSE manifest[Len(manifest)].hash
        <5>1. manifest = <<>> <=> Len(manifest) = 0
          BY <1>m DEF Lines
        <5> QED BY <3>1, <3>3, <3>5, <5>1 DEF HeadOf
      <4>2. /\ manifest'[Len(manifest) + 1].hash =
                 hashManifest(manifest'[Len(manifest) + 1].of, manifest'[Len(manifest) + 1].prev)
            /\ DOMAIN manifest' = 1 .. (Len(manifest) + 1)
        BY <1>n, <3>1, <3>5
      <4> QED BY <1>a, <1>m, <3>5, <4>1, <4>2, ManifestGrows
    <3>8. \A t \in Sessions : proc'[t].pc \in Live => t = s
      BY <1>a, <2>1, <3>3 DEF Sole, Still
    <3>9. Linked(s)'
      <4>1. HeadOf(manifest') = r.hash
        <5>1. manifest' # <<>>
          BY <1>m, <3>5, NoElements
        <5> QED BY <3>5, <5>1 DEF HeadOf
      <4>2. NewRecord(s, seal)' = r
        BY <3>2, RecordKept DEF Kept, Before, r
      <4>3. CASE seal
        <5>1. proc'[s].pc = "seal sync" /\ NewRecord(s, TRUE)' = r
          BY <3>2, <4>2, <4>3 DEF During
        <5> QED BY <4>1, <5>1 DEF Linked, HeadOf
      <4>4. CASE ~seal
        <5>1. proc'[s].pc = "open sync" /\ NewRecord(s, FALSE)' = r
          BY <3>2, <4>2, <4>4 DEF During
        <5> QED BY <4>1, <5>1 DEF Linked, HeadOf
      <4> QED BY <4>3, <4>4
    <3>10. \A t \in Sessions : Linked(t)'
      BY <3>8, <3>9 DEF Linked, Live
    <3>11. Sole'
      BY <3>8 DEF Sole
    <3> QED BY <3>6, <3>7, <3>10, <3>11
  <2>4. ASSUME NEW seal \in BOOLEAN, Fails(s, seal)
        PROVE  UNCHANGED manifest /\ Sole' /\ \A t \in Sessions : Linked(t)'
    <3>1. UNCHANGED manifest /\ proc'[s].pc \notin Live
      BY <2>4 DEF Fails, Goes, Error, Live, Failed
    <3>2. Sole'
      BY <1>a, <2>1, <3>1 DEF Sole, Still
    <3>3. Linked(s)'
      BY <3>1 DEF Linked, Live
    <3> QED BY <1>2, <2>1, <3>1, <3>2, <3>3
  <2>5. ASSUME NEW seal \in BOOLEAN, Syncs(s, seal)
        PROVE  UNCHANGED manifest /\ Sole' /\ \A t \in Sessions : Linked(t)'
    <3>1. /\ UNCHANGED manifest /\ proc[s].pc = During(seal) /\ proc'[s].pc = After(seal)
          /\ proc'[s].link = NewRecord(s, seal).hash
      BY <2>5 DEF Syncs, Goes
    <3>2. Sole'
      BY <1>a, <2>1, <3>1 DEF Sole, Still, During, Live
    <3>3. Linked(s)'
      <4>1. CASE seal
        BY <3>1, <4>1 DEF After, Linked
      <4>2. CASE ~seal
        <5>1. /\ proc[s].pc = "open sync" /\ proc'[s].pc = "run"
              /\ proc'[s].link = NewRecord(s, FALSE).hash
          BY <3>1, <4>2 DEF During, After
        <5>2. HeadOf(manifest) = NewRecord(s, FALSE).hash
          BY <1>a, <5>1 DEF Linked
        <5> QED BY <3>1, <5>1, <5>2 DEF Linked, HeadOf
      <4> QED BY <4>1, <4>2
    <3> QED BY <1>2, <2>1, <3>1, <3>2, <3>3
  <2> QED BY <1>a, <2>1, <2>2, <2>3, <2>4, <2>5 DEF Moves
<1>4. CASE UNCHANGED vars
  <2>1. UNCHANGED <<manifest, proc>> /\ \A s \in Sessions : Still(s)
    BY <1>4 DEF vars, Still
  <2> QED BY <1>2, <1>a, <2>1 DEF Sole
<1> QED BY <1>1, <1>3, <1>4

\* No session runs at the start.
LEMMA InitAlone == Init => Alone
<1> SUFFICES ASSUME Init PROVE Alone
  OBVIOUS
<1>1. manifest = <<>> /\ \A s \in Sessions : proc[s].pc = "new"
  BY DEF Init
<1>2. VerifyManifest(manifest) /\ \A k \in 1 .. Len(manifest) : manifest[k] # Torn
  BY <1>1, NoElements DEF VerifyManifest
<1>3. \A s \in Sessions : proc[s].pc \notin Live
  BY <1>1 DEF Live
<1> QED BY <1>2, <1>3 DEF Alone, Live

-----------------------------------------------------------------------------
(* An honest directory.                                                     *)

\* A session with entries is in the manifest, as far as it can be read.
LEMMA LeavesATrace == Inv => SessionsLeaveATrace
<1> SUFFICES ASSUME Inv, NEW s \in Sessions, accepted[s] # <<>>, Readable
             PROVE  \E k \in DOMAIN manifest : manifest[k].of.opened = s
  BY DEF SessionsLeaveATrace
<1>1. Trace(s, manifestSynced) /\ manifestSynced <= Len(manifest)
  BY DEF Inv, Traced
<1>2. manifestSynced \in Nat /\ Len(manifest) \in Nat /\ DOMAIN manifest = 1 .. Len(manifest)
  BY DEF Inv, TypeOK
<1>3. PICK k \in 1 .. manifestSynced : manifest[k] = Torn \/ manifest[k].of.opened = s
  BY <1>1 DEF Trace
<1>4. k \in DOMAIN manifest
  BY <1>1, <1>2
<1> QED BY <1>3, <1>4 DEF Readable

\* Nothing that happens to an honest directory makes VerifyDir report more than a session that
\* ended before its first entry.
LEMMA HonestFollows ==
  ASSUME Inv, Durable, Alone, ~Overlap
  PROVE  HonestDirVerifies
<1> SUFFICES ASSUME ~faulty, damaged = {}
             PROVE  /\ Readable
                    /\ \A p \in Problems :
                         IF p = <<"manifest">>
                         THEN manifest = <<>> /\ \A s \in Sessions : accepted[s] = <<>>
                         ELSE p[1] = "unknown" /\ accepted[p[2]] = <<>>
  BY DEF HonestDirVerifies
<1>1. /\ \A k \in DOMAIN manifest : manifest[k] # Torn
      /\ VerifyManifest(manifest)
  <2>1. DOMAIN manifest = 1 .. Len(manifest)
    BY DEF Inv, TypeOK
  <2> QED BY <2>1 DEF Alone
<1>2. ASSUME NEW s \in Sessions
      PROVE  /\ file[s] \in Lines(Entry) /\ accepted[s] \in Seq(Entry)
             /\ Len(file[s]) \in Nat /\ Len(accepted[s]) \in Nat
             /\ DOMAIN file[s] = 1 .. Len(file[s]) /\ DOMAIN accepted[s] = 1 .. Len(accepted[s])
             /\ Len(file[s]) <= Len(accepted[s])
             /\ \A k \in 1 .. Len(file[s]) : file[s][k] = accepted[s][k]
  <2>1. file[s] \in Lines(Entry) /\ accepted[s] \in Seq(Entry)
    BY DEF Inv, TypeOK, Lines
  <2>2. StartOf(file[s], accepted[s])
    BY DEF Durable
  <2> QED BY <2>1, <2>2 DEF Lines, StartOf
<1>3. ASSUME NEW s \in Sessions, NEW k \in DOMAIN file[s]
      PROVE  file[s][k] # Torn
  <2>1. file[s][k] = accepted[s][k] /\ k \in DOMAIN accepted[s]
    BY <1>2
  <2>2. accepted[s][k] \in Entry
    BY <1>2, <2>1
  <2> QED BY <2>1, <2>2, TornIsNoLine
<1>4. Readable
  BY <1>1, <1>3 DEF Readable, OnDisk
<1>5. ASSUME NEW s \in Sessions PROVE VerifyChain(file[s])
  <2>1. VerifyChain(accepted[s])
    BY DEF Inv, Chained
  <2> SUFFICES ASSUME NEW k \in 1 .. Len(file[s])
               PROVE  /\ file[s][k].seq = k - 1
                      /\ file[s][k].prev = IF k = 1 THEN <<>> ELSE file[s][k - 1].hash
                      /\ file[s][k].hash =
                           hashEntry(file[s][k].seq, file[s][k].event, file[s][k].prev)
    BY <1>2 DEF VerifyChain
  <2>2. /\ file[s][k] = accepted[s][k] /\ (k # 1 => file[s][k - 1] = accepted[s][k - 1])
        /\ k \in DOMAIN accepted[s]
    BY <1>2
  <2>3. /\ accepted[s][k].seq = k - 1
        /\ accepted[s][k].prev = IF k = 1 THEN <<>> ELSE accepted[s][k - 1].hash
        /\ accepted[s][k].hash =
             hashEntry(accepted[s][k].seq, accepted[s][k].event, accepted[s][k].prev)
    BY <2>1, <2>2 DEF VerifyChain
  <2> QED BY <2>2, <2>3
<1>d. OnDisk = {s \in Sessions : proc[s].name # None}
  BY DEF OnDisk, Inv, TypeOK
<1>u. \A s \in Sessions : ~Reused(s)
  BY <1>d DEF Reused, Inv, Named
<1>6. ASSUME NEW s \in OnDisk, Sealed(proc[s].name) PROVE HeadMatches(s)
  <2>0. s \in Sessions /\ proc[s].name # None
    BY <1>d
  <2>1. \E k \in 1 .. Len(manifest) : SealOf(k, s)
    <3>1. DOMAIN manifest = 1 .. Len(manifest)
      BY DEF Inv, TypeOK
    <3> QED BY <1>1, <1>6, <1>u, <2>0, <3>1, NameIsSession DEF Sealed, Seals, SealOf
  <2>2. synced[s] = Len(accepted[s]) /\ synced[s] <= Len(file[s])
    BY <2>0, <2>1 DEF Durable
  <2>3. Len(file[s]) = Len(accepted[s])
    BY <1>2, <2>0, <2>2
  <2>4. file[s] = accepted[s]
    <3>1. file[s] \in Seq(Entry \cup {Torn})
      BY <1>2, <2>0 DEF Lines
    <3> QED BY <1>2, <2>0, <2>3, <3>1, SameSeq
  <2> QED BY <1>1, <1>6, <1>u, <2>0, <2>4, SealIsTrue
<1>7. Missing = {}
  <2> SUFFICES ASSUME NEW n \in Missing PROVE FALSE
    OBVIOUS
  <2>1. PICK k \in DOMAIN manifest : manifest[k].of.file = n
    BY DEF Missing, Known
  <2>2. k \in 1 .. Len(manifest) /\ manifest[k] \in Record
    BY <1>1 DEF Inv, TypeOK
  <2>3. manifest[k].of.opened \in Sessions
    BY <2>2 DEF Record, Summary
  <2>4. proc[manifest[k].of.opened].name = n
    BY <1>1, <2>1, <2>2, <2>3 DEF Inv, Recorded
  <2>5. n # None
    BY AuditConstants DEF Missing, Names, None
  <2> QED BY <1>d, <2>3, <2>4, <2>5 DEF Missing
<1>8. ASSUME NEW s \in Sessions, accepted[s] # <<>> PROVE Known(proc[s].name)
  <2>1. PICK k \in DOMAIN manifest : manifest[k].of.opened = s
    BY <1>4, <1>8, LeavesATrace DEF SessionsLeaveATrace
  <2>2. k \in 1 .. Len(manifest)
    BY DEF Inv, TypeOK
  <2> QED BY <1>1, <2>1, <2>2 DEF Known, Inv, Recorded
<1>9. ASSUME NEW p \in Problems
      PROVE  IF p = <<"manifest">>
             THEN manifest = <<>> /\ \A s \in Sessions : accepted[s] = <<>>
             ELSE p[1] = "unknown" /\ accepted[p[2]] = <<>>
  <2>1. \/ p = <<"manifest">> /\ manifest = <<>>
        \/ \E s \in OnDisk : p = <<"unknown", s>> /\ ~Known(proc[s].name)
    BY <1>1, <1>5, <1>6, <1>7 DEF Problems, OnDisk
  <2>2. CASE p = <<"manifest">> /\ manifest = <<>>
    <3>1. \A s \in Sessions : ~Known(proc[s].name)
      BY <2>2, NoElements DEF Known
    <3> QED BY <1>8, <2>2, <3>1
  <2>3. CASE \E s \in OnDisk : p = <<"unknown", s>> /\ ~Known(proc[s].name)
    <3>1. PICK s \in OnDisk : p = <<"unknown", s>> /\ ~Known(proc[s].name)
      BY <2>3
    <3>2. p[1] = "unknown" /\ p[2] = s /\ p # <<"manifest">> /\ s \in Sessions
      BY <3>1 DEF OnDisk
    <3> QED BY <1>8, <3>1, <3>2
  <2> QED BY <2>1, <2>2, <2>3
<1> QED BY <1>4, <1>9

\* When sessions run one at a time, whatever moment one is killed or power is lost at, on a disk
\* that does not fault: what is left verifies, but for sessions that ended before their first
\* entry; and on any disk, no session with entries is gone from a readable directory
\* (manifest.go:30-35, verify.go:132-138).
THEOREM HistoryIsHonest == ~Overlap /\ Spec => []HonestHistory
<1>1. ~Overlap /\ Inv /\ Durable /\ Alone => HonestHistory
  BY HonestFollows, LeavesATrace DEF HonestHistory, Inv
<1>2. Spec => [](Inv /\ Durable /\ Alone)
  BY InitInv, NextInv, InitDurable, NextDurable, InitAlone, NextAlone, PTL DEF Spec
<1>3. CASE ~Overlap
  <2>1. Inv /\ Durable /\ Alone => HonestHistory
    BY <1>1, <1>3
  <2> QED BY <1>2, <2>1, PTL
<1> QED BY <1>3
=============================================================================
