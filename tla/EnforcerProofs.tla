-------------------------- MODULE EnforcerProofs --------------------------
(***************************************************************************)
(* Proofs about Enforcer: a blocked machine is recorded and usable         *)
(* whenever the process dies, an elevated start undoes what a dead session *)
(* left, and a session that ends gives the machine back, for every set of  *)
(* rules and exceptions and any number of sessions, crashes and failing    *)
(* calls.                                                                  *)
(***************************************************************************)
EXTENDS Enforcer, FiniteSetTheorems, SequenceTheorems, TLAPS

-----------------------------------------------------------------------------
(* The inductive invariant.                                                 *)

\* What is left of the jobs of an Apply (enforcer_windows.go:107-183), and of an undo
\* (enforcer_windows.go:138-215, 381-477).
PointAndRecord == <<"point", "record">>
RecordAlone    == <<"record">>
ClearAlone     == <<"clear">>
ProxyAlone     == <<"wininet">>
ApplyJobs ==
  { <<"record", "purge", "add">>, <<"record", "purge", "add", "flip">>,
    <<"record", "purge", "add", "point", "record">>,
    <<"record", "purge", "add", "flip", "point", "record">>,
    <<"purge", "add">>, <<"purge", "add", "flip">>, <<"purge", "add", "point", "record">>,
    <<"purge", "add", "flip", "point", "record">>,
    <<"add">>, <<"add", "flip">>, <<"add", "point", "record">>,
    <<"add", "flip", "point", "record">>,
    <<"flip">>, <<"flip", "point", "record">>, PointAndRecord, RecordAlone }
UndoJobs ==
  { <<"defaults", "wininet", "rules", "clear">>, <<"wininet", "defaults", "rules", "clear">>,
    <<"defaults", "rules", "clear">>, <<"wininet", "rules", "clear">>, <<"rules", "clear">>,
    <<"wininet", "clear">>, ClearAlone, ProxyAlone }

Snapshot == [outbound : Outbound, rules : SUBSET (Own \cup Foreign), wininet : Settings]

\* A record of a global block names the exceptions, and only a record of a session says
\* anything at all.
Recordable(m) ==
  /\ m.global => Range(AllowNames) \subseteq Range(m.rules)
  /\ m.kind # "state" => ~m.global /\ ~m.hasProxy /\ m.rules = <<>>

\* The order of the jobs, the items left of the first, and how many calls have failed.
Plan ==
  /\ pc = "apply" => jobs \in ApplyJobs /\ then = "down" /\ mem.kind = "state"
  /\ pc = "undo" => jobs \in UndoJobs
  /\ pc \in {"apply", "undo"} => left \in Seq(Range(Items(Head(jobs), mem)))
  /\ pc = "apply" /\ Head(jobs) = "record" => left \in {<<"truncate", "write">>, <<"write">>, <<>>}
  /\ pc = "apply" /\ Head(jobs) = "point" => Len(left) <= Len(WinINET)
  /\ pc = "undo" /\ Head(jobs) = "clear" => left \in {<<"file">>, <<>>}
  /\ pc \in {"running", "suspended"} => mem.kind # "corrupt"
  /\ pc # "down" => ended = "never"
  /\ bad => fails >= 1
  /\ pc = "undo" /\ fatal = {} => then = "down" /\ fails >= 1 /\ (bad => fails >= 2)
  /\ pc = "undo" /\ jobs = ProxyAlone => fatal = {}
  /\ pc = "undo" /\ fatal # {} /\ "defaults" \in Range(jobs) => "defaults" \in fatal

\* What the machine and the records are made of.
Matter ==
  /\ original \in Snapshot /\ original.rules = Foreign /\ found \in Snapshot
  /\ Recordable(mem) /\ Recordable(file)
  /\ pc \in {"apply", "running", "suspended"} \/ (pc = "undo" /\ then = "down")
       => Range(mem.rules) \subseteq Own
  /\ Foreign \subseteq rules

Typed == ProcessOK /\ Plan /\ Matter

\* Has the undo still to come to item x of job j?
Pending(j, x) == IF Head(jobs) = j THEN x \in Range(left) ELSE j \in Range(jobs)

\* The undo leads to T: what is not as in T is recorded as it is in T, and still to come.
Undoing(T) ==
  /\ mem.global => mem.saved = T.outbound
  /\ mem.hasProxy => mem.proxy = T.wininet
  /\ \A p \in Range(blockedProfiles) :
       outbound[p] = T.outbound[p] \/ (mem.global /\ Pending("defaults", p))
  /\ \A v \in Range(WinINET) :
       wininet[v] = T.wininet[v] \/ (mem.hasProxy /\ Pending("wininet", v))
  /\ \A r \in rules : r \in T.rules \/ (r \in Range(mem.rules) /\ Pending("rules", r))

\* What the session holds in memory leads back to the machine that Apply found.
Session ==
  /\ mem.global => mem.saved = found.outbound
  /\ ~mem.global => outbound = found.outbound
  /\ mem.hasProxy => mem.proxy = found.wininet
  /\ ~mem.hasProxy => wininet = found.wininet
  /\ rules \subseteq found.rules \cup Range(mem.rules)

\* Apply has written over whatever record there was; it is in the middle of a write.
Past ==
  \/ Head(jobs) = "record" /\ left # <<"truncate", "write">>
  \/ Firewalled /\ (Head(jobs) # "record" \/ mem.hasProxy)
Filling == Head(jobs) = "record" /\ left = <<"write">>

\* How far Apply has come.
Applying ==
  /\ mem.hasProxy <=> jobs \in {PointAndRecord, RecordAlone}
  /\ mem.rules = <<>> => mem.hasProxy
  /\ "flip" \in Range(jobs) => mem.global
  /\ "add" \in Range(jobs) => outbound = found.outbound
  /\ "purge" \in Range(jobs) => rules \subseteq found.rules
  /\ ~Past => rules = found.rules
  /\ Head(jobs) = "point" /\ left = WinINET => wininet = found.wininet
  /\ mem.global /\ Head(jobs) = "add" => Range(AllowNames) \subseteq rules \cup Range(left)
  /\ mem.global /\ "add" \notin Range(jobs) => Range(AllowNames) \subseteq rules

\* A session that ends gives back what it found.
Returned ==
  /\ pc = "apply" => Session /\ Applying
  /\ pc \in {"running", "suspended"} =>
       Session /\ (mem.kind # "state" => rules \subseteq found.rules)
  /\ pc = "undo" /\ then = "down"
       /\ (IF fatal = {} THEN fails <= 1 /\ "halfFlip" \notin mishaps ELSE fails = 0)
     => Undoing(found)
  /\ RestorePutsBack /\ RefusedApplyUndone

\* When the state file holds what the process holds in memory.
Files ==
  /\ pc = "apply" /\ Past /\ ~Filling =>
       /\ file.kind = "state" /\ file.rules = mem.rules
       /\ file.global = mem.global /\ file.saved = mem.saved
  /\ pc = "apply" /\ Filling => file.kind = "corrupt"
  /\ pc = "apply" /\ Past /\ ~Filling
       /\ (~mem.hasProxy \/ (Head(jobs) = "record" /\ left = <<>>)) => file = mem
  /\ pc \in {"running", "suspended"} /\ mem.kind = "state" => file = mem
  /\ pc = "undo" /\ fatal # {} =>
       IF jobs = ClearAlone /\ left = <<>> THEN file.kind = "none" \/ fails > 0 ELSE file = mem
  /\ elevated /\ fails = 0
       /\ (pc = "ready" \/ (pc \in {"running", "suspended"} /\ mem.kind # "state"))
     => file.kind # "state"

\* The cases in which a blocked machine must be recoverable, and the record that makes it so.
Unharmed == mishaps \cap {"torn", "overwrote", "halfFlip"} = {} /\ fails <= 1
Unblocks(f) == f.kind = "state" /\ f.global /\ f.saved = original.outbound

\* The undo of a blocked machine still has the default actions to put back, or gives up on them.
Unblocking ==
  /\ mem.global /\ mem.saved = original.outbound /\ "defaults" \in Range(jobs)
  /\ \A p \in Range(blockedProfiles) :
       outbound[p] = original.outbound[p] \/ Pending("defaults", p)
         \/ (bad /\ Head(jobs) = "defaults" /\ "defaults" \in fatal)

Unblockable ==
  /\ file.global => file.saved = original.outbound
  /\ pc = "undo" /\ mem.global /\ "defaults" \in Range(jobs) => mem.saved = original.outbound
  /\ Blocked => Range(AllowNames) \subseteq rules
  /\ Blocked => Unblocks(file) \/ (pc = "apply" /\ Filling /\ Rerecord)
  /\ pc = "apply" /\ Past => found.outbound = original.outbound
  /\ pc \in {"running", "suspended"} /\ mem.kind = "state" => found.outbound = original.outbound
  /\ pc = "undo" /\ Blocked => jobs = ProxyAlone \/ Unblocking

Recoverable == Unharmed => Unblockable

\* The cases in which an elevated start undoes everything, and what the file says of it.
Clean == fails = 0 /\ mishaps = {}
Firewall ==
  IF file.kind = "state"
  THEN (outbound = original.outbound \/ file.global) /\ rules \subseteq Foreign \cup Range(file.rules)
  ELSE outbound = original.outbound /\ rules \subseteq Foreign

Undone ==
  /\ file.hasProxy => file.proxy = original.wininet
  /\ pc # "undo" /\ ~(pc = "apply" /\ Filling /\ Rerecord) => Firewall
  /\ pc \notin {"apply", "undo"} => wininet = original.wininet \/ file.hasProxy
  /\ pc = "apply" => found.wininet = original.wininet \/ file.hasProxy
  /\ (pc = "apply" /\ Past) \/ (pc \in {"running", "suspended"} /\ mem.kind = "state")
       => found = original
  /\ pc = "undo" => Undoing(original)

Undoable == Clean => Undone

\* A step in which no COM thread is given up on, and none that was goes on.
Step == Lifetime \/ Work \/ UNCHANGED vars

-----------------------------------------------------------------------------
(* Sequences: what an item taken from the front leaves.                     *)

\* Of nothing, nothing is left.
LEMMA EmptyFacts == Len(<<>>) = 0 /\ Range(<<>>) = {} /\ \A S : <<>> \in Seq(S)
<1>1. Len(<<>>) = 0 /\ DOMAIN <<>> = {}
  OBVIOUS
<1> QED BY <1>1 DEF Range

\* One item is taken from the front.
LEMMA TakeOne ==
  ASSUME NEW S, NEW s \in Seq(S), s # <<>>
  PROVE  /\ Head(s) \in S /\ Tail(s) \in Seq(S)
         /\ Head(s) \in Range(s) /\ Range(Tail(s)) \subseteq Range(s)
         /\ \A x \in Range(s) : x = Head(s) \/ x \in Range(Tail(s))
<1>1. Len(s) \in Nat /\ Len(s) > 0 /\ DOMAIN s = 1 .. Len(s) /\ Head(s) = s[1]
  BY EmptySeq, LenProperties
<1>2. /\ Tail(s) \in Seq(S) /\ Len(Tail(s)) = Len(s) - 1
      /\ \A i \in 1 .. Len(Tail(s)) : Tail(s)[i] = s[i + 1]
  BY HeadTailProperties
<1>3. DOMAIN Tail(s) = 1 .. Len(s) - 1
  BY <1>2, LenProperties
<1>4. Head(s) \in S /\ Head(s) \in Range(s)
  BY <1>1, ElementOfSeq DEF Range
<1>5. ASSUME NEW x \in Range(Tail(s)) PROVE x \in Range(s)
  <2>1. PICK i \in 1 .. Len(s) - 1 : x = Tail(s)[i]
    BY <1>3 DEF Range
  <2>2. x = s[i + 1] /\ i + 1 \in 1 .. Len(s)
    BY <1>1, <1>2, <2>1
  <2> QED BY <1>1, <2>2 DEF Range
<1>6. ASSUME NEW x \in Range(s), x # Head(s) PROVE x \in Range(Tail(s))
  <2>1. PICK i \in 1 .. Len(s) : x = s[i]
    BY <1>1 DEF Range
  <2>2. i # 1 /\ i - 1 \in 1 .. Len(s) - 1
    BY <1>1, <1>6, <2>1
  <2>3. x = Tail(s)[i - 1]
    BY <1>2, <2>1, <2>2
  <2> QED BY <1>3, <2>2, <2>3 DEF Range
<1> QED BY <1>2, <1>4, <1>5, <1>6

-----------------------------------------------------------------------------
(* The order of the jobs.                                                   *)

\* What is left of the jobs of an Apply, and what follows the first of them.
LEMMA ApplyJobFacts ==
  ASSUME NEW js \in ApplyJobs
  PROVE  /\ js \in Seq(Job) /\ js # <<>> /\ Len(js) \in Nat \ {0} /\ Head(js) \in Range(js)
         /\ Head(js) \in {"record", "purge", "add", "flip", "point"}
         /\ Len(js) = 1 => js = RecordAlone \/ Head(js) \in {"add", "flip"}
         /\ Head(js) = "record" => js = RecordAlone \/ ("purge" \in Range(js) /\ Len(js) # 1)
         /\ Head(js) = "purge" => "add" \in Range(js) /\ Len(js) # 1
         /\ Head(js) = "add" => "purge" \notin Range(js)
         /\ Head(js) = "flip" => "purge" \notin Range(js) /\ "add" \notin Range(js)
         /\ Head(js) = "point" => js = PointAndRecord
         /\ js \in {PointAndRecord, RecordAlone} =>
              /\ Range(js) \cap {"purge", "add", "flip"} = {}
              /\ js = PointAndRecord => Head(js) = "point"
              /\ js = RecordAlone => Head(js) = "record"
         /\ "purge" \in Range(js) => "add" \in Range(js)
         /\ Len(js) # 1 =>
              /\ Tail(js) \in ApplyJobs /\ js[2] = Head(Tail(js)) /\ Range(Tail(js)) \subseteq Range(js)
              /\ Head(js) # "add" => ("add" \in Range(Tail(js)) <=> "add" \in Range(js))
              /\ Head(js) # "purge" => ("purge" \in Range(Tail(js)) <=> "purge" \in Range(js))
              /\ Tail(js) \in {PointAndRecord, RecordAlone}
                   <=> (Head(Tail(js)) = "point" \/ js = PointAndRecord)
              /\ Head(Tail(js)) = "record" <=> js = PointAndRecord
              /\ Head(Tail(js)) = "add" => Head(js) = "purge"
              /\ Head(Tail(js)) = "purge" => Head(js) = "record"
              /\ Head(js) = "record" => Head(Tail(js)) = "purge" /\ js # RecordAlone
              /\ Head(js) = "purge" => Head(Tail(js)) = "add"
              /\ Head(js) = "add" => "add" \notin Range(Tail(js)) /\ Head(Tail(js)) \in {"flip", "point"}
<1> DEFINE h == Head(js) t == Tail(js) n == Len(js) R == Range(js) u == js[2]
           g == Head(Tail(js)) S == Range(Tail(js))
<1> DEFINE Facts ==
      /\ js \in Seq(Job) /\ js # <<>> /\ n \in Nat \ {0} /\ h \in R
      /\ h \in {"record", "purge", "add", "flip", "point"}
      /\ n = 1 => js = RecordAlone \/ h \in {"add", "flip"}
      /\ h = "record" => js = RecordAlone \/ ("purge" \in R /\ n # 1)
      /\ h = "purge" => "add" \in R /\ n # 1
      /\ h = "add" => "purge" \notin R
      /\ h = "flip" => "purge" \notin R /\ "add" \notin R
      /\ h = "point" => js = PointAndRecord
      /\ js \in {PointAndRecord, RecordAlone} =>
           /\ R \cap {"purge", "add", "flip"} = {}
           /\ js = PointAndRecord => h = "point"
           /\ js = RecordAlone => h = "record"
      /\ "purge" \in R => "add" \in R
      /\ n # 1 =>
           /\ t \in ApplyJobs /\ u = g /\ S \subseteq R
           /\ h # "add" => ("add" \in S <=> "add" \in R)
           /\ h # "purge" => ("purge" \in S <=> "purge" \in R)
           /\ t \in {PointAndRecord, RecordAlone}
                <=> (g = "point" \/ js = PointAndRecord)
           /\ g = "record" <=> js = PointAndRecord
           /\ g = "add" => h = "purge"
           /\ g = "purge" => h = "record"
           /\ h = "record" => g = "purge" /\ js # RecordAlone
           /\ h = "purge" => g = "add"
           /\ h = "add" => "add" \notin S /\ g \in {"flip", "point"}
<1> SUFFICES Facts
  OBVIOUS
<1>1. CASE js = <<"record", "purge", "add">>
  <2>1. /\ js # <<>> /\ h = "record" /\ n = 3 /\ u = "purge"
        /\ R = {"record", "purge", "add"}
    BY <1>1 DEF Range
  <2>2. t = <<"purge", "add">> /\ g = "purge" /\ S = {"purge", "add"}
    <3>1. Tail(js) = <<"purge", "add">>
      BY <1>1
    <3>2. Head(<<"purge", "add">>) = "purge" /\ Range(<<"purge", "add">>) = {"purge", "add"}
      BY DEF Range
    <3> QED BY <3>1, <3>2
  <2>3. js \in Seq(Job) /\ t \in ApplyJobs /\ js # PointAndRecord /\ t # PointAndRecord
        /\ js # RecordAlone /\ t # RecordAlone
    BY <1>1, <2>2 DEF Job, ApplyJobs, PointAndRecord, RecordAlone
  <2> HIDE DEF h, t, n, R, u, g, S
  <2> QED BY <2>1, <2>2, <2>3
<1>2. CASE js = <<"record", "purge", "add", "flip">>
  <2>1. /\ js # <<>> /\ h = "record" /\ n = 4 /\ u = "purge"
        /\ R = {"record", "purge", "add", "flip"}
    BY <1>2 DEF Range
  <2>2. t = <<"purge", "add", "flip">> /\ g = "purge" /\ S = {"purge", "add", "flip"}
    <3>1. Tail(js) = <<"purge", "add", "flip">>
      BY <1>2
    <3>2. Head(<<"purge", "add", "flip">>) = "purge" /\ Range(<<"purge", "add", "flip">>) = {"purge", "add", "flip"}
      BY DEF Range
    <3> QED BY <3>1, <3>2
  <2>3. js \in Seq(Job) /\ t \in ApplyJobs /\ js # PointAndRecord /\ t # PointAndRecord
        /\ js # RecordAlone /\ t # RecordAlone
    BY <1>2, <2>2 DEF Job, ApplyJobs, PointAndRecord, RecordAlone
  <2> HIDE DEF h, t, n, R, u, g, S
  <2> QED BY <2>1, <2>2, <2>3
<1>3. CASE js = <<"record", "purge", "add", "point", "record">>
  <2>1. /\ js # <<>> /\ h = "record" /\ n = 5 /\ u = "purge"
        /\ R = {"record", "purge", "add", "point"}
    BY <1>3 DEF Range
  <2>2. t = <<"purge", "add", "point", "record">> /\ g = "purge" /\ S = {"purge", "add", "point", "record"}
    <3>1. Tail(js) = <<"purge", "add", "point", "record">>
      BY <1>3
    <3>2. Head(<<"purge", "add", "point", "record">>) = "purge" /\ Range(<<"purge", "add", "point", "record">>) = {"purge", "add", "point", "record"}
      BY DEF Range
    <3> QED BY <3>1, <3>2
  <2>3. js \in Seq(Job) /\ t \in ApplyJobs /\ js # PointAndRecord /\ t # PointAndRecord
        /\ js # RecordAlone /\ t # RecordAlone
    BY <1>3, <2>2 DEF Job, ApplyJobs, PointAndRecord, RecordAlone
  <2> HIDE DEF h, t, n, R, u, g, S
  <2> QED BY <2>1, <2>2, <2>3
<1>4. CASE js = <<"record", "purge", "add", "flip", "point", "record">>
  <2>1. /\ js # <<>> /\ h = "record" /\ n = 6 /\ u = "purge"
        /\ R = {"record", "purge", "add", "flip", "point"}
    BY <1>4 DEF Range
  <2>2. t = <<"purge", "add", "flip", "point", "record">> /\ g = "purge" /\ S = {"purge", "add", "flip", "point", "record"}
    <3>1. Tail(js) = <<"purge", "add", "flip", "point", "record">>
      BY <1>4
    <3>2. Head(<<"purge", "add", "flip", "point", "record">>) = "purge" /\ Range(<<"purge", "add", "flip", "point", "record">>) = {"purge", "add", "flip", "point", "record"}
      BY DEF Range
    <3> QED BY <3>1, <3>2
  <2>3. js \in Seq(Job) /\ t \in ApplyJobs /\ js # PointAndRecord /\ t # PointAndRecord
        /\ js # RecordAlone /\ t # RecordAlone
    BY <1>4, <2>2 DEF Job, ApplyJobs, PointAndRecord, RecordAlone
  <2> HIDE DEF h, t, n, R, u, g, S
  <2> QED BY <2>1, <2>2, <2>3
<1>5. CASE js = <<"purge", "add">>
  <2>1. /\ js # <<>> /\ h = "purge" /\ n = 2 /\ u = "add"
        /\ R = {"purge", "add"}
    BY <1>5 DEF Range
  <2>2. t = <<"add">> /\ g = "add" /\ S = {"add"}
    <3>1. Tail(js) = <<"add">>
      BY <1>5
    <3>2. Head(<<"add">>) = "add" /\ Range(<<"add">>) = {"add"}
      BY DEF Range
    <3> QED BY <3>1, <3>2
  <2>3. js \in Seq(Job) /\ t \in ApplyJobs /\ js # PointAndRecord /\ t # PointAndRecord
        /\ js # RecordAlone /\ t # RecordAlone
    BY <1>5, <2>2 DEF Job, ApplyJobs, PointAndRecord, RecordAlone
  <2> HIDE DEF h, t, n, R, u, g, S
  <2> QED BY <2>1, <2>2, <2>3
<1>6. CASE js = <<"purge", "add", "flip">>
  <2>1. /\ js # <<>> /\ h = "purge" /\ n = 3 /\ u = "add"
        /\ R = {"purge", "add", "flip"}
    BY <1>6 DEF Range
  <2>2. t = <<"add", "flip">> /\ g = "add" /\ S = {"add", "flip"}
    <3>1. Tail(js) = <<"add", "flip">>
      BY <1>6
    <3>2. Head(<<"add", "flip">>) = "add" /\ Range(<<"add", "flip">>) = {"add", "flip"}
      BY DEF Range
    <3> QED BY <3>1, <3>2
  <2>3. js \in Seq(Job) /\ t \in ApplyJobs /\ js # PointAndRecord /\ t # PointAndRecord
        /\ js # RecordAlone /\ t # RecordAlone
    BY <1>6, <2>2 DEF Job, ApplyJobs, PointAndRecord, RecordAlone
  <2> HIDE DEF h, t, n, R, u, g, S
  <2> QED BY <2>1, <2>2, <2>3
<1>7. CASE js = <<"purge", "add", "point", "record">>
  <2>1. /\ js # <<>> /\ h = "purge" /\ n = 4 /\ u = "add"
        /\ R = {"purge", "add", "point", "record"}
    BY <1>7 DEF Range
  <2>2. t = <<"add", "point", "record">> /\ g = "add" /\ S = {"add", "point", "record"}
    <3>1. Tail(js) = <<"add", "point", "record">>
      BY <1>7
    <3>2. Head(<<"add", "point", "record">>) = "add" /\ Range(<<"add", "point", "record">>) = {"add", "point", "record"}
      BY DEF Range
    <3> QED BY <3>1, <3>2
  <2>3. js \in Seq(Job) /\ t \in ApplyJobs /\ js # PointAndRecord /\ t # PointAndRecord
        /\ js # RecordAlone /\ t # RecordAlone
    BY <1>7, <2>2 DEF Job, ApplyJobs, PointAndRecord, RecordAlone
  <2> HIDE DEF h, t, n, R, u, g, S
  <2> QED BY <2>1, <2>2, <2>3
<1>8. CASE js = <<"purge", "add", "flip", "point", "record">>
  <2>1. /\ js # <<>> /\ h = "purge" /\ n = 5 /\ u = "add"
        /\ R = {"purge", "add", "flip", "point", "record"}
    BY <1>8 DEF Range
  <2>2. t = <<"add", "flip", "point", "record">> /\ g = "add" /\ S = {"add", "flip", "point", "record"}
    <3>1. Tail(js) = <<"add", "flip", "point", "record">>
      BY <1>8
    <3>2. Head(<<"add", "flip", "point", "record">>) = "add" /\ Range(<<"add", "flip", "point", "record">>) = {"add", "flip", "point", "record"}
      BY DEF Range
    <3> QED BY <3>1, <3>2
  <2>3. js \in Seq(Job) /\ t \in ApplyJobs /\ js # PointAndRecord /\ t # PointAndRecord
        /\ js # RecordAlone /\ t # RecordAlone
    BY <1>8, <2>2 DEF Job, ApplyJobs, PointAndRecord, RecordAlone
  <2> HIDE DEF h, t, n, R, u, g, S
  <2> QED BY <2>1, <2>2, <2>3
<1>9. CASE js = <<"add">>
  <2>1. /\ js # <<>> /\ h = "add" /\ n = 1
        /\ R = {"add"}
    BY <1>9 DEF Range
  <2>3. js \in Seq(Job) /\ js # PointAndRecord /\ js # RecordAlone
    BY <1>9 DEF Job, PointAndRecord, RecordAlone
  <2> HIDE DEF h, t, n, R, u, g, S
  <2> QED BY <2>1, <2>3
<1>10. CASE js = <<"add", "flip">>
  <2>1. /\ js # <<>> /\ h = "add" /\ n = 2 /\ u = "flip"
        /\ R = {"add", "flip"}
    BY <1>10 DEF Range
  <2>2. t = <<"flip">> /\ g = "flip" /\ S = {"flip"}
    <3>1. Tail(js) = <<"flip">>
      BY <1>10
    <3>2. Head(<<"flip">>) = "flip" /\ Range(<<"flip">>) = {"flip"}
      BY DEF Range
    <3> QED BY <3>1, <3>2
  <2>3. js \in Seq(Job) /\ t \in ApplyJobs /\ js # PointAndRecord /\ t # PointAndRecord
        /\ js # RecordAlone /\ t # RecordAlone
    BY <1>10, <2>2 DEF Job, ApplyJobs, PointAndRecord, RecordAlone
  <2> HIDE DEF h, t, n, R, u, g, S
  <2> QED BY <2>1, <2>2, <2>3
<1>11. CASE js = <<"add", "point", "record">>
  <2>1. /\ js # <<>> /\ h = "add" /\ n = 3 /\ u = "point"
        /\ R = {"add", "point", "record"}
    BY <1>11 DEF Range
  <2>2. t = <<"point", "record">> /\ g = "point" /\ S = {"point", "record"}
    <3>1. Tail(js) = <<"point", "record">>
      BY <1>11
    <3>2. Head(<<"point", "record">>) = "point" /\ Range(<<"point", "record">>) = {"point", "record"}
      BY DEF Range
    <3> QED BY <3>1, <3>2
  <2>3. js \in Seq(Job) /\ t \in ApplyJobs /\ js # PointAndRecord /\ t = PointAndRecord
        /\ js # RecordAlone /\ t # RecordAlone
    BY <1>11, <2>2 DEF Job, ApplyJobs, PointAndRecord, RecordAlone
  <2> HIDE DEF h, t, n, R, u, g, S
  <2> QED BY <2>1, <2>2, <2>3
<1>12. CASE js = <<"add", "flip", "point", "record">>
  <2>1. /\ js # <<>> /\ h = "add" /\ n = 4 /\ u = "flip"
        /\ R = {"add", "flip", "point", "record"}
    BY <1>12 DEF Range
  <2>2. t = <<"flip", "point", "record">> /\ g = "flip" /\ S = {"flip", "point", "record"}
    <3>1. Tail(js) = <<"flip", "point", "record">>
      BY <1>12
    <3>2. Head(<<"flip", "point", "record">>) = "flip" /\ Range(<<"flip", "point", "record">>) = {"flip", "point", "record"}
      BY DEF Range
    <3> QED BY <3>1, <3>2
  <2>3. js \in Seq(Job) /\ t \in ApplyJobs /\ js # PointAndRecord /\ t # PointAndRecord
        /\ js # RecordAlone /\ t # RecordAlone
    BY <1>12, <2>2 DEF Job, ApplyJobs, PointAndRecord, RecordAlone
  <2> HIDE DEF h, t, n, R, u, g, S
  <2> QED BY <2>1, <2>2, <2>3
<1>13. CASE js = <<"flip">>
  <2>1. /\ js # <<>> /\ h = "flip" /\ n = 1
        /\ R = {"flip"}
    BY <1>13 DEF Range
  <2>3. js \in Seq(Job) /\ js # PointAndRecord /\ js # RecordAlone
    BY <1>13 DEF Job, PointAndRecord, RecordAlone
  <2> HIDE DEF h, t, n, R, u, g, S
  <2> QED BY <2>1, <2>3
<1>14. CASE js = <<"flip", "point", "record">>
  <2>1. /\ js # <<>> /\ h = "flip" /\ n = 3 /\ u = "point"
        /\ R = {"flip", "point", "record"}
    BY <1>14 DEF Range
  <2>2. t = <<"point", "record">> /\ g = "point" /\ S = {"point", "record"}
    <3>1. Tail(js) = <<"point", "record">>
      BY <1>14
    <3>2. Head(<<"point", "record">>) = "point" /\ Range(<<"point", "record">>) = {"point", "record"}
      BY DEF Range
    <3> QED BY <3>1, <3>2
  <2>3. js \in Seq(Job) /\ t \in ApplyJobs /\ js # PointAndRecord /\ t = PointAndRecord
        /\ js # RecordAlone /\ t # RecordAlone
    BY <1>14, <2>2 DEF Job, ApplyJobs, PointAndRecord, RecordAlone
  <2> HIDE DEF h, t, n, R, u, g, S
  <2> QED BY <2>1, <2>2, <2>3
<1>15. CASE js = PointAndRecord
  <2>1. /\ js # <<>> /\ h = "point" /\ n = 2 /\ u = "record"
        /\ R = {"point", "record"}
    BY <1>15 DEF Range, PointAndRecord
  <2>2. t = <<"record">> /\ g = "record" /\ S = {"record"}
    <3>1. Tail(js) = <<"record">>
      BY <1>15 DEF PointAndRecord
    <3>2. Head(<<"record">>) = "record" /\ Range(<<"record">>) = {"record"}
      BY DEF Range
    <3> QED BY <3>1, <3>2
  <2>3. js \in Seq(Job) /\ t \in ApplyJobs /\ js = PointAndRecord /\ t # PointAndRecord
        /\ js # RecordAlone /\ t = RecordAlone
    BY <1>15, <2>2 DEF Job, ApplyJobs, PointAndRecord, RecordAlone
  <2> HIDE DEF h, t, n, R, u, g, S
  <2> QED BY <2>1, <2>2, <2>3
<1>16. CASE js = RecordAlone
  <2>1. /\ js # <<>> /\ h = "record" /\ n = 1
        /\ R = {"record"}
    BY <1>16 DEF Range, RecordAlone
  <2>3. js \in Seq(Job) /\ js # PointAndRecord /\ js = RecordAlone
    BY <1>16 DEF Job, PointAndRecord, RecordAlone
  <2> HIDE DEF h, t, n, R, u, g, S
  <2> QED BY <2>1, <2>3
<1> QED BY <1>1, <1>2, <1>3, <1>4, <1>5, <1>6, <1>7, <1>8, <1>9, <1>10, <1>11, <1>12, <1>13, <1>14, <1>15, <1>16 DEF ApplyJobs

\* What is left of the jobs of an undo, and what follows the first of them.
LEMMA UndoJobFacts ==
  ASSUME NEW js \in UndoJobs
  PROVE  /\ js \in Seq(Job) /\ js # <<>> /\ Len(js) \in Nat \ {0} /\ Head(js) \in Range(js)
         /\ Head(js) \in {"defaults", "wininet", "rules", "clear"}
         /\ Len(js) # 1 =>
              /\ Tail(js) \in UndoJobs /\ js[2] = Head(Tail(js)) /\ Tail(js) # ProxyAlone
              /\ \A j : j \in Range(Tail(js)) <=> j \in Range(js) /\ j # Head(js)
              /\ Head(js) # "clear" /\ js # ProxyAlone
         /\ Len(js) = 1 => (js = ProxyAlone \/ js = ClearAlone) /\ (\A j : j \in Range(js) => j = Head(js))
         /\ Head(js) = "rules" => "defaults" \notin Range(js) /\ "wininet" \notin Range(js)
         /\ Head(js) = "clear" <=> js = ClearAlone
         /\ js = ClearAlone => \A j : j \in Range(js) => j = "clear"
         /\ js = ProxyAlone => Head(js) = "wininet" /\ Len(js) = 1
<1> DEFINE h == Head(js) t == Tail(js) n == Len(js) R == Range(js) u == js[2]
           g == Head(Tail(js)) S == Range(Tail(js))
<1> DEFINE Facts ==
      /\ js \in Seq(Job) /\ js # <<>> /\ n \in Nat \ {0} /\ h \in R
      /\ h \in {"defaults", "wininet", "rules", "clear"}
      /\ n # 1 =>
           /\ t \in UndoJobs /\ u = g /\ t # ProxyAlone
           /\ \A j : j \in S <=> j \in R /\ j # h
           /\ h # "clear" /\ js # ProxyAlone
      /\ n = 1 => (js = ProxyAlone \/ js = ClearAlone) /\ (\A j : j \in R => j = h)
      /\ h = "rules" => "defaults" \notin R /\ "wininet" \notin R
      /\ h = "clear" <=> js = ClearAlone
      /\ js = ClearAlone => \A j : j \in R => j = "clear"
      /\ js = ProxyAlone => h = "wininet" /\ n = 1
<1> SUFFICES Facts
  OBVIOUS
<1>1. CASE js = <<"defaults", "wininet", "rules", "clear">>
  <2>1. /\ js # <<>> /\ h = "defaults" /\ n = 4 /\ u = "wininet"
        /\ R = {"defaults", "wininet", "rules", "clear"}
    BY <1>1 DEF Range
  <2>2. t = <<"wininet", "rules", "clear">> /\ g = "wininet" /\ S = {"wininet", "rules", "clear"}
    <3>1. Tail(js) = <<"wininet", "rules", "clear">>
      BY <1>1
    <3>2. Head(<<"wininet", "rules", "clear">>) = "wininet" /\ Range(<<"wininet", "rules", "clear">>) = {"wininet", "rules", "clear"}
      BY DEF Range
    <3> QED BY <3>1, <3>2
  <2>3. js \in Seq(Job) /\ t \in UndoJobs /\ js # ProxyAlone /\ t # ProxyAlone
        /\ js # ClearAlone
    BY <1>1, <2>2 DEF Job, UndoJobs, ProxyAlone, ClearAlone
  <2> HIDE DEF h, t, n, R, u, g, S
  <2> QED BY <2>1, <2>2, <2>3
<1>2. CASE js = <<"wininet", "defaults", "rules", "clear">>
  <2>1. /\ js # <<>> /\ h = "wininet" /\ n = 4 /\ u = "defaults"
        /\ R = {"wininet", "defaults", "rules", "clear"}
    BY <1>2 DEF Range
  <2>2. t = <<"defaults", "rules", "clear">> /\ g = "defaults" /\ S = {"defaults", "rules", "clear"}
    <3>1. Tail(js) = <<"defaults", "rules", "clear">>
      BY <1>2
    <3>2. Head(<<"defaults", "rules", "clear">>) = "defaults" /\ Range(<<"defaults", "rules", "clear">>) = {"defaults", "rules", "clear"}
      BY DEF Range
    <3> QED BY <3>1, <3>2
  <2>3. js \in Seq(Job) /\ t \in UndoJobs /\ js # ProxyAlone /\ t # ProxyAlone
        /\ js # ClearAlone
    BY <1>2, <2>2 DEF Job, UndoJobs, ProxyAlone, ClearAlone
  <2> HIDE DEF h, t, n, R, u, g, S
  <2> QED BY <2>1, <2>2, <2>3
<1>3. CASE js = <<"defaults", "rules", "clear">>
  <2>1. /\ js # <<>> /\ h = "defaults" /\ n = 3 /\ u = "rules"
        /\ R = {"defaults", "rules", "clear"}
    BY <1>3 DEF Range
  <2>2. t = <<"rules", "clear">> /\ g = "rules" /\ S = {"rules", "clear"}
    <3>1. Tail(js) = <<"rules", "clear">>
      BY <1>3
    <3>2. Head(<<"rules", "clear">>) = "rules" /\ Range(<<"rules", "clear">>) = {"rules", "clear"}
      BY DEF Range
    <3> QED BY <3>1, <3>2
  <2>3. js \in Seq(Job) /\ t \in UndoJobs /\ js # ProxyAlone /\ t # ProxyAlone
        /\ js # ClearAlone
    BY <1>3, <2>2 DEF Job, UndoJobs, ProxyAlone, ClearAlone
  <2> HIDE DEF h, t, n, R, u, g, S
  <2> QED BY <2>1, <2>2, <2>3
<1>4. CASE js = <<"wininet", "rules", "clear">>
  <2>1. /\ js # <<>> /\ h = "wininet" /\ n = 3 /\ u = "rules"
        /\ R = {"wininet", "rules", "clear"}
    BY <1>4 DEF Range
  <2>2. t = <<"rules", "clear">> /\ g = "rules" /\ S = {"rules", "clear"}
    <3>1. Tail(js) = <<"rules", "clear">>
      BY <1>4
    <3>2. Head(<<"rules", "clear">>) = "rules" /\ Range(<<"rules", "clear">>) = {"rules", "clear"}
      BY DEF Range
    <3> QED BY <3>1, <3>2
  <2>3. js \in Seq(Job) /\ t \in UndoJobs /\ js # ProxyAlone /\ t # ProxyAlone
        /\ js # ClearAlone
    BY <1>4, <2>2 DEF Job, UndoJobs, ProxyAlone, ClearAlone
  <2> HIDE DEF h, t, n, R, u, g, S
  <2> QED BY <2>1, <2>2, <2>3
<1>5. CASE js = <<"rules", "clear">>
  <2>1. /\ js # <<>> /\ h = "rules" /\ n = 2 /\ u = "clear"
        /\ R = {"rules", "clear"}
    BY <1>5 DEF Range
  <2>2. t = <<"clear">> /\ g = "clear" /\ S = {"clear"}
    <3>1. Tail(js) = <<"clear">>
      BY <1>5
    <3>2. Head(<<"clear">>) = "clear" /\ Range(<<"clear">>) = {"clear"}
      BY DEF Range
    <3> QED BY <3>1, <3>2
  <2>3. js \in Seq(Job) /\ t \in UndoJobs /\ js # ProxyAlone /\ t # ProxyAlone
        /\ js # ClearAlone
    BY <1>5, <2>2 DEF Job, UndoJobs, ProxyAlone, ClearAlone
  <2> HIDE DEF h, t, n, R, u, g, S
  <2> QED BY <2>1, <2>2, <2>3
<1>6. CASE js = <<"wininet", "clear">>
  <2>1. /\ js # <<>> /\ h = "wininet" /\ n = 2 /\ u = "clear"
        /\ R = {"wininet", "clear"}
    BY <1>6 DEF Range
  <2>2. t = <<"clear">> /\ g = "clear" /\ S = {"clear"}
    <3>1. Tail(js) = <<"clear">>
      BY <1>6
    <3>2. Head(<<"clear">>) = "clear" /\ Range(<<"clear">>) = {"clear"}
      BY DEF Range
    <3> QED BY <3>1, <3>2
  <2>3. js \in Seq(Job) /\ t \in UndoJobs /\ js # ProxyAlone /\ t # ProxyAlone
        /\ js # ClearAlone
    BY <1>6, <2>2 DEF Job, UndoJobs, ProxyAlone, ClearAlone
  <2> HIDE DEF h, t, n, R, u, g, S
  <2> QED BY <2>1, <2>2, <2>3
<1>7. CASE js = ClearAlone
  <2>1. /\ js # <<>> /\ h = "clear" /\ n = 1
        /\ R = {"clear"}
    BY <1>7 DEF Range, ClearAlone
  <2>3. js \in Seq(Job) /\ js # ProxyAlone /\ js = ClearAlone
    BY <1>7 DEF Job, ProxyAlone, ClearAlone
  <2> HIDE DEF h, t, n, R, u, g, S
  <2> QED BY <2>1, <2>3
<1>8. CASE js = ProxyAlone
  <2>1. /\ js # <<>> /\ h = "wininet" /\ n = 1
        /\ R = {"wininet"}
    BY <1>8 DEF Range, ProxyAlone
  <2>3. js \in Seq(Job) /\ js = ProxyAlone /\ js # ClearAlone
    BY <1>8 DEF Job, ProxyAlone, ClearAlone
  <2> HIDE DEF h, t, n, R, u, g, S
  <2> QED BY <2>1, <2>3
<1> QED BY <1>1, <1>2, <1>3, <1>4, <1>5, <1>6, <1>7, <1>8 DEF UndoJobs

-----------------------------------------------------------------------------
(* The names of the rules, and the items of each job.                       *)

\* The profiles and the WinINET values (defaults_windows.go, sysproxy_windows.go).
LEMMA ListsAre ==
  /\ Range(blockedProfiles) = {"domain", "private", "public"}
  /\ blockedProfiles \in Seq({"domain", "private", "public"})
  /\ Range(WinINET) = {"ProxyEnable", "ProxyServer", "ProxyOverride"}
  /\ WinINET \in Seq({"ProxyEnable", "ProxyServer", "ProxyOverride"})
  /\ blockedProfiles # <<>> /\ WinINET # <<>>
BY DEF Range, blockedProfiles, WinINET

\* The names are sequences, and there is always a rule to let the proxy out
\* (enforcer_windows.go:305-317, 488-498).
LEMMA NamesAre ==
  /\ AllowNames \in Seq(Range(AllowNames)) /\ ProxyRule \in Range(AllowNames) /\ AllowNames # <<>>
  /\ Range(AllowNames) = {ProxyRule} \cup Range(Exceptions)
  /\ Range(AllowNames) \subseteq Own /\ Range(BlockNames) \subseteq Own
  /\ Own \cap Foreign = {}
  /\ BlockNames \in Seq(Own) /\ AllowNames \in Seq(Own) /\ BlockNames # <<>>
<1> DEFINE S == {ProxyRule} \cup Range(Exceptions)
<1>1. <<ProxyRule>> \in Seq(S) /\ Range(<<ProxyRule>>) = {ProxyRule}
  BY DEF Range
<1>2. Exceptions \in Seq(S)
  BY EnforcerConstants, SeqMonotonic
<1>3. AllowNames \in Seq(S) /\ Range(AllowNames) = S
  <2> DEFINE p == <<ProxyRule>>
  <2>1. AllowNames = p \o Exceptions /\ p \in Seq(S) /\ Range(p) = {ProxyRule}
    BY <1>1 DEF AllowNames
  <2>2. Range(p) \cup Range(Exceptions) = S
    BY <2>1
  <2> HIDE DEF p, S
  <2>3. p \o Exceptions \in Seq(S)
    BY <1>2, <2>1, ConcatProperties
  <2>4. Range(p \o Exceptions) = Range(p) \cup Range(Exceptions)
    BY <1>2, <2>1, RangeConcatenation
  <2> QED BY <2>1, <2>2, <2>3, <2>4
<1>4. Len(<<ProxyRule>>) = 1 /\ Len(AllowNames) = 1 + Len(Exceptions) /\ Len(Exceptions) \in Nat
  BY <1>1, <1>2, ConcatProperties, LenProperties DEF AllowNames
<1>5. AllowNames # <<>>
  BY <1>4, EmptyFacts
<1>6. Range(AllowNames) \subseteq Own /\ Range(BlockNames) \subseteq Own
  BY DEF Own
<1>7. BlockNames \in Seq(Own) /\ AllowNames \in Seq(Own)
  BY <1>3, <1>6, EnforcerConstants, SeqMonotonic
<1>8. Own \cap Foreign = {}
  BY <1>3, EnforcerConstants DEF Own
<1> QED BY <1>3, <1>5, <1>6, <1>7, <1>8, EnforcerConstants

\* The items of every job but "add", one by one.
LEMMA ItemsAre ==
  ASSUME NEW m
  PROVE  /\ Items("record", m) = <<"truncate", "write">>
         /\ Items("purge", m) = m.rules
         /\ Items("add", m) = addOrder(m)
         /\ Items("flip", m) = blockedProfiles
         /\ Items("point", m) = WinINET
         /\ Items("defaults", m) = IF m.global THEN blockedProfiles ELSE <<>>
         /\ Items("wininet", m) = IF m.hasProxy THEN WinINET ELSE <<>>
         /\ Items("rules", m) = m.rules
         /\ Items("clear", m) = <<"file">>
BY DEF Items

\* A record of a session, and its names.
LEMMA RecordTyped ==
  ASSUME NEW m \in enforcementState
  PROVE  /\ m.kind \in {"none", "corrupt", "state"} /\ m.global \in BOOLEAN /\ m.hasProxy \in BOOLEAN
         /\ m.saved \in Outbound /\ m.proxy \in Settings
         /\ m.rules \in Seq(Own \cup Foreign) /\ m.rules \in Seq(Range(m.rules))
         /\ Range(m.rules) \subseteq Own \cup Foreign
<1>1. m.rules \in Seq(Own \cup Foreign)
  BY DEF enforcementState
<1>2. m.rules \in Seq(Range(m.rules)) /\ Range(m.rules) \subseteq Own \cup Foreign
  BY <1>1, SeqOfRange, RangeOfSeq
<1> QED BY <1>1, <1>2 DEF enforcementState

\* The allow rules go in first, and nothing but what is recorded (enforcer_windows.go:124-141).
LEMMA AddOrderFacts ==
  ASSUME NEW m \in enforcementState
  PROVE  /\ addOrder(m) \in Seq(Range(addOrder(m)))
         /\ m.global => Range(AllowNames) \subseteq Range(addOrder(m))
         /\ Recordable(m) => Range(addOrder(m)) \subseteq Range(m.rules)
<1> DEFINE S == Own \cup Foreign
           allow == IF m.global THEN AllowNames ELSE <<>>
           n == Len(m.rules) - Len(allow)
           rest == SubSeq(m.rules, 1, n)
<1>1. m.rules \in Seq(S) /\ allow \in Seq(S)
  BY RecordTyped, NamesAre, SeqMonotonic, EmptyFacts
<1>2. Len(m.rules) \in Nat /\ Len(allow) \in Nat
  <2> HIDE DEF allow
  <2> QED BY <1>1, LenProperties
<1>3. n \in Int /\ n <= Len(m.rules)
  <2> HIDE DEF allow
  <2> QED BY <1>2
<1>4. rest \in Seq(S) /\ Range(rest) \subseteq Range(m.rules)
  <2> HIDE DEF n
  <2>1. \A i \in 1 .. n : i \in 1 .. Len(m.rules) /\ m.rules[i] \in S
    BY <1>1, <1>2, <1>3, ElementOfSeq
  <2>2. /\ rest \in Seq(S) /\ Len(rest) = IF 1 <= n THEN n - 1 + 1 ELSE 0
        /\ \A i \in 1 .. n - 1 + 1 : rest[i] = m.rules[1 + i - 1]
    BY <1>3, <2>1, SubSeqProperties
  <2> HIDE DEF rest
  <2>3. DOMAIN rest = 1 .. Len(rest) /\ DOMAIN m.rules = 1 .. Len(m.rules)
    BY <1>1, <2>2, LenProperties
  <2>4. ASSUME NEW i \in DOMAIN rest PROVE rest[i] \in Range(m.rules)
    <3>1. i \in 1 .. n
      BY <1>3, <2>2, <2>3
    <3>2. rest[i] = m.rules[i] /\ i \in 1 .. Len(m.rules)
      BY <1>3, <2>1, <2>2, <3>1
    <3> QED BY <2>3, <3>2 DEF Range
  <2>5. Range(rest) \subseteq Range(m.rules)
    BY <2>4 DEF Range
  <2> QED BY <2>2, <2>5
<1> HIDE DEF rest, allow, n
<1>5. addOrder(m) = allow \o rest
  BY DEF addOrder, allow, rest, n
<1>6. addOrder(m) \in Seq(S) /\ Range(addOrder(m)) = Range(allow) \cup Range(rest)
  BY <1>1, <1>4, <1>5, RangeConcatenation, ConcatProperties
<1>7. addOrder(m) \in Seq(Range(addOrder(m)))
  BY <1>6, SeqOfRange
<1>8. m.global => Range(allow) = Range(AllowNames)
  BY DEF allow
<1>9. ~m.global => Range(allow) = {}
  BY EmptyFacts DEF allow
<1> QED BY <1>4, <1>6, <1>7, <1>8, <1>9, RecordTyped DEF Recordable

\* The items of a job are a sequence.
LEMMA ItemsTyped ==
  ASSUME NEW m \in enforcementState, NEW j \in Job
  PROVE  Items(j, m) \in Seq(Range(Items(j, m)))
<1>1. CASE j = "record"
  <2>1. <<"truncate", "write">> \in Seq({"truncate", "write"})
    OBVIOUS
  <2> QED BY <1>1, <2>1, ItemsAre, SeqOfRange
<1>2. CASE j \in {"purge", "rules"}
  BY <1>2, ItemsAre, RecordTyped
<1>3. CASE j = "add"
  BY <1>3, ItemsAre, AddOrderFacts
<1>4. CASE j = "flip" \/ j = "point"
  BY <1>4, ItemsAre, ListsAre, SeqOfRange
<1>5. CASE j = "defaults" \/ j = "wininet"
  BY <1>5, ItemsAre, ListsAre, SeqOfRange, EmptyFacts
<1>6. CASE j = "clear"
  <2>1. <<"file">> \in Seq({"file"})
    OBVIOUS
  <2> QED BY <1>6, <2>1, ItemsAre, SeqOfRange
<1> QED BY <1>1, <1>2, <1>3, <1>4, <1>5, <1>6 DEF Job

-----------------------------------------------------------------------------
(* Types, and the order of the jobs.                                        *)

\* The empty record, and the machine as it is (enforcer_windows.go:86-92).
LEMMA BlankTyped ==
  ASSUME original \in Snapshot
  PROVE  /\ Blank \in enforcementState /\ Recordable(Blank)
         /\ Blank.kind = "none" /\ Blank.rules = <<>> /\ Blank.global = FALSE /\ Blank.hasProxy = FALSE
         /\ Blank.saved = original.outbound /\ Blank.proxy = original.wininet
<1>1. <<>> \in Seq(Own \cup Foreign)
  BY EmptyFacts
<1> QED BY <1>1 DEF Blank, Snapshot, enforcementState, Recordable

\* The machine as Apply finds it.
LEMMA MachineTyped ==
  ASSUME ProcessOK
  PROVE  /\ Machine \in Snapshot
         /\ Machine.outbound = outbound /\ Machine.rules = rules /\ Machine.wininet = wininet
BY DEF ProcessOK, Machine, Snapshot

\* The first job of a sequence of jobs.
LEMMA FirstJob == ASSUME NEW js \in Seq(Job), js # <<>> PROVE js[1] = Head(js) /\ Head(js) \in Job
BY TakeOne

\* A name taken from the state file or from a set (SetToSeq) is a name.
LEMMA SomeOrder == SetToSeq(Foreign) \in Seq(Own \cup Foreign)
<1> DEFINE n == Cardinality(Foreign)
           P(f) == IsInjective(f)
<1>1. n \in Nat /\ ExistsBijection(1 .. n, Foreign)
  BY EnforcerConstants, FS_CardinalityType
<1>2. PICK f \in [1 .. n -> Foreign] : IsInjective(f)
  BY <1>1, Zenon DEF ExistsBijection, Bijection, Injection, IsInjective
<1> HIDE DEF n
<1>3. SetToSeq(Foreign) \in [1 .. n -> Foreign]
  BY <1>2 DEF SetToSeq, n
<1>4. SetToSeq(Foreign) \in Seq(Foreign)
  BY <1>1, <1>3
<1> QED BY <1>4, SeqMonotonic

\* A call of a job has been made: what is left of it is still in order.
LEMMA Advances ==
  ASSUME Typed, pc \in {"apply", "undo"}, left # <<>>, Advance, UNCHANGED <<mem, ended>>,
         fails' \in Nat, fails' >= fails
  PROVE  Plan'
<1> USE DEF Advance
<1>1. left \in Seq(Range(Items(Head(jobs), mem)))
  BY DEF Typed, Plan
<1>2. left' \in Seq(Range(Items(Head(jobs), mem)))
  BY <1>1, TakeOne
<1>3. pc = "apply" /\ Head(jobs) = "record" => left' \in {<<"truncate", "write">>, <<"write">>, <<>>}
  <2>1. Tail(<<"truncate", "write">>) = <<"write">> /\ Tail(<<"write">>) = <<>>
    OBVIOUS
  <2> QED BY <2>1 DEF Typed, Plan
<1>7. pc = "apply" /\ Head(jobs) = "point" => Len(left') <= Len(WinINET)
  <2>1. Len(left) \in Nat /\ Len(left') = Len(left) - 1 /\ Len(WinINET) \in Nat
    BY <1>1, HeadTailProperties, LenProperties, ListsAre
  <2>2. pc = "apply" /\ Head(jobs) = "point" => Len(left) <= Len(WinINET)
    BY DEF Typed, Plan
  <2> QED BY <2>1, <2>2
<1>6. pc = "undo" /\ Head(jobs) = "clear" => left' \in {<<"file">>, <<>>}
  <2>1. Tail(<<"file">>) = <<>>
    OBVIOUS
  <2> QED BY <2>1 DEF Typed, Plan
<1>4. /\ fails \in Nat /\ (bad => fails' >= 1)
      /\ pc = "undo" /\ fatal = {} => fails' >= 1 /\ (bad => fails' >= 2)
  <2>1. fails \in Nat
    BY EnforcerConstants DEF Typed, ProcessOK
  <2>2. bad => fails >= 1
    BY DEF Typed, Plan
  <2>3. pc = "undo" /\ fatal = {} => fails >= 1 /\ (bad => fails >= 2)
    BY DEF Typed, Plan
  <2> QED BY <2>1, <2>2, <2>3
<1>5. UNCHANGED <<pc, jobs, fatal, bad, then, mem, ended>>
  OBVIOUS
<1> QED BY <1>2, <1>3, <1>4, <1>5, <1>6, <1>7 DEF Typed, Plan

\* The first of a sequence of jobs, and its items.
LEMMA FirstItems ==
  ASSUME NEW js \in ApplyJobs \cup UndoJobs, NEW m \in enforcementState
  PROVE  /\ js \in Seq(Job) /\ js # <<>> /\ js[1] = Head(js) /\ Head(js) \in Job
         /\ Items(Head(js), m) \in Seq(Range(Items(Head(js), m)))
         /\ Head(js) = "record" => Items(Head(js), m) = <<"truncate", "write">>
         /\ Head(js) = "clear" => Items(Head(js), m) = <<"file">>
         /\ Head(js) = "point" => Len(Items(Head(js), m)) <= Len(WinINET)
<1>1. js \in Seq(Job) /\ js # <<>>
  BY ApplyJobFacts, UndoJobFacts
<1>2. js[1] = Head(js) /\ Head(js) \in Job
  BY <1>1, FirstJob
<1>3. Len(WinINET) \in Nat /\ Len(WinINET) <= Len(WinINET)
  BY ListsAre, LenProperties
<1> QED BY <1>1, <1>2, <1>3, ItemsTyped, ItemsAre

\* An Apply, or what is left of it, is begun.
LEMMA ApplyBegins ==
  ASSUME Typed, NEW js \in ApplyJobs, NEW m \in enforcementState, m.kind = "state",
         Begin("apply", js, m, {}, "down"), ended' = "never", fails' \in Nat
  PROVE  /\ Plan' /\ pc' = "apply" /\ mem' = m /\ jobs' = js /\ jobs' \in Seq(Job) /\ jobs' # <<>>
         /\ left' = Items(Head(js), m) /\ Head(js) \in Job
         /\ fatal' = {} /\ bad' = FALSE /\ then' = "down"
<1>1. /\ js \in Seq(Job) /\ js # <<>> /\ js[1] = Head(js) /\ Head(js) \in Job
      /\ Items(Head(js), m) \in Seq(Range(Items(Head(js), m)))
      /\ Head(js) = "record" => Items(Head(js), m) = <<"truncate", "write">>
      /\ Head(js) = "point" => Len(Items(Head(js), m)) <= Len(WinINET)
  BY FirstItems
<1>2. /\ pc' = "apply" /\ mem' = m /\ jobs' = js /\ left' = Items(Head(js), m)
      /\ fatal' = {} /\ bad' = FALSE /\ then' = "down"
  BY <1>1 DEF Begin
<1> QED BY <1>1, <1>2 DEF Plan

\* An undo, or what is left of it, is begun.
LEMMA UndoBegins ==
  ASSUME Typed, NEW js \in UndoJobs, NEW m \in enforcementState, NEW errs \in SUBSET Job,
         NEW t \in {"ready", "down"}, Begin("undo", js, m, errs, t), ended' = "never",
         fails' \in Nat, js = ProxyAlone => errs = {},
         errs = {} => t = "down" /\ fails' >= 1,
         errs # {} /\ "defaults" \in Range(js) => "defaults" \in errs
  PROVE  /\ Plan' /\ pc' = "undo" /\ mem' = m /\ jobs' = js /\ jobs' \in Seq(Job) /\ jobs' # <<>>
         /\ left' = Items(Head(js), m) /\ Head(js) \in Job
         /\ fatal' = errs /\ bad' = FALSE /\ then' = t
<1>1. /\ js \in Seq(Job) /\ js # <<>> /\ js[1] = Head(js) /\ Head(js) \in Job
      /\ Items(Head(js), m) \in Seq(Range(Items(Head(js), m)))
      /\ Head(js) = "clear" => Items(Head(js), m) = <<"file">>
  BY FirstItems
<1>2. /\ pc' = "undo" /\ mem' = m /\ jobs' = js /\ left' = Items(Head(js), m)
      /\ fatal' = errs /\ bad' = FALSE /\ then' = t
  BY <1>1 DEF Begin
<1> QED BY <1>1, <1>2 DEF Plan

\* A process has nothing more to do.
LEMMA Rests ==
  ASSUME Typed, NEW p \in {"down", "recover", "ready", "running", "suspended"}, Rest(p),
         p # "down" => ended' = "never", p \in {"running", "suspended"} => mem'.kind # "corrupt"
  PROVE  /\ Plan' /\ pc' = p /\ jobs' = <<>> /\ fatal' = {} /\ bad' = FALSE /\ then' = "down"
         /\ jobs' \in Seq(Job)
<1>1. <<>> \in Seq(Job)
  BY EmptyFacts
<1> QED BY <1>1 DEF Rest, Plan

\* The first process finds a machine no session has touched.
LEMMA InitTyped == Init => Typed
<1> SUFFICES ASSUME Init PROVE Typed
  OBVIOUS
<1>1. wininet \in Settings /\ outbound \in Outbound
  BY EnforcerConstants DEF Init, Settings
<1>2. original = Machine /\ found = Machine /\ rules = Foreign
  BY DEF Init
<1>3. Machine \in Snapshot /\ Machine.rules = rules
  BY <1>1, <1>2 DEF Machine, Snapshot
<1>4. PICK names \in {<<>>, SetToSeq(Foreign)} :
        file = [Blank EXCEPT !.kind = IF names = <<>> THEN "none" ELSE "state", !.rules = names]
  BY DEF Init
<1>5. names \in Seq(Own \cup Foreign)
  BY SomeOrder, EmptyFacts
<1>6. file \in enforcementState /\ Recordable(file)
  <2>1. Blank \in enforcementState /\ Blank.global = FALSE /\ Blank.hasProxy = FALSE
    BY <1>2, <1>3, BlankTyped
  <2>2. /\ file.rules = names /\ file.global = FALSE /\ file.hasProxy = FALSE
        /\ file.kind = IF names = <<>> THEN "none" ELSE "state"
    BY <1>4, <2>1 DEF enforcementState
  <2> QED BY <1>4, <1>5, <2>1, <2>2 DEF enforcementState, Recordable
<1>7. mem \in enforcementState /\ Recordable(mem)
  BY <1>2, <1>3, BlankTyped DEF Init
<1>8. jobs \in Seq(Job) /\ fails \in 0 .. MaxFails /\ crashes \in 0 .. MaxCrashes
      /\ sessions \in 0 .. MaxSessions
  BY EmptyFacts, EnforcerConstants DEF Init
<1>9. ProcessOK
  <2>1. rules \subseteq Own \cup Foreign /\ disabled \subseteq Range(AllowNames)
    BY DEF Init
  <2>2. (pc \in {"apply", "undo"}) = (jobs # <<>>)
    BY DEF Init
  <2>3. /\ pc = "down" /\ elevated = FALSE /\ ended = "never" /\ bad = FALSE /\ fatal = {}
        /\ then = "down" /\ mishaps = {}
    BY DEF Init
  <2> QED BY <1>1, <1>6, <1>7, <1>8, <2>1, <2>2, <2>3 DEF ProcessOK
<1>10. Plan
  BY DEF Init, Plan
<1>11. Matter
  BY <1>2, <1>3, <1>6, <1>7 DEF Init, Matter
<1> QED BY <1>9, <1>10, <1>11 DEF Typed

\* What is counted.
LEMMA Counts ==
  ASSUME ProcessOK
  PROVE  /\ fails \in Nat /\ (fails < MaxFails => fails + 1 \in 0 .. MaxFails)
         /\ sessions < MaxSessions => sessions + 1 \in 0 .. MaxSessions
         /\ crashes < MaxCrashes => crashes + 1 \in 0 .. MaxCrashes
         /\ fails + 1 \in Nat /\ fails + 1 >= fails /\ fails + 1 >= 1
<1>1. MaxFails \in Nat /\ MaxSessions \in Nat /\ MaxCrashes \in Nat
  BY EnforcerConstants
<1>2. fails \in 0 .. MaxFails /\ sessions \in 0 .. MaxSessions /\ crashes \in 0 .. MaxCrashes
  BY DEF ProcessOK
<1> QED BY <1>1, <1>2

\* A start (enforcer.go:11-34).
LEMMA StartTyped == ASSUME Typed, NEW e \in BOOLEAN, Start(e) PROVE Typed'
<1>1. original \in Snapshot /\ ProcessOK /\ Matter
  BY DEF Typed, Matter
<1>2. ended' = "never" /\ Rest("recover")
  BY DEF Start
<1>3. Plan' /\ pc' = "recover" /\ jobs' = <<>> /\ fatal' = {} /\ bad' = FALSE /\ then' = "down" /\ jobs' \in Seq(Job)
  BY <1>2, Rests
<1>4. Blank \in enforcementState /\ Recordable(Blank)
  BY <1>1, BlankTyped
<1>5. sessions' \in 0 .. MaxSessions
  BY <1>1, Counts DEF Start
<1>6. (pc' \in {"apply", "undo"}) = (jobs' # <<>>)
  BY <1>3
<1>7. ProcessOK'
  BY <1>1, <1>2, <1>3, <1>4, <1>5, <1>6 DEF Start, ProcessOK, machine
<1>8. Matter'
  BY <1>1, <1>3, <1>4 DEF Start, Matter, machine, Recordable
<1> QED BY <1>3, <1>7, <1>8 DEF Typed

\* Recover (enforcer_windows.go:381-477).
LEMMA RecoverTyped ==
  ASSUME Typed, RecoverNothing \/ RecoverProxyOnly \/ Recover
  PROVE  Typed'
<1>1. original \in Snapshot /\ ProcessOK /\ Matter /\ file \in enforcementState /\ ended = "never"
  BY DEF Typed, Matter, ProcessOK, Plan, RecoverNothing, RecoverProxyOnly, Recover
<1>2. UNCHANGED <<machine, file, elevated, history, ended, crashes, fails, mishaps>> /\ fails' \in Nat
  BY <1>1, Counts DEF RecoverNothing, RecoverProxyOnly, Recover
<1>3. CASE RecoverNothing
  <2>1. Plan' /\ pc' = "ready" /\ jobs' = <<>> /\ fatal' = {} /\ bad' = FALSE /\ then' = "down" /\ jobs' \in Seq(Job)
    BY <1>1, <1>2, <1>3, Rests DEF RecoverNothing
  <2>2. mem' = mem
    BY <1>3 DEF RecoverNothing
  <2>3. (pc' \in {"apply", "undo"}) = (jobs' # <<>>)
    BY <2>1
  <2>4. ProcessOK'
    BY <1>1, <1>2, <2>1, <2>2, <2>3 DEF ProcessOK, machine, history
  <2>5. Matter'
    BY <1>1, <1>2, <2>1, <2>2 DEF Matter, machine, history, Recordable
  <2> QED BY <2>1, <2>4, <2>5 DEF Typed
<1>4. CASE RecoverProxyOnly \/ Recover
  <2>1. PICK js \in UndoJobs, errs \in SUBSET Job :
          /\ Begin("undo", js, file, errs, "ready") /\ js # ProxyAlone /\ errs # {}
          /\ "defaults" \in Range(js) => "defaults" \in errs
    <3>1. CASE RecoverProxyOnly
      <4>1. /\ <<"wininet", "clear">> \in UndoJobs /\ <<"wininet", "clear">> # ProxyAlone
            /\ "defaults" \notin Range(<<"wininet", "clear">>)
        BY DEF UndoJobs, ProxyAlone, Range
      <4> QED BY <3>1, <4>1 DEF RecoverProxyOnly, Job
    <3>2. CASE Recover
      <4>1. <<"defaults", "wininet", "rules", "clear">> \in UndoJobs /\ <<"defaults", "wininet", "rules", "clear">> # ProxyAlone
        BY DEF UndoJobs, ProxyAlone
      <4> QED BY <3>2, <4>1 DEF Recover, Job
    <3> QED BY <1>4, <3>1, <3>2
  <2>2. /\ Plan' /\ pc' = "undo" /\ mem' = file /\ jobs' \in Seq(Job) /\ jobs' # <<>>
        /\ fatal' = errs /\ bad' = FALSE /\ then' = "ready"
    <3>1. ended' = "never" /\ fails' \in Nat /\ file \in enforcementState
      BY <1>1, <1>2
    <3>2. Begin("undo", js, file, errs, "ready") /\ (js = ProxyAlone => errs = {}) /\ errs # {}
      BY <2>1
    <3>3. "defaults" \in Range(js) => "defaults" \in errs
      BY <2>1
    <3> QED BY <3>1, <3>2, <3>3, UndoBegins
  <2>3. (pc' \in {"apply", "undo"}) = (jobs' # <<>>)
    BY <2>2
  <2>4. ProcessOK'
    BY <1>1, <1>2, <2>2, <2>3 DEF ProcessOK, machine, history
  <2>5. Matter'
    BY <1>1, <1>2, <2>2 DEF Matter, machine, history, Recordable
  <2> QED BY <2>2, <2>4, <2>5 DEF Typed
<1> QED BY <1>3, <1>4
\* Two sequences, one after the other.
LEMMA Glue ==
  ASSUME NEW S, NEW x \in Seq(S), NEW y \in Seq(S), NEW z \in Seq(S), Len(z) = Len(x) + Len(y),
         \A i \in 1 .. Len(x) : x[i] = z[i], \A i \in 1 .. Len(y) : y[i] = z[Len(x) + i]
  PROVE  x \o y = z
<1>1. Len(x) \in Nat /\ Len(y) \in Nat
  BY LenProperties
<1>2. x \o y \in Seq(S) /\ Len(x \o y) = Len(z)
  BY ConcatProperties
<1>3. ASSUME NEW i \in 1 .. Len(z) PROVE (x \o y)[i] = z[i]
  <2>1. (x \o y)[i] = IF i <= Len(x) THEN x[i] ELSE y[i - Len(x)]
    BY ConcatProperties
  <2>2. CASE i <= Len(x)
    BY <1>1, <2>1, <2>2
  <2>3. CASE i > Len(x)
    <3>1. i - Len(x) \in 1 .. Len(y) /\ Len(x) + (i - Len(x)) = i
      BY <1>1, <2>3
    <3>2. y[i - Len(x)] = z[Len(x) + (i - Len(x))]
      BY <3>1
    <3> QED BY <1>1, <2>1, <2>3, <3>1, <3>2
  <2> QED BY <1>1, <2>2, <2>3
<1> QED BY <1>2, <1>3, SeqEqual

\* The jobs of an Apply and of its unwinding, put together (enforcer_windows.go:107-183).
LEMMA JobsTogether ==
  /\ <<"record", "purge", "add">> \o <<"flip">> = <<"record", "purge", "add", "flip">>
  /\ <<"record", "purge", "add">> \o <<"point", "record">> = <<"record", "purge", "add", "point", "record">>
  /\ <<"record", "purge", "add", "flip">> \o <<"point", "record">> = <<"record", "purge", "add", "flip", "point", "record">>
  /\ <<"wininet">> \o <<"defaults", "rules", "clear">> = <<"wininet", "defaults", "rules", "clear">>
<1>1. <<"record", "purge", "add">> \o <<"flip">> = <<"record", "purge", "add", "flip">>
  <2> DEFINE x == <<"record", "purge", "add">> y == <<"flip">> z == <<"record", "purge", "add", "flip">>
  <2>1. /\ x \in Seq(Job) /\ y \in Seq(Job) /\ z \in Seq(Job)
        /\ Len(x) = 3 /\ Len(y) = 1 /\ Len(z) = 4
    BY DEF Job
  <2>2. \A i \in 1 .. 3 : x[i] = z[i]
    OBVIOUS
  <2>3. \A i \in 1 .. 1 : y[i] = z[3 + i]
    OBVIOUS
  <2> HIDE DEF x, y, z
  <2>4. Len(z) = Len(x) + Len(y) /\ \A i \in 1 .. Len(x) : x[i] = z[i]
    BY <2>1, <2>2
  <2>5. \A i \in 1 .. Len(y) : y[i] = z[Len(x) + i]
    BY <2>1, <2>3
  <2>6. x \o y = z
    BY <2>1, <2>4, <2>5, Glue
  <2> QED BY <2>6 DEF x, y, z
<1>2. <<"record", "purge", "add">> \o <<"point", "record">> = <<"record", "purge", "add", "point", "record">>
  <2> DEFINE x == <<"record", "purge", "add">> y == <<"point", "record">> z == <<"record", "purge", "add", "point", "record">>
  <2>1. /\ x \in Seq(Job) /\ y \in Seq(Job) /\ z \in Seq(Job)
        /\ Len(x) = 3 /\ Len(y) = 2 /\ Len(z) = 5
    BY DEF Job
  <2>2. \A i \in 1 .. 3 : x[i] = z[i]
    OBVIOUS
  <2>3. \A i \in 1 .. 2 : y[i] = z[3 + i]
    OBVIOUS
  <2> HIDE DEF x, y, z
  <2>4. Len(z) = Len(x) + Len(y) /\ \A i \in 1 .. Len(x) : x[i] = z[i]
    BY <2>1, <2>2
  <2>5. \A i \in 1 .. Len(y) : y[i] = z[Len(x) + i]
    BY <2>1, <2>3
  <2>6. x \o y = z
    BY <2>1, <2>4, <2>5, Glue
  <2> QED BY <2>6 DEF x, y, z
<1>3. <<"record", "purge", "add", "flip">> \o <<"point", "record">> = <<"record", "purge", "add", "flip", "point", "record">>
  <2> DEFINE x == <<"record", "purge", "add", "flip">> y == <<"point", "record">> z == <<"record", "purge", "add", "flip", "point", "record">>
  <2>1. /\ x \in Seq(Job) /\ y \in Seq(Job) /\ z \in Seq(Job)
        /\ Len(x) = 4 /\ Len(y) = 2 /\ Len(z) = 6
    BY DEF Job
  <2>2. \A i \in 1 .. 4 : x[i] = z[i]
    OBVIOUS
  <2>3. \A i \in 1 .. 2 : y[i] = z[4 + i]
    OBVIOUS
  <2> HIDE DEF x, y, z
  <2>4. Len(z) = Len(x) + Len(y) /\ \A i \in 1 .. Len(x) : x[i] = z[i]
    BY <2>1, <2>2
  <2>5. \A i \in 1 .. Len(y) : y[i] = z[Len(x) + i]
    BY <2>1, <2>3
  <2>6. x \o y = z
    BY <2>1, <2>4, <2>5, Glue
  <2> QED BY <2>6 DEF x, y, z
<1>4. <<"wininet">> \o <<"defaults", "rules", "clear">> = <<"wininet", "defaults", "rules", "clear">>
  <2> DEFINE x == <<"wininet">> y == <<"defaults", "rules", "clear">> z == <<"wininet", "defaults", "rules", "clear">>
  <2>1. /\ x \in Seq(Job) /\ y \in Seq(Job) /\ z \in Seq(Job)
        /\ Len(x) = 1 /\ Len(y) = 3 /\ Len(z) = 4
    BY DEF Job
  <2>2. \A i \in 1 .. 1 : x[i] = z[i]
    OBVIOUS
  <2>3. \A i \in 1 .. 3 : y[i] = z[1 + i]
    OBVIOUS
  <2> HIDE DEF x, y, z
  <2>4. Len(z) = Len(x) + Len(y) /\ \A i \in 1 .. Len(x) : x[i] = z[i]
    BY <2>1, <2>2
  <2>5. \A i \in 1 .. Len(y) : y[i] = z[Len(x) + i]
    BY <2>1, <2>3
  <2>6. x \o y = z
    BY <2>1, <2>4, <2>5, Glue
  <2> QED BY <2>6 DEF x, y, z
<1> QED BY <1>1, <1>2, <1>3, <1>4

\* Which jobs an Apply begins with (enforcer_windows.go:107-183).
LEMMA OrderFacts ==
  ASSUME NEW s \in EnforceSpec
  PROVE  /\ ApplyOrder(s) \in ApplyJobs /\ Head(ApplyOrder(s)) = "record"
         /\ "purge" \in Range(ApplyOrder(s)) /\ "add" \in Range(ApplyOrder(s))
         /\ "flip" \in Range(ApplyOrder(s)) => s.global
         /\ ApplyOrder(s) \notin {PointAndRecord, RecordAlone}
<1> DEFINE A == <<"record", "purge", "add">>
           F == <<"flip">> P == <<"point", "record">> N == <<>>
<1>1. /\ (A \o N) \o N = <<"record", "purge", "add">>
      /\ (A \o F) \o N = <<"record", "purge", "add", "flip">>
      /\ (A \o N) \o P = <<"record", "purge", "add", "point", "record">>
      /\ (A \o F) \o P = <<"record", "purge", "add", "flip", "point", "record">>
  <2>1. A \o N = A /\ <<"record", "purge", "add", "flip">> \o N = <<"record", "purge", "add", "flip">>
    OBVIOUS
  <2> QED BY <2>1, JobsTogether
<1>2. ApplyOrder(s) = (A \o (IF s.global THEN F ELSE N)) \o (IF s.proxy THEN P ELSE N)
  BY DEF ApplyOrder
<1>3. /\ s.global /\ s.proxy => ApplyOrder(s) = <<"record", "purge", "add", "flip", "point", "record">>
      /\ s.global /\ ~s.proxy => ApplyOrder(s) = <<"record", "purge", "add", "flip">>
      /\ ~s.global /\ s.proxy => ApplyOrder(s) = <<"record", "purge", "add", "point", "record">>
      /\ ~s.global /\ ~s.proxy => ApplyOrder(s) = <<"record", "purge", "add">>
  <2> HIDE DEF A, F, P, N
  <2> QED BY <1>1, <1>2
<1>4. ASSUME NEW js \in { <<"record", "purge", "add">>, <<"record", "purge", "add", "flip">>,
                          <<"record", "purge", "add", "point", "record">>,
                          <<"record", "purge", "add", "flip", "point", "record">> }
      PROVE  /\ js \in ApplyJobs /\ Head(js) = "record" /\ "purge" \in Range(js) /\ "add" \in Range(js)
             /\ js \notin {PointAndRecord, RecordAlone}
  BY DEF ApplyJobs, PointAndRecord, RecordAlone, Range
<1>5. "flip" \notin Range(<<"record", "purge", "add">>)
      /\ "flip" \notin Range(<<"record", "purge", "add", "point", "record">>)
  BY DEF Range
<1> QED BY <1>3, <1>4, <1>5

\* What an Apply plans to record (enforcer_windows.go:87-106).
LEMMA PlannedNames ==
  ASSUME NEW s \in EnforceSpec
  PROVE  /\ ruleNames(s) \o plannedAllowNames(s) \in Seq(Own)
         /\ Range(ruleNames(s) \o plannedAllowNames(s)) \subseteq Own
         /\ s.global => Range(AllowNames) \subseteq Range(ruleNames(s) \o plannedAllowNames(s))
         /\ specNeedsElevation(s) => ruleNames(s) \o plannedAllowNames(s) # <<>>
<1> DEFINE a == ruleNames(s) b == plannedAllowNames(s)
<1>1. a \in Seq(Own) /\ b \in Seq(Own)
  BY NamesAre, EmptyFacts DEF ruleNames, plannedAllowNames
<1>2. s.global => Range(b) = Range(AllowNames) /\ b # <<>>
  BY NamesAre DEF plannedAllowNames
<1>3. s.apps => a # <<>>
  BY NamesAre DEF ruleNames
<1>4. (a # <<>> => Len(a) > 0) /\ (b # <<>> => Len(b) > 0) /\ Len(a) \in Nat /\ Len(b) \in Nat
  <2> HIDE DEF a, b
  <2> QED BY <1>1, EmptySeq, LenProperties
<1>5. /\ a \o b \in Seq(Own) /\ Len(a \o b) = Len(a) + Len(b) /\ Range(a \o b) = Range(a) \cup Range(b)
      /\ Range(a \o b) \subseteq Own
  <2> HIDE DEF a, b
  <2> QED BY <1>1, ConcatProperties, RangeConcatenation, RangeOfSeq
<1>6. specNeedsElevation(s) => Len(a \o b) > 0
  <2> HIDE DEF a, b
  <2> QED BY <1>2, <1>3, <1>4, <1>5 DEF specNeedsElevation
<1>7. specNeedsElevation(s) => a \o b # <<>>
  <2> HIDE DEF a, b
  <2> QED BY <1>6, EmptyFacts
<1> QED BY <1>2, <1>5, <1>7

\* What an Apply remembers, of either tier (enforcer_windows.go:87-106, 217-231).
LEMMA MemoryTyped ==
  ASSUME Typed, NEW s \in EnforceSpec,
         NEW m, m = [Blank EXCEPT !.kind = "state", !.global = s.global, !.saved = outbound,
                       !.rules = ruleNames(s) \o plannedAllowNames(s)]
  PROVE  /\ m \in enforcementState /\ Recordable(m) /\ m.kind = "state" /\ Range(m.rules) \subseteq Own
         /\ m.global = s.global /\ m.saved = outbound /\ m.hasProxy = FALSE
         /\ m.rules = ruleNames(s) \o plannedAllowNames(s)
<1> DEFINE n == ruleNames(s) \o plannedAllowNames(s)
<1>1. n \in Seq(Own) /\ Range(n) \subseteq Own /\ (s.global => Range(AllowNames) \subseteq Range(n))
  BY PlannedNames
<1>2. n \in Seq(Own \cup Foreign)
  <2> HIDE DEF n
  <2> QED BY <1>1, SeqMonotonic
<1>3. Blank \in enforcementState /\ Blank.hasProxy = FALSE
  BY BlankTyped DEF Typed, Matter
<1>4. outbound \in Outbound /\ s.global \in BOOLEAN
  BY DEF Typed, ProcessOK, EnforceSpec
<1> HIDE DEF n
<1>5. m = [Blank EXCEPT !.kind = "state", !.global = s.global, !.saved = outbound, !.rules = n]
  BY DEF n
<1>6. /\ m \in enforcementState /\ m.kind = "state" /\ m.global = s.global /\ m.saved = outbound
      /\ m.rules = n /\ m.hasProxy = FALSE
  BY <1>2, <1>3, <1>4, <1>5 DEF enforcementState
<1> QED BY <1>1, <1>6 DEF Recordable, n

\* The record of the proxy-only tier (enforcer_windows.go:217-231).
LEMMA ProxyMemoryTyped ==
  ASSUME Typed,
         NEW m, m = [Blank EXCEPT !.kind = "state", !.hasProxy = TRUE, !.proxy = wininet]
  PROVE  /\ m \in enforcementState /\ Recordable(m) /\ m.kind = "state" /\ m.rules = <<>>
         /\ m.global = FALSE /\ m.hasProxy = TRUE /\ m.proxy = wininet
<1>1. Blank \in enforcementState /\ Blank.rules = <<>> /\ Blank.global = FALSE
  BY BlankTyped DEF Typed, Matter
<1>2. wininet \in Settings
  BY DEF Typed, ProcessOK
<1>3. /\ m \in enforcementState /\ m.kind = "state" /\ m.rules = <<>>
      /\ m.global = FALSE /\ m.hasProxy = TRUE /\ m.proxy = wininet
  BY <1>1, <1>2 DEF enforcementState
<1> QED BY <1>3 DEF Recordable

\* The four ways Apply begins.
LEMMA ApplyTyped ==
  ASSUME Typed, NEW s \in EnforceSpec,
         ApplyNothing(s) \/ ApplyRefused(s) \/ Apply(s) \/ applySystemProxyOnly(s)
  PROVE  Typed'
<1>1. /\ original \in Snapshot /\ ProcessOK /\ Matter /\ ended = "never"
      /\ Blank \in enforcementState /\ Recordable(Blank) /\ Blank.rules = <<>>
  <2>1. pc = "ready"
    BY DEF ApplyNothing, ApplyRefused, Apply, applySystemProxyOnly
  <2>2. original \in Snapshot /\ ProcessOK /\ Matter /\ ended = "never"
    BY <2>1 DEF Typed, Matter, Plan
  <2> QED BY <2>2, BlankTyped
<1>2. found' = Machine /\ UNCHANGED <<machine, file, elevated, original, sessions, crashes, mishaps>>
  BY DEF ApplyNothing, ApplyRefused, Apply, applySystemProxyOnly
<1>3. found' \in Snapshot /\ original' = original
  BY <1>1, <1>2, MachineTyped
<1>4. fails' \in 0 .. MaxFails /\ fails' \in Nat
  <2>1. fails' = fails \/ (fails < MaxFails /\ fails' = fails + 1)
    BY DEF ApplyNothing, ApplyRefused, Apply, applySystemProxyOnly
  <2> QED BY <1>1, <2>1, Counts DEF ProcessOK
<1>5. CASE ApplyNothing(s)
  <2>1. ended' = "never" /\ Rest("running") /\ mem' = Blank /\ mem'.kind # "corrupt"
    BY <1>1, <1>5, BlankTyped DEF ApplyNothing
  <2>2. /\ Plan' /\ pc' = "running" /\ jobs' = <<>> /\ fatal' = {} /\ bad' = FALSE /\ then' = "down"
        /\ jobs' \in Seq(Job)
    BY <2>1, Rests
  <2>3. (pc' \in {"apply", "undo"}) = (jobs' # <<>>)
    BY <2>2
  <2>4. ProcessOK'
    BY <1>1, <1>2, <1>4, <2>1, <2>2, <2>3 DEF ProcessOK, machine
  <2>5. Range(mem'.rules) \subseteq Own
    BY <1>1, <2>1, EmptyFacts
  <2>6. Matter'
    BY <1>1, <1>2, <1>3, <2>1, <2>2, <2>5 DEF Matter, machine, Recordable
  <2> QED BY <2>2, <2>4, <2>6 DEF Typed
<1>6. CASE ApplyRefused(s)
  <2>1. ended' = "refused" /\ Rest("down") /\ mem' = mem
    BY <1>6 DEF ApplyRefused
  <2>2. /\ Plan' /\ pc' = "down" /\ jobs' = <<>> /\ fatal' = {} /\ bad' = FALSE /\ then' = "down"
        /\ jobs' \in Seq(Job)
    BY <2>1, Rests
  <2>3. (pc' \in {"apply", "undo"}) = (jobs' # <<>>)
    BY <2>2
  <2>4. ProcessOK'
    BY <1>1, <1>2, <1>4, <2>1, <2>2, <2>3 DEF ProcessOK, machine
  <2>5. Matter'
    BY <1>1, <1>2, <1>3, <2>1, <2>2 DEF Matter, machine, Recordable
  <2> QED BY <2>2, <2>4, <2>5 DEF Typed
<1>7. CASE Apply(s) \/ applySystemProxyOnly(s)
  <2>1. PICK js \in ApplyJobs, m \in enforcementState :
          /\ Begin("apply", js, m, {}, "down") /\ m.kind = "state" /\ Recordable(m)
          /\ Range(m.rules) \subseteq Own
    <3>1. CASE Apply(s)
      <4> DEFINE m == [Blank EXCEPT !.kind = "state", !.global = s.global, !.saved = outbound,
                         !.rules = ruleNames(s) \o plannedAllowNames(s)]
      <4>1. Begin("apply", ApplyOrder(s), m, {}, "down")
        BY <3>1 DEF Apply
      <4> HIDE DEF m
      <4>2. m \in enforcementState /\ Recordable(m) /\ m.kind = "state" /\ Range(m.rules) \subseteq Own
        BY MemoryTyped DEF m
      <4> QED BY <4>1, <4>2, OrderFacts
    <3>2. CASE applySystemProxyOnly(s)
      <4> DEFINE m == [Blank EXCEPT !.kind = "state", !.hasProxy = TRUE, !.proxy = wininet]
      <4>1. Begin("apply", PointAndRecord, m, {}, "down")
        BY <3>2 DEF applySystemProxyOnly, PointAndRecord
      <4> HIDE DEF m
      <4>2. m \in enforcementState /\ Recordable(m) /\ m.kind = "state" /\ m.rules = <<>>
        BY ProxyMemoryTyped DEF m
      <4>3. PointAndRecord \in ApplyJobs
        BY DEF ApplyJobs
      <4> QED BY <4>1, <4>2, <4>3, EmptyFacts
    <3> QED BY <1>7, <3>1, <3>2
  <2>2. ended' = "never"
    BY <1>1, <1>7 DEF Apply, applySystemProxyOnly
  <2>3. /\ Plan' /\ pc' = "apply" /\ mem' = m /\ jobs' \in Seq(Job) /\ jobs' # <<>>
        /\ fatal' = {} /\ bad' = FALSE /\ then' = "down"
    BY <1>4, <2>1, <2>2, ApplyBegins
  <2>4. (pc' \in {"apply", "undo"}) = (jobs' # <<>>)
    BY <2>3
  <2>5. ProcessOK'
    BY <1>1, <1>2, <1>4, <2>2, <2>3, <2>4 DEF ProcessOK, machine
  <2>6. Matter'
    BY <1>1, <1>2, <1>3, <2>1, <2>3 DEF Matter, machine, Recordable
  <2> QED BY <2>3, <2>5, <2>6 DEF Typed
<1> QED BY <1>5, <1>6, <1>7

\* The item a job has come to is one of its items.
LEMMA HeadItem ==
  ASSUME Typed, pc \in {"apply", "undo"}, left # <<>>
  PROVE  /\ Head(left) \in Range(Items(Head(jobs), mem)) /\ mem \in enforcementState
         /\ Head(left) \in Range(left)
         /\ Tail(left) \in Seq(Range(Items(Head(jobs), mem)))
         /\ Range(Tail(left)) \subseteq Range(left)
         /\ \A x \in Range(left) : x = Head(left) \/ x \in Range(Tail(left))
<1>1. left \in Seq(Range(Items(Head(jobs), mem))) /\ mem \in enforcementState
  BY DEF Typed, Plan, ProcessOK
<1> QED BY <1>1, TakeOne

\* The writes of the state file (state_windows.go:68-120).
LEMMA FileStepTyped ==
  ASSUME Typed, writeState \/ clearState
  PROVE  file' \in enforcementState /\ Recordable(file') /\ mishaps' \subseteq Mishap
<1>1. /\ Blank \in enforcementState /\ Recordable(Blank) /\ Blank.rules = <<>>
      /\ Blank.global = FALSE /\ Blank.hasProxy = FALSE
  BY BlankTyped DEF Typed, Matter
<1>2. mem \in enforcementState /\ Recordable(mem) /\ mishaps \subseteq Mishap
  BY DEF Typed, Matter, ProcessOK
<1>3. CASE file' = [Blank EXCEPT !.kind = "corrupt"]
  <2>1. file' \in enforcementState /\ file'.rules = <<>> /\ file'.global = FALSE /\ file'.hasProxy = FALSE
    BY <1>1, <1>3 DEF enforcementState
  <2>2. Recordable(file')
    BY <2>1 DEF Recordable
  <2>3. mishaps' \subseteq Mishap
    BY <1>2 DEF writeState, clearState, Mishap
  <2> QED BY <2>1, <2>2, <2>3
<1>4. CASE file' = mem \/ file' = Blank
  <2>1. file' \in enforcementState /\ Recordable(file')
    BY <1>1, <1>2, <1>4
  <2>2. mishaps' \subseteq Mishap
    BY <1>2 DEF writeState, clearState, Mishap
  <2> QED BY <2>1, <2>2
<1> QED BY <1>3, <1>4 DEF writeState, clearState

\* The rules come and go one by one (enforcer_windows.go:124-141, 284-303); a rule outside the
\* namespace never does.
LEMMA RuleStepTyped ==
  ASSUME Typed, removeRule \/ addProxyAllowRule \/ addExceptionRule \/ addBlockRule
  PROVE  /\ rules' \subseteq Own \cup Foreign /\ Foreign \subseteq rules'
         /\ disabled' \subseteq Range(AllowNames)
<1>1. /\ rules \subseteq Own \cup Foreign /\ Foreign \subseteq rules /\ disabled \subseteq Range(AllowNames)
      /\ then \in {"ready", "down"}
  BY DEF Typed, Matter, ProcessOK
<1>2. CASE removeRule
  <2>1. pc \in {"apply", "undo"} /\ left # <<>> /\ Head(jobs) \in {"purge", "rules"}
    BY <1>2 DEF removeRule, Working
  <2>2. Head(left) \in Range(mem.rules)
    BY <2>1, HeadItem, ItemsAre
  <2>3. ~Skipped => Head(left) \notin Foreign
    <3>1. CASE then = "ready"
      BY <3>1, NamesAre DEF Skipped, isOwnRuleName
    <3>2. CASE then = "down"
      <4>1. Range(mem.rules) \subseteq Own
        BY <2>1, <3>2 DEF Typed, Matter
      <4> QED BY <2>2, <4>1, NamesAre
    <3> QED BY <1>1, <3>1, <3>2
  <2>4. \/ rules' = rules /\ disabled' = disabled
        \/ ~Skipped /\ rules' = rules \ {Head(left)} /\ disabled' = disabled \ {Head(left)}
    BY <1>2 DEF removeRule
  <2> QED BY <1>1, <2>3, <2>4
<1>3. CASE addProxyAllowRule \/ addExceptionRule \/ addBlockRule
  <2>1. PICK names \in SUBSET Own : AddRule(names)
    <3>1. {ProxyRule} \subseteq Own /\ Range(Exceptions) \subseteq Own /\ Range(BlockNames) \subseteq Own
      BY NamesAre
    <3> QED BY <1>3, <3>1 DEF addProxyAllowRule, addExceptionRule, addBlockRule
  <2>2. Head(left) \in Own /\ rules' = rules \cup {Head(left)} /\ disabled' = disabled \ {Head(left)}
    BY <2>1 DEF AddRule
  <2> QED BY <1>1, <2>2
<1> QED BY <1>2, <1>3

\* The default actions and the WinINET values are written one by one
\* (defaults_windows.go, sysproxy_windows.go).
LEMMA ValueStepTyped ==
  ASSUME Typed,
         setDefaultOutbound \/ restoreDefaultOutbound \/ setSystemProxy \/ restoreSystemProxy
  PROVE  outbound' \in Outbound /\ wininet' \in Settings
<1>1. pc \in {"apply", "undo"} /\ left # <<>>
  BY DEF setDefaultOutbound, restoreDefaultOutbound, setSystemProxy, restoreSystemProxy, Working
<1>2. /\ outbound \in Outbound /\ wininet \in Settings
      /\ mem.saved \in Outbound /\ mem.proxy \in Settings
  BY RecordTyped DEF Typed, ProcessOK
<1>3. CASE setDefaultOutbound
  BY <1>2, <1>3 DEF setDefaultOutbound, Outbound
<1>4. CASE restoreDefaultOutbound
  <2>1. Head(left) \in Range(blockedProfiles)
    BY <1>1, <1>4, HeadItem, ItemsAre, EmptyFacts DEF restoreDefaultOutbound, Working
  <2> QED BY <1>2, <1>4, <2>1 DEF restoreDefaultOutbound, Outbound
<1>5. CASE setSystemProxy
  BY <1>2, <1>5 DEF setSystemProxy, Settings
<1>6. CASE restoreSystemProxy
  <2>1. Head(left) \in Range(WinINET)
    BY <1>1, <1>6, HeadItem, ItemsAre, EmptyFacts DEF restoreSystemProxy, Working
  <2> QED BY <1>2, <1>6, <2>1 DEF restoreSystemProxy, Settings
<1> QED BY <1>3, <1>4, <1>5, <1>6

\* What every call of a job leaves alone.
LEMMA StepFrame ==
  ASSUME Typed, Steps
  PROVE  /\ pc \in {"apply", "undo"} /\ left # <<>> /\ Advance
         /\ left' = Tail(left) /\ UNCHANGED <<pc, jobs, fatal, bad, then>>
         /\ UNCHANGED <<elevated, mem, original, found, sessions, ended, crashes>>
         /\ fails' \in Nat /\ fails' \in 0 .. MaxFails /\ fails' >= fails
<1>1. /\ pc \in {"apply", "undo"} /\ left # <<>> /\ Advance
      /\ UNCHANGED <<elevated, mem, history, ended, crashes>>
      /\ fails' = fails \/ (fails < MaxFails /\ fails' = fails + 1)
  <2> USE DEF Working
  <2>1. CASE writeState
    BY <2>1 DEF writeState
  <2>2. CASE clearState
    BY <2>2 DEF clearState
  <2>3. CASE removeRule
    BY <2>3 DEF removeRule
  <2>4. CASE addProxyAllowRule \/ addExceptionRule \/ addBlockRule
    BY <2>4 DEF addProxyAllowRule, addExceptionRule, addBlockRule, AddRule
  <2>5. CASE setDefaultOutbound
    BY <2>5 DEF setDefaultOutbound
  <2>6. CASE restoreDefaultOutbound
    BY <2>6 DEF restoreDefaultOutbound
  <2>7. CASE setSystemProxy
    BY <2>7 DEF setSystemProxy
  <2>8. CASE restoreSystemProxy
    BY <2>8 DEF restoreSystemProxy
  <2> QED BY <2>1, <2>2, <2>3, <2>4, <2>5, <2>6, <2>7, <2>8 DEF Steps
<1>2. fails' \in Nat /\ fails' \in 0 .. MaxFails /\ fails' >= fails
  BY <1>1, Counts DEF Typed, ProcessOK
<1>3. UNCHANGED <<elevated, mem, original, found, sessions, ended, crashes>>
  BY <1>1 DEF history
<1>4. left' = Tail(left) /\ UNCHANGED <<pc, jobs, fatal, bad, then>>
  BY <1>1 DEF Advance
<1> QED BY <1>1, <1>2, <1>3, <1>4

\* A call of a job.
LEMMA StepsTyped == ASSUME Typed, Steps PROVE Typed'
<1>1. /\ Plan' /\ fails' \in 0 .. MaxFails
      /\ UNCHANGED <<pc, jobs, fatal, bad, then, elevated, mem, original, found, sessions, ended, crashes>>
  BY StepFrame, Advances
<1>2. /\ outbound \in Outbound /\ wininet \in Settings /\ file \in enforcementState /\ Recordable(file)
      /\ rules \subseteq Own \cup Foreign /\ Foreign \subseteq rules
      /\ disabled \subseteq Range(AllowNames) /\ mishaps \subseteq Mishap
  BY DEF Typed, ProcessOK, Matter
<1>3. /\ outbound' \in Outbound /\ wininet' \in Settings
      /\ file' \in enforcementState /\ Recordable(file')
      /\ rules' \subseteq Own \cup Foreign /\ Foreign \subseteq rules'
      /\ disabled' \subseteq Range(AllowNames) /\ mishaps' \subseteq Mishap
  <2>1. CASE writeState \/ clearState
    <3>1. UNCHANGED machine
      BY <2>1 DEF writeState, clearState
    <3>2. UNCHANGED <<outbound, wininet, rules, disabled>>
      BY <3>1 DEF machine
    <3> QED BY <1>2, <2>1, <3>2, FileStepTyped
  <2>2. CASE removeRule \/ addProxyAllowRule \/ addExceptionRule \/ addBlockRule
    <3>1. UNCHANGED <<outbound, wininet, file, mishaps>>
      BY <2>2 DEF removeRule, addProxyAllowRule, addExceptionRule, addBlockRule, AddRule
    <3> QED BY <1>2, <2>2, <3>1, RuleStepTyped DEF Recordable
  <2>3. CASE setDefaultOutbound \/ restoreDefaultOutbound \/ setSystemProxy \/ restoreSystemProxy
    <3>1. UNCHANGED <<rules, disabled, file, mishaps>>
      BY <2>3 DEF setDefaultOutbound, restoreDefaultOutbound, setSystemProxy, restoreSystemProxy
    <3> QED BY <1>2, <2>3, <3>1, ValueStepTyped DEF Recordable
  <2> QED BY <2>1, <2>2, <2>3 DEF Steps
<1>4. ProcessOK'
  BY <1>1, <1>3 DEF Typed, ProcessOK
<1>5. Matter'
  BY <1>1, <1>3 DEF Typed, Matter, Recordable
<1> QED BY <1>1, <1>4, <1>5 DEF Typed

\* What Apply undoes when a call of job j fails (enforcer_windows.go:111-183).
LEMMA UnwindFacts ==
  ASSUME Typed, pc = "apply"
  PROVE  LET j == Head(jobs) IN
         /\ Unwind(j) = <<>> \/ Unwind(j) \in UndoJobs
         /\ j = "purge" => Unwind(j) = ClearAlone
         /\ j \in {"add", "flip"} => Unwind(j) = <<"rules", "clear">>
         /\ j = "record" /\ ~mem.hasProxy => Unwind(j) = <<>>
         /\ j = "point" \/ (j = "record" /\ mem.hasProxy) =>
              /\ Firewalled /\ left # WinINET => Unwind(j) = <<"wininet", "defaults", "rules", "clear">>
              /\ Firewalled /\ j # "point" => Unwind(j) = <<"wininet", "defaults", "rules", "clear">>
              /\ Firewalled /\ left = WinINET /\ j = "point" => Unwind(j) = <<"defaults", "rules", "clear">>
              /\ ~Firewalled /\ (left # WinINET \/ j # "point") => Unwind(j) = ProxyAlone
              /\ ~Firewalled /\ left = WinINET /\ j = "point" => Unwind(j) = <<>>
<1> DEFINE j == Head(jobs) D == <<"defaults", "rules", "clear">> N == <<>>
           v == IF left = WinINET /\ j = "point" THEN N ELSE ProxyAlone
<1>1. j \in {"record", "purge", "add", "flip", "point"}
  BY ApplyJobFacts DEF Typed, Plan
<1>2. /\ N \o D = D /\ ProxyAlone \o D = <<"wininet", "defaults", "rules", "clear">>
  <2>1. N \o D = D
    OBVIOUS
  <2> QED BY <2>1, JobsTogether DEF ProxyAlone
<1>3. /\ j = "purge" => Unwind(j) = ClearAlone
      /\ j \in {"add", "flip"} => Unwind(j) = <<"rules", "clear">>
      /\ j = "record" /\ ~mem.hasProxy => Unwind(j) = <<>>
      /\ j = "point" \/ (j = "record" /\ mem.hasProxy) => Unwind(j) = IF Firewalled THEN v \o D ELSE v
  <2>1. CASE j \in {"purge", "add", "flip"}
    BY <2>1 DEF Unwind, ClearAlone
  <2>2. CASE j = "record"
    BY <2>2 DEF Unwind, ProxyAlone
  <2>3. CASE j = "point"
    BY <2>3 DEF Unwind, ProxyAlone
  <2> QED BY <1>1, <2>1, <2>2, <2>3
<1>4. /\ ClearAlone \in UndoJobs /\ ProxyAlone \in UndoJobs /\ <<"rules", "clear">> \in UndoJobs
      /\ D \in UndoJobs /\ <<"wininet", "defaults", "rules", "clear">> \in UndoJobs
  BY DEF UndoJobs
<1>5. /\ left = WinINET /\ j = "point" => v = N
      /\ left # WinINET \/ j # "point" => v = ProxyAlone
  OBVIOUS
<1> HIDE DEF v, D, N, j
<1>6. /\ j = "point" \/ (j = "record" /\ mem.hasProxy) =>
           /\ Firewalled /\ left # WinINET => Unwind(j) = <<"wininet", "defaults", "rules", "clear">>
           /\ Firewalled /\ j # "point" => Unwind(j) = <<"wininet", "defaults", "rules", "clear">>
           /\ Firewalled /\ left = WinINET /\ j = "point" => Unwind(j) = D
           /\ ~Firewalled /\ (left # WinINET \/ j # "point") => Unwind(j) = ProxyAlone
           /\ ~Firewalled /\ left = WinINET /\ j = "point" => Unwind(j) = N
  BY <1>2, <1>3, <1>5
<1>7. Unwind(j) = N \/ Unwind(j) \in UndoJobs
  BY <1>1, <1>3, <1>4, <1>6 DEF N
<1> QED BY <1>3, <1>6, <1>7 DEF v, D, N, j

\* A call of Apply fails (enforcer_windows.go:107-183, 217-230).
LEMMA ApplyFailsTyped == ASSUME Typed, ApplyFails PROVE Typed'
<1>1. /\ ProcessOK /\ Matter /\ Plan /\ pc = "apply" /\ fails < MaxFails /\ fails' = fails + 1
      /\ ended = "never" /\ mem \in enforcementState /\ Recordable(mem) /\ Range(mem.rules) \subseteq Own
  BY DEF Typed, Plan, Matter, ProcessOK, ApplyFails
<1>2. fails' \in 0 .. MaxFails /\ fails' \in Nat /\ fails' >= 1
  BY <1>1, Counts
<1>3. UNCHANGED <<machine, file, elevated, history, crashes>> /\ mishaps' \subseteq Mishap
  BY <1>1 DEF ApplyFails, ProcessOK, Mishap, Torn
<1>4. /\ Plan' /\ pc' \in {"down", "undo"} /\ mem' = mem /\ jobs' \in Seq(Job) /\ fatal' = {} /\ bad' = FALSE
      /\ then' = "down" /\ ((pc' \in {"apply", "undo"}) = (jobs' # <<>>)) /\ ended' \in {"never", "refused"}
  <2>1. CASE Unwind(Head(jobs)) = <<>>
    <3>1. Rest("down") /\ ended' = "refused" /\ mem' = mem
      BY <2>1 DEF ApplyFails
    <3>2. /\ Plan' /\ pc' = "down" /\ jobs' = <<>> /\ fatal' = {} /\ bad' = FALSE /\ then' = "down"
          /\ jobs' \in Seq(Job)
      BY <3>1, Rests
    <3> QED BY <3>1, <3>2
  <2>2. CASE Unwind(Head(jobs)) # <<>>
    <3> DEFINE js == Unwind(Head(jobs))
    <3>1. Begin("undo", js, mem, {}, "down") /\ ended' = "never" /\ js \in UndoJobs
      BY <1>1, <2>2, UnwindFacts DEF ApplyFails
    <3> HIDE DEF js
    <3>2. /\ Plan' /\ pc' = "undo" /\ mem' = mem /\ jobs' \in Seq(Job) /\ jobs' # <<>>
          /\ fatal' = {} /\ bad' = FALSE /\ then' = "down"
      BY <1>1, <1>2, <3>1, UndoBegins
    <3> QED BY <3>1, <3>2
  <2> QED BY <2>1, <2>2
<1>5. ProcessOK'
  BY <1>1, <1>2, <1>3, <1>4 DEF ProcessOK, machine, history
<1>6. Matter'
  BY <1>1, <1>3, <1>4 DEF Matter, machine, history, Recordable
<1> QED BY <1>4, <1>5, <1>6 DEF Typed

\* A call of an undo fails (enforcer_windows.go:189-213, defaults_windows.go, sysproxy_windows.go).
LEMMA UndoFailsTyped == ASSUME Typed, UndoFails PROVE Typed'
<1>1. /\ ProcessOK /\ Matter /\ Plan /\ pc = "undo" /\ left # <<>> /\ fails < MaxFails /\ fails' = fails + 1
      /\ bad' = TRUE
  BY DEF Typed, UndoFails
<1>2. UNCHANGED <<machine, file, pc, elevated, mem, jobs, fatal, then, history, ended, crashes, mishaps>>
  BY DEF UndoFails
<1>3. fails \in Nat /\ fails' \in 0 .. MaxFails
  BY <1>1, Counts
<1>4. fails' \in Nat /\ fails' >= 1 /\ (fails >= 1 => fails' >= 2)
  BY <1>1, <1>3
<1>5. left' \in Seq(Range(Items(Head(jobs), mem)))
  BY <1>1, HeadItem, EmptyFacts DEF UndoFails
<1>9. Head(jobs) = "clear" => left' \in {<<"file">>, <<>>}
  <2>1. Tail(<<"file">>) = <<>>
    OBVIOUS
  <2> QED BY <1>1, <2>1 DEF UndoFails, Plan
<1>6. Plan'
  BY <1>1, <1>2, <1>4, <1>5, <1>9 DEF Plan
<1>7. ProcessOK'
  BY <1>1, <1>2, <1>3 DEF ProcessOK, machine, history
<1>8. Matter'
  BY <1>1, <1>2 DEF Matter, machine, history, Recordable
<1> QED BY <1>6, <1>7, <1>8 DEF Typed

\* Apply goes on to its next job (enforcer_windows.go:107-183).
LEMMA ApplyNextTyped == ASSUME Typed, ApplyNext PROVE Typed'
<1>1. /\ ProcessOK /\ Matter /\ Plan /\ pc = "apply" /\ ended = "never" /\ jobs \in ApplyJobs
      /\ mem \in enforcementState /\ mem.kind = "state" /\ Recordable(mem) /\ Range(mem.rules) \subseteq Own
      /\ wininet \in Settings
  BY DEF Typed, Plan, Matter, ProcessOK, ApplyNext
<1>2. UNCHANGED <<machine, file, elevated, history, ended, crashes, fails, mishaps>>
  BY DEF ApplyNext
<1>3. fails' \in Nat /\ ended' = "never"
  BY <1>1, <1>2, Counts
<1>4. CASE Len(jobs) = 1
  <2>1. Rest("running") /\ mem' = mem /\ mem'.kind # "corrupt"
    BY <1>1, <1>4 DEF ApplyNext
  <2>2. /\ Plan' /\ pc' = "running" /\ jobs' = <<>> /\ fatal' = {} /\ bad' = FALSE /\ then' = "down"
        /\ jobs' \in Seq(Job)
    BY <1>3, <2>1, Rests
  <2>3. (pc' \in {"apply", "undo"}) = (jobs' # <<>>)
    BY <2>2
  <2>4. ProcessOK'
    BY <1>1, <1>2, <2>1, <2>2, <2>3 DEF ProcessOK, machine, history
  <2>5. Matter'
    BY <1>1, <1>2, <2>1, <2>2 DEF Matter, machine, history, Recordable
  <2> QED BY <2>2, <2>4, <2>5 DEF Typed
<1>5. CASE Len(jobs) # 1
  <2> DEFINE m == IF jobs[2] = "point" THEN [mem EXCEPT !.hasProxy = TRUE, !.proxy = wininet] ELSE mem
  <2>1. Begin("apply", Tail(jobs), m, {}, "down")
    BY <1>5 DEF ApplyNext
  <2>2. Tail(jobs) \in ApplyJobs
    BY <1>1, <1>5, ApplyJobFacts
  <2>3. m \in enforcementState /\ m.kind = "state" /\ m.rules = mem.rules /\ m.global = mem.global
    BY <1>1 DEF enforcementState
  <2> HIDE DEF m
  <2>4. /\ Plan' /\ pc' = "apply" /\ mem' = m /\ jobs' \in Seq(Job) /\ jobs' # <<>>
        /\ fatal' = {} /\ bad' = FALSE /\ then' = "down"
    BY <1>3, <2>1, <2>2, <2>3, ApplyBegins
  <2>5. (pc' \in {"apply", "undo"}) = (jobs' # <<>>)
    BY <2>4
  <2>6. ProcessOK'
    BY <1>1, <1>2, <2>3, <2>4, <2>5 DEF ProcessOK, machine, history
  <2>7. Matter'
    BY <1>1, <1>2, <2>3, <2>4 DEF Matter, machine, history, Recordable
  <2> QED BY <2>4, <2>6, <2>7 DEF Typed
<1> QED BY <1>4, <1>5

\* An undo goes on to its next job, or ends (enforcer_windows.go:189-213, 381-477).
LEMMA UndoNextTyped == ASSUME Typed, UndoNext PROVE Typed'
<1>1. /\ ProcessOK /\ Matter /\ Plan /\ pc = "undo" /\ ended = "never" /\ jobs \in UndoJobs
      /\ mem \in enforcementState /\ then \in {"ready", "down"} /\ fatal \in SUBSET Job
      /\ fatal = {} => then = "down" /\ fails >= 1
      /\ fatal # {} /\ "defaults" \in Range(jobs) => "defaults" \in fatal
  BY DEF Typed, Plan, ProcessOK, UndoNext
<1>2. UNCHANGED <<machine, file, elevated, history, crashes, fails, mishaps>>
  BY DEF UndoNext
<1>3. fails' \in Nat /\ (fatal = {} => then = "down" /\ fails' >= 1)
  BY <1>1, <1>2, Counts
<1>4. CASE Len(jobs) = 1 \/ (bad /\ Head(jobs) \in fatal)
  <2>1. Rest(then) /\ mem' = mem
    BY <1>4 DEF UndoNext
  <2>2. /\ then = "ready" => ended' = "never"
        /\ ended' \in {"never", "refused", "failed", "restored"}
    BY <1>1, <1>4 DEF UndoNext
  <2>3. /\ Plan' /\ pc' = then /\ jobs' = <<>> /\ fatal' = {} /\ bad' = FALSE /\ then' = "down"
        /\ jobs' \in Seq(Job)
    BY <1>1, <2>1, <2>2, Rests
  <2>4. (pc' \in {"apply", "undo"}) = (jobs' # <<>>)
    BY <1>1, <2>3
  <2>5. ProcessOK'
    BY <1>1, <1>2, <2>1, <2>2, <2>3, <2>4 DEF ProcessOK, machine, history
  <2>6. Matter'
    BY <1>1, <1>2, <2>1, <2>3 DEF Matter, machine, history, Recordable
  <2> QED BY <2>3, <2>5, <2>6 DEF Typed
<1>5. CASE ~(Len(jobs) = 1 \/ (bad /\ Head(jobs) \in fatal))
  <2>1. Begin("undo", Tail(jobs), mem, fatal, then) /\ ended' = "never"
    BY <1>1, <1>5 DEF UndoNext
  <2>2. /\ Tail(jobs) \in UndoJobs /\ Tail(jobs) # ProxyAlone
        /\ fatal # {} /\ "defaults" \in Range(Tail(jobs)) => "defaults" \in fatal
    BY <1>1, <1>5, UndoJobFacts
  <2>3. /\ Plan' /\ pc' = "undo" /\ mem' = mem /\ jobs' \in Seq(Job) /\ jobs' # <<>>
        /\ fatal' = fatal /\ bad' = FALSE /\ then' = then
    BY <1>1, <1>3, <2>1, <2>2, UndoBegins
  <2>4. (pc' \in {"apply", "undo"}) = (jobs' # <<>>)
    BY <2>3
  <2>5. ProcessOK'
    BY <1>1, <1>2, <2>1, <2>3, <2>4 DEF ProcessOK, machine, history
  <2>6. Matter'
    BY <1>1, <1>2, <2>3 DEF Matter, machine, history, Recordable
  <2> QED BY <2>3, <2>5, <2>6 DEF Typed
<1> QED BY <1>4, <1>5

\* The kill path (enforcer_windows.go:246-282).
LEMMA SuspendTyped == ASSUME Typed, Suspend PROVE Typed'
<1>1. ProcessOK /\ Matter /\ Plan /\ pc = "running" /\ pc' = "suspended" /\ jobs = <<>>
  BY DEF Typed, Suspend, ProcessOK
<1>2. /\ UNCHANGED <<outbound, rules, wininet, file, elevated, mem, work, history, ended, crashes, mishaps>>
      /\ fails' = fails \/ (fails < MaxFails /\ fails' = fails + 1)
  BY DEF Suspend
<1>3. disabled' \subseteq Range(AllowNames)
  BY <1>1 DEF Suspend, isAllowRuleName, ProcessOK
<1>4. fails' \in 0 .. MaxFails /\ fails' \in Nat /\ fails \in Nat /\ fails' >= fails
  BY <1>1, <1>2, Counts DEF ProcessOK
<1>5. UNCHANGED <<jobs, left, fatal, bad, then>>
  BY <1>2 DEF work
<1>6. (pc' \in {"apply", "undo"}) = (jobs' # <<>>)
  BY <1>1, <1>5
<1>7. Plan'
  BY <1>1, <1>2, <1>4, <1>5 DEF Plan
<1>8. ProcessOK'
  BY <1>1, <1>2, <1>3, <1>4, <1>5, <1>6 DEF ProcessOK, history
<1>9. Matter'
  BY <1>1, <1>2 DEF Matter, history, Recordable
<1> QED BY <1>7, <1>8, <1>9 DEF Typed

\* The function Apply returned (enforcer_windows.go:189-213).
LEMMA RestoreTyped == ASSUME Typed, restore PROVE Typed'
<1>1. /\ ProcessOK /\ Matter /\ Plan /\ pc \in {"running", "suspended"} /\ ended = "never"
      /\ mem \in enforcementState /\ Recordable(mem) /\ Range(mem.rules) \subseteq Own
  BY DEF Typed, restore, ProcessOK, Matter, Plan
<1>2. UNCHANGED <<machine, file, elevated, history, crashes, fails, mishaps>>
  BY DEF restore
<1>3. fails' \in Nat
  BY <1>1, <1>2, Counts
<1>4. CASE mem.kind = "none"
  <2>1. Rest("down") /\ mem' = mem /\ ended' = "restored"
    BY <1>4 DEF restore
  <2>2. /\ Plan' /\ pc' = "down" /\ jobs' = <<>> /\ fatal' = {} /\ bad' = FALSE /\ then' = "down"
        /\ jobs' \in Seq(Job)
    BY <2>1, Rests
  <2>3. (pc' \in {"apply", "undo"}) = (jobs' # <<>>)
    BY <2>2
  <2>4. ProcessOK'
    BY <1>1, <1>2, <2>1, <2>2, <2>3 DEF ProcessOK, machine, history
  <2>5. Matter'
    BY <1>1, <1>2, <2>1, <2>2 DEF Matter, machine, history, Recordable
  <2> QED BY <2>2, <2>4, <2>5 DEF Typed
<1>5. CASE mem.kind # "none"
  <2>1. PICK js \in UndoJobs, errs \in SUBSET Job :
          /\ Begin("undo", js, mem, errs, "down") /\ js # ProxyAlone /\ errs # {}
          /\ "defaults" \in Range(js) => "defaults" \in errs
    <3>1. CASE ~Firewalled
      <4>1. /\ <<"wininet", "clear">> \in UndoJobs /\ <<"wininet", "clear">> # ProxyAlone
            /\ "defaults" \notin Range(<<"wininet", "clear">>)
        BY DEF UndoJobs, ProxyAlone, Range
      <4> QED BY <1>5, <3>1, <4>1 DEF restore, Job
    <3>2. CASE Firewalled
      <4>1. <<"defaults", "wininet", "rules", "clear">> \in UndoJobs /\ <<"defaults", "wininet", "rules", "clear">> # ProxyAlone
        BY DEF UndoJobs, ProxyAlone
      <4> QED BY <1>5, <3>2, <4>1 DEF restore, Job
    <3> QED BY <3>1, <3>2
  <2>2. ended' = "never"
    BY <1>1, <1>5 DEF restore
  <2>3. /\ Plan' /\ pc' = "undo" /\ mem' = mem /\ jobs' \in Seq(Job) /\ jobs' # <<>>
        /\ fatal' = errs /\ bad' = FALSE /\ then' = "down"
    BY <1>1, <1>3, <2>1, <2>2, UndoBegins
  <2>4. (pc' \in {"apply", "undo"}) = (jobs' # <<>>)
    BY <2>3
  <2>5. ProcessOK'
    BY <1>1, <1>2, <2>2, <2>3, <2>4 DEF ProcessOK, machine, history
  <2>6. Matter'
    BY <1>1, <1>2, <2>3 DEF Matter, machine, history, Recordable
  <2> QED BY <2>3, <2>5, <2>6 DEF Typed
<1> QED BY <1>4, <1>5

\* The process dies.
LEMMA CrashTyped == ASSUME Typed, Crash PROVE Typed'
<1>1. /\ ProcessOK /\ Matter /\ Blank \in enforcementState /\ Recordable(Blank)
  BY BlankTyped DEF Typed, Matter
<1>2. /\ UNCHANGED <<machine, file, elevated, history, fails>> /\ mem' = Blank /\ ended' = "crashed"
      /\ Rest("down")
  BY DEF Crash
<1>3. crashes' \in 0 .. MaxCrashes /\ mishaps' \subseteq Mishap
  BY <1>1, Counts DEF Crash, ProcessOK, Mishap, Torn
<1>4. /\ Plan' /\ pc' = "down" /\ jobs' = <<>> /\ fatal' = {} /\ bad' = FALSE /\ then' = "down"
      /\ jobs' \in Seq(Job)
  BY <1>2, Rests
<1>5. (pc' \in {"apply", "undo"}) = (jobs' # <<>>)
  BY <1>4
<1>6. ProcessOK'
  BY <1>1, <1>2, <1>3, <1>4, <1>5 DEF ProcessOK, machine, history
<1>7. Matter'
  BY <1>1, <1>2, <1>4 DEF Matter, machine, history, Recordable
<1> QED BY <1>4, <1>6, <1>7 DEF Typed

\* Every step keeps the types, the order of the jobs and the rules of others.
LEMMA NextTyped == Typed /\ Step => Typed'
<1> SUFFICES ASSUME Typed, Step PROVE Typed'
  OBVIOUS
<1>1. CASE \E e \in BOOLEAN : Start(e)
  BY <1>1, StartTyped
<1>2. CASE RecoverNothing \/ RecoverProxyOnly \/ Recover
  BY <1>2, RecoverTyped
<1>3. CASE \E s \in EnforceSpec :
             ApplyNothing(s) \/ ApplyRefused(s) \/ Apply(s) \/ applySystemProxyOnly(s)
  BY <1>3, ApplyTyped
<1>4. CASE Steps
  BY <1>4, StepsTyped
<1>5. CASE ApplyFails \/ UndoFails \/ ApplyNext \/ UndoNext
  BY <1>5, ApplyFailsTyped, UndoFailsTyped, ApplyNextTyped, UndoNextTyped
<1>6. CASE Suspend \/ restore \/ Crash
  BY <1>6, SuspendTyped, RestoreTyped, CrashTyped
<1>7. CASE UNCHANGED vars
  <2>1. UNCHANGED <<outbound, rules, disabled, wininet, file, pc, elevated, mem, jobs, left, fatal, bad, then>>
    BY <1>7 DEF vars, machine, work
  <2>2. UNCHANGED <<original, found, sessions, ended, crashes, fails, mishaps>>
    BY <1>7 DEF vars, history
  <2>3. ProcessOK'
    BY <2>1, <2>2 DEF Typed, ProcessOK
  <2>4. Plan'
    BY <2>1, <2>2 DEF Typed, Plan
  <2>5. Matter'
    BY <2>1, <2>2 DEF Typed, Matter, Recordable
  <2> QED BY <2>3, <2>4, <2>5 DEF Typed
<1> QED BY <1>1, <1>2, <1>3, <1>4, <1>5, <1>6, <1>7 DEF Step, Work, Lifetime

-----------------------------------------------------------------------------
(* What each step does.                                                     *)

\* Nothing but the process changes when it starts, or finds nothing to undo.
LEMMA QuietDoes ==
  ASSUME Typed, (\E e \in BOOLEAN : Start(e)) \/ RecoverNothing
  PROVE  /\ pc \in {"down", "recover"} /\ pc' \in {"recover", "ready"} /\ ended' = "never"
         /\ pc' = "ready" => file.kind # "state" \/ ~elevated'
         /\ UNCHANGED <<outbound, rules, wininet, file, original, found, fails, mishaps>>
<1>1. CASE \E e \in BOOLEAN : Start(e)
  BY <1>1 DEF Start, Rest, machine
<1>2. CASE RecoverNothing
  <2>1. ended = "never"
    BY <1>2 DEF Typed, Plan, RecoverNothing
  <2> QED BY <1>2, <2>1 DEF RecoverNothing, Rest, machine, history
<1> QED BY <1>1, <1>2

\* Recover undoes what the state file says (enforcer_windows.go:381-477).
LEMMA RecoverDoes ==
  ASSUME Typed, RecoverProxyOnly \/ Recover
  PROVE  /\ pc = "recover" /\ pc' = "undo" /\ mem' = file /\ file.kind = "state" /\ jobs' \in UndoJobs
         /\ jobs' # ClearAlone /\ "wininet" \in Range(jobs')
         /\ file.rules # <<>> => "defaults" \in Range(jobs') /\ "rules" \in Range(jobs')
         /\ left' = Items(Head(jobs'), mem') /\ fatal' # {} /\ bad' = FALSE /\ then' = "ready"
         /\ ended' = "never"
         /\ UNCHANGED <<outbound, rules, wininet, file, elevated, original, found, fails, mishaps>>
<1> DEFINE WC == <<"wininet", "clear">> D == <<"defaults", "wininet", "rules", "clear">>
<1>1. /\ WC \in UndoJobs /\ WC # ClearAlone /\ "wininet" \in Range(WC)
      /\ D \in UndoJobs /\ D # ClearAlone /\ Range(D) = {"defaults", "wininet", "rules", "clear"}
      /\ WC[1] = Head(WC) /\ D[1] = Head(D)
  BY DEF UndoJobs, ClearAlone, Range
<1> HIDE DEF WC, D
<1>2. CASE RecoverProxyOnly
  <2>1. ended = "never"
    BY <1>2 DEF Typed, Plan, RecoverProxyOnly
  <2>2. Begin("undo", WC, file, {"wininet"}, "ready")
    BY <1>2 DEF RecoverProxyOnly, WC
  <2>3. /\ pc' = "undo" /\ jobs' = WC /\ left' = Items(Head(WC), file) /\ fatal' = {"wininet"}
        /\ bad' = FALSE /\ then' = "ready" /\ mem' = file
    BY <1>1, <2>2 DEF Begin
  <2>4. /\ pc = "recover" /\ file.kind = "state" /\ file.rules = <<>>
        /\ UNCHANGED <<machine, file, elevated, history, ended, fails, mishaps>>
    BY <1>2 DEF RecoverProxyOnly
  <2>5. UNCHANGED <<outbound, rules, wininet, file, elevated, original, found, fails, mishaps, ended>>
    BY <2>4 DEF machine, history
  <2> QED BY <1>1, <2>1, <2>3, <2>4, <2>5
<1>3. CASE Recover
  <2>1. ended = "never"
    BY <1>3 DEF Typed, Plan, Recover
  <2>2. Begin("undo", D, file, {"defaults", "rules"}, "ready")
    BY <1>3 DEF Recover, D
  <2>3. /\ pc' = "undo" /\ jobs' = D /\ left' = Items(Head(D), file) /\ fatal' = {"defaults", "rules"}
        /\ bad' = FALSE /\ then' = "ready" /\ mem' = file
    BY <1>1, <2>2 DEF Begin
  <2>4. /\ pc = "recover" /\ file.kind = "state"
        /\ UNCHANGED <<machine, file, elevated, history, ended, fails, mishaps>>
    BY <1>3 DEF Recover
  <2>5. UNCHANGED <<outbound, rules, wininet, file, elevated, original, found, fails, mishaps, ended>>
    BY <2>4 DEF machine, history
  <2> QED BY <1>1, <2>1, <2>3, <2>4, <2>5
<1> QED BY <1>2, <1>3

\* Apply begins by looking at the machine (enforcer_windows.go:76-106, 217-231).
LEMMA ApplyLooks ==
  ASSUME Typed, NEW s \in EnforceSpec,
         ApplyNothing(s) \/ ApplyRefused(s) \/ Apply(s) \/ applySystemProxyOnly(s)
  PROVE  /\ pc = "ready"
         /\ found'.outbound = outbound /\ found'.rules = rules /\ found'.wininet = wininet
         /\ UNCHANGED <<outbound, rules, wininet, file, elevated, original, mishaps>>
         /\ fails \in Nat /\ fails' \in Nat /\ fails' >= fails
<1>1. ProcessOK
  BY DEF Typed
<1>2. /\ pc = "ready" /\ found' = Machine
      /\ UNCHANGED <<machine, file, elevated, original, mishaps>>
      /\ fails' = fails \/ fails' = fails + 1
  BY DEF ApplyNothing, ApplyRefused, Apply, applySystemProxyOnly
<1>3. fails \in Nat /\ fails' \in Nat /\ fails' >= fails
  BY <1>1, <1>2, Counts
<1>4. found'.outbound = outbound /\ found'.rules = rules /\ found'.wininet = wininet
  BY <1>1, <1>2, MachineTyped
<1> QED BY <1>2, <1>3, <1>4 DEF machine

\* Nothing to enforce (enforcer_windows.go:76-78).
LEMMA ApplyNothingDoes ==
  ASSUME Typed, NEW s \in EnforceSpec, ApplyNothing(s)
  PROVE  pc' = "running" /\ mem' = Blank /\ UNCHANGED <<ended, fails>> /\ ended' = "never"
<1>1. ended = "never"
  BY DEF Typed, Plan, ApplyNothing
<1> QED BY <1>1 DEF ApplyNothing, Rest

\* Apply is refused before it has done anything (enforcer_windows.go:79-82, 99-103).
LEMMA ApplyRefusedDoes ==
  ASSUME Typed, NEW s \in EnforceSpec, ApplyRefused(s)
  PROVE  pc' = "down" /\ ended' = "refused"
BY DEF ApplyRefused, Rest

\* The elevated tier begins with its record (enforcer_windows.go:87-109).
LEMMA ApplyDoes ==
  ASSUME Typed, NEW s \in EnforceSpec, Apply(s)
  PROVE  /\ pc' = "apply" /\ jobs' = ApplyOrder(s) /\ left' = <<"truncate", "write">>
         /\ mem'.kind = "state" /\ mem'.global = s.global /\ mem'.saved = outbound
         /\ mem'.hasProxy = FALSE /\ mem'.rules # <<>> /\ UNCHANGED <<ended, fails>> /\ ended' = "never"
<1> DEFINE m == [Blank EXCEPT !.kind = "state", !.global = s.global, !.saved = outbound,
                   !.rules = ruleNames(s) \o plannedAllowNames(s)]
           js == ApplyOrder(s)
<1>1. Begin("apply", js, m, {}, "down") /\ UNCHANGED <<ended, fails>> /\ pc = "ready"
      /\ specNeedsElevation(s)
  BY DEF Apply
<1>2. js \in ApplyJobs /\ Head(js) = "record"
  BY OrderFacts
<1> HIDE DEF m, js
<1>3. /\ m \in enforcementState /\ m.kind = "state" /\ m.global = s.global /\ m.saved = outbound
      /\ m.hasProxy = FALSE /\ m.rules = ruleNames(s) \o plannedAllowNames(s)
  BY MemoryTyped DEF m
<1>4. m.rules # <<>>
  BY <1>1, <1>3, PlannedNames
<1>5. ended = "never" /\ fails \in Nat
  BY <1>1, Counts DEF Typed, Plan
<1>6. pc' = "apply" /\ mem' = m /\ jobs' = js /\ left' = Items(Head(js), m)
  BY <1>1, <1>2, <1>3, <1>5, ApplyBegins
<1>7. left' = <<"truncate", "write">>
  BY <1>2, <1>6, ItemsAre
<1> QED BY <1>1, <1>3, <1>4, <1>5, <1>6, <1>7 DEF js

\* The proxy-only tier begins with the settings (enforcer_windows.go:217-231).
LEMMA ProxyOnlyDoes ==
  ASSUME Typed, NEW s \in EnforceSpec, applySystemProxyOnly(s)
  PROVE  /\ pc' = "apply" /\ jobs' = PointAndRecord /\ left' = WinINET
         /\ mem'.kind = "state" /\ mem'.global = FALSE /\ mem'.rules = <<>>
         /\ mem'.hasProxy = TRUE /\ mem'.proxy = wininet /\ UNCHANGED <<ended, fails>> /\ ended' = "never"
<1> DEFINE m == [Blank EXCEPT !.kind = "state", !.hasProxy = TRUE, !.proxy = wininet]
<1>1. Begin("apply", PointAndRecord, m, {}, "down") /\ UNCHANGED <<ended, fails>> /\ pc = "ready"
  BY DEF applySystemProxyOnly, PointAndRecord
<1>2. PointAndRecord \in ApplyJobs /\ Head(PointAndRecord) = "point"
  BY DEF ApplyJobs, PointAndRecord
<1> HIDE DEF m
<1>3. /\ m \in enforcementState /\ m.kind = "state" /\ m.rules = <<>>
      /\ m.global = FALSE /\ m.hasProxy = TRUE /\ m.proxy = wininet
  BY ProxyMemoryTyped DEF m
<1>4. ended = "never" /\ fails \in Nat
  BY <1>1, Counts DEF Typed, Plan
<1>5. pc' = "apply" /\ mem' = m /\ jobs' = PointAndRecord /\ left' = Items(Head(PointAndRecord), m)
  BY <1>1, <1>2, <1>3, <1>4, ApplyBegins
<1>6. left' = WinINET
  BY <1>2, <1>5, ItemsAre
<1> QED BY <1>1, <1>3, <1>4, <1>5, <1>6

\* A call of Apply fails: it unwinds, or has nothing to (enforcer_windows.go:107-183, 217-230).
LEMMA ApplyFailsDoes ==
  ASSUME Typed, ApplyFails
  PROVE  /\ pc = "apply" /\ left # <<>> /\ mem' = mem /\ fails \in Nat /\ fails' = fails + 1
         /\ mishaps \subseteq mishaps' /\ Torn \subseteq mishaps'
         /\ Head(jobs) = "flip" /\ outbound # found.outbound => "halfFlip" \in mishaps'
         /\ UNCHANGED <<outbound, rules, wininet, file, elevated, original, found>>
         /\ Unwind(Head(jobs)) = <<>> => pc' = "down" /\ ended' = "refused"
         /\ Unwind(Head(jobs)) # <<>> =>
              /\ pc' = "undo" /\ jobs' = Unwind(Head(jobs)) /\ jobs' \in UndoJobs
              /\ left' = Items(Head(jobs'), mem') /\ fatal' = {} /\ bad' = FALSE /\ then' = "down"
              /\ ended' = "never"
<1>1. /\ pc = "apply" /\ left # <<>> /\ fails' = fails + 1 /\ ended = "never" /\ mem \in enforcementState
      /\ fails \in Nat /\ fails' \in Nat /\ fails' >= 1
      /\ UNCHANGED <<machine, file, elevated, history>>
  <2>1. /\ pc = "apply" /\ left # <<>> /\ fails' = fails + 1
        /\ UNCHANGED <<machine, file, elevated, history>>
    BY DEF ApplyFails
  <2> QED BY <2>1, Counts DEF Typed, Plan, ProcessOK
<1>2. UNCHANGED <<outbound, rules, wininet, file, elevated, original, found>>
  BY <1>1 DEF machine, history
<1>3. /\ mishaps \subseteq mishaps' /\ Torn \subseteq mishaps'
      /\ Head(jobs) = "flip" /\ outbound # found.outbound => "halfFlip" \in mishaps'
  BY DEF ApplyFails
<1>4. CASE Unwind(Head(jobs)) = <<>>
  BY <1>1, <1>2, <1>3, <1>4 DEF ApplyFails, Rest
<1>5. CASE Unwind(Head(jobs)) # <<>>
  <2> DEFINE js == Unwind(Head(jobs))
  <2>1. Begin("undo", js, mem, {}, "down") /\ ended' = "never" /\ js \in UndoJobs
    BY <1>1, <1>5, UnwindFacts DEF ApplyFails
  <2> HIDE DEF js
  <2>2. /\ pc' = "undo" /\ mem' = mem /\ jobs' = js /\ left' = Items(Head(js), mem)
        /\ fatal' = {} /\ bad' = FALSE /\ then' = "down"
    BY <1>1, <2>1, UndoBegins
  <2> QED BY <1>1, <1>2, <1>3, <1>5, <2>1, <2>2 DEF js
<1> QED BY <1>4, <1>5

\* A call of an undo fails.
LEMMA UndoFailsDoes ==
  ASSUME Typed, UndoFails
  PROVE  /\ pc = "undo" /\ left # <<>> /\ fails \in Nat /\ fails' = fails + 1 /\ bad' = TRUE
         /\ UNCHANGED <<outbound, rules, wininet, file, elevated, original, found, mishaps>>
         /\ UNCHANGED <<pc, mem, jobs, fatal, then, ended>>
<1>1. /\ pc = "undo" /\ left # <<>> /\ fails' = fails + 1 /\ bad' = TRUE
      /\ UNCHANGED <<machine, file, pc, elevated, mem, jobs, fatal, then, history, ended, mishaps>>
  BY DEF UndoFails
<1>2. fails \in Nat
  BY Counts DEF Typed
<1> QED BY <1>1, <1>2 DEF machine, history

\* Apply ends, or goes on; before the settings it reads what it replaces
\* (enforcer_windows.go:107-183, sysproxy_windows.go).
LEMMA ApplyNextDoes ==
  ASSUME Typed, ApplyNext
  PROVE  /\ pc = "apply" /\ left = <<>> /\ jobs \in ApplyJobs /\ ended' = "never"
         /\ UNCHANGED <<outbound, rules, wininet, file, elevated, original, found, fails, mishaps>>
         /\ Len(jobs) = 1 => pc' = "running" /\ mem' = mem
         /\ Len(jobs) # 1 =>
              /\ pc' = "apply" /\ jobs' = Tail(jobs) /\ left' = Items(Head(jobs'), mem')
              /\ mem'.kind = "state" /\ mem'.rules = mem.rules /\ mem'.global = mem.global
              /\ mem'.saved = mem.saved
              /\ Head(jobs') = "point" => mem'.hasProxy = TRUE /\ mem'.proxy = wininet
              /\ Head(jobs') # "point" => mem' = mem
<1>1. /\ pc = "apply" /\ left = <<>>
      /\ UNCHANGED <<machine, file, elevated, history, ended, fails, mishaps>>
  BY DEF ApplyNext
<1>2. /\ jobs \in ApplyJobs /\ ended = "never" /\ mem \in enforcementState /\ mem.kind = "state"
      /\ wininet \in Settings /\ fails' \in Nat
  BY <1>1, Counts DEF Typed, Plan, ProcessOK
<1>3. UNCHANGED <<outbound, rules, wininet, file, elevated, original, found, fails, mishaps>>
  BY <1>1 DEF machine, history
<1>4. CASE Len(jobs) = 1
  BY <1>1, <1>2, <1>3, <1>4 DEF ApplyNext, Rest
<1>5. CASE Len(jobs) # 1
  <2> DEFINE m == IF jobs[2] = "point" THEN [mem EXCEPT !.hasProxy = TRUE, !.proxy = wininet] ELSE mem
             js == Tail(jobs)
  <2>1. Begin("apply", js, m, {}, "down")
    BY <1>5 DEF ApplyNext
  <2>2. js \in ApplyJobs /\ jobs[2] = Head(js)
    BY <1>2, <1>5, ApplyJobFacts
  <2>3. /\ m \in enforcementState /\ m.kind = "state" /\ m.rules = mem.rules /\ m.global = mem.global
        /\ m.saved = mem.saved
        /\ Head(js) = "point" => m.hasProxy = TRUE /\ m.proxy = wininet
        /\ Head(js) # "point" => m = mem
    BY <1>2, <2>2 DEF enforcementState
  <2> HIDE DEF m, js
  <2>4. pc' = "apply" /\ mem' = m /\ jobs' = js /\ left' = Items(Head(js), m)
    BY <1>1, <1>2, <2>1, <2>2, <2>3, ApplyBegins
  <2> QED BY <1>1, <1>2, <1>3, <1>5, <2>3, <2>4 DEF js
<1> QED BY <1>4, <1>5

\* An undo ends, or goes on (enforcer_windows.go:189-213, 381-477).
LEMMA UndoNextDoes ==
  ASSUME Typed, UndoNext
  PROVE  /\ pc = "undo" /\ left = <<>> /\ jobs \in UndoJobs /\ mem' = mem /\ mem \in enforcementState
         /\ UNCHANGED <<outbound, rules, wininet, file, elevated, original, found, fails, mishaps>>
         /\ Len(jobs) = 1 \/ (bad /\ Head(jobs) \in fatal) =>
              /\ pc' = then
              /\ then = "ready" => ended' = "never"
              /\ then = "down" => ended' = IF fatal = {} THEN "refused" ELSE IF bad THEN "failed" ELSE "restored"
         /\ ~(Len(jobs) = 1 \/ (bad /\ Head(jobs) \in fatal)) =>
              /\ pc' = "undo" /\ jobs' = Tail(jobs) /\ Tail(jobs) \in UndoJobs
              /\ left' = Items(Head(jobs'), mem') /\ fatal' = fatal /\ bad' = FALSE /\ then' = then
              /\ ended' = "never"
<1>1. /\ pc = "undo" /\ left = <<>>
      /\ UNCHANGED <<machine, file, elevated, history, fails, mishaps>>
  BY DEF UndoNext
<1>2. /\ jobs \in UndoJobs /\ ended = "never" /\ mem \in enforcementState
      /\ then \in {"ready", "down"}
  BY <1>1 DEF Typed, Plan, ProcessOK
<1>3. UNCHANGED <<outbound, rules, wininet, file, elevated, original, found, fails, mishaps>>
  BY <1>1 DEF machine, history
<1>4. CASE Len(jobs) = 1 \/ (bad /\ Head(jobs) \in fatal)
  <2>1. /\ pc' = then /\ mem' = mem
        /\ ended' = CASE then = "ready" -> ended
                      [] then = "down" /\ fatal = {} -> "refused"
                      [] OTHER -> IF bad THEN "failed" ELSE "restored"
    BY <1>4 DEF UndoNext, Rest
  <2>2. CASE then = "ready"
    BY <1>1, <1>2, <1>3, <1>4, <2>1, <2>2
  <2>3. CASE then = "down"
    <3>1. ended' = IF fatal = {} THEN "refused" ELSE IF bad THEN "failed" ELSE "restored"
      BY <2>1, <2>3
    <3> QED BY <1>1, <1>2, <1>3, <1>4, <2>1, <2>3, <3>1
  <2> QED BY <1>2, <2>2, <2>3
<1>5. CASE ~(Len(jobs) = 1 \/ (bad /\ Head(jobs) \in fatal))
  <2> DEFINE js == Tail(jobs)
  <2>1. Begin("undo", js, mem, fatal, then) /\ ended' = "never"
    BY <1>2, <1>5 DEF UndoNext
  <2>2. js \in UndoJobs /\ js[1] = Head(js)
    BY <1>2, <1>5, UndoJobFacts, FirstItems
  <2> HIDE DEF js
  <2>3. /\ pc' = "undo" /\ jobs' = js /\ left' = Items(Head(js), mem) /\ fatal' = fatal /\ bad' = FALSE
        /\ then' = then /\ mem' = mem
    BY <2>1, <2>2 DEF Begin
  <2> QED BY <1>1, <1>2, <1>3, <1>5, <2>1, <2>2, <2>3 DEF js
<1> QED BY <1>4, <1>5

\* The kill path touches neither the rules' presence nor the record (enforcer_windows.go:246-282).
LEMMA SuspendDoes ==
  ASSUME Typed, Suspend
  PROVE  /\ pc = "running" /\ pc' = "suspended" /\ fails \in Nat /\ fails' \in Nat /\ fails' >= fails
         /\ UNCHANGED <<outbound, rules, wininet, file, elevated, original, found, mishaps, mem, ended>>
         /\ ended' = "never"
<1>1. /\ pc = "running" /\ pc' = "suspended" /\ (fails' = fails \/ fails' = fails + 1)
      /\ UNCHANGED <<outbound, rules, wininet, file, elevated, mem, history, ended, mishaps>>
  BY DEF Suspend
<1>2. fails \in Nat /\ ended = "never"
  BY <1>1, Counts DEF Typed, Plan
<1>3. fails' \in Nat /\ fails' >= fails
  BY <1>1, <1>2
<1> QED BY <1>1, <1>2, <1>3 DEF history

\* The end of a session: there is nothing to undo, or it is undone (enforcer_windows.go:189-213).
LEMMA RestoreDoes ==
  ASSUME Typed, restore
  PROVE  /\ pc \in {"running", "suspended"} /\ mem' = mem /\ mem.kind \in {"none", "state"}
         /\ UNCHANGED <<outbound, rules, wininet, file, elevated, original, found, fails, mishaps>>
         /\ mem.kind = "none" => pc' = "down" /\ ended' = "restored"
         /\ mem.kind = "state" =>
              /\ pc' = "undo" /\ jobs' \in UndoJobs /\ jobs' # ClearAlone /\ "wininet" \in Range(jobs')
              /\ Firewalled => "defaults" \in Range(jobs') /\ "rules" \in Range(jobs')
              /\ left' = Items(Head(jobs'), mem') /\ fatal' # {} /\ bad' = FALSE /\ then' = "down"
              /\ ended' = "never"
<1> DEFINE WC == <<"wininet", "clear">> D == <<"defaults", "wininet", "rules", "clear">>
<1>1. /\ WC \in UndoJobs /\ WC # ClearAlone /\ "wininet" \in Range(WC)
      /\ D \in UndoJobs /\ D # ClearAlone /\ Range(D) = {"defaults", "wininet", "rules", "clear"}
      /\ WC[1] = Head(WC) /\ D[1] = Head(D)
  BY DEF UndoJobs, ClearAlone, Range
<1> HIDE DEF WC, D
<1>2. /\ pc \in {"running", "suspended"} /\ UNCHANGED <<machine, file, elevated, history, fails, mishaps>>
  BY DEF restore
<1>3. ended = "never" /\ mem.kind \in {"none", "state"}
  BY <1>2, RecordTyped DEF Typed, Plan, ProcessOK
<1>4. UNCHANGED <<outbound, rules, wininet, file, elevated, original, found, fails, mishaps>>
  BY <1>2 DEF machine, history
<1>5. CASE mem.kind = "none"
  BY <1>2, <1>3, <1>4, <1>5 DEF restore, Rest
<1>6. CASE mem.kind = "state"
  <2>1. ended' = "never"
    BY <1>3, <1>6 DEF restore
  <2>2. CASE Firewalled
    <3>1. Begin("undo", D, mem, {"defaults", "wininet", "rules"}, "down")
      BY <1>6, <2>2 DEF restore, D
    <3>2. /\ pc' = "undo" /\ jobs' = D /\ left' = Items(Head(D), mem) /\ fatal' # {}
          /\ bad' = FALSE /\ then' = "down" /\ mem' = mem
      BY <1>1, <3>1 DEF Begin
    <3> QED BY <1>1, <1>2, <1>3, <1>4, <1>6, <2>1, <2>2, <3>2
  <2>3. CASE ~Firewalled
    <3>1. Begin("undo", WC, mem, {"wininet"}, "down")
      BY <1>6, <2>3 DEF restore, WC
    <3>2. /\ pc' = "undo" /\ jobs' = WC /\ left' = Items(Head(WC), mem) /\ fatal' # {}
          /\ bad' = FALSE /\ then' = "down" /\ mem' = mem
      BY <1>1, <3>1 DEF Begin
    <3> QED BY <1>1, <1>2, <1>3, <1>4, <1>6, <2>1, <2>3, <3>2
  <2> QED BY <2>2, <2>3
<1> QED BY <1>3, <1>5, <1>6

\* The process dies.
LEMMA CrashDoes ==
  ASSUME Typed, Crash
  PROVE  /\ pc # "down" /\ pc' = "down" /\ ended' = "crashed" /\ mem' = Blank
         /\ UNCHANGED <<outbound, rules, wininet, file, elevated, original, found, fails>>
         /\ mishaps \subseteq mishaps' /\ Torn \subseteq mishaps'
         /\ pc = "apply" /\ wininet # found.wininet /\ ~file.hasProxy => "unrecorded" \in mishaps'
<1>1. /\ pc # "down" /\ pc' = "down" /\ ended' = "crashed" /\ mem' = Blank
      /\ UNCHANGED <<machine, file, elevated, history, fails>>
  BY DEF Crash, Rest
<1>2. /\ mishaps \subseteq mishaps' /\ Torn \subseteq mishaps'
      /\ pc = "apply" /\ wininet # found.wininet /\ ~file.hasProxy => "unrecorded" \in mishaps'
  BY DEF Crash
<1> QED BY <1>1, <1>2 DEF machine, history

\* Which jobs are those of an Apply, and which those of an undo.
LEMMA WhoseJob ==
  ASSUME Typed, pc \in {"apply", "undo"}
  PROVE  /\ pc = "apply" => Head(jobs) \in {"record", "purge", "add", "flip", "point"} /\ jobs \in ApplyJobs
         /\ pc = "undo" => Head(jobs) \in {"defaults", "wininet", "rules", "clear"} /\ jobs \in UndoJobs
<1>1. (pc = "apply" => jobs \in ApplyJobs) /\ (pc = "undo" => jobs \in UndoJobs)
  BY DEF Typed, Plan
<1> QED BY <1>1, ApplyJobFacts, UndoJobFacts

\* The file is emptied, then filled (state_windows.go:68-90).
LEMMA WriteDoes ==
  ASSUME Typed, writeState
  PROVE  /\ pc = "apply" /\ Head(jobs) = "record"
         /\ UNCHANGED <<outbound, rules, wininet, fails>>
         /\ \/ /\ left = <<"truncate", "write">> /\ left' = <<"write">>
               /\ file'.kind = "corrupt" /\ file'.global = FALSE /\ file'.hasProxy = FALSE
               /\ mishaps \subseteq mishaps'
               /\ file.kind = "state" /\ ~Rerecord => "overwrote" \in mishaps'
            \/ left = <<"write">> /\ left' = <<>> /\ file' = mem /\ mishaps' = mishaps
<1>1. /\ pc \in {"apply", "undo"} /\ Head(jobs) = "record" /\ left # <<>> /\ left' = Tail(left)
      /\ UNCHANGED <<machine, fails>>
  BY DEF writeState, Working, Advance
<1>2. pc = "apply"
  BY <1>1, WhoseJob
<1>3. left \in {<<"truncate", "write">>, <<"write">>}
  BY <1>1, <1>2 DEF Typed, Plan
<1>4. /\ Head(<<"truncate", "write">>) = "truncate" /\ Tail(<<"truncate", "write">>) = <<"write">>
      /\ Head(<<"write">>) = "write" /\ Tail(<<"write">>) = <<>>
  OBVIOUS
<1>5. /\ Blank \in enforcementState /\ Blank.global = FALSE /\ Blank.hasProxy = FALSE
  BY BlankTyped DEF Typed, Matter
<1>6. CASE Head(left) = "truncate"
  <2>1. left = <<"truncate", "write">> /\ left' = <<"write">>
    BY <1>1, <1>3, <1>4, <1>6
  <2>2. /\ file' = [Blank EXCEPT !.kind = "corrupt"]
        /\ mishaps' = mishaps \cup (IF file.kind = "state" /\ ~Rerecord THEN {"overwrote"} ELSE {})
    BY <1>6 DEF writeState
  <2>3. file'.kind = "corrupt" /\ file'.global = FALSE /\ file'.hasProxy = FALSE
    BY <1>5, <2>2 DEF enforcementState
  <2>4. mishaps \subseteq mishaps' /\ (file.kind = "state" /\ ~Rerecord => "overwrote" \in mishaps')
    BY <2>2
  <2> QED BY <1>1, <1>2, <2>1, <2>3, <2>4 DEF machine
<1>7. CASE Head(left) = "write"
  <2>1. left = <<"write">> /\ left' = <<>>
    BY <1>1, <1>3, <1>4, <1>7
  <2>2. file' = mem /\ mishaps' = mishaps
    BY <1>7 DEF writeState
  <2> QED BY <1>1, <1>2, <2>1, <2>2 DEF machine
<1> QED BY <1>3, <1>4, <1>6, <1>7

\* The file is removed (state_windows.go:115-120).
LEMMA ClearDoes ==
  ASSUME Typed, clearState
  PROVE  /\ pc = "undo" /\ jobs = ClearAlone /\ left' = <<>> /\ file' = Blank
         /\ UNCHANGED <<outbound, rules, wininet, fails, mishaps>>
<1>1. /\ pc \in {"apply", "undo"} /\ Head(jobs) = "clear" /\ left # <<>> /\ left' = Tail(left)
      /\ UNCHANGED <<machine, fails, mishaps>> /\ file' = Blank
  BY DEF clearState, Working, Advance
<1>2. pc = "undo" /\ jobs \in UndoJobs
  BY <1>1, WhoseJob
<1>3. left = <<"file">>
  BY <1>1, <1>2 DEF Typed, Plan
<1>4. Tail(<<"file">>) = <<>>
  OBVIOUS
<1> QED BY <1>1, <1>2, <1>3, <1>4, UndoJobFacts DEF machine

\* A rule goes, unless the call fails or the rule is not ours (enforcer_windows.go:118-122, 452-467).
LEMMA RemoveDoes ==
  ASSUME Typed, removeRule
  PROVE  /\ (pc = "apply" /\ Head(jobs) = "purge") \/ (pc = "undo" /\ Head(jobs) = "rules")
         /\ rules' \subseteq rules /\ Head(left) \in Range(mem.rules)
         /\ fails' = fails => rules' = rules \ {Head(left)} \/ (Skipped /\ rules' = rules)
         /\ fails \in Nat /\ fails' \in Nat /\ fails' >= fails
         /\ UNCHANGED <<outbound, wininet, file, mishaps>>
<1>1. /\ pc \in {"apply", "undo"} /\ Head(jobs) \in {"purge", "rules"} /\ left # <<>>
      /\ UNCHANGED <<outbound, wininet, file, mishaps>>
  BY DEF removeRule, Working
<1>2. (pc = "apply" /\ Head(jobs) = "purge") \/ (pc = "undo" /\ Head(jobs) = "rules")
  BY <1>1, WhoseJob
<1>3. Head(left) \in Range(mem.rules)
  BY <1>1, HeadItem, ItemsAre
<1>4. fails \in Nat
  BY Counts DEF Typed
<1>5. \/ Skipped /\ rules' = rules /\ fails' = fails
      \/ rules' = rules \ {Head(left)} /\ fails' = fails
      \/ rules' = rules /\ fails' = fails + 1
  BY DEF removeRule
<1>6. fails' \in Nat /\ fails' >= fails /\ fails # fails + 1
  BY <1>4, <1>5
<1> QED BY <1>1, <1>2, <1>3, <1>4, <1>5, <1>6

\* A rule comes (enforcer_windows.go:124-141).
LEMMA AddDoes ==
  ASSUME Typed, addProxyAllowRule \/ addExceptionRule \/ addBlockRule
  PROVE  /\ pc = "apply" /\ Head(jobs) = "add" /\ rules' = rules \cup {Head(left)}
         /\ Head(left) \in Range(mem.rules)
         /\ UNCHANGED <<outbound, wininet, file, mishaps, fails>>
<1>1. /\ pc \in {"apply", "undo"} /\ Head(jobs) = "add" /\ left # <<>> /\ rules' = rules \cup {Head(left)}
      /\ UNCHANGED <<outbound, wininet, file, mishaps, fails>>
  BY DEF addProxyAllowRule, addExceptionRule, addBlockRule, AddRule, Working
<1>2. pc = "apply"
  BY <1>1, WhoseJob
<1>3. Head(left) \in Range(addOrder(mem)) /\ mem \in enforcementState /\ Recordable(mem)
  BY <1>1, HeadItem, ItemsAre DEF Typed, Matter
<1> QED BY <1>1, <1>2, <1>3, AddOrderFacts

\* The default actions, one by one (defaults_windows.go).
LEMMA FlipDoes ==
  ASSUME Typed, setDefaultOutbound
  PROVE  /\ pc = "apply" /\ Head(jobs) = "flip"
         /\ UNCHANGED <<rules, wininet, file, mishaps, fails>>
<1>1. pc \in {"apply", "undo"} /\ Head(jobs) = "flip" /\ UNCHANGED <<rules, wininet, file, mishaps, fails>>
  BY DEF setDefaultOutbound, Working
<1> QED BY <1>1, WhoseJob

\* The default actions come back, one by one (defaults_windows.go).
LEMMA DefaultsDoes ==
  ASSUME Typed, restoreDefaultOutbound
  PROVE  /\ pc = "undo" /\ Head(jobs) = "defaults" /\ mem.global
         /\ outbound' = [outbound EXCEPT ![Head(left)] = mem.saved[Head(left)]]
         /\ UNCHANGED <<rules, wininet, file, mishaps, fails>>
<1>1. /\ pc \in {"apply", "undo"} /\ Head(jobs) = "defaults" /\ left # <<>>
      /\ outbound' = [outbound EXCEPT ![Head(left)] = mem.saved[Head(left)]]
      /\ UNCHANGED <<rules, wininet, file, mishaps, fails>>
  BY DEF restoreDefaultOutbound, Working
<1>2. Head(left) \in Range(Items("defaults", mem))
  BY <1>1, HeadItem
<1>3. mem.global
  BY <1>2, ItemsAre, EmptyFacts
<1> QED BY <1>1, <1>3, WhoseJob

\* The WinINET values, one by one (sysproxy_windows.go).
LEMMA PointDoes ==
  ASSUME Typed, setSystemProxy
  PROVE  /\ pc = "apply" /\ Head(jobs) = "point" /\ left' # WinINET
         /\ UNCHANGED <<outbound, rules, file, mishaps, fails>>
<1>1. /\ pc \in {"apply", "undo"} /\ Head(jobs) = "point" /\ left # <<>> /\ left' = Tail(left)
      /\ UNCHANGED <<outbound, rules, file, mishaps, fails>>
  BY DEF setSystemProxy, Working, Advance
<1>2. pc = "apply"
  BY <1>1, WhoseJob
<1>3. Len(left) <= Len(WinINET) /\ left \in Seq(Range(Items(Head(jobs), mem)))
  BY <1>1, <1>2 DEF Typed, Plan
<1>4. Len(WinINET) \in Nat /\ Len(left) \in Nat /\ Len(left') = Len(left) - 1
  BY <1>1, <1>3, ListsAre, LenProperties, HeadTailProperties
<1>5. Len(left') # Len(WinINET)
  BY <1>3, <1>4
<1> QED BY <1>1, <1>2, <1>5

\* The WinINET values come back, one by one (sysproxy_windows.go).
LEMMA SettingsDoes ==
  ASSUME Typed, restoreSystemProxy
  PROVE  /\ pc = "undo" /\ Head(jobs) = "wininet" /\ mem.hasProxy
         /\ wininet' = [wininet EXCEPT ![Head(left)] = mem.proxy[Head(left)]]
         /\ UNCHANGED <<outbound, rules, file, mishaps, fails>>
<1>1. /\ pc \in {"apply", "undo"} /\ Head(jobs) = "wininet" /\ left # <<>>
      /\ wininet' = [wininet EXCEPT ![Head(left)] = mem.proxy[Head(left)]]
      /\ UNCHANGED <<outbound, rules, file, mishaps, fails>>
  BY DEF restoreSystemProxy, Working
<1>2. Head(left) \in Range(Items("wininet", mem))
  BY <1>1, HeadItem
<1>3. mem.hasProxy
  BY <1>2, ItemsAre, EmptyFacts
<1> QED BY <1>1, <1>3, WhoseJob

-----------------------------------------------------------------------------
(* The state file.                                                          *)

\* Once Apply touches the rules it has written its record (enforcer_windows.go:107-141).
LEMMA PastWhen ==
  ASSUME Typed, pc = "apply", Applying
  PROVE  /\ Head(jobs) \in {"purge", "add", "flip"} => Firewalled /\ Past /\ ~mem.hasProxy
         /\ Head(jobs) # "record" => ~Filling /\ (Past <=> Firewalled)
         /\ Head(jobs) = "point" => jobs = PointAndRecord /\ mem.hasProxy
<1>1. jobs \in ApplyJobs
  BY DEF Typed, Plan
<1>2. Head(jobs) \in {"purge", "add", "flip"} => jobs \notin {PointAndRecord, RecordAlone}
  BY <1>1, ApplyJobFacts
<1>3. Head(jobs) = "point" => jobs = PointAndRecord
  BY <1>1, ApplyJobFacts
<1> QED BY <1>2, <1>3 DEF Applying, Past, Filling, Firewalled

\* Apply goes on with its record written, or not yet.
LEMMA PastNext ==
  ASSUME Typed, ApplyNext, Applying
  PROVE  /\ ~Filling /\ left # <<"truncate", "write">>
         /\ Len(jobs) = 1 => Past /\ (~mem.hasProxy \/ Head(jobs) = "record")
         /\ Len(jobs) # 1 => ~Filling' /\ (Past' => Past) /\ (~Past' => ~Past)
<1>1. /\ pc = "apply" /\ left = <<>> /\ jobs \in ApplyJobs
      /\ Len(jobs) # 1 =>
              /\ pc' = "apply" /\ jobs' = Tail(jobs) /\ left' = Items(Head(jobs'), mem')
              /\ mem'.rules = mem.rules
              /\ Head(jobs') = "point" => mem'.hasProxy = TRUE
              /\ Head(jobs') # "point" => mem' = mem
  BY ApplyNextDoes
<1>2. left # <<"write">> /\ left # <<"truncate", "write">>
  BY <1>1
<1>3. ~Filling
  BY <1>2 DEF Filling
<1>4. Head(jobs) = "record" => Past
  BY <1>2 DEF Past
<1>5. /\ Head(jobs) \in {"purge", "add", "flip"} => Firewalled /\ Past /\ ~mem.hasProxy
      /\ Head(jobs) # "record" => (Past <=> Firewalled)
      /\ Head(jobs) = "point" => mem.hasProxy
  BY <1>1, PastWhen
<1>6. CASE Len(jobs) = 1
  <2>1. jobs = RecordAlone \/ Head(jobs) \in {"add", "flip"}
    BY <1>1, <1>6, ApplyJobFacts
  <2>2. jobs = RecordAlone => Head(jobs) = "record"
    BY <1>1, ApplyJobFacts
  <2> QED BY <1>2, <1>3, <1>4, <1>5, <1>6, <2>1, <2>2
<1>7. CASE Len(jobs) # 1
  <2> DEFINE g == Head(Tail(jobs))
  <2>1. /\ Tail(jobs) \in ApplyJobs
        /\ g = "record" <=> jobs = PointAndRecord
        /\ Head(jobs) = "record" => g = "purge" /\ jobs \notin {PointAndRecord, RecordAlone}
        /\ Head(jobs) = "point" => jobs = PointAndRecord
        /\ jobs = PointAndRecord => Head(jobs) = "point"
    BY <1>1, <1>7, ApplyJobFacts
  <2>2. g = Head(jobs')
    BY <1>1, <1>7
  <2> HIDE DEF g
  <2>3. g = "record" => left' = <<"truncate", "write">>
    BY <1>1, <1>7, <2>2, ItemsAre
  <2>4. <<"truncate", "write">> # <<"write">>
    OBVIOUS
  <2>5. ~Filling'
    BY <2>2, <2>3, <2>4 DEF Filling
  <2>6. Firewalled' <=> Firewalled
    BY <1>1, <1>7 DEF Firewalled
  <2>7. CASE g = "record"
    <3>1. jobs = PointAndRecord /\ Head(jobs) = "point"
      BY <2>1, <2>7
    <3>2. mem' = mem /\ mem.hasProxy
      BY <1>1, <1>5, <1>7, <2>2, <2>7, <3>1
    <3>3. Past' <=> Firewalled
      BY <2>2, <2>3, <2>6, <2>7, <3>2 DEF Past
    <3> QED BY <1>2, <1>3, <1>5, <1>7, <2>5, <3>1, <3>3
  <2>8. CASE g # "record"
    <3>1. Past' <=> Firewalled
      BY <2>2, <2>6, <2>8 DEF Past
    <3>2. Head(jobs) = "record" => Firewalled
      BY <2>1 DEF Applying, Firewalled
    <3> QED BY <1>2, <1>3, <1>4, <1>5, <1>7, <2>5, <3>1, <3>2
  <2> QED BY <2>7, <2>8
<1> QED BY <1>6, <1>7

\* A call other than a write leaves the record as far as it was.
LEMMA PastKept ==
  ASSUME Typed, Steps, pc = "apply", Head(jobs) # "record"
  PROVE  (Past' <=> Past) /\ ~Filling /\ ~Filling'
<1>1. UNCHANGED <<jobs, mem>>
  BY StepFrame
<1> QED BY <1>1 DEF Past, Filling, Firewalled

\* A write of Apply brings the record further.
LEMMA PastWritten ==
  ASSUME Typed, writeState
  PROVE  /\ Past' /\ (left = <<"write">> => Past /\ Filling /\ ~Filling')
         /\ left = <<"truncate", "write">> => Filling' /\ ~Filling /\ (Past <=> Rerecord)
         /\ (Rerecord' <=> Rerecord) /\ <<"truncate", "write">> # <<"write">>
<1>1. /\ pc = "apply" /\ Head(jobs) = "record"
      /\ \/ left = <<"truncate", "write">> /\ left' = <<"write">>
         \/ left = <<"write">> /\ left' = <<>>
  BY WriteDoes
<1>2. UNCHANGED <<jobs, mem>>
  BY StepFrame DEF Steps
<1>3. <<"truncate", "write">> # <<"write">> /\ <<"write">> # <<>> /\ <<"truncate", "write">> # <<>>
  OBVIOUS
<1> QED BY <1>1, <1>2, <1>3 DEF Past, Filling, Firewalled, Rerecord

\* A call of a job keeps the file and the memory together.
LEMMA StepsFiles == ASSUME Typed, Typed', Files, Returned, Steps PROVE Files'
<1>1. /\ pc \in {"apply", "undo"} /\ left # <<>> /\ left' = Tail(left)
      /\ UNCHANGED <<pc, jobs, fatal, bad, then, elevated, mem>> /\ fails' \in Nat /\ fails' >= fails
  BY StepFrame
<1>2. fails \in Nat
  BY Counts DEF Typed
<1>3. CASE writeState
  <2>1. /\ pc = "apply" /\ Head(jobs) = "record"
        /\ \/ left = <<"truncate", "write">> /\ left' = <<"write">> /\ file'.kind = "corrupt"
           \/ left = <<"write">> /\ left' = <<>> /\ file' = mem
    BY <1>3, WriteDoes
  <2>2. /\ left = <<"write">> => Past' /\ ~Filling'
        /\ left = <<"truncate", "write">> => Filling'
    BY <1>3, PastWritten
  <2>3. mem.kind = "state"
    BY <2>1 DEF Typed, Plan
  <2>4. CASE left = <<"truncate", "write">>
    <3>1. Filling' /\ file'.kind = "corrupt" /\ pc' = "apply"
      BY <1>1, <2>1, <2>2, <2>4, PastWritten, <1>3
    <3> QED BY <3>1 DEF Files
  <2>5. CASE left = <<"write">>
    <3>1. ~Filling' /\ file' = mem' /\ pc' = "apply" /\ mem'.kind = "state"
      BY <1>1, <2>1, <2>2, <2>3, <2>5, PastWritten, <1>3
    <3> QED BY <3>1 DEF Files
  <2> QED BY <2>1, <2>4, <2>5
<1>4. CASE clearState
  <2>1. pc = "undo" /\ jobs = ClearAlone /\ left' = <<>> /\ file' = Blank
    BY <1>4, ClearDoes
  <2>2. file'.kind = "none"
    BY <2>1, BlankTyped DEF Typed, Matter
  <2> QED BY <1>1, <2>1, <2>2 DEF Files
<1>5. CASE ~writeState /\ ~clearState
  <2>1. /\ file' = file
        /\ pc = "apply" => Head(jobs) # "record"
        /\ pc = "undo" => Head(jobs) # "clear"
    <3>1. CASE removeRule
      BY <3>1, RemoveDoes
    <3>2. CASE addProxyAllowRule \/ addExceptionRule \/ addBlockRule
      BY <3>2, AddDoes
    <3>3. CASE setDefaultOutbound
      BY <3>3, FlipDoes
    <3>4. CASE restoreDefaultOutbound
      BY <3>4, DefaultsDoes
    <3>5. CASE setSystemProxy
      BY <3>5, PointDoes
    <3>6. CASE restoreSystemProxy
      BY <3>6, SettingsDoes
    <3> QED BY <1>5, <3>1, <3>2, <3>3, <3>4, <3>5, <3>6 DEF Steps
  <2>2. CASE pc = "apply"
    <3>1. (Past' <=> Past) /\ ~Filling /\ ~Filling' /\ Head(jobs) # "record"
      BY <2>1, <2>2, PastKept
    <3> QED BY <1>1, <2>1, <2>2, <3>1 DEF Files
  <2>3. CASE pc = "undo"
    <3>1. jobs # ClearAlone
      BY <1>1, <2>1, <2>3, WhoseJob, UndoJobFacts
    <3> QED BY <1>1, <2>1, <2>3, <3>1 DEF Files
  <2> QED BY <1>1, <2>2, <2>3
<1> QED BY <1>3, <1>4, <1>5

\* Apply goes on, or its session runs: what is recorded is what must be undone
\* (enforcer_windows.go:107-183).
LEMMA ApplyNextFiles == ASSUME Typed, Files, Returned, ApplyNext PROVE Files'
<1>1. /\ pc = "apply" /\ left = <<>> /\ jobs \in ApplyJobs /\ UNCHANGED <<file, elevated, fails>>
      /\ Len(jobs) = 1 => pc' = "running" /\ mem' = mem
      /\ Len(jobs) # 1 =>
              /\ pc' = "apply" /\ jobs' = Tail(jobs) /\ left' = Items(Head(jobs'), mem')
              /\ mem'.kind = "state" /\ mem'.rules = mem.rules /\ mem'.global = mem.global
              /\ mem'.saved = mem.saved
              /\ Head(jobs') = "point" => mem'.hasProxy = TRUE
              /\ Head(jobs') # "point" => mem' = mem
  BY ApplyNextDoes
<1>2. Applying
  BY <1>1 DEF Returned
<1>3. /\ ~Filling
      /\ Len(jobs) = 1 => Past /\ (~mem.hasProxy \/ Head(jobs) = "record")
      /\ Len(jobs) # 1 => ~Filling' /\ (Past' => Past)
  BY <1>2, PastNext
<1>4. mem.kind = "state"
  BY <1>1 DEF Typed, Plan
<1>5. CASE Len(jobs) = 1
  <2>1. file = mem
    BY <1>1, <1>3, <1>5 DEF Files
  <2> QED BY <1>1, <1>4, <1>5, <2>1 DEF Files
<1>6. CASE Len(jobs) # 1
  <2>1. Head(jobs') = "record" => left' # <<>> /\ mem'.hasProxy
    <3>1. Head(jobs') = "record" => left' = <<"truncate", "write">>
      BY <1>1, <1>6, ItemsAre
    <3>2. Head(jobs') = "record" => jobs = PointAndRecord
      BY <1>1, <1>6, ApplyJobFacts
    <3>3. jobs = PointAndRecord => mem.hasProxy
      BY <1>2 DEF Applying
    <3> QED BY <1>1, <1>6, <3>1, <3>2, <3>3
  <2>2. ~mem'.hasProxy => mem' = mem
    BY <1>1, <1>6
  <2>3. Past' => /\ file.kind = "state" /\ file.rules = mem.rules
                 /\ file.global = mem.global /\ file.saved = mem.saved
                 /\ ~mem.hasProxy => file = mem
    BY <1>1, <1>3, <1>6 DEF Files
  <2> QED BY <1>1, <1>3, <1>6, <2>1, <2>2, <2>3 DEF Files
<1> QED BY <1>5, <1>6

\* An undo goes on, or ends with the file gone.
LEMMA UndoNextFiles == ASSUME Typed, Files, UndoNext PROVE Files'
<1>1. /\ pc = "undo" /\ left = <<>> /\ jobs \in UndoJobs /\ mem' = mem
      /\ UNCHANGED <<file, elevated, fails>>
      /\ Len(jobs) = 1 \/ (bad /\ Head(jobs) \in fatal) => pc' = then
      /\ ~(Len(jobs) = 1 \/ (bad /\ Head(jobs) \in fatal)) =>
           /\ pc' = "undo" /\ jobs' = Tail(jobs) /\ Tail(jobs) \in UndoJobs
           /\ left' = Items(Head(jobs'), mem') /\ fatal' = fatal
  BY UndoNextDoes
<1>2. /\ fails \in Nat /\ (bad => fails >= 1) /\ then \in {"ready", "down"}
      /\ fatal = {} => then = "down"
      /\ jobs = ProxyAlone => fatal = {}
  BY <1>1, Counts DEF Typed, Plan, ProcessOK
<1>3. CASE Len(jobs) = 1 \/ (bad /\ Head(jobs) \in fatal)
  <2>1. fails = 0 /\ then = "ready" => file.kind = "none"
    <3> SUFFICES ASSUME fails = 0, then = "ready" PROVE file.kind = "none"
      OBVIOUS
    <3>1. Len(jobs) = 1 /\ fatal # {} /\ jobs # ProxyAlone
      BY <1>2, <1>3
    <3>2. jobs = ClearAlone
      BY <1>1, <3>1, UndoJobFacts
    <3>3. ~(fails > 0)
      BY <1>2
    <3> QED BY <1>1, <3>1, <3>2, <3>3 DEF Files
  <2> QED BY <1>1, <1>2, <1>3, <2>1 DEF Files
<1>4. CASE ~(Len(jobs) = 1 \/ (bad /\ Head(jobs) \in fatal))
  <2>1. jobs # ClearAlone
    BY <1>1, <1>4, UndoJobFacts
  <2>2. jobs' = ClearAlone => left' # <<>>
    <3>1. jobs' = ClearAlone => Head(jobs') = "clear"
      BY DEF ClearAlone
    <3>2. <<"file">> # <<>>
      OBVIOUS
    <3> QED BY <1>1, <1>4, <3>1, <3>2, ItemsAre
  <2> QED BY <1>1, <1>4, <2>1, <2>2 DEF Files
<1> QED BY <1>3, <1>4

\* The first process finds no record of a session of its own.
LEMMA InitFiles == Init => Files
BY DEF Init, Files

\* Every step keeps the file and the memory of the process together.
LEMMA NextFiles == ASSUME Typed, Typed', Files, Returned, Step PROVE Files'
<1>1. CASE (\E e \in BOOLEAN : Start(e)) \/ RecoverNothing
  <2>1. /\ pc' \in {"recover", "ready"} /\ (pc' = "ready" => file.kind # "state" \/ ~elevated')
        /\ file' = file
    BY <1>1, QuietDoes
  <2> QED BY <2>1 DEF Files
<1>2. CASE RecoverProxyOnly \/ Recover
  <2>1. pc' = "undo" /\ mem' = file /\ jobs' # ClearAlone /\ file' = file
    BY <1>2, RecoverDoes
  <2> QED BY <2>1 DEF Files
<1>3. ASSUME NEW s \in EnforceSpec,
             ApplyNothing(s) \/ ApplyRefused(s) \/ Apply(s) \/ applySystemProxyOnly(s)
      PROVE  Files'
  <2>1. pc = "ready" /\ UNCHANGED <<file, elevated>>
    BY <1>3, ApplyLooks
  <2>2. CASE ApplyNothing(s)
    <3>1. pc' = "running" /\ mem' = Blank /\ fails' = fails
      BY <2>2, ApplyNothingDoes
    <3>2. mem'.kind = "none"
      BY <3>1, BlankTyped DEF Typed, Matter
    <3> QED BY <2>1, <3>1, <3>2 DEF Files
  <2>3. CASE ApplyRefused(s)
    BY <2>3, ApplyRefusedDoes DEF Files
  <2>4. CASE Apply(s)
    <3>1. /\ pc' = "apply" /\ jobs' = ApplyOrder(s) /\ left' = <<"truncate", "write">>
          /\ mem'.hasProxy = FALSE
      BY <2>4, ApplyDoes
    <3>2. Head(jobs') = "record" /\ <<"truncate", "write">> # <<"write">>
      BY <3>1, OrderFacts
    <3>3. ~Past' /\ ~Filling'
      BY <3>1, <3>2 DEF Past, Filling
    <3> QED BY <3>1, <3>3 DEF Files
  <2>5. CASE applySystemProxyOnly(s)
    <3>1. pc' = "apply" /\ jobs' = PointAndRecord /\ mem'.rules = <<>>
      BY <2>5, ProxyOnlyDoes
    <3>2. Head(PointAndRecord) = "point"
      BY DEF PointAndRecord
    <3>3. ~Past' /\ ~Filling'
      BY <3>1, <3>2 DEF Past, Filling, Firewalled
    <3> QED BY <3>1, <3>3 DEF Files
  <2> QED BY <1>3, <2>2, <2>3, <2>4, <2>5
<1>4. CASE Steps
  BY <1>4, StepsFiles
<1>5. CASE ApplyFails
  <2>1. (pc' = "down") \/ (pc' = "undo" /\ fatal' = {})
    BY <1>5, ApplyFailsDoes
  <2> QED BY <2>1 DEF Files
<1>6. CASE UndoFails
  <2>1. /\ pc = "undo" /\ left # <<>> /\ fails \in Nat /\ fails' = fails + 1
        /\ UNCHANGED <<file, pc, mem, jobs, fatal>>
    BY <1>6, UndoFailsDoes
  <2>2. fails' > 0
    BY <2>1
  <2> QED BY <2>1, <2>2 DEF Files
<1>7. CASE ApplyNext
  BY <1>7, ApplyNextFiles
<1>8. CASE UndoNext
  BY <1>8, UndoNextFiles
<1>9. CASE Suspend
  <2>1. /\ pc = "running" /\ pc' = "suspended" /\ fails \in Nat /\ fails' \in Nat /\ fails' >= fails
        /\ UNCHANGED <<file, elevated, mem>>
    BY <1>9, SuspendDoes
  <2>2. fails' = 0 => fails = 0
    BY <2>1
  <2> QED BY <2>1, <2>2 DEF Files
<1>10. CASE restore
  <2>1. /\ pc \in {"running", "suspended"} /\ mem' = mem /\ mem.kind \in {"none", "state"} /\ file' = file
        /\ mem.kind = "none" => pc' = "down"
        /\ mem.kind = "state" => pc' = "undo" /\ jobs' # ClearAlone
    BY <1>10, RestoreDoes
  <2> QED BY <2>1 DEF Files
<1>11. CASE Crash
  BY <1>11, CrashDoes DEF Files
<1>12. CASE UNCHANGED vars
  BY <1>12 DEF vars, Files, Past, Filling, Firewalled, machine, work, history
<1> QED BY <1>1, <1>2, <1>3, <1>4, <1>5, <1>6, <1>7, <1>8, <1>9, <1>10, <1>11, <1>12 DEF Step, Work, Lifetime

-----------------------------------------------------------------------------
(* The machine is given back.                                               *)

\* A session without rules blocks nothing (enforcer_windows.go:217-231).
LEMMA NoRules ==
  ASSUME NEW m \in enforcementState, Recordable(m), m.rules = <<>>
  PROVE  m.global = FALSE
<1>1. ProxyRule \in Range(AllowNames) /\ Range(m.rules) = {}
  BY NamesAre, EmptyFacts
<1> QED BY <1>1, RecordTyped DEF Recordable

\* An undo that has just begun, or gone on to a job, has everything of its jobs still to come.
LEMMA AllPending ==
  ASSUME Typed', pc' = "undo", left' = Items(Head(jobs'), mem')
  PROVE  /\ "defaults" \in Range(jobs') /\ mem'.global =>
              \A p \in Range(blockedProfiles) : Pending("defaults", p)'
         /\ "wininet" \in Range(jobs') /\ mem'.hasProxy =>
              \A v \in Range(WinINET) : Pending("wininet", v)'
         /\ "rules" \in Range(jobs') => \A r \in Range(mem'.rules) : Pending("rules", r)'
<1>1. Head(jobs') = "defaults" /\ mem'.global => left' = blockedProfiles
  BY ItemsAre
<1>2. Head(jobs') = "wininet" /\ mem'.hasProxy => left' = WinINET
  BY ItemsAre
<1>3. Head(jobs') = "rules" => left' = mem'.rules
  BY ItemsAre
<1> QED BY <1>1, <1>2, <1>3 DEF Pending

\* A call of an undo leaves everything but its own item still to come.
LEMMA PendingKept ==
  ASSUME Typed, Steps, pc = "undo", NEW j, NEW x, Pending(j, x), ~(Head(jobs) = j /\ x = Head(left))
  PROVE  Pending(j, x)'
<1>1. left # <<>> /\ left' = Tail(left) /\ jobs' = jobs
  BY StepFrame
<1>2. \A y \in Range(left) : y = Head(left) \/ y \in Range(Tail(left))
  BY <1>1, HeadItem
<1> QED BY <1>1, <1>2 DEF Pending

\* A job that is done has nothing still to come, and the next has all.
LEMMA PendingNext ==
  ASSUME Typed, Typed', UndoNext, ~(Len(jobs) = 1 \/ (bad /\ Head(jobs) \in fatal))
  PROVE  /\ \A p \in Range(blockedProfiles) :
              mem.global /\ Pending("defaults", p) => Pending("defaults", p)'
         /\ \A v \in Range(WinINET) : mem.hasProxy /\ Pending("wininet", v) => Pending("wininet", v)'
         /\ \A r \in Range(mem.rules) : Pending("rules", r) => Pending("rules", r)'
<1>1. /\ left = <<>> /\ jobs \in UndoJobs /\ mem' = mem /\ pc' = "undo" /\ jobs' = Tail(jobs)
      /\ left' = Items(Head(jobs'), mem')
  BY UndoNextDoes
<1>2. \A j : j \in Range(Tail(jobs)) <=> j \in Range(jobs) /\ j # Head(jobs)
  BY <1>1, UndoJobFacts
<1>3. \A j, x : Pending(j, x) => j \in Range(jobs')
  BY <1>1, <1>2, EmptyFacts DEF Pending
<1> QED BY <1>1, <1>3, AllPending

\* When the last job is done, nothing is still to come.
LEMMA PendingNothing ==
  ASSUME Typed, pc = "undo", left = <<>>, Len(jobs) = 1, NEW j, NEW x
  PROVE  ~Pending(j, x)
<1>1. \A i : i \in Range(jobs) => i = Head(jobs)
  BY UndoJobFacts DEF Typed, Plan
<1> QED BY <1>1, EmptyFacts DEF Pending

\* An undo begins, and leads to T.
LEMMA UndoingBegins ==
  ASSUME Typed', pc' = "undo", left' = Items(Head(jobs'), mem'), NEW T \in Snapshot,
         mem'.global => mem'.saved = T.outbound,
         mem'.hasProxy => mem'.proxy = T.wininet,
         outbound' = T.outbound \/ (mem'.global /\ "defaults" \in Range(jobs')),
         wininet' = T.wininet \/ (mem'.hasProxy /\ "wininet" \in Range(jobs')),
         rules' \subseteq T.rules
           \/ (rules' \subseteq T.rules \cup Range(mem'.rules) /\ "rules" \in Range(jobs'))
  PROVE  /\ mem'.global => mem'.saved = T.outbound
         /\ mem'.hasProxy => mem'.proxy = T.wininet
         /\ \A p \in Range(blockedProfiles) :
              outbound'[p] = T.outbound[p] \/ (mem'.global /\ Pending("defaults", p)')
         /\ \A v \in Range(WinINET) :
              wininet'[v] = T.wininet[v] \/ (mem'.hasProxy /\ Pending("wininet", v)')
         /\ \A r \in rules' : r \in T.rules \/ (r \in Range(mem'.rules) /\ Pending("rules", r)')
BY AllPending

\* A call of an undo brings it nearer to T.
LEMMA UndoingStep ==
  ASSUME Typed, Typed', Steps, pc = "undo", NEW T \in Snapshot, Undoing(T), fails' = fails,
         removeRule /\ Skipped => Head(left) \in T.rules
  PROVE  /\ mem'.global => mem'.saved = T.outbound
         /\ mem'.hasProxy => mem'.proxy = T.wininet
         /\ \A p \in Range(blockedProfiles) :
              outbound'[p] = T.outbound[p] \/ (mem'.global /\ Pending("defaults", p)')
         /\ \A v \in Range(WinINET) :
              wininet'[v] = T.wininet[v] \/ (mem'.hasProxy /\ Pending("wininet", v)')
         /\ \A r \in rules' : r \in T.rules \/ (r \in Range(mem'.rules) /\ Pending("rules", r)')
<1>1. /\ mem' = mem /\ left # <<>> /\ outbound \in Outbound /\ wininet \in Settings
  BY StepFrame DEF Typed, ProcessOK
<1>2. /\ mem.global => mem.saved = T.outbound
      /\ mem.hasProxy => mem.proxy = T.wininet
  BY DEF Undoing
<1>3. ASSUME NEW p \in Range(blockedProfiles)
      PROVE  outbound'[p] = T.outbound[p] \/ (mem.global /\ Pending("defaults", p)')
  <2>1. outbound[p] = T.outbound[p] \/ (mem.global /\ Pending("defaults", p))
    BY DEF Undoing
  <2>2. CASE restoreDefaultOutbound
    <3>1. /\ Head(jobs) = "defaults" /\ mem.global
          /\ outbound' = [outbound EXCEPT ![Head(left)] = mem.saved[Head(left)]]
      BY <2>2, DefaultsDoes
    <3>2. CASE p = Head(left)
      <4>1. outbound'[p] = mem.saved[p]
        BY <1>1, <3>1, <3>2 DEF Outbound
      <4> QED BY <1>2, <3>1, <4>1
    <3>3. CASE p # Head(left)
      <4>1. outbound'[p] = outbound[p]
        BY <1>1, <3>1, <3>3 DEF Outbound
      <4> QED BY <2>1, <3>3, <4>1, PendingKept
    <3> QED BY <3>2, <3>3
  <2>3. CASE ~restoreDefaultOutbound
    <3>1. Head(jobs) # "defaults" /\ outbound' = outbound
      <4>1. CASE writeState \/ clearState \/ removeRule
        BY <4>1, WriteDoes, ClearDoes, RemoveDoes DEF ClearAlone
      <4>2. CASE addProxyAllowRule \/ addExceptionRule \/ addBlockRule
        BY <4>2, AddDoes
      <4>3. CASE setDefaultOutbound \/ setSystemProxy \/ restoreSystemProxy
        BY <4>3, FlipDoes, PointDoes, SettingsDoes
      <4> QED BY <2>3, <4>1, <4>2, <4>3 DEF Steps
    <3> QED BY <2>1, <3>1, PendingKept
  <2> QED BY <2>2, <2>3
<1>4. ASSUME NEW v \in Range(WinINET)
      PROVE  wininet'[v] = T.wininet[v] \/ (mem.hasProxy /\ Pending("wininet", v)')
  <2>1. wininet[v] = T.wininet[v] \/ (mem.hasProxy /\ Pending("wininet", v))
    BY DEF Undoing
  <2>2. CASE restoreSystemProxy
    <3>1. /\ Head(jobs) = "wininet" /\ mem.hasProxy
          /\ wininet' = [wininet EXCEPT ![Head(left)] = mem.proxy[Head(left)]]
      BY <2>2, SettingsDoes
    <3>2. CASE v = Head(left)
      <4>1. wininet'[v] = mem.proxy[v]
        BY <1>1, <3>1, <3>2 DEF Settings
      <4> QED BY <1>2, <3>1, <4>1
    <3>3. CASE v # Head(left)
      <4>1. wininet'[v] = wininet[v]
        BY <1>1, <3>1, <3>3 DEF Settings
      <4> QED BY <2>1, <3>3, <4>1, PendingKept
    <3> QED BY <3>2, <3>3
  <2>3. CASE ~restoreSystemProxy
    <3>1. Head(jobs) # "wininet" /\ wininet' = wininet
      <4>1. CASE writeState \/ clearState \/ removeRule
        BY <4>1, WriteDoes, ClearDoes, RemoveDoes DEF ClearAlone
      <4>2. CASE addProxyAllowRule \/ addExceptionRule \/ addBlockRule
        BY <4>2, AddDoes
      <4>3. CASE setDefaultOutbound \/ setSystemProxy \/ restoreDefaultOutbound
        BY <4>3, FlipDoes, PointDoes, DefaultsDoes
      <4> QED BY <2>3, <4>1, <4>2, <4>3 DEF Steps
    <3> QED BY <2>1, <3>1, PendingKept
  <2> QED BY <2>2, <2>3
<1>5. ASSUME NEW r \in rules'
      PROVE  r \in T.rules \/ (r \in Range(mem.rules) /\ Pending("rules", r)')
  <2>1. CASE removeRule
    <3>1. rules' \subseteq rules /\ (rules' = rules \ {Head(left)} \/ Skipped)
      BY <2>1, RemoveDoes
    <3>2. r \in T.rules \/ (r \in Range(mem.rules) /\ Pending("rules", r))
      BY <3>1 DEF Undoing
    <3>3. r = Head(left) => r \in T.rules
      BY <2>1, <3>1
    <3> QED BY <3>2, <3>3, PendingKept
  <2>2. CASE ~removeRule
    <3>1. Head(jobs) # "rules" /\ rules' = rules
      <4>1. CASE writeState \/ clearState
        BY <4>1, WriteDoes, ClearDoes DEF ClearAlone
      <4>2. CASE addProxyAllowRule \/ addExceptionRule \/ addBlockRule
        BY <4>2, AddDoes
      <4>3. CASE setDefaultOutbound \/ setSystemProxy \/ restoreDefaultOutbound \/ restoreSystemProxy
        BY <4>3, FlipDoes, PointDoes, DefaultsDoes, SettingsDoes
      <4> QED BY <2>2, <4>1, <4>2, <4>3 DEF Steps
    <3>2. r \in T.rules \/ (r \in Range(mem.rules) /\ Pending("rules", r))
      BY <3>1 DEF Undoing
    <3> QED BY <3>1, <3>2, PendingKept
  <2> QED BY <2>1, <2>2
<1> QED BY <1>1, <1>2, <1>3, <1>4, <1>5

\* An undo goes on to its next job, and still leads to T.
LEMMA UndoingNext ==
  ASSUME Typed, Typed', UndoNext, ~(Len(jobs) = 1 \/ (bad /\ Head(jobs) \in fatal)),
         NEW T \in Snapshot, Undoing(T)
  PROVE  /\ mem'.global => mem'.saved = T.outbound
         /\ mem'.hasProxy => mem'.proxy = T.wininet
         /\ \A p \in Range(blockedProfiles) :
              outbound'[p] = T.outbound[p] \/ (mem'.global /\ Pending("defaults", p)')
         /\ \A v \in Range(WinINET) :
              wininet'[v] = T.wininet[v] \/ (mem'.hasProxy /\ Pending("wininet", v)')
         /\ \A r \in rules' : r \in T.rules \/ (r \in Range(mem'.rules) /\ Pending("rules", r)')
<1>1. mem' = mem /\ UNCHANGED <<outbound, wininet, rules>>
  BY UndoNextDoes
<1> QED BY <1>1, PendingNext DEF Undoing

\* An undo that is done has led to T.
LEMMA UndoingEnds ==
  ASSUME Typed, pc = "undo", left = <<>>, Len(jobs) = 1, NEW T \in Snapshot, Undoing(T)
  PROVE  outbound = T.outbound /\ wininet = T.wininet /\ rules \subseteq T.rules
<1>1. \A j, x : ~Pending(j, x)
  BY PendingNothing
<1>2. /\ outbound \in Outbound /\ wininet \in Settings
      /\ T.outbound \in Outbound /\ T.wininet \in Settings
  BY DEF Typed, ProcessOK, Snapshot
<1>3. /\ \A p \in Range(blockedProfiles) : outbound[p] = T.outbound[p]
      /\ \A v \in Range(WinINET) : wininet[v] = T.wininet[v]
      /\ rules \subseteq T.rules
  BY <1>1 DEF Undoing
<1>4. outbound = T.outbound
  BY <1>2, <1>3 DEF Outbound
<1>5. wininet = T.wininet
  BY <1>2, <1>3 DEF Settings
<1> QED BY <1>3, <1>4, <1>5

\* A step to a process that has not ended by itself.
LEMMA NotEnded == ended' \in {"never", "crashed", "failed"} => RestorePutsBack' /\ RefusedApplyUndone'
BY DEF RestorePutsBack, RefusedApplyUndone

\* The first process has given nothing back yet.
LEMMA InitReturned == Init => Returned
BY DEF Init, Returned, RestorePutsBack, RefusedApplyUndone

\* Apply begins from the machine it finds (enforcer_windows.go:76-106, 217-231).
LEMMA ApplyReturned ==
  ASSUME Typed, Typed', NEW s \in EnforceSpec,
         ApplyNothing(s) \/ ApplyRefused(s) \/ Apply(s) \/ applySystemProxyOnly(s)
  PROVE  Returned'
<1>1. /\ pc = "ready"
      /\ found'.outbound = outbound /\ found'.rules = rules /\ found'.wininet = wininet
      /\ UNCHANGED <<outbound, rules, wininet>>
  BY ApplyLooks
<1>2. CASE ApplyNothing(s)
  <2>1. pc' = "running" /\ mem' = Blank /\ ended' = "never"
    BY <1>2, ApplyNothingDoes
  <2>2. mem'.kind = "none" /\ mem'.global = FALSE /\ mem'.hasProxy = FALSE
    BY <2>1, BlankTyped DEF Typed, Matter
  <2>3. Session'
    BY <1>1, <2>2 DEF Session
  <2> QED BY <1>1, <2>1, <2>3, NotEnded DEF Returned
<1>3. CASE ApplyRefused(s)
  <2>1. pc' = "down" /\ ended' = "refused"
    BY <1>3, ApplyRefusedDoes
  <2> QED BY <1>1, <2>1 DEF Returned, RestorePutsBack, RefusedApplyUndone
<1>4. CASE Apply(s)
  <2>1. /\ pc' = "apply" /\ jobs' = ApplyOrder(s) /\ left' = <<"truncate", "write">>
        /\ mem'.global = s.global /\ mem'.saved = outbound
        /\ mem'.hasProxy = FALSE /\ mem'.rules # <<>> /\ ended' = "never"
    BY <1>4, ApplyDoes
  <2>2. /\ Head(jobs') = "record" /\ "purge" \in Range(jobs') /\ "add" \in Range(jobs')
        /\ "flip" \in Range(jobs') => s.global
        /\ jobs' \notin {PointAndRecord, RecordAlone}
    BY <2>1, OrderFacts
  <2>3. Session'
    BY <1>1, <2>1 DEF Session
  <2>4. Applying'
    BY <1>1, <2>1, <2>2 DEF Applying
  <2> QED BY <2>1, <2>3, <2>4, NotEnded DEF Returned
<1>5. CASE applySystemProxyOnly(s)
  <2>1. /\ pc' = "apply" /\ jobs' = PointAndRecord /\ left' = WinINET /\ mem'.global = FALSE
        /\ mem'.rules = <<>> /\ mem'.hasProxy = TRUE /\ mem'.proxy = wininet /\ ended' = "never"
    BY <1>5, ProxyOnlyDoes
  <2>2. /\ Head(PointAndRecord) = "point" /\ Range(PointAndRecord) = {"point", "record"}
    BY DEF PointAndRecord, Range
  <2>3. Session'
    BY <1>1, <2>1 DEF Session
  <2>4. Applying'
    BY <1>1, <2>1, <2>2 DEF Applying
  <2> QED BY <2>1, <2>3, <2>4, NotEnded DEF Returned
<1> QED BY <1>2, <1>3, <1>4, <1>5

\* A call of Apply leads no further from the machine it found than its record says
\* (enforcer_windows.go:107-183).
LEMMA ApplyStepReturned ==
  ASSUME Typed, Typed', Steps, pc = "apply", Session, Applying
  PROVE  Session' /\ Applying'
<1>1. /\ left # <<>> /\ left' = Tail(left) /\ UNCHANGED <<jobs, mem, found, pc>>
      /\ Range(Tail(left)) \subseteq Range(left)
      /\ \A x \in Range(left) : x = Head(left) \/ x \in Range(Tail(left))
  BY StepFrame, HeadItem
<1>2. jobs \in ApplyJobs
  BY DEF Typed, Plan
<1>3. Head(jobs) # "record" => (Past' <=> Past)
  BY PastKept
<1>4. CASE writeState
  <2>1. Head(jobs) = "record" /\ UNCHANGED <<outbound, rules, wininet>> /\ Past'
    BY <1>4, WriteDoes, PastWritten
  <2>2. Session'
    BY <1>1, <2>1 DEF Session
  <2>3. Applying'
    BY <1>1, <2>1 DEF Applying
  <2> QED BY <2>2, <2>3
<1>5. CASE removeRule
  <2>1. Head(jobs) = "purge" /\ rules' \subseteq rules /\ UNCHANGED <<outbound, wininet>>
    BY <1>5, RemoveDoes
  <2>2. Past /\ "add" \in Range(jobs)
    BY <1>2, <2>1, PastWhen, ApplyJobFacts
  <2>3. Session'
    BY <1>1, <2>1 DEF Session
  <2>4. Applying'
    BY <1>1, <1>3, <2>1, <2>2 DEF Applying
  <2> QED BY <2>3, <2>4
<1>6. CASE addProxyAllowRule \/ addExceptionRule \/ addBlockRule
  <2>1. /\ Head(jobs) = "add" /\ rules' = rules \cup {Head(left)} /\ Head(left) \in Range(mem.rules)
        /\ UNCHANGED <<outbound, wininet>>
    BY <1>6, AddDoes
  <2>2. Past /\ "purge" \notin Range(jobs) /\ "add" \in Range(jobs)
    BY <1>2, <2>1, PastWhen, ApplyJobFacts
  <2>3. Session'
    BY <1>1, <2>1 DEF Session
  <2>4. mem.global => Range(AllowNames) \subseteq rules' \cup Range(left')
    BY <1>1, <2>1 DEF Applying
  <2>5. Applying'
    BY <1>1, <1>3, <2>1, <2>2, <2>4 DEF Applying
  <2> QED BY <2>3, <2>5
<1>7. CASE setDefaultOutbound
  <2>1. Head(jobs) = "flip" /\ UNCHANGED <<rules, wininet>>
    BY <1>7, FlipDoes
  <2>2. Past /\ "add" \notin Range(jobs) /\ "flip" \in Range(jobs)
    BY <1>2, <2>1, PastWhen, ApplyJobFacts
  <2>3. mem.global
    BY <2>2 DEF Applying
  <2>4. Session'
    BY <1>1, <2>1, <2>3 DEF Session
  <2>5. Applying'
    BY <1>1, <1>3, <2>1, <2>2 DEF Applying
  <2> QED BY <2>4, <2>5
<1>8. CASE setSystemProxy
  <2>1. Head(jobs) = "point" /\ left' # WinINET /\ UNCHANGED <<outbound, rules>>
    BY <1>8, PointDoes
  <2>2. mem.hasProxy
    BY <2>1, PastWhen
  <2>3. Session'
    BY <1>1, <2>1, <2>2 DEF Session
  <2>4. Applying'
    BY <1>1, <1>3, <2>1 DEF Applying
  <2> QED BY <2>3, <2>4
<1>9. CASE clearState \/ restoreDefaultOutbound \/ restoreSystemProxy
  BY <1>9, ClearDoes, DefaultsDoes, SettingsDoes
<1> QED BY <1>4, <1>5, <1>6, <1>7, <1>8, <1>9 DEF Steps

\* A call of a job.
LEMMA StepsReturned == ASSUME Typed, Typed', Returned, Steps PROVE Returned'
<1>1. /\ pc \in {"apply", "undo"} /\ UNCHANGED <<pc, fatal, then, ended, found, mem>>
      /\ fails' \in Nat /\ fails' >= fails /\ ended = "never"
  BY StepFrame DEF Typed, Plan
<1>2. RestorePutsBack' /\ RefusedApplyUndone'
  BY <1>1, NotEnded
<1>3. CASE pc = "apply"
  BY <1>1, <1>2, <1>3, ApplyStepReturned DEF Returned
<1>4. CASE pc = "undo"
  <2> SUFFICES ASSUME then = "down",
                      IF fatal = {} THEN fails' <= 1 /\ "halfFlip" \notin mishaps' ELSE fails' = 0
               PROVE  Undoing(found)'
    BY <1>1, <1>2, <1>4 DEF Returned
  <2>1. fails \in Nat /\ (fatal = {} => fails >= 1)
    BY <1>4, Counts DEF Typed, Plan
  <2>2. fails' = fails
    <3>1. fails' \in Nat /\ fails' >= fails
      BY <1>1
    <3>2. CASE fatal = {}
      <4>1. fails' <= 1 /\ fails >= 1
        BY <2>1, <3>2
      <4> QED BY <2>1, <3>1, <4>1
    <3>3. CASE fatal # {}
      <4>1. fails' = 0
        BY <3>3
      <4> QED BY <2>1, <3>1, <4>1
    <3> QED BY <3>2, <3>3
  <2>3. "halfFlip" \in mishaps => "halfFlip" \in mishaps'
    <3>1. CASE writeState \/ clearState \/ removeRule
      BY <3>1, WriteDoes, ClearDoes, RemoveDoes
    <3>2. CASE addProxyAllowRule \/ addExceptionRule \/ addBlockRule
      BY <3>2, AddDoes
    <3>3. CASE setDefaultOutbound \/ setSystemProxy \/ restoreDefaultOutbound \/ restoreSystemProxy
      BY <3>3, FlipDoes, PointDoes, DefaultsDoes, SettingsDoes
    <3> QED BY <3>1, <3>2, <3>3 DEF Steps
  <2>4. IF fatal = {} THEN fails <= 1 /\ "halfFlip" \notin mishaps ELSE fails = 0
    BY <2>2, <2>3
  <2>5. Undoing(found) /\ found \in Snapshot
    BY <1>4, <2>4 DEF Returned, Typed, Matter
  <2>6. ~Skipped
    BY DEF Skipped
  <2>7. /\ mem'.global => mem'.saved = found.outbound
        /\ mem'.hasProxy => mem'.proxy = found.wininet
        /\ \A p \in Range(blockedProfiles) :
              outbound'[p] = found.outbound[p] \/ (mem'.global /\ Pending("defaults", p)')
        /\ \A v \in Range(WinINET) :
              wininet'[v] = found.wininet[v] \/ (mem'.hasProxy /\ Pending("wininet", v)')
        /\ \A r \in rules' : r \in found.rules \/ (r \in Range(mem'.rules) /\ Pending("rules", r)')
    BY <1>4, <2>2, <2>5, <2>6, UndoingStep
  <2> QED BY <1>1, <2>7 DEF Undoing
<1> QED BY <1>1, <1>3, <1>4

\* A call of Apply fails: what it did, if anything, is undone (enforcer_windows.go:107-230).
LEMMA ApplyFailsReturned == ASSUME Typed, Typed', Returned, ApplyFails PROVE Returned'
<1>1. /\ pc = "apply" /\ left # <<>> /\ mem' = mem /\ fails \in Nat /\ fails' = fails + 1
      /\ Head(jobs) = "flip" /\ outbound # found.outbound => "halfFlip" \in mishaps'
      /\ UNCHANGED <<outbound, rules, wininet, file, elevated, original, found>>
      /\ Unwind(Head(jobs)) = <<>> => pc' = "down" /\ ended' = "refused"
      /\ Unwind(Head(jobs)) # <<>> =>
           /\ pc' = "undo" /\ jobs' = Unwind(Head(jobs)) /\ jobs' \in UndoJobs
           /\ left' = Items(Head(jobs'), mem') /\ fatal' = {} /\ bad' = FALSE /\ then' = "down"
           /\ ended' = "never"
  BY ApplyFailsDoes
<1>2. Session /\ Applying
  BY <1>1 DEF Returned
<1>3. jobs \in ApplyJobs /\ mem \in enforcementState /\ Recordable(mem) /\ found \in Snapshot
  BY <1>1 DEF Typed, Plan, Matter, ProcessOK
<1>4. ~Firewalled => outbound = found.outbound /\ rules \subseteq found.rules
  BY <1>2, <1>3, NoRules, EmptyFacts DEF Firewalled, Session
<1>5. "purge" \in Range(jobs) => outbound = found.outbound /\ rules \subseteq found.rules
  BY <1>2, <1>3, ApplyJobFacts DEF Applying
<1>6. "add" \in Range(jobs) => outbound = found.outbound
  BY <1>2 DEF Applying
<1>7. ~mem.hasProxy => wininet = found.wininet
  BY <1>2 DEF Session
<1>8. Head(jobs) \in Range(jobs) /\ Head(jobs) \in {"record", "purge", "add", "flip", "point"}
  BY <1>3, ApplyJobFacts
<1>9. CASE Unwind(Head(jobs)) = <<>>
  <2>1. outbound = found.outbound /\ wininet = found.wininet /\ rules \subseteq found.rules
    <3>1. CASE Head(jobs) = "record" /\ ~mem.hasProxy
      <4>1. jobs # RecordAlone
        BY <1>2, <3>1 DEF Applying
      <4>2. "purge" \in Range(jobs)
        BY <1>3, <3>1, <4>1, ApplyJobFacts
      <4> QED BY <1>5, <1>7, <3>1, <4>2
    <3>2. CASE Head(jobs) = "point"
      <4>1. /\ <<"wininet", "defaults", "rules", "clear">> # <<>>
            /\ <<"defaults", "rules", "clear">> # <<>> /\ ProxyAlone # <<>>
        BY DEF ProxyAlone
      <4>2. ~Firewalled /\ left = WinINET
        BY <1>1, <1>9, <3>2, <4>1, UnwindFacts
      <4> QED BY <1>2, <1>4, <3>2, <4>2 DEF Applying
    <3>3. CASE Head(jobs) \in {"purge", "add", "flip"} \/ (Head(jobs) = "record" /\ mem.hasProxy)
      <4>1. /\ <<"wininet", "defaults", "rules", "clear">> # <<>>
            /\ <<"rules", "clear">> # <<>> /\ ProxyAlone # <<>> /\ ClearAlone # <<>>
        BY DEF ProxyAlone, ClearAlone
      <4> QED BY <1>1, <1>9, <3>3, <4>1, UnwindFacts
    <3> QED BY <1>8, <3>1, <3>2, <3>3
  <2> QED BY <1>1, <1>9, <2>1 DEF Returned, RestorePutsBack, RefusedApplyUndone
<1>10. CASE Unwind(Head(jobs)) # <<>>
  <2> SUFFICES ASSUME "halfFlip" \notin mishaps' PROVE Undoing(found)'
    BY <1>1, <1>10, NotEnded DEF Returned
  <2>1. pc' = "undo" /\ jobs' = Unwind(Head(jobs)) /\ left' = Items(Head(jobs'), mem')
    BY <1>1, <1>10
  <2>2. (mem.global => mem.saved = found.outbound) /\ (mem.hasProxy => mem.proxy = found.wininet)
    BY <1>2 DEF Session
  <2>3. /\ outbound = found.outbound \/ (mem.global /\ "defaults" \in Range(jobs'))
        /\ wininet = found.wininet \/ (mem.hasProxy /\ "wininet" \in Range(jobs'))
        /\ rules \subseteq found.rules
             \/ (rules \subseteq found.rules \cup Range(mem.rules) /\ "rules" \in Range(jobs'))
    <3>1. CASE Head(jobs) = "purge"
      <4>1. ~mem.hasProxy
        BY <1>1, <1>2, <3>1, PastWhen
      <4> QED BY <1>5, <1>7, <1>8, <3>1, <4>1
    <3>2. CASE Head(jobs) \in {"add", "flip"}
      <4>1. ~mem.hasProxy
        BY <1>1, <1>2, <3>2, PastWhen
      <4>2. outbound = found.outbound
        BY <1>1, <1>6, <1>8, <3>2
      <4>3. jobs' = <<"rules", "clear">> /\ "rules" \in Range(<<"rules", "clear">>)
        BY <1>1, <2>1, <3>2, UnwindFacts DEF Range
      <4> QED BY <1>2, <1>7, <4>1, <4>2, <4>3 DEF Session
    <3>3. CASE Head(jobs) = "record" /\ ~mem.hasProxy
      BY <1>1, <1>10, <3>3, UnwindFacts
    <3>4. CASE (Head(jobs) = "point" \/ (Head(jobs) = "record" /\ mem.hasProxy)) /\ Firewalled
      <4>1. /\ Range(<<"wininet", "defaults", "rules", "clear">>) = {"wininet", "defaults", "rules", "clear"}
            /\ Range(<<"defaults", "rules", "clear">>) = {"defaults", "rules", "clear"}
        BY DEF Range
      <4>2. \/ jobs' = <<"wininet", "defaults", "rules", "clear">>
            \/ jobs' = <<"defaults", "rules", "clear">> /\ left = WinINET /\ Head(jobs) = "point"
        BY <1>1, <2>1, <3>4, UnwindFacts
      <4>3. {"defaults", "rules"} \subseteq Range(jobs') /\ ("wininet" \in Range(jobs') \/ wininet = found.wininet)
        BY <1>2, <4>1, <4>2 DEF Applying
      <4> QED BY <1>2, <1>7, <4>3 DEF Session
    <3>5. CASE (Head(jobs) = "point" \/ (Head(jobs) = "record" /\ mem.hasProxy)) /\ ~Firewalled
      <4>1. ProxyAlone # <<>> /\ "wininet" \in Range(ProxyAlone)
        BY DEF ProxyAlone, Range
      <4>2. jobs' = ProxyAlone
        BY <1>1, <1>10, <2>1, <3>5, UnwindFacts
      <4> QED BY <1>4, <1>7, <3>5, <4>1, <4>2
    <3> QED BY <1>8, <3>1, <3>2, <3>3, <3>4, <3>5
  <2>4. /\ mem'.global => mem'.saved = found.outbound
        /\ mem'.hasProxy => mem'.proxy = found.wininet
        /\ outbound' = found.outbound \/ (mem'.global /\ "defaults" \in Range(jobs'))
        /\ wininet' = found.wininet \/ (mem'.hasProxy /\ "wininet" \in Range(jobs'))
        /\ rules' \subseteq found.rules
             \/ (rules' \subseteq found.rules \cup Range(mem'.rules) /\ "rules" \in Range(jobs'))
    BY <1>1, <2>2, <2>3
  <2>5. /\ mem'.global => mem'.saved = found.outbound
        /\ mem'.hasProxy => mem'.proxy = found.wininet
        /\ \A p \in Range(blockedProfiles) :
              outbound'[p] = found.outbound[p] \/ (mem'.global /\ Pending("defaults", p)')
        /\ \A v \in Range(WinINET) :
              wininet'[v] = found.wininet[v] \/ (mem'.hasProxy /\ Pending("wininet", v)')
        /\ \A r \in rules' : r \in found.rules \/ (r \in Range(mem'.rules) /\ Pending("rules", r)')
    BY <1>3, <2>1, <2>4, UndoingBegins
  <2>6. found' = found
    BY <1>1
  <2> QED BY <2>5, <2>6 DEF Undoing
<1> QED BY <1>9, <1>10

\* Apply goes on, or its session runs.
LEMMA ApplyNextReturned == ASSUME Typed, Typed', Returned, ApplyNext PROVE Returned'
<1>1. /\ pc = "apply" /\ left = <<>> /\ jobs \in ApplyJobs /\ ended' = "never"
      /\ UNCHANGED <<outbound, rules, wininet, found>>
      /\ Len(jobs) = 1 => pc' = "running" /\ mem' = mem
      /\ Len(jobs) # 1 =>
           /\ pc' = "apply" /\ jobs' = Tail(jobs) /\ left' = Items(Head(jobs'), mem')
           /\ mem'.rules = mem.rules /\ mem'.global = mem.global /\ mem'.saved = mem.saved
           /\ Head(jobs') = "point" => mem'.hasProxy = TRUE /\ mem'.proxy = wininet
           /\ Head(jobs') # "point" => mem' = mem
  BY ApplyNextDoes
<1>2. Session /\ Applying /\ mem.kind = "state" /\ mem \in enforcementState
  BY <1>1 DEF Returned, Typed, Plan, ProcessOK
<1>3. RestorePutsBack' /\ RefusedApplyUndone'
  BY <1>1, NotEnded
<1>4. CASE Len(jobs) = 1
  <2>1. Session'
    BY <1>1, <1>2, <1>4 DEF Session
  <2> QED BY <1>1, <1>2, <1>3, <1>4, <2>1 DEF Returned
<1>5. CASE Len(jobs) # 1
  <2> DEFINE g == Head(Tail(jobs))
  <2>1. g = Head(jobs')
    BY <1>1, <1>5
  <2>2. /\ Tail(jobs) \in ApplyJobs /\ Range(Tail(jobs)) \subseteq Range(jobs)
        /\ Head(jobs) # "add" => ("add" \in Range(Tail(jobs)) <=> "add" \in Range(jobs))
        /\ Tail(jobs) \in {PointAndRecord, RecordAlone} <=> (g = "point" \/ jobs = PointAndRecord)
        /\ g = "record" <=> jobs = PointAndRecord
        /\ g = "add" => Head(jobs) = "purge"
        /\ jobs # RecordAlone
    BY <1>1, <1>5, ApplyJobFacts DEF RecordAlone
  <2> HIDE DEF g
  <2>3. g = "point" => ~mem.hasProxy /\ wininet = found.wininet
    BY <1>2, <2>2 DEF Applying, Session
  <2>4. Session'
    BY <1>1, <1>2, <1>5, <2>1, <2>3 DEF Session
  <2>5. mem'.hasProxy <=> jobs' \in {PointAndRecord, RecordAlone}
    <3>1. CASE g = "point"
      BY <1>1, <1>5, <2>1, <2>2, <3>1
    <3>2. CASE g # "point"
      BY <1>1, <1>2, <1>5, <2>1, <2>2, <3>2 DEF Applying
    <3> QED BY <3>1, <3>2
  <2>6. mem'.rules = <<>> => mem'.hasProxy
    BY <1>1, <1>2, <1>5, <2>1 DEF Applying
  <2>7. ~Past' => rules' = found'.rules
    BY <1>1, <1>2, <1>5, PastNext DEF Applying
  <2>8. Head(jobs') = "point" /\ left' = WinINET => wininet' = found'.wininet
    BY <1>1, <2>1, <2>3
  <2>9. mem'.global /\ Head(jobs') = "add" => Range(AllowNames) \subseteq rules' \cup Range(left')
    <3>1. Head(jobs') = "add" => left' = addOrder(mem) /\ mem' = mem
      BY <1>1, <1>5, ItemsAre
    <3> QED BY <1>2, <3>1, AddOrderFacts
  <2>10. mem'.global /\ "add" \notin Range(jobs') => Range(AllowNames) \subseteq rules'
    <3>1. CASE Head(jobs) = "add"
      BY <1>1, <1>2, <1>5, <3>1, EmptyFacts DEF Applying
    <3>2. CASE Head(jobs) # "add"
      BY <1>1, <1>2, <1>5, <2>2, <3>2 DEF Applying
    <3> QED BY <3>1, <3>2
  <2>11. /\ "flip" \in Range(jobs') => mem'.global
         /\ "add" \in Range(jobs') => outbound' = found'.outbound
         /\ "purge" \in Range(jobs') => rules' \subseteq found'.rules
    BY <1>1, <1>2, <1>5, <2>2 DEF Applying
  <2>12. Applying'
    BY <2>5, <2>6, <2>7, <2>8, <2>9, <2>10, <2>11 DEF Applying
  <2> QED BY <1>1, <1>3, <1>5, <2>4, <2>12 DEF Returned
<1> QED BY <1>4, <1>5

\* An undo goes on, or has given back what Apply found (enforcer_windows.go:138-215).
LEMMA UndoNextReturned == ASSUME Typed, Typed', Files, Returned, UndoNext PROVE Returned'
<1>1. /\ pc = "undo" /\ left = <<>> /\ jobs \in UndoJobs
      /\ UNCHANGED <<outbound, rules, wininet, file, elevated, original, found, fails, mishaps>>
      /\ Len(jobs) = 1 \/ (bad /\ Head(jobs) \in fatal) =>
           /\ pc' = then
           /\ then = "ready" => ended' = "never"
           /\ then = "down" => ended' = IF fatal = {} THEN "refused" ELSE IF bad THEN "failed" ELSE "restored"
      /\ ~(Len(jobs) = 1 \/ (bad /\ Head(jobs) \in fatal)) =>
           /\ pc' = "undo" /\ fatal' = fatal /\ then' = then /\ ended' = "never"
  BY UndoNextDoes
<1>2. /\ fails \in Nat /\ (bad => fails >= 1) /\ then \in {"ready", "down"} /\ found \in Snapshot
      /\ jobs = ProxyAlone => fatal = {}
  BY <1>1, Counts DEF Typed, Plan, ProcessOK, Matter
<1>3. CASE Len(jobs) = 1 \/ (bad /\ Head(jobs) \in fatal)
  <2>1. CASE then = "ready"
    BY <1>1, <1>3, <2>1, NotEnded DEF Returned
  <2>2. CASE then = "down" /\ fatal = {}
    <3>1. pc' = "down" /\ ended' = "refused" /\ Len(jobs) = 1
      BY <1>1, <1>3, <2>2
    <3>2. ASSUME fails <= 1, "halfFlip" \notin mishaps
          PROVE  outbound = found.outbound /\ wininet = found.wininet /\ rules \subseteq found.rules
      <4>1. Undoing(found)
        BY <1>1, <2>2, <3>2 DEF Returned
      <4> QED BY <1>1, <1>2, <3>1, <4>1, UndoingEnds
    <3>3. RefusedApplyUndone'
      BY <1>1, <3>2 DEF RefusedApplyUndone
    <3>4. RestorePutsBack'
      BY <3>1 DEF RestorePutsBack
    <3> QED BY <3>1, <3>3, <3>4 DEF Returned
  <2>3. CASE then = "down" /\ fatal # {}
    <3>1. pc' = "down" /\ ended' = IF bad THEN "failed" ELSE "restored"
      BY <1>1, <1>3, <2>3
    <3>2. ASSUME fails = 0
          PROVE  /\ outbound = found.outbound /\ wininet = found.wininet /\ rules \subseteq found.rules
                 /\ file.kind = "none"
      <4>1. Undoing(found)
        BY <1>1, <2>3, <3>2 DEF Returned
      <4>2. Len(jobs) = 1
        BY <1>2, <1>3, <3>2
      <4>3. jobs = ClearAlone
        BY <1>1, <1>2, <2>3, <4>2, UndoJobFacts
      <4>4. ~(fails > 0)
        BY <3>2
      <4>5. file.kind = "none"
        BY <1>1, <2>3, <4>3, <4>4 DEF Files
      <4> QED BY <1>1, <1>2, <4>1, <4>2, <4>5, UndoingEnds
    <3>3. RestorePutsBack'
      BY <1>1, <3>2 DEF RestorePutsBack
    <3>4. RefusedApplyUndone'
      BY <3>1 DEF RefusedApplyUndone
    <3> QED BY <3>1, <3>3, <3>4 DEF Returned
  <2> QED BY <1>2, <2>1, <2>2, <2>3
<1>4. CASE ~(Len(jobs) = 1 \/ (bad /\ Head(jobs) \in fatal))
  <2> SUFFICES ASSUME then = "down",
                      IF fatal = {} THEN fails <= 1 /\ "halfFlip" \notin mishaps ELSE fails = 0
               PROVE  Undoing(found)'
    BY <1>1, <1>4, NotEnded DEF Returned
  <2>1. Undoing(found)
    BY <1>1 DEF Returned
  <2>2. /\ mem'.global => mem'.saved = found.outbound
        /\ mem'.hasProxy => mem'.proxy = found.wininet
        /\ \A p \in Range(blockedProfiles) :
              outbound'[p] = found.outbound[p] \/ (mem'.global /\ Pending("defaults", p)')
        /\ \A v \in Range(WinINET) :
              wininet'[v] = found.wininet[v] \/ (mem'.hasProxy /\ Pending("wininet", v)')
        /\ \A r \in rules' : r \in found.rules \/ (r \in Range(mem'.rules) /\ Pending("rules", r)')
    BY <1>2, <1>4, <2>1, UndoingNext
  <2>3. found' = found
    BY <1>1
  <2> QED BY <2>2, <2>3 DEF Undoing
<1> QED BY <1>3, <1>4

\* The end of a session: what it changed is recorded, and now undone (enforcer_windows.go:189-213).
LEMMA RestoreReturned == ASSUME Typed, Typed', Files, Returned, restore PROVE Returned'
<1>1. /\ pc \in {"running", "suspended"} /\ mem' = mem /\ mem.kind \in {"none", "state"}
      /\ UNCHANGED <<outbound, rules, wininet, file, elevated, original, found, fails, mishaps>>
      /\ mem.kind = "none" => pc' = "down" /\ ended' = "restored"
      /\ mem.kind = "state" =>
           /\ pc' = "undo" /\ jobs' \in UndoJobs /\ jobs' # ClearAlone /\ "wininet" \in Range(jobs')
           /\ Firewalled => "defaults" \in Range(jobs') /\ "rules" \in Range(jobs')
           /\ left' = Items(Head(jobs'), mem') /\ fatal' # {} /\ bad' = FALSE /\ then' = "down"
           /\ ended' = "never"
  BY RestoreDoes
<1>2. Session /\ (mem.kind # "state" => rules \subseteq found.rules)
  BY <1>1 DEF Returned
<1>3. mem \in enforcementState /\ Recordable(mem) /\ found \in Snapshot
  BY DEF Typed, Matter, ProcessOK
<1>4. CASE mem.kind = "none"
  <2>1. outbound = found.outbound /\ wininet = found.wininet /\ rules \subseteq found.rules
    BY <1>2, <1>3, <1>4 DEF Session, Recordable
  <2>2. elevated /\ fails = 0 => file.kind # "state"
    BY <1>1, <1>4 DEF Files
  <2> QED BY <1>1, <1>4, <2>1, <2>2 DEF Returned, RestorePutsBack, RefusedApplyUndone
<1>5. CASE mem.kind = "state"
  <2>1. ~Firewalled => outbound = found.outbound /\ rules \subseteq found.rules
    BY <1>2, <1>3, NoRules, EmptyFacts DEF Firewalled, Session
  <2>2. /\ mem.global => mem.saved = found.outbound
        /\ mem.hasProxy => mem.proxy = found.wininet
        /\ outbound = found.outbound \/ (mem.global /\ "defaults" \in Range(jobs'))
        /\ wininet = found.wininet \/ (mem.hasProxy /\ "wininet" \in Range(jobs'))
        /\ rules \subseteq found.rules
             \/ (rules \subseteq found.rules \cup Range(mem.rules) /\ "rules" \in Range(jobs'))
    BY <1>1, <1>2, <1>5, <2>1 DEF Session
  <2>3. pc' = "undo" /\ left' = Items(Head(jobs'), mem') /\ found' = found
    BY <1>1, <1>5
  <2>4. /\ mem'.global => mem'.saved = found.outbound
        /\ mem'.hasProxy => mem'.proxy = found.wininet
        /\ outbound' = found.outbound \/ (mem'.global /\ "defaults" \in Range(jobs'))
        /\ wininet' = found.wininet \/ (mem'.hasProxy /\ "wininet" \in Range(jobs'))
        /\ rules' \subseteq found.rules
             \/ (rules' \subseteq found.rules \cup Range(mem'.rules) /\ "rules" \in Range(jobs'))
    BY <1>1, <2>2
  <2>5. /\ mem'.global => mem'.saved = found.outbound
        /\ mem'.hasProxy => mem'.proxy = found.wininet
        /\ \A p \in Range(blockedProfiles) :
              outbound'[p] = found.outbound[p] \/ (mem'.global /\ Pending("defaults", p)')
        /\ \A v \in Range(WinINET) :
              wininet'[v] = found.wininet[v] \/ (mem'.hasProxy /\ Pending("wininet", v)')
        /\ \A r \in rules' : r \in found.rules \/ (r \in Range(mem'.rules) /\ Pending("rules", r)')
    BY <1>3, <2>3, <2>4, UndoingBegins
  <2>6. Undoing(found)'
    BY <2>3, <2>5 DEF Undoing
  <2> QED BY <1>1, <1>5, <2>6, NotEnded DEF Returned
<1> QED BY <1>1, <1>4, <1>5

\* Every step leaves a way back to the machine that Apply found.
LEMMA NextReturned == ASSUME Typed, Typed', Files, Returned, Step PROVE Returned'
<1>1. CASE (\E e \in BOOLEAN : Start(e)) \/ RecoverNothing
  <2>1. pc' \in {"recover", "ready"} /\ ended' = "never"
    BY <1>1, QuietDoes
  <2> QED BY <2>1, NotEnded DEF Returned
<1>2. CASE RecoverProxyOnly \/ Recover
  <2>1. pc' = "undo" /\ then' = "ready" /\ ended' = "never"
    BY <1>2, RecoverDoes
  <2> QED BY <2>1, NotEnded DEF Returned
<1>3. CASE \E s \in EnforceSpec :
             ApplyNothing(s) \/ ApplyRefused(s) \/ Apply(s) \/ applySystemProxyOnly(s)
  BY <1>3, ApplyReturned
<1>4. CASE Steps
  BY <1>4, StepsReturned
<1>5. CASE ApplyFails
  BY <1>5, ApplyFailsReturned
<1>6. CASE UndoFails
  <2>1. /\ pc = "undo" /\ fails \in Nat /\ fails' = fails + 1 /\ UNCHANGED <<pc, fatal, then, ended>>
    BY <1>6, UndoFailsDoes
  <2>2. ended' = "never" /\ (fatal = {} => fails >= 1)
    BY <2>1 DEF Typed, Plan
  <2>3. ~(IF fatal' = {} THEN fails' <= 1 /\ "halfFlip" \notin mishaps' ELSE fails' = 0)
    <3>1. fails' # 0 /\ (fatal = {} => ~(fails' <= 1))
      BY <2>1, <2>2
    <3> QED BY <2>1, <3>1
  <2> QED BY <2>1, <2>2, <2>3, NotEnded DEF Returned
<1>7. CASE ApplyNext
  BY <1>7, ApplyNextReturned
<1>8. CASE UndoNext
  BY <1>8, UndoNextReturned
<1>9. CASE Suspend
  <2>1. /\ pc = "running" /\ pc' = "suspended" /\ ended' = "never"
        /\ UNCHANGED <<outbound, rules, wininet, found, mem>>
    BY <1>9, SuspendDoes
  <2>2. Session' /\ (mem'.kind # "state" => rules' \subseteq found'.rules)
    BY <2>1 DEF Returned, Session
  <2> QED BY <2>1, <2>2, NotEnded DEF Returned
<1>10. CASE restore
  BY <1>10, RestoreReturned
<1>11. CASE Crash
  <2>1. pc' = "down" /\ ended' = "crashed"
    BY <1>11, CrashDoes
  <2> QED BY <2>1, NotEnded DEF Returned
<1>12. CASE UNCHANGED vars
  <2>1. UNCHANGED <<outbound, rules, wininet, file, pc, elevated, mem, jobs, left, fatal, then>>
    BY <1>12 DEF vars, machine, work
  <2>2. UNCHANGED <<found, ended, fails, mishaps>>
    BY <1>12 DEF vars, history
  <2> QED BY <2>1, <2>2 DEF Returned, Session, Applying, Past, Firewalled, Undoing, Pending,
                           RestorePutsBack, RefusedApplyUndone
<1> QED BY <1>1, <1>2, <1>3, <1>4, <1>5, <1>6, <1>7, <1>8, <1>9, <1>10, <1>11, <1>12 DEF Step, Work, Lifetime

-----------------------------------------------------------------------------
(* A blocked machine can be unblocked.                                      *)

\* What has gone wrong stays so, and the user's machine is what it was.
LEMMA Onwards ==
  ASSUME Typed, Step
  PROVE  /\ mishaps \subseteq mishaps' /\ original' = original
         /\ fails \in Nat /\ fails' \in Nat /\ fails' >= fails
<1>1. fails \in Nat
  BY Counts DEF Typed
<1>2. CASE (\E e \in BOOLEAN : Start(e)) \/ RecoverNothing
  BY <1>1, <1>2, QuietDoes
<1>3. CASE RecoverProxyOnly \/ Recover
  <2>1. UNCHANGED <<original, fails, mishaps>>
    BY <1>3, RecoverDoes
  <2> QED BY <1>1, <2>1
<1>4. CASE \E s \in EnforceSpec :
             ApplyNothing(s) \/ ApplyRefused(s) \/ Apply(s) \/ applySystemProxyOnly(s)
  BY <1>4, ApplyLooks
<1>5. CASE Steps
  <2>1. original' = original /\ fails' \in Nat /\ fails' >= fails
    BY <1>5, StepFrame
  <2>2. mishaps \subseteq mishaps'
    <3>1. CASE writeState \/ clearState \/ removeRule
      BY <3>1, WriteDoes, ClearDoes, RemoveDoes
    <3>2. CASE addProxyAllowRule \/ addExceptionRule \/ addBlockRule
      BY <3>2, AddDoes
    <3>3. CASE setDefaultOutbound \/ setSystemProxy \/ restoreDefaultOutbound \/ restoreSystemProxy
      BY <3>3, FlipDoes, PointDoes, DefaultsDoes, SettingsDoes
    <3> QED BY <1>5, <3>1, <3>2, <3>3 DEF Steps
  <2> QED BY <1>1, <2>1, <2>2
<1>6. CASE ApplyFails
  BY <1>1, <1>6, ApplyFailsDoes
<1>7. CASE UndoFails
  BY <1>1, <1>7, UndoFailsDoes
<1>8. CASE ApplyNext \/ UndoNext \/ restore
  <2>1. CASE ApplyNext
    <3>1. UNCHANGED <<original, fails, mishaps>>
      BY <2>1, ApplyNextDoes
    <3> QED BY <1>1, <3>1
  <2>2. CASE UndoNext
    <3>1. UNCHANGED <<original, fails, mishaps>>
      BY <2>2, UndoNextDoes
    <3> QED BY <1>1, <3>1
  <2>3. CASE restore
    <3>1. UNCHANGED <<original, fails, mishaps>>
      BY <2>3, RestoreDoes
    <3> QED BY <1>1, <3>1
  <2> QED BY <1>8, <2>1, <2>2, <2>3
<1>9. CASE Suspend \/ Crash
  BY <1>1, <1>9, SuspendDoes, CrashDoes
<1>10. CASE UNCHANGED vars
  BY <1>1, <1>10 DEF vars, history
<1> QED BY <1>2, <1>3, <1>4, <1>5, <1>6, <1>7, <1>8, <1>9, <1>10 DEF Step, Work, Lifetime

\* A machine that is not harmed was not.
LEMMA UnharmedBefore == ASSUME Typed, Step, Unharmed' PROVE Unharmed
<1>1. /\ mishaps \subseteq mishaps' /\ fails \in Nat /\ fails' \in Nat /\ fails' >= fails
  BY Onwards
<1>2. fails' <= 1 /\ mishaps' \cap {"torn", "overwrote", "halfFlip"} = {}
  BY DEF Unharmed
<1>3. fails <= 1
  BY <1>1, <1>2
<1> QED BY <1>1, <1>2, <1>3 DEF Unharmed

\* A record of a global block names its exceptions, so there is firewall work to undo.
LEMMA BlockHasRules ==
  ASSUME NEW m \in enforcementState, Recordable(m), m.global
  PROVE  m.rules # <<>>
BY NoRules

\* Apply empties the file only when nothing is blocked by another, or to write its record again
\* (enforcer_windows.go:107-109, 171-181; state_windows.go:68-90).
LEMMA WriteUnblockable ==
  ASSUME Typed, Typed', Files, Returned, Unblockable, Unharmed', writeState
  PROVE  Unblockable'
<1>1. /\ pc = "apply" /\ Head(jobs) = "record" /\ UNCHANGED <<outbound, rules, wininet, fails>>
      /\ \/ /\ left = <<"truncate", "write">> /\ left' = <<"write">>
            /\ file'.kind = "corrupt" /\ file'.global = FALSE /\ file'.hasProxy = FALSE
            /\ file.kind = "state" /\ ~Rerecord => "overwrote" \in mishaps'
         \/ left = <<"write">> /\ left' = <<>> /\ file' = mem
  BY WriteDoes
<1>2. UNCHANGED <<pc, jobs, mem, original, found>>
  BY StepFrame DEF Steps
<1>3. /\ Past' /\ (left = <<"write">> => Past /\ Filling /\ ~Filling')
      /\ left = <<"truncate", "write">> => Filling' /\ ~Filling /\ (Past <=> Rerecord)
      /\ (Rerecord' <=> Rerecord)
  BY PastWritten
<1>4. Session /\ Applying /\ mem \in enforcementState /\ Recordable(mem) /\ jobs \in ApplyJobs
      /\ mem.kind = "state"
  BY <1>1 DEF Returned, Typed, Plan, Matter, ProcessOK
<1>5. CASE left = <<"truncate", "write">>
  <2>1. /\ file'.global = FALSE /\ Filling' /\ ~Filling /\ (Past <=> Rerecord)
        /\ file.kind = "state" /\ ~Rerecord => "overwrote" \in mishaps'
    BY <1>1, <1>3, <1>5
  <2>2. "overwrote" \notin mishaps'
    BY DEF Unharmed
  <2>3. ~Rerecord => ~Blocked
    BY <2>1, <2>2 DEF Unblockable, Unblocks
  <2>4. ~Rerecord => outbound = found.outbound
    <3>1. CASE ~mem.hasProxy
      <4>1. jobs # RecordAlone
        BY <1>4, <3>1 DEF Applying
      <4>2. "add" \in Range(jobs)
        BY <1>1, <1>4, <4>1, ApplyJobFacts
      <4> QED BY <1>4, <4>2 DEF Applying
    <3>2. CASE ~Firewalled
      BY <1>4, <3>2, NoRules DEF Firewalled, Session
    <3> QED BY <3>1, <3>2 DEF Rerecord
  <2>5. found.outbound = original.outbound
    BY <1>1, <2>1, <2>3, <2>4 DEF Unblockable, Blocked
  <2>6. Blocked' <=> Blocked
    BY <1>1, <1>2 DEF Blocked
  <2>7. Blocked' => Range(AllowNames) \subseteq rules'
    BY <1>1, <2>6 DEF Unblockable
  <2> QED BY <1>1, <1>2, <1>3, <2>1, <2>3, <2>5, <2>6, <2>7 DEF Unblockable
<1>6. CASE left = <<"write">>
  <2>1. file' = mem /\ Past
    BY <1>1, <1>3, <1>6, PastWritten
  <2>2. found.outbound = original.outbound
    BY <1>1, <2>1 DEF Unblockable
  <2>3. Blocked' <=> Blocked
    BY <1>1, <1>2 DEF Blocked
  <2>4. mem.global => mem.saved = original.outbound
    BY <1>4, <2>2 DEF Session
  <2>5. Blocked => mem.global
    BY <1>4, <2>2 DEF Session, Blocked
  <2>6. Blocked' => Unblocks(file)'
    BY <1>2, <1>4, <2>1, <2>3, <2>4, <2>5 DEF Unblocks
  <2>7. Blocked' => Range(AllowNames) \subseteq rules'
    BY <1>1, <2>3 DEF Unblockable
  <2> QED BY <1>1, <1>2, <2>1, <2>2, <2>4, <2>6, <2>7 DEF Unblockable
<1> QED BY <1>1, <1>5, <1>6

\* The other calls of Apply: exceptions first, the flip last (enforcer_windows.go:111-158).
LEMMA ApplyUnblockable ==
  ASSUME Typed, Typed', Files, Returned, Unblockable, Unharmed', pc = "apply", Steps, ~writeState
  PROVE  Unblockable'
<1>1. UNCHANGED <<pc, jobs, mem, original, found>>
  BY StepFrame
<1>2. Session /\ Applying /\ jobs \in ApplyJobs
  BY DEF Returned, Typed, Plan
<1>3. CASE removeRule
  <2>1. Head(jobs) = "purge" /\ UNCHANGED <<outbound, wininet, file>>
    BY <1>3, RemoveDoes
  <2>2. Past /\ "add" \in Range(jobs) /\ ~Filling' /\ ~Filling
    BY <1>2, <2>1, PastWhen, ApplyJobFacts, PastKept
  <2>3. found.outbound = original.outbound /\ outbound = found.outbound
    BY <1>2, <2>2 DEF Unblockable, Applying
  <2>4. ~Blocked'
    BY <1>1, <2>1, <2>3 DEF Blocked
  <2> QED BY <1>1, <2>1, <2>3, <2>4 DEF Unblockable
<1>4. CASE addProxyAllowRule \/ addExceptionRule \/ addBlockRule
  <2>1. Head(jobs) = "add" /\ rules \subseteq rules' /\ UNCHANGED <<outbound, wininet, file>>
    BY <1>4, AddDoes
  <2>2. (Past' <=> Past) /\ ~Filling' /\ ~Filling
    BY <2>1, PastKept
  <2>3. Blocked' <=> Blocked
    BY <1>1, <2>1 DEF Blocked
  <2>4. Unblocks(file)' <=> Unblocks(file)
    BY <1>1, <2>1 DEF Unblocks
  <2>5. Blocked' => Range(AllowNames) \subseteq rules'
    BY <2>1, <2>3 DEF Unblockable
  <2> QED BY <1>1, <2>1, <2>2, <2>3, <2>4, <2>5 DEF Unblockable
<1>5. CASE setDefaultOutbound
  <2>1. Head(jobs) = "flip" /\ UNCHANGED <<rules, wininet, file>>
    BY <1>5, FlipDoes
  <2>2. /\ Past /\ ~Filling /\ (Past' <=> Past) /\ "add" \notin Range(jobs) /\ "flip" \in Range(jobs)
    BY <1>2, <2>1, PastWhen, ApplyJobFacts, PastKept
  <2>3. found.outbound = original.outbound
    BY <2>2 DEF Unblockable
  <2>4. mem.global /\ Range(AllowNames) \subseteq rules /\ mem.saved = found.outbound
    BY <1>2, <2>2 DEF Applying, Session
  <2>5. file.kind = "state" /\ file.global = mem.global /\ file.saved = mem.saved
    BY <2>2 DEF Files
  <2>6. Unblocks(file)'
    BY <1>1, <2>1, <2>3, <2>4, <2>5 DEF Unblocks
  <2> QED BY <1>1, <2>1, <2>3, <2>4, <2>5, <2>6 DEF Unblockable
<1>6. CASE setSystemProxy
  <2>1. Head(jobs) = "point" /\ UNCHANGED <<outbound, rules, file>>
    BY <1>6, PointDoes
  <2>2. (Past' <=> Past) /\ ~Filling' /\ ~Filling
    BY <2>1, PastKept
  <2>3. (Blocked' <=> Blocked) /\ (Unblocks(file)' <=> Unblocks(file))
    BY <1>1, <2>1 DEF Blocked, Unblocks
  <2> QED BY <1>1, <2>1, <2>2, <2>3 DEF Unblockable
<1>7. CASE clearState \/ restoreDefaultOutbound \/ restoreSystemProxy
  BY <1>7, ClearDoes, DefaultsDoes, SettingsDoes
<1> QED BY <1>3, <1>4, <1>5, <1>6, <1>7 DEF Steps

\* The calls of an undo: the default actions come back before the rules go
\* (enforcer_windows.go:189-213, 428-477).
LEMMA UndoUnblockable ==
  ASSUME Typed, Typed', Unblockable, Unharmed', pc = "undo", Steps
  PROVE  Unblockable'
<1>1. /\ UNCHANGED <<pc, jobs, mem, original, found, fatal, bad>> /\ left # <<>>
      /\ jobs \in UndoJobs /\ original \in Snapshot /\ outbound \in Outbound
  BY StepFrame DEF Typed, Plan, Matter, ProcessOK
<1>2. CASE clearState
  <2>1. jobs = ClearAlone /\ file' = Blank /\ UNCHANGED <<outbound, rules>>
    BY <1>2, ClearDoes
  <2>2. jobs # ProxyAlone /\ "defaults" \notin Range(jobs)
    BY <1>1, <2>1, UndoJobFacts DEF ClearAlone, ProxyAlone
  <2>3. ~Blocked
    BY <2>2 DEF Unblockable, Unblocking
  <2>4. ~Blocked' /\ file'.global = FALSE
    BY <1>1, <2>1, <2>3, BlankTyped DEF Blocked
  <2> QED BY <1>1, <2>2, <2>4 DEF Unblockable
<1>3. CASE removeRule
  <2>1. Head(jobs) = "rules" /\ UNCHANGED <<outbound, wininet, file>>
    BY <1>3, RemoveDoes
  <2>2. jobs # ProxyAlone /\ "defaults" \notin Range(jobs)
    BY <1>1, <2>1, UndoJobFacts
  <2>3. ~Blocked
    BY <2>2 DEF Unblockable, Unblocking
  <2>4. ~Blocked'
    BY <1>1, <2>1, <2>3 DEF Blocked
  <2> QED BY <1>1, <2>1, <2>2, <2>4 DEF Unblockable
<1>4. CASE restoreDefaultOutbound
  <2>1. /\ Head(jobs) = "defaults" /\ mem.global
        /\ outbound' = [outbound EXCEPT ![Head(left)] = mem.saved[Head(left)]]
        /\ UNCHANGED <<rules, wininet, file>>
    BY <1>4, DefaultsDoes
  <2>2. "defaults" \in Range(jobs)
    BY <1>1, <2>1, UndoJobFacts
  <2>3. mem.saved = original.outbound /\ original.outbound \in Outbound
    BY <1>1, <2>1, <2>2 DEF Unblockable, Snapshot
  <2>4. /\ \A p \in Range(blockedProfiles) : p # Head(left) => outbound'[p] = outbound[p]
        /\ \A p \in Range(blockedProfiles) : p = Head(left) => outbound'[p] = original.outbound[p]
    BY <1>1, <2>1, <2>3 DEF Outbound
  <2>5. Blocked' => Blocked
    <3> SUFFICES ASSUME ~Blocked PROVE ~Blocked'
      OBVIOUS
    <3>1. outbound = original.outbound
      BY DEF Blocked
    <3>2. \A p \in Range(blockedProfiles) : outbound'[p] = original.outbound[p]
      BY <2>4, <3>1
    <3>3. outbound' \in Outbound
      BY DEF Typed, ProcessOK
    <3>4. outbound' = original.outbound
      BY <2>3, <3>2, <3>3 DEF Outbound
    <3> QED BY <1>1, <3>4 DEF Blocked
  <2>6. jobs # ProxyAlone
    BY <1>1, <2>1, UndoJobFacts
  <2>7. Blocked' => Unblocking'
    <3> SUFFICES ASSUME Blocked' PROVE Unblocking'
      OBVIOUS
    <3>1. Unblocking
      BY <1>1, <2>5, <2>6 DEF Unblockable
    <3>2. ASSUME NEW p \in Range(blockedProfiles)
          PROVE  outbound'[p] = original.outbound[p] \/ Pending("defaults", p)'
                   \/ (bad /\ Head(jobs) = "defaults" /\ "defaults" \in fatal)
      <4>1. CASE p = Head(left)
        BY <2>4, <4>1
      <4>2. CASE p # Head(left)
        <5>1. outbound'[p] = outbound[p]
          BY <2>4, <4>2
        <5>2. outbound[p] = original.outbound[p] \/ Pending("defaults", p)
                \/ (bad /\ Head(jobs) = "defaults" /\ "defaults" \in fatal)
          BY <3>1 DEF Unblocking
        <5> QED BY <4>2, <5>1, <5>2, PendingKept
      <4> QED BY <4>1, <4>2
    <3> QED BY <1>1, <2>1, <2>2, <2>3, <3>2 DEF Unblocking
  <2>8. Unblocks(file)' <=> Unblocks(file)
    BY <1>1, <2>1 DEF Unblocks
  <2>9. Blocked' => Range(AllowNames) \subseteq rules' /\ Unblocks(file)'
    BY <1>1, <2>1, <2>5, <2>8 DEF Unblockable
  <2> QED BY <1>1, <2>1, <2>3, <2>7, <2>9 DEF Unblockable
<1>5. CASE restoreSystemProxy
  <2>1. Head(jobs) = "wininet" /\ UNCHANGED <<outbound, rules, file>>
    BY <1>5, SettingsDoes
  <2>2. (Blocked' <=> Blocked) /\ (Unblocks(file)' <=> Unblocks(file))
    BY <1>1, <2>1 DEF Blocked, Unblocks
  <2>3. \A p : Pending("defaults", p)' <=> Pending("defaults", p)
    BY <1>1, <2>1 DEF Pending
  <2>4. Unblocking => Unblocking'
    BY <1>1, <2>1, <2>3 DEF Unblocking
  <2> QED BY <1>1, <2>1, <2>2, <2>4 DEF Unblockable
<1>6. CASE writeState \/ setDefaultOutbound \/ setSystemProxy
  BY <1>6, WriteDoes, FlipDoes, PointDoes
<1>7. CASE addProxyAllowRule \/ addExceptionRule \/ addBlockRule
  BY <1>7, AddDoes
<1> QED BY <1>2, <1>3, <1>4, <1>5, <1>6, <1>7 DEF Steps

\* A call of Apply fails: what stays blocked is in the file, and its undo puts it back
\* (enforcer_windows.go:111-183).
LEMMA ApplyFailsUnblockable ==
  ASSUME Typed, Typed', Files, Returned, Unblockable, Unharmed', ApplyFails
  PROVE  Unblockable'
<1>1. /\ pc = "apply" /\ left # <<>> /\ mem' = mem /\ Torn \subseteq mishaps'
      /\ Head(jobs) = "flip" /\ outbound # found.outbound => "halfFlip" \in mishaps'
      /\ UNCHANGED <<outbound, rules, wininet, file, elevated, original, found>>
      /\ Unwind(Head(jobs)) = <<>> => pc' = "down" /\ ended' = "refused"
      /\ Unwind(Head(jobs)) # <<>> =>
           /\ pc' = "undo" /\ jobs' = Unwind(Head(jobs)) /\ left' = Items(Head(jobs'), mem')
  BY ApplyFailsDoes
<1>2. Session /\ Applying /\ jobs \in ApplyJobs
  BY <1>1 DEF Returned, Typed, Plan
<1>3. "torn" \notin mishaps' /\ "halfFlip" \notin mishaps'
  BY DEF Unharmed
<1>4. ~(Filling /\ Rerecord)
  BY <1>1, <1>3 DEF Torn, Working, Filling
<1>5. (Blocked' <=> Blocked) /\ (Unblocks(file)' <=> Unblocks(file))
  BY <1>1 DEF Blocked, Unblocks
<1>6. Blocked' => Range(AllowNames) \subseteq rules' /\ Unblocks(file)'
  BY <1>1, <1>4, <1>5 DEF Unblockable
<1>7. file'.global => file'.saved = original'.outbound
  BY <1>1 DEF Unblockable
<1>8. CASE Unwind(Head(jobs)) = <<>>
  BY <1>1, <1>6, <1>7, <1>8 DEF Unblockable
<1>9. CASE Unwind(Head(jobs)) # <<>>
  <2>1. pc' = "undo" /\ jobs' = Unwind(Head(jobs)) /\ left' = Items(Head(jobs'), mem')
    BY <1>1, <1>9
  <2>2. Past => found.outbound = original.outbound
    BY <1>1 DEF Unblockable
  <2>3. Head(jobs) \in Range(jobs) /\ Head(jobs) \in {"record", "purge", "add", "flip", "point"}
    BY <1>2, ApplyJobFacts
  <2>4. /\ mem.global /\ "defaults" \in Range(jobs') => mem.saved = original.outbound
        /\ Blocked => jobs' = ProxyAlone \/ (mem.global /\ "defaults" \in Range(jobs'))
    <3>1. CASE Head(jobs) \in {"purge", "add", "flip"}
      <4>1. Past
        BY <1>1, <1>2, <3>1, PastWhen
      <4>2. outbound = found.outbound
        <5>1. CASE Head(jobs) = "flip"
          BY <1>1, <1>3, <5>1
        <5>2. CASE Head(jobs) # "flip"
          <6>1. "add" \in Range(jobs)
            BY <1>2, <2>3, <3>1, <5>2, ApplyJobFacts
          <6> QED BY <1>2, <6>1 DEF Applying
        <5> QED BY <5>1, <5>2
      <4>3. ~Blocked
        BY <2>2, <4>1, <4>2 DEF Blocked
      <4>4. jobs' = ClearAlone \/ jobs' = <<"rules", "clear">>
        BY <1>1, <2>1, <3>1, UnwindFacts
      <4>5. "defaults" \notin Range(ClearAlone) /\ "defaults" \notin Range(<<"rules", "clear">>)
        BY DEF ClearAlone, Range
      <4> QED BY <4>3, <4>4, <4>5
    <3>2. CASE Head(jobs) = "record" /\ ~mem.hasProxy
      BY <1>1, <1>9, <3>2, UnwindFacts
    <3>3. CASE (Head(jobs) = "point" \/ (Head(jobs) = "record" /\ mem.hasProxy)) /\ Firewalled
      <4>1. /\ "defaults" \in Range(<<"wininet", "defaults", "rules", "clear">>)
            /\ "defaults" \in Range(<<"defaults", "rules", "clear">>)
        BY DEF Range
      <4>2. \/ jobs' = <<"wininet", "defaults", "rules", "clear">>
            \/ jobs' = <<"defaults", "rules", "clear">>
        BY <1>1, <2>1, <3>3, UnwindFacts
      <4>3. "defaults" \in Range(jobs')
        BY <4>1, <4>2
      <4>4. Past
        BY <3>3 DEF Past
      <4> QED BY <1>2, <2>2, <4>3, <4>4 DEF Session, Blocked
    <3>4. CASE (Head(jobs) = "point" \/ (Head(jobs) = "record" /\ mem.hasProxy)) /\ ~Firewalled
      <4>1. jobs' = ProxyAlone
        BY <1>1, <1>9, <2>1, <3>4, UnwindFacts
      <4>2. "defaults" \notin Range(ProxyAlone)
        BY DEF ProxyAlone, Range
      <4> QED BY <4>1, <4>2
    <3> QED BY <2>3, <3>1, <3>2, <3>3, <3>4
  <2>5. Blocked' => jobs' = ProxyAlone \/ Unblocking'
    <3> SUFFICES ASSUME Blocked', jobs' # ProxyAlone PROVE Unblocking'
      OBVIOUS
    <3>1. mem.global /\ "defaults" \in Range(jobs') /\ mem.saved = original.outbound
      BY <1>5, <2>4
    <3>2. \A p \in Range(blockedProfiles) : Pending("defaults", p)'
      BY <1>1, <2>1, <3>1, AllPending
    <3> QED BY <1>1, <3>1, <3>2 DEF Unblocking
  <2> QED BY <1>1, <1>6, <1>7, <2>1, <2>4, <2>5 DEF Unblockable
<1> QED BY <1>8, <1>9

\* Nothing is blocked before the first session.
LEMMA InitUnblockable == ASSUME Init, Typed PROVE Unblockable
<1>1. original \in Snapshot /\ original = Machine /\ pc = "down"
  BY DEF Init, Typed, Matter
<1>2. ~Blocked
  BY <1>1, MachineTyped DEF Blocked, Typed
<1>3. PICK names \in {<<>>, SetToSeq(Foreign)} :
        file = [Blank EXCEPT !.kind = IF names = <<>> THEN "none" ELSE "state", !.rules = names]
  BY DEF Init
<1>4. Blank \in enforcementState /\ Blank.global = FALSE
  BY <1>1, BlankTyped
<1>5. file.global = FALSE
  BY <1>3, <1>4 DEF enforcementState
<1> QED BY <1>1, <1>2, <1>5 DEF Unblockable

\* A start, and Recover: what is blocked is in the file, and is put back first
\* (enforcer_windows.go:381-443).
LEMMA RecoverUnblockable ==
  ASSUME Typed, Typed', Unblockable,
         (\E e \in BOOLEAN : Start(e)) \/ RecoverNothing \/ RecoverProxyOnly \/ Recover
  PROVE  Unblockable'
<1>1. CASE (\E e \in BOOLEAN : Start(e)) \/ RecoverNothing
  <2>1. /\ pc \in {"down", "recover"} /\ pc' \in {"recover", "ready"}
        /\ UNCHANGED <<outbound, rules, file, original>>
    BY <1>1, QuietDoes
  <2>2. (Blocked' <=> Blocked) /\ (Unblocks(file)' <=> Unblocks(file))
    BY <2>1 DEF Blocked, Unblocks
  <2> QED BY <2>1, <2>2 DEF Unblockable
<1>2. CASE RecoverProxyOnly \/ Recover
  <2>1. /\ pc = "recover" /\ pc' = "undo" /\ mem' = file
        /\ file.rules # <<>> => "defaults" \in Range(jobs')
        /\ left' = Items(Head(jobs'), mem')
        /\ UNCHANGED <<outbound, rules, file, original>>
    BY <1>2, RecoverDoes
  <2>2. (Blocked' <=> Blocked) /\ (Unblocks(file)' <=> Unblocks(file))
    BY <2>1 DEF Blocked, Unblocks
  <2>3. Blocked => Unblocks(file)
    BY <2>1 DEF Unblockable
  <2>4. file.global => file.rules # <<>>
    BY BlockHasRules DEF Typed, Matter, ProcessOK
  <2>5. Blocked' => Unblocking'
    <3> SUFFICES ASSUME Blocked' PROVE Unblocking'
      OBVIOUS
    <3>1. mem'.global /\ "defaults" \in Range(jobs') /\ mem'.saved = original.outbound
      BY <2>1, <2>2, <2>3, <2>4 DEF Unblocks
    <3>2. \A p \in Range(blockedProfiles) : Pending("defaults", p)'
      BY <2>1, <3>1, AllPending
    <3> QED BY <2>1, <3>1, <3>2 DEF Unblocking
  <2> QED BY <2>1, <2>2, <2>3, <2>5 DEF Unblockable
<1> QED BY <1>1, <1>2

\* Apply that has just begun has not written anything (enforcer_windows.go:76-109, 217-231).
LEMMA NothingWritten ==
  ASSUME Typed, Typed', NEW s \in EnforceSpec,
         ApplyNothing(s) \/ ApplyRefused(s) \/ Apply(s) \/ applySystemProxyOnly(s)
  PROVE  /\ pc' \in {"running", "down", "apply"} /\ (pc' = "apply" => ~Past')
         /\ pc' = "running" => mem'.kind # "state"
<1>1. CASE ApplyNothing(s)
  <2>1. pc' = "running" /\ mem' = Blank
    BY <1>1, ApplyNothingDoes
  <2>2. Blank.kind = "none"
    BY BlankTyped DEF Typed, Matter
  <2> QED BY <2>1, <2>2
<1>2. CASE ApplyRefused(s)
  BY <1>2, ApplyRefusedDoes
<1>3. CASE Apply(s)
  <2>1. /\ pc' = "apply" /\ jobs' = ApplyOrder(s) /\ left' = <<"truncate", "write">>
        /\ mem'.hasProxy = FALSE
    BY <1>3, ApplyDoes
  <2>2. Head(jobs') = "record"
    BY <2>1, OrderFacts
  <2> QED BY <2>1, <2>2 DEF Past
<1>4. CASE applySystemProxyOnly(s)
  <2>1. pc' = "apply" /\ jobs' = PointAndRecord /\ mem'.rules = <<>>
    BY <1>4, ProxyOnlyDoes
  <2>2. Head(PointAndRecord) = "point"
    BY DEF PointAndRecord
  <2> QED BY <2>1, <2>2 DEF Past, Firewalled
<1> QED BY <1>1, <1>2, <1>3, <1>4

\* Apply begins, and has not yet changed anything.
LEMMA ReadyUnblockable ==
  ASSUME Typed, Typed', Unblockable, NEW s \in EnforceSpec,
         ApplyNothing(s) \/ ApplyRefused(s) \/ Apply(s) \/ applySystemProxyOnly(s)
  PROVE  Unblockable'
<1>1. pc = "ready" /\ UNCHANGED <<outbound, rules, file, original>>
  BY ApplyLooks
<1>2. (Blocked' <=> Blocked) /\ (Unblocks(file)' <=> Unblocks(file))
  BY <1>1 DEF Blocked, Unblocks
<1>3. Blocked => Unblocks(file)
  BY <1>1 DEF Unblockable
<1>4. /\ pc' \in {"running", "down", "apply"} /\ (pc' = "apply" => ~Past')
      /\ pc' = "running" => mem'.kind # "state"
  BY NothingWritten
<1> QED BY <1>1, <1>2, <1>3, <1>4 DEF Unblockable

\* A call of an undo fails: the default actions, if it was one of theirs, stay in the file.
LEMMA UndoFailsUnblockable ==
  ASSUME Typed, Typed', Unblockable, Unharmed', UndoFails
  PROVE  Unblockable'
<1>1. /\ pc = "undo" /\ left # <<>> /\ fails \in Nat /\ fails' = fails + 1 /\ bad' = TRUE
      /\ UNCHANGED <<outbound, rules, wininet, file, original, found, pc, mem, jobs, fatal>>
  BY UndoFailsDoes
<1>2. fatal # {}
  <2>1. fails' <= 1
    BY DEF Unharmed
  <2>2. fatal = {} => fails >= 1
    BY <1>1 DEF Typed, Plan
  <2> QED BY <1>1, <2>1, <2>2
<1>3. "defaults" \in Range(jobs) => "defaults" \in fatal
  BY <1>1, <1>2 DEF Typed, Plan
<1>4. (Blocked' <=> Blocked) /\ (Unblocks(file)' <=> Unblocks(file))
  BY <1>1 DEF Blocked, Unblocks
<1>5. Unblocking => Unblocking'
  <2> SUFFICES ASSUME Unblocking PROVE Unblocking'
    OBVIOUS
  <2>1. "defaults" \in Range(jobs) /\ "defaults" \in fatal
    BY <1>3 DEF Unblocking
  <2>2. CASE Head(jobs) = "defaults"
    BY <1>1, <2>1, <2>2 DEF Unblocking
  <2>3. CASE Head(jobs) # "defaults"
    BY <1>1, <2>1, <2>3 DEF Unblocking, Pending
  <2> QED BY <2>2, <2>3
<1> QED BY <1>1, <1>4, <1>5 DEF Unblockable

\* Apply goes on with its record written.
LEMMA ApplyNextUnblockable ==
  ASSUME Typed, Typed', Returned, Unblockable, ApplyNext
  PROVE  Unblockable'
<1>1. /\ pc = "apply" /\ UNCHANGED <<outbound, rules, file, original, found>>
      /\ Len(jobs) = 1 => pc' = "running"
      /\ Len(jobs) # 1 => pc' = "apply"
  BY ApplyNextDoes
<1>2. Applying
  BY <1>1 DEF Returned
<1>3. /\ ~Filling
      /\ Len(jobs) = 1 => Past
      /\ Len(jobs) # 1 => (Past' => Past)
  BY <1>2, PastNext
<1>4. (Blocked' <=> Blocked) /\ (Unblocks(file)' <=> Unblocks(file))
  BY <1>1 DEF Blocked, Unblocks
<1> QED BY <1>1, <1>3, <1>4 DEF Unblockable

\* An undo goes on, with the default actions back, or ends with them in the file.
LEMMA UndoNextUnblockable ==
  ASSUME Typed, Typed', Unblockable, UndoNext
  PROVE  Unblockable'
<1>1. /\ pc = "undo" /\ left = <<>> /\ jobs \in UndoJobs /\ mem' = mem
      /\ UNCHANGED <<outbound, rules, file, original, found>>
      /\ Len(jobs) = 1 \/ (bad /\ Head(jobs) \in fatal) => pc' = then
      /\ ~(Len(jobs) = 1 \/ (bad /\ Head(jobs) \in fatal)) =>
           /\ pc' = "undo" /\ jobs' = Tail(jobs) /\ left' = Items(Head(jobs'), mem')
  BY UndoNextDoes
<1>2. then \in {"ready", "down"} /\ original \in Snapshot /\ outbound \in Outbound
  BY DEF Typed, ProcessOK, Matter
<1>3. (Blocked' <=> Blocked) /\ (Unblocks(file)' <=> Unblocks(file))
  BY <1>1 DEF Blocked, Unblocks
<1>4. CASE Len(jobs) = 1 \/ (bad /\ Head(jobs) \in fatal)
  BY <1>1, <1>2, <1>3, <1>4 DEF Unblockable
<1>5. CASE ~(Len(jobs) = 1 \/ (bad /\ Head(jobs) \in fatal))
  <2>1. jobs # ProxyAlone /\ \A j : j \in Range(jobs') <=> j \in Range(jobs) /\ j # Head(jobs)
    BY <1>1, <1>5, UndoJobFacts
  <2>2. Blocked => Head(jobs) # "defaults"
    <3> SUFFICES ASSUME Blocked, Head(jobs) = "defaults" PROVE FALSE
      OBVIOUS
    <3>1. Unblocking
      BY <1>1, <2>1 DEF Unblockable
    <3>2. \A p \in Range(blockedProfiles) : ~Pending("defaults", p)
      BY <1>1, EmptyFacts DEF Pending
    <3>3. \A p \in Range(blockedProfiles) : outbound[p] = original.outbound[p]
      BY <1>5, <3>1, <3>2 DEF Unblocking
    <3>4. outbound = original.outbound
      BY <1>2, <3>3 DEF Outbound, Snapshot
    <3> QED BY <3>4 DEF Blocked
  <2>3. Blocked' => Unblocking'
    <3> SUFFICES ASSUME Blocked' PROVE Unblocking'
      OBVIOUS
    <3>1. Unblocking
      BY <1>1, <1>3, <2>1 DEF Unblockable
    <3>2. mem'.global /\ mem'.saved = original'.outbound /\ "defaults" \in Range(jobs')
      BY <1>1, <1>3, <2>1, <2>2, <3>1 DEF Unblocking
    <3>3. \A p \in Range(blockedProfiles) : Pending("defaults", p)'
      BY <1>1, <1>5, <3>2, AllPending
    <3> QED BY <3>2, <3>3 DEF Unblocking
  <2>4. mem'.global /\ "defaults" \in Range(jobs') => mem'.saved = original'.outbound
    BY <1>1, <2>1 DEF Unblockable
  <2> QED BY <1>1, <1>3, <1>5, <2>3, <2>4 DEF Unblockable
<1> QED BY <1>4, <1>5

\* The end of a session: what it holds in memory is what the file says (enforcer_windows.go:189-213).
LEMMA RestoreUnblockable ==
  ASSUME Typed, Typed', Files, Returned, Unblockable, restore
  PROVE  Unblockable'
<1>1. /\ pc \in {"running", "suspended"} /\ mem' = mem /\ mem.kind \in {"none", "state"}
      /\ UNCHANGED <<outbound, rules, file, original, found>>
      /\ mem.kind = "none" => pc' = "down"
      /\ mem.kind = "state" =>
           /\ pc' = "undo"
           /\ Firewalled => "defaults" \in Range(jobs')
           /\ left' = Items(Head(jobs'), mem')
  BY RestoreDoes
<1>2. (Blocked' <=> Blocked) /\ (Unblocks(file)' <=> Unblocks(file))
  BY <1>1 DEF Blocked, Unblocks
<1>3. CASE mem.kind = "none"
  BY <1>1, <1>2, <1>3 DEF Unblockable
<1>4. CASE mem.kind = "state"
  <2>1. file = mem /\ found.outbound = original.outbound /\ Session
    BY <1>1, <1>4 DEF Files, Unblockable, Returned
  <2>2. mem.global => mem.saved = original.outbound
    BY <2>1 DEF Session
  <2>3. mem.global => Firewalled
    BY BlockHasRules DEF Firewalled, Typed, Matter, ProcessOK
  <2>4. Blocked' => Unblocking'
    <3> SUFFICES ASSUME Blocked' PROVE Unblocking'
      OBVIOUS
    <3>1. mem'.global /\ "defaults" \in Range(jobs') /\ mem'.saved = original.outbound
      BY <1>1, <1>2, <1>4, <2>1, <2>2, <2>3 DEF Unblockable, Unblocks
    <3>2. \A p \in Range(blockedProfiles) : Pending("defaults", p)'
      BY <1>1, <1>4, <3>1, AllPending
    <3> QED BY <1>1, <3>1, <3>2 DEF Unblocking
  <2> QED BY <1>1, <1>2, <1>4, <2>2, <2>4 DEF Unblockable
<1> QED BY <1>1, <1>3, <1>4

\* Every step leaves a blocked machine one that can be unblocked.
LEMMA NextRecoverable ==
  ASSUME Typed, Typed', Files, Returned, Recoverable, Step
  PROVE  Recoverable'
<1> SUFFICES ASSUME Unharmed' PROVE Unblockable'
  BY DEF Recoverable
<1>1. Unblockable
  BY UnharmedBefore DEF Recoverable
<1>2. CASE (\E e \in BOOLEAN : Start(e)) \/ RecoverNothing \/ RecoverProxyOnly \/ Recover
  BY <1>1, <1>2, RecoverUnblockable
<1>3. CASE \E s \in EnforceSpec :
             ApplyNothing(s) \/ ApplyRefused(s) \/ Apply(s) \/ applySystemProxyOnly(s)
  BY <1>1, <1>3, ReadyUnblockable
<1>4. CASE Steps
  <2>1. CASE writeState
    BY <1>1, <2>1, WriteUnblockable
  <2>2. CASE ~writeState /\ pc = "apply"
    BY <1>1, <1>4, <2>2, ApplyUnblockable
  <2>3. CASE pc = "undo"
    BY <1>1, <1>4, <2>3, UndoUnblockable
  <2> QED BY <1>4, <2>1, <2>2, <2>3, StepFrame
<1>5. CASE ApplyFails
  BY <1>1, <1>5, ApplyFailsUnblockable
<1>6. CASE UndoFails
  BY <1>1, <1>6, UndoFailsUnblockable
<1>7. CASE ApplyNext
  BY <1>1, <1>7, ApplyNextUnblockable
<1>8. CASE UndoNext
  BY <1>1, <1>8, UndoNextUnblockable
<1>9. CASE Suspend
  <2>1. /\ pc = "running" /\ pc' = "suspended"
        /\ UNCHANGED <<outbound, rules, file, original, found, mem>>
    BY <1>9, SuspendDoes
  <2>2. (Blocked' <=> Blocked) /\ (Unblocks(file)' <=> Unblocks(file))
    BY <2>1 DEF Blocked, Unblocks
  <2> QED BY <1>1, <2>1, <2>2 DEF Unblockable
<1>10. CASE restore
  BY <1>1, <1>10, RestoreUnblockable
<1>11. CASE Crash
  <2>1. /\ pc' = "down" /\ Torn \subseteq mishaps' /\ UNCHANGED <<outbound, rules, file, original>>
    BY <1>11, CrashDoes
  <2>2. "torn" \notin mishaps'
    BY DEF Unharmed
  <2>3. <<"write">> # <<>>
    OBVIOUS
  <2>4. ~(pc = "apply" /\ Filling /\ Rerecord)
    BY <2>1, <2>2, <2>3 DEF Torn, Working, Filling
  <2>5. (Blocked' <=> Blocked) /\ (Unblocks(file)' <=> Unblocks(file))
    BY <2>1 DEF Blocked, Unblocks
  <2> QED BY <1>1, <2>1, <2>4, <2>5 DEF Unblockable
<1>12. CASE UNCHANGED vars
  <2>1. UNCHANGED <<outbound, rules, file, pc, mem, jobs, left, fatal, bad>>
    BY <1>12 DEF vars, machine, work
  <2>2. UNCHANGED <<original, found>>
    BY <1>12 DEF vars, history
  <2> QED BY <1>1, <2>1, <2>2 DEF Unblockable, Unblocking, Unblocks, Blocked, Pending, Past, Filling,
                                  Firewalled, Rerecord
<1> QED BY <1>2, <1>3, <1>4, <1>5, <1>6, <1>7, <1>8, <1>9, <1>10, <1>11, <1>12 DEF Step, Work, Lifetime

-----------------------------------------------------------------------------
(* An elevated start undoes what a dead session left.                       *)

\* A machine in which nothing has gone wrong had nothing go wrong before.
LEMMA CleanBefore == ASSUME Typed, Step, Clean' PROVE Clean /\ Unharmed
<1>1. /\ mishaps \subseteq mishaps' /\ fails \in Nat /\ fails' \in Nat /\ fails' >= fails
  BY Onwards
<1>2. fails' = 0 /\ mishaps' = {}
  BY DEF Clean
<1>3. fails = 0
  BY <1>1, <1>2
<1>4. fails <= 1
  BY <1>3
<1> QED BY <1>1, <1>2, <1>3, <1>4 DEF Clean, Unharmed

\* The same machine and the same record are as undone as they were.
LEMMA FirewallKept ==
  ASSUME Firewall, UNCHANGED <<outbound, rules, file, original>>
  PROVE  Firewall'
BY DEF Firewall

\* A snapshot is its fields.
LEMMA SameSnapshot ==
  ASSUME NEW a \in Snapshot, NEW b \in Snapshot,
         a.outbound = b.outbound, a.rules = b.rules, a.wininet = b.wininet
  PROVE  a = b
<1>1. /\ a = [outbound |-> a.outbound, rules |-> a.rules, wininet |-> a.wininet]
      /\ b = [outbound |-> b.outbound, rules |-> b.rules, wininet |-> b.wininet]
  BY Zenon DEF Snapshot
<1> QED BY <1>1

\* Before the first session there is nothing to undo, though a file may name foreign rules.
LEMMA InitUndone == ASSUME Init, Typed PROVE Undone
<1>1. original \in Snapshot /\ original = Machine /\ pc = "down" /\ rules = Foreign
  BY DEF Init, Typed, Matter
<1>2. outbound = original.outbound /\ wininet = original.wininet
  BY <1>1, MachineTyped DEF Typed
<1>3. PICK names \in {<<>>, SetToSeq(Foreign)} :
        file = [Blank EXCEPT !.kind = IF names = <<>> THEN "none" ELSE "state", !.rules = names]
  BY DEF Init
<1>4. Blank \in enforcementState /\ Blank.hasProxy = FALSE
  BY <1>1, BlankTyped
<1>5. file.hasProxy = FALSE
  BY <1>3, <1>4 DEF enforcementState
<1>6. Firewall
  BY <1>1, <1>2 DEF Firewall
<1> QED BY <1>1, <1>2, <1>5, <1>6 DEF Undone

\* Recover sets out to undo all that the file says (enforcer_windows.go:381-477).
LEMMA RecoverUndone ==
  ASSUME Typed, Typed', Unblockable, Undone, RecoverProxyOnly \/ Recover
  PROVE  Undone'
<1>1. /\ pc = "recover" /\ pc' = "undo" /\ mem' = file /\ file.kind = "state"
      /\ "wininet" \in Range(jobs')
      /\ file.rules # <<>> => "defaults" \in Range(jobs') /\ "rules" \in Range(jobs')
      /\ left' = Items(Head(jobs'), mem')
      /\ UNCHANGED <<outbound, rules, wininet, file, original>>
  BY RecoverDoes
<1>2. original \in Snapshot /\ original.rules = Foreign
  BY DEF Typed, Matter
<1>3. file.global => file.rules # <<>>
  BY BlockHasRules DEF Typed, Matter, ProcessOK
<1>4. /\ file.global => file.saved = original.outbound
      /\ file.hasProxy => file.proxy = original.wininet
      /\ outbound = original.outbound \/ file.global
      /\ rules \subseteq original.rules \cup Range(file.rules)
      /\ wininet = original.wininet \/ file.hasProxy
  BY <1>1, <1>2 DEF Unblockable, Undone, Firewall
<1>5. file.rules = <<>> => rules \subseteq original.rules
  BY <1>4, EmptyFacts
<1>6. /\ mem'.global => mem'.saved = original.outbound
      /\ mem'.hasProxy => mem'.proxy = original.wininet
      /\ outbound' = original.outbound \/ (mem'.global /\ "defaults" \in Range(jobs'))
      /\ wininet' = original.wininet \/ (mem'.hasProxy /\ "wininet" \in Range(jobs'))
      /\ rules' \subseteq original.rules
           \/ (rules' \subseteq original.rules \cup Range(mem'.rules) /\ "rules" \in Range(jobs'))
  BY <1>1, <1>3, <1>4, <1>5
<1>7. /\ mem'.global => mem'.saved = original.outbound
      /\ mem'.hasProxy => mem'.proxy = original.wininet
      /\ \A p \in Range(blockedProfiles) :
            outbound'[p] = original.outbound[p] \/ (mem'.global /\ Pending("defaults", p)')
      /\ \A v \in Range(WinINET) :
            wininet'[v] = original.wininet[v] \/ (mem'.hasProxy /\ Pending("wininet", v)')
      /\ \A r \in rules' : r \in original.rules \/ (r \in Range(mem'.rules) /\ Pending("rules", r)')
  BY <1>1, <1>2, <1>6, UndoingBegins
<1>8. Undoing(original)'
  BY <1>1, <1>7 DEF Undoing
<1> QED BY <1>1, <1>4, <1>8 DEF Undone

\* Apply begins with the machine and the file as they are.
LEMMA ReadyUndone ==
  ASSUME Typed, Typed', Undone, NEW s \in EnforceSpec,
         ApplyNothing(s) \/ ApplyRefused(s) \/ Apply(s) \/ applySystemProxyOnly(s)
  PROVE  Undone'
<1>1. /\ pc = "ready" /\ found'.wininet = wininet
      /\ UNCHANGED <<outbound, rules, wininet, file, original>>
  BY ApplyLooks
<1>2. /\ pc' \in {"running", "down", "apply"} /\ (pc' = "apply" => ~Past')
      /\ pc' = "running" => mem'.kind # "state"
  BY NothingWritten
<1>3. Firewall'
  BY <1>1, FirewallKept DEF Undone
<1> QED BY <1>1, <1>2, <1>3 DEF Undone

\* Apply writes over the file only what leads back to the user's machine
\* (enforcer_windows.go:107-109, 171-181; state_windows.go:68-90).
LEMMA WriteUndone ==
  ASSUME Typed, Typed', Files, Returned, Undone, Clean', writeState
  PROVE  Undone'
<1>1. /\ pc = "apply" /\ Head(jobs) = "record" /\ UNCHANGED <<outbound, rules, wininet, fails>>
      /\ \/ /\ left = <<"truncate", "write">> /\ left' = <<"write">>
            /\ file'.kind = "corrupt" /\ file'.global = FALSE /\ file'.hasProxy = FALSE
            /\ file.kind = "state" /\ ~Rerecord => "overwrote" \in mishaps'
         \/ left = <<"write">> /\ left' = <<>> /\ file' = mem
  BY WriteDoes
<1>2. UNCHANGED <<pc, jobs, mem, original, found>>
  BY StepFrame DEF Steps
<1>3. /\ Past' /\ (left = <<"write">> => Past /\ Filling /\ ~Filling')
      /\ left = <<"truncate", "write">> => Filling' /\ ~Filling /\ (Past <=> Rerecord)
      /\ (Rerecord' <=> Rerecord)
  BY PastWritten
<1>4. Session /\ Applying /\ mem \in enforcementState /\ Recordable(mem) /\ jobs \in ApplyJobs
      /\ mem.kind = "state" /\ original \in Snapshot /\ found \in Snapshot
      /\ original.rules = Foreign /\ Foreign \subseteq rules /\ Recordable(file)
  BY <1>1 DEF Returned, Typed, Plan, Matter, ProcessOK
<1>5. CASE left = <<"truncate", "write">>
  <2>1. /\ file'.kind = "corrupt" /\ file'.hasProxy = FALSE /\ Filling' /\ ~Filling
        /\ (Past <=> Rerecord)
        /\ file.kind = "state" /\ ~Rerecord => "overwrote" \in mishaps'
    BY <1>1, <1>3, <1>5
  <2>2. "overwrote" \notin mishaps'
    BY DEF Clean
  <2>3. CASE Rerecord
    <3>1. found = original
      BY <1>1, <2>1, <2>3 DEF Undone
    <3> QED BY <1>1, <1>2, <1>3, <2>1, <2>3, <3>1 DEF Undone
  <2>4. CASE ~Rerecord
    <3>1. file.kind # "state" /\ ~file.hasProxy /\ ~Past
      BY <1>4, <2>1, <2>2, <2>4 DEF Recordable
    <3>2. outbound = original.outbound /\ rules \subseteq Foreign /\ found.wininet = original.wininet
      BY <1>1, <2>1, <3>1 DEF Undone, Firewall
    <3>3. outbound = found.outbound
      <4>1. CASE ~mem.hasProxy
        <5>1. jobs # RecordAlone
          BY <1>4, <4>1 DEF Applying
        <5>2. "add" \in Range(jobs)
          BY <1>1, <1>4, <5>1, ApplyJobFacts
        <5> QED BY <1>4, <5>2 DEF Applying
      <4>2. CASE ~Firewalled
        BY <1>4, <4>2, NoRules DEF Firewalled, Session
      <4> QED BY <2>4, <4>1, <4>2 DEF Rerecord
    <3>4. found.rules = original.rules
      BY <1>4, <3>1, <3>2 DEF Applying
    <3>5. found = original
      BY <1>4, <3>2, <3>3, <3>4, SameSnapshot
    <3>6. Firewall'
      BY <1>1, <1>2, <2>1, <3>2 DEF Firewall
    <3> QED BY <1>1, <1>2, <2>1, <3>5, <3>6 DEF Undone
  <2> QED BY <2>3, <2>4
<1>6. CASE left = <<"write">>
  <2>1. file' = mem /\ Past
    BY <1>1, <1>3, <1>6, PastWritten
  <2>2. found = original
    BY <1>1, <2>1 DEF Undone
  <2>3. Firewall'
    BY <1>1, <1>2, <1>4, <2>1, <2>2 DEF Firewall, Session
  <2>4. file'.hasProxy => file'.proxy = original'.wininet
    BY <1>2, <1>4, <2>1, <2>2 DEF Session
  <2> QED BY <1>1, <1>2, <2>2, <2>3, <2>4 DEF Undone
<1> QED BY <1>1, <1>5, <1>6

\* The other calls of Apply change only what the file already says (enforcer_windows.go:111-158).
LEMMA ApplyStepUndone ==
  ASSUME Typed, Typed', Files, Returned, Undone, pc = "apply", Steps, ~writeState
  PROVE  Undone'
<1>1. UNCHANGED <<pc, jobs, mem, original, found>>
  BY StepFrame
<1>2. Session /\ Applying /\ jobs \in ApplyJobs
  BY DEF Returned, Typed, Plan
<1>3. CASE removeRule \/ addProxyAllowRule \/ addExceptionRule \/ addBlockRule \/ setDefaultOutbound
  <2>1. /\ Head(jobs) \in {"purge", "add", "flip"} /\ file' = file
        /\ Head(jobs) = "flip" \/ outbound' = outbound
        /\ rules' \subseteq rules \cup Range(mem.rules)
    <3>1. CASE removeRule
      BY <3>1, RemoveDoes
    <3>2. CASE addProxyAllowRule \/ addExceptionRule \/ addBlockRule
      BY <3>2, AddDoes
    <3>3. CASE setDefaultOutbound
      BY <3>3, FlipDoes
    <3> QED BY <1>3, <3>1, <3>2, <3>3
  <2>2. Past /\ ~Filling /\ (Past' <=> Past) /\ ~Filling'
    BY <1>2, <2>1, PastWhen, PastKept
  <2>3. file.kind = "state" /\ file.rules = mem.rules /\ file.global = mem.global
    BY <2>2 DEF Files
  <2>4. Head(jobs) = "flip" => mem.global
    <3>1. Head(jobs) \in Range(jobs)
      BY <1>2, ApplyJobFacts
    <3> QED BY <1>2, <3>1 DEF Applying
  <2>5. Firewall
    BY <2>2 DEF Undone
  <2>6. Firewall'
    BY <1>1, <2>1, <2>3, <2>4, <2>5 DEF Firewall
  <2> QED BY <1>1, <2>1, <2>2, <2>6 DEF Undone
<1>4. CASE setSystemProxy
  <2>1. Head(jobs) = "point" /\ UNCHANGED <<outbound, rules, file>>
    BY <1>4, PointDoes
  <2>2. (Past' <=> Past) /\ ~Filling' /\ ~Filling
    BY <2>1, PastKept
  <2>3. Firewall'
    BY <1>1, <2>1, <2>2, FirewallKept DEF Undone
  <2> QED BY <1>1, <2>1, <2>2, <2>3 DEF Undone
<1>5. CASE clearState \/ restoreDefaultOutbound \/ restoreSystemProxy
  BY <1>5, ClearDoes, DefaultsDoes, SettingsDoes
<1> QED BY <1>3, <1>4, <1>5 DEF Steps

\* A call of an undo brings the machine nearer to the user's; a rule it leaves alone is not ours
\* (enforcer_windows.go:189-213, 428-477).
LEMMA UndoStepUndone ==
  ASSUME Typed, Typed', Undone, Clean, Clean', pc = "undo", Steps
  PROVE  Undone'
<1>1. /\ UNCHANGED <<pc, jobs, mem, original, found>> /\ left # <<>>
      /\ original \in Snapshot /\ original.rules = Foreign /\ fails' = fails
  BY StepFrame DEF Typed, Matter, Clean
<1>2. removeRule /\ Skipped => Head(left) \in original.rules
  <2> SUFFICES ASSUME removeRule, Skipped PROVE Head(left) \in Foreign
    BY <1>1
  <2>1. Head(left) \in Range(mem.rules)
    BY RemoveDoes
  <2>2. Range(mem.rules) \subseteq Own \cup Foreign
    BY RecordTyped DEF Typed, ProcessOK
  <2> QED BY <2>1, <2>2 DEF Skipped, isOwnRuleName
<1>3. Undoing(original)
  BY DEF Undone
<1>4. /\ mem'.global => mem'.saved = original.outbound
      /\ mem'.hasProxy => mem'.proxy = original.wininet
      /\ \A p \in Range(blockedProfiles) :
            outbound'[p] = original.outbound[p] \/ (mem'.global /\ Pending("defaults", p)')
      /\ \A v \in Range(WinINET) :
            wininet'[v] = original.wininet[v] \/ (mem'.hasProxy /\ Pending("wininet", v)')
      /\ \A r \in rules' : r \in original.rules \/ (r \in Range(mem'.rules) /\ Pending("rules", r)')
  BY <1>1, <1>2, <1>3, UndoingStep
<1>5. Undoing(original)'
  BY <1>1, <1>4 DEF Undoing
<1>6. file'.hasProxy => file'.proxy = original'.wininet
  <2>1. CASE clearState
    BY <1>1, <2>1, ClearDoes, BlankTyped
  <2>2. CASE ~clearState
    <3>1. file' = file
      <4>1. CASE writeState \/ setDefaultOutbound \/ setSystemProxy
        BY <4>1, WriteDoes, FlipDoes, PointDoes
      <4>2. CASE addProxyAllowRule \/ addExceptionRule \/ addBlockRule
        BY <4>2, AddDoes
      <4>3. CASE removeRule \/ restoreDefaultOutbound \/ restoreSystemProxy
        BY <4>3, RemoveDoes, DefaultsDoes, SettingsDoes
      <4> QED BY <2>2, <4>1, <4>2, <4>3 DEF Steps
    <3> QED BY <1>1, <3>1 DEF Undone
  <2> QED BY <2>1, <2>2
<1> QED BY <1>1, <1>5, <1>6 DEF Undone

\* Apply goes on with its record written.
LEMMA ApplyNextUndone ==
  ASSUME Typed, Typed', Files, Returned, Undone, ApplyNext
  PROVE  Undone'
<1>1. /\ pc = "apply" /\ left = <<>> /\ UNCHANGED <<outbound, rules, wininet, file, original, found>>
      /\ Len(jobs) = 1 => pc' = "running"
      /\ Len(jobs) # 1 => pc' = "apply"
  BY ApplyNextDoes
<1>2. Session /\ Applying
  BY <1>1 DEF Returned
<1>3. /\ ~Filling
      /\ Len(jobs) = 1 => Past /\ (~mem.hasProxy \/ Head(jobs) = "record")
      /\ Len(jobs) # 1 => ~Filling' /\ (Past' => Past)
  BY <1>2, PastNext
<1>4. Firewall'
  BY <1>1, <1>3, FirewallKept DEF Undone
<1>5. CASE Len(jobs) = 1
  <2>1. file = mem /\ found = original
    BY <1>1, <1>3, <1>5 DEF Files, Undone
  <2>2. wininet = original.wininet \/ file.hasProxy
    BY <1>2, <2>1 DEF Session
  <2> QED BY <1>1, <1>4, <1>5, <2>1, <2>2 DEF Undone
<1>6. CASE Len(jobs) # 1
  BY <1>1, <1>3, <1>4, <1>6 DEF Undone
<1> QED BY <1>5, <1>6

\* An undo that has failed nowhere gives up nowhere: it goes on, or the user's machine is back and
\* the file is gone (enforcer_windows.go:189-213, 463-476).
LEMMA UndoNextUndone ==
  ASSUME Typed, Typed', Files, Undone, Clean, UndoNext
  PROVE  Undone'
<1>1. /\ pc = "undo" /\ left = <<>> /\ jobs \in UndoJobs
      /\ UNCHANGED <<outbound, rules, wininet, file, original, found>>
      /\ Len(jobs) = 1 \/ (bad /\ Head(jobs) \in fatal) => pc' = then
      /\ ~(Len(jobs) = 1 \/ (bad /\ Head(jobs) \in fatal)) => pc' = "undo"
  BY UndoNextDoes
<1>2. then \in {"ready", "down"} /\ original \in Snapshot /\ original.rules = Foreign
  BY DEF Typed, ProcessOK, Matter
<1>3. Undoing(original)
  BY <1>1 DEF Undone
<1>4. ~bad /\ fatal # {} /\ ~(fails > 0)
  <2>1. fails = 0 /\ ~(0 >= 1) /\ ~(0 > 0)
    BY DEF Clean
  <2> QED BY <1>1, <2>1 DEF Typed, Plan
<1>5. CASE Len(jobs) = 1 \/ (bad /\ Head(jobs) \in fatal)
  <2>1. Len(jobs) = 1 /\ pc' = then
    BY <1>1, <1>4, <1>5
  <2>2. jobs = ClearAlone
    BY <1>1, <1>4, <2>1, UndoJobFacts DEF Typed, Plan
  <2>3. file.kind = "none"
    BY <1>1, <1>4, <2>2 DEF Files
  <2>4. outbound = original.outbound /\ wininet = original.wininet /\ rules \subseteq original.rules
    BY <1>1, <1>2, <1>3, <2>1, UndoingEnds
  <2>5. Firewall'
    BY <1>1, <1>2, <2>3, <2>4 DEF Firewall
  <2> QED BY <1>1, <1>2, <2>1, <2>4, <2>5 DEF Undone
<1>6. CASE ~(Len(jobs) = 1 \/ (bad /\ Head(jobs) \in fatal))
  <2>1. /\ mem'.global => mem'.saved = original.outbound
        /\ mem'.hasProxy => mem'.proxy = original.wininet
        /\ \A p \in Range(blockedProfiles) :
              outbound'[p] = original.outbound[p] \/ (mem'.global /\ Pending("defaults", p)')
        /\ \A v \in Range(WinINET) :
              wininet'[v] = original.wininet[v] \/ (mem'.hasProxy /\ Pending("wininet", v)')
        /\ \A r \in rules' : r \in original.rules \/ (r \in Range(mem'.rules) /\ Pending("rules", r)')
    BY <1>2, <1>3, <1>6, UndoingNext
  <2>2. Undoing(original)'
    BY <1>1, <2>1 DEF Undoing
  <2> QED BY <1>1, <1>6, <2>2 DEF Undone
<1> QED BY <1>5, <1>6

\* The end of a session: it undoes what it holds in memory, which leads back to the user's machine
\* (enforcer_windows.go:189-213).
LEMMA RestoreUndone ==
  ASSUME Typed, Typed', Returned, Undone, restore
  PROVE  Undone'
<1>1. /\ pc \in {"running", "suspended"} /\ mem' = mem /\ mem.kind \in {"none", "state"}
      /\ UNCHANGED <<outbound, rules, wininet, file, original, found>>
      /\ mem.kind = "none" => pc' = "down"
      /\ mem.kind = "state" =>
           /\ pc' = "undo" /\ "wininet" \in Range(jobs')
           /\ Firewalled => "defaults" \in Range(jobs') /\ "rules" \in Range(jobs')
           /\ left' = Items(Head(jobs'), mem')
  BY RestoreDoes
<1>2. CASE mem.kind = "none"
  <2>1. Firewall'
    BY <1>1, FirewallKept DEF Undone
  <2> QED BY <1>1, <1>2, <2>1 DEF Undone
<1>3. CASE mem.kind = "state"
  <2>1. Session /\ found = original
    BY <1>1, <1>3 DEF Returned, Undone
  <2>2. mem \in enforcementState /\ Recordable(mem) /\ original \in Snapshot
    BY DEF Typed, Matter, ProcessOK
  <2>3. ~Firewalled => outbound = original.outbound /\ rules \subseteq original.rules
    BY <2>1, <2>2, NoRules, EmptyFacts DEF Firewalled, Session
  <2>4. /\ mem.global => mem.saved = original.outbound
        /\ mem.hasProxy => mem.proxy = original.wininet
        /\ outbound = original.outbound \/ (mem.global /\ "defaults" \in Range(jobs'))
        /\ wininet = original.wininet \/ (mem.hasProxy /\ "wininet" \in Range(jobs'))
        /\ rules \subseteq original.rules
             \/ (rules \subseteq original.rules \cup Range(mem.rules) /\ "rules" \in Range(jobs'))
    BY <1>1, <1>3, <2>1, <2>3 DEF Session
  <2>5. pc' = "undo" /\ left' = Items(Head(jobs'), mem')
    BY <1>1, <1>3
  <2>6. /\ mem'.global => mem'.saved = original.outbound
        /\ mem'.hasProxy => mem'.proxy = original.wininet
        /\ outbound' = original.outbound \/ (mem'.global /\ "defaults" \in Range(jobs'))
        /\ wininet' = original.wininet \/ (mem'.hasProxy /\ "wininet" \in Range(jobs'))
        /\ rules' \subseteq original.rules
             \/ (rules' \subseteq original.rules \cup Range(mem'.rules) /\ "rules" \in Range(jobs'))
    BY <1>1, <2>4
  <2>7. /\ mem'.global => mem'.saved = original.outbound
        /\ mem'.hasProxy => mem'.proxy = original.wininet
        /\ \A p \in Range(blockedProfiles) :
              outbound'[p] = original.outbound[p] \/ (mem'.global /\ Pending("defaults", p)')
        /\ \A v \in Range(WinINET) :
              wininet'[v] = original.wininet[v] \/ (mem'.hasProxy /\ Pending("wininet", v)')
        /\ \A r \in rules' : r \in original.rules \/ (r \in Range(mem'.rules) /\ Pending("rules", r)')
    BY <2>2, <2>5, <2>6, UndoingBegins
  <2>8. Undoing(original)'
    BY <1>1, <2>7 DEF Undoing
  <2> QED BY <1>1, <2>5, <2>8 DEF Undone
<1> QED BY <1>1, <1>2, <1>3

\* The process dies: what it had changed is in the file, or put back.
LEMMA CrashUndone ==
  ASSUME Typed, Typed', Files, Undone, Clean, Clean', Crash
  PROVE  Undone'
<1>1. /\ pc' = "down" /\ Torn \subseteq mishaps'
      /\ UNCHANGED <<outbound, rules, wininet, file, original>>
      /\ pc = "apply" /\ wininet # found.wininet /\ ~file.hasProxy => "unrecorded" \in mishaps'
  BY CrashDoes
<1>2. "torn" \notin mishaps' /\ "unrecorded" \notin mishaps'
  BY DEF Clean
<1>3. file'.hasProxy => file'.proxy = original'.wininet
  BY <1>1 DEF Undone
<1>4. Firewall /\ (wininet = original.wininet \/ file.hasProxy)
  <2>1. CASE pc = "apply"
    <3>1. <<"write">> # <<>>
      OBVIOUS
    <3>2. ~(Filling /\ Rerecord)
      BY <1>1, <1>2, <2>1, <3>1 DEF Torn, Working, Filling
    <3> QED BY <1>1, <1>2, <2>1, <3>2 DEF Undone
  <2>2. CASE pc = "undo"
    <3>1. Undoing(original) /\ original \in Snapshot /\ original.rules = Foreign
      BY <2>2 DEF Undone, Typed, Matter
    <3>2. fatal # {}
      <4>1. fails = 0 /\ ~(0 >= 1)
        BY DEF Clean
      <4> QED BY <2>2, <4>1 DEF Typed, Plan
    <3>3. CASE jobs = ClearAlone /\ left = <<>>
      <4>1. Len(jobs) = 1
        BY <3>3 DEF ClearAlone
      <4>2. outbound = original.outbound /\ wininet = original.wininet /\ rules \subseteq original.rules
        BY <2>2, <3>1, <3>3, <4>1, UndoingEnds
      <4> QED BY <3>1, <4>2 DEF Firewall
    <3>4. CASE ~(jobs = ClearAlone /\ left = <<>>)
      <4>1. file = mem
        BY <2>2, <3>2, <3>4 DEF Files
      <4>2. /\ mem \in enforcementState /\ Recordable(mem) /\ outbound \in Outbound /\ wininet \in Settings
            /\ original.outbound \in Outbound /\ original.wininet \in Settings
        BY <3>1 DEF Typed, ProcessOK, Matter, Snapshot
      <4>3. outbound = original.outbound \/ mem.global
        <5>1. ~mem.global => \A p \in Range(blockedProfiles) : outbound[p] = original.outbound[p]
          BY <3>1 DEF Undoing
        <5> QED BY <4>2, <5>1 DEF Outbound
      <4>4. wininet = original.wininet \/ mem.hasProxy
        <5>1. ~mem.hasProxy => \A v \in Range(WinINET) : wininet[v] = original.wininet[v]
          BY <3>1 DEF Undoing
        <5> QED BY <4>2, <5>1 DEF Settings
      <4>5. rules \subseteq Foreign \cup Range(mem.rules)
        BY <3>1 DEF Undoing
      <4>6. mem.kind # "state" => outbound = original.outbound /\ rules \subseteq Foreign
        BY <4>2, <4>3, <4>5, EmptyFacts DEF Recordable
      <4> QED BY <4>1, <4>3, <4>4, <4>5, <4>6 DEF Firewall
    <3> QED BY <3>3, <3>4
  <2>3. CASE pc \notin {"apply", "undo"}
    BY <2>3 DEF Undone
  <2> QED BY <2>1, <2>2, <2>3
<1>5. Firewall'
  BY <1>1, <1>4, FirewallKept
<1> QED BY <1>1, <1>3, <1>4, <1>5 DEF Undone

\* Every step leaves a file from which an elevated start can undo everything.
LEMMA NextUndoable ==
  ASSUME Typed, Typed', Files, Returned, Recoverable, Undoable, Step
  PROVE  Undoable'
<1> SUFFICES ASSUME Clean' PROVE Undone'
  BY DEF Undoable
<1>1. Clean /\ Undone /\ Unblockable
  BY CleanBefore DEF Undoable, Recoverable
<1>2. fails = 0 /\ fails' = 0 /\ fails' # fails + 1
  BY <1>1 DEF Clean
<1>3. CASE (\E e \in BOOLEAN : Start(e)) \/ RecoverNothing
  <2>1. /\ pc \in {"down", "recover"} /\ pc' \in {"recover", "ready"}
        /\ UNCHANGED <<outbound, rules, wininet, file, original>>
    BY <1>3, QuietDoes
  <2>2. Firewall'
    BY <1>1, <2>1, FirewallKept DEF Undone
  <2> QED BY <1>1, <2>1, <2>2 DEF Undone
<1>4. CASE RecoverProxyOnly \/ Recover
  BY <1>1, <1>4, RecoverUndone
<1>5. CASE \E s \in EnforceSpec :
             ApplyNothing(s) \/ ApplyRefused(s) \/ Apply(s) \/ applySystemProxyOnly(s)
  BY <1>1, <1>5, ReadyUndone
<1>6. CASE Steps
  <2>1. CASE writeState
    BY <1>1, <2>1, WriteUndone
  <2>2. CASE ~writeState /\ pc = "apply"
    BY <1>1, <1>6, <2>2, ApplyStepUndone
  <2>3. CASE pc = "undo"
    BY <1>1, <1>6, <2>3, UndoStepUndone
  <2> QED BY <1>6, <2>1, <2>2, <2>3, StepFrame
<1>7. CASE ApplyFails \/ UndoFails
  BY <1>2, <1>7, ApplyFailsDoes, UndoFailsDoes
<1>8. CASE ApplyNext
  BY <1>1, <1>8, ApplyNextUndone
<1>9. CASE UndoNext
  BY <1>1, <1>9, UndoNextUndone
<1>10. CASE Suspend
  <2>1. /\ pc = "running" /\ pc' = "suspended"
        /\ UNCHANGED <<outbound, rules, wininet, file, original, found, mem>>
    BY <1>10, SuspendDoes
  <2>2. Firewall'
    BY <1>1, <2>1, FirewallKept DEF Undone
  <2> QED BY <1>1, <2>1, <2>2 DEF Undone
<1>11. CASE restore
  BY <1>1, <1>11, RestoreUndone
<1>12. CASE Crash
  BY <1>1, <1>12, CrashUndone
<1>13. CASE UNCHANGED vars
  <2>1. UNCHANGED <<outbound, rules, wininet, file, pc, mem, jobs, left>>
    BY <1>13 DEF vars, machine, work
  <2>2. UNCHANGED <<original, found>>
    BY <1>13 DEF vars, history
  <2> QED BY <1>1, <2>1, <2>2 DEF Undone, Undoing, Firewall, Pending, Past, Filling, Firewalled, Rerecord
<1> QED BY <1>3, <1>4, <1>5, <1>6, <1>7, <1>8, <1>9, <1>10, <1>11, <1>12, <1>13 DEF Step, Work, Lifetime
-----------------------------------------------------------------------------
(* The exceptions are enabled until a kill suspends them.                   *)

Enabled ==
  /\ pc = "apply" /\ "add" \notin Range(jobs) /\ mem.global => disabled = {}
  /\ pc = "apply" /\ Head(jobs) = "add" /\ mem.global => disabled \subseteq Range(left)
  /\ pc = "running" /\ mem.global => disabled = {} /\ Range(AllowNames) \subseteq rules

\* Installing a rule enables it (enforcer_windows.go:117-137); only a kill disables one.
LEMMA StepsEnabled == ASSUME Typed, Enabled, Steps PROVE Enabled'
<1>1. /\ pc \in {"apply", "undo"} /\ left # <<>> /\ left' = Tail(left)
      /\ UNCHANGED <<pc, jobs, mem>>
  BY StepFrame
<1>2. disabled' \subseteq disabled /\ (Head(jobs) = "add" => disabled' = disabled \ {Head(left)})
  <2>1. CASE writeState \/ clearState
    BY <2>1 DEF writeState, clearState, machine, Working
  <2>2. CASE removeRule
    BY <2>2 DEF removeRule, Working
  <2>3. CASE addProxyAllowRule \/ addExceptionRule \/ addBlockRule
    BY <2>3 DEF addProxyAllowRule, addExceptionRule, addBlockRule, AddRule
  <2>4. CASE setDefaultOutbound \/ restoreDefaultOutbound
    BY <2>4 DEF setDefaultOutbound, restoreDefaultOutbound, Working
  <2>5. CASE setSystemProxy \/ restoreSystemProxy
    BY <2>5 DEF setSystemProxy, restoreSystemProxy, Working
  <2> QED BY <2>1, <2>2, <2>3, <2>4, <2>5 DEF Steps
<1>3. \A x \in Range(left) : x = Head(left) \/ x \in Range(Tail(left))
  BY <1>1, HeadItem
<1>4. pc' = "apply" /\ "add" \notin Range(jobs') /\ mem'.global => disabled' = {}
  BY <1>1, <1>2 DEF Enabled
<1>5. pc' = "apply" /\ Head(jobs') = "add" /\ mem'.global => disabled' \subseteq Range(left')
  BY <1>1, <1>2, <1>3 DEF Enabled
<1>6. pc' # "running"
  BY <1>1
<1> QED BY <1>4, <1>5, <1>6 DEF Enabled

\* With all rules in, all exceptions are (enforcer_windows.go:117-183).
LEMMA ApplyNextEnabled == ASSUME Typed, Returned, Enabled, ApplyNext PROVE Enabled'
<1>1. /\ pc = "apply" /\ left = <<>> /\ jobs \in ApplyJobs /\ rules' = rules
      /\ Len(jobs) = 1 => pc' = "running" /\ mem' = mem
      /\ Len(jobs) # 1 =>
           /\ pc' = "apply" /\ jobs' = Tail(jobs) /\ left' = Items(Head(jobs'), mem')
           /\ mem'.global = mem.global /\ mem'.rules = mem.rules
  BY ApplyNextDoes
<1>2. disabled' = disabled
  BY DEF ApplyNext, machine
<1>3. Applying
  BY <1>1 DEF Returned
<1>4. mem.global /\ (Head(jobs) = "add" \/ "add" \notin Range(jobs))
        => disabled = {} /\ Range(AllowNames) \subseteq rules
  <2>1. Range(left) = {}
    BY <1>1, EmptyFacts
  <2> QED BY <1>1, <1>3, <2>1 DEF Enabled, Applying
<1>5. CASE Len(jobs) = 1
  <2>1. Head(jobs) = "add" \/ "add" \notin Range(jobs)
    BY <1>1, <1>5, ApplyJobFacts
  <2> QED BY <1>1, <1>2, <1>4, <1>5, <2>1 DEF Enabled
<1>6. CASE Len(jobs) # 1
  <2>1. /\ Head(jobs) # "add" => ("add" \in Range(Tail(jobs)) <=> "add" \in Range(jobs))
        /\ Head(jobs) = "add" => "add" \notin Range(Tail(jobs))
    BY <1>1, <1>6, ApplyJobFacts
  <2>2. pc' = "apply" /\ "add" \notin Range(jobs') /\ mem'.global => disabled' = {}
    BY <1>1, <1>2, <1>4, <1>6, <2>1
  <2>3. Head(jobs') = "add" /\ mem'.global => disabled' \subseteq Range(left')
    <3>1. mem' \in enforcementState /\ disabled \subseteq Range(AllowNames)
      BY ApplyNextTyped DEF Typed, ProcessOK
    <3>2. PICK m \in enforcementState : m = mem'
      BY <3>1
    <3>3. m.global => Range(AllowNames) \subseteq Range(addOrder(m))
      BY AddOrderFacts
    <3>4. Head(jobs') = "add" => left' = addOrder(m)
      BY <1>1, <1>6, <3>2, ItemsAre
    <3> QED BY <1>2, <3>1, <3>2, <3>3, <3>4
  <2> QED BY <1>1, <1>6, <2>2, <2>3 DEF Enabled
<1> QED BY <1>5, <1>6

\* An Apply begins before any rule is in, or holds no global block.
LEMMA ApplyEnabled ==
  ASSUME Typed, NEW s \in EnforceSpec,
         ApplyNothing(s) \/ ApplyRefused(s) \/ Apply(s) \/ applySystemProxyOnly(s)
  PROVE  Enabled'
<1>1. CASE ApplyNothing(s)
  <2>1. original \in Snapshot
    BY DEF Typed, Matter
  <2>2. pc' = "running" /\ mem'.global = FALSE
    BY <1>1, <2>1, ApplyNothingDoes, BlankTyped
  <2> QED BY <2>2 DEF Enabled
<1>2. CASE ApplyRefused(s)
  BY <1>2, ApplyRefusedDoes DEF Enabled
<1>3. CASE Apply(s)
  <2>1. pc' = "apply" /\ jobs' = ApplyOrder(s)
    BY <1>3, ApplyDoes
  <2>2. Head(jobs') = "record" /\ "add" \in Range(jobs')
    BY <2>1, OrderFacts
  <2> QED BY <2>1, <2>2 DEF Enabled
<1>4. CASE applySystemProxyOnly(s)
  <2>1. pc' = "apply" /\ mem'.global = FALSE
    BY <1>4, ProxyOnlyDoes
  <2> QED BY <2>1 DEF Enabled
<1> QED BY <1>1, <1>2, <1>3, <1>4

LEMMA NextEnabled == ASSUME Typed, Returned, Enabled, Step PROVE Enabled'
<1>1. CASE \E e \in BOOLEAN : Start(e)
  <2>1. pc' = "recover"
    BY <1>1 DEF Start, Rest
  <2> QED BY <2>1 DEF Enabled
<1>2. CASE RecoverNothing
  <2>1. pc' = "ready"
    BY <1>2 DEF RecoverNothing, Rest
  <2> QED BY <2>1 DEF Enabled
<1>3. CASE RecoverProxyOnly \/ Recover
  <2>1. pc' = "undo"
    BY <1>3, RecoverDoes
  <2> QED BY <2>1 DEF Enabled
<1>4. CASE \E s \in EnforceSpec :
             ApplyNothing(s) \/ ApplyRefused(s) \/ Apply(s) \/ applySystemProxyOnly(s)
  BY <1>4, ApplyEnabled
<1>5. CASE Steps
  BY <1>5, StepsEnabled
<1>6. CASE ApplyFails
  <2>1. pc' \in {"down", "undo"}
    BY <1>6, ApplyFailsDoes
  <2> QED BY <2>1 DEF Enabled
<1>7. CASE UndoFails
  <2>1. pc' = "undo"
    BY <1>7, UndoFailsDoes
  <2> QED BY <2>1 DEF Enabled
<1>8. CASE ApplyNext
  BY <1>8, ApplyNextEnabled
<1>9. CASE UndoNext
  <2>1. pc' \in {"undo", "ready", "down"}
    BY <1>9, UndoNextDoes DEF Typed, ProcessOK
  <2> QED BY <2>1 DEF Enabled
<1>10. CASE Suspend
  <2>1. pc' = "suspended"
    BY <1>10, SuspendDoes
  <2> QED BY <2>1 DEF Enabled
<1>11. CASE restore
  <2>1. pc' \in {"undo", "down"}
    BY <1>11, RestoreDoes
  <2> QED BY <2>1 DEF Enabled
<1>12. CASE Crash
  <2>1. pc' = "down"
    BY <1>12, CrashDoes
  <2> QED BY <2>1 DEF Enabled
<1>13. CASE UNCHANGED vars
  <2>1. UNCHANGED <<pc, jobs, left, mem, rules, disabled>>
    BY <1>13 DEF vars, machine, work
  <2> QED BY <2>1 DEF Enabled
<1> QED BY <1>1, <1>2, <1>3, <1>4, <1>5, <1>6, <1>7, <1>8, <1>9, <1>10, <1>11, <1>12, <1>13
        DEF Step, Work, Lifetime

-----------------------------------------------------------------------------
(* Threads that were given up on.                                           *)

Threads == adrift \subseteq Thread

\* A sequence of calls on rules, and one on profiles.
LEMMA RuleCalls ==
  ASSUME NEW m \in enforcementState, NEW j \in {"purge", "add", "rules", "suspend"},
         NEW items \in Seq(Own \cup Foreign)
  PROVE  Calls(j, items, m) \in Seq(Call)
<1>1. Act(j) \in {"remove", "add", "disable"}
  BY DEF Act
<1>2. \A i \in 1 .. Len(items) : items[i] \in Own \cup Foreign
  OBVIOUS
<1>3. \A i \in 1 .. Len(items) :
        [act |-> Act(j), item |-> items[i], to |-> "block"] \in Call
  BY <1>1, <1>2 DEF Call
<1>4. Calls(j, items, m) = [i \in 1 .. Len(items) |->
                              [act |-> Act(j), item |-> items[i], to |-> "block"]]
  BY DEF Calls
<1> QED BY <1>3, <1>4

LEMMA ProfileCalls ==
  ASSUME NEW m \in enforcementState, NEW j \in {"flip", "defaults"},
         NEW items \in Seq(Range(blockedProfiles))
  PROVE  Calls(j, items, m) \in Seq(Call)
<1>1. Act(j) \in {"block", "restore"}
  BY DEF Act
<1>2. m.saved \in Outbound
  BY RecordTyped
<1>3. \A i \in 1 .. Len(items) :
        /\ items[i] \in Range(blockedProfiles)
        /\ (IF j = "defaults" THEN m.saved[items[i]] ELSE "block") \in {"allow", "block"}
  BY <1>2 DEF Outbound
<1>4. \A i \in 1 .. Len(items) :
        [act |-> Act(j), item |-> items[i],
         to |-> IF j = "defaults" THEN m.saved[items[i]] ELSE "block"] \in Call
  BY <1>1, <1>3 DEF Call
<1>5. Calls(j, items, m) =
        [i \in 1 .. Len(items) |->
           [act |-> Act(j), item |-> items[i],
            to |-> IF j = "defaults" THEN m.saved[items[i]] ELSE "block"]]
  BY DEF Calls
<1> QED BY <1>4, <1>5

LEMMA GoesOnTyped ==
  ASSUME NEW calls \in Seq(Call), NEW names \in Seq(Own \cup Foreign)
  PROVE  GoesOn(calls, names) \subseteq Thread
BY DEF GoesOn, Thread

\* A sequence over a set is one over a larger set.
LEMMA SeqGrows == ASSUME NEW S, NEW T, S \subseteq T, NEW s \in Seq(S) PROVE s \in Seq(T)
OBVIOUS

\* What the thread of a job has yet to do are calls.
LEMMA UnmadeTyped ==
  ASSUME Typed, pc \in {"apply", "undo"}, Head(jobs) \in COMJobs
  PROVE  Unmade \in Seq(Call)
<1>1. mem \in enforcementState /\ left \in Seq(Range(Items(Head(jobs), mem)))
  BY DEF Typed, ProcessOK, Plan
<1>2. /\ Range(mem.rules) \subseteq Own \cup Foreign
      /\ addOrder(mem) \in Seq(Range(addOrder(mem))) /\ Range(addOrder(mem)) \subseteq Own \cup Foreign
  BY <1>1, RecordTyped, AddOrderFacts DEF Typed, Matter
<1>3. addOrder(mem) \in Seq(Own \cup Foreign)
  BY <1>2
<1>8. PICK S : S = Range(Items(Head(jobs), mem))
  OBVIOUS
<1>9. left \in Seq(S)
  BY <1>1, <1>8
<1>4. Head(jobs) \in {"purge", "add", "rules"} => left \in Seq(Own \cup Foreign)
  <2> SUFFICES ASSUME Head(jobs) \in {"purge", "add", "rules"} PROVE left \in Seq(Own \cup Foreign)
    OBVIOUS
  <2>1. Items(Head(jobs), mem) \in {mem.rules, addOrder(mem)}
    BY ItemsAre
  <2>2. S \subseteq Own \cup Foreign
    BY <1>2, <1>8, <2>1
  <2> QED BY <1>9, <2>2, SeqGrows
<1>5. Head(jobs) \in {"flip", "defaults"} => left \in Seq(Range(blockedProfiles))
  <2> SUFFICES ASSUME Head(jobs) \in {"flip", "defaults"} PROVE left \in Seq(Range(blockedProfiles))
    OBVIOUS
  <2>1. Items(Head(jobs), mem) \in {blockedProfiles, <<>>}
    BY ItemsAre
  <2>2. S \subseteq Range(blockedProfiles)
    BY <1>8, <2>1, EmptyFacts
  <2> QED BY <1>9, <2>2, SeqGrows
<1>6. Calls(Head(jobs), left, mem) \in Seq(Call)
  BY <1>1, <1>4, <1>5, RuleCalls, ProfileCalls DEF COMJobs
<1>7. Calls("add", addOrder(mem), mem) \in Seq(Call) /\ <<>> \in Seq(Call)
  BY <1>1, <1>3, RuleCalls, EmptyFacts
<1> QED BY <1>6, <1>7 DEF Unmade

\* A thread is given up on (firewall_windows.go:222-270): the process goes on as after an error.
LEMMA TimeOutTyped == ASSUME Typed, Threads, TimeOut PROVE Typed' /\ Threads' /\ fails' >= 1
<1>1. /\ ProcessOK /\ Matter /\ Plan /\ pc \in {"apply", "undo"} /\ Head(jobs) \in COMJobs
      /\ fails < MaxFails /\ fails' = fails + 1 /\ mishaps' = mishaps \cup {"timedOut"}
      /\ mem \in enforcementState /\ ended = "never"
  BY DEF Typed, TimeOut, ProcessOK, Plan
<1>2. UNCHANGED <<machine, file, elevated, history, ended, crashes>>
  BY DEF TimeOut
<1>3. fails \in Nat /\ fails' \in Nat /\ fails' \in 0 .. MaxFails /\ fails' >= 1 /\ (fails >= 1 => fails' >= 2)
  BY <1>1, Counts
<1>4. mishaps' \subseteq Mishap
  BY <1>1 DEF ProcessOK, Mishap
<1>5. Threads'
  <2>1. mem.rules \in Seq(Own \cup Foreign)
    BY <1>1, RecordTyped
  <2>2. adrift' = adrift \cup GoesOn(Unmade, mem.rules)
    BY DEF TimeOut
  <2> QED BY <1>1, <2>1, <2>2, UnmadeTyped, GoesOnTyped DEF Threads
<1>6. CASE pc = "apply"
  <2>1. PICK js \in UndoJobs : Begin("undo", js, mem, {}, "down") /\ js # ProxyAlone
    <3>1. /\ <<"rules", "clear">> \in UndoJobs /\ <<"clear">> \in UndoJobs
          /\ <<"rules", "clear">> # ProxyAlone /\ <<"clear">> # ProxyAlone
      BY DEF UndoJobs, ClearAlone, ProxyAlone
    <3> QED BY <1>6, <3>1 DEF TimeOut
  <2>2. ended' = "never"
    BY <1>1, <1>2
  <2>3. /\ Plan' /\ pc' = "undo" /\ mem' = mem /\ jobs' \in Seq(Job) /\ jobs' # <<>>
        /\ fatal' = {} /\ bad' = FALSE /\ then' = "down"
    BY <1>1, <1>3, <2>1, <2>2, UndoBegins
  <2>4. (pc' \in {"apply", "undo"}) = (jobs' # <<>>)
    BY <2>3
  <2>5. ProcessOK'
    BY <1>1, <1>2, <1>3, <1>4, <2>2, <2>3, <2>4 DEF ProcessOK, machine, history
  <2>6. Matter'
    BY <1>1, <1>2, <1>6, <2>3 DEF Matter, machine, history, Recordable
  <2> QED BY <1>3, <1>5, <2>3, <2>5, <2>6 DEF Typed
<1>7. CASE pc = "undo"
  <2>1. bad' = TRUE /\ left' = <<>> /\ UNCHANGED <<pc, jobs, fatal, then, mem>>
    BY <1>7 DEF TimeOut
  <2>2. left' \in Seq(Range(Items(Head(jobs), mem)))
    BY <2>1, EmptyFacts
  <2>3. Plan'
    BY <1>1, <1>2, <1>3, <1>7, <2>1, <2>2 DEF Plan
  <2>4. ProcessOK'
    BY <1>1, <1>2, <1>3, <1>4, <2>1 DEF ProcessOK, machine, history
  <2>5. Matter'
    BY <1>1, <1>2, <2>1 DEF Matter, machine, history, Recordable
  <2> QED BY <1>3, <1>5, <2>3, <2>4, <2>5 DEF Typed
<1> QED BY <1>1, <1>6, <1>7

\* So is the thread of Suspend (enforcer_windows.go:257-282).
LEMMA SuspendTimesOutTyped ==
  ASSUME Typed, Threads, SuspendTimesOut
  PROVE  Typed' /\ Threads' /\ fails' >= 1
<1>1. /\ ProcessOK /\ Matter /\ Plan /\ pc = "running" /\ pc' = "suspended" /\ jobs = <<>>
      /\ fails < MaxFails /\ fails' = fails + 1 /\ mishaps' = mishaps \cup {"timedOut"}
      /\ file \in enforcementState
  BY DEF Typed, SuspendTimesOut, ProcessOK
<1>2. UNCHANGED <<machine, file, elevated, mem, work, history, ended, crashes>>
  BY DEF SuspendTimesOut
<1>3. fails \in Nat /\ fails' \in Nat /\ fails' \in 0 .. MaxFails /\ fails' >= 1 /\ fails' >= fails
  BY <1>1, Counts
<1>4. mishaps' \subseteq Mishap
  BY <1>1 DEF ProcessOK, Mishap
<1>5. Threads'
  <2>1. file.rules \in Seq(Own \cup Foreign) /\ <<>> \in Seq(Own \cup Foreign)
    BY <1>1, RecordTyped, EmptyFacts
  <2>2. Calls("suspend", file.rules, file) \in Seq(Call)
    BY <1>1, <2>1, RuleCalls
  <2>3. adrift' = adrift \cup GoesOn(Calls("suspend", file.rules, file), <<>>)
    BY DEF SuspendTimesOut
  <2> QED BY <2>1, <2>2, <2>3, GoesOnTyped DEF Threads
<1>6. UNCHANGED <<jobs, left, fatal, bad, then>>
  BY <1>2 DEF work
<1>7. (pc' \in {"apply", "undo"}) = (jobs' # <<>>)
  BY <1>1, <1>6
<1>8. Plan'
  BY <1>1, <1>2, <1>3, <1>6 DEF Plan
<1>9. ProcessOK'
  BY <1>1, <1>2, <1>3, <1>4, <1>6, <1>7 DEF ProcessOK, machine, history
<1>10. Matter'
  BY <1>1, <1>2 DEF Matter, machine, history, Recordable
<1> QED BY <1>3, <1>5, <1>8, <1>9, <1>10 DEF Typed

\* A call made late keeps the types and the rules of others.
LEMMA LateTyped ==
  ASSUME Typed, Threads, NEW t \in adrift, CallsLate(t) \/ FailsLate(t)
  PROVE  Typed' /\ Threads' /\ UNCHANGED <<fails, mishaps>>
<1>1. /\ t \in Thread /\ t.calls \in Seq(Call) /\ t.calls # <<>> /\ t.names \in Seq(Own \cup Foreign)
      /\ mem \in enforcementState
  BY DEF Threads, Thread, Typed, ProcessOK
<1>2. PICK c \in Call : c = Head(t.calls)
  BY <1>1, TakeOne
<1>3. Tail(t.calls) \in Seq(Call) /\ <<>> \in Seq(Own \cup Foreign)
  BY <1>1, TakeOne, EmptyFacts
<1>4. UNCHANGED <<wininet, file, pc, elevated, mem, work, history, ended, crashes, fails, mishaps>>
  BY DEF CallsLate, FailsLate, machine
<1>5. UNCHANGED <<jobs, left, fatal, bad, then, original, found, sessions>>
  BY <1>4 DEF work, history
<1>6. Threads'
  <2>1. CASE CallsLate(t)
    <3>1. adrift' = (adrift \ {t}) \cup GoesOn(Tail(t.calls), t.names)
      BY <2>1 DEF CallsLate
    <3> QED BY <1>1, <1>3, <3>1, GoesOnTyped DEF Threads
  <2>2. CASE FailsLate(t)
    <3>1. Calls("rules", t.names, mem) \in Seq(Call)
      BY <1>1, RuleCalls
    <3>2. /\ GoesOn(Calls("rules", t.names, mem), <<>>) \subseteq Thread
          /\ GoesOn(Tail(t.calls), t.names) \subseteq Thread
      BY <1>1, <1>3, <3>1, GoesOnTyped
    <3>3. \/ adrift' = (adrift \ {t}) \cup GoesOn(Calls("rules", t.names, mem), <<>>)
          \/ adrift' = (adrift \ {t}) \cup {}
          \/ adrift' = (adrift \ {t}) \cup GoesOn(Tail(t.calls), t.names)
      BY <2>2 DEF FailsLate
    <3> QED BY <3>2, <3>3 DEF Threads
  <2> QED BY <2>1, <2>2
<1>7. /\ outbound' \in Outbound /\ rules' \subseteq Own \cup Foreign /\ Foreign \subseteq rules'
      /\ disabled' \subseteq Range(AllowNames)
  <2>0. /\ outbound \in Outbound /\ rules \subseteq Own \cup Foreign /\ Foreign \subseteq rules
        /\ disabled \subseteq Range(AllowNames)
    BY DEF Typed, ProcessOK, Matter
  <2>1. CASE FailsLate(t)
    BY <2>0, <2>1 DEF FailsLate, machine
  <2>2. CASE CallsLate(t)
    <3>1. outbound' \in Outbound
      <4>1. outbound' = outbound \/ outbound' = [outbound EXCEPT ![c.item] = c.to]
        BY <1>2, <2>2 DEF CallsLate
      <4>2. c.to \in {"allow", "block"}
        BY DEF Call
      <4> QED BY <2>0, <4>1, <4>2 DEF Outbound
    <3>2. \/ rules' = rules
          \/ isOwnRuleName(c.item) /\ rules' = rules \ {c.item}
          \/ c.act = "add" /\ rules' = rules \cup {c.item}
      BY <1>2, <2>2 DEF CallsLate
    <3>3. c.act = "add" => c.item \in Own \cup Foreign
      BY DEF Call
    <3>4. rules' \subseteq Own \cup Foreign /\ Foreign \subseteq rules'
      BY <2>0, <3>2, <3>3, NamesAre DEF isOwnRuleName
    <3>5. \/ disabled' = disabled \/ disabled' = disabled \ {c.item}
          \/ isAllowRuleName(c.item) /\ disabled' = disabled \cup ({c.item} \cap rules)
      BY <1>2, <2>2 DEF CallsLate
    <3>6. disabled' \subseteq Range(AllowNames)
      BY <2>0, <3>5 DEF isAllowRuleName
    <3> QED BY <3>1, <3>4, <3>6
  <2> QED BY <2>1, <2>2
<1>8. ProcessOK'
  BY <1>4, <1>5, <1>7 DEF Typed, ProcessOK
<1>9. Plan'
  BY <1>4, <1>5 DEF Typed, Plan
<1>10. Matter'
  BY <1>4, <1>5, <1>7 DEF Typed, Matter, Recordable
<1> QED BY <1>4, <1>6, <1>8, <1>9, <1>10 DEF Typed

-----------------------------------------------------------------------------
(* The theorems.                                                            *)

\* What holds as long as no thread was given up on.
Prompt == adrift = {} /\ Files /\ Returned /\ Recoverable /\ Undoable /\ Enabled

\* The inductive invariant: each part needs the ones before it.
Inv ==
  /\ Typed /\ Threads
  /\ "timedOut" \in mishaps => fails >= 1
  /\ "timedOut" \notin mishaps => Prompt

\* Such a step gives up on no thread.
LEMMA NoneGivenUp ==
  ASSUME Typed, Step, "timedOut" \notin mishaps
  PROVE  "timedOut" \notin mishaps'
<1>1. CASE Steps
  <2>1. CASE writeState
    BY <2>1 DEF writeState
  <2>2. CASE ~writeState
    BY <1>1, <2>2 DEF Steps, clearState, removeRule, addProxyAllowRule, addExceptionRule, addBlockRule,
                      AddRule, setDefaultOutbound, restoreDefaultOutbound, setSystemProxy,
                      restoreSystemProxy
  <2> QED BY <2>1, <2>2
<1>2. CASE ApplyFails \/ Crash
  BY <1>2 DEF ApplyFails, Crash, Torn
<1>3. CASE ~Steps /\ ~ApplyFails /\ ~Crash
  <2>1. mishaps' = mishaps
    BY <1>3 DEF Step, Work, Lifetime, Start, RecoverNothing, RecoverProxyOnly, Recover, ApplyNothing,
                ApplyRefused, Apply, applySystemProxyOnly, UndoFails, ApplyNext, UndoNext, Suspend,
                restore, vars
  <2> QED BY <2>1
<1> QED BY <1>1, <1>2, <1>3

\* A step of the process itself.
LEMMA StepInv ==
  ASSUME Inv, Step, adrift' \in {adrift, {}}
  PROVE  Inv'
<1>1. Typed /\ Threads /\ Typed'
  BY NextTyped DEF Inv
<1>2. mishaps \subseteq mishaps' /\ fails \in Nat /\ fails' \in Nat /\ fails' >= fails
  BY <1>1, Onwards
<1>3. Threads'
  BY <1>1 DEF Threads
<1>4. CASE "timedOut" \in mishaps
  BY <1>1, <1>2, <1>3, <1>4 DEF Inv
<1>5. CASE "timedOut" \notin mishaps
  <2>1. Prompt
    BY <1>5 DEF Inv
  <2>2. Files' /\ Returned' /\ Recoverable' /\ Undoable' /\ Enabled'
    BY <1>1, <2>1, NextFiles, NextReturned, NextRecoverable, NextUndoable, NextEnabled DEF Prompt
  <2>3. Prompt'
    BY <2>1, <2>2 DEF Prompt
  <2>4. "timedOut" \notin mishaps'
    BY <1>1, <1>5, NoneGivenUp
  <2> QED BY <1>1, <1>3, <2>3, <2>4 DEF Inv
<1> QED BY <1>4, <1>5

\* The inductive invariant of the enforcement, from the first process on.
LEMMA Invariance == Spec => []Inv
<1>1. Init => Inv
  <2> SUFFICES ASSUME Init PROVE Inv
    OBVIOUS
  <2>1. Typed /\ Files /\ Returned
    BY InitTyped, InitFiles, InitReturned
  <2>2. Recoverable /\ Undoable
    BY <2>1, InitUnblockable, InitUndone DEF Recoverable, Undoable
  <2>3. adrift = {} /\ mishaps = {} /\ Enabled
    BY DEF Init, Enabled
  <2> QED BY <2>1, <2>2, <2>3 DEF Inv, Prompt, Threads
<1>2. Inv /\ [Next]_vars => Inv'
  <2> SUFFICES ASSUME Inv, [Next]_vars PROVE Inv'
    OBVIOUS
  <2>1. CASE (Lifetime /\ adrift' = {}) \/ (Work /\ UNCHANGED adrift) \/ UNCHANGED vars
    <3>1. Step /\ adrift' \in {adrift, {}}
      BY <2>1 DEF Step, vars
    <3> QED BY <3>1, StepInv
  <2>2. CASE TimeOut
    <3>1. "timedOut" \in mishaps'
      BY <2>2 DEF TimeOut
    <3> QED BY <2>2, <3>1, TimeOutTyped DEF Inv
  <2>3. CASE SuspendTimesOut
    <3>1. "timedOut" \in mishaps'
      BY <2>3 DEF SuspendTimesOut
    <3> QED BY <2>3, <3>1, SuspendTimesOutTyped DEF Inv
  <2>4. CASE \E t \in adrift : CallsLate(t) \/ FailsLate(t)
    <3>1. "timedOut" \in mishaps /\ fails >= 1
      BY <2>4 DEF Inv, Prompt
    <3>2. Typed' /\ Threads' /\ UNCHANGED <<fails, mishaps>>
      BY <2>4, LateTyped DEF Inv
    <3> QED BY <3>1, <3>2 DEF Inv
  <2> QED BY <2>1, <2>2, <2>3, <2>4 DEF Next
<1> QED BY <1>1, <1>2, PTL DEF Spec

\* "The reverse order would leave a machine blocked with nothing recording how to unblock it"
\* (enforcer_windows.go:94-158): whatever the rules and however many sessions, crashes and
\* failing calls, a machine left blocked is recorded with the user's own default actions and has
\* its exceptions, but for the named mishaps, a COM thread that was given up on among them; and
\* the exceptions of a session that has not been suspended are enabled.
THEOREM BlockedIsRecoverable == Spec => []BlockIsRecoverable
<1>1. Inv => BlockIsRecoverable
  <2> SUFFICES ASSUME Inv, "timedOut" \notin mishaps
               PROVE  BlockIsRecorded /\ ExceptionsWhileBlocked
    BY DEF BlockIsRecoverable, BlockIsRecorded, ExceptionsWhileBlocked, Harm
  <2>1. (Unharmed => Unblockable) /\ Enabled
    BY DEF Inv, Prompt, Recoverable
  <2>2. Harm = {} /\ fails <= 1 => Unharmed
    BY DEF Harm, Unharmed
  <2>3. BlockIsRecorded
    BY <2>1, <2>2 DEF BlockIsRecorded, Unblockable, Unblocks
  <2>4. ExceptionsWhileBlocked
    BY <2>1, <2>2 DEF ExceptionsWhileBlocked, Unblockable, Enabled
  <2> QED BY <2>3, <2>4
<1> QED BY <1>1, Invariance, PTL

\* An elevated start undoes all that any number of dead sessions left (enforcer_windows.go:381-477).
THEOREM StartUndoes == Spec => []StartUndoesCrash
<1>1. Inv => StartUndoesCrash
  <2> SUFFICES ASSUME Inv, pc = "ready", elevated, fails = 0, mishaps = {}
               PROVE  Machine = original /\ file.kind # "state"
    BY DEF StartUndoesCrash
  <2>1. Undone /\ file.kind # "state"
    BY DEF Inv, Prompt, Undoable, Clean, Files
  <2>2. /\ ProcessOK /\ original \in Snapshot /\ original.rules = Foreign /\ Foreign \subseteq rules
        /\ Recordable(file)
    BY DEF Inv, Typed, Matter
  <2>3. outbound = original.outbound /\ rules = original.rules /\ wininet = original.wininet
    BY <2>1, <2>2 DEF Undone, Firewall, Recordable
  <2>4. Machine = original
    BY <2>2, <2>3, MachineTyped, SameSnapshot
  <2> QED BY <2>1, <2>4
<1> QED BY <1>1, Invariance, PTL

\* A session that does not die gives the machine back as it found it, whether it restores or is
\* refused, if no COM thread was given up on; and rules outside the namespace stay even then
\* (enforcer_windows.go:138-215).
THEOREM MachineGivenBack == Spec => []GivenBack
<1>1. Inv => GivenBack
  <2> SUFFICES ASSUME Inv PROVE GivenBack
    OBVIOUS
  <2>1. TypeOK /\ ForeignRulesStay
    BY DEF Inv, Typed, Matter, Threads, TypeOK, ForeignRulesStay
  <2>2. RestorePutsBack /\ RefusedApplyUndone
    <3>1. CASE "timedOut" \in mishaps
      <4>1. fails # 0 /\ mishaps \cap {"halfFlip", "timedOut"} # {}
        BY <3>1 DEF Inv
      <4> QED BY <4>1 DEF RestorePutsBack, RefusedApplyUndone
    <3>2. CASE "timedOut" \notin mishaps
      BY <3>2 DEF Inv, Prompt, Returned
    <3> QED BY <3>1, <3>2
  <2> QED BY <2>1, <2>2 DEF GivenBack
<1> QED BY <1>1, Invariance, PTL
=============================================================================
