------------------------------- MODULE Audit -------------------------------
(***************************************************************************)
(* The audit chain in directory mode (guardrails/audit): each session      *)
(* appends hash-chained entries to a file of its own and links itself into *)
(* the shared, hash-chained manifest with an open and a seal record;       *)
(* VerifyDir reads the directory back.  A session may be killed between    *)
(* any two steps, the machine may lose power, a disk may fault, and a file *)
(* may be damaged after its session ended.                                 *)
(*                                                                         *)
(* A hash is the history it commits to: the contents hashed so far, in     *)
(* order.  That makes it injective and nothing else.  AuditLog.mu makes    *)
(* every call of Append, Flush and Close one at a time; timestamps and the *)
(* HMAC key, which the harness does not set, are left out.                 *)
(***************************************************************************)
EXTENDS Naturals, Sequences, SequencesExt

CONSTANTS
  Sessions,     \* runs of the harness that share the audit directory
  Events,       \* what a session may append
  MaxEntries,   \* bound on the entries of a session
  MaxNames,     \* file names a session tries before it gives up: 1001 in the code
  Overlap,      \* may a session start while another one runs
  DiskFaults    \* the disks considered: one that may fault, one that does not

ASSUME AuditConstants ==
  /\ MaxEntries \in Nat /\ MaxNames \in Nat
  /\ Overlap \in BOOLEAN /\ DiskFaults \subseteq BOOLEAN

\* The names of session files: the stamp, which the harness always sets to its own
\* name, and a counter.
Names == 1 .. MaxNames
None  == 0

Content == [seq : Nat, event : Events]
Hash    == Seq(Content)

\* A line of a session file.  A torn one, cut short on the disk, does not parse.
Entry == [seq : Nat, event : Events, prev : Hash, hash : Hash]
Torn  == [torn |-> TRUE]

\* A line of the manifest: the name of the session's file, when it opened, which tells
\* sessions apart, whether this is its seal, and its head.
Summary      == [file : Nat, opened : Sessions, sealed : BOOLEAN, seq : Nat, head : Hash]
ManifestHash == Seq(Summary)
Record       == [of : Summary, prev : ManifestHash, hash : ManifestHash]

VARIABLES
  proc,      \* per session: where it is, its file, the head of its chain and of the manifest
  file,      \* per session: the lines of its file
  synced,    \* per session: how many of them are durable
  manifest, manifestSynced,   \* the same for audit-manifest.jsonl
  accepted,  \* per session: the entries whose Append returned no error
  flushed,   \* per session: how many of them a Flush has committed
  damaged,   \* sessions whose file was altered after their end
  dropped,   \* sessions whose file was deleted after their end
  faulty     \* may a write stop half-way, or an fsync fail, on this disk

disk == <<file, synced, manifest, manifestSynced>>
told == <<accepted, flushed, damaged, dropped>>
vars == <<proc, file, synced, manifest, manifestSynced, accepted, flushed, damaged,
          dropped, faulty>>

Stage == {"new", "link", "open", "open sync", "run", "seal", "seal sync",
          "closed", "refused", "dead"}
Live  == {"link", "open", "open sync", "run", "seal", "seal sync"}

TypeOK ==
  /\ proc \in [Sessions -> [pc : Stage, name : Nat, seq : Nat, head : Hash,
                          link : ManifestHash]]
  /\ file \in [Sessions -> Seq(Entry \cup {Torn})]
  /\ synced \in [Sessions -> Nat]
  /\ manifest \in Seq(Record \cup {Torn})
  /\ manifestSynced \in Nat
  /\ accepted \in [Sessions -> Seq(Entry)]
  /\ flushed \in [Sessions -> Nat]
  /\ damaged \subseteq Sessions /\ dropped \subseteq damaged
  /\ faulty \in BOOLEAN

Init ==
  /\ proc = [s \in Sessions |-> [pc |-> "new", name |-> None, seq |-> 0, head |-> <<>>,
                               link |-> <<>>]]
  /\ file = [s \in Sessions |-> <<>>] /\ synced = [s \in Sessions |-> 0]
  /\ manifest = <<>> /\ manifestSynced = 0
  /\ accepted = [s \in Sessions |-> <<>>] /\ flushed = [s \in Sessions |-> 0]
  /\ damaged = {} /\ dropped = {}
  /\ faulty \in DiskFaults

-----------------------------------------------------------------------------
(* Lines, and what a write leaves on the disk.                              *)

hashEntry(seq, event, prev) == Append(prev, [seq |-> seq, event |-> event])
hashManifest(of, prev)      == Append(prev, of)

NewEntry(p, ev) == [seq |-> p.seq, event |-> ev, prev |-> p.head,
                    hash |-> hashEntry(p.seq, ev, p.head)]

NewRecord(s, seal) ==
  LET of == [file |-> proc[s].name, opened |-> s, sealed |-> seal,
             seq |-> proc[s].seq, head |-> proc[s].head]
  IN [of |-> of, prev |-> proc[s].link, hash |-> hashManifest(of, proc[s].link)]

\* A line written behind a torn one becomes part of it.
Written(f, line) == IF f # <<>> /\ Last(f) = Torn THEN f ELSE Append(f, line)

\* What a failed write may leave.
Failed(f) == {f} \cup (IF faulty THEN {Written(f, Torn)} ELSE {})

At(s, from, to) ==
  /\ proc[s].pc = from
  /\ proc' = [proc EXCEPT ![s].pc = to]

-----------------------------------------------------------------------------
(* newSessionDestination.                                                   *)

\* The sessions whose file is in the directory.
OnDisk == {s \in Sessions \ dropped : proc[s].name # None}

Free == Names \ {proc[s].name : s \in OnDisk}

\* O_EXCL never opens a file that is there; the first name that is free is taken, which
\* may be the name of a file that was deleted.  Any other error refuses the session, and
\* so does a directory in which every name is taken.
createSessionFile(s) ==
  /\ ~Overlap => \A t \in Sessions : proc[t].pc \notin Live
  /\ proc[s].pc = "new"
  /\ \/ \E n \in Free :
          /\ \A m \in Free : n <= m
          /\ proc' = [proc EXCEPT ![s] = [@ EXCEPT !.pc = "link", !.name = n]]
     \/ At(s, "new", "refused")
  /\ UNCHANGED <<disk, told>>

\* A manifest with an unreadable line refuses the session.
lastManifestHash(s) ==
  /\ proc[s].pc = "link"
  /\ proc' = [proc EXCEPT ![s] =
       IF \E k \in DOMAIN manifest : manifest[k] = Torn
       THEN [@ EXCEPT !.pc = "refused"]
       ELSE [@ EXCEPT !.pc = "open",
                      !.link = IF manifest = <<>> THEN <<>> ELSE Last(manifest).hash]]
  /\ UNCHANGED <<disk, told>>

\* writeManifest: the record is written, then synced; a failure of either is the
\* caller's error.  The manifest head advances only after both.
writeManifest(s, seal, from, to, err) ==
  /\ \/ /\ At(s, from, to)
        /\ manifest' = Written(manifest, NewRecord(s, seal))
     \/ /\ At(s, from, err)
        /\ manifest' \in Failed(manifest)
  /\ UNCHANGED <<file, synced, manifestSynced, told>>

syncManifestLazily(s, seal, from, to, err) ==
  /\ proc[s].pc = from
  /\ proc' = [proc EXCEPT ![s] = [@ EXCEPT !.pc = to, !.link = NewRecord(s, seal).hash]]
  /\ UNCHANGED <<disk, told>>

syncManifest(s, seal, from, to, err) ==
  /\ \/ /\ proc[s].pc = from
        /\ proc' = [proc EXCEPT ![s] = [@ EXCEPT !.pc = to, !.link = NewRecord(s, seal).hash]]
        /\ manifestSynced' = Len(manifest)
     \/ /\ faulty
        /\ At(s, from, err)
        /\ UNCHANGED manifestSynced
  /\ UNCHANGED <<file, synced, manifest, told>>

OpenRecord(s) == writeManifest(s, FALSE, "open", "open sync", "refused")
OpenSync(s)   == syncManifest(s, FALSE, "open sync", "run", "refused")

-----------------------------------------------------------------------------
(* The open log.                                                            *)

\* The chain advances only when the write succeeded.
AppendEntry(s, ev) ==
  /\ proc[s].pc = "run" /\ proc[s].seq < MaxEntries
  /\ LET e == NewEntry(proc[s], ev)
     IN \/ /\ file' = [file EXCEPT ![s] = Written(@, e)]
           /\ proc' = [proc EXCEPT ![s] = [@ EXCEPT !.seq = proc[s].seq + 1, !.head = e.hash]]
           /\ accepted' = [accepted EXCEPT ![s] = Append(@, e)]
        \/ /\ \E f \in Failed(file[s]) : file' = [file EXCEPT ![s] = f]
           /\ UNCHANGED <<proc, accepted>>
  /\ UNCHANGED <<synced, manifest, manifestSynced, flushed, damaged, dropped>>

FlushLazily(s) ==
  /\ proc[s].pc = "run"
  /\ flushed' = [flushed EXCEPT ![s] = Len(accepted[s])]
  /\ UNCHANGED <<proc, disk, accepted, damaged, dropped>>

Flush(s) ==
  /\ proc[s].pc = "run"
  /\ synced' = [synced EXCEPT ![s] = Len(file[s])]
  /\ flushed' = [flushed EXCEPT ![s] = Len(accepted[s])]
  /\ UNCHANGED <<proc, file, manifest, manifestSynced, accepted, damaged, dropped>>

\* AuditLog.Close and sessionDestination.Close: the entries are synced, its error
\* ignored, before the seal is written.  A second Close finds sealed set and does
\* nothing, and nothing can be appended once the file is closed.
Close(s) ==
  /\ At(s, "run", "seal")
  /\ \/ synced' = [synced EXCEPT ![s] = Len(file[s])]
     \/ faulty /\ UNCHANGED synced
  /\ UNCHANGED <<file, manifest, manifestSynced, told>>

SealRecord(s) == writeManifest(s, TRUE, "seal", "seal sync", "closed")
SealSync(s)   == syncManifest(s, TRUE, "seal sync", "closed", "closed")

-----------------------------------------------------------------------------
(* The environment.                                                         *)

\* A killed process leaves what it wrote.
Kill(s) ==
  /\ proc[s].pc \in Live
  /\ proc' = [proc EXCEPT ![s].pc = "dead"]
  /\ UNCHANGED <<disk, told>>

\* What may be left of a file of which n lines are durable: the rest may be lost
\* from any line on, and a line that was being written may be torn.
Remains(f, n) ==
  {SubSeq(f, 1, k) : k \in n .. Len(f)}
    \cup (IF faulty THEN {Append(SubSeq(f, 1, k), Torn) : k \in n .. (Len(f) - 1)} ELSE {})

PowerLoss ==
  /\ \E s \in Sessions : proc[s].pc \in Live
  /\ proc' = [s \in Sessions |-> IF proc[s].pc \in Live
                                 THEN [proc[s] EXCEPT !.pc = "dead"] ELSE proc[s]]
  /\ \E f \in [Sessions -> UNION {Remains(file[s], synced[s]) : s \in Sessions}] :
       /\ \A s \in Sessions : f[s] \in Remains(file[s], synced[s])
       /\ file' = f
       /\ synced' = [s \in Sessions |-> Len(f[s])]
  /\ manifest' \in Remains(manifest, manifestSynced)
  /\ manifestSynced' = Len(manifest')
  /\ UNCHANGED told

\* One change to the file of a session that has ended: a line gone, two lines
\* swapped, or an event replaced.
Alterations(f) ==
  {RemoveAt(f, k) : k \in DOMAIN f}
    \cup {ReplaceAt(ReplaceAt(f, k, f[k + 1]), k + 1, f[k]) : k \in 1 .. (Len(f) - 1)}
    \cup UNION {{ReplaceAt(f, k, [f[k] EXCEPT !.event = ev]) : ev \in Events \ {f[k].event}} :
                 k \in {j \in DOMAIN f : f[j] # Torn}}

Damage(s) ==
  /\ proc[s].pc \in {"closed", "dead"}
  /\ s \notin damaged
  /\ \E f \in Alterations(file[s]) :
       /\ file' = [file EXCEPT ![s] = f]
       /\ synced' = [synced EXCEPT ![s] = Len(f)]
  /\ damaged' = damaged \cup {s}
  /\ UNCHANGED <<proc, manifest, manifestSynced, accepted, flushed, dropped>>

\* The whole file of a session that has ended is deleted.
Drop(s) ==
  /\ proc[s].pc \in {"closed", "dead", "refused"}
  /\ s \in OnDisk \ damaged
  /\ damaged' = damaged \cup {s}
  /\ dropped' = dropped \cup {s}
  /\ UNCHANGED <<proc, disk, accepted, flushed>>

-----------------------------------------------------------------------------
Session(s) ==
  \/ createSessionFile(s) \/ lastManifestHash(s) \/ OpenRecord(s) \/ OpenSync(s)
  \/ \E ev \in Events : AppendEntry(s, ev)
  \/ Flush(s) \/ Close(s) \/ SealRecord(s) \/ SealSync(s)

Next ==
  /\ \/ \E s \in Sessions : Session(s) \/ Kill(s) \/ Damage(s) \/ Drop(s)
     \/ PowerLoss
  /\ UNCHANGED faulty

Spec == Init /\ [][Next]_vars

-----------------------------------------------------------------------------
(* VerifyDir.                                                               *)

\* readEntries and readManifest fail on a line that does not parse, and VerifyDir
\* with them.
Readable ==
  /\ \A k \in DOMAIN manifest : manifest[k] # Torn
  /\ \A s \in OnDisk : \A k \in DOMAIN file[s] : file[s][k] # Torn

VerifyChainUnhashed(f) ==
  \A k \in DOMAIN f :
    /\ f[k].seq = k - 1
    /\ f[k].prev = IF k = 1 THEN <<>> ELSE f[k - 1].hash

VerifyChain(f) ==
  \A k \in DOMAIN f :
    /\ f[k].seq = k - 1
    /\ f[k].prev = IF k = 1 THEN <<>> ELSE f[k - 1].hash
    /\ f[k].hash = hashEntry(f[k].seq, f[k].event, f[k].prev)

VerifyManifest(m) ==
  \A k \in DOMAIN m :
    /\ m[k].prev = IF k = 1 THEN <<>> ELSE m[k - 1].hash
    /\ m[k].hash = hashManifest(m[k].of, m[k].prev)

\* VerifyDir knows a session by the name of its file, and the last seal of a name is
\* the one it compares.
Known(n)  == \E k \in DOMAIN manifest : manifest[k].of.file = n
Seals(n)  == {k \in DOMAIN manifest : manifest[k].of.file = n /\ manifest[k].of.sealed}
Sealed(n) == Seals(n) # {}

HeadMatches(s) ==
  LET seals == Seals(proc[s].name)
      seal  == manifest[CHOOSE k \in seals : \A j \in seals : j <= k].of
  IN  /\ seal.seq = Len(file[s])
      /\ seal.head = IF file[s] = <<>> THEN <<>> ELSE Last(file[s]).hash

Missing == {n \in Names : Known(n) /\ \A s \in OnDisk : proc[s].name # n}

Problems ==
  (IF manifest = <<>> \/ ~VerifyManifest(manifest) THEN {<<"manifest">>} ELSE {})
    \cup {<<"chain", s>>   : s \in {t \in OnDisk : ~VerifyChain(file[t])}}
    \cup {<<"unknown", s>> : s \in {t \in OnDisk : ~Known(proc[t].name)}}
    \cup {<<"head", s>>    : s \in {t \in OnDisk : Sealed(proc[t].name) /\ ~HeadMatches(t)}}
    \cup {<<"missing", n>> : n \in Missing}

VerifyDirOK == Readable /\ Problems = {}
StrictOK    == VerifyDirOK /\ \A s \in OnDisk : Sealed(proc[s].name)

-----------------------------------------------------------------------------
(* Properties.                                                              *)

\* Another session has had the name of this one's file: the first of them was deleted.
Reused(s) ==
  proc[s].name # None /\ \E t \in Sessions \ {s} : proc[t].name = proc[s].name

\* "StrictOK asks whether everything is provably right" (verify.go:45-53): when it
\* says so, no session that appended anything is missing and every file holds exactly
\* the entries whose Append succeeded, through kills, power loss, disk faults,
\* overlapping sessions, and session files altered or deleted.  It says nothing of a
\* name that came again after its file was deleted: verify.go:170-177 knows a session
\* by its name, and the later one answers for the earlier.
StrictMeansComplete ==
  StrictOK => \A s \in Sessions :
                \/ Reused(s)
                \/ IF s \in OnDisk THEN file[s] = accepted[s] ELSE accepted[s] = <<>>

\* What an undamaged directory may be reported for, when sessions do not overlap and
\* the disk does not fault: a session that ended before its open record, and so
\* before its first entry (manifest.go:30-35, verify.go:132-138).
HonestDirVerifies ==
  ~faulty /\ damaged = {} =>
    /\ Readable
    /\ \A p \in Problems :
         IF p = <<"manifest">> THEN manifest = <<>> /\ \A s \in Sessions : accepted[s] = <<>>
         ELSE p[1] = "unknown" /\ accepted[p[2]] = <<>>

\* "an unsealed session still leaves a chained trace, so a restart cannot silently
\* drop history" (audit.go:75-76): no session has entries and no manifest record,
\* even after a power loss.
SessionsLeaveATrace ==
  \A s \in Sessions : accepted[s] # <<>> /\ Readable =>
    \E k \in DOMAIN manifest : manifest[k].of.opened = s

\* "Flush must durably commit (fsync) so the chain survives an abrupt shutdown"
\* (audit.go:51-52): what was flushed is still in the file, in order, provided the
\* disk does not fault.
FlushedSurvive ==
  ~faulty => \A s \in Sessions \ damaged :
    /\ flushed[s] <= Len(file[s])
    /\ SubSeq(file[s], 1, flushed[s]) = SubSeq(accepted[s], 1, flushed[s])

\* Whatever moment a session is killed or power is lost at, what is left of an honest
\* directory verifies, and no session is gone from its history (manifest.go, verify.go).
HonestHistory == TypeOK /\ HonestDirVerifies /\ SessionsLeaveATrace
=============================================================================
