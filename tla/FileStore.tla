----------------------------- MODULE FileStore -----------------------------
(***************************************************************************)
(* One run's JSONL file in a FileStore (src/graph/checkpoint.go): Append,  *)
(* with the system calls it makes in order, cutTornTail and readRecords,   *)
(* under kills of the process between any two calls, I/O errors, and power *)
(* losses that take back what was not fsynced.                           *)
(*                                                                         *)
(* A file is the sequence of what Append wrote.  An entry is a whole       *)
(* "line", a "bare" one that lacks only its newline, or a "torn" one.  An  *)
(* entry after one that is not a line is glued to it, and the two make one *)
(* unparsable line.  After a power loss the file holds what was fsynced  *)
(* and, of the writes and truncations made since, the first ones.          *)
(*                                                                         *)
(* An operator introduced as a "faulty variant" is no part of Next: it is  *)
(* the definition after it with a plausible bug.                           *)
(***************************************************************************)
EXTENDS Integers, Sequences, FiniteSets

CONSTANTS
  MaxRecords, \* bound: Append calls
  MaxFaults   \* bound: kills, I/O errors and power losses

ASSUME StoreAssumption == MaxRecords \in Nat /\ MaxFaults \in Nat

VARIABLES
  file,    \* the entries, as a reader of the machine sees them now
  exists,  \* the file is in its directory
  disk,    \* the entries as of the last fsync
  entry,   \* the directory entry is on disk
  pc,      \* where the Append in progress is; "idle" when there is none
  rec,     \* the record being appended
  fresh,   \* Append found no file
  count,   \* records appended so far
  acked,   \* durable records of this file whose Append returned without error
  seen,    \* records some Load returned since the last power loss
  faults

vars == <<file, exists, disk, entry, pc, rec, fresh, count, acked, seen, faults>>

Forms == {"line", "bare", "torn"}
NoRecord == [id |-> 0, durable |-> FALSE]

\* readRecords: a torn last line is dropped, a whole one needs no newline.
Readable(f) == {f[i].id : i \in {j \in DOMAIN f : f[j].form # "torn"}}

TypeOK ==
  /\ file \in Seq([id : 1..MaxRecords, form : Forms])
  /\ disk \in Seq([id : 1..MaxRecords, form : Forms])
  /\ exists \in BOOLEAN /\ entry \in BOOLEAN /\ fresh \in BOOLEAN
  /\ pc \in {"idle", "cut", "write", "sync", "dir"}
  /\ rec \in [id : 0..MaxRecords, durable : BOOLEAN]
  /\ count \in 0..MaxRecords
  /\ acked \subseteq 1..MaxRecords /\ seen \subseteq 1..MaxRecords
  /\ faults \in 0..MaxFaults

Init ==
  /\ file = <<>> /\ exists = FALSE /\ disk = <<>> /\ entry = FALSE
  /\ pc = "idle" /\ rec = NoRecord /\ fresh = FALSE /\ count = 0
  /\ acked = {} /\ seen = {} /\ faults = 0

Fault == faults < MaxFaults /\ faults' = faults + 1

-----------------------------------------------------------------------------
(* Append *)

\* Faulty variant: a second Append of the same record.
OpenAgain(durable) ==
  /\ pc = "idle" /\ count < MaxRecords
  /\ count' = count
  /\ rec' = [id |-> count + 1, durable |-> durable]
  /\ fresh' = ~exists /\ exists' = TRUE
  /\ pc' = "cut"
  /\ UNCHANGED <<file, disk, entry, acked, seen, faults>>

\* Stat, then OpenFile with O_CREATE.  durable(kind) is FALSE for node_start and
\* edge records only.
Open(durable) ==
  /\ pc = "idle" /\ count < MaxRecords
  /\ count' = count + 1
  /\ rec' = [id |-> count + 1, durable |-> durable]
  /\ fresh' = ~exists /\ exists' = TRUE
  /\ pc' = "cut"
  /\ UNCHANGED <<file, disk, entry, acked, seen, faults>>

Trimmed == SubSeq(file, 1, Len(file) - 1)

LastForm == IF file = <<>> THEN "line" ELSE file[Len(file)].form

\* Faulty variant: whatever lacks its newline is cut off.
CutTornTailWhole ==
  /\ pc = "cut"
  /\ pc' = "write"
  /\ file' = IF LastForm = "line" THEN file ELSE Trimmed
  /\ UNCHANGED <<disk, exists, entry, rec, fresh, count, acked, seen, faults>>

\* Faulty variant: nothing looks at the tail.
CutTornTailNever ==
  /\ pc = "cut"
  /\ pc' = "write"
  /\ UNCHANGED <<file, disk, exists, entry, rec, fresh, count, acked, seen, faults>>

\* A bare tail was readable: it is terminated.  A torn one is truncated.
CutTornTail ==
  /\ pc = "cut"
  /\ pc' = "write"
  /\ file' = CASE LastForm = "line" -> file
               [] LastForm = "bare" -> [file EXCEPT ![Len(file)].form = "line"]
               [] LastForm = "torn" -> Trimmed
  /\ UNCHANGED <<disk, exists, entry, rec, fresh, count, acked, seen, faults>>

Written(form) == Append(file, [id |-> rec.id, form |-> form])

\* Append returns: its record is acknowledged if recovery depends on it.
Return ==
  /\ pc' = "idle" /\ rec' = NoRecord /\ fresh' = FALSE
  /\ acked' = IF rec.durable THEN acked \cup {rec.id} ELSE acked

Write ==
  /\ pc = "write"
  /\ file' = Written("line")
  /\ CASE rec.durable -> pc' = "sync" /\ UNCHANGED <<rec, fresh, acked>>
       [] ~rec.durable /\ fresh -> pc' = "dir" /\ UNCHANGED <<rec, fresh, acked>>
       [] OTHER -> Return
  /\ UNCHANGED <<exists, disk, entry, count, seen, faults>>

\* Faulty variant: Append returns before the fsync.
SyncLater ==
  /\ pc = "sync"
  /\ Return
  /\ UNCHANGED <<file, exists, disk, entry, count, seen, faults>>

Sync ==
  /\ pc = "sync"
  /\ disk' = file
  /\ IF fresh THEN pc' = "dir" /\ UNCHANGED <<rec, fresh, acked>> ELSE Return
  /\ UNCHANGED <<file, exists, entry, count, seen, faults>>

\* syncDir, whose errors are ignored.
SyncDir ==
  /\ pc = "dir"
  /\ \/ entry' = TRUE /\ UNCHANGED faults
     \/ entry' = entry /\ Fault
  /\ Return
  /\ UNCHANGED <<file, exists, disk, count, seen>>

-----------------------------------------------------------------------------
(* What goes wrong *)

Abandon == pc' = "idle" /\ rec' = NoRecord /\ fresh' = FALSE

\* An I/O error ends Append, or the process is killed: between two calls or in
\* the middle of the write.
Stop ==
  /\ pc # "idle" /\ Fault
  /\ \/ UNCHANGED file
     \/ pc = "write" /\ \E form \in Forms : file' = Written(form)
  /\ Abandon
  /\ UNCHANGED <<exists, disk, entry, count, acked, seen>>

\* How much of the last fsync is still part of the file.
Kept == Cardinality({i \in DOMAIN disk \cap DOMAIN file : disk[i].id = file[i].id})

\* The last surviving entry may be incomplete if it was not fsynced.
Survivors ==
  {disk} \cup {SubSeq(file, 1, k) : k \in Kept..Len(file)} \cup
  {[SubSeq(file, 1, k) EXCEPT ![k].form = form] :
      k \in (Kept + 1)..Len(file), form \in {"bare", "torn"}}

\* A new file's directory entry may need an fsync of its own: without it the
\* whole file may go, whatever was acknowledged.
PowerLoss ==
  /\ Fault
  /\ \/ /\ file' \in Survivors /\ exists' = exists /\ entry' = exists
        /\ UNCHANGED acked
     \/ /\ exists /\ ~entry
        /\ file' = <<>> /\ exists' = FALSE /\ entry' = FALSE
        /\ acked' = {}
  /\ disk' = file'
  /\ seen' = {}
  /\ Abandon
  /\ UNCHANGED count

\* A reader takes no lock: it may come between any two calls of Append.
Load ==
  /\ seen' = seen \cup Readable(file)
  /\ UNCHANGED <<file, exists, disk, entry, pc, rec, fresh, count, acked, faults>>

Next ==
  \/ \E durable \in BOOLEAN : Open(durable)
  \/ CutTornTail \/ Write \/ Sync \/ SyncDir
  \/ Stop \/ PowerLoss
  \/ Load

Spec == Init /\ [][Next]_vars

-----------------------------------------------------------------------------
(* Properties *)

\* readRecords never meets an unparsable line before the last one: no record is
\* glued to what a crash left (checkpoint.go:300-301, 356-357).
NeverCorrupt ==
  \A i \in 1..(Len(file) - 1) : file[i].form = "line"

\* A record recovery depends on is never lost once its Append returned, whatever
\* is killed or loses power afterwards, but with the file as a whole where its
\* directory entry was never made durable (checkpoint.go:238-240).
AppendedIsDurable == acked \subseteq Readable(file)

\* What a reader was given stays: until a power loss no later Append takes back
\* a record that Recover or Fork may have built on (checkpoint.go:328-329).
SeenStays == seen \subseteq Readable(file)

\* Load returns the records in the order they were appended, each once.
InAppendOrder ==
  \A i, j \in DOMAIN file : i < j => file[i].id < file[j].id

\* What crashes, I/O errors and repairs leave is always a readable log of records
\* in order (checkpoint.go:300-301).
LogIsSound == TypeOK /\ NeverCorrupt /\ InAppendOrder

\* Nothing anybody could rely on goes: neither what Append acknowledged nor what
\* a reader saw (checkpoint.go:238-240, 328-329).
RecordsStay == AppendedIsDurable /\ SeenStays
=============================================================================
