-------------------------- MODULE FileStoreProofs --------------------------
(***************************************************************************)
(* Proofs about FileStore, for every number of records and of faults: what *)
(* crashes and repairs leave is a log of whole records in order, and what  *)
(* Append acknowledged or a reader saw stays in it.                        *)
(***************************************************************************)
EXTENDS FileStore, FiniteSetTheorems, SequenceTheorems, TLAPS

(***************************************************************************)
(* The inductive invariant                                                 *)
(***************************************************************************)
Entry == [id : 1..MaxRecords, form : Forms]

Whole(f) == \A i \in DOMAIN f : f[i].form = "line"
Unglued(f) == \A i \in 1..(Len(f) - 1) : f[i].form = "line"
Ordered(f) == \A i, j \in DOMAIN f : i < j => f[i].id < f[j].id
UpTo(f, n) == \A i \in DOMAIN f : f[i].id <= n

\* A log whose records are among the first n appended.
Log(f, n) == f \in Seq(Entry) /\ Unglued(f) /\ Ordered(f) /\ UpTo(f, n)

\* What the disk holds whole is still in the file, at the same place.  Its last
\* entry may be torn, and then cut off and replaced.
Extends(f, d) ==
  \A i \in DOMAIN d :
    d[i].form # "torn" => i \in DOMAIN f /\ f[i].id = d[i].id /\ f[i].form # "torn"

\* The Append in progress: the newest record, not in the file before its write,
\* on disk after its fsync.
Appending ==
  /\ pc # "idle" => rec.id = count /\ count \in 1..MaxRecords
  /\ pc \in {"cut", "write"} => UpTo(file, count - 1)
  /\ pc = "write" => Whole(file)
  /\ pc = "sync" => rec.durable /\ rec.id \in Readable(file)
  /\ pc = "dir" /\ rec.durable => rec.id \in Readable(disk)

IInv ==
  /\ TypeOK
  /\ Log(file, count) /\ Log(disk, count)
  /\ Extends(file, disk)
  /\ Appending
  /\ acked \subseteq Readable(disk)
  /\ seen \subseteq Readable(file)

(***************************************************************************)
(* Logs                                                                    *)
(***************************************************************************)
LEMMA ButTheLast ==
  ASSUME NEW n \in Nat
  PROVE  \A i : i \in 1..(n - 1) <=> i \in 1..n /\ i # n
OBVIOUS

\* What the first k entries of a log are.
LEMMA Prefix ==
  ASSUME NEW n \in Nat, NEW f, Log(f, n), NEW k \in 0..Len(f)
  PROVE  /\ SubSeq(f, 1, k) \in Seq(Entry) /\ Len(SubSeq(f, 1, k)) = k
         /\ DOMAIN SubSeq(f, 1, k) = 1..k
         /\ \A i \in 1..k : SubSeq(f, 1, k)[i] = f[i]
         /\ Log(SubSeq(f, 1, k), n)
<1>1. f \in Seq(Entry) /\ Len(f) \in Nat /\ DOMAIN f = 1..Len(f)
  BY DEF Log
<1>2. SubSeq(f, 1, k) \in Seq(Entry) /\ Len(SubSeq(f, 1, k)) = k
      /\ \A i \in 1..k : SubSeq(f, 1, k)[i] = f[i]
  BY <1>1, SubSeqProperties
<1>3. DOMAIN SubSeq(f, 1, k) = 1..k
  BY <1>2
<1> QED BY <1>1, <1>2, <1>3 DEF Log, Unglued, Ordered, UpTo

\* A log whose last entry gets another form.
LEMMA Reform ==
  ASSUME NEW n \in Nat, NEW f, Log(f, n), Len(f) > 0, NEW form \in Forms
  PROVE  LET g == [f EXCEPT ![Len(f)].form = form] IN
           /\ Log(g, n) /\ Len(g) = Len(f)
           /\ \A i \in 1..Len(f) :
                g[i].id = f[i].id /\ g[i].form = IF i = Len(f) THEN form ELSE f[i].form
<1> DEFINE g == [f EXCEPT ![Len(f)].form = form]
<1>1. f \in Seq(Entry) /\ Len(f) \in Nat /\ DOMAIN f = 1..Len(f)
      /\ \A i \in 1..Len(f) : f[i] \in Entry
  BY DEF Log
<1>2. \A i \in 1..Len(f) : g[i] = IF i = Len(f) THEN [f[i] EXCEPT !.form = form] ELSE f[i]
  BY <1>1
<1>3. \A i \in 1..Len(f) :
        /\ g[i] \in Entry /\ g[i].id = f[i].id
        /\ g[i].form = IF i = Len(f) THEN form ELSE f[i].form
  BY <1>1, <1>2 DEF Entry
<1>4. g \in Seq(Entry) /\ Len(g) = Len(f) /\ DOMAIN g = 1..Len(f)
  <2>1. g \in [1..Len(f) -> Entry]
    BY <1>1, <1>3
  <2> QED BY <2>1, <1>1
<1> HIDE DEF g
<1>5. Unglued(g)
  <2> SUFFICES ASSUME NEW i \in 1..(Len(f) - 1)
               PROVE  g[i].form = "line"
    BY <1>4 DEF Unglued
  <2>1. i \in 1..Len(f) /\ i # Len(f)
    BY <1>1, ButTheLast
  <2>2. f[i].form = "line"
    BY DEF Log, Unglued
  <2> QED BY <2>1, <2>2, <1>3
<1>6. Ordered(g) /\ UpTo(g, n)
  BY <1>1, <1>3, <1>4 DEF Log, Ordered, UpTo
<1> QED BY <1>3, <1>4, <1>5, <1>6 DEF g, Log

\* A newer record behind entries that are whole.
LEMMA Grow ==
  ASSUME NEW n \in 1..MaxRecords, NEW f, Log(f, n - 1), Whole(f), NEW form \in Forms
  PROVE  LET g == Append(f, [id |-> n, form |-> form]) IN
           /\ Log(g, n) /\ Len(g) = Len(f) + 1
           /\ g[Len(f) + 1] = [id |-> n, form |-> form]
           /\ \A i \in 1..Len(f) : g[i] = f[i]
<1> DEFINE e == [id |-> n, form |-> form]
           g == Append(f, e)
<1>1. e \in Entry
  BY DEF Entry
<1>2. f \in Seq(Entry) /\ Len(f) \in Nat /\ DOMAIN f = 1..Len(f) /\ e \in Entry
      /\ \A i \in 1..Len(f) : f[i] \in Entry
  BY <1>1 DEF Log
<1>3. /\ g \in Seq(Entry) /\ Len(g) = Len(f) + 1
      /\ \A i \in 1..Len(f) : g[i] = f[i]
      /\ g[Len(f) + 1] = e
  BY <1>2, AppendProperties
<1>4. DOMAIN g = 1..(Len(f) + 1)
  BY <1>3
<1>9. \A i \in 1..Len(f) : f[i].id \in Nat
  BY <1>2, StoreAssumption DEF Entry
<1>5. \A i \in 1..Len(f) : g[i].id <= n - 1 /\ g[i].id \in Nat /\ g[i].form = "line"
  BY <1>2, <1>3, <1>9 DEF Log, UpTo, Whole
<1>6. g[Len(f) + 1].id = n
  BY <1>3
<1> HIDE DEF g, e
<1>7. Unglued(g) /\ UpTo(g, n)
  BY <1>2, <1>3, <1>4, <1>5, <1>6 DEF Unglued, UpTo
<1>8. Ordered(g)
  <2> SUFFICES ASSUME NEW i \in 1..(Len(f) + 1), NEW j \in 1..(Len(f) + 1), i < j
               PROVE  g[i].id < g[j].id
    BY <1>4 DEF Ordered
  <2>1. CASE j = Len(f) + 1
    BY <2>1, <1>2, <1>5, <1>6
  <2>2. CASE j # Len(f) + 1
    <3>1. i \in DOMAIN f /\ j \in DOMAIN f /\ g[i] = f[i] /\ g[j] = f[j]
      BY <2>2, <1>2, <1>3
    <3> QED BY <3>1 DEF Log, Ordered
  <2> QED BY <2>1, <2>2
<1> QED BY <1>3, <1>7, <1>8 DEF Log, g, e

\* A log is still one when more records may have been appended.
LEMMA Later ==
  ASSUME NEW n \in Nat, NEW m \in Nat, n <= m, NEW f, Log(f, n)
  PROVE  Log(f, m)
<1>1. f \in Seq(Entry) /\ \A i \in DOMAIN f : f[i] \in Entry
  BY DEF Log
<1>2. \A i \in DOMAIN f : f[i].id \in Nat
  BY <1>1, StoreAssumption DEF Entry
<1> QED BY <1>1, <1>2 DEF Log, UpTo

LEMMA ExtendsReads ==
  ASSUME NEW f, NEW d, Extends(f, d)
  PROVE  Readable(d) \subseteq Readable(f)
BY DEF Extends, Readable

\* What is readable stays so when each entry keeps its place and its record and
\* none gets torn.
LEMMA ReadsOn ==
  ASSUME NEW f, NEW g,
         \A i \in DOMAIN f : f[i].form # "torn" =>
           i \in DOMAIN g /\ g[i].id = f[i].id /\ g[i].form # "torn"
  PROVE  /\ Readable(f) \subseteq Readable(g)
         /\ \A d : Extends(f, d) => Extends(g, d)
BY DEF Extends, Readable

(***************************************************************************)
(* Append preserves the invariant                                          *)
(***************************************************************************)
LEMMA Starts ==
  ASSUME Init
  PROVE  IInv
<1>1. TypeOK
  <2>1. \A S : <<>> \in Seq(S)
    OBVIOUS
  <2>2. 0 \in 0..MaxRecords /\ 0 \in 0..MaxFaults
    BY StoreAssumption
  <2>3. NoRecord \in [id : 0..MaxRecords, durable : BOOLEAN]
    BY <2>2 DEF NoRecord
  <2> QED BY <2>1, <2>2, <2>3 DEF Init, TypeOK
<1>2. Log(file, count) /\ Log(disk, count) /\ Extends(file, disk)
  BY DEF Init, Log, Unglued, Ordered, UpTo, Extends
<1>3. Appending /\ acked \subseteq Readable(disk) /\ seen \subseteq Readable(file)
  BY DEF Init, Appending
<1> QED BY <1>1, <1>2, <1>3 DEF IInv

LEMMA StuttersKeep ==
  ASSUME IInv, UNCHANGED vars
  PROVE  IInv'
BY DEF IInv, vars, TypeOK, Log, Unglued, Ordered, UpTo, Extends, Appending, Whole, Readable

LEMMA OpenKeeps ==
  ASSUME IInv, NEW durable \in BOOLEAN, Open(durable)
  PROVE  IInv'
<1>1. count \in Nat /\ count' = count + 1 /\ count' \in 1..MaxRecords
  BY StoreAssumption DEF IInv, TypeOK, Open
<1>2. TypeOK'
  BY <1>1 DEF IInv, TypeOK, Open
<1>3. file' = file /\ disk' = disk /\ acked' = acked /\ seen' = seen
  BY DEF Open
<1>4. Log(file', count') /\ Log(disk', count')
  BY <1>1, <1>3, Later DEF IInv
<1>5. Appending'
  BY <1>1, <1>3 DEF IInv, Appending, Open, Log, UpTo
<1>6. Extends(file', disk') /\ acked' \subseteq Readable(disk') /\ seen' \subseteq Readable(file')
  BY <1>3 DEF IInv
<1> QED BY <1>2, <1>4, <1>5, <1>6 DEF IInv, Log, Extends, Readable, Unglued, Ordered, UpTo

\* What is cut off was not readable.
LEMMA CutKeeps ==
  ASSUME IInv, CutTornTail
  PROVE  IInv'
<1>1. /\ count \in 1..MaxRecords /\ Log(file, count - 1) /\ Len(file) \in Nat
      /\ count - 1 \in Nat /\ count \in Nat /\ DOMAIN file = 1..Len(file)
  BY StoreAssumption DEF IInv, Appending, CutTornTail, Log
<1>2. \A i \in 1..Len(file) : i # Len(file) => file[i].form = "line"
  <2>1. Unglued(file)
    BY DEF IInv, Log
  <2>2. \A i \in 1..Len(file) : i # Len(file) => i \in 1..(Len(file) - 1)
    BY <1>1, ButTheLast
  <2> QED BY <2>1, <2>2 DEF Unglued
<1>3. /\ Log(file', count - 1) /\ Whole(file')
      /\ \A i \in DOMAIN file : file[i].form # "torn" =>
           i \in DOMAIN file' /\ file'[i].id = file[i].id /\ file'[i].form # "torn"
  <2>1. CASE LastForm = "line"
    BY <2>1, <1>1, <1>2 DEF CutTornTail, LastForm, Whole
  <2>2. CASE LastForm = "bare"
    <3>1. Len(file) > 0 /\ file' = [file EXCEPT ![Len(file)].form = "line"]
      BY <2>2, <1>1 DEF CutTornTail, LastForm
    <3>2. Log(file', count - 1) /\ Len(file') = Len(file)
          /\ \A i \in 1..Len(file) : /\ file'[i].id = file[i].id
               /\ file'[i].form = IF i = Len(file) THEN "line" ELSE file[i].form
      BY <3>1, <1>1, Reform DEF Forms
    <3>3. DOMAIN file' = 1..Len(file)
      BY <3>1, <1>1
    <3> QED BY <3>2, <3>3, <1>1, <1>2 DEF Whole
  <2>3. CASE LastForm = "torn"
    <3>1. Len(file) > 0 /\ file' = SubSeq(file, 1, Len(file) - 1) /\ file[Len(file)].form = "torn"
      BY <2>3, <1>1 DEF CutTornTail, LastForm, Trimmed
    <3>2. /\ DOMAIN file' = 1..(Len(file) - 1) /\ Log(file', count - 1)
          /\ \A i \in 1..(Len(file) - 1) : file'[i] = file[i]
      BY <3>1, <1>1, Prefix
    <3>3. \A i : i \in 1..(Len(file) - 1) <=> i \in 1..Len(file) /\ i # Len(file)
      BY <1>1, ButTheLast
    <3> QED BY <3>1, <3>2, <3>3, <1>1, <1>2 DEF Whole
  <2>4. LastForm \in Forms
    <3>1. CASE file = <<>>
      BY <3>1 DEF LastForm, Forms
    <3>2. CASE file # <<>>
      <4>1. file[Len(file)] \in Entry
        BY <3>2, <1>1 DEF Log
      <4> QED BY <4>1, <3>2 DEF LastForm, Entry
    <3> QED BY <3>1, <3>2
  <2> QED BY <2>1, <2>2, <2>3, <2>4 DEF Forms
<1>4. Log(file', count) /\ UpTo(file', count - 1)
  BY <1>1, <1>3, Later DEF Log
<1>5. Readable(file) \subseteq Readable(file') /\ Extends(file', disk)
  BY <1>3, ReadsOn DEF IInv
<1>6. /\ pc' = "write" /\ count' = count /\ rec' = rec
      /\ UNCHANGED <<disk, exists, entry, fresh, acked, seen, faults>>
  BY DEF CutTornTail
<1>7. TypeOK'
  BY <1>4, <1>6 DEF IInv, TypeOK, Log, Entry
<1>8. Appending'
  BY <1>1, <1>3, <1>4, <1>6 DEF IInv, Appending, CutTornTail, Whole, UpTo
<1> QED
  BY <1>4, <1>5, <1>6, <1>7, <1>8 DEF IInv, Log, Extends, Readable, Unglued, Ordered, UpTo

\* The file with the record being written, whole or not.
LEMMA Writing ==
  ASSUME IInv, pc = "write", NEW form \in Forms
  PROVE  LET g == Written(form) IN
           /\ Log(g, count) /\ Readable(file) \subseteq Readable(g) /\ Extends(g, disk)
           /\ form # "torn" => rec.id \in Readable(g)
<1>1. /\ count \in 1..MaxRecords /\ Log(file, count - 1) /\ Whole(file) /\ rec.id = count
      /\ Len(file) \in Nat /\ DOMAIN file = 1..Len(file)
  BY DEF IInv, Appending, Log
<1> DEFINE g == Written(form)
<1>2. /\ Log(g, count) /\ Len(g) = Len(file) + 1
      /\ g[Len(file) + 1] = [id |-> rec.id, form |-> form]
      /\ \A i \in 1..Len(file) : g[i] = file[i]
  BY <1>1, Grow DEF Written
<1>3. DOMAIN g = 1..(Len(file) + 1)
  BY <1>2 DEF Log
<1> HIDE DEF g
<1>4. Readable(file) \subseteq Readable(g) /\ Extends(g, disk)
  BY <1>1, <1>2, <1>3, ReadsOn DEF IInv
<1>5. form # "torn" => rec.id \in Readable(g)
  <2> SUFFICES ASSUME form # "torn" PROVE rec.id \in Readable(g)
    OBVIOUS
  <2>1. Len(file) + 1 \in DOMAIN g /\ g[Len(file) + 1].id = rec.id
        /\ g[Len(file) + 1].form # "torn"
    BY <1>1, <1>2, <1>3
  <2> QED BY <2>1 DEF Readable
<1> QED BY <1>2, <1>4, <1>5 DEF g

LEMMA WriteKeeps ==
  ASSUME IInv, Write
  PROVE  IInv'
<1>1. pc = "write" /\ file' = Written("line")
      /\ UNCHANGED <<exists, disk, entry, count, seen, faults>>
  BY DEF Write
<1>2. /\ Log(file', count) /\ Readable(file) \subseteq Readable(file')
      /\ Extends(file', disk) /\ rec.id \in Readable(file')
  BY <1>1, Writing DEF Forms
<1>3. acked' = acked
  BY DEF Write, Return
<1>4. TypeOK'
  <2>1. file' \in Seq([id : 1..MaxRecords, form : Forms])
    BY <1>2 DEF Log, Entry
  <2>2. /\ pc' \in {"idle", "cut", "write", "sync", "dir"} /\ fresh' \in BOOLEAN
        /\ rec' = rec \/ rec' = NoRecord
    BY DEF Write, Return, IInv, TypeOK
  <2>3. NoRecord \in [id : 0..MaxRecords, durable : BOOLEAN]
    BY StoreAssumption DEF NoRecord
  <2> QED BY <1>1, <1>3, <2>1, <2>2, <2>3 DEF IInv, TypeOK
<1>5. Appending'
  <2>1. pc' = "idle" \/ (pc' = "sync" /\ rec.durable /\ rec' = rec)
        \/ (pc' = "dir" /\ ~rec.durable /\ rec' = rec)
    BY DEF Write, Return
  <2> QED BY <1>1, <1>2, <2>1 DEF IInv, Appending, Readable
<1>6. /\ Log(file', count') /\ Log(disk', count') /\ Extends(file', disk')
      /\ acked' \subseteq Readable(disk') /\ seen' \subseteq Readable(file')
  BY <1>1, <1>2, <1>3 DEF IInv
<1> QED BY <1>4, <1>5, <1>6 DEF IInv, Log, Extends, Readable, Unglued, Ordered, UpTo

\* After the fsync the disk holds what the file does.
LEMMA SyncKeeps ==
  ASSUME IInv, Sync
  PROVE  IInv'
<1>1. pc = "sync" /\ disk' = file
      /\ UNCHANGED <<file, exists, entry, count, seen, faults>>
  BY DEF Sync
<1>2. rec.durable /\ rec.id \in Readable(file) /\ rec.id \in 1..MaxRecords
  BY <1>1 DEF IInv, Appending
<1>3. acked' \subseteq acked \cup {rec.id} /\ acked \subseteq Readable(file)
  BY ExtendsReads DEF Sync, Return, IInv
<1>4. TypeOK'
  <2>1. /\ pc' \in {"idle", "cut", "write", "sync", "dir"} /\ fresh' \in BOOLEAN
        /\ rec' = rec \/ rec' = NoRecord
    BY DEF Sync, Return, IInv, TypeOK
  <2>2. NoRecord \in [id : 0..MaxRecords, durable : BOOLEAN]
    BY StoreAssumption DEF NoRecord
  <2> QED BY <1>1, <1>2, <1>3, <2>1, <2>2 DEF IInv, TypeOK
<1>5. Extends(file', disk')
  BY <1>1 DEF Extends
<1>6. Appending'
  <2>1. pc' = "idle" \/ (pc' = "dir" /\ rec' = rec)
    BY DEF Sync, Return
  <2> QED BY <1>1, <1>2, <2>1 DEF IInv, Appending, Readable
<1>7. /\ Log(file', count') /\ Log(disk', count')
      /\ acked' \subseteq Readable(disk') /\ seen' \subseteq Readable(file')
  BY <1>1, <1>2, <1>3 DEF IInv
<1> QED BY <1>4, <1>5, <1>6, <1>7 DEF IInv, Log, Extends, Readable, Unglued, Ordered, UpTo

LEMMA SyncDirKeeps ==
  ASSUME IInv, SyncDir
  PROVE  IInv'
<1>1. /\ pc = "dir" /\ pc' = "idle" /\ rec' = NoRecord /\ fresh' = FALSE
      /\ UNCHANGED <<file, exists, disk, count, seen>>
      /\ acked' = IF rec.durable THEN acked \cup {rec.id} ELSE acked
  BY DEF SyncDir, Return
<1>2. acked' \subseteq Readable(disk)
  BY <1>1 DEF IInv, Appending
<1>3. rec.id \in 1..MaxRecords
  BY <1>1 DEF IInv, Appending
<1>4. entry' \in BOOLEAN /\ faults' \in 0..MaxFaults
  <2>1. entry \in BOOLEAN /\ faults \in 0..MaxFaults /\ MaxFaults \in Nat
    BY StoreAssumption DEF IInv, TypeOK
  <2>2. entry' = TRUE \/ entry' = entry
    BY DEF SyncDir
  <2>3. faults' = faults \/ (faults < MaxFaults /\ faults' = faults + 1)
    BY DEF SyncDir, Fault
  <2>4. entry' \in BOOLEAN
    BY <2>1, <2>2
  <2>5. faults' \in 0..MaxFaults
    BY <2>1, <2>3
  <2> QED BY <2>4, <2>5
<1>5. NoRecord \in [id : 0..MaxRecords, durable : BOOLEAN]
  BY StoreAssumption DEF NoRecord
<1>6. TypeOK'
  BY <1>1, <1>3, <1>4, <1>5 DEF IInv, TypeOK
<1>7. Appending'
  BY <1>1 DEF Appending
<1>8. (Log(file, count) /\ Log(disk, count) /\ Extends(file, disk))'
  BY <1>1 DEF IInv
<1>9. (acked \subseteq Readable(disk) /\ seen \subseteq Readable(file))'
  BY <1>1, <1>2 DEF IInv
<1> QED BY <1>6, <1>7, <1>8, <1>9 DEF IInv

(***************************************************************************)
(* What goes wrong, and readers                                            *)
(***************************************************************************)
LEMMA StopKeeps ==
  ASSUME IInv, Stop
  PROVE  IInv'
<1>1. /\ pc' = "idle" /\ rec' = NoRecord /\ fresh' = FALSE
      /\ UNCHANGED <<exists, disk, entry, count, acked, seen>>
  BY DEF Stop, Abandon
<1>2. Log(file', count) /\ Readable(file) \subseteq Readable(file') /\ Extends(file', disk)
  <2>1. CASE file' = file
    BY <2>1 DEF IInv
  <2>2. CASE pc = "write" /\ \E form \in Forms : file' = Written(form)
    BY <2>2, Writing
  <2> QED BY <2>1, <2>2 DEF Stop
<1>3. faults' \in 0..MaxFaults
  BY StoreAssumption DEF Stop, Fault, IInv, TypeOK
<1>4. NoRecord \in [id : 0..MaxRecords, durable : BOOLEAN]
  BY StoreAssumption DEF NoRecord
<1>5. file' \in Seq([id : 1..MaxRecords, form : Forms])
  BY <1>2 DEF Log, Entry
<1>6. TypeOK'
  BY <1>1, <1>3, <1>4, <1>5 DEF IInv, TypeOK
<1>7. Appending'
  BY <1>1 DEF Appending
<1>8. (Log(file, count) /\ Log(disk, count) /\ Extends(file, disk))'
  BY <1>1, <1>2 DEF IInv
<1>9. (acked \subseteq Readable(disk) /\ seen \subseteq Readable(file))'
  BY <1>1, <1>2 DEF IInv
<1> QED BY <1>6, <1>7, <1>8, <1>9 DEF IInv

\* The part of the disk that the file shares is all of it, or all but a torn end.
LEMMA SharedPrefix ==
  ASSUME IInv
  PROVE  /\ Kept \in 0..Len(file) /\ Kept <= Len(disk)
         /\ \A i \in DOMAIN disk : disk[i].form # "torn" =>
              i <= Kept /\ file[i].id = disk[i].id /\ file[i].form # "torn"
<1> DEFINE E == {i \in DOMAIN disk \cap DOMAIN file : disk[i].id = file[i].id}
           n == Len(disk)
<1>1. /\ n \in Nat /\ DOMAIN disk = 1..n
      /\ Len(file) \in Nat /\ DOMAIN file = 1..Len(file)
  BY DEF IInv, Log
<1>2. \A i \in 1..(n - 1) : i \in E
  <2> SUFFICES ASSUME NEW i \in 1..(n - 1) PROVE i \in E
    OBVIOUS
  <2>1. i \in 1..n
    BY <1>1, ButTheLast
  <2>2. disk[i].form = "line"
    BY DEF IInv, Log, Unglued
  <2> QED BY <2>1, <2>2, <1>1 DEF IInv, Extends
<1>3. CASE n > 0 /\ n \in E
  <2>1. E = 1..n
    BY <1>1, <1>2, <1>3, ButTheLast
  <2>2. Kept = n
    <3>1. Cardinality(1..n) = n
      BY <1>1, <1>3, FS_Interval
    <3> QED BY <2>1, <3>1 DEF Kept
  <2>3. n <= Len(file)
    BY <1>3, <1>1
  <2> QED BY <2>2, <2>3, <1>1, <1>3 DEF IInv, Extends
<1>4. CASE n > 0 /\ n \notin E
  <2>1. E = 1..(n - 1)
    BY <1>1, <1>2, <1>4, ButTheLast
  <2>2. Kept = n - 1
    <3>1. Cardinality(1..(n - 1)) = n - 1
      <4>1. 1 \in Int /\ n - 1 \in Int /\ (1 > n - 1 => n - 1 = 0)
        BY <1>1, <1>4
      <4>2. Cardinality(1..(n - 1)) = IF 1 > n - 1 THEN 0 ELSE (n - 1) - 1 + 1
        BY <4>1, FS_Interval
      <4> QED BY <4>1, <4>2
    <3> QED BY <2>1, <3>1 DEF Kept
  <2>3. n - 1 <= Len(file)
    <3>1. CASE n = 1
      BY <3>1, <1>1
    <3>2. CASE n # 1
      <4>1. n - 1 \in 1..(n - 1)
        BY <3>2, <1>1, <1>4
      <4>2. n - 1 \in DOMAIN file
        BY <4>1, <1>2
      <4> QED BY <4>2, <1>1
    <3> QED BY <3>1, <3>2
  <2>4. disk[n].form = "torn"
    BY <1>1, <1>4 DEF IInv, Extends
  <2> QED BY <2>2, <2>3, <2>4, <1>1, <1>4 DEF IInv, Extends
<1>5. CASE n = 0
  <2>1. E = {}
    BY <1>1, <1>5
  <2>2. Kept = 0
    BY <2>1, FS_EmptySet DEF Kept
  <2> QED BY <2>2, <1>1, <1>5
<1> QED BY <1>1, <1>3, <1>4, <1>5

\* Whatever survives a power loss is a log with every acknowledged record.
LEMMA SurvivorsAreLogs ==
  ASSUME IInv, NEW f \in Survivors
  PROVE  Log(f, count) /\ acked \subseteq Readable(f)
<1>1. /\ Log(file, count) /\ count \in Nat
      /\ Len(file) \in Nat /\ Len(disk) \in Nat /\ DOMAIN disk = 1..Len(disk)
  BY StoreAssumption DEF IInv, TypeOK, Log
<1>2. CASE f = disk
  BY <1>2 DEF IInv
<1>3. ASSUME NEW k \in Kept..Len(file), f = SubSeq(file, 1, k)
      PROVE  Log(f, count) /\ acked \subseteq Readable(f)
  <2>1. k \in 0..Len(file)
    BY SharedPrefix, <1>1
  <2>2. Log(f, count) /\ DOMAIN f = 1..k /\ \A i \in 1..k : f[i] = file[i]
    BY <2>1, <1>1, <1>3, Prefix
  <2>3. \A i \in DOMAIN disk : disk[i].form # "torn" => i \in 1..k
    BY SharedPrefix, <1>1, <2>1
  <2>4. Extends(f, disk)
    BY <2>2, <2>3, SharedPrefix DEF Extends
  <2> QED BY <2>2, <2>4, ExtendsReads DEF IInv
<1>4. ASSUME NEW k \in (Kept + 1)..Len(file), NEW form \in {"bare", "torn"},
             f = [SubSeq(file, 1, k) EXCEPT ![k].form = form]
      PROVE  Log(f, count) /\ acked \subseteq Readable(f)
  <2> DEFINE g == SubSeq(file, 1, k)
  <2>1. k \in 1..Len(file) /\ k \in 0..Len(file) /\ k > Kept /\ Kept \in Nat
    BY SharedPrefix, <1>1
  <2>2. /\ Log(g, count) /\ Len(g) = k /\ DOMAIN g = 1..k
        /\ \A i \in 1..k : g[i] = file[i]
    BY <2>1, <1>1, Prefix
  <2> HIDE DEF g
  <2>3. f = [g EXCEPT ![Len(g)].form = form] /\ Len(g) > 0 /\ form \in Forms
    <3>1. Len(g) > 0
      BY <2>1, <2>2
    <3>2. form \in Forms
      BY DEF Forms
    <3>3. f = [g EXCEPT ![k].form = form]
      BY <1>4 DEF g
    <3> QED BY <3>1, <3>2, <3>3, <2>2
  <2>4. /\ Log(f, count) /\ Len(f) = k
        /\ \A i \in 1..k : f[i].id = g[i].id /\ (i # k => f[i].form = g[i].form)
    <3>1. LET h == [g EXCEPT ![Len(g)].form = form] IN
            /\ Log(h, count) /\ Len(h) = Len(g)
            /\ \A i \in 1..Len(g) :
                 h[i].id = g[i].id /\ h[i].form = IF i = Len(g) THEN form ELSE g[i].form
      BY <2>2, <2>3, <1>1, Reform
    <3> QED BY <2>2, <2>3, <3>1
  <2>5. DOMAIN f = 1..k
    BY <2>4 DEF Log
  <2>6. \A i \in DOMAIN disk : disk[i].form # "torn" => i \in 1..k /\ i # k
    BY SharedPrefix, <1>1, <2>1
  <2>7. Extends(f, disk)
    BY <2>2, <2>4, <2>5, <2>6, SharedPrefix DEF Extends
  <2> QED BY <2>4, <2>7, ExtendsReads DEF IInv
<1> QED BY <1>2, <1>3, <1>4 DEF Survivors

LEMMA PowerLossKeeps ==
  ASSUME IInv, PowerLoss
  PROVE  IInv'
<1>1. /\ disk' = file' /\ seen' = {} /\ count' = count
      /\ pc' = "idle" /\ rec' = NoRecord /\ fresh' = FALSE
  BY DEF PowerLoss, Abandon
<1>2. /\ Log(file', count) /\ acked' \subseteq Readable(file') /\ acked' \subseteq acked
      /\ exists' \in BOOLEAN /\ entry' \in BOOLEAN
  <2>1. CASE file' \in Survivors /\ exists' = exists /\ entry' = exists /\ acked' = acked
    BY <2>1, SurvivorsAreLogs DEF IInv, TypeOK
  <2>2. CASE file' = <<>> /\ exists' = FALSE /\ entry' = FALSE /\ acked' = {}
    <3>1. Log(<<>>, count)
      BY DEF Log, Unglued, Ordered, UpTo
    <3> QED BY <2>2, <3>1
  <2>3. \/ file' \in Survivors /\ exists' = exists /\ entry' = exists /\ acked' = acked
        \/ file' = <<>> /\ exists' = FALSE /\ entry' = FALSE /\ acked' = {}
    BY DEF PowerLoss
  <2> QED BY <2>1, <2>2, <2>3
<1>3. faults' \in 0..MaxFaults
  BY StoreAssumption DEF PowerLoss, Fault, IInv, TypeOK
<1>4. NoRecord \in [id : 0..MaxRecords, durable : BOOLEAN]
  BY StoreAssumption DEF NoRecord
<1>5. file' \in Seq([id : 1..MaxRecords, form : Forms])
  BY <1>2 DEF Log, Entry
<1>6. TypeOK'
  BY <1>1, <1>2, <1>3, <1>4, <1>5 DEF IInv, TypeOK
<1>7. Appending' /\ Extends(file', disk')
  BY <1>1 DEF Appending, Extends
<1> QED
  BY <1>1, <1>2, <1>6, <1>7 DEF IInv, Log, Extends, Readable, Unglued, Ordered, UpTo

LEMMA LoadKeeps ==
  ASSUME IInv, Load
  PROVE  IInv'
<1>1. /\ seen' = seen \cup Readable(file)
      /\ UNCHANGED <<file, exists, disk, entry, pc, rec, fresh, count, acked, faults>>
  BY DEF Load
<1>2. Readable(file) \subseteq 1..MaxRecords
  <2>1. \A i \in DOMAIN file : file[i] \in Entry
    BY DEF IInv, Log
  <2> QED BY <2>1 DEF Readable, Entry
<1>3. TypeOK'
  BY <1>1, <1>2 DEF IInv, TypeOK
<1> QED
  BY <1>1, <1>3
  DEF IInv, Appending, Log, Extends, Readable, Unglued, Ordered, UpTo, Whole

(***************************************************************************)
(* The theorems                                                            *)
(***************************************************************************)
\* What each step of Append, of a failure and of a reader preserves.
THEOREM StoreInvariant == Spec => []IInv
<1>1. Init => IInv
  BY Starts
<1>2. IInv /\ [Next]_vars => IInv'
  BY OpenKeeps, CutKeeps, WriteKeeps, SyncKeeps, SyncDirKeeps, StopKeeps, PowerLossKeeps,
     LoadKeeps, StuttersKeep DEF Next
<1> QED BY <1>1, <1>2, PTL DEF Spec

\* However often the process is killed, an I/O call fails or power is lost, the
\* file is whole lines but for its last, and its records are in order.
THEOREM LogStaysSound == Spec => []LogIsSound
<1>1. IInv => LogIsSound
  BY DEF IInv, LogIsSound, Log, Unglued, Ordered, NeverCorrupt, InAppendOrder
<1> QED BY <1>1, StoreInvariant, PTL

\* A durable record stays readable once its Append returned, and one that a
\* reader saw does until a power loss.
THEOREM NothingGoes == Spec => []RecordsStay
<1>1. IInv => RecordsStay
  BY ExtendsReads DEF IInv, RecordsStay, AppendedIsDurable, SeenStays
<1> QED BY <1>1, StoreInvariant, PTL
=============================================================================
