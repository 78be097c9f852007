------------------------------ MODULE Recording ------------------------------
(***************************************************************************)
(* Recordings of agent runs (src/recording/recording.go, replay.go): files *)
(* with names no other recording has, lines stamped with the time they     *)
(* came, a write error that sticks, and two ways to read a file back.      *)
(*                                                                         *)
(* A line is a sequence of tokens, where "T" stands for the key            *)
(* "_cag_t":N and "f" for any other field.                                 *)
(*                                                                         *)
(* An operator introduced as a "faulty variant" is no part of Next: it is  *)
(* the definition after it with a plausible bug.                           *)
(***************************************************************************)
EXTENDS Naturals, Sequences, SequencesExt, FiniteSets

CONSTANTS
  Writers, Factories,
  Lines,       \* what the CLI may write
  MaxLines     \* bound: lines of a recording

VARIABLES
  factory,   \* the factory (of one process) a writer comes from
  seq,       \* a factory's sequence number
  want,      \* the number a writer tries, 0 before
  writer,    \* a writer: "idle", "naming", "open", "closed", "refused"
  failed,    \* Writer.err
  disk,      \* the files: for a name its physical lines after the header
  headed,    \* the names of the files whose header is written
  given      \* history: the lines WriteLine reported no error for

vars == <<factory, seq, want, writer, failed, disk, headed, given>>

Init ==
  /\ factory \in [Writers -> Factories] /\ seq = [f \in Factories |-> 0]
  /\ want = [w \in Writers |-> 0] /\ writer = [w \in Writers |-> "idle"]
  /\ failed = [w \in Writers |-> FALSE]
  /\ disk = <<>> /\ headed = {} /\ given = [w \in Writers |-> <<>>]

-----------------------------------------------------------------------------
(* stamp and unstamp                                                         *)

RECURSIVE Trim(_)
Trim(l) == IF l # <<>> /\ Head(l) = " " THEN Trim(Tail(l))
           ELSE IF l # <<>> /\ Last(l) = " " THEN Trim(Front(l)) ELSE l

\* The time becomes the first key of an object; other lines stay as they are.
Stamp(raw) ==
  IF Len(raw) < 2 \/ raw[1] # "{" THEN raw
  ELSE LET rest == Trim(Tail(raw))
           sep == IF rest # <<>> /\ rest[1] = "}" THEN <<>> ELSE <<",">>
       IN  <<"{", "T">> \o sep \o rest

\* Faulty variant: every stamp is removed.
RECURSIVE UnstampAll(_)
UnstampAll(l) ==
  IF Len(l) < 2 \/ SubSeq(l, 1, 2) # <<"{", "T">> THEN l
  ELSE UnstampAll(<<"{">> \o SubSeq(l, IF Len(l) > 2 /\ l[3] = "," THEN 4 ELSE 3, Len(l)))

Unstamp(l) ==
  IF Len(l) < 2 \/ SubSeq(l, 1, 2) # <<"{", "T">> THEN l
  ELSE <<"{">> \o SubSeq(l, IF Len(l) > 2 /\ l[3] = "," THEN 4 ELSE 3, Len(l))

\* Read and ReplayLines: blank lines are dropped, the stamps removed.
ReplayLines(name) ==
  LET trimmed == [i \in DOMAIN disk[name] |-> Trim(disk[name][i])]
      kept == SelectSeq(trimmed, LAMBDA l : l # <<>>)
  IN  [i \in DOMAIN kept |-> Unstamp(kept[i])]

\* The sed script of ReplayTransport: the first physical line is dropped.
ReplayTransport(name) == [i \in DOMAIN disk[name] |-> Unstamp(disk[name][i])]

-----------------------------------------------------------------------------
(* Dir                                                                       *)

\* The sequence number is taken under the factory's lock, the file opened after.
TakeNumber(w) ==
  /\ writer[w] \in {"idle", "naming"} /\ want[w] = 0
  /\ seq' = [seq EXCEPT ![factory[w]] = @ + 1]
  /\ want' = [want EXCEPT ![w] = seq'[factory[w]]]
  /\ writer' = [writer EXCEPT ![w] = "naming"]
  /\ UNCHANGED <<factory, failed, disk, headed, given>>

Name(w) == want[w]     \* the second and the label are the same

\* Faulty variant: an existing file is opened all the same.
OpenOver(w) ==
  /\ writer[w] = "naming" /\ want[w] # 0
  /\ disk' = [n \in DOMAIN disk \cup {Name(w)} |-> IF n = Name(w) THEN <<>> ELSE disk[n]]
  /\ writer' = [writer EXCEPT ![w] = "open"]
  /\ headed' = headed \cup {Name(w)}
  /\ UNCHANGED <<factory, seq, want, failed, given>>

\* O_EXCL: a name that exists means the next number.  The header may fail to be
\* written: the file stays, without one.
Open(w) ==
  /\ writer[w] = "naming" /\ want[w] # 0
  /\ IF Name(w) \in DOMAIN disk
     THEN want' = [want EXCEPT ![w] = 0] /\ UNCHANGED <<writer, disk, headed>>
     ELSE /\ disk' = [n \in DOMAIN disk \cup {Name(w)} |-> IF n = Name(w) THEN <<>> ELSE disk[n]]
          /\ \/ writer' = [writer EXCEPT ![w] = "open"] /\ headed' = headed \cup {Name(w)}
             \/ writer' = [writer EXCEPT ![w] = "refused"] /\ UNCHANGED headed
          /\ UNCHANGED want
  /\ UNCHANGED <<factory, seq, failed, given>>

-----------------------------------------------------------------------------
(* Writer                                                                    *)

\* Faulty variant: the next line tries again.
MayWriteAgain(w) == TRUE

\* The first write error is sticky.
MayWrite(w) == ~failed[w]

\* WriteLine: blank lines are skipped; a write may fail after part of the line.
WriteLine(w) ==
  /\ writer[w] \in {"open", "closed"} /\ Len(given[w]) < MaxLines
  /\ \E raw \in Lines :
       LET line == Trim(raw) IN
       IF ~MayWrite(w) \/ line = <<>>
       THEN UNCHANGED <<failed, disk, given>>
       ELSE \/ /\ writer[w] = "open"
               /\ disk' = [disk EXCEPT ![Name(w)] = Append(@, Stamp(line))]
               /\ given' = [given EXCEPT ![w] = Append(@, line)]
               /\ UNCHANGED failed
            \/ /\ failed' = [failed EXCEPT ![w] = TRUE]
               /\ disk' = IF writer[w] = "closed" THEN disk
                          ELSE [disk EXCEPT ![Name(w)] = Append(@, <<Stamp(line)[1]>>)]
               /\ UNCHANGED given
  /\ UNCHANGED <<factory, seq, want, writer, headed>>

Close(w) ==
  /\ writer[w] = "open"
  /\ writer' = [writer EXCEPT ![w] = "closed"]
  /\ \E lost \in BOOLEAN : failed' = [failed EXCEPT ![w] = @ \/ lost]
  /\ UNCHANGED <<factory, seq, want, disk, headed, given>>

Next == \E w \in Writers : TakeNumber(w) \/ Open(w) \/ WriteLine(w) \/ Close(w)

Spec == Init /\ [][Next]_vars

-----------------------------------------------------------------------------
(* Properties *)

\* White space after a line's first brace is not kept.
AsKept(l) == IF Len(l) > 1 /\ l[1] = "{" THEN <<"{">> \o Trim(Tail(l)) ELSE l

\* A recording gives back what was recorded (Dir, WriteLine, stamp, unstamp,
\* Read, ReplayTransport): whatever factories and processes share a directory,
\* a file has one writer and holds, in order, the lines the writer reported
\* success for, with at most a piece of one more at the end, after which nothing
\* was written; read back they are what the CLI wrote, save for the space after
\* the first brace, a line that carries a stamp of its own included; and both
\* ways to replay a file agree.
RecordingIsFaithful ==
  \A w \in Writers : writer[w] \in {"open", "closed"} =>
    LET back == ReplayLines(Name(w))
        kept == [i \in DOMAIN given[w] |-> AsKept(given[w][i])]
    IN  /\ IsPrefix(kept, back)
        /\ Len(back) <= Len(kept) + (IF failed[w] THEN 1 ELSE 0)
        /\ ReplayTransport(Name(w)) = back
        /\ Name(w) \in headed
        /\ \A v \in Writers \ {w} :
             writer[v] \in {"open", "closed", "refused"} => Name(v) # Name(w)
=============================================================================
