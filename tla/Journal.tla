------------------------------- MODULE Journal -------------------------------
(***************************************************************************)
(* The journal file of the web UI server (src/graphweb/server.go) and its  *)
(* replay (src/graphweb/http.go): one server after another in a directory  *)
(* where another program may keep notes of its own, writes that fail half  *)
(* way, exits at any moment, and a replay taken at any moment, which is    *)
(* where a behaviour ends.  (Web.tla has the live server: its streams,     *)
(* gate and questions.)                                                    *)
(*                                                                         *)
(* A file is a sequence of pieces: what one Write left of an event's line. *)
(*                                                                         *)
(* An operator introduced as a "faulty variant" is no part of Next: it is  *)
(* the definition after it with a plausible bug.                           *)
(***************************************************************************)
EXTENDS Integers, Sequences, SequencesExt

CONSTANTS
  Runs,
  DefaultJournal, OldJournal,  \* graphweb.jsonl and journal.jsonl
  MaxEvents,                   \* bound: events of one server
  MaxServers,                  \* bound: servers, one after the other
  MaxFailures                  \* bound: writes that fail

VARIABLES
  dir,       \* per file name: its pieces, or NoFile
  server,    \* the live server, or NoServer
  starting,  \* runs whose RunStart has released the mutex and not emitted
  replay,    \* the replay taken, or NoReplay
  sessions,  \* history: per file name, the events of the server it belongs to
  lossy,     \* history: the files a write to which failed
  bounds     \* servers started, writes failed

vars == <<dir, server, starting, replay, sessions, lossy, bounds>>

JournalNames == <<DefaultJournal, OldJournal>>
Line(type) == [event |-> [seq |-> 0, run |-> "", type |-> type], left |-> "line"]
NoFile == <<Line("no file")>>
NoServer == [up |-> FALSE]
NoReplay == [taken |-> FALSE]
Note == <<Line("")>>   \* another program's line

Init ==
  /\ dir = [f \in ToSet(JournalNames) |-> NoFile] /\ server = NoServer
  /\ starting = {} /\ replay = NoReplay
  /\ sessions = [f \in ToSet(JournalNames) |-> <<>>] /\ lossy = {}
  /\ bounds = [servers |-> 0, failures |-> 0]

-----------------------------------------------------------------------------
(* The live server *)

Fresh(f) == [up |-> TRUE, file |-> f, open |-> TRUE, events |-> <<>>, runs |-> {}, latest |-> ""]

\* Faulty variant: an existing journal is opened and appended to.
NewAppends(f) ==
  /\ server = NoServer /\ bounds.servers < MaxServers
  /\ dir' = [dir EXCEPT ![f] = IF @ = NoFile THEN <<>> ELSE @]
  /\ server' = Fresh(f) /\ sessions' = [sessions EXCEPT ![f] = <<>>]
  /\ bounds' = [bounds EXCEPT !.servers = @ + 1]
  /\ UNCHANGED <<starting, replay, lossy>>

\* O_EXCL: New fails when the file exists.
New(f) ==
  /\ server = NoServer /\ bounds.servers < MaxServers
  /\ dir[f] = NoFile /\ dir' = [dir EXCEPT ![f] = <<>>]
  /\ server' = Fresh(f) /\ sessions' = [sessions EXCEPT ![f] = <<>>]
  /\ bounds' = [bounds EXCEPT !.servers = @ + 1]
  /\ UNCHANGED <<starting, replay, lossy>>

\* Write puts nothing, a part, the line without its newline, or all of it.
Emit(run, type) ==
  LET ev == [seq |-> Len(server.events) + 1, run |-> run, type |-> type]
      f  == server.file
  IN  /\ Len(server.events) < MaxEvents
      /\ server' = [server EXCEPT !.events = Append(@, ev)]
      /\ IF server.open
         THEN /\ sessions' = [sessions EXCEPT ![f] = Append(@, ev)]
              /\ \E left \in {"nothing", "part", "unterminated", "line"} :
                   /\ left # "line" => bounds.failures < MaxFailures
                   /\ dir' = [dir EXCEPT ![f] =
                        IF left = "nothing" THEN @ ELSE Append(@, [event |-> ev, left |-> left])]
                   /\ lossy' = IF left = "line" THEN lossy ELSE lossy \cup {f}
                   /\ bounds' = [bounds EXCEPT !.failures = IF left = "line" THEN @ ELSE @ + 1]
         ELSE UNCHANGED <<dir, sessions, lossy, bounds>>

\* The part of RunStart under the mutex; a segment of a known run emits nothing.
RunStart(r) ==
  /\ server.up /\ r \notin starting
  /\ server' = [server EXCEPT !.latest = r, !.runs = @ \cup {r}]
  /\ starting' = IF r \in server.runs THEN starting ELSE starting \cup {r}
  /\ UNCHANGED <<dir, replay, sessions, lossy, bounds>>

RunStartEmits(r) ==
  r \in starting /\ Emit(r, "graph_start") /\ starting' = starting \ {r} /\ UNCHANGED replay

\* Any other event of a run: an artifact stands for those looked up by their id.
RunEmits(r) ==
  server.up /\ r \in server.runs \ starting /\ Emit(r, "artifact") /\ UNCHANGED <<starting, replay>>

Close ==
  /\ server.up /\ server.open
  /\ server' = [server EXCEPT !.open = FALSE]
  /\ UNCHANGED <<dir, starting, replay, sessions, lossy, bounds>>

\* The process ends, closed or not.
Exit ==
  /\ server.up /\ server' = NoServer /\ starting' = {}
  /\ UNCHANGED <<dir, replay, sessions, lossy, bounds>>

\* Another program starts its notes under the name many use.
OtherProgram ==
  /\ dir[OldJournal] = NoFile
  /\ dir' = [dir EXCEPT ![OldJournal] = Note] /\ UNCHANGED <<server, starting, replay, sessions, lossy, bounds>>

-----------------------------------------------------------------------------
(* Replay *)

Found == SelectSeq(JournalNames, LAMBDA f : dir[f] # NoFile)

\* Faulty variant: the last of the names found.
JournalFileLast == IF Found = <<>> THEN "" ELSE Last(Found)

JournalFile == IF Found = <<>> THEN "" ELSE Head(Found)

\* A piece is a line of its own unless the one before it has no newline; what
\* is glued to another piece, cut, or has no type, fails the whole replay.
Readable(pieces) ==
  /\ pieces # <<>>
  /\ \A i \in DOMAIN pieces :
       pieces[i].event.type # "" /\ (pieces[i].left = "line" \/ (pieces[i].left = "unterminated" /\ i = Len(pieces)))

\* Faulty variant: the events keep the ids they were written with.
ReadKeepsIds(pieces) == [i \in DOMAIN pieces |-> pieces[i].event]

Read(pieces) == [i \in DOMAIN pieces |-> [pieces[i].event EXCEPT !.seq = i]]

LatestOf(events) ==
  LET i == SelectLastInSeq(events, LAMBDA ev : ev.type = "graph_start")
  IN  IF i = 0 THEN "" ELSE events[i].run

NewReplay ==
  /\ replay' =
       LET f == JournalFile
           ok == f # "" /\ Readable(dir[f])
           events == IF ok THEN Read(dir[f]) ELSE <<>>
       IN  [taken |-> TRUE, file |-> f, ok |-> ok, events |-> events, latest |-> LatestOf(events),
            had |-> {g \in DOMAIN dir : dir[g] # NoFile},
            note |-> f # "" /\ dir[f] = Note, empty |-> f # "" /\ dir[f] = <<>>,
            lossy |-> f \in lossy, written |-> IF f = "" THEN <<>> ELSE sessions[f]]
  /\ UNCHANGED <<dir, server, starting, sessions, lossy, bounds>>

Next ==
  /\ ~replay.taken
  /\ \/ \E f \in ToSet(JournalNames) : New(f)
     \/ \E r \in Runs : RunStart(r) \/ RunStartEmits(r) \/ RunEmits(r)
     \/ Close \/ Exit \/ OtherProgram \/ NewReplay

Spec == Init /\ [][Next]_vars

-----------------------------------------------------------------------------
(* The endpoints that search a server's events, live or replayed *)

\* GET /api/topology without a run: 0 for "no run yet".
TopologyOf(events, latest) ==
  SelectLastInSeq(events, LAMBDA ev : ev.type = "graph_start" /\ (latest = "" \/ ev.run = latest))

\* GET /api/artifact/{seq}: 0 for not found.
ArtifactOf(events, seq) ==
  IF seq \in DOMAIN events /\ events[seq].type = "artifact" THEN seq ELSE 0

-----------------------------------------------------------------------------
(* Properties *)

\* A replay is one session's journal (server.go:140-142): every event its server
\* journalled, in order, under the ids its readers saw; after a failed write, which never
\* fails the run (server.go:227-228), some of them in that order, and each artifact is
\* found under the id it is shown with.  Another program's journal.jsonl never hides a
\* graphweb.jsonl (http.go:258-262).  A replay is refused only for a reason.
ReplayIsOneSession ==
  replay.taken =>
    IF replay.ok
    THEN /\ \E kept \in SUBSET (DOMAIN replay.written) :
              [i \in DOMAIN replay.events |-> <<replay.events[i].run, replay.events[i].type>>] =
              LET of == SetToSortSeq(kept, <)
              IN  [i \in DOMAIN of |-> <<replay.written[of[i]].run, replay.written[of[i]].type>>]
         /\ ~replay.lossy => replay.events = replay.written
         /\ \A i \in DOMAIN replay.events :
              replay.events[i].type = "artifact" => ArtifactOf(replay.events, replay.events[i].seq) = i
         /\ replay.latest # "" => TopologyOf(replay.events, replay.latest) # 0
         /\ DefaultJournal \in replay.had => replay.file = DefaultJournal
    ELSE replay.file = "" \/ replay.note \/ replay.empty \/ replay.lossy

\* The live server shows the topology of its latest run, but for the moment between
\* RunStart's mutex section and its event.
LatestHasATopology ==
  (server.up /\ server.runs # {} /\ server.latest \notin starting)
    => TopologyOf(server.events, server.latest) # 0

JournalIsFaithful == ReplayIsOneSession /\ LatestHasATopology
=============================================================================
