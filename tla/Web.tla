--------------------------------- MODULE Web ---------------------------------
(***************************************************************************)
(* The web UI server (src/graphweb): the journal the graph observer        *)
(* writes, the gate that stops a run at a breakpoint, the questions humans *)
(* answer, and the event streams browsers follow.  Around it, as its       *)
(* environment: runs of a graph (src/graph/run.go) driven by               *)
(* RunInteractive, humans, and browsers that lose their connection.        *)
(*                                                                         *)
(* Each emit is one step, as it holds the mutex; what lies between two     *)
(* emits of a handler is open to every other actor.  The journal is kept   *)
(* per run: the order of events of different runs is arbitrary, and a      *)
(* stream needs only the journal's length, since an event's id is its      *)
(* position.  The answers channel is the number of answers in it.          *)
(*                                                                         *)
(* An operator introduced as a "faulty variant" is no part of Next: it is  *)
(* the definition after it with a plausible bug.                           *)
(***************************************************************************)
EXTENDS Integers, Sequences, SequencesExt, FiniteSets, FiniteSetsExt

CONSTANTS
  Runs, Readers,
  Nodes, Start, End, NoNode,
  Branches,    \* the branches of parallel nodes
  BranchesOf,  \* per run and node: its branches in their order, <<>> if the
               \* node is no parallel node
  Observed,    \* the runs whose graph was compiled WithObserver(srv)
  Scenes,      \* which runs and readers take part, and a bound on the
               \* pause, step, continue and breakpoint requests of the humans
  MaxSteps,    \* the MaxSteps option of each run's graph
  AnswersCap,  \* capacity of the answers channel (16)
  MaxCancels,  \* bound: runs cancelled while they wait
  MaxDrops     \* bound: connections lost

ASSUME WebAssumption ==
  /\ Observed \subseteq Runs
  /\ BranchesOf \in [Runs -> [Nodes -> Seq(Branches)]]
  /\ Branches \cap (Nodes \cup {Start, End, NoNode}) = {}
  /\ NoNode \notin Nodes \cup {Start, End}
  /\ Scenes \subseteq [runs : SUBSET Runs, readers : SUBSET Readers, controls : Nat]
  /\ \A s \in Scenes : IsFiniteSet(s.runs)
  /\ MaxSteps \in [Runs -> Nat] /\ AnswersCap \in Nat \ {0}

VARIABLES
  scene,                          \* who takes part in this behaviour
  pc, cur, step, answered, out,   \* per run: control point, the locals of the
                                  \* loop, and how it ended
  asked,                          \* per run: a node has asked its question
  log,                            \* per run: the records of its durable log
  events, taken,                  \* per run: its journal events, edge counts
  branch,                         \* per run: its node's branches
  pauseNext, breakpoints, controls, \* the gate
  release, held,                  \* which release channel is the server's,
                                  \* and which one a run captured
  pressed,                        \* history: a step or continue came since
                                  \* the run began to stop
  open, queued, wedged,           \* questions open, answers in the channel,
                                  \* Answer blocked on it holding the mutex
  orphans, cancels,               \* history: open questions nobody waits for
  conn, after, batch, known, got, \* per reader: its stream, what it received
  drops

graph == <<pc, cur, step, answered, out, asked, log, branch>>
journal == <<events, taken>>
gate == <<pauseNext, breakpoints, controls, release, held, pressed>>
questions == <<open, queued, wedged, orphans, cancels>>
streams == <<conn, after, batch, known, got, drops>>
vars == <<scene, graph, journal, gate, questions, streams>>

Edges == (Nodes \cup {Start}) \X (Nodes \cup {End})
Fans == Nodes \X Branches

TypeOK ==
  /\ scene \in Scenes
  /\ pc \in [Runs -> {"new", "edge", "top", "hit", "gated", "resume",
       "start", "node", "askshow", "askwait", "askend", "mark", "show",
       "paused", "reshow", "wait", "finish", "over"}]
  /\ cur \in [Runs -> Nodes \cup {Start, End}]
  /\ step \in [Runs -> Nat]
  /\ answered \in [Runs -> BOOLEAN] /\ asked \in [Runs -> BOOLEAN]
  /\ out \in [Runs -> {"none", "ok", "error", "cancelled", "max_steps"}]
  /\ taken \in [Runs -> [Edges \cup Fans -> Nat]]
  /\ branch \in [Runs -> [Branches -> {"idle", "called", "run", "ended", "failed"}]]
  /\ pauseNext \in BOOLEAN /\ breakpoints \subseteq Nodes
  /\ release \in Nat /\ held \in [Runs -> Nat] /\ pressed \in [Runs -> BOOLEAN]
  /\ open \in Nat /\ queued \in 0..AnswersCap /\ wedged \in BOOLEAN
  /\ orphans \in Nat
  /\ conn \in [Readers -> {"off", "read", "write", "wait"}]
  /\ after \in [Readers -> Nat] /\ batch \in [Readers -> Nat]
  /\ known \in [Readers -> Nat] /\ got \in [Readers -> Seq(Nat)]

Init ==
  /\ scene \in Scenes
  /\ pc = [r \in Runs |-> "new"] /\ out = [r \in Runs |-> "none"]
  /\ cur = [r \in Runs |-> Start] /\ step = [r \in Runs |-> 0]
  /\ answered = [r \in Runs |-> FALSE] /\ asked = [r \in Runs |-> FALSE]
  /\ log = [r \in Runs |-> <<>>] /\ events = [r \in Runs |-> <<>>]
  /\ taken = [r \in Runs |-> [e \in Edges \cup Fans |-> 0]]
  /\ branch = [r \in Runs |-> [b \in Branches |-> "idle"]]
  /\ pauseNext = FALSE /\ breakpoints = {}
  /\ release = 0 /\ held = [r \in Runs |-> 0] /\ pressed = [r \in Runs |-> FALSE]
  /\ open = 0 /\ queued = 0 /\ wedged = FALSE /\ orphans = 0
  /\ conn = [c \in Readers |-> "off"] /\ after = [c \in Readers |-> 0]
  /\ batch = [c \in Readers |-> 0] /\ known = [c \in Readers |-> 0]
  /\ got = [c \in Readers |-> <<>>]
  /\ controls = 0 /\ cancels = 0 /\ drops = 0

At(r, where) == r \in scene.runs /\ pc[r] = where
Go(r, where) == pc' = [pc EXCEPT ![r] = where]

-----------------------------------------------------------------------------
(* The journal *)

Event(type, node, at) ==
  [type |-> type, by |-> "observer", node |-> node, step |-> at, to |-> NoNode,
   parent |-> NoNode, iter |-> 0, how |-> "ok"]

EdgeEvent(from, to, at, iter) == [Event("edge", from, at) EXCEPT !.to = to, !.iter = iter]
Halted(node, at) == [Event("node_end", node, at) EXCEPT !.how = "paused"]
Ended(how) == [Event("graph_end", NoNode, 0) EXCEPT !.how = how]

\* The observer of a run that is not Observed is someone else: only what Ask
\* and RunInteractive emit themselves reaches the journal.
Emit(r, ev) ==
  /\ ~wedged
  /\ events' = IF r \in Observed \/ ev.by # "observer"
               THEN [events EXCEPT ![r] = Append(@, ev)] ELSE events

Entries == UNION {{r} \X DOMAIN events[r] : r \in Runs}
JournalLen == Cardinality(Entries)

Record(kind, node, at, next) ==
  [kind |-> kind, node |-> node, step |-> at, next |-> next, failed |-> FALSE]

Log(r, rec) == log' = [log EXCEPT ![r] = Append(@, rec)]

-----------------------------------------------------------------------------
(* A run, up to its first node and from each node to the next *)

RunStart(r, first) ==
  /\ At(r, "new") /\ Go(r, "edge")
  /\ Emit(r, Event("graph_start", NoNode, 0))
  /\ Log(r, Record("run_start", NoNode, 0, first))
  /\ cur' = [cur EXCEPT ![r] = first]
  /\ UNCHANGED <<scene, step, answered, out, asked, branch, taken, gate, questions, streams>>

\* The run's outcome is known; finish logs it and RunEnd shows it.
EndWith(r, how) == Go(r, "finish") /\ out' = [out EXCEPT ![r] = how]

\* The first node cannot be found, or the state cannot be logged: no log is begun.
StartRouteFails(r) ==
  /\ At(r, "new") /\ EndWith(r, "error")
  /\ Emit(r, Event("graph_start", NoNode, 0))
  /\ UNCHANGED <<scene, cur, step, answered, asked, log, branch, taken, gate, questions, streams>>

\* Faulty variant: the count is read before it is raised.
EdgeTakenStale(r) ==
  /\ At(r, "edge") /\ Go(r, "top")
  /\ LET from == IF step[r] = 0 THEN Start ELSE log[r][Len(log[r])].node
     IN  /\ taken' = [taken EXCEPT ![r][<<from, cur[r]>>] = @ + 1]
         /\ Emit(r, EdgeEvent(from, cur[r], step[r], taken[r][<<from, cur[r]>>]))
  /\ UNCHANGED <<scene, cur, step, answered, out, asked, log, branch, gate, questions, streams>>

EdgeTaken(r) ==
  /\ At(r, "edge") /\ Go(r, "top")
  /\ LET from == IF step[r] = 0 THEN Start ELSE log[r][Len(log[r])].node
     IN  /\ taken' = [taken EXCEPT ![r][<<from, cur[r]>>] = @ + 1]
         /\ Emit(r, EdgeEvent(from, cur[r], step[r], taken'[r][<<from, cur[r]>>]))
  /\ UNCHANGED <<scene, cur, step, answered, out, asked, log, branch, gate, questions, streams>>

ReachEnd(r) ==
  /\ At(r, "top")
  /\ \/ cur[r] = End /\ EndWith(r, "ok")
     \/ cur[r] # End /\ step[r] = MaxSteps[r] /\ EndWith(r, "max_steps")
  /\ UNCHANGED <<scene, cur, step, answered, asked, log, branch, journal, gate, questions,
                 streams>>

RunEnd(r) ==
  /\ At(r, "finish") /\ Go(r, "over")
  /\ IF log[r] = <<>> THEN log' = log
     ELSE Log(r, [Record("run_end", NoNode, 0, NoNode) EXCEPT !.failed = out[r] # "ok"])
  /\ Emit(r, Ended(out[r]))
  /\ UNCHANGED <<scene, cur, step, answered, out, asked, branch, taken, gate, questions, streams>>

-----------------------------------------------------------------------------
(* The gate.  A node that was given an answer is not gated. *)

Gated(r) ==
  /\ At(r, "top") /\ cur[r] # End /\ step[r] < MaxSteps[r] /\ ~answered[r]
  /\ r \in Observed

Stops(r) == cur[r] \in breakpoints \/ pauseNext

Pass(r) ==
  /\ At(r, "top") /\ cur[r] # End /\ step[r] < MaxSteps[r]
  /\ Gated(r) => ~wedged /\ ~Stops(r)
  /\ Go(r, IF answered[r] THEN "resume" ELSE "start")
  /\ UNCHANGED <<scene, cur, step, answered, out, asked, log, branch, journal, gate, questions, streams>>

Before(r) ==
  /\ Gated(r) /\ ~wedged /\ Stops(r)
  /\ Go(r, "hit")
  /\ pauseNext' = FALSE
  /\ held' = [held EXCEPT ![r] = release]
  /\ pressed' = [pressed EXCEPT ![r] = FALSE]
  /\ UNCHANGED <<scene, cur, step, answered, out, asked, log, branch, journal, breakpoints,
                 controls, release, questions, streams>>

\* Faulty variant: the channel is taken only now.
BreakpointHitTakesLate(r) ==
  /\ At(r, "hit") /\ Go(r, "gated")
  /\ Emit(r, [Event("breakpoint_hit", cur[r], step[r] + 1) EXCEPT !.by = "gate"])
  /\ held' = [held EXCEPT ![r] = release]
  /\ UNCHANGED <<scene, cur, step, answered, out, asked, log, branch, taken, pauseNext,
                 breakpoints, controls, release, pressed, questions, streams>>

BreakpointHit(r) ==
  /\ At(r, "hit") /\ Go(r, "gated")
  /\ Emit(r, [Event("breakpoint_hit", cur[r], step[r] + 1) EXCEPT !.by = "gate"])
  /\ UNCHANGED <<scene, cur, step, answered, out, asked, log, branch, taken, gate, questions, streams>>

\* The channel the run captured is closed once it is the server's no more.
Released(r) ==
  /\ At(r, "gated") /\ held[r] < release
  /\ Go(r, "start")
  /\ UNCHANGED <<scene, cur, step, answered, out, asked, log, branch, journal, gate, questions, streams>>

Command == ~wedged /\ controls < scene.controls /\ controls' = controls + 1

Pause ==
  /\ Command
  /\ pauseNext' = TRUE
  /\ UNCHANGED <<scene, graph, journal, breakpoints, release, held, pressed, questions, streams>>

\* The server's release channel is closed and replaced.
Release(action) ==
  /\ Command
  /\ pauseNext' = (action = "step")
  /\ release' = release + 1
  /\ pressed' = [r \in Runs |-> pressed[r] \/ pc[r] \in {"hit", "gated"}]
  /\ UNCHANGED <<scene, graph, journal, breakpoints, held, questions, streams>>

SetBreakpoints(nodes) ==
  /\ Command /\ nodes # breakpoints
  /\ breakpoints' = nodes
  /\ UNCHANGED <<scene, graph, journal, pauseNext, release, held, pressed, questions, streams>>

-----------------------------------------------------------------------------
(* A node: it may Ask or interrupt once, fails, or picks the next node *)

Resumed(r) ==
  /\ At(r, "resume") /\ Go(r, "start")
  /\ Emit(r, Event("resume", cur[r], step[r] + 1))
  /\ UNCHANGED <<scene, cur, step, answered, out, asked, log, branch, taken, gate, questions, streams>>

NodeStart(r) ==
  /\ At(r, "start") /\ Go(r, "node")
  /\ step' = [step EXCEPT ![r] = @ + 1]
  /\ branch' = [branch EXCEPT ![r] = [b \in Branches |-> "idle"]]
  /\ Log(r, Record("node_start", cur[r], step'[r], NoNode))
  /\ Emit(r, Event("node_start", cur[r], step'[r]))
  /\ UNCHANGED <<scene, cur, answered, out, asked, taken, gate, questions, streams>>

Fan(r) == ToSet(BranchesOf[r][cur[r]])
BranchesOver(r) == \A b \in Fan(r) : branch[r][b] \in {"ended", "failed"}
BranchFailed(r) == \E b \in Fan(r) : branch[r][b] = "failed"

NodeEnd(r, next) ==
  /\ At(r, "node") /\ Go(r, "edge")
  /\ BranchesOver(r) /\ ~BranchFailed(r)
  /\ Emit(r, Event("node_end", cur[r], step[r]))
  /\ Log(r, Record("node_commit", cur[r], step[r], next))
  /\ cur' = [cur EXCEPT ![r] = next]
  /\ answered' = [answered EXCEPT ![r] = FALSE]
  /\ UNCHANGED <<scene, step, out, asked, branch, taken, gate, questions, streams>>

\* The node is done and has been shown so; where it leads to is no node, the
\* route panics, or the state cannot be logged.
RouteFails(r) ==
  /\ At(r, "node") /\ EndWith(r, "error")
  /\ BranchesOver(r) /\ ~BranchFailed(r)
  /\ Emit(r, Event("node_end", cur[r], step[r]))
  /\ UNCHANGED <<scene, cur, step, answered, asked, log, branch, taken, gate, questions, streams>>

EndFailed(r) == [Event("node_end", cur[r], step[r]) EXCEPT !.how = "error"]

\* The node, one of its branches or its merge fails.
NodeFails(r) ==
  /\ At(r, "node") /\ EndWith(r, "error")
  /\ BranchesOver(r)
  /\ Emit(r, EndFailed(r))
  /\ UNCHANGED <<scene, cur, step, answered, asked, log, branch, taken, gate, questions, streams>>

-----------------------------------------------------------------------------
(* The branches of a parallel node, which the observer is shown one by one *)

BranchIs(r, b, s) == branch' = [branch EXCEPT ![r][b] = s]

OfBranch(r, type, b, how) ==
  [Event(type, b, step[r]) EXCEPT !.parent = cur[r], !.how = how]

\* The next branch is called: its edge is shown, then it has a goroutine.
CallBranch(r, b) ==
  /\ At(r, "node")
  /\ LET fan == BranchesOf[r][cur[r]]
     IN  \E i \in DOMAIN fan : /\ fan[i] = b /\ branch[r][b] = "idle"
                              /\ \A j \in 1..(i - 1) : branch[r][fan[j]] # "idle"
  /\ BranchIs(r, b, "called")
  /\ taken' = [taken EXCEPT ![r][<<cur[r], b>>] = @ + 1]
  /\ Emit(r, EdgeEvent(cur[r], b, step[r], taken'[r][<<cur[r], b>>]))
  /\ UNCHANGED <<scene, pc, cur, step, answered, out, asked, log, gate, questions, streams>>

StartBranch(r, b) ==
  /\ At(r, "node") /\ branch[r][b] = "called"
  /\ BranchIs(r, b, "run")
  /\ Emit(r, OfBranch(r, "node_start", b, "ok"))
  /\ UNCHANGED <<scene, pc, cur, step, answered, out, asked, log, taken, gate, questions, streams>>

\* A branch that interrupts has failed.
EndBranch(r, b, how) ==
  /\ At(r, "node") /\ branch[r][b] = "run"
  /\ BranchIs(r, b, IF how = "ok" THEN "ended" ELSE "failed")
  /\ Emit(r, OfBranch(r, "node_end", b, how))
  /\ UNCHANGED <<scene, pc, cur, step, answered, out, asked, log, taken, gate, questions, streams>>

BranchStep(r) ==
  \E b \in Branches : \/ CallBranch(r, b) \/ StartBranch(r, b)
                      \/ \E how \in {"ok", "error"} : EndBranch(r, b, how)

-----------------------------------------------------------------------------
(* Questions *)

MarkOpen ==
  /\ ~wedged
  /\ open' = open + 1
  /\ UNCHANGED <<queued, wedged, orphans, cancels>>

\* Ask: the node waits for a human without pausing the graph.
Ask(r) ==
  /\ At(r, "node") /\ Fan(r) = {} /\ ~asked[r]
  /\ Go(r, "askshow") /\ MarkOpen
  /\ asked' = [asked EXCEPT ![r] = TRUE]
  /\ UNCHANGED <<scene, cur, step, answered, out, log, branch, journal, gate, streams>>

AskShow(r) ==
  /\ At(r, "askshow") /\ Go(r, "askwait")
  /\ Emit(r, [Event("interrupt", cur[r], step[r]) EXCEPT !.by = "caller"])
  /\ UNCHANGED <<scene, cur, step, answered, out, asked, log, branch, taken, gate, questions, streams>>

\* An answer leaves the channel; one that Answer was blocked on takes its place.
Receive ==
  /\ queued > 0
  /\ queued' = IF wedged THEN queued ELSE queued - 1
  /\ wedged' = FALSE
  /\ UNCHANGED <<open, orphans, cancels>>

AskAnswered(r) ==
  /\ At(r, "askwait") /\ Go(r, "askend") /\ Receive
  /\ UNCHANGED <<scene, cur, step, answered, out, asked, log, branch, journal, gate, streams>>

AskEnd(r) ==
  /\ At(r, "askend") /\ Go(r, "node")
  /\ Emit(r, [Event("resume", cur[r], step[r]) EXCEPT !.by = "caller"])
  /\ UNCHANGED <<scene, cur, step, answered, out, asked, log, branch, taken, gate, questions, streams>>

\* Interrupt: NodeEnd shows the question, Run returns to RunInteractive.
Interrupt(r) ==
  /\ At(r, "node") /\ Fan(r) = {} /\ ~asked[r] /\ ~answered[r]
  /\ Go(r, IF r \in Observed THEN "mark" ELSE "show")
  /\ asked' = [asked EXCEPT ![r] = TRUE]
  /\ Emit(r, Halted(cur[r], step[r]))
  /\ UNCHANGED <<scene, cur, step, answered, out, log, branch, taken, gate, questions, streams>>

\* Faulty variant: NodeEnd shows the question without counting it.
MarkNothing(r) ==
  /\ At(r, "mark") /\ Go(r, "show") /\ ~wedged
  /\ UNCHANGED <<scene, cur, step, answered, out, asked, log, branch, journal, gate, questions, streams>>

Mark(r) ==
  /\ At(r, "mark") /\ Go(r, "show") /\ MarkOpen
  /\ UNCHANGED <<scene, cur, step, answered, out, asked, log, branch, journal, gate, streams>>

Show(r) ==
  /\ At(r, "show") /\ Go(r, "paused")
  /\ Emit(r, Event("interrupt", cur[r], step[r]))
  /\ Log(r, Record("interrupt", cur[r], step[r], NoNode))
  /\ UNCHANGED <<scene, cur, step, answered, out, asked, branch, taken, gate, questions, streams>>

\* The question NodeEnd opened may be answered by now: it is opened once more.
EnsureOpen(r) ==
  /\ At(r, "paused") /\ ~wedged
  /\ IF open > 0
     THEN Go(r, "wait") /\ UNCHANGED questions
     ELSE /\ Go(r, "reshow")
          /\ open' = 1
          /\ orphans' = orphans + (IF r \in Observed THEN 1 ELSE 0)
          /\ UNCHANGED <<queued, wedged, cancels>>
  /\ UNCHANGED <<scene, cur, step, answered, out, asked, log, branch, journal, gate, streams>>

Reshow(r) ==
  /\ At(r, "reshow") /\ Go(r, "wait")
  /\ Emit(r, [Event("interrupt", cur[r], step[r]) EXCEPT !.by = "caller"])
  /\ UNCHANGED <<scene, cur, step, answered, out, asked, log, branch, taken, gate, questions, streams>>

\* Faulty variant: the resumed segment starts the run's counts anew.
ResumeForgetful(r) ==
  /\ At(r, "wait") /\ Go(r, "top") /\ Receive
  /\ Log(r, Record("resume", cur[r], step[r], NoNode))
  /\ step' = [step EXCEPT ![r] = @ - 1]
  /\ answered' = [answered EXCEPT ![r] = TRUE]
  /\ taken' = [taken EXCEPT ![r] = [e \in Edges \cup Fans |-> 0]]
  /\ UNCHANGED <<scene, cur, out, asked, branch, events, gate, streams>>

\* The answer resumes the run: the node takes the same step again.
Resume(r) ==
  /\ At(r, "wait") /\ Go(r, "top") /\ Receive
  /\ Log(r, Record("resume", cur[r], step[r], NoNode))
  /\ step' = [step EXCEPT ![r] = @ - 1]
  /\ answered' = [answered EXCEPT ![r] = TRUE]
  /\ UNCHANGED <<scene, cur, out, asked, branch, journal, gate, streams>>

Answer ==
  /\ ~wedged /\ open > 0
  /\ open' = open - 1
  /\ IF queued < AnswersCap THEN queued' = queued + 1 /\ UNCHANGED wedged
                            ELSE wedged' = TRUE /\ UNCHANGED queued
  /\ UNCHANGED <<scene, graph, journal, gate, orphans, cancels, streams>>

-----------------------------------------------------------------------------
(* The context of a run ends while it waits *)

Cancel == cancels < MaxCancels /\ cancels' = cancels + 1
Abandon == Cancel /\ orphans' = orphans + 1 /\ UNCHANGED <<open, queued, wedged>>

\* loop looks at its context before every node.
TopCancelled(r) ==
  /\ At(r, "top") /\ cur[r] # End /\ EndWith(r, "cancelled")
  /\ Cancel
  /\ UNCHANGED <<scene, cur, step, answered, asked, log, branch, journal, gate, open, queued, wedged,
                 orphans, streams>>

GateCancelled(r) ==
  /\ At(r, "gated") /\ EndWith(r, "cancelled")
  /\ Cancel
  /\ UNCHANGED <<scene, cur, step, answered, asked, log, branch, journal, gate, open, queued, wedged,
                 orphans, streams>>

AskCancelled(r) ==
  /\ At(r, "askwait") /\ EndWith(r, "cancelled")
  /\ Abandon
  /\ Emit(r, EndFailed(r))
  /\ UNCHANGED <<scene, cur, step, answered, asked, log, branch, taken, gate, streams>>

\* RunInteractive returns; the run stays paused in the journal and in the log.
WaitCancelled(r) ==
  /\ At(r, "wait") /\ Go(r, "over")
  /\ Abandon
  /\ UNCHANGED <<scene, cur, step, answered, out, asked, log, branch, journal, gate, streams>>

-----------------------------------------------------------------------------
(* Event streams *)

\* Faulty variant: the stream goes on where the broken one had been written to.
ConnectAtWritten(c) ==
  /\ c \in scene.readers /\ conn[c] = "off"
  /\ conn' = [conn EXCEPT ![c] = "read"]
  /\ after' = [after EXCEPT ![c] = @ + (IF drops > 0 THEN batch[c] ELSE 0)]
  /\ UNCHANGED <<scene, graph, journal, gate, questions, batch, known, got, drops>>

\* A reconnect sends the id of the last event it got.
Connect(c) ==
  /\ c \in scene.readers /\ conn[c] = "off"
  /\ conn' = [conn EXCEPT ![c] = "read"]
  /\ after' = [after EXCEPT ![c] = IF got[c] = <<>> THEN 0 ELSE Last(got[c])]
  /\ UNCHANGED <<scene, graph, journal, gate, questions, batch, known, got, drops>>

\* The batch and the channel that tells of more are taken under one lock.
ReadBatch(c) ==
  /\ conn[c] = "read" /\ ~wedged
  /\ conn' = [conn EXCEPT ![c] = "write"]
  /\ batch' = [batch EXCEPT ![c] = JournalLen - after[c]]
  /\ known' = [known EXCEPT ![c] = JournalLen]
  /\ UNCHANGED <<scene, graph, journal, gate, questions, after, got, drops>>

Ids(c, n) == [i \in 1..n |-> after[c] + i]

\* Faulty variant: what was written when the channel was taken is not looked at
\* again, whatever came in between.
WriteBatchWaits(c) ==
  /\ conn[c] = "write"
  /\ conn' = [conn EXCEPT ![c] = "wait"]
  /\ got' = [got EXCEPT ![c] = @ \o Ids(c, batch[c])]
  /\ after' = [after EXCEPT ![c] = @ + batch[c]]
  /\ known' = [known EXCEPT ![c] = JournalLen]
  /\ UNCHANGED <<scene, graph, journal, gate, questions, batch, drops>>

WriteBatch(c) ==
  /\ conn[c] = "write"
  /\ conn' = [conn EXCEPT ![c] = IF batch[c] > 0 THEN "read" ELSE "wait"]
  /\ got' = [got EXCEPT ![c] = @ \o Ids(c, batch[c])]
  /\ after' = [after EXCEPT ![c] = @ + batch[c]]
  /\ UNCHANGED <<scene, graph, journal, gate, questions, batch, known, drops>>

\* emit closed the channel, or the heartbeat came.
Wake(c) ==
  /\ conn[c] = "wait" /\ JournalLen > known[c]
  /\ conn' = [conn EXCEPT ![c] = "read"]
  /\ UNCHANGED <<scene, graph, journal, gate, questions, after, batch, known, got, drops>>

Beat(c) ==
  /\ conn[c] = "wait" /\ JournalLen = known[c]
  /\ conn' = [conn EXCEPT ![c] = "read"]
  /\ UNCHANGED <<scene, graph, journal, gate, questions, after, batch, known, got, drops>>

\* The connection breaks; part of what was written has arrived.
Drop(c) ==
  /\ conn[c] # "off" /\ drops < MaxDrops
  /\ drops' = drops + 1
  /\ conn' = [conn EXCEPT ![c] = "off"]
  /\ \E n \in 0..(IF conn[c] = "write" THEN batch[c] ELSE 0) :
       got' = [got EXCEPT ![c] = @ \o Ids(c, n)]
  /\ UNCHANGED <<scene, graph, journal, gate, questions, after, batch, known>>

-----------------------------------------------------------------------------
Run(r) ==
  \/ \E n \in Nodes : RunStart(r, n)
  \/ StartRouteFails(r) \/ EdgeTaken(r) \/ ReachEnd(r) \/ RunEnd(r)
  \/ Pass(r) \/ Before(r) \/ BreakpointHit(r) \/ Released(r)
  \/ Resumed(r) \/ NodeStart(r) \/ RouteFails(r) \/ NodeFails(r)
  \/ \E n \in Nodes \cup {End} : NodeEnd(r, n)
  \/ BranchStep(r) \/ Ask(r) \/ AskShow(r) \/ AskAnswered(r) \/ AskEnd(r)
  \/ Interrupt(r) \/ Mark(r) \/ Show(r) \/ EnsureOpen(r) \/ Reshow(r)
  \/ Resume(r)

Cancelled(r) == TopCancelled(r) \/ GateCancelled(r) \/ AskCancelled(r) \/ WaitCancelled(r)

Human ==
  \/ Answer \/ Pause
  \/ \E action \in {"step", "continue"} : Release(action)
  \/ \E nodes \in SUBSET Nodes : SetBreakpoints(nodes)

Stream(c) == ReadBatch(c) \/ WriteBatch(c) \/ Wake(c)

Next ==
  \/ \E r \in Runs : Run(r) \/ Cancelled(r)
  \/ Human
  \/ \E c \in Readers : Stream(c) \/ Connect(c) \/ Beat(c) \/ Drop(c)

Spec == Init /\ [][Next]_vars

\* The goroutine that serves a stream is scheduled; nothing else need happen.
FairSpec == Spec /\ \A c \in Readers : WF_vars(Stream(c))

-----------------------------------------------------------------------------
(* What the server would show for a run, from the run's log alone *)

\* The closure edge: an edge is shown with how often it was met so far.
Crossed(read, from, to, at) ==
  LET iters == [read.iters EXCEPT ![<<from, to>>] = @ + 1]
  IN  [shown |-> Append(read.shown, EdgeEvent(from, to, at, iters[<<from, to>>])),
       iters |-> iters]

Showing(read, ev) == [shown |-> Append(read.shown, ev), iters |-> read.iters]

\* What one record adds to the events and the counts read so far.
Translate(read, rec) ==
  CASE rec.kind = "run_start" ->
         Crossed(Showing(read, Event("graph_start", NoNode, 0)), Start, rec.next, 0)
    [] rec.kind = "node_start" -> Showing(read, Event("node_start", rec.node, rec.step))
    [] rec.kind = "node_commit" ->
         Crossed(Showing(read, Event("node_end", rec.node, rec.step)),
                 rec.node, rec.next, rec.step)
    [] rec.kind = "interrupt" ->
         Showing(Showing(read, Halted(rec.node, rec.step)),
                 Event("interrupt", rec.node, rec.step))
    [] rec.kind = "resume" -> Showing(read, Event("resume", rec.node, rec.step))
    [] rec.kind = "run_end" -> Showing(read, Ended(IF rec.failed THEN "error" ELSE "ok"))

ReadLog(recs) ==
  LET read[i \in 0..Len(recs)] ==
        IF i = 0 THEN [shown |-> <<>>, iters |-> [e \in Edges |-> 0]]
                 ELSE Translate(read[i - 1], recs[i])
  IN  read[Len(recs)]

EventsFromRecords(recs) == ReadLog(recs).shown

-----------------------------------------------------------------------------
(* Properties *)

\* A run that has opened a question and has not been answered.
Asking(r) ==
  \/ pc[r] \in {"askshow", "askwait", "reshow", "wait"}
  \/ r \in Observed /\ pc[r] \in {"show", "paused"}

Askers == {r \in scene.runs : Asking(r)}

\* Whoever waits for a human can be answered and is shown: for every question
\* somebody waits for there is one that Answer accepts or an answer on its way,
\* any more than that belong to questions whose asker is gone, and the last the
\* journal says of a waiting run is its question
\* (markOpen, Answer, ensureOpen and waitAnswer in graphweb/server.go).
EveryQuestionCanBeAnswered ==
  /\ TypeOK
  /\ open + queued + (IF wedged THEN 1 ELSE 0) = Cardinality(Askers) + orphans
  /\ \A r \in scene.runs : pc[r] \in {"askwait", "wait"} =>
       LET i == SelectLastInSeq(events[r], LAMBDA e : e.type \in {"interrupt", "resume"})
       IN  i > 0 /\ events[r][i].type = "interrupt"

\* A run that stops may go on exactly if a step or continue was pressed since
\* it began to stop: a press between the two critical sections of a stop, before
\* its breakpoint_hit is shown, is not lost, and no earlier one lets the run go
\* (Before and Control in graphweb/server.go).
ReleaseIsNeverLost ==
  \A r \in scene.runs :
     pc[r] \in {"hit", "gated"} => (pressed[r] <=> held[r] < release)

\* A browser gets every event once and in order, however often it reconnects
\* (handleEvents in graphweb/http.go).
EachEventOnce ==
  \A c \in scene.readers :
     /\ got[c] = [i \in 1..Len(got[c]) |-> i]
     /\ Len(got[c]) <= JournalLen

\* A connected browser is brought up to date without waiting for a heartbeat,
\* unless Answer holds the mutex for good (handleEvents and emit).
ReaderCatchesUp ==
  \A c \in Readers :
     conn[c] # "off" ~> conn[c] = "off" \/ wedged \/ Len(got[c]) = JournalLen

\* An event a log can tell: not what the gate, Ask or RunInteractive emit, and
\* nothing of the branches of a node.
Durable(e) == e.by = "observer" /\ e.parent = NoNode /\ e.to \notin Branches

\* A log tells that a run failed, not whether it was cancelled or ran too long.
Blurred(e) ==
  IF e.type = "graph_end" /\ e.how # "ok" THEN [e EXCEPT !.how = "error"] ELSE e

\* A journal as far as a log can tell it.
Live(evs) ==
  LET seen[i \in 0..Len(evs)] ==
        IF i = 0 THEN <<>>
        ELSE IF Durable(evs[i]) THEN Append(seen[i - 1], Blurred(evs[i]))
                                ELSE seen[i - 1]
  IN  seen[Len(evs)]

\* The end of a node the run never left by an edge, or an answer it never took
\* to a node: of those one side only knows.
Loose(evs) ==
  LET n == Len(evs)
  IN  n > 1 /\ evs[n].type = "graph_end" /\ evs[n - 1].type \in {"node_end", "resume"}

Settled(evs) ==
  IF Loose(evs) THEN Append(Front(Front(evs)), Last(evs)) ELSE evs

\* What the durable log of a run at rest would be shown as is what the observer
\* showed live: no event is missing, doubled or out of order.  Live only are the
\* branches of a parallel node, the end of a node that failed or whose route
\* did, how a run failed, and a run whose first route failed; in the log only is
\* an answer to a run that was cancelled before it went on (EventsFromRecords in
\* graphweb/store.go).
ReplayShowsTheRun ==
  \A r \in scene.runs \cap Observed : pc[r] \in {"wait", "over"} /\ log[r] # <<>> =>
     Settled(EventsFromRecords(log[r])) = Settled(Live(events[r]))

\* An answer is accepted only while a question waits for one: what the code
\* says of Answer.  It holds only of runs that nobody answers early, see
\* EnsureOpen (Answer and ensureOpen in graphweb/server.go).
EveryAnswerHasAQuestion == queued <= Cardinality(Askers) + cancels
=============================================================================
