----------------------------- MODULE DurableRun -----------------------------
(***************************************************************************)
(* One run of a graph compiled WithCheckpointStore (src/graph/run.go and   *)
(* durable.go): Run, Resume and Recover, the loop they share, and the      *)
(* records it appends, with crashes of the process and failures of the     *)
(* store between any two records.                                          *)
(*                                                                         *)
(* The process is a control point pc and the loop's locals.  "log" is what *)
(* the CheckpointStore holds; an append that reports an error may or may   *)
(* not have stored the record.  The caller keeps the checkpoint of a       *)
(* paused run, calls Resume with it once, and calls Recover at any time    *)
(* no segment of the run is executing.                                     *)
(*                                                                         *)
(* An operator introduced as a "faulty variant" is no part of Next: it is  *)
(* the definition after it with a plausible bug, which the property that   *)
(* guards against the bug must refute.                                     *)
(***************************************************************************)
EXTENDS GraphLog, FiniteSets

CONSTANTS
  Targets,       \* the allowed next nodes of Start and of every node
  MaxSteps,      \* the MaxSteps option
  Imported,      \* checkpoints of runs this store has no log of
  MaxFaults,     \* bound: crashes, store failures, failed and cancelled nodes
  MaxRecoveries, \* bound: Recover calls that continue the run
  MaxAsks,       \* bound: questions asked
  MaxNotes       \* bound: sessions an attempt reports

Checkpoints ==
  [node : Nodes, step : Nat, state : States, path : Seq(Nodes)]
NoCheckpoint == [node |-> NoNode, step |-> 0, state |-> <<>>, path |-> <<>>]

ASSUME RunAssumption ==
  /\ Targets \in [Nodes \cup {Start} -> SUBSET (Nodes \cup {End})]
  /\ MaxSteps \in Nat /\ MaxFaults \in Nat /\ MaxRecoveries \in Nat
  /\ MaxAsks \in Nat /\ MaxNotes \in Nat
  /\ Imported \subseteq Checkpoints
  /\ \A cp \in Imported : cp.step < MaxSteps

VARIABLES
  log,        \* the run's records in the store
  pc,         \* where the segment is; "idle" when none executes
  cur, step, state, path, \* the locals of loop
  reply,      \* the answer waiting for the next node (answer, hasAnswer)
  given,      \* what the executing node was given: answer and session
  noted,      \* the last session id the executing node reported
  seq, broken,\* the writer: last number used, sticky error
  out,        \* how the loop ended; "silent" closes without a run_end
  held,       \* the checkpoint the caller can Resume
  result,     \* what the last call told the caller
  ran,        \* history: the node that was executed under each step number
  faults, recoveries

locals == <<cur, step, state, path, reply, given, noted, out>>
writer == <<seq, broken>>
caller == <<held, result>>
vars == <<log, pc, cur, step, state, path, reply, given, noted, out,
          seq, broken, held, result, ran, faults, recoveries>>

Nothing == [reply |-> NoAnswer, session |-> NoSession]

\* The two paths are left to PathIsCumulative, which says what they are.
TypeOK ==
  /\ log \in Seq(Records)
  /\ pc \in {"new", "idle", "import", "answer", "loop", "exec", "edge", "finish"}
  /\ cur \in Nodes \cup {End, NoNode} /\ step \in Nat
  /\ state \in States
  /\ reply \in Replies
  /\ given \in [reply : Replies, session : SessionIds]
  /\ noted \in SessionIds
  /\ out \in {"none", "ok", "failed", "silent"}
  /\ seq \in Nat /\ broken \in BOOLEAN
  /\ held.node \in Nodes \cup {NoNode} /\ held.step \in Nat /\ held.state \in States
  /\ result \in {"none", "ok", "paused", "failed"}
  /\ ran \in [1..MaxSteps -> Nodes \cup {NoNode}]
  /\ faults \in 0..MaxFaults /\ recoveries \in 0..MaxRecoveries

Init ==
  /\ log = <<>>
  /\ cur = NoNode /\ step = 0 /\ state = <<>> /\ path = <<>>
  /\ reply = NoAnswer /\ given = Nothing /\ noted = NoSession /\ out = "none"
  /\ seq = 0 /\ broken = FALSE
  /\ result = "none"
  /\ \/ pc = "new" /\ held = NoCheckpoint
     \/ pc = "idle" /\ held \in Imported
  /\ ran = [s \in 1..MaxSteps |-> NoNode]
  /\ faults = 0 /\ recoveries = 0

-----------------------------------------------------------------------------
(* The log writer: append *)

Fault == faults < MaxFaults /\ faults' = faults + 1

Stored(rec) ==
  /\ ~broken
  /\ log' = Append(log, rec)
  /\ seq' = rec.seq
  /\ UNCHANGED <<broken, faults>>

\* The store reported an error, now or before; the record may be there.
NotStored(rec) ==
  \/ broken /\ UNCHANGED <<log, seq, broken, faults>>
  \/ /\ ~broken /\ Fault
     /\ log' \in {log, Append(log, rec)}
     /\ seq' = rec.seq /\ broken' = TRUE

Rec(kind, node, at) == Entry(kind, seq + 1, node, at)

\* The segment is over: its locals are gone.
Gone ==
  /\ pc' = "idle"
  /\ cur' = NoNode /\ step' = 0 /\ state' = <<>> /\ path' = <<>>
  /\ reply' = NoAnswer /\ given' = Nothing /\ noted' = NoSession
  /\ out' = "none" /\ seq' = 0 /\ broken' = FALSE

EndLoop(how) == pc' = "finish" /\ out' = how

-----------------------------------------------------------------------------
(* Run *)

Begin(first) == [Rec("run_start", NoNode, 0) EXCEPT !.next = first]

Run(first) ==
  /\ pc = "new"
  /\ Stored(Begin(first))
  /\ pc' = "loop" /\ cur' = first
  /\ UNCHANGED <<step, state, path, reply, given, noted, out, caller, ran,
                 recoveries>>

\* run_start was not logged: finish writes no run_end, the run has failed.
RunUnlogged(first) ==
  /\ pc = "new"
  /\ NotStored(Begin(first))
  /\ EndLoop("silent")
  /\ UNCHANGED <<cur, step, state, path, reply, given, noted, caller, ran,
                 recoveries>>

-----------------------------------------------------------------------------
(* The loop *)

ReachEnd ==
  /\ pc = "loop" /\ cur = End
  /\ EndLoop("ok")
  /\ UNCHANGED <<log, cur, step, state, path, reply, given, noted, writer,
                 caller, ran, faults, recoveries>>

MaxStepsReached ==
  /\ pc = "loop" /\ cur # End /\ step >= MaxSteps
  /\ EndLoop("failed")
  /\ UNCHANGED <<log, cur, step, state, path, reply, given, noted, writer,
                 caller, ran, faults, recoveries>>

\* The context is cancelled, or the observer's gate refuses the node.
Cancelled ==
  /\ pc = "loop" /\ cur # End
  /\ Fault
  /\ EndLoop("failed")
  /\ UNCHANGED <<log, cur, step, state, path, reply, given, noted, writer,
                 caller, ran, recoveries>>

\* Faulty variant: the loop does not count its executions.
StartingUncounted ==
  /\ pc = "loop" /\ cur \in Nodes /\ step < MaxSteps
  /\ step' = step
  /\ path' = Append(path, cur)
  /\ given' = [given EXCEPT !.reply = reply]
  /\ reply' = NoAnswer

Starting ==
  /\ pc = "loop" /\ cur \in Nodes /\ step < MaxSteps
  /\ step' = step + 1
  /\ path' = Append(path, cur)
  /\ given' = [given EXCEPT !.reply = reply]
  /\ reply' = NoAnswer

StartNode ==
  /\ Starting
  /\ Stored(Rec("node_start", cur, step + 1))
  /\ pc' = "exec"
  /\ ran' = [ran EXCEPT ![step + 1] = cur]
  /\ UNCHANGED <<cur, state, noted, out, caller, recoveries>>

StartUnlogged ==
  /\ Starting
  /\ NotStored(Rec("node_start", cur, step + 1))
  /\ EndLoop("failed")
  /\ UNCHANGED <<cur, state, noted, caller, ran, recoveries>>

\* The executing node reports the id of its agent session; a failure to log it
\* is kept for the commit.
NoteSession(id) ==
  /\ pc = "exec" /\ id # noted
  /\ Cardinality({i \in DOMAIN log : /\ log[i].kind = "session"
                                     /\ i > LastOf(log, {"node_start"})}) < MaxNotes
  /\ noted' = id
  /\ LET rec == [Rec("session", cur, step) EXCEPT !.session = id]
     IN  Stored(rec) \/ NotStored(rec)
  /\ UNCHANGED <<pc, cur, step, state, path, reply, given, out, caller, ran,
                 recoveries>>

Left(how) == Append(state, Mark(cur, given.reply, how))

\* Faulty variant: the state is marshalled before the node ran.
CommitOfStateBefore(next) ==
  [Rec("node_commit", cur, step) EXCEPT !.state = state, !.next = next]

Commit(next) ==
  [Rec("node_commit", cur, step) EXCEPT !.state = Left("done"), !.next = next]

\* Faulty variant: the run moves on and leaves the commit for later.
NodeDoneUncommitted(next) ==
  /\ pc = "exec"
  /\ state' = Left("done") /\ cur' = next
  /\ given' = Nothing /\ noted' = NoSession
  /\ pc' = "edge"
  /\ UNCHANGED <<log, seq, broken, faults, step, path, reply, out, caller, ran,
                 recoveries>>

\* The node succeeded and its route is resolved; both are in one record.
NodeDone(next) ==
  /\ pc = "exec"
  /\ state' = Left("done") /\ cur' = next
  /\ given' = Nothing /\ noted' = NoSession
  /\ Stored(Commit(next))
  /\ pc' = "edge"
  /\ UNCHANGED <<step, path, reply, out, caller, ran, recoveries>>

CommitUnlogged(next) ==
  /\ pc = "exec"
  /\ state' = Left("done") /\ cur' = next
  /\ given' = Nothing /\ noted' = NoSession
  /\ NotStored(Commit(next))
  /\ EndLoop("failed")
  /\ UNCHANGED <<step, path, reply, caller, ran, recoveries>>

\* The node failed, panicked or timed out, or its route is invalid; or it
\* returned another graph's interruption, which finish takes for a pause.
NodeFails ==
  /\ pc = "exec"
  /\ Fault
  /\ state' = Left("partial")
  /\ given' = Nothing /\ noted' = NoSession
  /\ \E how \in {"failed", "silent"} : EndLoop(how)
  /\ UNCHANGED <<log, cur, step, path, reply, writer, caller, ran, recoveries>>

Question == [Rec("interrupt", cur, step) EXCEPT !.state = Left("asked")]

\* Faulty variant: a pause returns its checkpoint and logs nothing.
NodeAsksSilently ==
  /\ pc = "exec"
  /\ Cardinality({i \in DOMAIN log : log[i].kind = "interrupt"}) < MaxAsks
  /\ ~broken
  /\ held' = [node |-> cur, step |-> step - 1, state |-> Left("asked"), path |-> path]
  /\ result' = "paused"
  /\ Gone
  /\ UNCHANGED <<log, ran, faults, recoveries>>

\* The node called Interrupt: the caller gets the checkpoint and no run_end is
\* written.
NodeAsks ==
  /\ pc = "exec"
  /\ Cardinality({i \in DOMAIN log : log[i].kind = "interrupt"}) < MaxAsks
  /\ ~broken /\ log' = Append(log, Question)
  /\ held' = [node |-> cur, step |-> step - 1, state |-> Left("asked"), path |-> path]
  /\ result' = "paused"
  /\ Gone
  /\ UNCHANGED <<ran, faults, recoveries>>

AskUnlogged ==
  /\ pc = "exec"
  /\ Cardinality({i \in DOMAIN log : log[i].kind = "interrupt"}) < MaxAsks
  /\ NotStored(Question)
  /\ state' = Left("asked")
  /\ given' = Nothing /\ noted' = NoSession
  /\ EndLoop("failed")
  /\ UNCHANGED <<cur, step, path, reply, caller, ran, recoveries>>

LogEdge ==
  /\ pc = "edge"
  /\ Stored(Rec("edge", cur, step))
  /\ pc' = "loop"
  /\ UNCHANGED <<cur, step, state, path, reply, given, noted, out, caller, ran,
                 recoveries>>

EdgeUnlogged ==
  /\ pc = "edge"
  /\ NotStored(Rec("edge", cur, step))
  /\ EndLoop("failed")
  /\ UNCHANGED <<cur, step, state, path, reply, given, noted, caller, ran,
                 recoveries>>

\* finish: a run_end that cannot be written fails an otherwise good run.
Closing == [Rec("run_end", NoNode, 0) EXCEPT !.state = state, !.failed = (out # "ok")]

\* Faulty variant: the caller is told how the loop ended, logged or not.
FinishUnchecked ==
  /\ pc = "finish"
  /\ \/ log' = Append(log, Closing) /\ ~broken /\ UNCHANGED faults
     \/ ~broken /\ Fault /\ UNCHANGED log
     \/ broken /\ UNCHANGED <<log, faults>>
  /\ result' = IF out = "ok" THEN "ok" ELSE "failed"
  /\ Gone
  /\ UNCHANGED <<held, ran, recoveries>>

\* Faulty variant: a run_end is appended until the store takes it.
FinishPersistent ==
  /\ pc = "finish"
  /\ out \in {"ok", "failed"} /\ ~broken
  /\ log' = Append(log, Closing)
  /\ result' = out
  /\ Gone
  /\ UNCHANGED <<held, faults, ran, recoveries>>

Finish ==
  /\ pc = "finish"
  /\ \/ /\ out \in {"ok", "failed"} /\ ~broken
        /\ log' = Append(log, Closing)
        /\ result' = out
        /\ UNCHANGED faults
     \/ /\ out \in {"ok", "failed"} /\ ~broken /\ Fault
        /\ log' \in {log, Append(log, Closing)}
        /\ result' = "failed"
     \/ /\ out = "silent" \/ broken
        /\ result' = "failed"
        /\ UNCHANGED <<log, faults>>
  /\ Gone
  /\ UNCHANGED <<held, ran, recoveries>>

-----------------------------------------------------------------------------
(* Recover *)

RecoverFinished ==
  /\ pc = "idle" /\ EndedWell(log)
  /\ result' = "ok"
  /\ UNCHANGED <<log, pc, locals, writer, held, ran, faults, recoveries>>

RecoverPaused ==
  /\ pc = "idle" /\ log # <<>> /\ ~EndedWell(log)
  /\ Pending(log) /\ ~Answered(log)
  /\ held' = [node |-> log[Asked(log)].node, step |-> log[Asked(log)].step - 1,
              state |-> StateOf(log), path |-> PathOf(log)]
  /\ result' = "paused"
  /\ UNCHANGED <<log, pc, locals, writer, ran, faults, recoveries>>

\* Faulty variant: Recover does not ask whether the run has ended.
UnfinishedUnchecked ==
  /\ pc = "idle" /\ log # <<>>
  /\ Pending(log) => Answered(log)
  /\ recoveries < MaxRecoveries

Unfinished ==
  /\ pc = "idle" /\ log # <<>> /\ ~EndedWell(log)
  /\ Pending(log) => Answered(log)
  /\ recoveries < MaxRecoveries

Marker ==
  [Entry("recover", LastSeq(log) + 1, ResumeNode(log), ResumeStep(log) + 1)
     EXCEPT !.session = ResumeSession(log)]

\* Faulty variant: the node runs again without the answer it had got.
RecoverRunUnanswered ==
  /\ Unfinished
  /\ recoveries' = recoveries + 1
  /\ Stored(Marker)
  /\ pc' = "loop"
  /\ cur' = ResumeNode(log) /\ step' = ResumeStep(log)
  /\ state' = StateOf(log) /\ path' = PathOf(log)
  /\ reply' = NoAnswer
  /\ given' = [Nothing EXCEPT !.session = ResumeSession(log)]
  /\ held' = NoCheckpoint /\ result' = "none"
  /\ UNCHANGED <<noted, out, ran>>

RecoverRun ==
  /\ Unfinished
  /\ recoveries' = recoveries + 1
  /\ Stored(Marker)
  /\ pc' = "loop"
  /\ cur' = ResumeNode(log) /\ step' = ResumeStep(log)
  /\ state' = StateOf(log) /\ path' = PathOf(log)
  /\ reply' = ResumeReply(log)
  /\ given' = [Nothing EXCEPT !.session = ResumeSession(log)]
  /\ held' = NoCheckpoint /\ result' = "none"
  /\ UNCHANGED <<noted, out, ran>>

RecoverUnlogged ==
  /\ Unfinished
  /\ recoveries' = recoveries + 1
  /\ Fault
  /\ log' \in {log, Append(log, Marker)}
  /\ result' = "failed"
  /\ UNCHANGED <<pc, locals, writer, held, ran>>

-----------------------------------------------------------------------------
(* Resume.  A checkpoint the store has no log of is imported first. *)

Resume(a) ==
  /\ pc = "idle" /\ held # NoCheckpoint
  /\ pc' = IF log = <<>> THEN "import" ELSE "answer"
  /\ seq' = LastSeq(log)
  /\ cur' = held.node /\ step' = held.step
  /\ state' = held.state /\ path' = held.path
  /\ reply' = a
  /\ result' = "none"
  /\ UNCHANGED <<log, given, noted, out, broken, held, ran, faults, recoveries>>

\* Faulty variant: an imported run is logged as starting from step 0.
OpeningAtZero == [Rec("run_start", NoNode, 0) EXCEPT !.state = state, !.next = cur]

Opening == [Rec("run_start", NoNode, step) EXCEPT !.state = state, !.next = cur]
TakenOver == [Rec("interrupt", cur, step + 1) EXCEPT !.state = state]
Answer == [Rec("resume", cur, step + 1) EXCEPT !.reply = reply]

ImportStart ==
  /\ pc = "import" /\ log = <<>>
  /\ Stored(Opening)
  /\ UNCHANGED <<pc, locals, caller, ran, recoveries>>

ImportQuestion ==
  /\ pc = "import" /\ log # <<>>
  /\ Stored(TakenOver)
  /\ pc' = "answer"
  /\ UNCHANGED <<locals, caller, ran, recoveries>>

LogAnswer ==
  /\ pc = "answer"
  /\ Stored(Answer)
  /\ pc' = "loop"
  /\ held' = NoCheckpoint
  /\ UNCHANGED <<locals, result, ran, recoveries>>

\* logResume failed: Resume returns at once and the caller keeps its checkpoint.
ResumeUnlogged ==
  /\ pc \in {"import", "answer"} /\ Fault
  /\ log' \in {log, Append(log, IF pc = "answer" THEN Answer
                                ELSE IF log = <<>> THEN Opening ELSE TakenOver)}
  /\ result' = "failed"
  /\ Gone
  /\ UNCHANGED <<held, ran, recoveries>>

-----------------------------------------------------------------------------
(* The process is killed; and the caller may forget a checkpoint it held. *)

Crash ==
  /\ pc \notin {"new", "idle"}
  /\ Fault
  /\ Gone
  /\ result' = "none"
  /\ held' \in {held, NoCheckpoint}
  /\ UNCHANGED <<log, ran, recoveries>>

Forget ==
  /\ pc = "idle" /\ held # NoCheckpoint /\ log # <<>>
  /\ held' = NoCheckpoint /\ result' = "none"
  /\ UNCHANGED <<log, pc, locals, writer, ran, faults, recoveries>>

-----------------------------------------------------------------------------
Segment ==
  \/ ReachEnd \/ MaxStepsReached \/ Cancelled
  \/ StartNode \/ StartUnlogged
  \/ \E id \in Sessions : NoteSession(id)
  \/ \E next \in (IF cur \in Nodes THEN Targets[cur] ELSE {}) :
        NodeDone(next) \/ CommitUnlogged(next)
  \/ NodeFails \/ NodeAsks \/ AskUnlogged
  \/ LogEdge \/ EdgeUnlogged \/ Finish
  \/ ImportStart \/ ImportQuestion \/ LogAnswer \/ ResumeUnlogged

Next ==
  \/ \E first \in Targets[Start] : Run(first) \/ RunUnlogged(first)
  \/ Segment
  \/ RecoverFinished \/ RecoverPaused \/ RecoverRun \/ RecoverUnlogged
  \/ \E a \in Answers : Resume(a)
  \/ Crash \/ Forget

Spec == Init /\ [][Next]_vars

\* Nodes return (every one has a context and a timeout), so a segment goes on.
FairSpec == Spec /\ WF_vars(Segment)

-----------------------------------------------------------------------------
(* Safety *)

\* Between two nodes the process holds exactly what Recover would rebuild from
\* the log: killing it there and recovering changes nothing (durable.go:19-20,
\* "a node is committed before the run moves on").
RecoveryIsExact ==
  pc = "loop" =>
    /\ cur = ResumeNode(log) /\ step = ResumeStep(log)
    /\ state = StateOf(log)
    /\ reply = ResumeReply(log) /\ given.session = ResumeSession(log)

\* Report.Path covers the whole run, crashes and pauses included (durable.go:288,
\* "cumulative across the crash"), for a run this store has seen from its start.
PathIsCumulative ==
  /\ pc = "loop" => path = PathOf(log)
  /\ result = "paused" => held.path = PathOf(log)

\* The log is one linear history whatever crashed: each commit and each question
\* is of the node the last commit routed to, under the next step number.
OneHistory ==
  \A i \in DOMAIN log :
    log[i].kind \in {"node_start", "node_commit", "interrupt"} =>
      LET before == SubSeq(log, 1, i - 1)
      IN  /\ log[i].node = NextOf(before)
          /\ log[i].step = StepOf(before) + 1

\* An answer in the log is never lost: until the node that asked commits or asks
\* again, every execution of it gets the answer, after any number of crashes.
AnswerReachesNode ==
  pc = "exec" => given.reply = ResumeReply(log)

\* A resume record answers a question the log holds (checkpoint.go:45, "the
\* human's answer to the last interrupt"; durable.go:442-444, "the log stays
\* self-contained").
ResumeAnswersQuestion ==
  \A i \in DOMAIN log : log[i].kind = "resume" => Pending(SubSeq(log, 1, i - 1))

\* A session handed to a recovered node was logged by that very execution of it
\* and by no attempt that has since committed or asked (RecoveredSession).
SessionIsOwn ==
  pc = "exec" /\ given.session # NoSession =>
    \E i \in DOMAIN log :
      /\ log[i].kind = "session" /\ log[i].session = given.session
      /\ log[i].node = cur /\ log[i].step = step
      /\ \A j \in i..Len(log) : log[j].kind \notin {"node_commit", "interrupt"}

\* The five together: whatever interrupted a run, its continuation has the node,
\* state, path, answer and session that the log, and it alone, gives it.
RecoveryContinues ==
  /\ RecoveryIsExact /\ PathIsCumulative /\ AnswerReachesNode
  /\ ResumeAnswersQuestion /\ SessionIsOwn

\* replayLog's loop finds in a log what its last records say (durable.go:218).
ReplayIsLastRecords ==
  log # <<>> =>
    LET p == Replayed(log)
    IN  /\ p.next = NextOf(log) /\ p.step = StepOf(log)
        /\ p.state = StateOf(log) /\ p.path = PathOf(log)
        /\ p.ended = Ended(log) /\ (p.ended => p.failed = ~EndedWell(log))
        /\ (p.asked > 0) = Pending(log) /\ (p.asked > 0 => p.asked = Asked(log))
        /\ p.answered = AnswerAt(log)
        /\ p.sess = SessionAt(log)

\* An imported log reads like one written here: the loop finds in it what its
\* last records say, and it is one linear history (logResume, replayLog).
ImportReadsAsOwn == ReplayIsLastRecords /\ OneHistory

\* Nobody is told anything the log does not say: the caller that the run succeeded
\* only if it did, and a question only if Recover would hand back the same
\* checkpoint; the operator, by Summarize, "paused" exactly when Recover would
\* hand back a question and "done" exactly when it has nothing to do.
CallerIsToldTheTruth ==
  /\ result = "ok" => EndedWell(log)
  /\ result = "paused" =>
       /\ Pending(log) /\ ~Answered(log) /\ held.node = log[Asked(log)].node
       /\ held.step = StepOf(log) /\ held.state = StateOf(log)
  /\ pc = "idle" /\ log # <<>> =>
       /\ (StatusOf(log) = "paused") <=> (Pending(log) /\ ~Answered(log) /\ ~EndedWell(log))
       /\ (StatusOf(log) = "done") <=> EndedWell(log)

-----------------------------------------------------------------------------
(* Action properties *)

\* A step number names one node for ever, so IdempotencyKey is the same on every
\* attempt of a logical step and differs between iterations (durable.go:66-70).
KeyNamesOneNode ==
  [][\A s \in DOMAIN ran : ran[s] # NoNode => ran'[s] = ran[s]]_ran

\* A node that committed is never executed again under its key.
NoCommitRunsAgain ==
  [][pc' = "exec" /\ pc # "exec" =>
       \A i \in DOMAIN log : log[i].kind = "node_commit" => log[i].step < step']_vars

\* Nothing is executed or logged after a run_end without error.
FinishedIsFinal ==
  [][EndedWell(log) => log' = log /\ pc' \in {pc, "idle"}]_vars

-----------------------------------------------------------------------------
(* Refinement *)

Logical == INSTANCE LogicalRun WITH
  at <- IF log = <<>> THEN Start ELSE NextOf(log),
  done <- IF log = <<>> THEN 0 ELSE StepOf(log),
  state <- IF log = <<>> THEN <<>> ELSE StateOf(log),
  asked <- Pending(log),
  reply <- IF Answered(log) THEN log[AnswerAt(log)].reply ELSE NoAnswer,
  finished <- EndedWell(log)

\* Through the log, a run with crashes, store failures and recoveries is a run
\* without them.
RunsAsIfUninterrupted == Logical!Spec

\* Every segment ends: within MaxSteps steps the caller gets a result.
SegmentEnds == (pc \notin {"new", "idle"}) ~> (pc = "idle")
=============================================================================
