------------------------------ MODULE GraphLog ------------------------------
(***************************************************************************)
(* The durable log of one graph run (src/graph/checkpoint.go) and what     *)
(* replaying it yields (replayLog, Recover and Summarize in                *)
(* src/graph/durable.go and checkpoint.go).                                *)
(*                                                                         *)
(* A log is a sequence of records.  Everything replayLog accumulates field *)
(* by field is given here as the last record of some kinds: the run        *)
(* continues from the last record that settled a state, a question is      *)
(* pending if it was asked after that, and so on; only the path is built   *)
(* record by record.  Replayed is the accumulating loop itself;            *)
(* ReplayIsLastRecords says that the two agree on every log.               *)
(*                                                                         *)
(* Data: the graph's state S is the sequence of what its nodes did to it;  *)
(* costs, times, topology and the wording of questions and errors are left *)
(* out.                                                                    *)
(*                                                                         *)
(* An operator introduced as a "faulty variant" is no part of Next: it is  *)
(* the definition after it with a plausible bug.                           *)
(***************************************************************************)
EXTENDS Integers, Sequences, SequencesExt

CONSTANTS
  Nodes,      \* the graph's top-level nodes
  Start, End, \* the entry and exit markers of routes
  NoNode,     \* the empty node name of a record that names none
  Answers,    \* what a human may answer an interrupt with
  NoAnswer,   \* the node runs without an answer
  Sessions,   \* ids of agent sessions
  NoSession   \* the empty session id

ASSUME NamesAreDistinct ==
  /\ Start \notin Nodes /\ End \notin Nodes /\ NoNode \notin Nodes
  /\ Start # End /\ Start # NoNode /\ End # NoNode
  /\ NoAnswer \notin Answers
  /\ NoSession \notin Sessions

Replies == Answers \cup {NoAnswer}
SessionIds == Sessions \cup {NoSession}

\* What one execution of a node leaves in the state: the node, the answer it
\* was given, and whether it completed, stopped to ask, or failed half-way.
Mark(node, reply, how) == [node |-> node, reply |-> reply, how |-> how]
Marks == [node : Nodes, reply : Replies, how : {"done", "asked", "partial"}]
States == Seq(Marks)

Kinds == {"run_start", "node_start", "session", "node_commit", "edge",
          "interrupt", "resume", "recover", "fork", "run_end"}

Records ==
  [kind : Kinds, seq : Nat, node : Nodes \cup {End, NoNode}, step : Nat,
   state : States, next : Nodes \cup {End, NoNode}, reply : Replies,
   session : SessionIds, failed : BOOLEAN]

\* A record with the fields every kind has; the others are empty.
Entry(kind, seq, node, step) ==
  [kind |-> kind, seq |-> seq, node |-> node, step |-> step, state |-> <<>>,
   next |-> NoNode, reply |-> NoAnswer, session |-> NoSession,
   failed |-> FALSE]

-----------------------------------------------------------------------------
(* replayLog *)

LastOf(log, kinds) == SelectLastInSeq(log, LAMBDA r : r.kind \in kinds)

\* Faulty variant: replay restarts at the entry.
BaseIgnoringCommits(log) == LastOf(log, {"run_start", "fork"})

\* The record the run continues after, when no question is open.
Base(log) == LastOf(log, {"run_start", "node_commit", "fork"})
NextOf(log) == log[Base(log)].next
StepOf(log) == log[Base(log)].step

\* A commit or a fork closes the question and the session before it.
Settled(log) == LastOf(log, {"node_commit", "fork"})

Asked(log) == LastOf(log, {"interrupt"})
Pending(log) == Asked(log) > Settled(log)

\* Faulty variant: the answer to an earlier question still counts.
AnswerAtStale(log) == IF Pending(log) THEN LastOf(log, {"resume"}) ELSE 0

\* The position of the answer to the pending question, 0 if there is none.
AnswerAt(log) ==
  LET a == LastOf(log, {"resume"})
  IN  IF Pending(log) /\ a > Asked(log) THEN a ELSE 0
Answered(log) == AnswerAt(log) > 0

\* Faulty variant: a question does not close the session of the attempt that asked.
SessionAtKept(log) ==
  LET s == LastOf(log, {"session"})
  IN  IF s > LastOf(log, {"node_commit", "fork"}) THEN s ELSE 0

\* The session of the attempt in flight, 0 if it had logged none.
SessionAt(log) ==
  LET s == LastOf(log, {"session"})
  IN  IF s > LastOf(log, {"node_commit", "fork", "interrupt"}) THEN s ELSE 0

\* Faulty variant: the state a failed run ended in is taken over.
CarriesStateOfFailure(r) ==
  r.kind \in {"run_start", "node_commit", "fork", "interrupt", "run_end"}

\* A failed run is retried from its last commit: its run_end state is not used.
CarriesState(r) ==
  \/ r.kind \in {"run_start", "node_commit", "fork", "interrupt"}
  \/ r.kind = "run_end" /\ ~r.failed
StateAt(log) == SelectLastInSeq(log, CarriesState)
StateOf(log) == log[StateAt(log)].state

Ended(log) == log # <<>> /\ log[Len(log)].kind = "run_end"
EndedWell(log) == Ended(log) /\ ~log[Len(log)].failed

\* Faulty variant: paused attempts are left out of the path.
PathOfCommits(log) ==
  LET path[i \in 0..Len(log)] ==
        IF i = 0 THEN <<>>
        ELSE IF log[i].kind = "node_commit" THEN Append(path[i - 1], log[i].node)
        ELSE path[i - 1]
  IN  path[Len(log)]

\* The nodes executed, paused attempts included.
PathOf(log) ==
  LET path[i \in 0..Len(log)] ==
        IF i = 0 THEN <<>>
        ELSE IF log[i].kind \in {"node_commit", "interrupt"}
             THEN Append(path[i - 1], log[i].node)
        ELSE path[i - 1]
  IN  path[Len(log)]

LastSeq(log) == IF log = <<>> THEN 0 ELSE log[Len(log)].seq

-----------------------------------------------------------------------------
(* replayLog as the code computes it: one record at a time.  The pending     *)
(* question, its answer and the session are positions in the log, 0 for none. *)

Blank == [next |-> NoNode, step |-> 0, state |-> <<>>, path |-> <<>>,
          ended |-> FALSE, failed |-> FALSE,
          asked |-> 0, answered |-> 0, sess |-> 0]

ReplayStep(p, r, i) ==
  LET q == [p EXCEPT !.ended = (r.kind = "run_end")]
  IN  CASE r.kind = "run_start" ->
             [q EXCEPT !.state = r.state, !.next = r.next, !.step = r.step]
        [] r.kind = "session" -> [q EXCEPT !.sess = i]
        [] r.kind = "node_commit" ->
             [q EXCEPT !.state = r.state, !.next = r.next, !.step = r.step,
                       !.path = Append(p.path, r.node),
                       !.asked = 0, !.answered = 0, !.sess = 0]
        [] r.kind = "fork" ->
             [q EXCEPT !.state = r.state, !.next = r.next, !.step = r.step,
                       !.asked = 0, !.answered = 0, !.sess = 0]
        [] r.kind = "interrupt" ->
             [q EXCEPT !.asked = i, !.answered = 0, !.sess = 0,
                       !.state = r.state, !.path = Append(p.path, r.node)]
        [] r.kind = "resume" ->
             [q EXCEPT !.answered = IF p.asked > 0 THEN i ELSE p.answered]
        [] r.kind = "run_end" ->
             [q EXCEPT !.failed = r.failed,
                       !.state = IF r.failed THEN p.state ELSE r.state]
        [] OTHER -> q

Replayed(log) ==
  LET p[i \in 0..Len(log)] ==
        IF i = 0 THEN Blank ELSE ReplayStep(p[i - 1], log[i], i)
  IN  p[Len(log)]

-----------------------------------------------------------------------------
(* What Recover makes of a log that is neither finished nor waiting. *)

ResumeNode(log) == IF Answered(log) THEN log[Asked(log)].node ELSE NextOf(log)

\* Faulty variant: the step of the question is taken for the steps done.
ResumeStepSkips(log) ==
  IF Answered(log) THEN log[Asked(log)].step ELSE StepOf(log)

ResumeStep(log) ==
  IF Answered(log) THEN log[Asked(log)].step - 1 ELSE StepOf(log)
ResumeReply(log) ==
  IF Answered(log) THEN log[AnswerAt(log)].reply ELSE NoAnswer

\* The session handed to the node that runs again, if it is that node's.
ResumeSession(log) ==
  LET s == SessionAt(log)
  IN  IF /\ s > 0
         /\ log[s].node = ResumeNode(log)
         /\ log[s].step = ResumeStep(log) + 1
      THEN log[s].session
      ELSE NoSession

-----------------------------------------------------------------------------
(* Summarize.  Running and crashed differ only by the age of the log. *)

\* Faulty variant: a run stays paused until the node that asked commits.
StatusOfOpenQuestion(log) ==
  CASE log = <<>> -> "unfinished"
    [] EndedWell(log) -> "done"
    [] Ended(log) /\ ~EndedWell(log) -> "failed"
    [] log # <<>> /\ ~Ended(log) /\ Pending(log) -> "paused"
    [] OTHER -> "unfinished"

StatusOf(log) ==
  CASE log = <<>> -> "unfinished"
    [] EndedWell(log) -> "done"
    [] Ended(log) /\ ~EndedWell(log) -> "failed"
    [] log # <<>> /\ log[Len(log)].kind = "interrupt" -> "paused"
    [] OTHER -> "unfinished"
=============================================================================
