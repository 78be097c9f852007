---------------------------- MODULE TemporalRun ----------------------------
(***************************************************************************)
(* A graph run as a Temporal workflow (src/temporal/temporal.go): the      *)
(* workflow walks the graph, each node execution is an activity that the   *)
(* server retries, an agent session survives in heartbeats, and answers    *)
(* come as signals.                                                        *)
(*                                                                         *)
(* Around it, as its environment, the Temporal server: it replays the      *)
(* workflow, so its locals survive every crash; it starts one attempt of   *)
(* an activity at a time, but declares one dead that may still be running; *)
(* it takes a result or a heartbeat from the current attempt only; and it  *)
(* buffers signals until they are received.  An attempt works on decoded   *)
(* JSON of its own, so one that fails leaves no trace in the state.        *)
(*                                                                         *)
(* An operator introduced as a "faulty variant" is no part of Next: it is  *)
(* the definition after it with a plausible bug.                           *)
(***************************************************************************)
EXTENDS Integers, Sequences, FiniteSets

CONSTANTS
  Nodes, Start, End, NoNode,
  Answers, NoAnswer,
  Targets,     \* the allowed next nodes of Start and of every node
  MaxSteps,    \* the graph's MaxSteps
  MaxAttempts, \* RetryPolicy.MaximumAttempts
  MaxFaults,   \* bound: crashes, timeouts, failures and a cancellation
  MaxAsks,     \* bound: questions asked
  MaxSignals,  \* bound: answers signalled
  MaxSessions  \* bound: agent sessions begun

ASSUME TemporalAssumption ==
  /\ Start \notin Nodes /\ End \notin Nodes /\ NoNode \notin Nodes /\ Start # End
  /\ NoAnswer \notin Answers
  /\ Targets \in [Nodes \cup {Start} -> SUBSET (Nodes \cup {End})]
  /\ MaxSteps \in Nat /\ MaxAttempts \in Nat \ {0}
  /\ MaxFaults \in Nat /\ MaxAsks \in Nat /\ MaxSignals \in Nat /\ MaxSessions \in Nat

VARIABLES
  pc,        \* the workflow: before the first route, at the head of its loop,
             \* waiting for an activity or an answer, about to run a node again
  out,       \* how the workflow ended
  cur, step, state, path, \* its locals
  answer,    \* the answer the node at cur runs with
  asks,      \* questions asked so far: the last one's number
  signals,   \* the buffered answers, each with the question it was meant for
  cancelled, \* the workflow's context
  input,     \* NodeInput of the activity in flight
  try,       \* the number of its current attempt
  started,   \* a worker has taken that attempt
  details,   \* the session in the attempt's last heartbeat the server took, 0
             \* for none; kept from attempt to attempt
  live,      \* the attempts some worker is executing
  begun,     \* history: for each session, the activity it was begun in
  reached,   \* history: the last activity a session of which reached the server
  sent, took,\* history: the questions answers were signalled for, and the one
             \* the last answer received was meant for
  faults

flow == <<pc, out, cur, step, state, path, answer, asks>>
server == <<input, try, started, details>>
vars == <<flow, signals, cancelled, server, live, begun, reached, sent, took, faults>>

Replies == Answers \cup {NoAnswer}
Marks == [node : Nodes, reply : Replies, how : {"done", "asked"}]
Inputs == [node : Nodes \cup {NoNode}, step : Nat, state : Seq(Marks), reply : Replies]
NoInput == [node |-> NoNode, step |-> 0, state |-> <<>>, reply |-> NoAnswer]

\* activity: which one, by its place in the path; note: hb.Session.
Attempts == [activity : Nat, try : Nat, session : Nat, note : Nat]

TypeOK ==
  /\ pc \in {"first", "loop", "again", "node", "ask"}
  /\ out \in {"none", "ok", "failed"}
  /\ cur \in Nodes \cup {Start, End} /\ step \in Nat
  /\ state \in Seq(Marks) /\ path \in Seq(Nodes)
  /\ answer \in Replies /\ asks \in Nat
  /\ signals \in Seq([reply : Answers, question : Nat])
  /\ cancelled \in BOOLEAN
  /\ input \in Inputs /\ try \in 0..MaxAttempts /\ started \in BOOLEAN
  /\ details \in Nat /\ live \subseteq Attempts
  /\ begun \in Seq(Nat) /\ reached \in Nat
  /\ sent \in Seq(Nat) /\ took \in Nat /\ faults \in Nat

Init ==
  /\ pc = "first" /\ out = "none" /\ cur = Start /\ step = 0
  /\ state = <<>> /\ path = <<>> /\ answer = NoAnswer /\ asks = 0
  /\ signals = <<>> /\ cancelled = FALSE
  /\ input = NoInput /\ try = 0 /\ started = FALSE /\ details = 0
  /\ live = {} /\ begun = <<>> /\ reached = 0 /\ sent = <<>> /\ took = 0 /\ faults = 0

Running == out = "none"
Fault == faults < MaxFaults /\ faults' = faults + 1

\* The workflow returns an error.
Fails == out' = "failed" /\ UNCHANGED <<pc, cur, step, state, path, answer, asks>>

-----------------------------------------------------------------------------
(* The workflow *)

\* The activity for Start runs no node: it resolves the first route.
First(next) ==
  /\ pc = "first" /\ Running
  /\ pc' = "loop" /\ cur' = next
  /\ UNCHANGED <<out, step, state, path, answer, asks>>
  /\ UNCHANGED <<signals, cancelled, server, live, begun, reached, sent, took, faults>>

FirstFails ==
  /\ pc = "first" /\ Running /\ Fault
  /\ Fails
  /\ UNCHANGED <<signals, cancelled, server, live, begun, reached, sent, took>>

ReachEnd ==
  /\ pc = "loop" /\ Running /\ cur = End
  /\ out' = "ok"
  /\ UNCHANGED <<pc, cur, step, state, path, answer, asks>>
  /\ UNCHANGED <<signals, cancelled, server, live, begun, reached, sent, took, faults>>

MaxStepsReached ==
  /\ pc = "loop" /\ Running /\ cur # End /\ step >= MaxSteps
  /\ Fails
  /\ UNCHANGED <<signals, cancelled, server, live, begun, reached, sent, took, faults>>

\* Faulty variant: running a node again with its answer is a step of its own.
NextStepAlways == step + 1

\* An interrupted node that runs again keeps its step number.
NextStep == IF pc = "again" THEN step ELSE step + 1

\* ExecuteActivity: a new activity, with no heartbeat of an earlier one.
Schedule ==
  /\ Running /\ ~cancelled
  /\ \/ pc = "loop" /\ cur # End /\ step < MaxSteps
     \/ pc = "again"
  /\ step' = NextStep
  /\ path' = Append(path, cur)
  /\ input' = [node |-> cur, step |-> step', state |-> state, reply |-> answer]
  /\ try' = 1 /\ started' = FALSE /\ details' = 0
  /\ pc' = "node"
  /\ UNCHANGED <<out, cur, state, answer, asks, signals, cancelled, live, begun,
                 reached, sent, took, faults>>

\* Under a cancelled context ExecuteActivity returns an error at once.
ScheduleCancelled ==
  /\ Running /\ cancelled
  /\ \/ pc = "loop" /\ cur # End /\ step < MaxSteps
     \/ pc = "again"
  /\ Fails
  /\ UNCHANGED <<signals, cancelled, server, live, begun, reached, sent, took, faults>>

\* Faulty variant: the answer stays in the channel.
ReceiveKept ==
  /\ pc = "ask" /\ Running /\ signals # <<>>
  /\ pc' = "again" /\ answer' = Head(signals).reply
  /\ took' = Head(signals).question
  /\ UNCHANGED <<out, cur, step, state, path, asks, signals, cancelled, server, live,
                 begun, reached, sent, faults>>

\* Receive takes the oldest buffered answer, whatever it was meant for.
Receive ==
  /\ pc = "ask" /\ Running /\ signals # <<>>
  /\ pc' = "again" /\ answer' = Head(signals).reply
  /\ took' = Head(signals).question
  /\ signals' = Tail(signals)
  /\ UNCHANGED <<out, cur, step, state, path, asks, cancelled, server, live, begun,
                 reached, sent, faults>>

-----------------------------------------------------------------------------
(* The attempts of an activity *)

Current(w) == w.activity = Len(path) /\ w.try = try /\ started

\* Faulty variant: the heartbeats of a retry start without a session.
FirstNoteEmpty(session) == 0

\* The first heartbeat repeats the session the attempt continues.
FirstNote(session) == session

StartAttempt ==
  /\ pc = "node" /\ Running /\ ~started
  /\ started' = TRUE
  /\ LET session == IF try > 1 THEN details ELSE 0
     IN  live' = live \cup
           {[activity |-> Len(path), try |-> try, session |-> session,
             note |-> FirstNote(session)]}
  /\ UNCHANGED <<flow, signals, cancelled, input, try, details, begun, reached,
                 sent, took, faults>>

\* OnSession: the agent begins a session of its own, or one it resumes is given
\* a new id.
NewSession(w) ==
  /\ Len(begun) < MaxSessions
  /\ begun' = Append(begun, w.activity)
  /\ live' = (live \ {w}) \cup {[w EXCEPT !.note = Len(begun) + 1]}
  /\ UNCHANGED <<flow, signals, cancelled, server, reached, sent, took, faults>>

Beat(w) ==
  /\ Running /\ Current(w)
  /\ details' = w.note
  /\ reached' = IF w.note # 0 THEN w.activity ELSE reached
  /\ UNCHANGED <<flow, signals, cancelled, input, try, started, live, begun, sent, took,
                 faults>>

Left(how) ==
  Append(input.state, [node |-> input.node, reply |-> input.reply, how |-> how])

\* Faulty variant: the next node runs with this one's answer.
AnswerAfterKept == answer

\* "answer" is a local of one iteration of the loop.
AnswerAfter == NoAnswer

Completes(w, next) ==
  /\ Running /\ Current(w)
  /\ live' = live \ {w} /\ started' = FALSE
  /\ state' = Left("done") /\ cur' = next /\ answer' = AnswerAfter
  /\ pc' = "loop"
  /\ UNCHANGED <<out, step, path, asks, signals, cancelled, input, try, details,
                 begun, reached, sent, took, faults>>

\* The node called Interrupt; Pending is what PendingQuestion shows.
Asks(w) ==
  /\ Running /\ Current(w) /\ asks < MaxAsks
  /\ live' = live \ {w} /\ started' = FALSE
  /\ state' = Left("asked") /\ answer' = NoAnswer /\ asks' = asks + 1
  /\ pc' = "ask"
  /\ UNCHANGED <<out, cur, step, path, signals, cancelled, input, try, details,
                 begun, reached, sent, took, faults>>

\* The server is told that the current attempt failed, or gives it up.
Retried ==
  IF try < MaxAttempts
  THEN try' = try + 1 /\ UNCHANGED flow
  ELSE Fails /\ UNCHANGED try

AttemptFails(w) ==
  /\ Running /\ Current(w) /\ Fault
  /\ live' = live \ {w} /\ started' = FALSE
  /\ Retried
  /\ UNCHANGED <<signals, cancelled, input, details, begun, reached, sent, took>>

\* An invalid route, a panic, an interrupt in a parallel branch, a state that is
\* not JSON; or the activity reports that it was cancelled.
AttemptFailsForGood(w) ==
  /\ Running /\ Current(w)
  /\ \/ cancelled /\ UNCHANGED faults
     \/ Fault
  /\ live' = live \ {w} /\ started' = FALSE
  /\ Fails
  /\ UNCHANGED <<signals, cancelled, input, try, details, begun, reached, sent, took>>

\* The worker's process dies; the server learns of it by a timeout.
WorkerDies(w) ==
  /\ Fault
  /\ live' = live \ {w}
  /\ UNCHANGED <<flow, signals, cancelled, server, begun, reached, sent, took>>

\* Faulty variant: no timeout is set, so no worker's death is noticed.
GoneUnnoticed == FALSE

Gone == ~\E w \in live : Current(w)

\* HeartbeatTimeout or StartToCloseTimeout.  An attempt that was only slow or
\* cut off goes on unheard.
TimesOut ==
  /\ pc = "node" /\ Running /\ started
  /\ \/ Gone /\ UNCHANGED faults
     \/ ~Gone /\ Fault
  /\ started' = FALSE
  /\ Retried
  /\ UNCHANGED <<signals, cancelled, input, details, live, begun, reached, sent, took>>

\* Its result, or its error, is refused.
Unheard(w) ==
  /\ ~(Running /\ Current(w))
  /\ live' = live \ {w}
  /\ UNCHANGED <<flow, signals, cancelled, server, begun, reached, sent, took, faults>>

-----------------------------------------------------------------------------
(* People *)

\* One who sees the pending question, and anyone who saw an earlier one, may
\* call Answer.
Answer(a, question) ==
  /\ Running /\ Len(sent) < MaxSignals
  /\ sent' = Append(sent, question)
  /\ signals' = Append(signals, [reply |-> a, question |-> question])
  /\ UNCHANGED <<flow, cancelled, server, live, begun, reached, took, faults>>

Cancel ==
  /\ Running /\ ~cancelled /\ Fault
  /\ cancelled' = TRUE
  /\ UNCHANGED <<flow, signals, server, live, begun, reached, sent, took>>

-----------------------------------------------------------------------------
Workflow ==
  \/ \E next \in Targets[Start] : First(next)
  \/ FirstFails \/ ReachEnd \/ MaxStepsReached
  \/ Schedule \/ ScheduleCancelled \/ Receive

Worker(w) ==
  \/ NewSession(w) \/ Beat(w)
  \/ \E next \in Targets[input.node] : Completes(w, next)
  \/ Asks(w) \/ AttemptFails(w) \/ AttemptFailsForGood(w)
  \/ WorkerDies(w) \/ Unheard(w)

Next ==
  \/ Workflow
  \/ StartAttempt \/ TimesOut
  \/ \E w \in live : Worker(w)
  \/ \E a \in Answers, question \in 1..asks : Answer(a, question)
  \/ Cancel

Spec == Init /\ [][Next]_vars

\* The server and the workers make progress; a node need not end, but its
\* attempt times out.
FairSpec ==
  /\ Spec
  /\ WF_vars(Workflow) /\ WF_vars(StartAttempt)
  /\ WF_vars(TimesOut \/ \E w \in live :
       \/ \E next \in Targets[input.node] : Completes(w, next)
       \/ Asks(w) \/ AttemptFails(w) \/ AttemptFailsForGood(w))

-----------------------------------------------------------------------------
(* Properties *)

\* Whatever workers crash, time out or are heard too late, the run is one run of
\* the graph: each node works once on what its predecessor left, with the answer
\* to its own question only (the package comment, temporal.go:3-9).  DurableRun
\* promises the same with a checkpoint store.
Logical == INSTANCE LogicalRun WITH
  Imported <- {},
  at <- cur,
  done <- IF pc \in {"node", "ask", "again"} THEN step - 1 ELSE step,
  asked <- pc = "ask" \/ answer # NoAnswer,
  reply <- answer,
  finished <- out = "ok"

RunsAsIfUninterrupted == Logical!Spec

\* Once a heartbeat has carried a session of an execution to the server, every
\* later attempt of it continues a session of it, however many attempts fail and
\* whether or not they reported one (node in temporal.go).
SessionIsNeverForgotten ==
  [][\A w \in live' :
       /\ ~\E v \in live : v.activity = w.activity /\ v.try = w.try
       /\ reached = w.activity
       => w.session # 0 /\ begun[w.session] = w.activity]_vars

\* If no question was answered twice, each node gets the answer to its question
\* (answers.Receive, PendingQuestion and Answer).
AnswerIsToItsQuestion ==
  /\ pc = "again"
  /\ \A i, j \in DOMAIN sent : sent[i] = sent[j] => i = j
  => took = asks

TypedAndAnswered == TypeOK /\ AnswerIsToItsQuestion

\* The run ends, unless it waits for an answer: a crashed worker, a hung node or
\* a cancellation never leaves it waiting for an activity (newConfig's timeouts).
OnlyAQuestionWaits == []<>(pc = "ask" \/ ~Running)
=============================================================================
