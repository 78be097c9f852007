# Verification of claude-agent-go

TLA+ models of the parts of this repository whose correctness lies in the order
of things: what is logged before what, who wakes whom, what a crash or an error
between two steps leaves behind; and of the algorithms that decide something: what
a permission rule allows, what a score means, what a graph may route to. TLC checks
each model on small instances; the properties that matter most are theorems that
TLAPS proves for every value of the constants.

## The system

claude-agent-go drives the Claude CLI from Go. Its parts, the state each keeps,
and how they meet:

| part | state | operations | meets |
|---|---|---|---|
| `graph` run (run.go, durable.go) | the loop's locals: current node, step, state, path, pending answer; the log writer's number and sticky error | `Run`, `Resume`, `Recover`, `Fork`, one loop for all | appends records to a `CheckpointStore`; calls observers; hands `Interrupted` checkpoints to its caller |
| run log (checkpoint.go) | an append-only list of records per run | `Append`, `Load`, `List`/`Summarize` | replayed by Recover and Fork, shown by `cag runs` and the web UI |
| `FileStore` (checkpoint.go) | one JSONL file per run | stat, open, repair the tail, write, fsync, fsync the directory | the file system; readers that take no lock |
| graph builder (graph.go, group.go) | nodes, edges, groups, the errors so far | `Node`, `Parallel`, `Edge`, `ConditionalEdge`, `Group`, `Compile`, `Topology` | the run loop's routing |
| nodes (agent.go, run.go, report.go) | per execution: cost, last session noted; per run: steps, path, visits | `Agent`, `RunAgent`, parallel nodes, the recorder | the runner; the log; observers, `otel` spans |
| `graphweb` server | journal, gate, open questions and the answers channel, streams | observer calls, `Before`, `Control`, `Answer`, `Ask`, `RunInteractive`, `handleEvents`, replays | an observer of runs; HTTP clients; a journal file |
| `fleet` | task list (pending, succeeded, running), sum spent, results | worker loop: cap check, claim, run, emit, complete | the runner; `workspace`, which makes a git worktree per task |
| `runner` with retries | attempts, known and guarded spend, session to resume | `RunJSON`, `RunStream`, `WithRetry`, plugins, the preflight check | the CLI process, transports |
| `transport` | a PID file on the remote side | wrapper script, kill script, `Preflight` | runner and client when a local proxy dies |
| `client` | events channel, pending control requests, closed/done | `Query`, `Close`, control requests, callbacks | the CLI process through a read loop and a locked writer |
| `permissions` | rules; remembered answers | `Decide`, `Reset` | the client's callbacks, which may be abandoned |
| `budget` | sum, per-session sums, warned | `Add`, `CanSpend` | callbacks |
| `temporal` | workflow state, pending question | workflow loop, node activity, answer signal | Temporal, which retries activities |
| `eval` | cases in flight, runs, scores | `Evaluate`, scorers, `Conversation`, the run builder | the runner; a client session |
| `recording` | one file per run | factories, `WriteLine`, `Read`, `ReplayTransport` | the runner; replays |
| `claudecli`, trace | none | parsing and checking of CLI output | everything that reads a stream |
| `tools`, `mcp`, `signal`, `cmd`, rendering | none that several steps share | I/O | |

What is hard, part by part, and what correct means there:

* **Durable runs.** The process may be killed, or the store fail, between any two
  records, and an append that reports an error may have stored its record. After
  that, `Recover` must continue exactly where the run was: no committed step runs
  again, none is skipped, no answer is lost, step numbers (and so idempotency
  keys) keep their meaning, and what the caller is told agrees with the log.
* **FileStore.** Each `Append` is five system calls. A kill or power loss between
  any two must lose nothing acknowledged, and readers come in between.
* **Fleet.** Workers share a condition variable, a cap and a cancellation: no
  worker may sleep for ever, give up early, or let the spend run away; tasks
  share a repository, in which git commands may be killed.
* **Agent calls.** A context's end, the CLI's own exit, a plugin's veto and a full
  pipe race one another, here and on the far side of a transport; a retry must not
  run beside what it replaces, nor forget its session.
* **Client.** Late answers, cancelled turns, full channels, callbacks that hang.
* **Web UI.** Presses between two critical sections of a stop, one answers channel
  for all runs, browsers that reconnect, and two replays that must agree with
  what was shown.
* **Temporal.** A server that repeats, loses and reorders; the run must still be
  one run of the graph.
* **Algorithms.** Backtracking, matching, medians, unions of intervals, cut-off
  input: where a greedy or off-by-one version differs from the definition.

`PROJECT.json` lists every component with its status, and the hazards, each at
the line where it bites.

## Modules

| module | models | kind |
|---|---|---|
| `GraphLog` | the records; replay, as last records and as the code's loop; `Summarize` | operators |
| `DurableRun` | `Run`, `Resume`, `Recover`, the loop, the writer, crashes | state machine |
| `LogicalRun` | what a run promises: a run nothing interrupts | abstract state machine |
| `MCDurableRun` | instances | model checking |
| `DurableRunProofs` | replay as the log grows, the history, what callers are told, the end, recovery, the refinement of `LogicalRun` | proofs |
| `FileStore`, `MCFileStore`, `FileStoreProofs` | one run's file, system call by system call | state machine, proofs |
| `Fleet`, `MCFleet`, `FleetProofs` | `Fleet.Run` and its task list | state machine, proofs |
| `Client`, `MCClient`, `ClientProofs` | an interactive session: read loop, `Query`, control protocol, `Close` | state machine, proofs |
| `Web`, `MCWeb`, `WebProofs` | runs, gate, questions and streams of the web UI server | state machine, proofs |
| `AgentCall`, `MCAgentCall`, `AgentCallProofs` | an agent call: attempts, processes, teardown, retries, spend cap | state machine, proofs |
| `TemporalRun`, `MCTemporalRun`, `TemporalRunProofs` | a graph as a Temporal workflow | state machine, proofs, refinement of `LogicalRun` |
| `LibraryParts` | the nine modules below that are proved, for any constants | composition |
| `MCLibrary` | `LibraryParts` and the other modules, one part per behaviour | model checking |
| `LibraryProofs` | the invariants of `LibraryParts` | proofs |
| `GraphBuild` | the builder, `Compile`, `Topology` | state machine, reference definition |
| `ParallelNode`, `AgentNode`, `Telemetry` | a parallel node; an agent node; what a run and its spans tell of them | state machines |
| `Fork` | copying a log while its run goes on | state machine over `GraphLog` |
| `Journal`, `Recording` | files written, cut and read back | state machines |
| `Permissions`, `PermissionRules` | asking and remembering; what a rule matches | state machine; algorithm |
| `ToolDecision` | what the client answers to one tool request | state machine |
| `Evaluation`, `Conversation` | `Evaluate`; a simulated conversation | state machines |
| `Scoring`, `CliOutput` | scorers; readers of CLI output | algorithms against definitions |
| `Trajectory` | three readers of one event stream | state machine over the stream |
| `Budget` | the spend tracker under concurrency | state machine |
| `Worktrees`, `Preflight` | a task's checkout; the check of the target | state machines |

Some definitions are followed or preceded by a "faulty variant": the same
definition with a plausible bug. No specification uses one. Replacing the real
definition by it must make TLC refute the property that guards against the bug;
`PROJECT.json` pairs one with each property under "mutants". Where a property
is a conjunction of several, the others of its variants are there to be tried the same way.

### GraphLog and DurableRun

*The log.* A record keeps `kind`, `seq`, `node`, `step`, `state`, `next`, the
answer, the session id and whether `run_end` carries an error; costs, times,
topology and wording are left out. The state `S` is abstracted to the sequence of
marks its nodes left: node, answer given, and whether it completed, stopped to
ask or failed half-way. Two states are equal in the model exactly if the same
node executions made them.

`replayLog` accumulates eight fields record by record. `GraphLog` says what each
of them *is*: the last record of some kinds (`Base`, `Asked`, `AnswerAt`,
`SessionAt`, `StateAt`). That form is what the proofs use.
`Replayed` is the loop as the code writes it; the run imported_run checks that the
two agree on every reachable log (part of `ImportReadsAsOwn`), and `LoopAlwaysAgrees`
proves it of every log that begins with `run_start`.

*The process.* `pc` says where the segment is:

| pc | code |
|---|---|
| `new` | before `Run` |
| `loop` | top of the `for` in `loop`, run.go:145 |
| `exec` | in `exec`, between the `node_start` and the `node_commit` record |
| `edge` | between the two appends of `logCommit` |
| `finish` | `finish`, durable.go:185 |
| `import`, `answer` | `logResume`, before the imported records and before the `resume` record |
| `idle` | no segment executes; the caller may call Recover or Resume |

Every append is a step, and has two outcomes: `Stored`, or `NotStored` (the store
reported an error; the record may be there or not), after which the writer's
error is sticky. `Crash` may come at any `pc`. `NodeFails` covers an error, a
panic, a timeout and an invalid route; its "silent" alternative is a node that
returns another graph's interruption, for which `finish` writes no `run_end`.
`held` is the checkpoint the caller got from a pause; `ran` is a history variable
that remembers which node each step number was executed for.

*The environment.* The caller calls `Recover` whenever no segment executes, and
`Resume` once per checkpoint it holds (again if Resume returned an error). It
does not run two segments of one run at a time, and does not Resume a checkpoint
older than the log; both are hazards listed without a property.

### LogicalRun

The promise: a run goes from `Start` along allowed routes, does one node after
another, may be asked and answered in between, and finishes at `End`. It has no
crashes, errors or attempts. `DurableRun!RunsAsIfUninterrupted` maps a log to
this state (`at`, `done`, `state`, `asked`, `reply`, `finished` are all read off
the log) and states that every step of the durable run is a step of the logical
one or changes nothing in it.

### FileStore

A file is the sequence of what was written: whole lines, "bare" lines that lack
only the newline, torn ones. `Append` is `Open`, `CutTornTail`, `Write`, `Sync`,
`SyncDir`; a kill or an I/O error (`Stop`) may follow any of them, also in the
middle of the write. `PowerLoss` leaves what was last fsynced or, beyond it, a
prefix of what was done since, whose last line may be incomplete. `Load` may
come between any two system calls. A new file's directory entry may be lost until
it was fsynced itself. One process appends to a file at a time (the store's
mutex); two processes are not modelled.

### Fleet

Each worker is a process with a place in its loop: context check, cap check,
`claim` (asleep in `cond.Wait` as "waiting"), run, emit, `OnResult`, complete.
`Broadcast` moves every sleeper back to `claim`. The order in which a Go map is
ranged over is a free choice, and so are each task's cost and outcome and the
moment of a cancellation. Results and `OnResult` calls are two sequences, since
`emit` calls back after it unlocked. A task whose ID appears twice in a batch is
one task, as in the code's map.

### Client

A session has two pipes (`stdin`, `stdout`, sequences of lines), a CLI process,
and these goroutines: the read loop, any number of `Query` and `sendControl`
calls, one handler per question of the CLI, and `Close`. A line is its kind and
what it is about. `events` is the bounded channel from the read loop to Query,
`pending` and `mailbox` are the registered control requests and their channels.
The CLI is external: it reads a turn, emits events, may ask for a decision and
wait for it, and ends the turn with a result; it may die at any moment, and
with `stdin` closed it exits once it has nothing left to do.

A timer (control timeout, callback timeout, the five seconds in Close) is a step
that may come at any time. The handler's outcomes (decision, error, panic,
timeout) all write one reply, so they are one action, `HandlerReplies`; but
`writeControlSuccess` drops the error of the write, and a reply that does not marshal is
never written: `HandlerDrops`, after which nobody answers the CLI. The read loop ends
with stdout, or at a line too long for its buffer (`ReadTooLong`), after which it is
"deaf" until the process is gone. Once cancelled, a Query returns; what its turn still
emits stays in the pipe and the channel.

### Web

Every emit of the server is a step, as it holds the mutex; what lies between two emits of one
handler is open to everybody else. A run (`pc[r]`) goes through `RunStart`, `EdgeTaken`, the
gate (`Before`: the `breakpoint_hit` and the wait are two critical sections), `NodeStart`,
perhaps `Ask` inside the node or a pause with `ensureOpen`, `waitAnswer` and `Resume`, and
`RunEnd`. `open` counts open questions, `queued` the answers in the channel that all runs share,
`wedged` an `Answer` that blocks on the full channel with the mutex held. `release` is the
number of the server's release channel, which a press closes and replaces, and `held[r]` that of
the channel a run captured when it stopped, before its `breakpoint_hit`. Whether a press came
since is the history `pressed[r]`, which no guard reads. A node that is a parallel one has
branches: `CallBranch`, `StartBranch` and `EndBranch` interleave with everything else, and their
events are shown and not logged. A node may fail (`NodeFails`), or end well and fail in its
route (`RouteFails`): the observer is then shown a good end that the log has no record of. The
first route may fail before anything is logged (`StartRouteFails`). A browser's stream reads a
batch, writes it, and waits for the signal that every emit closes; it may drop and connect again
after the last id it got. The journal is kept per run, and its length is the number of its
`Entries`, since an event's id is its position; `log` is the run's durable log, from which a
replay is translated. A run outside `Observed` is of a graph compiled without the server as
observer: only what `Ask` and `RunInteractive` emit themselves is shown.

### AgentCall

A call of `RunStream` or `RunJSON`, with or without retries: begin (plugins),
start, the read loop over a bounded pipe, the watcher that kills on the context's end,
`finish` with its wait and teardown, the outcome, and the retry decision with its
spend guard. The CLI is external: it writes lines, with costs, sessions or a result,
and ends well, badly or never. On a remote transport there are two processes: the local
client may die by itself, and the agent on the far side is killed by a script that
finds it through a PID file, written some time after the start. `Terminate` may fail.

### TemporalRun

The workflow of `temporal.go` in place of the loop of run.go: its locals are rebuilt by
the server's replay, each node is an activity with attempts that crash, time out or
are declared dead while they still run, heartbeats carry the agent's session to the
next attempt, and answers are signals that come early or twice.
`RunsAsIfUninterrupted` maps it to the same `LogicalRun` as `DurableRun`: the two ways to
survive a crash promise the same run.

### The library

`MCLibrary` checks parts that do not interact in one run: a behaviour chooses one
`part`, whose module moves as it stands on variables of its own, while the others keep an
initial state. Nine modules, `ParallelNode`, `AgentNode`, `Permissions`, `ToolDecision`,
`Budget`, `Worktrees`, `Preflight`, `Telemetry` and `Fork`, are composed in `LibraryParts`, whose
constants `Library.cfg` gives values and `LibraryProofs` leaves open; the others need recursive
operators, or are composed with inputs that do. What each module's state is:

| module | state and actions | code |
|---|---|---|
| `GraphBuild` | a builder after any calls; `Compile`; then a walk of the compiled graph. `MakesSense` is the definition Compile is held to; `BackEdges` are Topology's | graph.go, group.go, events.go |
| `ParallelNode` | branches being cloned, started, run and ended, the first error, the merge; a panic, a cancellation or a timeout anywhere | run.go `parallelFn`, `exec` |
| `AgentNode` | concurrent calls of `RunAgent` in one node: events, sessions noted, observers, costs, the result | agent.go, durable.go, report.go |
| `Telemetry` | a run's segments with the recorder's prior steps, path and visits; the table of open spans | report.go, run.go, otel.go |
| `Fork` | the source's log, which goes on, the target's, and the place of the copy; it may die | durable.go |
| `Journal` | files of two servers and another program, cut by failed writes and exits; then a replay | server.go, http.go |
| `Recording` | files created by several factories and processes, lines with and without stamps; both readers | recording.go, replay.go |
| `Permissions` | calls being decided, answers remembered, abandoned callbacks, `Reset` | permissions.go, callbacks.go |
| `PermissionRules` | one request with a pattern: the code's loops against what the pattern means | permissions.go |
| `ToolDecision` | the configuration, callbacks that return, panic or hang, a terminal two of them read | callbacks.go, askuser.go, client.go |
| `Evaluation` | the goroutines of `Evaluate` under its semaphore; runs scored and runs kept, verdicts, cancellation. A mean next to its threshold is compared by rounding: `MeanReaches` may then be either (`Close`) | evaluate.go |
| `Scoring` | trajectory matching, ROUGE, the judges' median, against assignments, subsequences and ranks | match.go, text.go, judge.go, rubric.go |
| `Conversation` | turns of an agent and a user, either of which may fail; scripted messages may be blank, which ends it | conversation.go |
| `Trajectory` | a stream event by event with the builder of a run, the trace page and `CheckInvariants` | run.go, trace.go, invariants.go |
| `CliOutput` | one output: session, result, text and JSON as each reader finds them | parser.go, stream.go, json_extractor.go |
| `Budget` | workers between `CanSpend` and `Add`, with a session or without (then only the sum grows), callbacks after the lock | budget.go |
| `Worktrees` | tasks between the git commands of runTask, each of which may be killed or refuse; batches again. A slug is a sequence of names, since an ID may hold a slash; the branch deleted is `Rebuilt` from the last of them | workspace.go, fleet.go |
| `Preflight` | the first run's check of a target, the others behind `sync.Once` | preflight.go, plugin.go |

## Runs

| run | bounds | states | shows |
|---|---|---|---|
| durable_run | 2 nodes, one of them with a loop, MaxSteps 2, 2 faults, 2 recoveries, 1 question, 2 answers, 1 session | 344 000 | everything about a run of this store, and the refinement of `LogicalRun` |
| imported_run | checkpoint of another store, MaxSteps 2, 1 fault, 1 recovery, 2 questions; fair | 179 000 | the import path, replay as a loop, termination |
| import_retry | as above, MaxSteps 3, 2 faults | violation | a retried import loses its question |
| file_store | 5 records, 4 faults | 65 000 | durability of `Append` |
| fleet | 3 tasks in 20 dependency shapes, 2 workers, cap 0 or 1, cost 0 or 1; fair | 536 000 | the task list, the cap, termination |
| client | 2 Query calls, 1 control request, 1 question of the CLI, channel of 1, 1 event per turn; fair | 260 000 | who is unblocked, whose result, what Close leaves |
| client_close | 1 Query, no question; fair | violation | Close waits for a blocked read loop |
| web | five scenes: two observed runs with 2 presses; a longer one with 2; one with a browser; one with two branches; one without observer. 1 cancellation, 1 lost connection, an answers channel of 2; fair streams | 436 000 | questions, presses, streams, both replays |
| web_question | one run | violation | a question answered early is opened twice |
| agent_call | five scenes: a local stream with 2 attempts and 3 lines; one with 3 attempts and 2 lines; a remote one; two streams, and a stream and a JSON call, of one Runner; pipe of 1, spend limits of 2; fair | 153 000 | attempts, retries, the cap, termination |
| temporal | 2 nodes with loops, MaxSteps 2, 3 attempts, 3 faults, 2 questions, 2 signals, 1 session; fair | 222 000 | the refinement of `LogicalRun`, sessions, answers, termination |
| library | see `MCLibrary`: each part's small inputs are given where it is instantiated | 847 000 | the eighteen parts |

A property of a run may be the conjunction of several named in its module:
`RecoveryContinues` (the process between two nodes is what Recover would rebuild;
paths, answers, questions and sessions are the log's), `BoardIsSound` (the report is
complete, dependencies come first, the overshoot is one wave, nothing is skipped
without a reason), `SessionIsSound`, `AttemptsAreSound`, `LogIsSound`, `RecordsStay`, and
those of `MCLibrary`.

*Why the bounds are enough.* A defect of recovery shows after one fault, and one
of recovery from a recovery after two; both are within the bounds, at every
point of the run. Two steps give a committed predecessor to every step, a loop
back to the same node (so that one node has two step numbers) and a budget that
runs out. Two answers tell a lost answer from a swapped one. Five records and
four faults let a file be torn, repaired, torn again and lose power. Three tasks
give a chain, a join, a blocked one and a cycle, with two workers a sleeper and
one that wakes it; cap 1 with cost 1 makes the bound of the overshoot tight. A
channel of one and turns of two lines fill the channel as 64 and longer turns do;
two Query calls give a cancelled one and its successor. Two runs of the web server
are an asker and another that its answer may go to; an answers channel of two is
full after two, as one of 16 after 16; two presses make a press between the two
sections of a stop and one after it; of two branches one ends, fails or is cancelled
beside the other. A pipe of one line floods with two; two
attempts make a retry, with three lines a session, a cost and a result, and three one
after an attempt that named no session, whose predecessor did. Three
Temporal attempts are one that reports a session, one that reports none, and one
that must know it. In the library, two or three actors give every pair of steps of two
of them; three runs are the fewest whose mean rounding can move across the threshold;
the slugs nest, rebuild to one another's and to a branch of the repository; and the
algorithms' inputs are all the short ones over an alphabet in which
every character class, tie and overlap occurs; the numbers are in `MCLibrary`. The
theorems hold for all values.

*Deadlock* is not checked: a finished run, a file with no more appends and a
returned `Fleet.Run` really stop, and so does a closed session or a stream whose
reader has gone.

*Fairness.* `DurableRun!FairSpec` has `WF_vars(Segment)`: a goroutine that can
take its next step takes it; a node returns because it runs under a context and
the agents in it under the runner's timeout. Nothing obliges the caller to call
Recover or Resume, and no fairness is put on faults. `Fleet!FairSpec` has weak
fairness on each worker and on `Run` itself: the Go scheduler and mutexes, and
runners that return at their timeout. A worker asleep in `cond.Wait` is not
enabled, so fairness does not wake it: only a broadcast does. `Client!FairSpec` has
weak fairness on the read loop, on each call and handler, on Close and on the
CLI: goroutines run, timers fire, a callback ends at its timeout, the CLI ends a
turn it can go on with and SIGKILL works. Nobody is obliged to call, to cancel or
to die. A goroutine blocked in a channel operation is not enabled. `Web!FairSpec`
schedules the streams' goroutines only; runs and humans need do nothing.
`AgentCall!FairSpec` schedules the caller, lets SIGKILL kill and Terminate end, and lets
ProcessTimeout come for a call not aborted before; the CLI need do nothing.
`TemporalRun!FairSpec` lets the workflow and the server's start of attempts make
progress, and an attempt end or time out, as its StartToClose timeout says.

## Where the code and its documents disagree

Three are shown by a run that TLC refutes, the others were met while modelling and
are excepted, by name, in the property they would break. `PROJECT.json` quotes the
lines of each ("findings").

* A retried import (`import_retry`): `logResume` takes any non-empty log for an
  imported one. If the interrupt record could not be stored, the retry appends
  an answer to no question, and replay drops it.
* Close (`client_close`): the read loop blocks in its send on a full events channel
  when no Query receives, and Close waits for the read loop without a bound, also
  after it has killed the process. `CloseEndsUnlessStuck` shows that this is the
  only way for Close not to return.
* A control reply that does not marshal, as an `AllowWithInput` of
  invalid JSON, is dropped without a trace: the CLI waits, and the Query with it.
  `QueryEnds` excepts exactly the sessions with such a request, and those whose read loop
  is deaf.
* A web question answered before RunInteractive looks (`web_question`) is opened
  a second time; the server then accepts an answer that nobody waits for.
* Answer sends on the bounded channel with the mutex held: once answers to
  questions that nobody asks any more fill it, an Ask is never shown, and a stream,
  a press and a run's next event wait with it.
* A replay of a durable log lacks the end of a node that failed or whose
  route did, and the branches of a parallel node. `ReplayShowsTheRun` names what is
  live only.
* Durable logs and files: a new log's directory entry is fsynced once, after the
  first record, and errors are ignored; with an `AgentObserver` no session is logged;
  two agents of one node log the same sessions again and again.
* Cap and retries: a fleet worker past the check, or asleep in `claim`, still
  claims; the spend of a truncated attempt is guarded by an estimate where the doc says
  it is not counted; an attempt that printed its result and then failed has its cost
  forgotten.
* Client: after a cancelled Query the next one returns its result; of two calls of
  `AnswerFromStdin`, one abandoned perhaps, either may take the line that was typed for the
  other's question.
* Web: of two runs without observer, or one beside an observed run that asks, only one
  question is surfaced (the scenes and the theorem about questions leave such servers
  out, see `Surfaced`); live server and replay may show different topologies after a
  resume.
* Temporal: an early or second answer becomes the next question's.
* Worktrees: those of a cancelled fleet stay, and two tasks with the same first eight
  letters cannot run at once. If these hold a slash, RemoveWorktree rebuilds
  another branch's name: the task's own stays without any cancellation, the next batch is
  refused its worktree, and a branch of the other name is deleted. `WorktreesAreKept` says
  so: without a cancellation only branches of such tasks remain, only a branch they rebuild
  is taken from the repository, and a task is refused only for what may stand in its
  way (a name git refuses, a name taken or nested in another, its own earlier branch).
* Telemetry: a branch's Attempt starts again after Resume, and two concurrent runs mix
  their spans. `ReportIsCumulative` counts branches from the last Resume on;
  the run library checks `SpansAreExecutions` for one run.
* A Fork that dies while it copies leaves a log without its fork record, which
  Recover runs unedited and another Fork refuses.
* Preflight: the first run's cancellation is kept as the verdict on the target.
* Evaluation: `aggregate` compares a mean of floats without a tolerance: three
  runs of 0.7 do not meet a threshold of 0.7. `EvaluationIsSound` demands that a case all of
  whose runs pass does so only where rounding cannot decide.
* Evaluation, recording and parsing: `PassRate(0)` does not switch a rate off; a null
  expects anything; costs of a session's turns are summed although cumulative; white
  space after a brace is lost; sub-agents' texts are joined; brackets in strings
  count.

## What is proved

`DurableRunProofs` proves, for every graph (`Targets`), every `MaxSteps`, every set
of imported checkpoints and every bound on faults, recoveries and questions:

* `TypeCorrect`: `Spec => []TypeOK`;
* `KeysAreStable`: a step number names one node for ever;
* `CommitsRunOnce`: a committed step is never executed again;
* `HistoryIsLinear`: each commit and question follows the last commit's route
  under the next number.

From the assumptions `NamesAreDistinct` (the markers are not nodes, the empty
values not values) and `RunAssumption` (routes lead to nodes or `End`; an
imported checkpoint has steps left; the bounds are numbers), which TLC evaluates
on the instances.

None of these is inductive alone. That a committed step is not run again, say,
depends on the step the process holds being the log's, which after a crash
depends on what Recover reads, which depends on the log's shape. The inductive
invariant `IInv` is the conjunction of

* `TypeOK`;
* `WellFormed(log)`: a log that is not empty has a base and a state, its pending
  question is for the node its base routes to, and the like: what makes
  `ResumeNode` and `ResumeStep` denote something;
* `Located`: at each `pc` the process's node and step are those the log would
  give to Recover;
* `HeldIsCurrent`: a checkpoint the caller holds is at the log's base;
* `RanIsHistory`: no step above the log's next one has been executed, and the one
  in flight was executed for the node the base routes to.

The proof is in two layers. Lemmas about appending (`AppendCommit`,
`AppendQuestion`, `AppendNeutral`...) say how each kind of record moves base,
question and state, from two facts about the last record of some kinds
(`LastOfHit`, `LastOfMiss`); they never mention the process. Then one lemma per
group of actions preserves each conjunct, and the four theorems follow.

Its second half goes on from `IInv`, with lemmas on what an append does to
questions, answers and the state (`AppendedCommit`, `AppendAnswer`...), and proves:

* `WhatCallersAreTold`: `Spec => []CallerIsToldTheTruth`, and `TheEndIsFinal`:
  `Spec => FinishedIsFinal`, from the invariant `Settles`: outside a call the log may wait
  for an answer or have ended, in the loop it does neither, and nobody holds a
  checkpoint of a run that ended. The delicate place is `finish` after a store error:
  the question may be stored although its append failed, so `Settles` allows a waiting log
  there as long as the writer is broken, which is why no `run_end` can follow it.
* `CrashesAreInvisible`: `Imported = {} => (Spec => RunsAsIfUninterrupted)`, from the
  invariant `Continues`: state and answer of the process are those the log gives, a held
  checkpoint is that of a pending question with the log's state. `StepLogs` lists what one
  step can add to the log; each such record is then a step of `LogicalRun` (`DoStep`,
  `AskStep`...) or none.
* `RecoveryContinuesAlways`: `Imported = {} => (Spec => []RecoveryContinues)`. To
  `Continues` it adds `Paths` (the path in the process or in a held checkpoint is the
  log's, with the node in flight or without), `Handed` (only Recover hands a session on;
  between nodes it is the one the log gives, none after a commit or beside a checkpoint;
  in a node that very attempt logged it) and `AnswersOpen` (each answer follows an open
  question).
* `ImportReadsAsOwnAlways`: `Spec => []ImportReadsAsOwn`, with imports and without.

`Imported = {}` is needed where it stands: with an import, a crash between its two records
makes the next `Resume` log an answer to no question (run `import_retry`), and the node
runs with an answer the log denies. TLC checked `Paths` and `Handed` on the run
durable_run before they were proved.

The path and the loop of replay are recursive functions, and what they compute is proved
without the library's induction theorems: a set of naturals that is not empty has a least
member (`Least`, from `NatLessThanWellFounded` and `WFMin`, neither of which has an operator
for a parameter), so a claim about every length fails first at some length, and the step
from the length before it refutes that. So the recursive definition is satisfied by some
function (`PathExists`, `LoopExists`), which its log determines (`PathUnique`,
`LoopUnique`); hence replay of a log with one record more is one more turn of the loop
(`PathOfAppend`, `ReplayedAppend`); and `LoopAlwaysAgrees` takes the shortest log on which
the loop and the last records disagree. `LoopFields` says, field by field, which kinds of
records set and clear it, `PlaceAppend`, `OpenAppend` and `SessionAtAppend` the same of the
last records, and `AppendAgrees` compares the two.

`FileStoreProofs` proves `LogStaysSound`, `Spec => []LogIsSound`, and `NothingGoes`,
`Spec => []RecordsStay`, for every number of records and faults. The inductive invariant
(`StoreInvariant`) says that file and disk are both logs (only the last line may be
incomplete, the ids ascend), that a record readable on the disk is readable at the same
place of the file (`Extends`), where `Append` stands at each `pc` (`Appending`), that what
was acknowledged is readable on the disk, and what a reader saw in the file. The step that
needs all of it is the power loss: `SharedPrefix` shows that the disk is in the file but for
a torn end, which `CutTornTail` may have cut; so every prefix that may survive is again a
log and holds what was acknowledged.

`ClientProofs` proves `SessionStaysSound`, `Spec => []SessionIsSound`, for any turns,
control requests, requests of the CLI, channel capacity and number of events. The
inductive invariant (`SessionInvariant`) follows a turn through the whole
pipeline: stdin, the CLI, stdout and the events channel together carry (`Carries`) only
the turn whose Query reads, its result comes last, and with no Query reading they carry
nothing of a turn until the read loop ends (`Orderly`, as long as no Query was cancelled);
at most one Query reads (`SingleFlight`); a waiting control request is registered or has its
answer, and none is left once the read loop is done (`Registered`); the read loop outlives
the CLI and Close the read loop (`Ending`).

`FleetProofs` proves `BoardStaysSound`, `Spec => []BoardIsSound`, for every finite set of
workers, every batch with any dependencies, every cap and every bound on a task's
cost, from `FleetAssumption`. Its inductive invariant (`BoardInvariant`) is

* `TypeOK` and `Counted`: `running` is the number of workers in flight;
* `WithinWave`: what is spent and what the workers past the cap's check may still
  spend is within a wave of the cap. The overshoot alone is not inductive: it is
  the promise of each worker that has passed the check that has to be counted;
* `Claimed`: a task in flight is one worker's, out of the queue, not done, and its
  dependencies have succeeded;
* `Results` and `Told`: each task out of the queue has one result, or a worker that
  has yet to emit it, and OnResult hears of it after it is recorded and before it
  counts as done;
* `DependenciesFirst`: in the results and in what OnResult heard;
* `Quit`: a worker that left without a cap or a cancellation left nothing anybody could
  still claim, now or later;
* `Over`: when Run has returned, all workers have left and every task is reported.

The lemmas about cardinalities (`OneMore`, `OneLess` and what each action does to the
sets of workers in flight and committed) come first; then each conjunct is preserved
action by action.

`TemporalRunProofs` proves, for every graph, any number of workers, attempts, faults and
answers:

* `WorkflowIsLogical`: `Spec => RunsAsIfUninterrupted`, without a condition. `LogicalStep`
  takes the workflow's steps one by one: only a route chosen at the start, an activity
  that completes or asks, an answer received and the end show in the logical run;
  `FlowCases` says that all else (crashes, timeouts, beats, results that come too late)
  leaves the workflow alone or ends it with an error;
* `TypedAndAnsweredAlways`: `Spec => []TypedAndAnswered`;
* `SessionIsNeverForgottenAlways`: `Spec => SessionIsNeverForgotten`.

None follows without knowing which attempts may still speak. The inductive invariant is
`TypeOK`; `FlowOK`, the workflow's locals at each place; `ActivityOK`, the activity in flight
has the node, step, state and answer the workflow holds; `AttemptsOK`, of each activity
and attempt there is at most one worker and none is ahead of the server; `SessionsOK`, what
a worker noted or reported was begun in its own activity; and `AnswersOK`, which counts:
as many answers were received as questions asked but for the one being asked, in the
order they were sent, so that if no question was answered twice the k-th answer is the
one to the k-th question.

`AgentCallProofs` proves, for every finite set of calls on any transports, any pipe
capacity, limits and bounds (`CallAssumption`):

* `AttemptsAreSoundAlways`: `Spec => []AttemptsAreSound`. A call's part of the invariant
  (`CallOK`) says which process it has at each place (`ProcessOK`), that an agent on the
  far side whose client is gone was spared or is going to be killed (`FarSideOK`: the
  promise of the kill still to come is what a statement about ended attempts lacks),
  that the pipe is the end of what was written and a result its last line (`PipeOK`),
  and that the result a call has was read, and one it read it has (`ResultOK`);
* `CapIsPassedByOneEventPerRunAlways`: `Spec => []CapIsPassedByOneEventPerRun`, from `CapOK`:
  as in the fleet, the calls past the check whose next event may still raise the sum
  (`Spenders`) have to be counted with it;
* `RetryResumesLatestSessionAlways`: `Spec => []RetryResumesLatestSession`, from `SessionOK`:
  what a call will resume is the session told last in any of its attempts (a history kept
  apart from the runner's own bookkeeping), also past an attempt that told none.

One lemma per action of a call keeps `CallOK` of that call; that of the others is
untouched (`Others`). A scene's set of calls is assumed finite, as a program's is.

`WebProofs` proves, for any runs, browsers, nodes, presses, lost connections and any
capacity of the answers channel (`WebAssumption`):

* `EachEventOnceAlways`: `Spec => []EachEventOnce`, from the invariant `Base`: the journal is a
  finite set of entries that only grows (`JournalOK`, `Emitted`), a stream that is
  connected stands right behind what its browser got, and a batch it writes ends in the
  journal (`ReaderOK`);
* `ReleaseIsNeverLostAlways`: `Spec => []ReleaseIsNeverLost`: a run that has begun to stop was
  pressed since exactly if the channel it captured is no longer the server's. The invariant
  `GateOK` carries that from the capture, before the `breakpoint_hit`, to the wait, over the
  presses of others;
* `EveryQuestionCanBeAnsweredAlways`:
  `(\A s \in Scenes : Surfaced(s)) => (Spec => []EveryQuestionCanBeAnswered)`, from
  `Questions`: the count itself, with the askers counted by `OneAsker` as each moves; that
  a paused run of an observed graph has been shown before `ensureOpen` looks (`ShownOK`);
  and that a lone run without observer leaves no orphaned question behind (`AloneOK`).
  `Surfaced` says that the server observes its runs or serves one. It cannot be
  dropped: of a run without observer beside an observed one that asks, `ensureOpen`
  neither counts nor shows the question (TLC finds that when such a scene is added to
  `MCWeb`). All scenes of the run web satisfy it;
* `ReplayShowsTheRunAlways`: `Spec => []ReplayShowsTheRun`. Log and journal of a run are equal
  only at rest: every record is written before or after its event, with other steps in between.
  The invariant `Told` says at each place by how much they are apart. `Abreast`: between
  `logCommit` and `EdgeTaken` the log has one edge the journal has not, and counts it; between
  `logResume` and the resume event it has the answer; between `NodeEnd` and `Ask` the journal
  has the pause; a run that has failed or was cancelled may have one event more on either side,
  which `Settled` leaves out of both; everywhere else they are the same, branches apart. `Ends`
  says what the journal's last event is at each place, and `Placed` and `Leads` what makes each
  step's event the translation of its record (no node is entered at `End`, nor past the limit of
  steps; an answered run is not gated). `EventsFromRecords` and `Live` are recursive functions;
  `ReadMore` and `SeenMore` say what one record and one event more do to them, by the
  least-index argument of `DurableRunProofs`.

`LibraryProofs` proves the six properties of `LibraryParts`, for all its constants, from
`AgentAssumption`, `QuestionsAssumption`, `MoneyAssumption`, `SlugsAssumption`,
`VersionsAssumption` and `FanAssumption`, which say no more than what the code's types and
checks do (amounts are not negative, a slug is one or more names, a version is three numbers, a
question of `AskUserQuestion` is at least one, the empty session is no session, a parallel
node's branches have names of their own):

* `BudgetIsKeptAlways`: `Money!Spec => []BudgetIsKept`. The overshoot needs the sum of
  the estimates of all workers past `CanSpend` in the invariant, as in `Fleet` and `AgentCall`;
  that the total is the sum of the sessions and of what no session was named for (`SpentIsSum`),
  and the callbacks due to those told, needs lemmas about
  sums over finite sets (`SumOver` and its updates), proved with `Least` from the fold;
* `DecisionsAreKeptAlways`: `Permission!Spec /\ Tools!Spec => []DecisionsAreKept`. A call
  may go back to another's answer, so the invariant follows `decision[c].by` to a call whose
  answer, request and memo agree, also over a `Reset` and an abandoned callback; for one
  tool request it ties the phase of the callback to what was said, read and replied;
* `RunsAreSetUpAlways`: `Trees!Spec /\ Target!Spec => []RunsAreSetUp`. `Housed` says that what a
  task works in is there and its own, also while others delete the branches they rebuild (the
  ground is that git deletes no branch that is checked out), `Repository` which of the
  repository's own branches may be gone, and `Tidy` that without a cancellation what exists is
  held or the branch of a nested slug; `Judged` that the verdict behind `sync.Once` is that of
  the target, with `LowerIsLess` for the comparison of versions;
* `NodesAreHonestAlways`: `Spec /\ Agent!Spec => []NodesAreHonest`. `BranchKept`, `FirstKept` and
  `NodeKept` follow a branch, the first error and the merge of a parallel node; `CallKept`,
  `LogKept`, `CostKept` and `ResultKept` a call's session, the records, the bill and the result;
* `ReportIsCumulativeAlways`: `Told!Spec => []Told!ReportIsCumulative`, for any number of
  concurrent runs, branches, steps and pauses. The invariant `Faithful` relates the recorder
  of a run to the history of its executions: what it has of earlier segments and of this one is
  that history (`Reported`), the path is the executions of the loop and the one under way
  (`Pathed`), and the counts are those of the executions, a branch's since the last pause,
  which between pause and `Resume` the path alone determines (`Counted`, `Asked`). That the
  cost is the sum of the executions other than the parallel node's needs `SumOfPart`: a sum
  is that of its terms that are not zero;
* `ReportsAreTrueAlways`: with one run at a time, `Told!Spec => []ReportsAreTrue`, the spans
  too. `Spanned` says that an execution under way has its span open, under its own key, that
  no two share one, and that a branch's is below its parallel node's. With two runs the
  statement is false: a key has no run in it;
* `ForksAreExactAlways`: `Forked!Spec => []ForksAreExact`. The invariant says that the prefix
  being copied and the one that was forked are beginnings of the source, the target a beginning
  of that prefix or all of it with the fork record, and that records are numbered by position.
  What a fork record does to a log (`ForkEdits`: state, route, step, path, status, and neither
  question, answer nor session) is proved for logs of any records, not only those a run writes.

The inductive invariants of temporal, agent_call, web (`Told` too) and, where TLC can evaluate
them, the library's parts were also checked by TLC on the scenes and bounds of those runs.

Only model-checked: liveness and what needs fairness, which the prover cannot do;
`RecoveryContinues` and the refinement of `LogicalRun` for a run with imports, which do not
hold of it (run import_retry); and four properties of the library, each about the result of
an algorithm on data: `GraphIsRight` (reachability, walks and back edges),
`RulesMeanTheirPatterns` (glob matching with backtracking), `EvaluationIsSound` (pass@k and
its combinatorics, concatenated runs; assignments, LCS and medians of the scorers) and
`ReadersAgree` (files as sequences of sequences, cut and glued anywhere; unions of
intervals, open calls). Most are recursive operators or quantify over all functions or
subsequences, and TLC compares them with their references over all bounded inputs.

## What is left

1. Two segments on one log, and a checkpoint older than the log: nothing in the code
   guards against either, so a model would only show what then happens.
2. Proofs about `Journal`, and about `Recording` once its readers are recursive functions.
3. Larger Web scenes: two browsers, three runs.

## Not modelled, and why

Rendering, HTTP routing, tokens, JSON decoding, command lines and configuration keep no
state that several steps share; `tools` and `mcp` answer one request at a time from an
immutable registry; `signal` looks for markers in a text; `clitest` and the golden-file
helpers are for tests. Durations and topology hashes are data that no property tells
apart, and costs are modelled where something depends on them (`Fleet`, `AgentCall`,
`AgentNode`, `Telemetry`, `Budget`). Amounts of money are numbers of units: that sums of
floats are rounded matters to the means of `Evaluation` alone. In `Web` no branch calls
`Ask` and the store does not fail; `DurableRun` is where it does. The backoff's delay is left out, also that its shift
wraps to no delay from the 65th attempt on. Memory effects of states shared between
branches without `WithClone` are outside the model, and so are duplicate task IDs of a
fleet, of which the code's map keeps the last.
