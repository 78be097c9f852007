------------------------------- MODULE Fleet -------------------------------
(***************************************************************************)
(* One Fleet.Run (src/fleet/fleet.go) over its taskList                    *)
(* (src/fleet/tasklist.go): worker goroutines that share a queue of tasks  *)
(* with dependencies, a sum spent with a cap, and the results.             *)
(*                                                                         *)
(* A step of a worker is what it does between two points where another     *)
(* goroutine may run: one critical section of mu or of tl.mu, or a call    *)
(* out.  A task is known by its ID: newTaskList keeps the last of two      *)
(* tasks with one ID.  Costs are whole units, and a run that produced no   *)
(* Result costs nothing.                                                   *)
(*                                                                         *)
(* An operator introduced as a "faulty variant" is no part of Next: it is  *)
(* the definition after it with a plausible bug.                           *)
(***************************************************************************)
EXTENDS Integers, Sequences, FiniteSets

CONSTANTS
  Workers,   \* Config.Workers
  Tasks,     \* the IDs of the batch
  Batches,   \* the DependsOn maps the batch may have
  Caps,      \* the values of MaxSpendUSD; 0 is no cap
  MaxCost    \* bound: what one task may cost

ASSUME FleetAssumption ==
  /\ IsFiniteSet(Workers) /\ Workers # {}
  /\ IsFiniteSet(Tasks)
  /\ Batches \subseteq [Tasks -> SUBSET Tasks]
  /\ Caps \subseteq Nat
  /\ MaxCost \in Nat

VARIABLES
  deps,      \* Task.DependsOn
  cap,       \* Config.MaxSpendUSD
  pc,        \* where each worker is
  task,      \* the task a worker has claimed
  outcome,   \* what runTask gave it
  pending,   \* taskList.pending
  succeed,   \* the tasks with taskList.succeed[id] = TRUE
  running,   \* taskList.running
  spent,
  capped,
  results,   \* Report.Results
  told,      \* the tasks OnResult was called for, in order
  cancelled, \* ctx is done
  returned   \* Run has returned its Report

queue == <<pending, succeed, running>>
report == <<spent, results>>
vars == <<deps, cap, pc, task, outcome, queue, report, capped, told, cancelled, returned>>

NoTask == "none"
NoOutcome == [cost |-> 0, ok |-> FALSE]
Outcomes == [cost : 0..MaxCost, ok : BOOLEAN]
TaskResults == [task : Tasks, cost : 0..MaxCost, ok : BOOLEAN, skipped : BOOLEAN]

\* Where a worker holds a task it has claimed and not completed.
InFlight == {"run", "emit", "tell", "complete"}
Places == {"top", "cap", "claim", "waiting", "exit"} \cup InFlight

TypeOK ==
  /\ deps \in Batches /\ cap \in Caps
  /\ pc \in [Workers -> Places]
  /\ task \in [Workers -> Tasks \cup {NoTask}]
  /\ outcome \in [Workers -> Outcomes]
  /\ pending \subseteq Tasks /\ succeed \subseteq Tasks
  /\ running \in 0..Cardinality(Workers)
  /\ spent \in Nat /\ capped \in BOOLEAN
  /\ results \in Seq(TaskResults) /\ told \in Seq(Tasks)
  /\ cancelled \in BOOLEAN /\ returned \in BOOLEAN

Init ==
  /\ deps \in Batches /\ cap \in Caps
  /\ pc = [w \in Workers |-> "top"]
  /\ task = [w \in Workers |-> NoTask]
  /\ outcome = [w \in Workers |-> NoOutcome]
  /\ pending = Tasks /\ succeed = {} /\ running = 0
  /\ spent = 0 /\ capped = FALSE
  /\ results = <<>> /\ told = <<>>
  /\ cancelled = FALSE /\ returned = FALSE

Goto(w, place) == pc' = [pc EXCEPT ![w] = place]

-----------------------------------------------------------------------------
(* The worker loop *)

CheckContext(w) ==
  /\ pc[w] = "top"
  /\ Goto(w, IF cancelled THEN "exit" ELSE "cap")
  /\ UNCHANGED <<deps, cap, task, outcome, queue, report, capped, told, cancelled, returned>>

\* Faulty variant: the cap has to be exceeded.
CapReachedLate == cap > 0 /\ spent > cap

CapReached == cap > 0 /\ spent >= cap

CheckCap(w) ==
  /\ pc[w] = "cap"
  /\ Goto(w, IF CapReached THEN "exit" ELSE "claim")
  /\ capped' = (capped \/ CapReached)
  /\ UNCHANGED <<deps, cap, task, outcome, queue, report, told, cancelled, returned>>

-----------------------------------------------------------------------------
(* taskList.claim *)

\* Faulty variant: it is enough that no dependency waits to be claimed.
ReadyWhenClaimed(t) == deps[t] \cap pending = {}

Ready(t) == deps[t] \subseteq succeed

Broadcast == [w \in Workers |-> IF pc[w] = "waiting" THEN "claim" ELSE pc[w]]

\* Faulty variant: a claimed task stays in the queue.
ClaimTaskKept(w, t) ==
  /\ pc[w] = "claim"
  /\ t \in pending /\ Ready(t)
  /\ running' = running + 1
  /\ task' = [task EXCEPT ![w] = t]
  /\ Goto(w, "run")
  /\ UNCHANGED <<deps, cap, outcome, pending, succeed, report, capped, told, cancelled, returned>>

\* The range over the map takes its entries in no order.
ClaimTask(w, t) ==
  /\ pc[w] = "claim"
  /\ t \in pending /\ Ready(t)
  /\ pending' = pending \ {t}
  /\ running' = running + 1
  /\ task' = [task EXCEPT ![w] = t]
  /\ Goto(w, "run")
  /\ UNCHANGED <<deps, cap, outcome, succeed, report, capped, told, cancelled, returned>>

NothingReady(w) == pc[w] = "claim" /\ ~ \E t \in pending : Ready(t)

\* The queue is empty, or no task in flight can make another one ready.
ClaimNothing(w) ==
  /\ NothingReady(w)
  /\ pending = {} \/ running = 0
  /\ pc' = [Broadcast EXCEPT ![w] = "exit"]
  /\ UNCHANGED <<deps, cap, task, outcome, queue, report, capped, told, cancelled, returned>>

ClaimWaits(w) ==
  /\ NothingReady(w)
  /\ pending # {} /\ running # 0
  /\ Goto(w, "waiting")
  /\ UNCHANGED <<deps, cap, task, outcome, queue, report, capped, told, cancelled, returned>>

-----------------------------------------------------------------------------
(* A claimed task *)

\* runTask: any cost, success or failure, whether or not ctx is done.
RunTask(w) ==
  /\ pc[w] = "run"
  /\ \E o \in Outcomes : outcome' = [outcome EXCEPT ![w] = o]
  /\ Goto(w, "emit")
  /\ UNCHANGED <<deps, cap, task, queue, report, capped, told, cancelled, returned>>

\* emit, under mu.
Record(result) ==
  /\ spent' = spent + result.cost
  /\ results' = Append(results, result)

Emit(w) ==
  /\ pc[w] = "emit"
  /\ Record([task |-> task[w], cost |-> outcome[w].cost, ok |-> outcome[w].ok, skipped |-> FALSE])
  /\ Goto(w, "tell")
  /\ UNCHANGED <<deps, cap, task, outcome, queue, capped, told, cancelled, returned>>

\* emit, after it has unlocked mu: workers may call OnResult in another order
\* than that of the results.
Tell(w) ==
  /\ pc[w] = "tell"
  /\ told' = Append(told, task[w])
  /\ Goto(w, "complete")
  /\ UNCHANGED <<deps, cap, task, outcome, queue, report, capped, cancelled, returned>>

Completed(w) ==
  /\ pc[w] = "complete"
  /\ running' = running - 1
  /\ task' = [task EXCEPT ![w] = NoTask]
  /\ outcome' = [outcome EXCEPT ![w] = NoOutcome]
  /\ UNCHANGED <<deps, cap, pending, report, capped, told, cancelled, returned>>

\* Faulty variant: nobody is woken.
CompleteSilently(w) ==
  /\ Completed(w)
  /\ succeed' = IF outcome[w].ok THEN succeed \cup {task[w]} ELSE succeed
  /\ Goto(w, "top")

\* Faulty variant: only a failure is written down.
CompleteUnwritten(w) ==
  /\ Completed(w)
  /\ succeed' = succeed
  /\ pc' = [Broadcast EXCEPT ![w] = "top"]

\* taskList.complete.
Complete(w) ==
  /\ Completed(w)
  /\ succeed' = IF outcome[w].ok THEN succeed \cup {task[w]} ELSE succeed
  /\ pc' = [Broadcast EXCEPT ![w] = "top"]

-----------------------------------------------------------------------------
(* The caller of Run *)

\* wg.Wait has returned.
AllExited == \A w \in Workers : pc[w] = "exit"

Reported == {results[i].task : i \in DOMAIN results}

Skip(t) ==
  /\ AllExited /\ t \in pending \ Reported
  /\ Record([task |-> t, cost |-> 0, ok |-> FALSE, skipped |-> TRUE])
  /\ told' = Append(told, t)
  /\ UNCHANGED <<deps, cap, pc, task, outcome, queue, capped, cancelled, returned>>

Return ==
  /\ AllExited /\ pending \subseteq Reported /\ ~returned
  /\ returned' = TRUE
  /\ UNCHANGED <<deps, cap, pc, task, outcome, queue, report, capped, told, cancelled>>

Cancel ==
  /\ ~cancelled /\ ~returned
  /\ cancelled' = TRUE
  /\ UNCHANGED <<deps, cap, pc, task, outcome, queue, report, capped, told, returned>>

Work(w) ==
  \/ CheckContext(w) \/ CheckCap(w)
  \/ \E t \in Tasks : ClaimTask(w, t)
  \/ ClaimNothing(w) \/ ClaimWaits(w)
  \/ RunTask(w) \/ Emit(w) \/ Tell(w) \/ Complete(w)

Finish == (\E t \in Tasks : Skip(t)) \/ Return

Next == (\E w \in Workers : Work(w)) \/ Finish \/ Cancel

Spec == Init /\ [][Next]_vars

\* The scheduler runs every goroutine that can run, and a runner returns: it
\* kills claude at its timeout.
FairSpec == Spec /\ (\A w \in Workers : WF_vars(Work(w))) /\ WF_vars(Finish)

-----------------------------------------------------------------------------
(* Properties *)

\* "The returned Report always reflects what ran" (fleet.go:98-99): no task is
\* reported twice, Run returns only when all are, skipped exactly if they were
\* never claimed, and everything it spent is some task's cost.
ReportIsComplete ==
  /\ \A i, j \in DOMAIN results : results[i].task = results[j].task => i = j
  /\ returned => Reported = Tasks
  /\ returned => \A i \in DOMAIN results : results[i].skipped <=> results[i].task \in pending
  /\ {told[i] : i \in DOMAIN told} \subseteq Reported

\* DependsOn lists tasks "that must succeed first" (fleet.go:30): when a task is
\* reported as run, each of them was reported, and reported to OnResult, before.
DependenciesFirst ==
  \A i \in DOMAIN results : ~results[i].skipped =>
    \A t \in deps[results[i].task] :
      /\ \E j \in 1..(i - 1) : results[j].task = t /\ results[j].ok
      /\ \A n \in DOMAIN told : told[n] = results[i].task =>
           \E m \in 1..(n - 1) : told[m] = t

\* The overshoot of the cap is one wave (fleet.go:51-54): a worker that has
\* passed the cap's check runs one task more, and no worker a second one.
OvershootIsOneWave ==
  cap > 0 => spent <= cap - 1 + Cardinality(Workers) * MaxCost

\* Workers give up early only for a reason (fleet.go:149-150): unless Run was
\* cancelled or met its cap, a skipped task has a dependency that did not succeed.
SkippedForAReason ==
  AllExited /\ ~cancelled /\ ~CapReached =>
    \A t \in pending : \E d \in deps[t] :
      ~ \E i \in DOMAIN results : results[i].task = d /\ results[i].ok

\* The Report is complete, in dependency order, within a wave of the cap and
\* skips nothing without a reason, at every point of Run.
BoardIsSound ==
  /\ TypeOK /\ ReportIsComplete /\ DependenciesFirst
  /\ OvershootIsOneWave /\ SkippedForAReason

\* Run returns, however workers and cancellation interleave: no worker waits on
\* the queue for ever (fleet.go:98-99).
RunReturns == <>returned
=============================================================================
