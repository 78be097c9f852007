---------------------------- MODULE ParallelNode ----------------------------
(***************************************************************************)
(* One execution of a parallel node (src/graph/run.go, parallelFn and      *)
(* exec): the branches are started one after the other, each on its own    *)
(* copy of the state, run concurrently, and are merged when all have       *)
(* ended well.                                                             *)
(*                                                                         *)
(* What the branches do to their copies is left out: whether the copies    *)
(* share data is up to the caller (WithClone).                             *)
(*                                                                         *)
(* An operator introduced as a "faulty variant" is no part of Next: it is  *)
(* the definition after it with a plausible bug.                           *)
(***************************************************************************)
EXTENDS Naturals

CONSTANT BranchCount
ASSUME BranchCountAssumption == BranchCount \in Nat \ {0}   \* Compile refuses none

Branches == 1..BranchCount   \* in the order they are started

VARIABLES
  pc,        \* the node: "fork" (and wait), "merge", "returned"
  started,   \* number of branches started
  br,        \* a branch: "idle", "running", "ended", "reported", "joined"
  how,       \* how a branch ended
  first,     \* the error reported first
  cancelled, \* the branches' context is cancelled by the node
  outer,     \* the run's own context has ended
  steps,     \* the branches with a Step in the report (recorder.add)
  merged,    \* the merge function was called
  err        \* what the node function returns

vars == <<pc, started, br, how, first, cancelled, outer, steps, merged, err>>

Nothing == "nothing"      \* nil

Init ==
  /\ pc = "fork" /\ started = 0
  /\ br = [b \in Branches |-> "idle"] /\ how = [b \in Branches |-> Nothing]
  /\ first = Nothing /\ cancelled = FALSE /\ outer = FALSE
  /\ steps = {} /\ merged = FALSE /\ err = Nothing

\* The loop does not look at first: a branch is started even after another
\* one failed, with a context that is cancelled already.
StartBranch ==
  /\ pc = "fork" /\ started < BranchCount
  /\ started' = started + 1
  /\ br' = [br EXCEPT ![started + 1] = "running"]
  /\ UNCHANGED <<pc, how, first, cancelled, outer, steps, merged, err>>

\* A panic in the user's clone function leaves parallelFn at once (exec turns
\* it into an error): the deferred cancel runs, nobody waits for the branches.
ClonePanics ==
  /\ pc = "fork" /\ started < BranchCount
  /\ pc' = "returned" /\ err' = "clone panicked" /\ cancelled' = TRUE
  /\ UNCHANGED <<started, br, how, first, outer, steps, merged>>

\* The branch's function returns, panics or asks, and exec records its Step.
\* It may notice that its context has ended, or finish as if it had not.
EndBranch(b) ==
  /\ br[b] = "running"
  /\ \E h \in {"ok", "failed", "panicked", "asked"}
              \cup (IF cancelled \/ outer THEN {"cancelled"} ELSE {}) :
       how' = [how EXCEPT ![b] = h]
  /\ br' = [br EXCEPT ![b] = "ended"]
  /\ steps' = steps \cup {b}
  /\ UNCHANGED <<pc, started, first, cancelled, outer, merged, err>>

\* An interrupt inside a parallel node is rejected, not a pause.
ErrorOf(b) == IF how[b] = "asked" THEN "interrupt in parallel" ELSE how[b]

\* Faulty variant: the siblings are cancelled as soon as a branch has failed,
\* before its error takes the lock.
ReportLate(b) ==
  \/ /\ br[b] = "ended" /\ how[b] # "ok" /\ first = Nothing
     /\ cancelled' = TRUE /\ br' = [br EXCEPT ![b] = "reported"] /\ UNCHANGED first
  \/ /\ br[b] = "reported"
     /\ first' = IF first = Nothing THEN ErrorOf(b) ELSE first
     /\ br' = [br EXCEPT ![b] = "joined"] /\ UNCHANGED cancelled
  \/ /\ br[b] = "ended" /\ (how[b] = "ok" \/ first # Nothing)
     /\ br' = [br EXCEPT ![b] = "joined"] /\ UNCHANGED <<first, cancelled>>

\* Under the mutex: the first error is kept and the siblings are cancelled.
Report(b) ==
  /\ br[b] = "ended"
  /\ br' = [br EXCEPT ![b] = "joined"]
  /\ IF how[b] # "ok" /\ first = Nothing
     THEN first' = ErrorOf(b) /\ cancelled' = TRUE
     ELSE UNCHANGED <<first, cancelled>>

BranchReports(b) ==
  /\ Report(b)
  /\ UNCHANGED <<pc, started, how, outer, steps, merged, err>>

\* Faulty variant: the node returns the first error without waiting.
JoinFirst == first # Nothing \/ \A b \in Branches : br[b] = "joined"

\* wg.Wait.
Joined == \A b \in Branches : br[b] = "joined"

Join ==
  /\ pc = "fork" /\ started = BranchCount /\ Joined
  /\ IF first = Nothing THEN pc' = "merge" /\ UNCHANGED <<err, cancelled>>
     ELSE pc' = "returned" /\ err' = first /\ cancelled' = TRUE
  /\ UNCHANGED <<started, br, how, first, outer, steps, merged>>

\* The merge function gets all the results; it may fail, ask or panic.
Merge ==
  /\ pc = "merge"
  /\ merged' = TRUE
  /\ \E e \in {Nothing, "merge failed", "interrupt in parallel"} : err' = e
  /\ pc' = "returned" /\ cancelled' = TRUE
  /\ UNCHANGED <<started, br, how, first, outer, steps>>

\* The run's context, or the node's timeout, ends.
OuterEnds ==
  /\ ~outer /\ pc # "returned" /\ outer' = TRUE
  /\ UNCHANGED <<pc, started, br, how, first, cancelled, steps, merged, err>>

Next ==
  \/ StartBranch \/ ClonePanics \/ Join \/ Merge \/ OuterEnds
  \/ \E b \in Branches : EndBranch(b) \/ BranchReports(b)

Spec == Init /\ [][Next]_vars

-----------------------------------------------------------------------------
(* Properties *)

\* A parallel node is all or nothing (parallelFn, and exec on each branch):
\* when it returns, nothing of it runs any more and every branch is in the
\* report, a panicking clone function apart; it returns no error only if every
\* branch ended well and was merged; the error it returns is one that a branch
\* or the merge ran into, and never the cancellation that another branch's error
\* caused; a question inside it is an error, whoever asked it.
ParallelIsAllOrNothing ==
  /\ pc = "returned" =>
       /\ err = "clone panicked" \/ \A b \in Branches : br[b] = "joined" /\ b \in steps
       /\ err = Nothing => merged
       /\ err \in {"failed", "panicked"} => \E b \in steps : how[b] = err
       /\ err = "cancelled" => outer
       /\ (\E b \in steps : how[b] = "asked") => err # Nothing
  /\ merged => \A b \in Branches : how[b] = "ok"
=============================================================================
