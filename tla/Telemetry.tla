----------------------------- MODULE Telemetry -----------------------------
(***************************************************************************)
(* What the runs of one Runnable tell of their executions: the recorder    *)
(* behind Report and StepInfo (src/graph/report.go, exec, loop and Resume  *)
(* of run.go) and the spans of otel's GraphObserver (src/otel/otel.go),    *)
(* which all the runs share.  A run pauses and is resumed from its         *)
(* checkpoint; its branches execute concurrently.                          *)
(*                                                                         *)
(* Top is a plain node, Fan a parallel node with the branches Branches;    *)
(* the routes are any.  Stores and recovery are DurableRun's.              *)
(*                                                                         *)
(* An operator introduced as a "faulty variant" is no part of Next: it is  *)
(* the definition after it with a plausible bug.                           *)
(***************************************************************************)
EXTENDS Naturals, Sequences, FiniteSets, FiniteSetsExt

CONSTANTS
  Runs,       \* the runs of the Runnable
  Branches,   \* the branches of Fan
  MaxSteps,   \* the step budget
  MaxPauses   \* bound: pauses of a run

VARIABLES
  run,       \* run -> where its loop is, with the recorder of its segment
  done,      \* history: run -> its executions, in completion order
  reports,   \* run -> the Report its last segment returned, or NoReport
  open,      \* GraphObserver.open: <<node, step>> -> span
  spans      \* the spans started, in order

vars == <<run, done, reports, open, spans>>

Top == "top"
Fan == "fan"
Nobody == ""
NoReport == <<>>
NoSpan == 0

SumOf(steps) == MapThenSumSet(LAMBDA i : steps[i].cost, DOMAIN steps)
CountOf(path, n) == Cardinality({i \in DOMAIN path : path[i] = n})

\* An execution under way: its span is history, for the properties.
Execution(n, parent, step, attempt, span) ==
  [node |-> n, parent |-> parent, step |-> step, attempt |-> attempt, span |-> span]

Fresh ==
  [pc |-> "ready", step |-> 0, path |-> <<>>, prior |-> <<>>, steps |-> <<>>,
   visits |-> [n \in {Top, Fan} \cup Branches |-> 0], under |-> {}, todo |-> {},
   failed |-> FALSE, pauses |-> 0]

Init ==
  /\ run = [r \in Runs |-> Fresh]
  /\ done = [r \in Runs |-> <<>>]
  /\ reports = [r \in Runs |-> NoReport]
  /\ open = <<>> /\ spans = <<>>

-----------------------------------------------------------------------------
(* GraphObserver *)

OpenSpan(key) == IF key \in DOMAIN open THEN open[key] ELSE NoSpan

\* NodeStart: a branch's span is a child of the one its parallel node has open.
StartSpan(r, n, parent, step) ==
  LET new == Len(spans) + 1
      above == IF parent = Nobody THEN NoSpan ELSE OpenSpan(<<parent, step>>)
  IN /\ open' = [k \in DOMAIN open \cup {<<n, step>>} |->
                   IF k = <<n, step>> THEN new ELSE open[k]]
     /\ spans' = Append(spans, [run |-> r, node |-> n, above |-> above, ended |-> FALSE])

\* Faulty variant: the span of an execution that paused stays open.
EndSpanUnlessPaused(x, outcome) ==
  LET k == <<x.node, x.step>>
  IN IF OpenSpan(k) = NoSpan \/ outcome = "paused" THEN UNCHANGED <<open, spans>>
     ELSE /\ open' = [j \in DOMAIN open \ {k} |-> open[j]]
          /\ spans' = [spans EXCEPT ![open[k]].ended = TRUE]

\* NodeEnd.
EndSpan(x, outcome) ==
  LET k == <<x.node, x.step>>
  IN IF OpenSpan(k) = NoSpan THEN UNCHANGED <<open, spans>>
     ELSE /\ open' = [j \in DOMAIN open \ {k} |-> open[j]]
          /\ spans' = [spans EXCEPT ![open[k]].ended = TRUE]

-----------------------------------------------------------------------------
(* The recorder *)

\* exec, up to the node function: visit counts the execution.
Enter(s, n, parent, step) ==
  [s EXCEPT !.visits[n] = @ + 1,
            !.under = @ \cup {Execution(n, parent, step, s.visits[n] + 1, Len(spans) + 1)}]

\* exec, after it: the step as recorder.add keeps it.
StepOf(x, outcome, cost) ==
  [node |-> x.node, parent |-> x.parent, outcome |-> outcome, cost |-> cost]

\* The history also keeps the number of the step and the attempt it was told.
Leave(r, s, x, outcome, cost) ==
  /\ run' = [run EXCEPT ![r] = [s EXCEPT !.under = @ \ {x},
                                         !.steps = Append(@, StepOf(x, outcome, cost))]]
  /\ done' = [done EXCEPT ![r] = Append(@, [did |-> StepOf(x, outcome, cost),
                                            attempt |-> x.attempt, span |-> x.span])]
  /\ EndSpan(x, outcome)

\* Faulty variant: only the segment's own steps are reported.
ReportOfSegment(s) == [steps |-> s.steps, cost |-> SumOf(s.steps), path |-> s.path]

\* recorder.report.
ReportOf(s) ==
  [steps |-> s.prior \o s.steps, cost |-> SumOf(s.prior \o s.steps), path |-> s.path]

\* Faulty variant: the counts start again in every segment.
SeedNothing(path) == [n \in {Top, Fan} \cup Branches |-> 0]

\* seedVisits.
SeedVisits(path) ==
  [n \in {Top, Fan} \cup Branches |-> CountOf(path, n)]

-----------------------------------------------------------------------------
(* The loop *)

\* One turn begins: a top-level node starts.
Step(r, n) ==
  LET s == run[r]
  IN /\ s.pc = "ready" /\ s.step < MaxSteps
     /\ run' = [run EXCEPT ![r] =
          Enter([s EXCEPT !.step = @ + 1, !.path = Append(@, n), !.pc = n, !.failed = FALSE,
                          !.todo = IF n = Fan THEN Branches ELSE {}], n, Nobody, s.step + 1)]
     /\ StartSpan(r, n, Nobody, s.step + 1)
     /\ UNCHANGED <<done, reports>>

Own(r, n) == CHOOSE x \in run[r].under : x.node = n

\* The plain node returns, with the cost AddCost gave it.
TopEnds(r, outcome, cost) ==
  LET s == run[r]
  IN /\ s.pc = Top
     /\ outcome = "paused" => s.pauses < MaxPauses
     /\ Leave(r, [s EXCEPT !.pc = IF outcome = "ok" THEN "ready" ELSE outcome],
              Own(r, Top), outcome, cost)
     /\ UNCHANGED reports

\* parallelFn starts every branch, whatever the others do.
BranchStarts(r, b) ==
  LET s == run[r]
  IN /\ s.pc = Fan /\ b \in s.todo
     /\ run' = [run EXCEPT ![r] = Enter([s EXCEPT !.todo = @ \ {b}], b, Fan, s.step)]
     /\ StartSpan(r, b, Fan, s.step)
     /\ UNCHANGED <<done, reports>>

\* A branch that interrupts fails: it cannot pause.
BranchEnds(r, b, outcome, cost) ==
  LET s == run[r]
  IN /\ s.pc = Fan /\ \E x \in s.under : x.node = b
     /\ Leave(r, [s EXCEPT !.failed = @ \/ outcome = "failed"], Own(r, b), outcome, cost)
     /\ UNCHANGED reports

\* Faulty variant: the parallel node's step has the cost of its branches too.
FanCostAll(s) == SumOf(SelectSeq(s.steps, LAMBDA t : t.parent = Fan))

\* The branches' costs went to their own steps.
FanCost(s) == 0

\* The parallel node returns once all have: with the first failure, or with merge's.
FanEnds(r) ==
  LET s == run[r]
  IN /\ s.pc = Fan /\ s.todo = {} /\ \A x \in s.under : x.node = Fan
     /\ \E outcome \in IF s.failed THEN {"failed"} ELSE {"ok", "failed"} :
          Leave(r, [s EXCEPT !.pc = IF outcome = "ok" THEN "ready" ELSE outcome],
                Own(r, Fan), outcome, FanCost(s))
     /\ UNCHANGED reports

\* The segment returns: at End, at the budget, on a cancelled context or an error.
Return(r) ==
  LET s == run[r]
  IN /\ s.pc \in {"ready", "failed", "paused"}
     /\ run' = [run EXCEPT ![r] =
          IF s.pc = "paused" THEN [s EXCEPT !.pc = "asks"] ELSE [s EXCEPT !.pc = "over"]]
     /\ reports' = [reports EXCEPT ![r] = ReportOf(s)]
     /\ UNCHANGED <<done, open, spans>>

\* Resume with the checkpoint: the step number is taken again.
Resume(r) ==
  LET s == run[r]
  IN /\ s.pc = "asks"
     /\ run' = [run EXCEPT ![r] =
          Enter([Fresh EXCEPT !.pc = Top, !.step = s.step, !.path = Append(s.path, Top),
                              !.prior = reports[r].steps, !.visits = SeedVisits(s.path),
                              !.pauses = s.pauses + 1], Top, Nobody, s.step)]
     /\ StartSpan(r, Top, Nobody, s.step)
     /\ UNCHANGED <<done, reports>>

Next ==
  \E r \in Runs :
    \/ \E n \in {Top, Fan} : Step(r, n)
    \/ \E outcome \in {"ok", "failed", "paused"}, cost \in {0, 1} : TopEnds(r, outcome, cost)
    \/ \E b \in Branches :
         \/ BranchStarts(r, b)
         \/ \E outcome \in {"ok", "failed"} : BranchEnds(r, b, outcome, 1)
    \/ FanEnds(r) \/ Return(r) \/ Resume(r)

Spec == Init /\ [][Next]_vars

-----------------------------------------------------------------------------
(* Properties *)

Did(r) == [i \in 1..Len(done[r]) |-> done[r][i].did]
TopLevel(r) == {i \in DOMAIN Did(r) : Did(r)[i].parent = Nobody}

\* Where the segment of the i-th execution begins.
AfterPause(steps, i) == 1 + Max({0} \cup {j \in 1..i : steps[j].outcome = "paused"})

\* How many of the executions between two were of a node.
Between(steps, first, last, n) == Cardinality({j \in first..last : steps[j].node = n})

\* The Report of the last segment is the whole run's (Report, Resume): every execution
\* of every segment once, in completion order, branches before their parallel node,
\* each cost counted once, and the path the top-level executions.  Every execution was
\* told how many there had been of its node, a branch those since the last Resume only
\* (report.go:56-57 says: in the run).
ReportIsCumulative ==
  \A r \in Runs :
    /\ run[r].pc \in {"asks", "over"} =>
         /\ reports[r].steps = Did(r)
         /\ reports[r].cost = MapThenSumSet(LAMBDA i : Did(r)[i].cost,
                                            {i \in DOMAIN Did(r) : Did(r)[i].node # Fan})
         /\ Len(reports[r].path) = Cardinality(TopLevel(r))
         /\ \A i \in TopLevel(r) :
              reports[r].path[Cardinality({j \in TopLevel(r) : j <= i})] = Did(r)[i].node
    /\ \A i \in DOMAIN Did(r) : Did(r)[i].parent = Fan =>
         \/ run[r].pc = Fan
         \/ \E j \in i + 1 .. Len(Did(r)) : Did(r)[j].node = Fan
    /\ \A i \in DOMAIN Did(r) :
         LET since == IF Did(r)[i].parent = Nobody THEN 1 ELSE AfterPause(Did(r), i)
         IN done[r][i].attempt = Between(Did(r), since, i, Did(r)[i].node)

\* "node executions become spans" (otel.go:70): a span is of one execution, is ended
\* when that is over, and a branch's is a child of its own run's parallel node
\* (NodeStart, NodeEnd).  It holds for one run at a time: two concurrent runs take
\* each other's keys.
SpansAreExecutions ==
  \A r \in Runs :
    /\ \A i \in DOMAIN done[r] : spans[done[r][i].span].ended
    /\ \A x \in run[r].under :
         /\ ~spans[x.span].ended
         /\ x.parent = Fan => spans[x.span].above = Own(r, Fan).span
=============================================================================
