----------------------------- MODULE Evaluation -----------------------------
(***************************************************************************)
(* Evaluate (src/eval/evaluate.go): the cases of a set run concurrently,   *)
(* each several times in a row, the runs are scored and the scores         *)
(* aggregated into the case's verdict; the caller may cancel.              *)
(*                                                                         *)
(* A scored run is [value, verdict, used]: the value of a metric that      *)
(* passes by a threshold, a judge that passes by its own verdict, and what *)
(* the run used, which stands for every metric of Metrics.  One unit of    *)
(* value is what rounding may put a mean of floating point numbers off by. *)
(* A pass rate is <<passes, runs, over>>: it is asked for as passes/runs   *)
(* and "over" halves of 1e-9.                                              *)
(*                                                                         *)
(* An operator introduced as a "faulty variant" is no part of Next: it is  *)
(* the definition after it with a plausible bug.                           *)
(***************************************************************************)
EXTENDS Integers, Sequences, SequencesExt, FiniteSets

CONSTANTS
  Configs,     \* callers' choices: [cases, repeats, parallel, rate]
  RunResults,  \* what a scored run may be
  Partial,     \* what a failed run may have used
  Passing      \* the threshold of the value

VARIABLES
  config,    \* the number of cases, WithRepeats, WithParallelism, and PassRate, or
             \* Criteria.MinPassRate if that is not positive
  main,      \* Evaluate: "loop", "wait", "returned"
  next,      \* the next case to start
  case,      \* a case: "idle", "running", "done"
  runs,      \* the scored runs of a case
  kept,      \* CaseResult.Runs: what each run of a case used
  reached,   \* the mean of a case's values came out at the threshold or above
  failed,    \* CaseResult.Err
  stopped,   \* the context is cancelled
  report     \* the cases in the report

vars == <<config, main, next, case, runs, kept, reached, failed, stopped, report>>

Cases == 1..config.cases
Holding == {c \in Cases : case[c] = "running"}     \* the semaphore

Init ==
  /\ config \in Configs /\ main = "loop" /\ next = 1
  /\ case = [c \in Cases |-> "idle"] /\ runs = [c \in Cases |-> <<>>]
  /\ kept = [c \in Cases |-> <<>>] /\ reached = [c \in Cases |-> FALSE]
  /\ failed = [c \in Cases |-> FALSE] /\ stopped = FALSE /\ report = <<>>

\* The semaphore is taken, even if the context is cancelled as well: select
\* chooses among what is ready.
StartCase ==
  /\ main = "loop" /\ next <= config.cases /\ Cardinality(Holding) < config.parallel
  /\ case' = [case EXCEPT ![next] = "running"] /\ next' = next + 1
  /\ UNCHANGED <<config, main, runs, kept, reached, failed, stopped, report>>

LoopEnds ==
  /\ main = "loop" /\ (next > config.cases \/ stopped)
  /\ main' = "wait"
  /\ UNCHANGED <<config, next, case, runs, kept, reached, failed, stopped, report>>

Total(rs) == FoldLeft(LAMBDA sum, r : sum + r.value, 0, rs)

\* The mean is so close to the threshold that rounding decides.  Of two runs on
\* the same side of it the mean is there as well.
Close(rs) ==
  /\ Total(rs) - Passing * Len(rs) \in -Len(rs)..Len(rs)
  /\ \/ Len(rs) > 2
     \/ \E i, j \in DOMAIN rs : rs[i].value < Passing /\ rs[j].value >= Passing

\* s.Value /= count; s.Value >= s.Threshold
MeanReaches(rs) ==
  IF Close(rs) THEN BOOLEAN ELSE {Total(rs) >= Passing * Len(rs)}

\* Faulty variant: a run is kept once it is scored.
KeepIfScored(c, used, ok) ==
  kept' = IF ok THEN [kept EXCEPT ![c] = Append(@, used)] ELSE kept

\* The run is kept, also if the agent or a judge fails.
Keep(c, used, ok) == kept' = [kept EXCEPT ![c] = Append(@, used)]

\* evalCase: one run of the agent, scored.  The agent or a judge may fail, and
\* the case ends there; after the last run the scores are aggregated.
RunCase(c) ==
  /\ case[c] = "running"
  /\ \/ \E r \in RunResults :
          /\ runs' = [runs EXCEPT ![c] = Append(@, r)] /\ Keep(c, r.used, TRUE)
          /\ IF Len(runs'[c]) = config.repeats
             THEN /\ case' = [case EXCEPT ![c] = "done"]
                  /\ \E b \in MeanReaches(runs'[c]) : reached' = [reached EXCEPT ![c] = b]
             ELSE UNCHANGED <<case, reached>>
          /\ UNCHANGED failed
     \/ /\ \E used \in Partial : Keep(c, used, FALSE)
        /\ failed' = [failed EXCEPT ![c] = TRUE]
        /\ case' = [case EXCEPT ![c] = "done"]
        /\ UNCHANGED <<runs, reached>>
  /\ UNCHANGED <<config, main, next, stopped, report>>

Cancel ==
  /\ ~stopped /\ main # "returned" /\ stopped' = TRUE
  /\ UNCHANGED <<config, main, next, case, runs, kept, reached, failed, report>>

\* Faulty variant: a cancelled evaluation does not wait for what still runs.
JoinedIfNotStopped == stopped \/ Holding = {}

\* wg.Wait.
Joined == Holding = {}

\* The report of a cancelled evaluation holds the cases that finished.
Return ==
  /\ main = "wait" /\ Joined
  /\ main' = "returned"
  /\ report' = SelectSeq([c \in Cases |-> c],
                         LAMBDA c : stopped => case[c] = "done")
  /\ UNCHANGED <<config, next, case, runs, kept, reached, failed, stopped>>

Next ==
  \/ StartCase \/ LoopEnds \/ Cancel \/ Return
  \/ \E c \in Cases : RunCase(c)

Spec == Init /\ [][Next]_vars

-----------------------------------------------------------------------------
(* The verdict on a case *)

RunPass(r) == r.value >= Passing /\ r.verdict

Passes(c) == Cardinality({i \in DOMAIN runs[c] : RunPass(runs[c][i])})

\* Faulty variant: the last run's verdict is the judge's.
AggregateLast(c) == reached[c] /\ runs[c][Len(runs[c])].verdict

\* aggregate: the mean reaches the threshold; no run fails the judge's verdict.
Aggregate(c) == reached[c] /\ \A i \in DOMAIN runs[c] : runs[c][i].verdict

\* res.PassRate >= minRate-1e-9
MeetsRate(c) ==
  LET more == Passes(c) * config.rate[2] - Len(runs[c]) * config.rate[1]
  IN  more > 0 \/ (more = 0 /\ config.rate[3] <= 2)

\* Faulty variant: a case that failed in a later run passes on the earlier ones.
CasePassErrored(c) == runs[c] # <<>> /\ Aggregate(c)

\* CaseResult.Pass.
CasePass(c) ==
  /\ ~failed[c]
  /\ IF config.rate[1] > 0 THEN MeetsRate(c) ELSE Aggregate(c)

\* meanMetrics, of the runs kept; Go's / of integers.
MeanUsed(c) == FoldLeft(LAMBDA sum, used : sum + used, 0, kept[c]) \div Len(kept[c])

\* PassAtK as a fraction: 1 if fewer than k runs failed, else one minus the
\* product of 1 - k/i over the last Passes(c) of 1..n.
\* Faulty variant: the product starts one late.
PassAtKLate(c, k) ==
  LET n == Len(runs[c])
      P[i \in 0..n] == IF i <= n - Passes(c) + 1 THEN <<1, 1>>
                       ELSE <<P[i - 1][1] * (i - k), P[i - 1][2] * i>>
  IN  <<P[n][2] - P[n][1], P[n][2]>>

PassAtK(c, k) ==
  LET n == Len(runs[c])
      P[i \in 0..n] == IF i <= n - Passes(c) THEN <<1, 1>>
                       ELSE <<P[i - 1][1] * (i - k), P[i - 1][2] * i>>
  IN  IF n - Passes(c) < k THEN <<1, 1>> ELSE <<P[n][2] - P[n][1], P[n][2]>>

-----------------------------------------------------------------------------
(* Properties *)

\* An evaluation reports what ran, and judges it consistently (Evaluate,
\* evalCase, aggregate, PassAtK): at most WithParallelism cases run at once and
\* none does when Evaluate returns; the report holds every case that was started,
\* in the order of the set, and all of them unless cancelled; each holds all its
\* runs, the one it failed in too, and the mean of what they used lies between
\* the least and the most.  An errored case never passes; a case all of whose
\* runs pass does, and one that passes has for each metric a run that passes it,
\* but for a mean of three runs or more that rounding decides; under a pass rate
\* one more passing run never turns a pass into a failure; pass@k is the share of
\* the choices of k runs with a passing one among them.
EvaluationIsSound ==
  /\ Cardinality(Holding) <= config.parallel
  /\ main = "returned" =>
       /\ Holding = {}
       /\ report = SelectSeq([c \in Cases |-> c], LAMBDA c : c < next)
       /\ ~stopped => Len(report) = config.cases
       /\ \A i \in DOMAIN report :
            LET c == report[i]
                n == config.repeats
                rated == config.rate[1] > 0
                decided == rated \/ n <= 2 \/ ~Close(runs[c])
            IN
            /\ Len(kept[c]) = IF failed[c] THEN Len(runs[c]) + 1 ELSE n
            /\ \E a, b \in ToSet(kept[c]) : a <= MeanUsed(c) /\ MeanUsed(c) <= b
            /\ failed[c] => ~CasePass(c)
            /\ ~failed[c] =>
                 /\ Passes(c) = n /\ decided => CasePass(c)
                 /\ CasePass(c) =>
                      /\ decided => \E j \in 1..n : runs[c][j].value >= Passing
                      /\ ~rated => \A j \in 1..n : runs[c][j].verdict
                 /\ rated => \A d \in ToSet(report) :
                      ~failed[d] /\ CasePass(c) /\ Passes(d) >= Passes(c) => CasePass(d)
                 /\ \A k \in 1..n :
                      LET Ks == {K \in SUBSET (1..n) : Cardinality(K) = k}
                          hit == {K \in Ks : \E j \in K : RunPass(runs[c][j])}
                      IN  PassAtK(c, k)[1] * Cardinality(Ks)
                            = PassAtK(c, k)[2] * Cardinality(hit)
=============================================================================
