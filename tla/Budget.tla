------------------------------- MODULE Budget -------------------------------
(***************************************************************************)
(* The spend tracker (src/budget/budget.go), used the way its doc shows:   *)
(* workers ask CanSpend before they start a run and Add what it has cost;  *)
(* Add's callbacks run after its lock is released.                         *)
(*                                                                         *)
(* An operator introduced as a "faulty variant" is no part of Next: it is  *)
(* the definition after it with a plausible bug.                           *)
(***************************************************************************)
EXTENDS Integers, FiniteSets, FiniteSetsExt

CONSTANTS
  Workers,
  Sessions,   \* session ids a cost may be attributed to
  NoSession,  \* no session id, ""
  Limit,      \* max; 0 for none
  WarnAt,     \* warnFrac * max; 0 for none
  Estimate,   \* what a worker asks CanSpend for
  Costs,      \* what a run may turn out to cost
  MaxAdds     \* bound: runs of a worker

VARIABLES
  spent, warned,
  perSession, \* what was attributed to each session; 0 where the map has no entry
  worker,    \* a worker: "idle", "running", "adding"
  pending,   \* the callbacks a worker's Add still has to make
  adds,      \* history: number of Adds of a worker
  warnings,  \* history: number of warnings delivered
  exceeded,  \* history: number of Adds that ended over the limit
  told,      \* history: number of times the caller was told so
  other      \* history: what was attributed to no session

vars == <<spent, perSession, warned, worker, pending, adds, warnings, exceeded, told, other>>

Init ==
  /\ spent = 0 /\ perSession = [s \in Sessions |-> 0] /\ other = 0 /\ warned = FALSE
  /\ worker = [w \in Workers |-> "idle"] /\ pending = [w \in Workers |-> {}]
  /\ adds = [w \in Workers |-> 0] /\ warnings = 0 /\ exceeded = 0 /\ told = 0

\* Faulty variant: the estimate is not counted.
CanSpendNow(est) == Limit = 0 \/ spent <= Limit

CanSpend(est) == Limit = 0 \/ spent + est <= Limit

\* The answer is a moment old when the run starts: nothing is reserved.
StartRun(w) ==
  /\ worker[w] = "idle" /\ adds[w] < MaxAdds /\ CanSpend(Estimate)
  /\ worker' = [worker EXCEPT ![w] = "running"]
  /\ UNCHANGED <<spent, perSession, warned, pending, adds, warnings, exceeded, told, other>>

\* Faulty variant: the flag is set by the callback.
CallbacksUnmarked(total) ==
  (IF Limit > 0 /\ WarnAt > 0 /\ warnings = 0 /\ total >= WarnAt THEN {"warn"} ELSE {})
  \cup (IF Limit > 0 /\ total > Limit THEN {"exceed"} ELSE {})

Callbacks(total) ==
  (IF Limit > 0 /\ WarnAt > 0 /\ ~warned /\ total >= WarnAt THEN {"warn"} ELSE {})
  \cup (IF Limit > 0 /\ total > Limit THEN {"exceed"} ELSE {})

\* Under the lock.
Add(w, session, usd) ==
  /\ worker[w] = "running"
  /\ spent' = spent + usd
  /\ IF session = NoSession
     THEN other' = other + usd /\ UNCHANGED perSession
     ELSE perSession' = [perSession EXCEPT ![session] = @ + usd] /\ UNCHANGED other
  /\ pending' = [pending EXCEPT ![w] = Callbacks(spent + usd)]
  /\ warned' = (warned \/ "warn" \in Callbacks(spent + usd))
  /\ worker' = [worker EXCEPT ![w] = "adding"]
  /\ adds' = [adds EXCEPT ![w] = @ + 1]
  /\ exceeded' = IF Limit > 0 /\ spent + usd > Limit THEN exceeded + 1 ELSE exceeded
  /\ UNCHANGED <<warnings, told>>

\* After the lock: the warning first, then the excess; another worker's may come
\* between and before.
OnWarn(w) ==
  /\ worker[w] = "adding" /\ "warn" \in pending[w]
  /\ pending' = [pending EXCEPT ![w] = @ \ {"warn"}] /\ warnings' = warnings + 1
  /\ UNCHANGED <<spent, perSession, warned, worker, adds, exceeded, told, other>>

OnExceed(w) ==
  /\ worker[w] = "adding" /\ pending[w] = {"exceed"}
  /\ pending' = [pending EXCEPT ![w] = {}] /\ told' = told + 1
  /\ UNCHANGED <<spent, perSession, warned, worker, adds, warnings, exceeded, other>>

Added(w) ==
  /\ worker[w] = "adding" /\ pending[w] = {}
  /\ worker' = [worker EXCEPT ![w] = "idle"]
  /\ UNCHANGED <<spent, perSession, warned, pending, adds, warnings, exceeded, told, other>>

Next ==
  \E w \in Workers :
    \/ StartRun(w) \/ OnWarn(w) \/ OnExceed(w) \/ Added(w)
    \/ \E session \in Sessions \cup {NoSession}, usd \in Costs : Add(w, session, usd)

Spec == Init /\ [][Next]_vars

-----------------------------------------------------------------------------
(* Properties *)

\* The caller is warned once and told of every excess, and the overshoot is
\* bounded (Add, CanSpend): no two Adds both warn and no crossing of the warn
\* threshold goes without its warning once the Add that crossed it is through;
\* each Add that ends over the limit is told exactly once; what the sessions and
\* the costs of no session sum to is the total, of amounts that add up exactly
\* (floating point may round); and since nothing is reserved, workers that all
\* passed CanSpend together spend more than the limit, but at most one estimate
\* for each of the other workers.
BudgetIsKept ==
  /\ warnings <= 1
  /\ (\A w \in Workers : worker[w] # "adding") =>
       /\ warnings = 1 <=> Limit > 0 /\ WarnAt > 0 /\ spent >= WarnAt
       /\ told = exceeded
  /\ told <= exceeded
  /\ spent = MapThenSumSet(LAMBDA s : perSession[s], Sessions) + other
  /\ Limit > 0 /\ (\A usd \in Costs : usd <= Estimate) =>
       spent <= Limit + (Cardinality(Workers) - 1) * Estimate
=============================================================================
