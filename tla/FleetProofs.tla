---------------------------- MODULE FleetProofs ----------------------------
(***************************************************************************)
(* Proofs about Fleet, for every number of workers and every batch: each   *)
(* task is reported once and after its dependencies, none is skipped       *)
(* without a reason, and the cap is passed by one wave at most.            *)
(***************************************************************************)
EXTENDS Fleet, FiniteSetTheorems, TLAPS

(***************************************************************************)
(* The inductive invariant                                                 *)
(***************************************************************************)
Flying == {w \in Workers : pc[w] \in InFlight}

\* The workers that are past the cap's check and have not recorded a cost since.
Committed == {w \in Workers : pc[w] \in {"claim", "waiting", "run", "emit"}}

\* The workers in flight whose result is not recorded yet, and the others.
Unheard == {w \in Workers : pc[w] \in {"run", "emit"}}
Emitted == {w \in Workers : pc[w] \in {"tell", "complete"}}

Counted == running = Cardinality(Flying)

\* What is spent, and what those that are committed may still spend.
WithinWave ==
  cap > 0 =>
    spent + Cardinality(Committed) * MaxCost <= cap - 1 + Cardinality(Workers) * MaxCost

\* A task in flight is one worker's, was ready, and is neither queued nor done.
Claimed ==
  /\ \A w \in Flying :
       /\ task[w] \in Tasks /\ task[w] \notin pending /\ task[w] \notin succeed
       /\ deps[task[w]] \subseteq succeed
  /\ \A v, w \in Flying : task[v] = task[w] => v = w
  /\ succeed \cap pending = {}

\* The results are those of the tasks that are done, of the tasks in flight whose
\* workers have emitted, and, when all have left, of the skipped ones.
Results ==
  /\ \A i, j \in DOMAIN results : results[i].task = results[j].task => i = j
  /\ \A i \in DOMAIN results : results[i].skipped <=> results[i].task \in pending
  /\ (\E i \in DOMAIN results : results[i].skipped) => AllExited
  /\ \A i \in DOMAIN results : results[i].ok =>
       \/ results[i].task \in succeed
       \/ \E w \in Emitted : task[w] = results[i].task /\ outcome[w].ok
  /\ \A w \in Unheard : \A i \in DOMAIN results : results[i].task # task[w]
  /\ \A w \in Emitted :
       \E i \in DOMAIN results : results[i].task = task[w] /\ results[i].ok = outcome[w].ok
  /\ \A t \in succeed : \E i \in DOMAIN results : results[i].task = t /\ results[i].ok
  /\ \A t \in Tasks \ pending :
       \/ \E i \in DOMAIN results : results[i].task = t
       \/ \E w \in Unheard : task[w] = t

\* OnResult is called after the result is recorded and before the task is done.
Told ==
  /\ \A n \in DOMAIN told : \E i \in DOMAIN results : results[i].task = told[n]
  /\ \A w \in Workers : pc[w] = "complete" => \E n \in DOMAIN told : told[n] = task[w]
  /\ \A t \in succeed : \E n \in DOMAIN told : told[n] = t

\* A worker that has left for another reason than the cap or a cancellation left
\* nothing that anybody could still claim.
Quit ==
  (\E w \in Workers : pc[w] = "exit") /\ ~cancelled /\ ~CapReached =>
    pending = {} \/ (running = 0 /\ \A t \in pending : ~Ready(t))

Over == returned => AllExited /\ pending \subseteq Reported

IInv ==
  /\ TypeOK /\ Counted /\ WithinWave /\ Claimed
  /\ Results /\ Told /\ DependenciesFirst /\ Quit /\ Over

-----------------------------------------------------------------------------
(***************************************************************************)
(* How a step changes who is in flight and who is committed                *)
(***************************************************************************)
LEMMA WorkersAreFinite ==
  \A S \in SUBSET Workers :
    /\ IsFiniteSet(S) /\ Cardinality(S) \in Nat
    /\ Cardinality(S) <= Cardinality(Workers)
  BY FS_Subset, FS_CardinalityType, FleetAssumption

LEMMA OneMore ==
  ASSUME NEW S \in SUBSET Workers, NEW w \in Workers, w \notin S
  PROVE  Cardinality(S \cup {w}) = Cardinality(S) + 1
  BY WorkersAreFinite, FS_AddElement

LEMMA OneLess ==
  ASSUME NEW S \in SUBSET Workers, NEW w \in S
  PROVE  Cardinality(S \ {w}) = Cardinality(S) - 1
  BY WorkersAreFinite, FS_RemoveElement

LEMMA FlyingAtClaim ==
  ASSUME TypeOK, NEW w \in Workers, NEW t \in Tasks, ClaimTask(w, t)
  PROVE  Flying' = Flying \cup {w} /\ w \notin Flying
  BY DEF TypeOK, ClaimTask, Goto, Flying, InFlight

LEMMA FlyingAtComplete ==
  ASSUME TypeOK, NEW w \in Workers, Complete(w)
  PROVE  Flying' = Flying \ {w} /\ w \in Flying
  BY DEF TypeOK, Complete, Completed, Broadcast, Flying, InFlight

LEMMA FlyingElse ==
  ASSUME TypeOK,
         \/ \E w \in Workers :
              \/ CheckContext(w) \/ CheckCap(w) \/ ClaimNothing(w) \/ ClaimWaits(w)
              \/ RunTask(w) \/ Emit(w) \/ Tell(w)
         \/ Finish \/ Cancel \/ UNCHANGED vars
  PROVE  Flying' = Flying /\ UNCHANGED queue
<1>1. ASSUME NEW w \in Workers, CheckContext(w) \/ CheckCap(w)
      PROVE  Flying' = Flying /\ UNCHANGED queue
  BY <1>1 DEF TypeOK, CheckContext, CheckCap, Goto, Flying, InFlight
<1>2. ASSUME NEW w \in Workers, ClaimNothing(w) \/ ClaimWaits(w)
      PROVE  Flying' = Flying /\ UNCHANGED queue
  BY <1>2 DEF TypeOK, ClaimNothing, ClaimWaits, NothingReady, Broadcast, Goto, Flying,
              InFlight
<1>3. ASSUME NEW w \in Workers, RunTask(w) \/ Emit(w) \/ Tell(w)
      PROVE  Flying' = Flying /\ UNCHANGED queue
  BY <1>3 DEF TypeOK, RunTask, Emit, Tell, Goto, Flying, InFlight
<1>4. CASE Finish \/ Cancel \/ UNCHANGED vars
  BY <1>4 DEF Finish, Skip, Return, Cancel, vars, queue, Flying
<1> QED BY <1>1, <1>2, <1>3, <1>4

LEMMA CountedStep ==
  ASSUME TypeOK, Counted, [Next]_vars
  PROVE  Counted'
<1>1. Flying \in SUBSET Workers
  BY DEF Flying
<1>2. ASSUME NEW w \in Workers, NEW t \in Tasks, ClaimTask(w, t)
      PROVE  Counted'
  <2>1. Flying' = Flying \cup {w} /\ w \notin Flying
    BY <1>2, FlyingAtClaim
  <2>2. running' = running + 1
    BY <1>2 DEF ClaimTask
  <2> QED BY <1>1, <2>1, <2>2, OneMore DEF Counted
<1>3. ASSUME NEW w \in Workers, Complete(w)
      PROVE  Counted'
  <2>1. Flying' = Flying \ {w} /\ w \in Flying
    BY <1>3, FlyingAtComplete
  <2>2. running' = running - 1
    BY <1>3 DEF Complete, Completed
  <2> QED BY <1>1, <2>1, <2>2, OneLess DEF Counted
<1>4. ASSUME Flying' = Flying, UNCHANGED queue
      PROVE  Counted'
  BY <1>4 DEF Counted, queue
<1> QED BY <1>2, <1>3, <1>4, FlyingElse DEF Next, Work

-----------------------------------------------------------------------------
(***************************************************************************)
(* The cap: a worker that passes the check pays for itself out of the      *)
(* bound, and gives back what it did not spend when it records its cost.   *)
(***************************************************************************)
LEMMA Worth ==
  ASSUME NEW m \in Nat, NEW n \in Nat, m <= n
  PROVE  m * MaxCost \in Nat /\ m * MaxCost <= n * MaxCost
BY FleetAssumption

LEMMA WorthOfOneLess ==
  ASSUME NEW n \in Nat
  PROVE  n * MaxCost \in Nat /\ (n - 1) * MaxCost = n * MaxCost - MaxCost
BY FleetAssumption

LEMMA WaveOfFewer ==
  ASSUME TypeOK, WithinWave, UNCHANGED <<cap, spent>>, Committed' \subseteq Committed
  PROVE  WithinWave'
<1>1. Committed \in SUBSET Workers /\ Committed' \in SUBSET Workers
  BY DEF Committed
<1>2. Cardinality(Committed') <= Cardinality(Committed)
  BY <1>1, WorkersAreFinite, FS_Subset
<1>3. Cardinality(Committed) \in Nat /\ Cardinality(Committed') \in Nat
  BY <1>1, WorkersAreFinite
<1>4. /\ Cardinality(Committed) * MaxCost \in Nat
      /\ Cardinality(Committed') * MaxCost \in Nat
      /\ Cardinality(Committed') * MaxCost <= Cardinality(Committed) * MaxCost
  BY <1>2, <1>3, Worth
<1>5. cap \in Nat /\ spent \in Nat
  BY FleetAssumption DEF TypeOK
<1>6. Cardinality(Workers) * MaxCost \in Nat
  BY WorkersAreFinite, Worth
<1>7. WithinWave' <=>
        (cap > 0 => spent + Cardinality(Committed') * MaxCost
                      <= cap - 1 + Cardinality(Workers) * MaxCost)
  BY DEF WithinWave
<1> QED BY <1>4, <1>5, <1>6, <1>7 DEF WithinWave

LEMMA WaveOfCheck ==
  ASSUME TypeOK, WithinWave, NEW w \in Workers, CheckCap(w)
  PROVE  WithinWave'
<1>1. Committed' \in SUBSET Workers
  BY DEF Committed
<1>2. CASE CapReached
  <2>1. Committed' \subseteq Committed /\ UNCHANGED <<cap, spent>>
    BY <1>2 DEF TypeOK, CheckCap, Goto, Committed, report
  <2> QED BY <2>1, WaveOfFewer
<1>3. CASE ~CapReached
  <2>1. UNCHANGED <<cap, spent>>
    BY DEF CheckCap, report
  <2>2. cap > 0 => spent <= cap - 1
    BY <1>3, FleetAssumption DEF CapReached, TypeOK
  <2>3. Cardinality(Committed') * MaxCost <= Cardinality(Workers) * MaxCost
    BY <1>1, WorkersAreFinite, Worth
  <2>4. cap \in Nat /\ spent \in Nat
    BY FleetAssumption DEF TypeOK
  <2>5. Cardinality(Workers) * MaxCost \in Nat /\ Cardinality(Committed') * MaxCost \in Nat
    BY <1>1, WorkersAreFinite, Worth
  <2>6. WithinWave' <=>
          (cap > 0 => spent + Cardinality(Committed') * MaxCost
                        <= cap - 1 + Cardinality(Workers) * MaxCost)
    BY <2>1 DEF WithinWave
  <2> QED BY <2>2, <2>3, <2>4, <2>5, <2>6
<1> QED BY <1>2, <1>3

LEMMA WaveOfEmit ==
  ASSUME TypeOK, WithinWave, NEW w \in Workers, Emit(w)
  PROVE  WithinWave'
<1>1. Committed' = Committed \ {w} /\ w \in Committed /\ Committed \in SUBSET Workers
  BY DEF TypeOK, Emit, Goto, Committed
<1>2. cap' = cap /\ spent' = spent + outcome[w].cost
  BY DEF Emit, Record
<1>3. outcome[w].cost \in Nat /\ outcome[w].cost <= MaxCost /\ MaxCost \in Nat
  BY FleetAssumption DEF TypeOK, Outcomes
<1>4. Cardinality(Committed') = Cardinality(Committed) - 1
  BY <1>1, OneLess
<1>5. Cardinality(Committed) \in Nat
  BY <1>1, WorkersAreFinite
<1>6. /\ Cardinality(Committed) * MaxCost \in Nat
      /\ Cardinality(Committed') * MaxCost = Cardinality(Committed) * MaxCost - MaxCost
  BY <1>4, <1>5, WorthOfOneLess
<1>7. cap \in Nat /\ spent \in Nat
  BY FleetAssumption DEF TypeOK
<1>8. Cardinality(Workers) * MaxCost \in Nat
  BY WorkersAreFinite, Worth
<1>9. WithinWave' <=>
        (cap > 0 => spent + outcome[w].cost + Cardinality(Committed') * MaxCost
                      <= cap - 1 + Cardinality(Workers) * MaxCost)
  BY <1>2 DEF WithinWave
<1> QED BY <1>3, <1>6, <1>7, <1>8, <1>9 DEF WithinWave

LEMMA WaveStep ==
  ASSUME TypeOK, WithinWave, [Next]_vars
  PROVE  WithinWave'
<1>1. ASSUME NEW w \in Workers, CheckContext(w) \/ RunTask(w) \/ Tell(w) \/ Complete(w)
      PROVE  WithinWave'
  <2>1. Committed' \subseteq Committed /\ UNCHANGED <<cap, spent>>
    BY <1>1 DEF TypeOK, CheckContext, RunTask, Tell, Complete, Completed, Broadcast,
                Goto, Committed, report
  <2> QED BY <2>1, WaveOfFewer
<1>2. ASSUME NEW w \in Workers,
             (\E t \in Tasks : ClaimTask(w, t)) \/ ClaimNothing(w) \/ ClaimWaits(w)
      PROVE  WithinWave'
  <2>1. Committed' \subseteq Committed /\ UNCHANGED <<cap, spent>>
    BY <1>2 DEF TypeOK, ClaimTask, ClaimNothing, ClaimWaits, NothingReady, Broadcast,
                Goto, Committed, report
  <2> QED BY <2>1, WaveOfFewer
<1>3. CASE Finish \/ Cancel \/ UNCHANGED vars
  <2>1. spent' = spent
    <3>1. ASSUME NEW t \in Tasks, Skip(t)  PROVE spent' = spent
      <4>1. spent' = spent + 0
        BY <3>1 DEF Skip, Record
      <4> QED BY <4>1 DEF TypeOK
    <3> QED BY <1>3, <3>1 DEF Finish, Return, Cancel, report, vars
  <2>2. Committed' \subseteq Committed /\ cap' = cap
    BY <1>3 DEF Finish, Skip, Return, Cancel, Committed, vars
  <2> QED BY <2>1, <2>2, WaveOfFewer
<1> QED BY <1>1, <1>2, <1>3, WaveOfCheck, WaveOfEmit DEF Next, Work

-----------------------------------------------------------------------------
(***************************************************************************)
(* Types, and who has claimed what                                         *)
(***************************************************************************)
LEMMA TypeStep ==
  ASSUME TypeOK, Counted', Claimed, [Next]_vars
  PROVE  TypeOK'
<1>1. running' \in 0..Cardinality(Workers)
  <2>1. Flying' \in SUBSET Workers
    BY DEF Flying
  <2> QED BY <2>1, WorkersAreFinite DEF Counted
<1>2. ASSUME NEW w \in Workers, CheckContext(w) \/ CheckCap(w)
      PROVE  TypeOK'
  BY <1>1, <1>2 DEF TypeOK, CheckContext, CheckCap, Goto, Places, InFlight, queue, report
<1>3. ASSUME NEW w \in Workers, NEW t \in Tasks, ClaimTask(w, t)
      PROVE  TypeOK'
  BY <1>1, <1>3 DEF TypeOK, ClaimTask, Goto, Places, InFlight, report
<1>4. ASSUME NEW w \in Workers, ClaimNothing(w) \/ ClaimWaits(w)
      PROVE  TypeOK'
  BY <1>1, <1>4 DEF TypeOK, ClaimNothing, ClaimWaits, NothingReady, Broadcast, Goto,
                    Places, InFlight, queue, report
<1>5. ASSUME NEW w \in Workers, RunTask(w)
      PROVE  TypeOK'
  BY <1>1, <1>5 DEF TypeOK, RunTask, Goto, Places, InFlight, queue, report
<1>6. ASSUME NEW w \in Workers, Emit(w)
      PROVE  TypeOK'
  <2>1. task[w] \in Tasks
    BY <1>6 DEF Emit, Claimed, Flying, InFlight
  <2> DEFINE r == [task |-> task[w], cost |-> outcome[w].cost, ok |-> outcome[w].ok,
                   skipped |-> FALSE]
  <2>2. r \in TaskResults /\ r.cost \in Nat
    BY <2>1, FleetAssumption DEF TypeOK, Outcomes, TaskResults
  <2>3. spent' = spent + r.cost /\ results' = Append(results, r)
    BY <1>6 DEF Emit, Record
  <2>4. spent' \in Nat /\ results' \in Seq(TaskResults)
    BY <2>2, <2>3 DEF TypeOK
  <2> QED BY <1>1, <1>6, <2>4 DEF TypeOK, Emit, Goto, Places, InFlight, queue
<1>7. ASSUME NEW w \in Workers, Tell(w)
      PROVE  TypeOK'
  <2>1. task[w] \in Tasks
    BY <1>7 DEF Tell, Claimed, Flying, InFlight
  <2>2. told' \in Seq(Tasks)
    BY <1>7, <2>1 DEF Tell, TypeOK
  <2> QED BY <1>1, <1>7, <2>2 DEF TypeOK, Tell, Goto, Places, InFlight, queue, report
<1>8. ASSUME NEW w \in Workers, Complete(w)
      PROVE  TypeOK'
  <2>1. task[w] \in Tasks
    BY <1>8 DEF Complete, Completed, Claimed, Flying, InFlight
  <2>2. NoOutcome \in Outcomes
    BY FleetAssumption DEF NoOutcome, Outcomes
  <2> QED BY <1>1, <1>8, <2>1, <2>2 DEF TypeOK, Complete, Completed, Broadcast, Places,
                                       InFlight, report
<1>9. ASSUME NEW t \in Tasks, Skip(t)
      PROVE  TypeOK'
  <2> DEFINE r == [task |-> t, cost |-> 0, ok |-> FALSE, skipped |-> TRUE]
  <2>1. r \in TaskResults /\ r.cost = 0
    BY FleetAssumption DEF TaskResults
  <2>2. spent' = spent + r.cost /\ results' = Append(results, r)
    BY <1>9 DEF Skip, Record
  <2>3. spent' \in Nat /\ results' \in Seq(TaskResults) /\ told' \in Seq(Tasks)
    BY <1>9, <2>1, <2>2 DEF TypeOK, Skip
  <2> QED BY <1>1, <1>9, <2>3 DEF TypeOK, Skip, queue
<1>10. CASE Return \/ Cancel \/ UNCHANGED vars
  BY <1>1, <1>10 DEF TypeOK, Return, Cancel, vars, queue, report
<1> QED BY <1>2, <1>3, <1>4, <1>5, <1>6, <1>7, <1>8, <1>9, <1>10 DEF Next, Work, Finish

LEMMA ClaimedStep ==
  ASSUME TypeOK, Claimed, [Next]_vars
  PROVE  Claimed'
<1>1. ASSUME NEW w \in Workers, NEW t \in Tasks, ClaimTask(w, t)
      PROVE  Claimed'
  <2>1. Flying' = Flying \cup {w} /\ w \notin Flying
    BY <1>1, FlyingAtClaim
  <2>2. \A v \in Flying : task'[v] = task[v] /\ task[v] # t
    BY <1>1, <2>1 DEF ClaimTask, TypeOK, Claimed, Flying
  <2>3. task'[w] = t /\ t \in Tasks /\ t \notin pending' /\ t \notin succeed
    BY <1>1 DEF ClaimTask, TypeOK, Claimed
  <2>4. /\ deps'[t] \subseteq succeed' /\ deps' = deps /\ succeed' = succeed
        /\ pending' \subseteq pending
    BY <1>1 DEF ClaimTask, Ready
  <2> QED BY <2>1, <2>2, <2>3, <2>4 DEF Claimed
<1>2. ASSUME NEW w \in Workers, Complete(w)
      PROVE  Claimed'
  <2>1. Flying' = Flying \ {w} /\ w \in Flying
    BY <1>2, FlyingAtComplete
  <2>2. /\ succeed \subseteq succeed' /\ succeed' \subseteq succeed \cup {task[w]}
        /\ deps' = deps /\ pending' = pending
    BY <1>2 DEF Complete, Completed
  <2>3. \A v \in Flying \ {w} : task'[v] = task[v] /\ task[v] # task[w]
    BY <1>2, <2>1 DEF Complete, Completed, TypeOK, Claimed, Flying
  <2>4. task[w] \notin pending
    BY <2>1 DEF Claimed
  <2> QED BY <2>1, <2>2, <2>3, <2>4 DEF Claimed
<1>3. ASSUME \/ \E w \in Workers :
                  \/ CheckContext(w) \/ CheckCap(w) \/ ClaimNothing(w) \/ ClaimWaits(w)
                  \/ RunTask(w) \/ Emit(w) \/ Tell(w)
             \/ Finish \/ Cancel \/ UNCHANGED vars
      PROVE  Claimed'
  <2>1. Flying' = Flying /\ UNCHANGED queue
    BY <1>3, FlyingElse
  <2>2. UNCHANGED <<deps, task>>
    BY <1>3 DEF CheckContext, CheckCap, ClaimNothing, ClaimWaits, RunTask, Emit, Tell,
                Finish, Skip, Return, Cancel, vars
  <2> QED BY <2>1, <2>2 DEF Claimed, queue
<1> QED BY <1>1, <1>2, <1>3 DEF Next, Work

-----------------------------------------------------------------------------
(***************************************************************************)
(* What is reported                                                        *)
(***************************************************************************)
LEMMA Grown ==
  ASSUME NEW S, NEW s \in Seq(S), NEW e \in S
  PROVE  /\ DOMAIN Append(s, e) = DOMAIN s \cup {Len(s) + 1}
         /\ DOMAIN s = 1..Len(s) /\ Len(s) \in Nat /\ Len(s) + 1 \notin DOMAIN s
         /\ \A i \in DOMAIN s : Append(s, e)[i] = s[i]
         /\ Append(s, e)[Len(s) + 1] = e
OBVIOUS

LEMMA ResultsQuiet ==
  ASSUME Results, UNCHANGED <<results, pending, succeed, task>>,
         Unheard' = Unheard, Emitted' = Emitted,
         \A w \in Emitted : outcome'[w] = outcome[w],
         AllExited => AllExited'
  PROVE  Results'
BY DEF Results

LEMMA ResultsStep ==
  ASSUME TypeOK, Claimed, Results, [Next]_vars
  PROVE  Results'
<1> USE DEF Unheard, Emitted
<1>1. ASSUME NEW w \in Workers, CheckContext(w) \/ CheckCap(w) \/ Tell(w)
      PROVE  Results'
  <2>1. UNCHANGED <<results, pending, succeed, task, outcome>>
    BY <1>1 DEF CheckContext, CheckCap, Tell, queue, report
  <2>2. Unheard' = Unheard /\ Emitted' = Emitted /\ (AllExited => AllExited')
    BY <1>1 DEF TypeOK, CheckContext, CheckCap, Tell, Goto, AllExited
  <2> QED BY <2>1, <2>2, ResultsQuiet
<1>2. ASSUME NEW w \in Workers, ClaimNothing(w) \/ ClaimWaits(w)
      PROVE  Results'
  <2>1. UNCHANGED <<results, pending, succeed, task, outcome>>
    BY <1>2 DEF ClaimNothing, ClaimWaits, queue, report
  <2>2. Unheard' = Unheard /\ Emitted' = Emitted /\ (AllExited => AllExited')
    BY <1>2 DEF TypeOK, ClaimNothing, ClaimWaits, NothingReady, Broadcast, Goto, AllExited
  <2> QED BY <2>1, <2>2, ResultsQuiet
<1>3. ASSUME NEW w \in Workers, RunTask(w)
      PROVE  Results'
  <2>1. UNCHANGED <<results, pending, succeed, task>>
    BY <1>3 DEF RunTask, queue, report
  <2>2. Unheard' = Unheard /\ Emitted' = Emitted /\ (AllExited => AllExited')
    BY <1>3 DEF TypeOK, RunTask, Goto, AllExited
  <2>3. \A v \in Emitted : outcome'[v] = outcome[v]
    BY <1>3 DEF TypeOK, RunTask
  <2> QED BY <2>1, <2>2, <2>3, ResultsQuiet
<1>4. CASE Return \/ Cancel \/ UNCHANGED vars
  <2>1. UNCHANGED <<results, pending, succeed, task, outcome, pc>>
    BY <1>4 DEF Return, Cancel, vars, queue, report
  <2> QED BY <2>1, ResultsQuiet DEF AllExited
<1>5. ASSUME NEW w \in Workers, NEW t \in Tasks, ClaimTask(w, t)
      PROVE  Results'
  <2>1. /\ Unheard' = Unheard \cup {w} /\ w \notin Unheard /\ w \notin Emitted
        /\ Emitted' = Emitted /\ ~AllExited
    BY <1>5 DEF TypeOK, ClaimTask, Goto, AllExited
  <2>2. UNCHANGED <<results, succeed, outcome>>
    BY <1>5 DEF ClaimTask, report
  <2>3. pending' = pending \ {t} /\ t \in pending
    BY <1>5 DEF ClaimTask
  <2>4. task'[w] = t /\ \A v \in Unheard \cup Emitted : task'[v] = task[v]
    BY <1>5, <2>1 DEF TypeOK, ClaimTask
  <2>5. \A i \in DOMAIN results : results[i].task # t
    BY <2>1, <2>3 DEF Results
  <2> HIDE DEF Unheard, Emitted
  <2> QED BY <2>1, <2>2, <2>3, <2>4, <2>5 DEF Results
<1>6. ASSUME NEW w \in Workers, Emit(w)
      PROVE  Results'
  <2> DEFINE r == [task |-> task[w], cost |-> outcome[w].cost, ok |-> outcome[w].ok,
                   skipped |-> FALSE]
             n == Len(results) + 1
  <2>1. /\ Unheard' = Unheard \ {w} /\ w \in Unheard
        /\ Emitted' = Emitted \cup {w} /\ w \notin Emitted /\ ~AllExited
    BY <1>6 DEF TypeOK, Emit, Goto, AllExited
  <2>2. w \in Flying /\ Unheard \subseteq Flying /\ Emitted \subseteq Flying
    BY <1>6 DEF Emit, Flying, InFlight
  <2>3. task[w] \in Tasks /\ task[w] \notin pending
    BY <2>2 DEF Claimed
  <2>4. r \in TaskResults
    BY <2>3, FleetAssumption DEF TypeOK, Outcomes, TaskResults
  <2>5. results' = Append(results, r) /\ UNCHANGED <<task, outcome, pending, succeed>>
    BY <1>6 DEF Emit, Record, queue
  <2>6. /\ DOMAIN results' = DOMAIN results \cup {n} /\ n \notin DOMAIN results
        /\ \A i \in DOMAIN results : results'[i] = results[i]
        /\ results'[n] = r
    BY <2>4, <2>5, Grown DEF TypeOK
  <2>7. \A v \in Unheard \cup Emitted : v # w => task[v] # task[w]
    BY <2>2 DEF Claimed
  <2>8. \A i \in DOMAIN results : results[i].task # task[w] /\ ~results[i].skipped
    BY <2>1 DEF Results
  <2> HIDE DEF Unheard, Emitted, n
  <2>9. \A i, j \in DOMAIN results' : results'[i].task = results'[j].task => i = j
    BY <2>6, <2>8 DEF Results
  <2>10. /\ \A i \in DOMAIN results' : results'[i].skipped <=> results'[i].task \in pending'
         /\ ~ \E i \in DOMAIN results' : results'[i].skipped
    BY <2>3, <2>5, <2>6, <2>8 DEF Results
  <2>11. \A i \in DOMAIN results' : results'[i].ok =>
           \/ results'[i].task \in succeed'
           \/ \E v \in Emitted' : task'[v] = results'[i].task /\ outcome'[v].ok
    BY <2>1, <2>5, <2>6 DEF Results
  <2>12. \A v \in Unheard' : \A i \in DOMAIN results' : results'[i].task # task'[v]
    BY <2>1, <2>5, <2>6, <2>7 DEF Results
  <2>13. \A v \in Emitted' : \E i \in DOMAIN results' :
           results'[i].task = task'[v] /\ results'[i].ok = outcome'[v].ok
    BY <2>1, <2>5, <2>6 DEF Results
  <2>14. \A t \in succeed' : \E i \in DOMAIN results' : results'[i].task = t /\ results'[i].ok
    BY <2>5, <2>6 DEF Results
  <2>15. \A t \in Tasks \ pending' :
           \/ \E i \in DOMAIN results' : results'[i].task = t
           \/ \E v \in Unheard' : task'[v] = t
    BY <2>1, <2>5, <2>6 DEF Results
  <2> QED BY <2>9, <2>10, <2>11, <2>12, <2>13, <2>14, <2>15 DEF Results
<1>7. ASSUME NEW w \in Workers, Complete(w)
      PROVE  Results'
  <2>1. /\ Unheard' = Unheard /\ Emitted' = Emitted \ {w} /\ w \in Emitted /\ ~AllExited
        /\ w \notin Unheard
    BY <1>7 DEF TypeOK, Complete, Completed, Broadcast, AllExited
  <2>2. UNCHANGED <<results, pending>>
    BY <1>7 DEF Complete, Completed, report
  <2>3. \A v \in Unheard \cup Emitted : v # w => task'[v] = task[v] /\ outcome'[v] = outcome[v]
    BY <1>7 DEF TypeOK, Complete, Completed
  <2>4. succeed' = IF outcome[w].ok THEN succeed \cup {task[w]} ELSE succeed
    BY <1>7 DEF Complete
  <2>5. \A i \in DOMAIN results : ~results[i].skipped
    BY <2>1 DEF Results
  <2> HIDE DEF Unheard, Emitted
  <2> QED BY <2>1, <2>2, <2>3, <2>4, <2>5 DEF Results
<1>8. ASSUME NEW t \in Tasks, Skip(t)
      PROVE  Results'
  <2> DEFINE r == [task |-> t, cost |-> 0, ok |-> FALSE, skipped |-> TRUE]
             n == Len(results) + 1
  <2>1. r \in TaskResults
    BY FleetAssumption DEF TaskResults
  <2>2. results' = Append(results, r) /\ UNCHANGED <<task, outcome, pending, succeed, pc>>
    BY <1>8 DEF Skip, Record, queue
  <2>3. /\ DOMAIN results' = DOMAIN results \cup {n} /\ n \notin DOMAIN results
        /\ \A i \in DOMAIN results : results'[i] = results[i]
        /\ results'[n] = r
    BY <2>1, <2>2, Grown DEF TypeOK
  <2>4. t \in pending /\ AllExited /\ AllExited' /\ \A i \in DOMAIN results : results[i].task # t
    BY <1>8, <2>2 DEF Skip, Reported, AllExited
  <2>5. Unheard = {} /\ Unheard' = {} /\ Emitted = {} /\ Emitted' = {}
    BY <2>4 DEF AllExited
  <2> HIDE DEF Unheard, Emitted, n
  <2> QED BY <2>2, <2>3, <2>4, <2>5 DEF Results
<1> QED BY <1>1, <1>2, <1>3, <1>4, <1>5, <1>6, <1>7, <1>8 DEF Next, Work, Finish

-----------------------------------------------------------------------------
(***************************************************************************)
(* What OnResult is told, and the order of results                         *)
(***************************************************************************)
LEMMA ToldStep ==
  ASSUME TypeOK, Claimed, Results, Told, [Next]_vars
  PROVE  Told'
<1>1. ASSUME UNCHANGED <<results, told, succeed>>,
             \A v \in Workers : pc'[v] = "complete" => pc[v] = "complete" /\ task'[v] = task[v]
      PROVE  Told'
  BY <1>1 DEF Told
<1>2. ASSUME NEW w \in Workers, CheckContext(w) \/ CheckCap(w) \/ ClaimNothing(w) \/ ClaimWaits(w)
      PROVE  Told'
  <2>1. UNCHANGED <<results, told, succeed, task>>
    BY <1>2 DEF CheckContext, CheckCap, ClaimNothing, ClaimWaits, queue, report
  <2>2. \A v \in Workers : pc'[v] = "complete" => pc[v] = "complete"
    BY <1>2 DEF TypeOK, CheckContext, CheckCap, ClaimNothing, ClaimWaits, NothingReady,
                Broadcast, Goto
  <2> QED BY <1>1, <2>1, <2>2
<1>3. ASSUME NEW w \in Workers, (\E t \in Tasks : ClaimTask(w, t)) \/ RunTask(w)
      PROVE  Told'
  <2>1. UNCHANGED <<results, told, succeed>>
    BY <1>3 DEF ClaimTask, RunTask, queue, report
  <2>2. \A v \in Workers : pc'[v] = "complete" => pc[v] = "complete" /\ task'[v] = task[v]
    BY <1>3 DEF TypeOK, ClaimTask, RunTask, Goto
  <2> QED BY <1>1, <2>1, <2>2
<1>4. ASSUME NEW w \in Workers, Emit(w)
      PROVE  Told'
  <2> DEFINE r == [task |-> task[w], cost |-> outcome[w].cost, ok |-> outcome[w].ok,
                   skipped |-> FALSE]
  <2>1. task[w] \in Tasks
    BY <1>4 DEF Emit, Claimed, Flying, InFlight
  <2>2. r \in TaskResults
    BY <2>1, FleetAssumption DEF TypeOK, Outcomes, TaskResults
  <2>3. results' = Append(results, r) /\ UNCHANGED <<told, succeed, task>>
    BY <1>4 DEF Emit, Record, queue
  <2>4. DOMAIN results \subseteq DOMAIN results' /\ \A i \in DOMAIN results : results'[i] = results[i]
    BY <2>2, <2>3, Grown DEF TypeOK
  <2>5. \A v \in Workers : pc'[v] = "complete" => pc[v] = "complete"
    BY <1>4 DEF TypeOK, Emit, Goto
  <2> QED BY <2>3, <2>4, <2>5 DEF Told
<1>5. ASSUME NEW w \in Workers, Tell(w)
      PROVE  Told'
  <2> DEFINE n == Len(told) + 1
  <2>1. task[w] \in Tasks /\ \E i \in DOMAIN results : results[i].task = task[w]
    BY <1>5 DEF Tell, Claimed, Flying, InFlight, Results, Emitted
  <2>2. told' = Append(told, task[w]) /\ UNCHANGED <<results, succeed, task>>
    BY <1>5 DEF Tell, queue, report
  <2>3. /\ DOMAIN told' = DOMAIN told \cup {n} /\ told'[n] = task[w]
        /\ \A i \in DOMAIN told : told'[i] = told[i]
    BY <2>1, <2>2, Grown DEF TypeOK
  <2>4. \A v \in Workers \ {w} : pc'[v] = "complete" => pc[v] = "complete"
    BY <1>5 DEF TypeOK, Tell, Goto
  <2> HIDE DEF n
  <2> QED BY <2>1, <2>2, <2>3, <2>4 DEF Told
<1>6. ASSUME NEW w \in Workers, Complete(w)
      PROVE  Told'
  <2>1. UNCHANGED <<results, told>> /\ pc[w] = "complete"
    BY <1>6 DEF Complete, Completed, report
  <2>2. \A v \in Workers : pc'[v] = "complete" => v # w /\ pc[v] = "complete" /\ task'[v] = task[v]
    BY <1>6 DEF TypeOK, Complete, Completed, Broadcast
  <2>3. succeed' \subseteq succeed \cup {task[w]}
    BY <1>6 DEF Complete
  <2> QED BY <2>1, <2>2, <2>3 DEF Told
<1>7. ASSUME NEW t \in Tasks, Skip(t)
      PROVE  Told'
  <2> DEFINE r == [task |-> t, cost |-> 0, ok |-> FALSE, skipped |-> TRUE]
             n == Len(told) + 1
             m == Len(results) + 1
  <2>1. r \in TaskResults
    BY FleetAssumption DEF TaskResults
  <2>2. results' = Append(results, r) /\ told' = Append(told, t) /\ UNCHANGED <<succeed, pc, task>>
    BY <1>7 DEF Skip, Record, queue
  <2>3. /\ DOMAIN told' = DOMAIN told \cup {n} /\ told'[n] = t
        /\ \A i \in DOMAIN told : told'[i] = told[i]
    BY <2>2, Grown DEF TypeOK
  <2>4. /\ DOMAIN results' = DOMAIN results \cup {m} /\ results'[m] = r
        /\ \A i \in DOMAIN results : results'[i] = results[i]
    BY <2>1, <2>2, Grown DEF TypeOK
  <2>5. results'[m].task = t
    BY <2>4
  <2> HIDE DEF n, m, r
  <2>6. \A k \in DOMAIN told' : \E i \in DOMAIN results' : results'[i].task = told'[k]
    <3>1. ASSUME NEW k \in DOMAIN told
          PROVE  \E i \in DOMAIN results' : results'[i].task = told'[k]
      <4>1. PICK i \in DOMAIN results : results[i].task = told[k]
        BY DEF Told
      <4> QED BY <2>3, <2>4, <4>1
    <3> QED BY <2>3, <2>4, <2>5, <3>1
  <2>7. \A v \in Workers : pc'[v] = "complete" => \E k \in DOMAIN told' : told'[k] = task'[v]
    BY <2>2, <2>3 DEF Told
  <2>8. \A u \in succeed' : \E k \in DOMAIN told' : told'[k] = u
    BY <2>2, <2>3 DEF Told
  <2> QED BY <2>6, <2>7, <2>8 DEF Told
<1>8. CASE Return \/ Cancel \/ UNCHANGED vars
  BY <1>1, <1>8 DEF Return, Cancel, vars, queue, report
<1> QED BY <1>2, <1>3, <1>4, <1>5, <1>6, <1>7, <1>8 DEF Next, Work, Finish

\* Whatever a task that ran depends on is done, so recorded and told, before.
LEMMA OrderStep ==
  ASSUME TypeOK, Claimed, Results, Told, DependenciesFirst, [Next]_vars
  PROVE  DependenciesFirst'
<1>1. ASSUME UNCHANGED <<results, told, deps>>
      PROVE  DependenciesFirst'
  BY <1>1 DEF DependenciesFirst
<1>2. ASSUME NEW w \in Workers, Emit(w)
      PROVE  DependenciesFirst'
  <2> DEFINE r == [task |-> task[w], cost |-> outcome[w].cost, ok |-> outcome[w].ok,
                   skipped |-> FALSE]
             n == Len(results) + 1
  <2>1. task[w] \in Tasks /\ deps[task[w]] \subseteq succeed
    BY <1>2 DEF Emit, Claimed, Flying, InFlight
  <2>2. r \in TaskResults
    BY <2>1, FleetAssumption DEF TypeOK, Outcomes, TaskResults
  <2>3. results' = Append(results, r) /\ UNCHANGED <<told, deps>>
    BY <1>2 DEF Emit, Record
  <2>4. /\ DOMAIN results' = DOMAIN results \cup {n} /\ results'[n] = r
        /\ DOMAIN results = 1..(n - 1) /\ n \in Nat
        /\ \A i \in DOMAIN results : results'[i] = results[i]
    BY <2>2, <2>3, Grown DEF TypeOK
  <2>5. \A m \in DOMAIN told : told[m] # task[w]
    BY <1>2 DEF Emit, Told, Results, Unheard
  <2>6. \A t \in deps[task[w]] : \E j \in 1..(n - 1) : results[j].task = t /\ results[j].ok
    BY <2>1, <2>4 DEF Results
  <2> HIDE DEF n
  <2>7. ASSUME NEW i \in DOMAIN results', ~results'[i].skipped, NEW t \in deps'[results'[i].task]
        PROVE  /\ \E j \in 1..(i - 1) : results'[j].task = t /\ results'[j].ok
               /\ \A k \in DOMAIN told' : told'[k] = results'[i].task =>
                    \E m \in 1..(k - 1) : told'[m] = t
    <3>1. CASE i = n
      <4>1. results'[i].task = task[w] /\ t \in deps[task[w]]
        BY <2>3, <2>4, <2>7, <3>1
      <4>2. \E j \in 1..(i - 1) : results'[j].task = t /\ results'[j].ok
        BY <2>4, <2>6, <3>1, <4>1
      <4> QED BY <2>3, <2>5, <4>1, <4>2
    <3>2. CASE i \in DOMAIN results
      <4>1. results'[i] = results[i] /\ \A j \in 1..(i - 1) : results'[j] = results[j]
        BY <2>4, <3>2
      <4>2. t \in deps[results[i].task] /\ ~results[i].skipped
        BY <2>3, <2>7, <4>1
      <4>3. \E j \in 1..(i - 1) : results'[j].task = t /\ results'[j].ok
        BY <3>2, <4>1, <4>2 DEF DependenciesFirst
      <4>4. \A k \in DOMAIN told : told[k] = results[i].task => \E m \in 1..(k - 1) : told[m] = t
        BY <3>2, <4>2 DEF DependenciesFirst
      <4>5. told' = told /\ results'[i].task = results[i].task
        BY <2>3, <4>1
      <4> QED BY <4>3, <4>4, <4>5
    <3> QED BY <2>4, <3>1, <3>2
  <2> QED BY <2>7 DEF DependenciesFirst
<1>3. ASSUME NEW w \in Workers, Tell(w)
      PROVE  DependenciesFirst'
  <2> DEFINE n == Len(told) + 1
  <2>1. task[w] \in Tasks /\ deps[task[w]] \subseteq succeed
    BY <1>3 DEF Tell, Claimed, Flying, InFlight
  <2>2. told' = Append(told, task[w]) /\ UNCHANGED <<results, deps>>
    BY <1>3 DEF Tell, report
  <2>3. /\ DOMAIN told' = DOMAIN told \cup {n} /\ told'[n] = task[w]
        /\ DOMAIN told = 1..(n - 1) /\ n \in Nat
        /\ \A i \in DOMAIN told : told'[i] = told[i]
    BY <2>1, <2>2, Grown DEF TypeOK
  <2>4. \A t \in deps[task[w]] : \E m \in 1..(n - 1) : told[m] = t
    BY <2>1, <2>3 DEF Told
  <2> HIDE DEF n
  <2>5. ASSUME NEW i \in DOMAIN results, ~results[i].skipped, NEW t \in deps[results[i].task],
               NEW k \in DOMAIN told', told'[k] = results[i].task
        PROVE  \E m \in 1..(k - 1) : told'[m] = t
    <3>1. CASE k = n
      <4>1. t \in deps[task[w]]
        BY <2>3, <2>5, <3>1
      <4> QED BY <2>3, <2>4, <3>1, <4>1
    <3>2. CASE k \in DOMAIN told
      <4>0. told[k] = results[i].task
        BY <2>3, <2>5, <3>2
      <4>1. \E m \in 1..(k - 1) : told[m] = t
        BY <2>5, <3>2, <4>0 DEF DependenciesFirst
      <4>2. 1..(k - 1) \subseteq DOMAIN told
        BY <2>3, <3>2
      <4> QED BY <2>3, <4>1, <4>2
    <3> QED BY <2>3, <3>1, <3>2
  <2>6. \A i \in DOMAIN results : ~results[i].skipped =>
          \A t \in deps[results[i].task] : \E j \in 1..(i - 1) : results[j].task = t /\ results[j].ok
    BY DEF DependenciesFirst
  <2>7. UNCHANGED <<results, deps>>
    BY <2>2
  <2>8. ASSUME NEW i \in DOMAIN results', ~results'[i].skipped, NEW t \in deps'[results'[i].task]
        PROVE  /\ \E j \in 1..(i - 1) : results'[j].task = t /\ results'[j].ok
               /\ \A k \in DOMAIN told' : told'[k] = results'[i].task =>
                    \E m \in 1..(k - 1) : told'[m] = t
    BY <2>5, <2>6, <2>7, <2>8
  <2> QED BY <2>8 DEF DependenciesFirst
<1>4. ASSUME NEW u \in Tasks, Skip(u)
      PROVE  DependenciesFirst'
  <2> DEFINE r == [task |-> u, cost |-> 0, ok |-> FALSE, skipped |-> TRUE]
             n == Len(told) + 1
             m == Len(results) + 1
  <2>1. r \in TaskResults
    BY FleetAssumption DEF TaskResults
  <2>2. results' = Append(results, r) /\ told' = Append(told, u) /\ deps' = deps
    BY <1>4 DEF Skip, Record
  <2>3. /\ DOMAIN told' = DOMAIN told \cup {n} /\ told'[n] = u
        /\ DOMAIN told = 1..(n - 1) /\ n \in Nat
        /\ \A i \in DOMAIN told : told'[i] = told[i]
    BY <2>2, Grown DEF TypeOK
  <2>4. /\ DOMAIN results' = DOMAIN results \cup {m} /\ results'[m] = r
        /\ DOMAIN results = 1..(m - 1) /\ m \in Nat
        /\ \A i \in DOMAIN results : results'[i] = results[i]
    BY <2>1, <2>2, Grown DEF TypeOK
  <2>5. \A i \in DOMAIN results : results[i].task # u
    BY <1>4 DEF Skip, Reported
  <2> HIDE DEF n, m
  <2>6. ASSUME NEW i \in DOMAIN results', ~results'[i].skipped, NEW t \in deps'[results'[i].task]
        PROVE  /\ \E j \in 1..(i - 1) : results'[j].task = t /\ results'[j].ok
               /\ \A k \in DOMAIN told' : told'[k] = results'[i].task =>
                    \E l \in 1..(k - 1) : told'[l] = t
    <3>1. i \in DOMAIN results /\ results'[i] = results[i]
      BY <2>4, <2>6
    <3>2. ~results[i].skipped /\ t \in deps[results[i].task] /\ results[i].task # u
      BY <2>2, <2>5, <2>6, <3>1
    <3>3. \A j \in 1..(i - 1) : j \in DOMAIN results /\ results'[j] = results[j]
      BY <2>4, <3>1
    <3>4. \E j \in 1..(i - 1) : results'[j].task = t /\ results'[j].ok
      BY <3>1, <3>2, <3>3 DEF DependenciesFirst
    <3>5. ASSUME NEW k \in DOMAIN told', told'[k] = results'[i].task
          PROVE  \E l \in 1..(k - 1) : told'[l] = t
      <4>1. k \in DOMAIN told /\ told[k] = results[i].task
        BY <2>3, <3>1, <3>2, <3>5
      <4>2. \E l \in 1..(k - 1) : told[l] = t
        BY <3>1, <3>2, <4>1 DEF DependenciesFirst
      <4>3. 1..(k - 1) \subseteq DOMAIN told
        BY <2>3, <4>1
      <4> QED BY <2>3, <4>2, <4>3
    <3> QED BY <3>4, <3>5
  <2> QED BY <2>6 DEF DependenciesFirst
<1>5. ASSUME NEW w \in Workers,
             \/ CheckContext(w) \/ CheckCap(w) \/ (\E t \in Tasks : ClaimTask(w, t))
             \/ ClaimNothing(w) \/ ClaimWaits(w) \/ RunTask(w) \/ Complete(w)
      PROVE  DependenciesFirst'
  <2>1. UNCHANGED <<results, told, deps>>
    BY <1>5 DEF CheckContext, CheckCap, ClaimTask, ClaimNothing, ClaimWaits, RunTask,
                Complete, Completed, report
  <2> QED BY <1>1, <2>1
<1>6. CASE Return \/ Cancel \/ UNCHANGED vars
  BY <1>1, <1>6 DEF Return, Cancel, vars, report
<1> QED BY <1>2, <1>3, <1>4, <1>5, <1>6 DEF Next, Work, Finish

-----------------------------------------------------------------------------
(***************************************************************************)
(* Why a worker leaves, and when Run returns                               *)
(***************************************************************************)
LEMMA SpentGrows ==
  ASSUME TypeOK, Claimed, [Next]_vars
  PROVE  cap' = cap /\ spent \in Nat /\ spent <= spent' /\ (cancelled => cancelled')
<1>1. spent \in Nat
  BY DEF TypeOK
<1>2. ASSUME UNCHANGED <<cap, spent>>, cancelled => cancelled'
      PROVE  cap' = cap /\ spent <= spent' /\ (cancelled => cancelled')
  BY <1>1, <1>2
<1>3. ASSUME NEW w \in Workers, Emit(w)
      PROVE  cap' = cap /\ spent <= spent' /\ (cancelled => cancelled')
  <2>1. outcome[w].cost \in Nat
    BY FleetAssumption DEF TypeOK, Outcomes
  <2>2. spent' = spent + outcome[w].cost
    BY <1>3 DEF Emit, Record
  <2> QED BY <1>1, <1>3, <2>1, <2>2 DEF Emit
<1>4. ASSUME NEW t \in Tasks, Skip(t)
      PROVE  cap' = cap /\ spent <= spent' /\ (cancelled => cancelled')
  <2>1. spent' = spent + 0
    BY <1>4 DEF Skip, Record
  <2> QED BY <1>1, <1>4, <2>1 DEF Skip
<1>5. ASSUME NEW w \in Workers,
             \/ CheckContext(w) \/ CheckCap(w) \/ (\E t \in Tasks : ClaimTask(w, t))
             \/ ClaimNothing(w) \/ ClaimWaits(w) \/ RunTask(w) \/ Tell(w) \/ Complete(w)
      PROVE  UNCHANGED <<cap, spent>> /\ (cancelled => cancelled')
  BY <1>5 DEF CheckContext, CheckCap, ClaimTask, ClaimNothing, ClaimWaits, RunTask, Tell,
              Complete, Completed, report
<1>6. CASE Return \/ Cancel \/ UNCHANGED vars
  BY <1>1, <1>6 DEF Return, Cancel, vars, report
<1> QED BY <1>1, <1>2, <1>3, <1>4, <1>5, <1>6 DEF Next, Work, Finish

LEMMA CapStaysReached ==
  ASSUME TypeOK, Counted, Claimed, [Next]_vars, CapReached
  PROVE  CapReached'
<1>1. cap \in Nat /\ cap' = cap /\ spent \in Nat /\ spent <= spent'
  BY SpentGrows, FleetAssumption DEF TypeOK
<1>2. TypeOK'
  BY TypeStep, CountedStep
<1>3. spent' \in Nat
  BY <1>2 DEF TypeOK
<1> QED BY <1>1, <1>3 DEF CapReached

LEMMA NobodyFlies ==
  ASSUME TypeOK, Counted, running = 0
  PROVE  Flying = {}
<1>1. Flying \in SUBSET Workers
  BY DEF Flying
<1> QED BY <1>1, WorkersAreFinite, FS_EmptySet DEF Counted

LEMMA QuitStep ==
  ASSUME TypeOK, Counted, Claimed, Quit, [Next]_vars
  PROVE  Quit'
<1> DEFINE Left == \E w \in Workers : pc[w] = "exit"
           Rest == pending = {} \/ (running = 0 /\ \A t \in pending : ~Ready(t))
<1> SUFFICES ASSUME Left', ~cancelled', ~CapReached'
             PROVE  Rest'
  BY DEF Quit
<1>1. ~cancelled /\ ~CapReached
  BY SpentGrows, CapStaysReached
<1>2. Left => Rest
  BY <1>1 DEF Quit
<1>3. ASSUME UNCHANGED <<deps, queue>>, \A w \in Workers : pc'[w] = "exit" => pc[w] = "exit"
      PROVE  Rest'
  BY <1>2, <1>3 DEF queue, Ready
<1>4. ASSUME NEW w \in Workers, CheckContext(w) \/ CheckCap(w)
      PROVE  Rest'
  <2>1. UNCHANGED <<deps, queue>>
    BY <1>4 DEF CheckContext, CheckCap
  <2>2. \A v \in Workers : pc'[v] = "exit" => pc[v] = "exit"
    BY <1>1, <1>4 DEF TypeOK, CheckContext, CheckCap, Goto
  <2> QED BY <1>3, <2>1, <2>2
<1>5. ASSUME NEW w \in Workers, ClaimWaits(w) \/ RunTask(w) \/ Emit(w) \/ Tell(w)
      PROVE  Rest'
  <2>1. UNCHANGED <<deps, queue>>
    BY <1>5 DEF ClaimWaits, RunTask, Emit, Tell
  <2>2. \A v \in Workers : pc'[v] = "exit" => pc[v] = "exit"
    BY <1>5 DEF TypeOK, ClaimWaits, NothingReady, RunTask, Emit, Tell, Goto
  <2> QED BY <1>3, <2>1, <2>2
<1>6. ASSUME NEW w \in Workers, ClaimNothing(w)
      PROVE  Rest'
  BY <1>6 DEF ClaimNothing, NothingReady, queue, Ready
<1>7. ASSUME NEW w \in Workers, NEW t \in Tasks, ClaimTask(w, t)
      PROVE  Rest'
  <2>1. Left
    BY <1>7 DEF TypeOK, ClaimTask, Goto
  <2>2. t \in pending /\ Ready(t)
    BY <1>7 DEF ClaimTask
  <2> QED BY <1>2, <2>1, <2>2
<1>8. ASSUME NEW w \in Workers, Complete(w)
      PROVE  Rest'
  <2>1. Left
    BY <1>8 DEF TypeOK, Complete, Completed, Broadcast
  <2>2. running # 0
    BY <1>8, FlyingAtComplete, NobodyFlies
  <2>3. pending' = pending
    BY <1>8 DEF Complete, Completed
  <2> QED BY <1>2, <2>1, <2>2, <2>3
<1>9. CASE Finish \/ Cancel \/ UNCHANGED vars
  <2>1. UNCHANGED <<deps, queue, pc>>
    BY <1>9 DEF Finish, Skip, Return, Cancel, vars
  <2> QED BY <1>3, <2>1
<1> QED BY <1>4, <1>5, <1>6, <1>7, <1>8, <1>9 DEF Next, Work

LEMMA OverStep ==
  ASSUME TypeOK, Over, [Next]_vars
  PROVE  Over'
<1>1. CASE Return
  BY <1>1 DEF Return, Over, AllExited, Reported, queue, report
<1>2. ASSUME NEW t \in Tasks, Skip(t)
      PROVE  Over'
  <2> DEFINE r == [task |-> t, cost |-> 0, ok |-> FALSE, skipped |-> TRUE]
  <2>1. r \in TaskResults
    BY FleetAssumption DEF TaskResults
  <2>2. results' = Append(results, r) /\ UNCHANGED <<pending, pc, returned>>
    BY <1>2 DEF Skip, Record, queue
  <2>3. DOMAIN results \subseteq DOMAIN results' /\ \A i \in DOMAIN results : results'[i] = results[i]
    BY <2>1, <2>2, Grown DEF TypeOK
  <2>4. Reported \subseteq Reported'
    BY <2>3 DEF Reported
  <2> QED BY <2>2, <2>4 DEF Over, AllExited
<1>3. CASE Cancel \/ UNCHANGED vars
  BY <1>3 DEF Cancel, Over, AllExited, Reported, vars, queue, report
<1>4. ASSUME NEW w \in Workers, Work(w)
      PROVE  Over'
  <2>1. pc[w] # "exit" /\ returned' = returned
    BY <1>4 DEF Work, CheckContext, CheckCap, ClaimTask, ClaimNothing, ClaimWaits, NothingReady,
                RunTask, Emit, Tell, Complete, Completed
  <2> QED BY <2>1 DEF Over, AllExited
<1> QED BY <1>1, <1>2, <1>3, <1>4 DEF Next, Finish

-----------------------------------------------------------------------------
(***************************************************************************)
(* The theorems                                                            *)
(***************************************************************************)
LEMMA InitInv == Init => IInv
<1> SUFFICES ASSUME Init
             PROVE  IInv
  OBVIOUS
<1>1. Flying = {} /\ Committed = {} /\ Unheard = {} /\ Emitted = {}
  BY DEF Init, Flying, InFlight, Committed, Unheard, Emitted
<1>2. TypeOK
  <2>1. /\ deps \in Batches /\ cap \in Caps
        /\ pc \in [Workers -> Places]
        /\ task \in [Workers -> Tasks \cup {NoTask}]
        /\ pending \subseteq Tasks /\ succeed \subseteq Tasks
        /\ spent \in Nat /\ capped \in BOOLEAN
        /\ results \in Seq(TaskResults) /\ told \in Seq(Tasks)
        /\ cancelled \in BOOLEAN /\ returned \in BOOLEAN
    <3>1. pc \in [Workers -> Places]
      BY DEF Init, Places
    <3>2. results \in Seq(TaskResults) /\ told \in Seq(Tasks)
      BY DEF Init
    <3> QED BY <3>1, <3>2 DEF Init
  <2>2. outcome \in [Workers -> Outcomes]
    BY FleetAssumption DEF Init, NoOutcome, Outcomes
  <2>3. running \in 0..Cardinality(Workers)
    BY WorkersAreFinite DEF Init
  <2> QED BY <2>1, <2>2, <2>3 DEF TypeOK
<1>3. Counted
  BY <1>1, FS_EmptySet DEF Init, Counted
<1>4. WithinWave
  <2>1. Cardinality(Committed) * MaxCost = 0
    BY <1>1, FS_EmptySet, FleetAssumption
  <2>2. Cardinality(Workers) * MaxCost \in Nat
    BY WorkersAreFinite, Worth
  <2>3. cap \in Nat /\ spent = 0
    BY FleetAssumption DEF Init
  <2> QED BY <2>1, <2>2, <2>3 DEF WithinWave
<1>5. Claimed
  BY <1>1 DEF Init, Claimed
<1>6. DOMAIN results = {} /\ DOMAIN told = {}
  BY DEF Init
<1>7. Results /\ Told /\ DependenciesFirst
  BY <1>1, <1>6 DEF Init, Results, Told, DependenciesFirst
<1>8. Quit /\ Over
  BY DEF Init, Quit, Over
<1> QED BY <1>2, <1>3, <1>4, <1>5, <1>7, <1>8 DEF IInv

\* The board of a batch keeps its books: whatever the order in which workers claim,
\* run, record, tell and complete, the parts of IInv hold together.
THEOREM BoardInvariant == Spec => []IInv
<1>1. IInv /\ [Next]_vars => IInv'
  BY TypeStep, CountedStep, WaveStep, ClaimedStep, ResultsStep, ToldStep, OrderStep,
     QuitStep, OverStep DEF IInv
<1> QED BY <1>1, InitInv, PTL DEF Spec

LEMMA IsComplete ==
  ASSUME IInv
  PROVE  ReportIsComplete
<1>1. \A i, j \in DOMAIN results : results[i].task = results[j].task => i = j
  BY DEF IInv, Results
<1>2. ASSUME returned
      PROVE  Reported = Tasks
  <2>1. AllExited /\ pending \subseteq Reported
    BY <1>2 DEF IInv, Over
  <2>2. Unheard = {}
    BY <2>1 DEF Unheard, AllExited
  <2>3. Tasks \subseteq Reported
    BY <2>1, <2>2 DEF IInv, Results, Reported
  <2>4. results \in Seq(TaskResults)
    BY DEF IInv, TypeOK
  <2>5. \A i \in DOMAIN results : results[i].task \in Tasks
    <3>1. \A i \in DOMAIN results : results[i] \in TaskResults
      BY <2>4
    <3> QED BY <3>1 DEF TaskResults
  <2> QED BY <2>3, <2>5 DEF Reported
<1>3. \A i \in DOMAIN results : results[i].skipped <=> results[i].task \in pending
  BY DEF IInv, Results
<1>4. {told[i] : i \in DOMAIN told} \subseteq Reported
  BY DEF IInv, Told, Reported
<1> QED BY <1>1, <1>2, <1>3, <1>4 DEF ReportIsComplete

LEMMA IsWithinAWave ==
  ASSUME IInv
  PROVE  OvershootIsOneWave
<1>1. Cardinality(Committed) * MaxCost \in Nat
  BY WorkersAreFinite, Worth DEF Committed
<1>2. Cardinality(Workers) * MaxCost \in Nat
  BY WorkersAreFinite, Worth
<1>3. cap \in Nat /\ spent \in Nat
  BY FleetAssumption DEF IInv, TypeOK
<1> QED BY <1>1, <1>2, <1>3 DEF IInv, WithinWave, OvershootIsOneWave

LEMMA IsSkippedForAReason ==
  ASSUME IInv
  PROVE  SkippedForAReason
<1> SUFFICES ASSUME AllExited, ~cancelled, ~CapReached, NEW t \in pending
             PROVE  \E d \in deps[t] : ~ \E i \in DOMAIN results : results[i].task = d /\ results[i].ok
  BY DEF SkippedForAReason
<1>1. \E w \in Workers : pc[w] = "exit"
  BY FleetAssumption DEF AllExited
<1>2. ~Ready(t)
  BY <1>1 DEF IInv, Quit
<1>3. PICK d \in deps[t] : d \notin succeed
  BY <1>2 DEF Ready
<1>4. Emitted = {}
  BY DEF AllExited, Emitted
<1> QED BY <1>3, <1>4 DEF IInv, Results

\* For every number of workers, batch, cap and price: Run reports each task once,
\* after those it depends on, passes its cap by one wave of workers at most, and
\* skips a task only if it was cancelled, met its cap, or a dependency failed.
THEOREM BoardStaysSound == Spec => []BoardIsSound
<1>1. IInv => BoardIsSound
  BY IsComplete, IsWithinAWave, IsSkippedForAReason DEF IInv, BoardIsSound
<1> QED BY <1>1, BoardInvariant, PTL
=============================================================================
