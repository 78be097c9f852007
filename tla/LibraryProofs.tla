---------------------------- MODULE LibraryProofs ----------------------------
(***************************************************************************)
(* Proofs about LibraryParts, for any constants its assumptions allow: the *)
(* parts of the library that work on their own keep what they promise, the *)
(* budget tracker, the permission rules and the client's callbacks, the    *)
(* worktrees, the check of the target, the nodes of branches and of        *)
(* agents, the reports and spans of the runs, and forks of a log.          *)
(***************************************************************************)
EXTENDS LibraryParts, Sequences, FiniteSetTheorems, WellFoundedInduction, TLAPS

(***************************************************************************)
(* Sums over finite sets                                                   *)
(***************************************************************************)
Pick(s) == CHOOSE x \in s : TRUE

\* One step of the recursion of MapThenSumSet.
SumAt(f, F, s) == IF s = {} THEN 0 ELSE f[Pick(s)] + F[s \ {Pick(s)}]

SumOver(f, S) == (CHOOSE F : F = [s \in SUBSET S |-> SumAt(f, F, s)])[S]

\* A set of naturals has a least member.
LEMMA Least ==
  ASSUME NEW S, S \subseteq Nat, S # {}
  PROVE  \E m \in S : \A n \in S : m <= n
<1>1. PICK m \in S : \A n \in S : ~(<<n, m>> \in OpToRel(<, Nat))
  BY NatLessThanWellFounded, WFMin
<1>2. ASSUME NEW n \in S PROVE m <= n
  <2>1. <<n, m>> \notin OpToRel(<, Nat)
    BY <1>1
  <2> QED BY <2>1 DEF OpToRel
<1> QED BY <1>2

\* A nonempty set without the element picked of it.
LEMMA Picked ==
  ASSUME NEW s, IsFiniteSet(s), s # {}
  PROVE  /\ Pick(s) \in s /\ IsFiniteSet(s \ {Pick(s)})
         /\ Cardinality(s) \in Nat /\ Cardinality(s) # 0
         /\ Cardinality(s \ {Pick(s)}) = Cardinality(s) - 1
<1>1. PICK x : x = Pick(s)
  OBVIOUS
<1>2. x \in s
  BY <1>1 DEF Pick
<1>3. IsFiniteSet(s \ {x}) /\ Cardinality(s \ {x}) = Cardinality(s) - 1
  BY <1>2, FS_RemoveElement
<1>4. Cardinality(s) \in Nat /\ Cardinality(s) # 0
  BY FS_CardinalityType, FS_EmptySet
<1> QED BY <1>1, <1>2, <1>3, <1>4

\* What holds of the empty set, and of a set if of the set without the element picked,
\* holds of every finite set: Good is the family of those it holds of.
LEMMA ByPicking ==
  ASSUME NEW S, IsFiniteSet(S), NEW Good, {} \in Good,
         \A s \in SUBSET S : s # {} /\ s \ {Pick(s)} \in Good => s \in Good
  PROVE  SUBSET S \subseteq Good
<1> DEFINE Sizes == {n \in Nat : \E s \in SUBSET S : s \notin Good /\ Cardinality(s) = n}
<1>1. SUFFICES ASSUME NEW t \in SUBSET S, t \notin Good PROVE FALSE
  OBVIOUS
<1>2. Sizes # {}
  <2>1. Cardinality(t) \in Nat
    BY FS_Subset, FS_CardinalityType
  <2> QED BY <1>1, <2>1
<1>3. PICK m \in Sizes : \A n \in Sizes : m <= n
  <2>1. Sizes \subseteq Nat
    OBVIOUS
  <2> HIDE DEF Sizes
  <2> QED BY <1>2, <2>1, Least
<1>4. PICK s \in SUBSET S : s \notin Good /\ Cardinality(s) = m
  OBVIOUS
<1>5. s # {} /\ IsFiniteSet(s)
  BY <1>4, FS_Subset
<1>6. PICK r : r = s \ {Pick(s)}
  OBVIOUS
<1>7. r \in SUBSET S /\ Cardinality(r) = m - 1 /\ m \in Nat /\ m # 0
  BY <1>4, <1>5, <1>6, Picked
<1>8. r \notin Good
  BY <1>4, <1>5, <1>6
<1>9. m - 1 \in Sizes
  BY <1>7, <1>8
<1> QED BY <1>3, <1>7, <1>9

LEMMA SumExists ==
  ASSUME NEW S, IsFiniteSet(S), NEW f
  PROVE  \E F : F = [s \in SUBSET S |-> SumAt(f, F, s)]
<1> DEFINE Sub(n) == {s \in SUBSET S : Cardinality(s) <= n}
           Good == {n \in Nat : \E F : F = [s \in Sub(n) |-> SumAt(f, F, s)]}
<1>1. \A s \in SUBSET S : IsFiniteSet(s) /\ Cardinality(s) \in Nat
  BY FS_Subset, FS_CardinalityType
<1>2. 0 \in Good
  <2> DEFINE F == [s \in Sub(0) |-> 0]
  <2>1. \A s \in Sub(0) : s = {}
    BY <1>1, FS_EmptySet
  <2>2. F = [s \in Sub(0) |-> SumAt(f, F, s)]
    BY <2>1 DEF SumAt
  <2> QED BY <2>2
<1>3. ASSUME NEW n \in Nat, n \in Good PROVE n + 1 \in Good
  <2>1. PICK F : F = [s \in Sub(n) |-> SumAt(f, F, s)]
    BY <1>3
  <2> DEFINE G == [s \in Sub(n + 1) |-> SumAt(f, F, s)]
  <2>2. ASSUME NEW s \in Sub(n + 1) PROVE SumAt(f, F, s) = SumAt(f, G, s)
    <3>1. CASE s = {}
      BY <3>1 DEF SumAt
    <3>2. CASE s # {}
      <4>1. PICK r : r = s \ {Pick(s)}
        OBVIOUS
      <4>2. r \in Sub(n) /\ r \in Sub(n + 1)
        <5>1. Cardinality(r) = Cardinality(s) - 1 /\ Cardinality(s) \in Nat
          BY <1>1, <3>2, <4>1, Picked
        <5> QED BY <4>1, <5>1
      <4>3. F[r] = SumAt(f, F, r) /\ G[r] = SumAt(f, F, r)
        BY <2>1, <4>2
      <4> HIDE DEF G
      <4> QED BY <3>2, <4>1, <4>3 DEF SumAt
    <3> QED BY <3>1, <3>2
  <2>3. G = [s \in Sub(n + 1) |-> SumAt(f, G, s)]
    BY <2>2
  <2> HIDE DEF G
  <2>4. \E H : H = [s \in Sub(n + 1) |-> SumAt(f, H, s)]
    BY <2>3
  <2> HIDE DEF Sub
  <2> QED BY <2>4
<1>4. \A n \in Nat : n \in Good
  <2> DEFINE Bad == {n \in Nat : n \notin Good}
  <2> HIDE DEF Good
  <2>1. SUFFICES ASSUME Bad # {} PROVE FALSE
    OBVIOUS
  <2>2. PICK m \in Bad : \A n \in Bad : m <= n
    <3>1. Bad \subseteq Nat
      OBVIOUS
    <3> HIDE DEF Bad
    <3> QED BY <2>1, <3>1, Least
  <2>3. m # 0 /\ m - 1 \in Nat
    BY <1>2, <2>2
  <2>4. m - 1 \in Good
    BY <2>2, <2>3
  <2>5. (m - 1) + 1 \in Good
    BY <1>3, <2>3, <2>4
  <2> QED BY <2>2, <2>3, <2>5
<1>5. PICK F : F = [s \in Sub(Cardinality(S)) |-> SumAt(f, F, s)]
  <2>1. Cardinality(S) \in Good
    BY <1>4, FS_CardinalityType
  <2> QED BY <2>1
<1>6. Sub(Cardinality(S)) = SUBSET S
  BY FS_Subset
<1> QED BY <1>5, <1>6

LEMMA SumIs ==
  ASSUME NEW S, IsFiniteSet(S), NEW f
  PROVE  \E F : F = [s \in SUBSET S |-> SumAt(f, F, s)] /\ SumOver(f, S) = F[S]
<1> DEFINE F == CHOOSE F : F = [s \in SUBSET S |-> SumAt(f, F, s)]
<1>1. F = [s \in SUBSET S |-> SumAt(f, F, s)]
  BY SumExists
<1> QED BY <1>1 DEF SumOver

LEMMA SumIsNat ==
  ASSUME NEW S, IsFiniteSet(S), NEW f \in [S -> Nat]
  PROVE  SumOver(f, S) \in Nat
<1>1. PICK F : F = [s \in SUBSET S |-> SumAt(f, F, s)] /\ SumOver(f, S) = F[S]
  BY SumIs
<1> DEFINE Good == {s \in SUBSET S : F[s] \in Nat}
<1>2. {} \in Good
  BY <1>1 DEF SumAt
<1>3. ASSUME NEW s \in SUBSET S, s # {}, s \ {Pick(s)} \in Good PROVE s \in Good
  <2>1. PICK r : r = s \ {Pick(s)}
    OBVIOUS
  <2>2. F[r] \in Nat
    BY <1>3, <2>1
  <2>3. f[Pick(s)] \in Nat
    BY <1>3 DEF Pick
  <2>4. F[s] = f[Pick(s)] + F[r]
    BY <1>1, <1>3, <2>1 DEF SumAt
  <2> QED BY <2>2, <2>3, <2>4
<1> HIDE DEF Good
<1>4. S \in Good
  BY <1>2, <1>3, ByPicking
<1> QED BY <1>1, <1>4 DEF Good

\* A sum in which one term has grown.
LEMMA SumGrows ==
  ASSUME NEW S, IsFiniteSet(S), NEW f \in [S -> Nat], NEW g \in [S -> Nat],
         NEW w \in S, NEW u \in Nat, g[w] = f[w] + u,
         \A x \in S : x # w => g[x] = f[x]
  PROVE  SumOver(g, S) = SumOver(f, S) + u
<1>1. PICK F : F = [s \in SUBSET S |-> SumAt(f, F, s)] /\ SumOver(f, S) = F[S]
  BY SumIs
<1>2. PICK G : G = [s \in SUBSET S |-> SumAt(g, G, s)] /\ SumOver(g, S) = G[S]
  BY SumIs
<1> DEFINE Good == {s \in SUBSET S :
                     F[s] \in Nat /\ G[s] = F[s] + (IF w \in s THEN u ELSE 0)}
<1>3. {} \in Good
  BY <1>1, <1>2 DEF SumAt
<1>4. ASSUME NEW s \in SUBSET S, s # {}, s \ {Pick(s)} \in Good PROVE s \in Good
  <2>1. PICK x, r : x = Pick(s) /\ r = s \ {x}
    OBVIOUS
  <2>2. F[r] \in Nat /\ G[r] = F[r] + (IF w \in r THEN u ELSE 0)
    BY <1>4, <2>1
  <2>3. x \in S /\ x \in s
    BY <1>4, <2>1 DEF Pick
  <2>4. F[s] = f[x] + F[r] /\ G[s] = g[x] + G[r]
    BY <1>1, <1>2, <1>4, <2>1 DEF SumAt
  <2>5. f[x] \in Nat
    BY <2>3
  <2>6. CASE x = w
    <3>1. w \notin r /\ w \in s
      BY <2>1, <2>3, <2>6
    <3> QED BY <2>2, <2>4, <2>5, <2>6, <3>1
  <2>7. CASE x # w
    <3>1. w \in r <=> w \in s
      BY <2>1, <2>7
    <3>2. g[x] = f[x]
      BY <2>3, <2>7
    <3> QED BY <2>2, <2>4, <2>5, <3>1, <3>2
  <2> QED BY <2>6, <2>7
<1> HIDE DEF Good
<1>5. S \in Good
  BY <1>3, <1>4, ByPicking
<1> QED BY <1>1, <1>2, <1>5 DEF Good

LEMMA SumOfNothing ==
  ASSUME NEW S, IsFiniteSet(S), NEW f, \A x \in S : f[x] = 0
  PROVE  SumOver(f, S) = 0
<1>1. PICK F : F = [s \in SUBSET S |-> SumAt(f, F, s)] /\ SumOver(f, S) = F[S]
  BY SumIs
<1> DEFINE Good == {s \in SUBSET S : F[s] = 0}
<1>2. {} \in Good
  BY <1>1 DEF SumAt
<1>3. ASSUME NEW s \in SUBSET S, s # {}, s \ {Pick(s)} \in Good PROVE s \in Good
  <2>1. PICK x, r : x = Pick(s) /\ r = s \ {x}
    OBVIOUS
  <2>2. x \in S
    BY <1>3, <2>1 DEF Pick
  <2>3. F[r] = 0 /\ f[x] = 0
    BY <1>3, <2>1, <2>2
  <2>4. F[s] = f[x] + F[r]
    BY <1>1, <1>3, <2>1 DEF SumAt
  <2> QED BY <2>3, <2>4
<1> HIDE DEF Good
<1>4. S \in Good
  BY <1>2, <1>3, ByPicking
<1> QED BY <1>1, <1>4 DEF Good

(***************************************************************************)
(* The budget                                                              *)
(***************************************************************************)
Owing(callback) == {w \in Workers : callback \in bPending[w]}
Running == {w \in Workers : bWorker[w] = "running"}

MoneyTypes ==
  /\ bSpent \in Nat /\ bPerSession \in [SpendSessions -> Nat] /\ bOther \in Nat
  /\ bWorker \in [Workers -> {"idle", "running", "adding"}]
  /\ bPending \in [Workers -> SUBSET {"warn", "exceed"}]
  /\ bWarnings \in Nat /\ bExceeded \in Nat /\ bTold \in Nat

\* Only a worker in Add owes a callback.
OwingInAdd == \A w \in Workers : bPending[w] # {} => bWorker[w] = "adding"

WarnDue == SpendLimit > 0 /\ WarnAt > 0 /\ bSpent >= WarnAt

\* The flag says that the threshold was crossed; the one warning is delivered or owed.
WarnedOnce ==
  /\ bWarned <=> WarnDue
  /\ ~bWarned => bWarnings = 0 /\ Owing("warn") = {}
  /\ bWarned => \/ bWarnings = 1 /\ Owing("warn") = {}
                \/ bWarnings = 0 /\ \E w \in Workers : Owing("warn") = {w}

\* Every Add that ended over the limit was told of, or is owed the call.
ExcessesTold == bTold + Cardinality(Owing("exceed")) = bExceeded

SpentIsSum == bSpent = SumOver(bPerSession, SpendSessions) + bOther

EstimatesHold == \A usd \in Costs : usd <= Estimate

\* What the running workers may still add is part of the overshoot.
Overshoot ==
  SpendLimit > 0 /\ EstimatesHold =>
    bSpent + Cardinality(Running) * Estimate <= SpendLimit + (Cardinality(Workers) - 1) * Estimate

MoneyInv == MoneyTypes /\ OwingInAdd /\ WarnedOnce /\ ExcessesTold /\ SpentIsSum /\ Overshoot

LEMMA Workforce ==
  /\ IsFiniteSet(Workers) /\ Cardinality(Workers) \in Nat /\ Cardinality(Workers) >= 1
  /\ \A S \in SUBSET Workers : IsFiniteSet(S) /\ Cardinality(S) \in Nat
                               /\ Cardinality(S) <= Cardinality(Workers)
<1>1. IsFiniteSet(Workers) /\ Workers # {}
  BY MoneyAssumption
<1>2. Cardinality(Workers) \in Nat /\ Cardinality(Workers) # 0
  BY <1>1, FS_CardinalityType, FS_EmptySet
<1>3. ASSUME NEW S \in SUBSET Workers
      PROVE  IsFiniteSet(S) /\ Cardinality(S) \in Nat /\ Cardinality(S) <= Cardinality(Workers)
  BY <1>1, FS_Subset, FS_CardinalityType
<1> QED BY <1>1, <1>2, <1>3

\* A worker joins or leaves a set of workers.
LEMMA Joins ==
  ASSUME NEW S \in SUBSET Workers, NEW w \in Workers, w \notin S
  PROVE  Cardinality(S \cup {w}) = Cardinality(S) + 1 /\ Cardinality(S) + 1 <= Cardinality(Workers)
<1>1. Cardinality(S \cup {w}) = Cardinality(S) + 1
  BY Workforce, FS_AddElement
<1> QED BY <1>1, Workforce

LEMMA Leaves ==
  ASSUME NEW S \in SUBSET Workers, NEW w \in S
  PROVE  Cardinality(S \ {w}) = Cardinality(S) - 1 /\ Cardinality(S) >= 1
<1>1. Cardinality(S \ {w}) = Cardinality(S) - 1
  BY Workforce, FS_RemoveElement
<1>2. Cardinality(S) # 0
  BY Workforce, FS_EmptySet
<1> QED BY <1>1, <1>2, Workforce

\* Estimates of one worker more, and of more workers.
LEMMA Estimates ==
  ASSUME NEW k \in Nat, NEW n \in Nat, k <= n
  PROVE  /\ (k + 1) * Estimate = k * Estimate + Estimate
         /\ k * Estimate <= n * Estimate /\ k * Estimate \in Nat
<1>1. Estimate \in Nat
  BY MoneyAssumption
<1>2. n - k \in Nat
  OBVIOUS
<1>3. (n - k) * Estimate \in Nat /\ k * Estimate \in Nat
  BY <1>1, <1>2
<1>4. n * Estimate = k * Estimate + (n - k) * Estimate
  BY <1>1
<1> QED BY <1>1, <1>3, <1>4

LEMMA MoneyStart == Money!Init => MoneyInv
<1> SUFFICES ASSUME Money!Init PROVE MoneyInv
  OBVIOUS
<1> USE DEF Money!Init
<1>1. Owing("warn") = {} /\ Owing("exceed") = {} /\ Running = {}
  BY DEF Owing, Running
<1>2. MoneyTypes /\ OwingInAdd
  BY DEF MoneyTypes, OwingInAdd
<1>3. WarnedOnce
  BY <1>1, MoneyAssumption DEF WarnedOnce, WarnDue
<1>4. ExcessesTold
  BY <1>1, FS_EmptySet DEF ExcessesTold
<1>5. SpentIsSum
  <2>1. (\A s \in SpendSessions : bPerSession[s] = 0) /\ bOther = 0 /\ bSpent = 0
    OBVIOUS
  <2> QED BY <2>1, MoneyAssumption, SumOfNothing DEF SpentIsSum
<1>6. Overshoot
  <2>1. Cardinality(Running) = 0
    BY <1>1, FS_EmptySet
  <2>2. Cardinality(Workers) - 1 \in Nat
    BY Workforce
  <2>3. (Cardinality(Workers) - 1) * Estimate \in Nat
    BY <2>2, Estimates
  <2> QED BY <2>1, <2>3, MoneyAssumption DEF Overshoot
<1> QED BY <1>2, <1>3, <1>4, <1>5, <1>6 DEF MoneyInv

LEMMA MoneyStartsRun ==
  ASSUME MoneyInv, NEW w \in Workers, Money!StartRun(w) PROVE MoneyInv'
<1> USE DEF Money!StartRun
<1>1. MoneyTypes' /\ OwingInAdd'
  BY DEF MoneyInv, MoneyTypes, OwingInAdd
<1>2. Owing("warn")' = Owing("warn") /\ Owing("exceed")' = Owing("exceed")
  BY DEF Owing
<1>3. WarnedOnce'
  BY <1>2 DEF MoneyInv, WarnedOnce, WarnDue
<1>4. ExcessesTold' /\ SpentIsSum'
  BY <1>2 DEF MoneyInv, ExcessesTold, SpentIsSum
<1>5. Overshoot'
  <2>1. Running' = Running \cup {w} /\ w \notin Running /\ Running \in SUBSET Workers
    BY DEF Running, MoneyInv, MoneyTypes
  <2>2. PICK k \in Nat : k = Cardinality(Running) /\ Cardinality(Running') = k + 1
                         /\ k <= Cardinality(Workers) - 1 /\ Cardinality(Workers) - 1 \in Nat
    BY <2>1, Joins, Workforce
  <2>3. /\ (k + 1) * Estimate = k * Estimate + Estimate
        /\ k * Estimate <= (Cardinality(Workers) - 1) * Estimate
    BY <2>2, Estimates
  <2>4. SUFFICES ASSUME SpendLimit > 0
                 PROVE  bSpent + (k + 1) * Estimate <= SpendLimit + (Cardinality(Workers) - 1) * Estimate
    BY <2>2 DEF Overshoot, EstimatesHold
  <2>5. bSpent + Estimate <= SpendLimit
    BY <2>4, MoneyAssumption DEF Money!CanSpend
  <2>6. k * Estimate \in Nat /\ (Cardinality(Workers) - 1) * Estimate \in Nat
    BY <2>2, Estimates
  <2> QED BY <2>3, <2>5, <2>6, MoneyAssumption DEF MoneyInv, MoneyTypes
<1> QED BY <1>1, <1>3, <1>4, <1>5 DEF MoneyInv

LEMMA MoneyAdds ==
  ASSUME MoneyInv, NEW w \in Workers, NEW session \in SpendSessions \cup {"none"}, NEW usd \in Costs,
         Money!Add(w, session, usd)
  PROVE  MoneyInv'
<1> PICK calls : calls = Money!Callbacks(bSpent + usd)
  OBVIOUS
<1>1. /\ bWorker[w] = "running" /\ bSpent' = bSpent + usd
      /\ \/ /\ session \in SpendSessions /\ bOther' = bOther
            /\ bPerSession' = [bPerSession EXCEPT ![session] = @ + usd]
         \/ bOther' = bOther + usd /\ bPerSession' = bPerSession
      /\ bPending' = [bPending EXCEPT ![w] = calls] /\ (bWarned' <=> bWarned \/ "warn" \in calls)
      /\ bWorker' = [bWorker EXCEPT ![w] = "adding"]
      /\ bExceeded' = IF SpendLimit > 0 /\ bSpent + usd > SpendLimit THEN bExceeded + 1 ELSE bExceeded
      /\ bWarnings' = bWarnings /\ bTold' = bTold
  BY DEF Money!Add
<1>2. /\ calls \in SUBSET {"warn", "exceed"}
      /\ "warn" \in calls <=> SpendLimit > 0 /\ WarnAt > 0 /\ ~bWarned /\ bSpent + usd >= WarnAt
      /\ "exceed" \in calls <=> SpendLimit > 0 /\ bSpent + usd > SpendLimit
  BY DEF Money!Callbacks
<1> HIDE DEF Money!Add, Money!Callbacks
<1>3. usd \in Nat
  BY MoneyAssumption
<1>4. bPending[w] = {} /\ bPending \in [Workers -> SUBSET {"warn", "exceed"}] /\ bSpent \in Nat
  BY <1>1 DEF MoneyInv, OwingInAdd, MoneyTypes
<1>5. MoneyTypes' /\ OwingInAdd'
  <2>1. /\ bSpent' \in Nat /\ bExceeded' \in Nat /\ bWarnings' \in Nat /\ bTold' \in Nat
        /\ bPerSession' \in [SpendSessions -> Nat] /\ bOther' \in Nat
    BY <1>1, <1>3 DEF MoneyInv, MoneyTypes
  <2>2. /\ bWorker' \in [Workers -> {"idle", "running", "adding"}]
        /\ bPending' \in [Workers -> SUBSET {"warn", "exceed"}]
    BY <1>1, <1>2 DEF MoneyInv, MoneyTypes
  <2>3. OwingInAdd'
    BY <1>1, <1>2 DEF MoneyInv, MoneyTypes, OwingInAdd
  <2> QED BY <2>1, <2>2, <2>3 DEF MoneyTypes
<1>6. \A c \in {"warn", "exceed"} :
        /\ w \notin Owing(c) /\ Owing(c) \in SUBSET Workers
        /\ Owing(c)' = IF c \in calls THEN Owing(c) \cup {w} ELSE Owing(c)
  BY <1>1, <1>4 DEF Owing
<1>7. WarnedOnce'
  <2>1. CASE bWarned
    <3>1. WarnDue /\ WarnDue'
      BY <1>1, <1>3, <1>4, <2>1, MoneyAssumption DEF MoneyInv, WarnedOnce, WarnDue
    <3>2. "warn" \notin calls
      BY <1>2, <2>1
    <3>3. bWarned' /\ Owing("warn")' = Owing("warn") /\ bWarnings' = bWarnings
      BY <1>1, <1>6, <2>1, <3>2
    <3> QED BY <2>1, <3>1, <3>3 DEF MoneyInv, WarnedOnce
  <2>2. CASE ~bWarned /\ "warn" \in calls
    <3>1. WarnDue'
      BY <1>1, <1>2, <2>2 DEF WarnDue
    <3>2. bWarnings = 0 /\ Owing("warn") = {}
      BY <2>2 DEF MoneyInv, WarnedOnce
    <3>3. bWarned' /\ Owing("warn")' = {w} /\ bWarnings' = 0
      BY <1>1, <1>6, <2>2, <3>2
    <3> QED BY <3>1, <3>3 DEF WarnedOnce
  <2>3. CASE ~bWarned /\ "warn" \notin calls
    <3>1. ~WarnDue'
      BY <1>1, <1>2, <2>3 DEF WarnDue
    <3>2. bWarnings = 0 /\ Owing("warn") = {}
      BY <2>3 DEF MoneyInv, WarnedOnce
    <3>3. ~bWarned' /\ Owing("warn")' = {} /\ bWarnings' = 0
      BY <1>1, <1>6, <2>3, <3>2
    <3> QED BY <3>1, <3>3 DEF WarnedOnce
  <2> QED BY <2>1, <2>2, <2>3
<1>8. ExcessesTold'
  <2>1. bTold + Cardinality(Owing("exceed")) = bExceeded /\ bTold \in Nat
    BY DEF MoneyInv, ExcessesTold, MoneyTypes
  <2>2. CASE "exceed" \in calls
    <3>1. bExceeded' = bExceeded + 1
      BY <1>1, <1>2, <2>2
    <3>2. PICK S \in SUBSET Workers : S = Owing("exceed") /\ w \notin S
                                      /\ Owing("exceed")' = S \cup {w}
      BY <1>6, <2>2
    <3>3. Cardinality(Owing("exceed")') = Cardinality(S) + 1 /\ Cardinality(S) \in Nat
      BY <3>2, Joins, Workforce
    <3> QED BY <1>1, <2>1, <3>1, <3>2, <3>3 DEF ExcessesTold
  <2>3. CASE "exceed" \notin calls
    <3>1. bExceeded' = bExceeded /\ Owing("exceed")' = Owing("exceed")
      BY <1>1, <1>2, <1>6, <2>3
    <3> QED BY <1>1, <2>1, <3>1 DEF ExcessesTold
  <2> QED BY <2>2, <2>3
<1>9. SpentIsSum'
  <2>1. PICK f \in [SpendSessions -> Nat] : f = bPerSession
    BY DEF MoneyInv, MoneyTypes
  <2>2. PICK g \in [SpendSessions -> Nat] : g = bPerSession'
    BY <1>5 DEF MoneyTypes
  <2>3. /\ SumOver(f, SpendSessions) \in Nat /\ bOther \in Nat
        /\ bSpent = SumOver(f, SpendSessions) + bOther
    BY <2>1, SumIsNat, MoneyAssumption DEF MoneyInv, MoneyTypes, SpentIsSum
  <2>4. CASE session \in SpendSessions /\ bOther' = bOther
             /\ bPerSession' = [bPerSession EXCEPT ![session] = @ + usd]
    <3>1. g[session] = f[session] + usd /\ \A x \in SpendSessions : x # session => g[x] = f[x]
      BY <2>1, <2>2, <2>4
    <3>2. SumOver(g, SpendSessions) = SumOver(f, SpendSessions) + usd
      BY <1>3, <2>4, <3>1, SumGrows, MoneyAssumption
    <3> QED BY <1>1, <1>3, <2>2, <2>3, <2>4, <3>2 DEF SpentIsSum
  <2>5. CASE bOther' = bOther + usd /\ bPerSession' = bPerSession
    BY <1>1, <1>3, <2>1, <2>3, <2>5 DEF SpentIsSum
  <2> QED BY <1>1, <2>4, <2>5
<1>10. Overshoot'
  <2>1. Running' = Running \ {w} /\ w \in Running /\ Running \in SUBSET Workers
    BY <1>1 DEF Running, MoneyInv, MoneyTypes
  <2>2. PICK k \in Nat : k + 1 = Cardinality(Running) /\ Cardinality(Running') = k
    <3>1. Cardinality(Running) \in Nat
      BY <2>1, Workforce
    <3>2. Cardinality(Running \ {w}) = Cardinality(Running) - 1 /\ Cardinality(Running) >= 1
      BY <2>1, Leaves
    <3>3. Cardinality(Running) - 1 \in Nat /\ (Cardinality(Running) - 1) + 1 = Cardinality(Running)
      BY <3>1, <3>2
    <3> QED BY <2>1, <3>2, <3>3
  <2>3. (k + 1) * Estimate = k * Estimate + Estimate /\ k * Estimate \in Nat
    BY <2>2, Estimates
  <2>4. (Cardinality(Workers) - 1) * Estimate \in Nat
    BY Workforce, Estimates
  <2>5. SUFFICES ASSUME SpendLimit > 0, EstimatesHold
                 PROVE  bSpent' + k * Estimate <= SpendLimit + (Cardinality(Workers) - 1) * Estimate
    BY <2>2 DEF Overshoot, EstimatesHold
  <2>6. bSpent + (k + 1) * Estimate <= SpendLimit + (Cardinality(Workers) - 1) * Estimate
    BY <2>2, <2>5 DEF MoneyInv, Overshoot
  <2>7. usd <= Estimate
    BY <2>5 DEF EstimatesHold
  <2> QED BY <1>1, <1>3, <1>4, <2>3, <2>4, <2>6, <2>7, MoneyAssumption
<1> QED BY <1>5, <1>7, <1>8, <1>9, <1>10 DEF MoneyInv

LEMMA MoneyCallsBack ==
  ASSUME MoneyInv, NEW w \in Workers, Money!OnWarn(w) \/ Money!OnExceed(w) \/ Money!Added(w)
  PROVE  MoneyInv'
<1>1. /\ bSpent' = bSpent /\ bPerSession' = bPerSession /\ bOther' = bOther /\ (bWarned' <=> bWarned)
      /\ bExceeded' = bExceeded /\ bWorker[w] = "adding"
      /\ bPending \in [Workers -> SUBSET {"warn", "exceed"}] /\ bTold \in Nat
  BY DEF Money!OnWarn, Money!OnExceed, Money!Added, MoneyInv, MoneyTypes
<1>2. MoneyTypes' /\ OwingInAdd'
  <2>1. CASE Money!OnWarn(w)
    BY <2>1 DEF Money!OnWarn, MoneyInv, MoneyTypes, OwingInAdd
  <2>2. CASE Money!OnExceed(w)
    BY <2>2 DEF Money!OnExceed, MoneyInv, MoneyTypes, OwingInAdd
  <2>3. CASE Money!Added(w)
    BY <2>3 DEF Money!Added, MoneyInv, MoneyTypes, OwingInAdd
  <2> QED BY <2>1, <2>2, <2>3
<1>3. SpentIsSum' /\ (WarnDue' <=> WarnDue)
  BY <1>1 DEF MoneyInv, SpentIsSum, WarnDue
<1>4. Overshoot'
  <2>1. Running' = Running
    BY DEF Running, Money!OnWarn, Money!OnExceed, Money!Added, MoneyInv, MoneyTypes
  <2> QED BY <1>1, <2>1 DEF MoneyInv, Overshoot, EstimatesHold
<1>5. CASE Money!OnWarn(w)
  <2>1. /\ w \in Owing("warn") /\ Owing("warn")' = Owing("warn") \ {w}
        /\ Owing("exceed")' = Owing("exceed") /\ bWarnings' = bWarnings + 1 /\ bTold' = bTold
    BY <1>1, <1>5 DEF Money!OnWarn, Owing
  <2>2. bWarned /\ bWarnings = 0 /\ Owing("warn") = {w}
    BY <2>1 DEF MoneyInv, WarnedOnce
  <2>3. bWarnings' = 1 /\ Owing("warn")' = {}
    BY <2>1, <2>2
  <2>4. WarnedOnce'
    BY <1>1, <1>3, <2>2, <2>3 DEF MoneyInv, WarnedOnce
  <2>5. ExcessesTold'
    BY <1>1, <2>1 DEF MoneyInv, ExcessesTold
  <2> QED BY <1>2, <1>3, <1>4, <2>4, <2>5 DEF MoneyInv
<1>6. CASE Money!OnExceed(w)
  <2>1. /\ w \in Owing("exceed") /\ Owing("exceed")' = Owing("exceed") \ {w}
        /\ Owing("warn")' = Owing("warn") /\ bWarnings' = bWarnings /\ bTold' = bTold + 1
    BY <1>1, <1>6 DEF Money!OnExceed, Owing
  <2>2. WarnedOnce'
    BY <1>1, <1>3, <2>1 DEF MoneyInv, WarnedOnce
  <2>3. PICK S \in SUBSET Workers : S = Owing("exceed") /\ w \in S /\ Owing("exceed")' = S \ {w}
    BY <2>1 DEF Owing
  <2>4. Cardinality(Owing("exceed")') = Cardinality(S) - 1 /\ Cardinality(S) \in Nat
    BY <2>3, Leaves, Workforce
  <2>5. ExcessesTold'
    BY <1>1, <2>1, <2>3, <2>4 DEF MoneyInv, ExcessesTold
  <2> QED BY <1>2, <1>3, <1>4, <2>2, <2>5 DEF MoneyInv
<1>7. CASE Money!Added(w)
  <2>1. /\ Owing("exceed")' = Owing("exceed") /\ Owing("warn")' = Owing("warn")
        /\ bWarnings' = bWarnings /\ bTold' = bTold
    BY <1>7 DEF Money!Added, Owing
  <2>2. WarnedOnce' /\ ExcessesTold'
    BY <1>1, <1>3, <2>1 DEF MoneyInv, WarnedOnce, ExcessesTold
  <2> QED BY <1>2, <1>3, <1>4, <2>2 DEF MoneyInv
<1> QED BY <1>5, <1>6, <1>7

LEMMA MoneyStep == MoneyInv /\ [Money!Next]_(Money!vars) => MoneyInv'
<1> SUFFICES ASSUME MoneyInv, [Money!Next]_(Money!vars) PROVE MoneyInv'
  OBVIOUS
<1>1. CASE UNCHANGED Money!vars
  BY <1>1 DEF Money!vars, MoneyInv, MoneyTypes, OwingInAdd, WarnedOnce, WarnDue, Owing,
              ExcessesTold, SpentIsSum, Overshoot, EstimatesHold, Running
<1>2. ASSUME NEW w \in Workers, Money!StartRun(w) PROVE MoneyInv'
  BY <1>2, MoneyStartsRun
<1>3. ASSUME NEW w \in Workers, Money!OnWarn(w) \/ Money!OnExceed(w) \/ Money!Added(w)
      PROVE  MoneyInv'
  BY <1>3, MoneyCallsBack
<1>4. ASSUME NEW w \in Workers, NEW session \in SpendSessions \cup {"none"}, NEW usd \in Costs,
             Money!Add(w, session, usd)
      PROVE  MoneyInv'
  BY <1>4, MoneyAdds
<1> QED BY <1>1, <1>2, <1>3, <1>4 DEF Money!Next

LEMMA MoneyKept == MoneyInv => BudgetIsKept
<1> SUFFICES ASSUME MoneyInv PROVE BudgetIsKept
  OBVIOUS
<1>1. bWarnings <= 1
  BY DEF MoneyInv, WarnedOnce
<1>2. bTold <= bExceeded
  <2>1. Cardinality(Owing("exceed")) \in Nat
    BY Workforce DEF Owing
  <2> QED BY <2>1 DEF MoneyInv, ExcessesTold, MoneyTypes
<1>3. ASSUME \A w \in Workers : bWorker[w] # "adding"
      PROVE  /\ bWarnings = 1 <=> SpendLimit > 0 /\ WarnAt > 0 /\ bSpent >= WarnAt
             /\ bTold = bExceeded
  <2>1. Owing("warn") = {} /\ Owing("exceed") = {}
    BY <1>3 DEF MoneyInv, OwingInAdd, Owing
  <2>2. bWarnings = 1 <=> WarnDue
    BY <2>1 DEF MoneyInv, WarnedOnce
  <2>3. bTold = bExceeded
    <3>1. Cardinality(Owing("exceed")) = 0
      BY <2>1, FS_EmptySet
    <3> QED BY <3>1 DEF MoneyInv, ExcessesTold, MoneyTypes
  <2> QED BY <2>2, <2>3 DEF WarnDue
<1>4. bSpent = Money!MapThenSumSet(LAMBDA s : bPerSession[s], SpendSessions) + bOther
  <2>1. Money!MapThenSumSet(LAMBDA s : bPerSession[s], SpendSessions) =
          SumOver(bPerSession, SpendSessions)
    BY DEF Money!MapThenSumSet, Money!MapThenFoldSet, SumOver, SumAt, Pick
  <2> QED BY <2>1 DEF MoneyInv, SpentIsSum
<1>5. ASSUME SpendLimit > 0, \A usd \in Costs : usd <= Estimate
      PROVE  bSpent <= SpendLimit + (Cardinality(Workers) - 1) * Estimate
  <2>1. PICK k \in Nat : k = Cardinality(Running)
    BY Workforce DEF Running
  <2>2. k * Estimate \in Nat /\ (Cardinality(Workers) - 1) * Estimate \in Nat
    BY Estimates, Workforce
  <2>3. bSpent + k * Estimate <= SpendLimit + (Cardinality(Workers) - 1) * Estimate
    BY <1>5, <2>1 DEF MoneyInv, Overshoot, EstimatesHold
  <2> QED BY <2>2, <2>3, MoneyAssumption DEF MoneyInv, MoneyTypes
<1>6. /\ (\A w \in Workers : bWorker[w] # "adding") =>
           /\ bWarnings = 1 <=> SpendLimit > 0 /\ WarnAt > 0 /\ bSpent >= WarnAt
           /\ bTold = bExceeded
      /\ SpendLimit > 0 /\ (\A usd \in Costs : usd <= Estimate) =>
           bSpent <= SpendLimit + (Cardinality(Workers) - 1) * Estimate
  BY <1>3, <1>5
<1>7. Money!Cardinality(Workers) = Cardinality(Workers)
  BY DEF Money!Cardinality, Cardinality
<1> QED BY <1>1, <1>2, <1>4, <1>6, <1>7 DEF BudgetIsKept, Money!BudgetIsKept

\* However the Adds of any number of workers interleave, the caller is warned at most once
\* and, once the Adds are through, exactly if the threshold was crossed, is told of every
\* excess once, the sessions and what belongs to none sum to the total, and the overshoot is
\* bounded (Add, CanSpend of budget.go).
THEOREM BudgetIsKeptAlways == Money!Spec => []BudgetIsKept
BY MoneyStart, MoneyStep, MoneyKept, PTL DEF Money!Spec

(***************************************************************************)
(* The permission rules                                                    *)
(***************************************************************************)
PersonsAnswers == {"allow", "decline", "decline silently"}

PermissionTypes ==
  /\ pRequest = [c \in ToolCalls |-> pRequest[c]]
  /\ pDecide \in [ToolCalls -> {"idle", "asking", "storing", "done"}]
  /\ pAnswer \in [ToolCalls -> {"none", "error"} \cup PersonsAnswers]
  /\ pDecision = [c \in ToolCalls |-> pDecision[c]]
  /\ pTold \in [ToolCalls -> {"none", "allow", "deny", "error"}]

\* A call that is not through has been told no decision, one that stores has its answer.
Deciding(c) ==
  /\ pTold[c] \in {"allow", "deny"} => pDecide[c] = "done"
  /\ pDecide[c] = "storing" => pAnswer[c] \in PersonsAnswers

\* A decision goes back to a call that is through, on the same request.
Decided(c) ==
  pTold[c] \in {"allow", "deny"} =>
    /\ pDecision[c].by \in ToolCalls /\ pDecide[pDecision[c].by] = "done"
    /\ pRequest[pDecision[c].by] = pRequest[c]
    /\ pTold[c] = "allow" <=> pAnswer[pDecision[c].by] = "allow"

\* What is remembered is what was answered to that request; a refusal has a message, by
\* which Allowed tells it from a permission.
Remembered(q) ==
  /\ pMemo[q].by \in ToolCalls /\ pDecide[pMemo[q].by] = "done"
  /\ pRequest[pMemo[q].by] = q
  /\ pAnswer[pMemo[q].by] \in PersonsAnswers
  /\ pMemo[q].allow <=> pAnswer[pMemo[q].by] = "allow"
  /\ ~pMemo[q].allow => pMemo[q].message # ""

PermissionInv ==
  /\ PermissionTypes
  /\ \A c \in ToolCalls : Deciding(c) /\ Decided(c)
  /\ \A q \in DOMAIN pMemo : Remembered(q)
  /\ pSettled = DOMAIN pMemo

LEMMA PermissionStart == Permission!Init => PermissionInv
<1> SUFFICES ASSUME Permission!Init PROVE PermissionInv
  OBVIOUS
<1>1. PermissionTypes /\ \A c \in ToolCalls : Deciding(c) /\ Decided(c)
  BY DEF Permission!Init, PermissionTypes, Deciding, Decided
<1>2. DOMAIN pMemo = {} /\ pSettled = {}
  BY DEF Permission!Init
<1> QED BY <1>1, <1>2 DEF PermissionInv

\* What a step keeps that leaves the memory and every decision, and what was told of one,
\* as they were, and takes no call back that is through.
LEMMA PermissionKeeps ==
  ASSUME PermissionInv, PermissionTypes', pMemo' = pMemo, pSettled' = pSettled,
         pRequest' = pRequest,
         \A c \in ToolCalls : pDecide[c] = "done" => pDecide'[c] = "done" /\ pAnswer'[c] = pAnswer[c],
         \A c \in ToolCalls : Deciding(c)',
         \A c \in ToolCalls : (pTold'[c] = pTold[c] /\ pDecision'[c] = pDecision[c]) \/ Decided(c)'
  PROVE  PermissionInv'
<1>1. ASSUME NEW q \in DOMAIN pMemo PROVE Remembered(q)'
  <2>1. Remembered(q)
    BY DEF PermissionInv
  <2> QED BY <2>1 DEF Remembered
<1>2. ASSUME NEW c \in ToolCalls PROVE Decided(c)'
  <2>1. Decided(c)
    BY DEF PermissionInv
  <2>2. CASE pTold'[c] = pTold[c] /\ pDecision'[c] = pDecision[c]
    BY <2>1, <2>2 DEF Decided
  <2> QED BY <2>2
<1> QED BY <1>1, <1>2 DEF PermissionInv

LEMMA PermissionStep == PermissionInv /\ [Permission!Next]_(Permission!vars) => PermissionInv'
<1> SUFFICES ASSUME PermissionInv, [Permission!Next]_(Permission!vars) PROVE PermissionInv'
  OBVIOUS
<1>1. CASE UNCHANGED Permission!vars
  <2>1. /\ pRequest' = pRequest /\ pDecide' = pDecide /\ pAnswer' = pAnswer
        /\ pDecision' = pDecision /\ pTold' = pTold /\ pMemo' = pMemo /\ pSettled' = pSettled
    BY <1>1 DEF Permission!vars
  <2>2. PermissionTypes' /\ \A c \in ToolCalls : Deciding(c)'
    BY <2>1 DEF PermissionInv, PermissionTypes, Deciding
  <2> QED BY <2>1, <2>2, PermissionKeeps
<1>2. ASSUME NEW c \in ToolCalls, Permission!Ask(c) PROVE PermissionInv'
  <2>1. /\ pDecide[c] = "idle" /\ pRequest' = pRequest /\ pMemo' = pMemo /\ pSettled' = pSettled
        /\ pTold[c] \notin {"allow", "deny"} /\ pAnswer' = pAnswer
    BY <1>2 DEF Permission!Ask, PermissionInv, Deciding
  <2>2. CASE pRequest[c] \in DOMAIN pMemo
    <3> DEFINE q == pRequest[c]
               d == [effect |-> "remembered", by |-> pMemo[q].by,
                     message |-> IF pMemo[q].allow THEN "" ELSE pMemo[q].message]
    <3>1. Permission!Return(c, d)
      BY <1>2, <2>2 DEF Permission!Ask
    <3>2. Remembered(q)
      BY <2>2 DEF PermissionInv
    <3>3. d.by = pMemo[q].by /\ (Permission!Allowed(d) <=> pMemo[q].allow)
      BY <3>2 DEF Permission!Allowed, Remembered
    <3> HIDE DEF d
    <3>4. /\ pDecision' = [pDecision EXCEPT ![c] = d] /\ pDecide' = [pDecide EXCEPT ![c] = "done"]
          /\ pTold' = [pTold EXCEPT ![c] = IF @ # "none" THEN @
                                           ELSE IF Permission!Allowed(d) THEN "allow" ELSE "deny"]
      BY <3>1 DEF Permission!Return, Permission!Tell
    <3>5. PermissionTypes'
      BY <2>1, <3>4 DEF PermissionInv, PermissionTypes
    <3>6. ASSUME NEW e \in ToolCalls PROVE Deciding(e)'
      BY <2>1, <3>4 DEF PermissionInv, PermissionTypes, Deciding
    <3>7. Decided(c)'
      <4>1. PICK by \in ToolCalls : by = pMemo[q].by
        BY <3>2 DEF Remembered
      <4>2. /\ pDecide[by] = "done" /\ pRequest[by] = pRequest[c]
            /\ pMemo[q].allow <=> pAnswer[by] = "allow"
        BY <3>2, <4>1 DEF Remembered
      <4>3. pDecision'[c].by = by /\ pDecide'[by] = "done"
        BY <3>3, <3>4, <4>1, <4>2 DEF PermissionInv, PermissionTypes
      <4>4. pTold'[c] \in {"allow", "deny"} => (pTold'[c] = "allow" <=> pAnswer[by] = "allow")
        BY <2>1, <3>3, <3>4, <4>2 DEF PermissionInv, PermissionTypes
      <4> QED BY <2>1, <4>2, <4>3, <4>4 DEF Decided
    <3>8. \A e \in ToolCalls : (pTold'[e] = pTold[e] /\ pDecision'[e] = pDecision[e]) \/ Decided(e)'
      BY <3>4, <3>7 DEF PermissionInv, PermissionTypes
    <3>9. \A e \in ToolCalls : pDecide[e] = "done" => pDecide'[e] = "done" /\ pAnswer'[e] = pAnswer[e]
      BY <2>1, <3>4 DEF PermissionInv, PermissionTypes
    <3> QED BY <2>1, <3>5, <3>6, <3>8, <3>9, PermissionKeeps
  <2>3. CASE pRequest[c] \notin DOMAIN pMemo
    <3>1. /\ pDecide' = [pDecide EXCEPT ![c] = "asking"]
          /\ pDecision' = pDecision /\ pTold' = pTold
      BY <1>2, <2>3 DEF Permission!Ask
    <3>2. PermissionTypes'
      BY <2>1, <3>1 DEF PermissionInv, PermissionTypes
    <3>3. ASSUME NEW e \in ToolCalls PROVE Deciding(e)'
      BY <2>1, <3>1 DEF PermissionInv, PermissionTypes, Deciding
    <3>4. \A e \in ToolCalls : pDecide[e] = "done" => pDecide'[e] = "done" /\ pAnswer'[e] = pAnswer[e]
      BY <2>1, <3>1 DEF PermissionInv, PermissionTypes
    <3> QED BY <2>1, <3>1, <3>2, <3>3, <3>4, PermissionKeeps
  <2> QED BY <2>2, <2>3
<1>3. ASSUME NEW c \in ToolCalls, Permission!Answer(c) PROVE PermissionInv'
  <2>1. PICK a \in {"allow", "decline", "decline silently", "error"} :
          /\ pAnswer' = [pAnswer EXCEPT ![c] = a]
          /\ IF a = "error"
             THEN Permission!Return(c, [effect |-> "ask_deny", message |-> "failed", by |-> c])
             ELSE /\ pDecide' = [pDecide EXCEPT ![c] = "storing"]
                  /\ pDecision' = pDecision /\ pTold' = pTold
    BY <1>3 DEF Permission!Answer
  <2>2. /\ pDecide[c] = "asking" /\ pRequest' = pRequest /\ pMemo' = pMemo /\ pSettled' = pSettled
        /\ pTold[c] \notin {"allow", "deny"}
    BY <1>3 DEF Permission!Answer, PermissionInv, Deciding
  <2>3. CASE a = "error"
    <3> DEFINE d == [effect |-> "ask_deny", message |-> "failed", by |-> c]
    <3>1. d.by = c /\ ~Permission!Allowed(d)
      BY DEF Permission!Allowed
    <3>2. Permission!Return(c, d)
      BY <2>1, <2>3
    <3> HIDE DEF d
    <3>3. /\ pDecision' = [pDecision EXCEPT ![c] = d] /\ pDecide' = [pDecide EXCEPT ![c] = "done"]
          /\ pTold' = [pTold EXCEPT ![c] = IF @ # "none" THEN @ ELSE "deny"]
      BY <3>1, <3>2 DEF Permission!Return, Permission!Tell
    <3>4. PermissionTypes'
      BY <2>1, <2>2, <3>3 DEF PermissionInv, PermissionTypes, PersonsAnswers
    <3>5. ASSUME NEW e \in ToolCalls PROVE Deciding(e)'
      BY <2>1, <2>2, <3>3 DEF PermissionInv, PermissionTypes, Deciding
    <3>6. Decided(c)'
      BY <2>1, <2>2, <2>3, <3>1, <3>3 DEF PermissionInv, PermissionTypes, Decided
    <3>7. \A e \in ToolCalls : (pTold'[e] = pTold[e] /\ pDecision'[e] = pDecision[e]) \/ Decided(e)'
      BY <3>3, <3>6 DEF PermissionInv, PermissionTypes
    <3>8. \A e \in ToolCalls : pDecide[e] = "done" => pDecide'[e] = "done" /\ pAnswer'[e] = pAnswer[e]
      BY <2>1, <2>2, <3>3 DEF PermissionInv, PermissionTypes
    <3> QED BY <2>2, <3>4, <3>5, <3>7, <3>8, PermissionKeeps
  <2>4. CASE a # "error"
    <3>1. PermissionTypes'
      BY <2>1, <2>2, <2>4 DEF PermissionInv, PermissionTypes, PersonsAnswers
    <3>2. ASSUME NEW e \in ToolCalls PROVE Deciding(e)'
      BY <2>1, <2>2, <2>4 DEF PermissionInv, PermissionTypes, Deciding, PersonsAnswers
    <3>3. \A e \in ToolCalls : pDecide[e] = "done" => pDecide'[e] = "done" /\ pAnswer'[e] = pAnswer[e]
      BY <2>1, <2>2, <2>4 DEF PermissionInv, PermissionTypes
    <3> QED BY <2>1, <2>2, <2>4, <3>1, <3>2, <3>3, PermissionKeeps
  <2> QED BY <2>3, <2>4
<1>4. ASSUME NEW c \in ToolCalls, Permission!Store(c) PROVE PermissionInv'
  <2> DEFINE q == pRequest[c]
             message == Permission!Message(pAnswer[c])
             d == [effect |-> IF pAnswer[c] = "allow" THEN "ask_allow" ELSE "ask_deny",
                   message |-> message, by |-> c]
             kept == [allow |-> pAnswer[c] = "allow", message |-> message, by |-> c]
  <2>1. /\ pDecide[c] = "storing" /\ pAnswer[c] \in PersonsAnswers
        /\ pRequest' = pRequest /\ pAnswer' = pAnswer
        /\ pTold[c] \notin {"allow", "deny"} /\ pSettled' = pSettled \cup {q}
    BY <1>4 DEF Permission!Store, PermissionInv, Deciding
  <2>2. d.by = c /\ (Permission!Allowed(d) <=> pAnswer[c] = "allow")
    BY DEF Permission!Allowed
  <2>3. kept.by = c /\ (kept.allow <=> pAnswer[c] = "allow") /\ (~kept.allow => kept.message # "")
    BY <2>1 DEF Permission!Message, PersonsAnswers
  <2>4. pMemo' = [p \in DOMAIN pMemo \cup {q} |-> IF p # q THEN pMemo[p] ELSE kept]
    BY <1>4 DEF Permission!Store, Permission!Remember
  <2>5. Permission!Return(c, d)
    BY <1>4 DEF Permission!Store
  <2> HIDE DEF d, kept, message
  <2>6. /\ pDecision' = [pDecision EXCEPT ![c] = d] /\ pDecide' = [pDecide EXCEPT ![c] = "done"]
        /\ pTold' = [pTold EXCEPT ![c] = IF @ # "none" THEN @
                                         ELSE IF pAnswer[c] = "allow" THEN "allow" ELSE "deny"]
    BY <2>2, <2>5 DEF Permission!Return, Permission!Tell
  <2>7. PermissionTypes'
    BY <2>1, <2>6 DEF PermissionInv, PermissionTypes
  <2>8. ASSUME NEW e \in ToolCalls PROVE Deciding(e)'
    BY <2>1, <2>6 DEF PermissionInv, PermissionTypes, Deciding
  <2>9. ASSUME NEW e \in ToolCalls PROVE Decided(e)'
    <3>1. CASE e = c
      BY <2>1, <2>2, <2>6, <3>1 DEF PermissionInv, PermissionTypes, Decided
    <3>2. CASE e # c
      BY <2>1, <2>6, <3>2 DEF PermissionInv, PermissionTypes, Decided
    <3> QED BY <3>1, <3>2
  <2>10. DOMAIN pMemo' = DOMAIN pMemo \cup {q} /\ pSettled' = DOMAIN pMemo'
    BY <2>1, <2>4 DEF PermissionInv
  <2>11. ASSUME NEW p \in DOMAIN pMemo' PROVE Remembered(p)'
    <3>1. CASE p = q
      <4>1. pMemo'[p] = kept /\ pDecide'[c] = "done"
        BY <2>4, <2>6, <2>10, <3>1 DEF PermissionInv, PermissionTypes
      <4> QED BY <2>1, <2>3, <3>1, <4>1 DEF Remembered
    <3>2. CASE p # q
      <4>1. pMemo'[p] = pMemo[p] /\ Remembered(p)
        BY <2>4, <2>10, <3>2 DEF PermissionInv
      <4>2. pDecide'[pMemo[p].by] = "done"
        BY <2>6, <4>1 DEF PermissionInv, PermissionTypes, Remembered
      <4> QED BY <2>1, <4>1, <4>2 DEF Remembered
    <3> QED BY <3>1, <3>2
  <2> QED BY <2>7, <2>8, <2>9, <2>10, <2>11 DEF PermissionInv
<1>5. ASSUME NEW c \in ToolCalls, Permission!CallbackTimeout(c) PROVE PermissionInv'
  <2>1. /\ pTold[c] = "none" /\ pTold' = [pTold EXCEPT ![c] = "error"]
        /\ pRequest' = pRequest /\ pDecide' = pDecide /\ pAnswer' = pAnswer /\ pDecision' = pDecision
        /\ pMemo' = pMemo /\ pSettled' = pSettled
    BY <1>5 DEF Permission!CallbackTimeout
  <2>2. PermissionTypes'
    BY <2>1 DEF PermissionInv, PermissionTypes
  <2>3. ASSUME NEW e \in ToolCalls
        PROVE  Deciding(e)' /\ ((pTold'[e] = pTold[e] /\ pDecision'[e] = pDecision[e]) \/ Decided(e)')
    BY <2>1 DEF PermissionInv, PermissionTypes, Deciding, Decided
  <2> QED BY <2>1, <2>2, <2>3, PermissionKeeps
<1>6. CASE Permission!Reset
  <2>1. /\ DOMAIN pMemo' = {} /\ pSettled' = {}
        /\ pRequest' = pRequest /\ pDecide' = pDecide /\ pAnswer' = pAnswer /\ pDecision' = pDecision
        /\ pTold' = pTold
    BY <1>6 DEF Permission!Reset, Permission!AfterReset
  <2>2. PermissionTypes' /\ \A c \in ToolCalls : Deciding(c)' /\ Decided(c)'
    BY <2>1 DEF PermissionInv, PermissionTypes, Deciding, Decided
  <2> QED BY <2>1, <2>2 DEF PermissionInv
<1> QED BY <1>1, <1>2, <1>3, <1>4, <1>5, <1>6 DEF Permission!Next

LEMMA PermissionIsAnswered == PermissionInv => Permission!RememberedIsAnswered
BY DEF PermissionInv, Decided, Remembered, PersonsAnswers, Permission!RememberedIsAnswered,
       Permission!SaidYes

(***************************************************************************)
(* The client's callbacks                                                  *)
(***************************************************************************)
Prompts == ControlRequests \X Nat

ToolsTypes ==
  /\ tConfig \in [canUse : BOOLEAN, askUser : BOOLEAN, skip : BOOLEAN,
                  mode : {"unset", "plan", "bypassPermissions"}]
  /\ tKind \in [ControlRequests -> Tools!Kinds]
  /\ tPhase \in [ControlRequests -> {"idle", "running", "abandoned", "returned", "done"}]
  /\ tSaid = [r \in ControlRequests |-> tSaid[r]]
  /\ tReply = [r \in ControlRequests |-> tReply[r]]
  /\ tPrompted \in Prompts \cup {"nothing"}
  /\ tInput \in Seq(Prompts) /\ tRead \in [ControlRequests -> Seq(Prompts)]

\* Who is at work has a callback, and no more lines than questions.
Working(r) ==
  /\ tPhase[r] = "idle" => Len(tRead[r]) = 0
  /\ tPhase[r] \in {"running", "abandoned", "returned"} => Tools!Callback(r) # "nothing"
  /\ Tools!Reading(r) => Len(tRead[r]) < Questions
  /\ tSaid[r] = "allow answers" => Len(tRead[r]) = Questions /\ tPhase[r] \in {"returned", "done"}
  /\ tPhase[r] \in {"idle", "running"} => tSaid[r] = "nothing"

\* What was replied, and why.
Replied(r) ==
  /\ tReply[r] # "nothing" => tPhase[r] \in {"abandoned", "done"}
  /\ tReply[r] = "allow" =>
       \/ tSaid[r] = "allow" /\ Tools!Callback(r) # "nothing"
       \/ /\ tKind[r] = "tool" /\ Tools!Callback(r) = "nothing"
          /\ tConfig.skip \/ tConfig.mode = "bypassPermissions"
  /\ tReply[r] \in {"allow replaced", "allow answers"} =>
       tSaid[r] = tReply[r] /\ Tools!Callback(r) # "nothing"
  /\ tReply[r] = "deny" =>
       \/ tSaid[r] = "deny"
       \/ /\ Tools!Callback(r) = "nothing"
          /\ ~tConfig.skip /\ tConfig.mode # "bypassPermissions"
  /\ tReply[r] = "error" /\ Tools!PromptToolFlag /\ Tools!Permission(r) =>
       Tools!Callback(r) # "nothing"

\* The lines a request has read are those typed for its questions.
OwnLines(r) == \A i \in 1..Len(tRead[r]) : tRead[r][i] = <<r, i>>

\* The question a request waits for is shown, or its line is the one to be read.
Awaits(r) ==
  \/ Len(tInput) = 0 /\ tPrompted = <<r, Len(tRead[r]) + 1>>
  \/ Len(tInput) = 1 /\ tInput[1] = <<r, Len(tRead[r]) + 1>> /\ tPrompted = "nothing"

\* As long as no two read, the terminal is the reader's, or nobody's.
OneAtATime ==
  ~tShared =>
    /\ \A r \in ControlRequests : OwnLines(r) /\ (Tools!Reading(r) => Awaits(r))
    /\ \A r, s \in ControlRequests : Tools!Reading(r) /\ Tools!Reading(s) => r = s
    /\ (\A r \in ControlRequests : ~Tools!Reading(r)) =>
         Len(tInput) = 0 /\ (tPrompted = "nothing" \/ tEnded)

ToolsInv ==
  ToolsTypes /\ (\A r \in ControlRequests : Working(r) /\ Replied(r)) /\ OneAtATime

LEMMA ToolsStart == Tools!Init => ToolsInv
<1> SUFFICES ASSUME Tools!Init PROVE ToolsInv
  OBVIOUS
<1>1. ToolsTypes
  BY DEF Tools!Init, Tools!Nothing, ToolsTypes
<1>2. ASSUME NEW r \in ControlRequests
      PROVE  /\ tPhase[r] = "idle" /\ tSaid[r] = "nothing" /\ tReply[r] = "nothing"
             /\ Len(tRead[r]) = 0 /\ ~Tools!Reading(r)
  BY <1>2 DEF Tools!Init, Tools!Nothing, Tools!Reading
<1>3. ASSUME NEW r \in ControlRequests PROVE Working(r) /\ Replied(r) /\ OwnLines(r)
  <2>1. /\ tPhase[r] = "idle" /\ tSaid[r] = "nothing" /\ tReply[r] = "nothing"
        /\ Len(tRead[r]) = 0 /\ ~Tools!Reading(r)
    BY <1>2
  <2>2. Working(r)
    BY <2>1 DEF Working
  <2>3. Replied(r)
    BY <2>1 DEF Replied
  <2>4. OwnLines(r)
    BY <2>1 DEF OwnLines
  <2> QED BY <2>2, <2>3, <2>4
<1>4. Len(tInput) = 0 /\ tPrompted = "nothing"
  BY DEF Tools!Init, Tools!Nothing
<1> QED BY <1>1, <1>2, <1>3, <1>4 DEF ToolsInv, OneAtATime

\* The configuration and what is asked for never change.
LEMMA SameCallbacks ==
  ASSUME tConfig' = tConfig, tKind' = tKind
  PROVE  /\ \A r : Tools!Callback(r)' = Tools!Callback(r)
         /\ \A r : Tools!Permission(r)' <=> Tools!Permission(r)
         /\ Tools!PromptToolFlag' <=> Tools!PromptToolFlag
BY DEF Tools!Callback, Tools!Permission, Tools!PromptToolFlag, Tools!Routes, Tools!Asking,
       Tools!Nothing

\* A step of one request leaves the others as they were.
LEMMA OthersKept ==
  ASSUME ToolsInv, NEW r \in ControlRequests, tConfig' = tConfig, tKind' = tKind,
         \A s \in ControlRequests : s # r =>
           tPhase'[s] = tPhase[s] /\ tSaid'[s] = tSaid[s] /\ tReply'[s] = tReply[s]
           /\ tRead'[s] = tRead[s],
         Working(r)', Replied(r)'
  PROVE  \A s \in ControlRequests : Working(s)' /\ Replied(s)'
<1>1. SUFFICES ASSUME NEW s \in ControlRequests, s # r PROVE Working(s)' /\ Replied(s)'
  OBVIOUS
<1>2. /\ tPhase'[s] = tPhase[s] /\ tSaid'[s] = tSaid[s] /\ tReply'[s] = tReply[s]
      /\ tRead'[s] = tRead[s]
  BY <1>1
<1>3. /\ Tools!Callback(s)' = Tools!Callback(s)
      /\ Tools!Permission(s)' <=> Tools!Permission(s)
      /\ Tools!PromptToolFlag' <=> Tools!PromptToolFlag
  BY SameCallbacks
<1>4. Tools!Reading(s)' <=> Tools!Reading(s)
  BY <1>2, <1>3 DEF Tools!Reading
<1>5. Working(s)'
  BY <1>2, <1>3, <1>4 DEF ToolsInv, Working
<1>6. Replied(s)'
  BY <1>2, <1>3 DEF ToolsInv, Replied
<1> QED BY <1>5, <1>6

\* A step that neither reads nor types, nor makes anybody read or stop reading.
LEMMA TerminalKept ==
  ASSUME ToolsInv, tConfig' = tConfig, tKind' = tKind,
         tPrompted' = tPrompted, tInput' = tInput, tRead' = tRead,
         tEnded => tEnded', tShared' <=> tShared,
         \A s \in ControlRequests : Tools!Reading(s)' <=> Tools!Reading(s)
  PROVE  OneAtATime'
<1> SUFFICES ASSUME ~tShared' PROVE OneAtATime'
  BY DEF OneAtATime
<1>1. ASSUME NEW s \in ControlRequests PROVE OwnLines(s)' /\ (Tools!Reading(s)' => Awaits(s)')
  BY DEF ToolsInv, OneAtATime, OwnLines, Awaits
<1> QED BY <1>1 DEF ToolsInv, OneAtATime

LEMMA ToolsDecideAlone ==
  ASSUME ToolsInv, NEW r \in ControlRequests, Tools!DecideAlone(r) PROVE ToolsInv'
<1>1. /\ tPhase[r] = "idle" /\ Tools!Callback(r) = "nothing"
      /\ tPhase' = [tPhase EXCEPT ![r] = "done"]
      /\ tReply' = [tReply EXCEPT ![r] =
           IF Tools!Permission(r) /\ tConfig.askUser
           THEN IF Tools!DenyOtherTools THEN "deny" ELSE "allow"
           ELSE "error"]
      /\ tConfig' = tConfig /\ tKind' = tKind /\ tSaid' = tSaid /\ tPrompted' = tPrompted
      /\ tInput' = tInput /\ tRead' = tRead /\ tEnded' = tEnded /\ tShared' = tShared
  BY DEF Tools!DecideAlone, Tools!terminal, Tools!Nothing
<1>2. Tools!Callback(r)' = "nothing" /\ (Tools!Permission(r)' <=> Tools!Permission(r))
      /\ (Tools!PromptToolFlag' <=> Tools!PromptToolFlag)
  BY <1>1, SameCallbacks
<1>3. ToolsTypes'
  BY <1>1 DEF ToolsInv, ToolsTypes
<1>4. tPhase'[r] = "done"
  BY <1>1 DEF ToolsInv, ToolsTypes
<1>5. Working(r)'
  <2>1. tSaid[r] = "nothing"
    BY <1>1 DEF ToolsInv, Working
  <2>2. ~Tools!Reading(r)'
    BY <1>4 DEF Tools!Reading
  <2> QED BY <1>1, <1>4, <2>1, <2>2 DEF Working
<1>6. Replied(r)'
  <2>1. tReply'[r] = IF Tools!Permission(r) /\ tConfig.askUser
                     THEN IF Tools!DenyOtherTools THEN "deny" ELSE "allow"
                     ELSE "error"
    BY <1>1 DEF ToolsInv, ToolsTypes
  <2>2. Tools!Permission(r) /\ tConfig.askUser =>
          /\ tKind[r] = "tool"
          /\ Tools!DenyOtherTools <=> ~tConfig.skip /\ tConfig.mode # "bypassPermissions"
    BY <1>1 DEF ToolsInv, ToolsTypes, Tools!Callback, Tools!Permission, Tools!DenyOtherTools,
                Tools!ModeFlag, Tools!Routes, Tools!Asking, Tools!Nothing
  <2>3. Tools!PromptToolFlag /\ Tools!Permission(r) => tConfig.askUser
    BY <1>1 DEF Tools!Callback, Tools!Permission, Tools!PromptToolFlag, Tools!Routes, Tools!Nothing
  <2>4. CASE Tools!Permission(r) /\ tConfig.askUser
    <3>1. CASE Tools!DenyOtherTools
      <4>1. tReply'[r] = "deny" /\ ~tConfig'.skip /\ tConfig'.mode # "bypassPermissions"
        BY <1>1, <2>1, <2>2, <2>4, <3>1
      <4> QED BY <1>2, <1>4, <4>1 DEF Replied
    <3>2. CASE ~Tools!DenyOtherTools
      <4>1. /\ tReply'[r] = "allow" /\ tKind'[r] = "tool"
            /\ tConfig'.skip \/ tConfig'.mode = "bypassPermissions"
        BY <1>1, <2>1, <2>2, <2>4, <3>2
      <4> QED BY <1>2, <1>4, <4>1 DEF Replied
    <3> QED BY <3>1, <3>2
  <2>5. CASE ~(Tools!Permission(r) /\ tConfig.askUser)
    <3>1. tReply'[r] = "error"
      BY <2>1, <2>5
    <3>2. ~(Tools!PromptToolFlag /\ Tools!Permission(r))'
      BY <1>2, <2>3, <2>5
    <3> QED BY <1>4, <3>1, <3>2 DEF Replied
  <2> QED BY <2>4, <2>5
<1>7. \A s \in ControlRequests : Working(s)' /\ Replied(s)'
  <2>1. \A s \in ControlRequests : s # r => tPhase'[s] = tPhase[s] /\ tReply'[s] = tReply[s]
    BY <1>1 DEF ToolsInv, ToolsTypes
  <2> QED BY <1>1, <1>5, <1>6, <2>1, OthersKept
<1>8. OneAtATime'
  <2>1. \A s \in ControlRequests : Tools!Reading(s)' <=> Tools!Reading(s)
    BY <1>1, SameCallbacks DEF ToolsInv, ToolsTypes, Tools!Reading
  <2> QED BY <1>1, <2>1, TerminalKept
<1> QED BY <1>3, <1>7, <1>8 DEF ToolsInv

LEMMA ToolsStartCallback ==
  ASSUME ToolsInv, NEW r \in ControlRequests, Tools!StartCallback(r) PROVE ToolsInv'
<1>1. /\ tPhase[r] = "idle" /\ Tools!Callback(r) # "nothing"
      /\ tConfig' = tConfig /\ tKind' = tKind /\ tReply' = tReply
      /\ tInput' = tInput /\ tRead' = tRead /\ tEnded' = tEnded
  BY DEF Tools!StartCallback, Tools!terminal, Tools!Nothing
<1>2. \A s \in ControlRequests : Tools!Callback(s)' = Tools!Callback(s)
  BY <1>1, SameCallbacks
<1>3. /\ tSaid[r] = "nothing" /\ tReply[r] = "nothing" /\ Len(tRead[r]) = 0 /\ ~Tools!Reading(r)
  BY <1>1 DEF ToolsInv, Working, Replied, Tools!Reading
<1>4. CASE Tools!Callback(r) = "OnAskUser" /\ tKind[r] = "malformed question"
  <2>1. /\ tPhase' = [tPhase EXCEPT ![r] = "returned"] /\ tSaid' = [tSaid EXCEPT ![r] = "deny"]
        /\ tPrompted' = tPrompted /\ tShared' = tShared
    BY <1>4 DEF Tools!StartCallback, Tools!terminal
  <2>2. ToolsTypes' /\ tPhase'[r] = "returned" /\ tSaid'[r] = "deny"
    BY <1>1, <2>1 DEF ToolsInv, ToolsTypes
  <2>3. Working(r)' /\ Replied(r)'
    BY <1>1, <1>2, <1>3, <2>2 DEF Working, Replied, Tools!Reading
  <2>4. \A s \in ControlRequests : s # r => tPhase'[s] = tPhase[s] /\ tSaid'[s] = tSaid[s]
    BY <2>1 DEF ToolsInv, ToolsTypes
  <2>5. \A s \in ControlRequests : Working(s)' /\ Replied(s)'
    BY <1>1, <2>3, <2>4, OthersKept
  <2>6. \A s \in ControlRequests : Tools!Reading(s)' <=> Tools!Reading(s)
    BY <1>2, <1>3, <2>2, <2>4 DEF Tools!Reading
  <2>7. OneAtATime'
    BY <1>1, <2>1, <2>6, TerminalKept
  <2> QED BY <2>2, <2>5, <2>7 DEF ToolsInv
<1>5. CASE Tools!Callback(r) = "OnAskUser" /\ tKind[r] # "malformed question"
  <2>1. /\ tPhase' = [tPhase EXCEPT ![r] = "running"] /\ tSaid' = tSaid
        /\ tPrompted' = <<r, 1>>
        /\ tShared' <=> tShared \/ \E s \in ControlRequests : Tools!Reading(s)
    BY <1>5 DEF Tools!StartCallback
  <2>2. ToolsTypes' /\ tPhase'[r] = "running"
    <3>1. tPrompted' \in Prompts
      BY <2>1 DEF Prompts
    <3> QED BY <1>1, <2>1, <3>1 DEF ToolsInv, ToolsTypes
  <2>3. Working(r)' /\ Replied(r)'
    <3>1. /\ tPhase'[r] = "running" /\ tSaid'[r] = "nothing" /\ tReply'[r] = "nothing"
          /\ Tools!Callback(r)' # "nothing"
      BY <1>1, <1>2, <1>3, <2>1, <2>2
    <3>2. Len(tRead'[r]) < Questions
      BY <1>1, <1>3, QuestionsAssumption
    <3>3. Working(r)'
      BY <3>1, <3>2 DEF Working
    <3>4. Replied(r)'
      BY <3>1 DEF Replied
    <3> QED BY <3>3, <3>4
  <2>4. \A s \in ControlRequests : s # r => tPhase'[s] = tPhase[s]
    BY <2>1 DEF ToolsInv, ToolsTypes
  <2>5. \A s \in ControlRequests : Working(s)' /\ Replied(s)'
    BY <1>1, <2>1, <2>3, <2>4, OthersKept
  <2>6. OneAtATime'
    <3> SUFFICES ASSUME ~tShared' PROVE OneAtATime'
      BY DEF OneAtATime
    <3>1. ~tShared /\ (\A s \in ControlRequests : ~Tools!Reading(s)) /\ Len(tInput) = 0
      BY <2>1 DEF ToolsInv, OneAtATime
    <3>2. Tools!Reading(r)' /\ (\A s \in ControlRequests : s # r => ~Tools!Reading(s)')
      BY <1>2, <1>5, <2>2, <2>4, <3>1 DEF Tools!Reading
    <3>3. Awaits(r)'
      BY <1>1, <1>3, <2>1, <3>1 DEF Awaits
    <3>4. \A s \in ControlRequests : OwnLines(s)'
      BY <1>1, <3>1 DEF ToolsInv, OneAtATime, OwnLines
    <3> QED BY <3>2, <3>3, <3>4 DEF OneAtATime
  <2> QED BY <2>2, <2>5, <2>6 DEF ToolsInv
<1>6. CASE Tools!Callback(r) # "OnAskUser"
  <2>1. /\ tPhase' = [tPhase EXCEPT ![r] = "running"] /\ tSaid' = tSaid
        /\ tPrompted' = tPrompted /\ tShared' = tShared
    BY <1>6 DEF Tools!StartCallback
  <2>2. ToolsTypes' /\ tPhase'[r] = "running"
    BY <1>1, <2>1 DEF ToolsInv, ToolsTypes
  <2>3. Working(r)' /\ Replied(r)'
    <3>1. /\ tPhase'[r] = "running" /\ tSaid'[r] = "nothing" /\ tReply'[r] = "nothing"
          /\ Tools!Callback(r)' # "nothing"
      BY <1>1, <1>2, <1>3, <2>1, <2>2
    <3>2. Len(tRead'[r]) < Questions
      BY <1>1, <1>3, QuestionsAssumption
    <3>3. Working(r)'
      BY <3>1, <3>2 DEF Working
    <3>4. Replied(r)'
      BY <3>1 DEF Replied
    <3> QED BY <3>3, <3>4
  <2>4. \A s \in ControlRequests : s # r => tPhase'[s] = tPhase[s]
    BY <2>1 DEF ToolsInv, ToolsTypes
  <2>5. \A s \in ControlRequests : Working(s)' /\ Replied(s)'
    BY <1>1, <2>1, <2>3, <2>4, OthersKept
  <2>6. \A s \in ControlRequests : Tools!Reading(s)' <=> Tools!Reading(s)
    BY <1>2, <1>6, <2>4 DEF Tools!Reading
  <2>7. OneAtATime'
    BY <1>1, <2>1, <2>6, TerminalKept
  <2> QED BY <2>2, <2>5, <2>7 DEF ToolsInv
<1> QED BY <1>4, <1>5, <1>6

LEMMA ToolsReturn ==
  ASSUME ToolsInv, NEW r \in ControlRequests, Tools!Return(r) PROVE ToolsInv'
<1>1. PICK o \in Tools!Outcomes(Tools!Callback(r)) :
        /\ tPhase[r] = "running" /\ tSaid' = [tSaid EXCEPT ![r] = o]
        /\ tPhase' = [tPhase EXCEPT ![r] = "returned"]
        /\ Tools!Callback(r) = "OnAskUser" => tEnded /\ tInput = <<>>
        /\ tConfig' = tConfig /\ tKind' = tKind /\ tReply' = tReply /\ tPrompted' = tPrompted
        /\ tInput' = tInput /\ tRead' = tRead /\ tEnded' = tEnded /\ tShared' = tShared
  BY DEF Tools!Return, Tools!terminal
<1>2. \A s \in ControlRequests : Tools!Callback(s)' = Tools!Callback(s)
  BY <1>1, SameCallbacks
<1>3. o # "allow answers" /\ Tools!Callback(r) # "nothing" /\ tReply[r] = "nothing"
  <2>1. Tools!Callback(r) # "nothing" /\ tReply[r] = "nothing"
    BY <1>1 DEF ToolsInv, Working, Replied
  <2>2. Tools!Callback(r) \in {"OnAskUser", "CanUseTool", "hook"}
    BY <2>1 DEF Tools!Callback, Tools!Nothing
  <2> QED BY <2>1, <2>2 DEF Tools!Outcomes
<1>4. ToolsTypes' /\ tPhase'[r] = "returned" /\ tSaid'[r] = o
  BY <1>1 DEF ToolsInv, ToolsTypes
<1>5. Working(r)' /\ Replied(r)'
  BY <1>1, <1>2, <1>3, <1>4 DEF Working, Replied, Tools!Reading
<1>6. \A s \in ControlRequests : s # r => tPhase'[s] = tPhase[s] /\ tSaid'[s] = tSaid[s]
  BY <1>1 DEF ToolsInv, ToolsTypes
<1>7. \A s \in ControlRequests : Working(s)' /\ Replied(s)'
  BY <1>1, <1>5, <1>6, OthersKept
<1>8. OneAtATime'
  <2>1. CASE Tools!Callback(r) # "OnAskUser"
    <3>1. \A s \in ControlRequests : Tools!Reading(s)' <=> Tools!Reading(s)
      BY <1>2, <1>6, <2>1 DEF Tools!Reading
    <3> QED BY <1>1, <3>1, TerminalKept
  <2>2. CASE Tools!Callback(r) = "OnAskUser"
    <3>1. Tools!Reading(r) /\ ~Tools!Reading(r)' /\ tEnded /\ Len(tInput) = 0
      BY <1>1, <1>4, <2>2 DEF Tools!Reading
    <3>2. \A s \in ControlRequests : s # r => (Tools!Reading(s)' <=> Tools!Reading(s))
      BY <1>2, <1>6 DEF Tools!Reading
    <3> SUFFICES ASSUME ~tShared' PROVE OneAtATime'
      BY DEF OneAtATime
    <3>3. \A s \in ControlRequests : ~Tools!Reading(s)' /\ OwnLines(s)'
      BY <1>1, <3>1, <3>2 DEF ToolsInv, OneAtATime, OwnLines
    <3> QED BY <1>1, <3>1, <3>3 DEF OneAtATime
  <2> QED BY <2>1, <2>2
<1> QED BY <1>4, <1>7, <1>8 DEF ToolsInv

LEMMA ToolsTimeOutOrReply ==
  ASSUME ToolsInv, NEW r \in ControlRequests, Tools!TimeOut(r) \/ Tools!Reply(r) PROVE ToolsInv'
<1>1. PICK o, next :
        /\ tPhase' = [tPhase EXCEPT ![r] = next] /\ tReply' = [tReply EXCEPT ![r] = o]
        /\ \/ tPhase[r] = "running" /\ next = "abandoned" /\ o = "error"
           \/ tPhase[r] = "returned" /\ next = "done" /\ o \in {tSaid[r], "error"}
        /\ tConfig' = tConfig /\ tKind' = tKind /\ tSaid' = tSaid /\ tPrompted' = tPrompted
        /\ tInput' = tInput /\ tRead' = tRead /\ tEnded' = tEnded /\ tShared' = tShared
  BY DEF Tools!TimeOut, Tools!Reply, Tools!terminal
<1>2. \A s \in ControlRequests : Tools!Callback(s)' = Tools!Callback(s)
  BY <1>1, SameCallbacks
<1>3. ToolsTypes' /\ tPhase'[r] = next /\ tReply'[r] = o
  BY <1>1 DEF ToolsInv, ToolsTypes
<1>4. Tools!Callback(r) # "nothing" /\ (Tools!Reading(r)' <=> Tools!Reading(r))
  BY <1>1, <1>2, <1>3 DEF ToolsInv, Working, Tools!Reading
<1>5. Working(r)'
  BY <1>1, <1>2, <1>3, <1>4 DEF ToolsInv, Working
<1>6. Replied(r)'
  BY <1>1, <1>2, <1>3, <1>4 DEF Replied
<1>7. \A s \in ControlRequests : s # r => tPhase'[s] = tPhase[s] /\ tReply'[s] = tReply[s]
  BY <1>1 DEF ToolsInv, ToolsTypes
<1>8. \A s \in ControlRequests : Working(s)' /\ Replied(s)'
  BY <1>1, <1>5, <1>6, <1>7, OthersKept
<1>9. \A s \in ControlRequests : Tools!Reading(s)' <=> Tools!Reading(s)
  BY <1>2, <1>4, <1>7 DEF Tools!Reading
<1>10. OneAtATime'
  BY <1>1, <1>9, TerminalKept
<1> QED BY <1>3, <1>8, <1>10 DEF ToolsInv

LEMMA ToolsReadLine ==
  ASSUME ToolsInv, NEW r \in ControlRequests, Tools!ReadLine(r) PROVE ToolsInv'
<1> PICK line, more : line = Head(tInput) /\ more = Append(tRead[r], line)
  OBVIOUS
<1>1. /\ Tools!Reading(r) /\ Len(tRead[r]) < Questions /\ tInput # <<>>
      /\ tRead' = [tRead EXCEPT ![r] = more] /\ tInput' = Tail(tInput)
      /\ tConfig' = tConfig /\ tKind' = tKind /\ tReply' = tReply /\ tEnded' = tEnded
      /\ tShared' = tShared
  BY DEF Tools!ReadLine
<1>2. /\ line = tInput[1] /\ line \in Prompts /\ Len(tInput) >= 1
      /\ tInput' \in Seq(Prompts) /\ Len(tInput') = Len(tInput) - 1
  BY <1>1 DEF ToolsInv, ToolsTypes
<1>3. PICK n \in Nat : n = Len(tRead[r])
  <2>1. tRead[r] \in Seq(Prompts)
    BY DEF ToolsInv, ToolsTypes
  <2>2. Len(tRead[r]) \in Nat
    BY <2>1
  <2> QED BY <2>2
<1>4. /\ more \in Seq(Prompts) /\ Len(more) = n + 1 /\ more[n + 1] = line
      /\ \A i \in 1..n : more[i] = tRead[r][i]
  BY <1>2, <1>3 DEF ToolsInv, ToolsTypes
<1>5. tRead'[r] = more /\ tRead' \in [ControlRequests -> Seq(Prompts)]
  BY <1>1, <1>4 DEF ToolsInv, ToolsTypes
<1>6. \A s \in ControlRequests : Tools!Callback(s)' = Tools!Callback(s)
  BY <1>1, SameCallbacks
<1>7. Tools!Callback(r) = "OnAskUser" /\ tPhase[r] \in {"running", "abandoned"}
  BY <1>1 DEF Tools!Reading
<1>8. ASSUME ~tShared
      PROVE  /\ \A s \in ControlRequests : s # r => ~Tools!Reading(s)
             /\ Len(tInput) = 1 /\ line = <<r, n + 1>> /\ tPrompted = "nothing"
  BY <1>1, <1>2, <1>3, <1>8 DEF ToolsInv, OneAtATime, Awaits
<1>9. ASSUME ~tShared PROVE \A s \in ControlRequests : OwnLines(s)'
  <2>1. ASSUME NEW s \in ControlRequests, s # r PROVE OwnLines(s)'
    BY <1>1, <1>9, <2>1 DEF ToolsInv, ToolsTypes, OneAtATime, OwnLines
  <2>2. \A i \in 1..n : tRead[r][i] = <<r, i>>
    BY <1>3, <1>9 DEF ToolsInv, OneAtATime, OwnLines
  <2>3. ASSUME NEW i \in 1 .. n + 1 PROVE more[i] = <<r, i>>
    <3>1. CASE i = n + 1
      BY <1>4, <1>8, <1>9, <3>1
    <3>2. CASE i # n + 1
      <4>1. i \in 1..n
        BY <3>2
      <4> QED BY <1>4, <2>2, <4>1
    <3> QED BY <3>1, <3>2
  <2>4. OwnLines(r)'
    BY <1>4, <1>5, <2>3 DEF OwnLines
  <2> QED BY <2>1, <2>4
<1>10. CASE n + 1 < Questions
  <2>1. tPrompted' = <<r, n + 2>> /\ tPhase' = tPhase /\ tSaid' = tSaid
    <3>1. Len(tRead'[r]) < Questions /\ Len(tRead'[r]) + 1 = n + 2
      BY <1>4, <1>5, <1>10
    <3>2. /\ tPrompted' = <<r, Len(tRead'[r]) + 1>>
          /\ tPhase' = tPhase /\ tSaid' = tSaid
      BY <3>1 DEF Tools!ReadLine
    <3> QED BY <3>1, <3>2
  <2>2. ToolsTypes'
    <3>1. tPrompted' \in Prompts
      BY <2>1 DEF Prompts
    <3> QED BY <1>1, <1>2, <1>5, <2>1, <3>1 DEF ToolsInv, ToolsTypes
  <2>3. \A s \in ControlRequests : Tools!Reading(s)' <=> Tools!Reading(s)
    BY <1>6, <2>1 DEF Tools!Reading
  <2>4. Working(r)' /\ Replied(r)'
    <3>1. tSaid[r] # "allow answers"
      <4>1. Len(tRead[r]) # Questions
        BY <1>3, <1>10, QuestionsAssumption
      <4> QED BY <4>1 DEF ToolsInv, Working
    <3>2. Working(r)'
      BY <1>4, <1>5, <1>6, <1>7, <1>10, <2>1, <2>3, <3>1 DEF ToolsInv, Working
    <3>3. Replied(r)'
      BY <1>1, <1>6, <2>1, SameCallbacks DEF ToolsInv, Replied
    <3> QED BY <3>2, <3>3
  <2>5. \A s \in ControlRequests : s # r => tRead'[s] = tRead[s]
    BY <1>1 DEF ToolsInv, ToolsTypes
  <2>6. \A s \in ControlRequests : Working(s)' /\ Replied(s)'
    BY <1>1, <2>1, <2>4, <2>5, OthersKept
  <2>7. OneAtATime'
    <3> SUFFICES ASSUME ~tShared' PROVE OneAtATime'
      BY DEF OneAtATime
    <3>1. ~tShared
      BY <1>1
    <3>2. Len(tInput') = 0 /\ Len(tRead'[r]) + 1 = n + 2
      <4>1. Len(tInput) = 1
        BY <1>8, <3>1
      <4> QED BY <1>2, <1>4, <1>5, <4>1
    <3>3. Awaits(r)'
      BY <2>1, <3>2 DEF Awaits
    <3>4. \A s \in ControlRequests : s # r => ~Tools!Reading(s)'
      BY <1>8, <2>3, <3>1
    <3>5. Tools!Reading(r)'
      BY <1>1, <2>3
    <3> QED BY <1>9, <3>1, <3>3, <3>4, <3>5 DEF OneAtATime
  <2> QED BY <2>2, <2>6, <2>7 DEF ToolsInv
<1>11. CASE n + 1 = Questions
  <2>1. /\ tPhase' = IF tPhase[r] = "running" THEN [tPhase EXCEPT ![r] = "returned"]
                     ELSE [tPhase EXCEPT ![r] = "done"]
        /\ tSaid' = IF tPhase[r] = "running" THEN [tSaid EXCEPT ![r] = "allow answers"] ELSE tSaid
        /\ tPrompted' = tPrompted
    <3>1. ~(Len(tRead'[r]) < Questions)
      BY <1>4, <1>5, <1>11
    <3> QED BY <3>1 DEF Tools!ReadLine
  <2>2. ToolsTypes'
    BY <1>1, <1>2, <1>5, <2>1 DEF ToolsInv, ToolsTypes
  <2>3. /\ tPhase'[r] = IF tPhase[r] = "running" THEN "returned" ELSE "done"
        /\ tSaid'[r] = IF tPhase[r] = "running" THEN "allow answers" ELSE tSaid[r]
    BY <2>1 DEF ToolsInv, ToolsTypes
  <2>4. ~Tools!Reading(r)'
    BY <2>3 DEF Tools!Reading
  <2>5. Working(r)'
    <3>1. Len(tRead'[r]) = Questions
      BY <1>4, <1>5, <1>11
    <3> QED BY <1>6, <1>7, <2>3, <2>4, <3>1 DEF Working
  <2>6. Replied(r)'
    <3>1. CASE tPhase[r] = "running"
      <4>1. tReply'[r] = "nothing"
        BY <1>1, <3>1 DEF ToolsInv, Replied
      <4> QED BY <4>1 DEF Replied
    <3>2. CASE tPhase[r] # "running"
      <4>1. tPhase'[r] = "done" /\ tSaid'[r] = tSaid[r]
        BY <2>3, <3>2
      <4> QED BY <1>1, <1>6, <4>1, SameCallbacks DEF ToolsInv, Replied
    <3> QED BY <3>1, <3>2
  <2>7. \A s \in ControlRequests : s # r =>
          tPhase'[s] = tPhase[s] /\ tSaid'[s] = tSaid[s] /\ tRead'[s] = tRead[s]
    BY <1>1, <2>1 DEF ToolsInv, ToolsTypes
  <2>8. \A s \in ControlRequests : Working(s)' /\ Replied(s)'
    BY <1>1, <2>5, <2>6, <2>7, OthersKept
  <2>9. OneAtATime'
    <3> SUFFICES ASSUME ~tShared' PROVE OneAtATime'
      BY DEF OneAtATime
    <3>1. ~tShared
      BY <1>1
    <3>2. \A s \in ControlRequests : ~Tools!Reading(s)'
      BY <1>6, <1>8, <2>4, <2>7, <3>1 DEF Tools!Reading
    <3>3. Len(tInput') = 0 /\ tPrompted' = "nothing"
      <4>1. Len(tInput) = 1 /\ tPrompted = "nothing"
        BY <1>8, <3>1
      <4>2. tPrompted' = "nothing"
        BY <2>1, <4>1
      <4>3. Len(tInput') = 0
        BY <1>2, <4>1
      <4> QED BY <4>2, <4>3
    <3> QED BY <1>9, <3>1, <3>2, <3>3 DEF OneAtATime
  <2> QED BY <2>2, <2>8, <2>9 DEF ToolsInv
<1>12. n + 1 < Questions \/ n + 1 = Questions
  BY <1>1, <1>3, QuestionsAssumption
<1> QED BY <1>10, <1>11, <1>12

LEMMA ToolsTypeOrEnd ==
  ASSUME ToolsInv, Tools!Type \/ Tools!EndOfInput PROVE ToolsInv'
<1>1. /\ tConfig' = tConfig /\ tKind' = tKind /\ tPhase' = tPhase /\ tSaid' = tSaid
      /\ tReply' = tReply /\ tRead' = tRead /\ tShared' = tShared
  BY DEF Tools!Type, Tools!EndOfInput
<1>2. \A s \in ControlRequests : Tools!Callback(s)' = Tools!Callback(s)
  BY <1>1, SameCallbacks
<1>3. \A s \in ControlRequests : Tools!Reading(s)' <=> Tools!Reading(s)
  BY <1>1, <1>2 DEF Tools!Reading
<1>4. ASSUME NEW s \in ControlRequests PROVE Working(s)' /\ Replied(s)'
  <2>1. Working(s)'
    BY <1>1, <1>2, <1>3 DEF ToolsInv, Working
  <2>2. Replied(s)'
    BY <1>1, <1>2, SameCallbacks DEF ToolsInv, Replied
  <2> QED BY <2>1, <2>2
<1>5. CASE Tools!EndOfInput
  <2>1. tEnded' /\ tPrompted' = tPrompted /\ tInput' = tInput
    BY <1>5 DEF Tools!EndOfInput
  <2>2. ToolsTypes'
    BY <1>1, <2>1 DEF ToolsInv, ToolsTypes
  <2>3. OneAtATime'
    BY <1>1, <1>3, <2>1, TerminalKept
  <2> QED BY <1>4, <2>2, <2>3 DEF ToolsInv
<1>6. CASE Tools!Type
  <2>1. /\ tPrompted # "nothing" /\ ~tEnded /\ tPrompted' = "nothing"
        /\ tInput' = Append(tInput, tPrompted)
    BY <1>6 DEF Tools!Type, Tools!Nothing
  <2>2. ToolsTypes'
    BY <1>1, <2>1 DEF ToolsInv, ToolsTypes
  <2>3. OneAtATime'
    <3> SUFFICES ASSUME ~tShared' PROVE OneAtATime'
      BY DEF OneAtATime
    <3>1. ~tShared /\ \A s \in ControlRequests : OwnLines(s)'
      BY <1>1 DEF ToolsInv, OneAtATime, OwnLines
    <3>2. PICK r \in ControlRequests : Tools!Reading(r)
      BY <2>1, <3>1 DEF ToolsInv, OneAtATime
    <3>3. Len(tInput) = 0 /\ tPrompted = <<r, Len(tRead[r]) + 1>>
      BY <2>1, <3>1, <3>2 DEF ToolsInv, OneAtATime, Awaits
    <3>4. Len(tInput') = 1 /\ tInput'[1] = tPrompted
      BY <2>1, <3>3 DEF ToolsInv, ToolsTypes
    <3>5. Awaits(r)'
      BY <1>1, <2>1, <3>3, <3>4 DEF Awaits
    <3>6. \A s \in ControlRequests : Tools!Reading(s)' <=> s = r
      BY <1>3, <3>1, <3>2 DEF ToolsInv, OneAtATime
    <3> QED BY <3>1, <3>2, <3>5, <3>6 DEF OneAtATime
  <2> QED BY <1>4, <2>2, <2>3 DEF ToolsInv
<1> QED BY <1>5, <1>6

LEMMA ToolsStep == ToolsInv /\ [Tools!Next]_(Tools!vars) => ToolsInv'
<1> SUFFICES ASSUME ToolsInv, [Tools!Next]_(Tools!vars) PROVE ToolsInv'
  OBVIOUS
<1>1. CASE UNCHANGED Tools!vars
  <2>1. /\ tConfig' = tConfig /\ tKind' = tKind /\ tPhase' = tPhase /\ tSaid' = tSaid
        /\ tReply' = tReply /\ tRead' = tRead /\ tShared' = tShared /\ tEnded' = tEnded
        /\ tPrompted' = tPrompted /\ tInput' = tInput
    BY <1>1 DEF Tools!vars, Tools!terminal
  <2>2. \A s \in ControlRequests : Tools!Callback(s)' = Tools!Callback(s)
    BY <2>1, SameCallbacks
  <2>3. \A s \in ControlRequests : Tools!Reading(s)' <=> Tools!Reading(s)
    BY <2>1, <2>2 DEF Tools!Reading
  <2>4. ToolsTypes' /\ OneAtATime'
    BY <2>1, <2>3, TerminalKept DEF ToolsInv, ToolsTypes
  <2>5. ASSUME NEW s \in ControlRequests PROVE Working(s)' /\ Replied(s)'
    <3>1. Working(s)'
      BY <2>1, <2>2, <2>3 DEF ToolsInv, Working
    <3>2. Replied(s)'
      BY <2>1, <2>2, SameCallbacks DEF ToolsInv, Replied
    <3> QED BY <3>1, <3>2
  <2> QED BY <2>4, <2>5 DEF ToolsInv
<1>2. CASE Tools!Type \/ Tools!EndOfInput
  BY <1>2, ToolsTypeOrEnd
<1>3. ASSUME NEW r \in ControlRequests, Tools!DecideAlone(r) PROVE ToolsInv'
  BY <1>3, ToolsDecideAlone
<1>4. ASSUME NEW r \in ControlRequests, Tools!StartCallback(r) PROVE ToolsInv'
  BY <1>4, ToolsStartCallback
<1>5. ASSUME NEW r \in ControlRequests, Tools!Return(r) PROVE ToolsInv'
  BY <1>5, ToolsReturn
<1>6. ASSUME NEW r \in ControlRequests, Tools!TimeOut(r) \/ Tools!Reply(r) PROVE ToolsInv'
  BY <1>6, ToolsTimeOutOrReply
<1>7. ASSUME NEW r \in ControlRequests, Tools!ReadLine(r) PROVE ToolsInv'
  BY <1>7, ToolsReadLine
<1> QED BY <1>1, <1>2, <1>3, <1>4, <1>5, <1>6, <1>7 DEF Tools!Next

LEMMA ToolsDecide == ToolsInv => Tools!DecisionsAreTheCallers
<1> SUFFICES ASSUME ToolsInv PROVE Tools!DecisionsAreTheCallers
  OBVIOUS
<1>1. SUFFICES ASSUME NEW r \in ControlRequests
               PROVE
    /\ tReply[r] \in {"allow", "allow replaced", "allow answers"} =>
         \/ tSaid[r] = tReply[r] /\ Tools!Callback(r) # "nothing"
         \/ /\ tKind[r] = "tool" /\ Tools!Callback(r) = "nothing"
            /\ tConfig.skip \/ tConfig.mode = "bypassPermissions"
    /\ tReply[r] = "allow answers" => Len(tRead[r]) = Questions
    /\ tReply[r] = "deny" =>
         \/ tSaid[r] = "deny"
         \/ Tools!Callback(r) = "nothing" /\ ~tConfig.skip /\ tConfig.mode # "bypassPermissions"
    /\ tReply[r] = "error" /\ Tools!PromptToolFlag /\ Tools!Permission(r) =>
         Tools!Callback(r) # "nothing"
    /\ Tools!SkipFlag => ~Tools!PromptToolFlag
    /\ ~tShared => \A i \in DOMAIN tRead[r] : tRead[r][i] = <<r, i>>
  BY DEF Tools!DecisionsAreTheCallers, Tools!Nothing
<1>2. Working(r) /\ Replied(r)
  BY DEF ToolsInv
<1>3. ~tShared => \A i \in DOMAIN tRead[r] : tRead[r][i] = <<r, i>>
  <2>1. DOMAIN tRead[r] = 1..Len(tRead[r])
    BY DEF ToolsInv, ToolsTypes
  <2> QED BY <2>1 DEF ToolsInv, OneAtATime, OwnLines
<1>4. Tools!SkipFlag => ~Tools!PromptToolFlag
  BY DEF Tools!SkipFlag, Tools!PromptToolFlag
<1> QED BY <1>2, <1>3, <1>4 DEF Working, Replied

\* Whatever person, callbacks, CLI and clock do, concurrently and in whatever order, the CLI
\* is told what the person or the callback decided (Ask and Remember of permissions.go,
\* dispatchControl, runCallback and AnswerFromStdin of the client).
THEOREM DecisionsAreKeptAlways == Permission!Spec /\ Tools!Spec => []DecisionsAreKept
<1>1. Permission!Spec => []Permission!RememberedIsAnswered
  BY PermissionStart, PermissionStep, PermissionIsAnswered, PTL DEF Permission!Spec
<1>2. Tools!Spec => []Tools!DecisionsAreTheCallers
  BY ToolsStart, ToolsStep, ToolsDecide, PTL DEF Tools!Spec
<1> QED BY <1>1, <1>2, PTL DEF DecisionsAreKept

(***************************************************************************)
(* The worktrees of a fleet's tasks                                        *)
(***************************************************************************)

\* A task with a checkout made or being removed, and one whose worktree is there.
Holds(t) == wPc[t] \in {"running", "remove", "removing", "delete", "deleting"}
Inside(t) == wPc[t] \in {"running", "remove", "removing"}

TreesTypes ==
  /\ wSlug = [t \in Tasks |-> wSlug[t]] /\ \A t \in Tasks : wSlug[t] \in Slugs
  /\ wPc = [t \in Tasks |-> wPc[t]]
  /\ wOwner = [s \in Slugs |-> wOwner[s]]
  /\ wBatch \in Nat \ {0}

\* What a task works in is there, and its own.
Housed ==
  \A t \in Tasks : Inside(t) => wSlug[t] \in wTrees /\ wOwner[wSlug[t]] = t

\* A branch of this name is taken for a nested slug's.
Mistaken(b) == \E u \in Tasks : Trees!Nested(wSlug[u]) /\ b = Trees!Rebuilt(wSlug[u])

\* A branch of the repository's own that is gone, or is some task's now, was
\* taken for another.
Repository ==
  /\ \A b \in KeptBranches \ wBranches : Mistaken(b)
  /\ \A t \in Tasks : Holds(t) /\ wSlug[t] \in KeptBranches => Mistaken(wSlug[t])

\* Why there is a branch, if nothing was cancelled.
Leftover(b, t) ==
  /\ wSlug[t] = b
  /\ Holds(t) \/ (Trees!Nested(b) /\ (wPc[t] = "finished" \/ wBatch > 1))

\* As long as nothing was cancelled, what there is is somebody's.
Tidy ==
  /\ ~wCancelled
  /\ \A b \in wBranches \ KeptBranches : \E t \in Tasks : Leftover(b, t)
  /\ \A s \in wTrees : \E t \in Tasks : wSlug[t] = s /\ Inside(t)
  /\ \A t \in Tasks : wPc[t] = "refused" => Trees!InTheWay(t)

TreesInv ==
  /\ TreesTypes /\ Housed /\ wTrees \subseteq wBranches /\ Repository
  /\ wClean => Tidy

\* The name of a slug that is not nested is rebuilt as it was.
LEMMA RebuiltIsItself ==
  ASSUME NEW s \in Slugs, ~Trees!Nested(s)
  PROVE  Trees!Rebuilt(s) = s
<1>1. s \in Seq(STRING) /\ s # <<>>
  BY SlugsAssumption
<1>2. PICK n : n = Len(s)
  OBVIOUS
<1>3. Len(s) = 1
  <2>1. n \in Nat /\ n # 0
    BY <1>1, <1>2
  <2>2. ~(n > 1)
    BY <1>2 DEF Trees!Nested
  <2> QED BY <1>2, <2>1, <2>2
<1>4. s = <<s[1]>>
  BY <1>1, <1>3
<1> QED BY <1>3, <1>4 DEF Trees!Rebuilt, Trees!Last

\* Names depend on the slugs alone, and what is in a task's way also on the batch.
LEMMA NamesStay ==
  ASSUME wSlug' = wSlug
  PROVE  /\ \A b : Mistaken(b)' <=> Mistaken(b)
         /\ wBatch' = wBatch => \A t : Trees!InTheWay(t)' <=> Trees!InTheWay(t)
<1>1. \A b : Mistaken(b)' <=> Mistaken(b)
  BY DEF Mistaken
<1>2. wBatch' = wBatch => \A t : Trees!InTheWay(t)' <=> Trees!InTheWay(t)
  BY DEF Trees!InTheWay
<1> QED BY <1>1, <1>2

LEMMA TreesStart == Trees!Init => TreesInv
<1> SUFFICES ASSUME Trees!Init PROVE TreesInv
  OBVIOUS
<1>1. \A t \in Tasks : wPc[t] = "queued"
  BY DEF Trees!Init
<1>2. TreesTypes
  BY DEF Trees!Init, TreesTypes
<1>3. Housed /\ Repository
  BY <1>1 DEF Trees!Init, Housed, Repository, Holds, Inside
<1>4. Tidy /\ wTrees \subseteq wBranches
  BY <1>1 DEF Trees!Init, Tidy
<1> QED BY <1>2, <1>3, <1>4 DEF TreesInv

\* A step of one task leaves where the others are.
LEMMA TreesMove ==
  ASSUME TreesInv, NEW t \in Tasks, NEW x, Trees!Goto(t, x), wSlug' = wSlug,
         wBatch' = wBatch
  PROVE  /\ wPc' = [u \in Tasks |-> wPc'[u]] /\ wPc'[t] = x
         /\ \A u \in Tasks : u # t => wPc'[u] = wPc[u]
         /\ \A u \in Tasks : u # t => (Holds(u)' <=> Holds(u)) /\ (Inside(u)' <=> Inside(u))
         /\ \A b : \A u \in Tasks : u # t => (Leftover(b, u)' <=> Leftover(b, u))
<1>1. wPc' = [wPc EXCEPT ![t] = x]
  BY DEF Trees!Goto
<1>2. /\ wPc' = [u \in Tasks |-> wPc'[u]] /\ wPc'[t] = x
      /\ \A u \in Tasks : u # t => wPc'[u] = wPc[u]
  BY <1>1 DEF TreesInv, TreesTypes
<1>3. \A u \in Tasks : u # t => (Holds(u)' <=> Holds(u)) /\ (Inside(u)' <=> Inside(u))
  BY <1>2 DEF Holds, Inside
<1>4. \A b : \A u \in Tasks : u # t => (Leftover(b, u)' <=> Leftover(b, u))
  BY <1>2, <1>3 DEF Leftover
<1> QED BY <1>2, <1>3, <1>4

\* What is left of a task's step when the others have been seen to.
LEMMA TreesKeep ==
  ASSUME TreesInv, NEW t \in Tasks, NEW x, Trees!Goto(t, x), wSlug' = wSlug,
         wBatch' = wBatch, wOwner' = [s \in Slugs |-> wOwner'[s]],
         \A u \in Tasks : u # t /\ Inside(u) => wSlug[u] \in wTrees' /\ wOwner'[wSlug[u]] = u,
         Inside(t)' => wSlug[t] \in wTrees' /\ wOwner'[wSlug[t]] = t,
         Holds(t)' /\ ~Holds(t) /\ wSlug[t] \in KeptBranches => Mistaken(wSlug[t]),
         \A b \in KeptBranches : b \in wBranches /\ b \notin wBranches' => Mistaken(b),
         wTrees' \subseteq wBranches', wClean' => Tidy'
  PROVE  TreesInv'
<1>1. /\ wPc' = [u \in Tasks |-> wPc'[u]]
      /\ \A u \in Tasks : u # t => (Holds(u)' <=> Holds(u)) /\ (Inside(u)' <=> Inside(u))
  BY TreesMove
<1>2. TreesTypes'
  BY <1>1 DEF TreesInv, TreesTypes
<1>3. Housed'
  <2> SUFFICES ASSUME NEW u \in Tasks, Inside(u)'
               PROVE  wSlug[u] \in wTrees' /\ wOwner'[wSlug[u]] = u
    BY DEF Housed
  <2>1. CASE u = t
    BY <2>1
  <2>2. CASE u # t
    BY <1>1, <2>2
  <2> QED BY <2>1, <2>2
<1>4. Repository'
  <2>1. \A b : Mistaken(b)' <=> Mistaken(b)
    BY NamesStay
  <2>2. \A b \in KeptBranches \ wBranches' : Mistaken(b)'
    BY <2>1 DEF TreesInv, Repository
  <2>3. ASSUME NEW u \in Tasks, Holds(u)', wSlug[u] \in KeptBranches
        PROVE  Mistaken(wSlug[u])'
    <3>1. CASE u = t
      BY <2>1, <2>3, <3>1 DEF TreesInv, Repository
    <3>2. CASE u # t
      BY <1>1, <2>1, <2>3, <3>2 DEF TreesInv, Repository
    <3> QED BY <3>1, <3>2
  <2>4. \A u \in Tasks : Holds(u)' /\ wSlug[u] \in KeptBranches => Mistaken(wSlug[u])'
    BY <2>3
  <2> QED BY <2>2, <2>4 DEF Repository
<1> QED BY <1>2, <1>3, <1>4 DEF TreesInv

\* A step that leaves the checkouts alone, by a task that gets none; without a
\* cancellation it gives none up either, leaves no branch behind, and is not
\* refused for nothing.
LEMMA TreesQuiet ==
  ASSUME TreesInv, NEW t \in Tasks, NEW x, Trees!Goto(t, x),
         wSlug' = wSlug, wTrees' = wTrees, wBranches' = wBranches, wOwner' = wOwner,
         wCancelled' = wCancelled, wClean' = wClean, wBatch' = wBatch,
         Holds(t)' => Holds(t), Inside(t)' => Inside(t),
         wClean => /\ \A b \in wBranches : Leftover(b, t) => \E u \in Tasks : Leftover(b, u)'
                   /\ Inside(t) => Inside(t)'
                   /\ x = "refused" => Trees!InTheWay(t)
  PROVE  TreesInv'
<1>1. /\ wPc'[t] = x /\ \A u \in Tasks : u # t => wPc'[u] = wPc[u]
      /\ \A u \in Tasks : u # t => (Holds(u)' <=> Holds(u)) /\ (Inside(u)' <=> Inside(u))
      /\ \A b : \A u \in Tasks : u # t => (Leftover(b, u)' <=> Leftover(b, u))
  BY TreesMove
<1>2. \A u \in Tasks : u # t /\ Inside(u) => wSlug[u] \in wTrees' /\ wOwner'[wSlug[u]] = u
  BY DEF TreesInv, Housed
<1>3. Inside(t)' => wSlug[t] \in wTrees' /\ wOwner'[wSlug[t]] = t
  BY DEF TreesInv, Housed
<1>4. ASSUME wClean' PROVE Tidy'
  <2>1. Tidy /\ wClean
    BY <1>4 DEF TreesInv
  <2>2. \A u \in Tasks : Inside(u) => Inside(u)'
    BY <1>1, <2>1
  <2>3. ASSUME NEW b \in wBranches \ KeptBranches PROVE \E u \in Tasks : Leftover(b, u)'
    <3>1. PICK u \in Tasks : Leftover(b, u)
      BY <2>1 DEF Tidy
    <3>2. CASE u = t
      BY <2>1, <3>1, <3>2
    <3>3. CASE u # t
      BY <1>1, <3>1, <3>3
    <3> QED BY <3>2, <3>3
  <2>4. \A u \in Tasks : wPc'[u] = "refused" => Trees!InTheWay(u)'
    BY <1>1, <2>1, NamesStay DEF Tidy
  <2>5. \A s \in wTrees' : \E u \in Tasks : wSlug'[u] = s /\ Inside(u)'
    BY <2>1, <2>2 DEF Tidy
  <2>6. \A b \in wBranches' \ KeptBranches : \E u \in Tasks : Leftover(b, u)'
    BY <2>3
  <2> QED BY <2>1, <2>4, <2>5, <2>6 DEF Tidy
<1>5. wOwner' = [s \in Slugs |-> wOwner'[s]] /\ wTrees' \subseteq wBranches'
  BY DEF TreesInv, TreesTypes
<1> QED BY <1>2, <1>3, <1>4, <1>5, TreesKeep

LEMMA TreesGit ==
  ASSUME TreesInv, NEW t \in Tasks,
         Trees!Create(t) \/ Trees!RunEnds(t) \/ Trees!RemoveTree(t) \/ Trees!Delete(t)
  PROVE  TreesInv'
<1>1. PICK x : /\ Trees!Goto(t, x)
               /\ x = CASE wPc[t] = "queued" /\ wCancelled -> "refused"
                        [] wPc[t] = "queued" /\ ~wCancelled -> "adding"
                        [] wPc[t] = "running" -> "remove"
                        [] wPc[t] = "remove" /\ wCancelled -> "delete"
                        [] wPc[t] = "remove" /\ ~wCancelled -> "removing"
                        [] wPc[t] = "delete" /\ wCancelled -> "finished"
                        [] wPc[t] = "delete" /\ ~wCancelled -> "deleting"
  BY DEF Trees!Create, Trees!RunEnds, Trees!RemoveTree, Trees!Delete, Trees!RunGit
<1>2. /\ wPc[t] \in {"queued", "running", "remove", "delete"}
      /\ wSlug' = wSlug /\ wTrees' = wTrees /\ wBranches' = wBranches /\ wOwner' = wOwner
      /\ wCancelled' = wCancelled /\ wClean' = wClean /\ wBatch' = wBatch
  BY DEF Trees!Create, Trees!RunEnds, Trees!RemoveTree, Trees!Delete, Trees!RunGit
<1>3. wPc'[t] = x
  BY <1>1, <1>2, TreesMove
<1>4. (Holds(t)' => Holds(t)) /\ (Inside(t)' => Inside(t))
  BY <1>1, <1>2, <1>3 DEF Holds, Inside
<1>5. ASSUME wClean
      PROVE  (Holds(t) => Holds(t)') /\ (Inside(t) => Inside(t)') /\ x # "refused"
  <2>1. ~wCancelled
    BY <1>5 DEF TreesInv, Tidy
  <2> QED BY <1>1, <1>2, <1>3, <2>1 DEF Holds, Inside
<1>6. wClean => \A b \in wBranches : Leftover(b, t) => \E u \in Tasks : Leftover(b, u)'
  <2> SUFFICES ASSUME wClean, NEW b \in wBranches, Leftover(b, t) PROVE Leftover(b, t)'
    OBVIOUS
  <2>1. wPc[t] # "finished"
    BY <1>2
  <2> QED BY <1>2, <1>5, <2>1 DEF Leftover
<1> QED BY <1>1, <1>2, <1>4, <1>5, <1>6, TreesQuiet

LEMMA TreesAdd ==
  ASSUME TreesInv, NEW t \in Tasks, Trees!Added(t) \/ Trees!AddKilled(t)
  PROVE  TreesInv'
<1>1. /\ wPc[t] = "adding" /\ wSlug' = wSlug
      /\ wCancelled' = wCancelled /\ wClean' = wClean /\ wBatch' = wBatch
  BY DEF Trees!Added, Trees!AddKilled
<1>2. ~Holds(t) /\ ~Inside(t)
  BY <1>1 DEF Holds, Inside
<1>3. CASE /\ wTrees' = wTrees /\ wBranches' = wBranches /\ wOwner' = wOwner
           /\ Trees!Goto(t, "refused") /\ (wCancelled \/ ~Trees!Free(wSlug[t]))
  <2>1. wPc'[t] = "refused" /\ \A u \in Tasks : u # t => wPc'[u] = wPc[u]
    BY <1>1, <1>3, TreesMove
  <2>2. ~Holds(t)' /\ ~Inside(t)'
    BY <2>1 DEF Holds, Inside
  <2>3. ASSUME wClean PROVE Trees!InTheWay(t)
    <3>1. Tidy
      BY <2>3 DEF TreesInv
    <3>2. CASE wSlug[t] \in InvalidSlugs
      BY <3>2 DEF Trees!InTheWay
    <3>3. CASE \E b \in wBranches : Trees!Clash(b, wSlug[t])
      <4>1. PICK b \in wBranches : Trees!Clash(b, wSlug[t])
        BY <3>3
      <4>2. CASE b \in KeptBranches
        BY <4>1, <4>2 DEF Trees!InTheWay
      <4>3. CASE b \notin KeptBranches
        <5>1. PICK u \in Tasks : Leftover(b, u)
          BY <3>1, <4>3 DEF Tidy
        <5>2. CASE u = t
          BY <1>1, <1>2, <5>1, <5>2 DEF Leftover, Trees!InTheWay
        <5>3. CASE u # t
          BY <4>1, <5>1, <5>3 DEF Leftover, Trees!InTheWay
        <5> QED BY <5>2, <5>3
      <4> QED BY <4>2, <4>3
    <3> QED BY <1>3, <3>1, <3>2, <3>3 DEF Tidy, Trees!Free
  <2>4. \A b \in wBranches : Leftover(b, t) => \E u \in Tasks : Leftover(b, u)'
    BY <1>1, <1>2, <2>1 DEF Leftover
  <2> QED BY <1>1, <1>2, <1>3, <2>2, <2>3, <2>4, TreesQuiet
<1>4. CASE /\ Trees!Free(wSlug[t]) /\ wBranches' = wBranches \cup {wSlug[t]}
           /\ \/ wTrees' = wTrees /\ wOwner' = wOwner
              \/ /\ wTrees' = wTrees \cup {wSlug[t]}
                 /\ wOwner' = [wOwner EXCEPT ![wSlug[t]] = t]
           /\ \/ Trees!Goto(t, "refused") /\ wCancelled
              \/ /\ Trees!Goto(t, "running")
                 /\ wTrees' = wTrees \cup {wSlug[t]}
                 /\ wOwner' = [wOwner EXCEPT ![wSlug[t]] = t]
  <2>1. PICK x : Trees!Goto(t, x) /\ x \in {"refused", "running"}
                 /\ (x = "refused" => wCancelled)
                 /\ (x = "running" => /\ wTrees' = wTrees \cup {wSlug[t]}
                                      /\ wOwner' = [wOwner EXCEPT ![wSlug[t]] = t])
    BY <1>4
  <2>2. /\ wPc'[t] = x /\ \A u \in Tasks : u # t => wPc'[u] = wPc[u]
        /\ \A u \in Tasks : u # t => (Holds(u)' <=> Holds(u)) /\ (Inside(u)' <=> Inside(u))
        /\ \A b : \A u \in Tasks : u # t => (Leftover(b, u)' <=> Leftover(b, u))
    BY <1>1, <2>1, TreesMove
  <2>3. wSlug[t] \notin wBranches /\ wSlug[t] \notin wTrees /\ wSlug[t] \in Slugs
    BY <1>4 DEF Trees!Free, Trees!Clash, TreesInv, TreesTypes
  <2>4. /\ wOwner' = [s \in Slugs |-> wOwner'[s]]
        /\ \A s \in Slugs : s # wSlug[t] => wOwner'[s] = wOwner[s]
        /\ x = "running" => wOwner'[wSlug[t]] = t
    BY <1>4, <2>1, <2>3 DEF TreesInv, TreesTypes
  <2>5. wSlug[t] \in KeptBranches => Mistaken(wSlug[t])
    BY <2>3 DEF TreesInv, Repository
  <2>6. ASSUME NEW u \in Tasks, u # t, Inside(u)
        PROVE  wSlug[u] \in wTrees' /\ wOwner'[wSlug[u]] = u
    <3>1. wSlug[u] \in wTrees /\ wOwner[wSlug[u]] = u /\ wSlug[u] \in Slugs
      BY <2>6 DEF TreesInv, TreesTypes, Housed
    <3> QED BY <1>4, <2>3, <2>4, <3>1
  <2>7. \A b \in KeptBranches : b \in wBranches /\ b \notin wBranches' => Mistaken(b)
    BY <1>4
  <2>8. Inside(t)' => wSlug[t] \in wTrees' /\ wOwner'[wSlug[t]] = t
    BY <2>1, <2>2, <2>4 DEF Inside
  <2>9. wTrees' \subseteq wBranches'
    BY <1>4 DEF TreesInv
  <2>10. ASSUME wClean' PROVE Tidy'
    <3>1. Tidy
      BY <1>1, <2>10 DEF TreesInv
    <3>2. x = "running" /\ wTrees' = wTrees \cup {wSlug[t]} /\ ~wCancelled'
      BY <1>1, <2>1, <3>1 DEF Tidy
    <3>3. Holds(t)' /\ Inside(t)'
      BY <2>2, <3>2 DEF Holds, Inside
    <3>4. ASSUME NEW b \in wBranches' \ KeptBranches PROVE \E u \in Tasks : Leftover(b, u)'
      <4>1. CASE b = wSlug[t]
        BY <1>1, <3>3, <4>1 DEF Leftover
      <4>2. CASE b # wSlug[t]
        <5>1. PICK u \in Tasks : Leftover(b, u)
          BY <1>4, <3>1, <4>2 DEF Tidy
        <5>2. u # t
          BY <4>2, <5>1 DEF Leftover
        <5> QED BY <2>2, <5>1, <5>2
      <4> QED BY <4>1, <4>2
    <3>5. \A s \in wTrees' : \E u \in Tasks : wSlug'[u] = s /\ Inside(u)'
      BY <1>1, <1>2, <2>2, <3>1, <3>2, <3>3 DEF Tidy
    <3>6. \A u \in Tasks : wPc'[u] = "refused" => Trees!InTheWay(u)'
      BY <1>1, <2>2, <3>1, <3>2, NamesStay DEF Tidy
    <3>7. \A b \in wBranches' \ KeptBranches : \E u \in Tasks : Leftover(b, u)'
      BY <3>4
    <3> QED BY <1>1, <3>2, <3>5, <3>6, <3>7 DEF Tidy
  <2> QED BY <1>1, <2>1, <2>4, <2>5, <2>6, <2>7, <2>8, <2>9, <2>10, TreesKeep
<1> QED BY <1>3, <1>4 DEF Trees!Added, Trees!AddKilled, Trees!Refused

LEMMA TreesRemove ==
  ASSUME TreesInv, NEW t \in Tasks, Trees!Removed(t)
  PROVE  TreesInv'
<1>1. /\ wPc[t] = "removing" /\ Trees!Goto(t, "delete") /\ wSlug' = wSlug
      /\ wBranches' = wBranches
      /\ wCancelled' = wCancelled /\ wClean' = wClean /\ wBatch' = wBatch
  BY DEF Trees!Removed
<1>2. /\ wPc'[t] = "delete" /\ \A u \in Tasks : u # t => wPc'[u] = wPc[u]
      /\ \A u \in Tasks : u # t => (Holds(u)' <=> Holds(u)) /\ (Inside(u)' <=> Inside(u))
      /\ \A b : \A u \in Tasks : u # t => (Leftover(b, u)' <=> Leftover(b, u))
  BY <1>1, TreesMove
<1>3. Holds(t) /\ Holds(t)' /\ Inside(t) /\ ~Inside(t)'
  BY <1>1, <1>2 DEF Holds, Inside
<1>4. \A b : Leftover(b, t) => Leftover(b, t)'
  BY <1>1, <1>3 DEF Leftover
<1>5. /\ wSlug[t] \in Slugs
      /\ \A u \in Tasks : u # t /\ Inside(u) => wSlug[u] # wSlug[t]
  BY <1>3 DEF TreesInv, TreesTypes, Housed
<1>6. CASE wTrees' = wTrees /\ wOwner' = wOwner /\ wCancelled
  <2>1. ~wClean
    BY <1>6 DEF TreesInv, Tidy
  <2> QED BY <1>1, <1>3, <1>6, <2>1, TreesQuiet
<1>7. CASE wTrees' = wTrees \ {wSlug[t]} /\ wOwner' = [wOwner EXCEPT ![wSlug[t]] = Trees!Nobody]
  <2>1. /\ wOwner' = [s \in Slugs |-> wOwner'[s]]
        /\ \A s \in Slugs : s # wSlug[t] => wOwner'[s] = wOwner[s]
    BY <1>5, <1>7 DEF TreesInv, TreesTypes
  <2>2. ASSUME NEW u \in Tasks, u # t, Inside(u)
        PROVE  wSlug[u] \in wTrees' /\ wOwner'[wSlug[u]] = u
    <3>1. wSlug[u] \in wTrees /\ wOwner[wSlug[u]] = u /\ wSlug[u] \in Slugs
      BY <2>2 DEF TreesInv, TreesTypes, Housed
    <3> QED BY <1>5, <1>7, <2>1, <2>2, <3>1
  <2>3. wTrees' \subseteq wBranches'
    BY <1>1, <1>7 DEF TreesInv
  <2>4. ASSUME wClean' PROVE Tidy'
    <3>1. Tidy
      BY <1>1, <2>4 DEF TreesInv
    <3>2. \A b \in wBranches' \ KeptBranches : \E u \in Tasks : Leftover(b, u)'
      BY <1>1, <1>2, <1>4, <3>1 DEF Tidy
    <3>3. ASSUME NEW s \in wTrees' PROVE \E u \in Tasks : wSlug'[u] = s /\ Inside(u)'
      <4>1. PICK u \in Tasks : wSlug[u] = s /\ Inside(u)
        BY <1>7, <3>1 DEF Tidy
      <4> QED BY <1>1, <1>2, <1>7, <4>1
    <3>4. \A u \in Tasks : wPc'[u] = "refused" => Trees!InTheWay(u)'
      BY <1>1, <1>2, <3>1, NamesStay DEF Tidy
    <3> QED BY <1>1, <3>1, <3>2, <3>3, <3>4 DEF Tidy
  <2> QED BY <1>1, <1>3, <2>1, <2>2, <2>3, <2>4, TreesKeep
<1> QED BY <1>6, <1>7 DEF Trees!Removed, Trees!Gone

\* The branch deleted is the task's own, or one mistaken for it.
LEMMA TreesDelete ==
  ASSUME TreesInv, NEW t \in Tasks, Trees!Deleted(t)
  PROVE  TreesInv'
<1>1. PICK name : name = Trees!Rebuilt(wSlug[t])
  OBVIOUS
<1>2. /\ wPc[t] = "deleting" /\ Trees!Goto(t, "finished") /\ wSlug' = wSlug
      /\ wTrees' = wTrees /\ wOwner' = wOwner
      /\ wCancelled' = wCancelled /\ wClean' = wClean /\ wBatch' = wBatch
      /\ \/ name \notin wTrees /\ wBranches' = wBranches \ {name}
         \/ (name \in wTrees \/ wCancelled) /\ wBranches' = wBranches
  BY <1>1 DEF Trees!Deleted
<1>3. /\ wPc'[t] = "finished" /\ \A u \in Tasks : u # t => wPc'[u] = wPc[u]
      /\ \A u \in Tasks : u # t => (Holds(u)' <=> Holds(u)) /\ (Inside(u)' <=> Inside(u))
      /\ \A b : \A u \in Tasks : u # t => (Leftover(b, u)' <=> Leftover(b, u))
  BY <1>2, TreesMove
<1>4. Holds(t) /\ ~Holds(t)' /\ ~Inside(t) /\ ~Inside(t)'
  BY <1>2, <1>3 DEF Holds, Inside
<1>5. wSlug[t] \in Slugs
  BY DEF TreesInv, TreesTypes
<1>6. ~Trees!Nested(wSlug[t]) => name = wSlug[t]
  BY <1>1, <1>5, RebuiltIsItself
<1>7. \A b : b = wSlug[t] /\ Trees!Nested(b) => Leftover(b, t)'
  BY <1>2, <1>3 DEF Leftover
<1>8. CASE wBranches' = wBranches /\ (name \in wTrees \/ wCancelled)
  <2>1. ASSUME wClean, NEW b \in wBranches, Leftover(b, t) PROVE \E u \in Tasks : Leftover(b, u)'
    <3>1. b = wSlug[t]
      BY <2>1 DEF Leftover
    <3>2. CASE ~Trees!Nested(wSlug[t])
      <4>1. Tidy
        BY <2>1 DEF TreesInv
      <4>2. name \in wTrees
        BY <1>8, <4>1 DEF Tidy
      <4>3. PICK u \in Tasks : wSlug[u] = name /\ Inside(u)
        BY <4>1, <4>2 DEF Tidy
      <4>4. u # t /\ Holds(u)
        BY <1>4, <4>3 DEF Inside, Holds
      <4>5. Leftover(b, u)
        BY <1>6, <3>1, <3>2, <4>3, <4>4 DEF Leftover
      <4> QED BY <1>3, <4>4, <4>5
    <3> QED BY <1>7, <3>1, <3>2
  <2> QED BY <1>2, <1>4, <1>8, <2>1, TreesQuiet
<1>9. CASE wBranches' = wBranches \ {name} /\ name \notin wTrees
  <2>1. wOwner' = [s \in Slugs |-> wOwner'[s]]
    BY <1>2 DEF TreesInv, TreesTypes
  <2>2. \A u \in Tasks : u # t /\ Inside(u) => wSlug[u] \in wTrees' /\ wOwner'[wSlug[u]] = u
    BY <1>2 DEF TreesInv, Housed
  <2>3. ASSUME name \in KeptBranches PROVE Mistaken(name)
    <3>1. CASE Trees!Nested(wSlug[t])
      BY <1>1, <3>1 DEF Mistaken
    <3>2. CASE ~Trees!Nested(wSlug[t])
      BY <1>4, <1>6, <2>3, <3>2 DEF TreesInv, Repository
    <3> QED BY <3>1, <3>2
  <2>4. \A b \in KeptBranches : b \in wBranches /\ b \notin wBranches' => Mistaken(b)
    BY <1>9, <2>3
  <2>5. wTrees' \subseteq wBranches'
    BY <1>2, <1>9 DEF TreesInv
  <2>6. ASSUME wClean' PROVE Tidy'
    <3>1. Tidy
      BY <1>2, <2>6 DEF TreesInv
    <3>2. ASSUME NEW b \in wBranches' \ KeptBranches PROVE \E u \in Tasks : Leftover(b, u)'
      <4>1. PICK u \in Tasks : Leftover(b, u)
        BY <1>9, <3>1 DEF Tidy
      <4>2. CASE u # t
        BY <1>3, <4>1, <4>2
      <4>3. CASE u = t
        <5>1. b = wSlug[t] /\ b # name
          BY <1>9, <4>1, <4>3 DEF Leftover
        <5> QED BY <1>6, <1>7, <5>1
      <4> QED BY <4>2, <4>3
    <3>3. \A s \in wTrees' : \E u \in Tasks : wSlug'[u] = s /\ Inside(u)'
      BY <1>2, <1>3, <1>4, <3>1 DEF Tidy
    <3>4. \A u \in Tasks : wPc'[u] = "refused" => Trees!InTheWay(u)'
      BY <1>2, <1>3, <3>1, NamesStay DEF Tidy
    <3>5. \A b \in wBranches' \ KeptBranches : \E u \in Tasks : Leftover(b, u)'
      BY <3>2
    <3> QED BY <1>2, <3>1, <3>3, <3>4, <3>5 DEF Tidy
  <2> QED BY <1>2, <1>4, <2>1, <2>2, <2>4, <2>5, <2>6, TreesKeep
<1> QED BY <1>2, <1>8, <1>9

LEMMA TreesStep == TreesInv /\ [Trees!Next]_(Trees!vars) => TreesInv'
<1> SUFFICES ASSUME TreesInv, [Trees!Next]_(Trees!vars) PROVE TreesInv'
  OBVIOUS
<1>1. ASSUME /\ wSlug' = wSlug /\ wPc' = wPc /\ wTrees' = wTrees /\ wBranches' = wBranches
             /\ wOwner' = wOwner /\ wBatch' = wBatch
             /\ wClean' => wClean /\ wCancelled' = wCancelled
      PROVE  TreesInv'
  <2>1. TreesTypes' /\ Housed' /\ (wTrees \subseteq wBranches)'
    BY <1>1 DEF TreesInv, TreesTypes, Housed, Inside
  <2>2. Repository'
    BY <1>1, NamesStay DEF TreesInv, Repository, Holds
  <2>3. wClean' => Tidy'
    <3> SUFFICES ASSUME wClean' PROVE Tidy'
      OBVIOUS
    <3>1. Tidy
      BY <1>1 DEF TreesInv
    <3>2. \A b : \A u \in Tasks : Leftover(b, u)' <=> Leftover(b, u)
      BY <1>1 DEF Leftover, Holds
    <3>3. \A u \in Tasks : Inside(u)' <=> Inside(u)
      BY <1>1 DEF Inside
    <3> QED BY <1>1, <3>1, <3>2, <3>3, NamesStay DEF Tidy
  <2> QED BY <2>1, <2>2, <2>3 DEF TreesInv
<1>2. CASE UNCHANGED Trees!vars \/ Trees!Cancel
  BY <1>1, <1>2 DEF Trees!vars, Trees!Cancel
<1>3. CASE Trees!RunAgain
  <2>1. /\ wPc' = [u \in Tasks |-> "queued"] /\ \A u \in Tasks : wPc[u] \in {"finished", "refused"}
        /\ wSlug' = wSlug /\ wTrees' = wTrees /\ wBranches' = wBranches
        /\ wOwner' = wOwner /\ wClean' = wClean /\ wCancelled' = FALSE
        /\ wBatch' = wBatch + 1
    BY <1>3 DEF Trees!RunAgain, Trees!Over
  <2>2. \A u \in Tasks : ~Holds(u) /\ ~Inside(u) /\ wPc'[u] = "queued"
    BY <2>1 DEF Holds, Inside
  <2>3. \A u \in Tasks : ~Holds(u)' /\ ~Inside(u)'
    BY <2>2 DEF Holds, Inside
  <2>4. TreesTypes' /\ wBatch' > 1
    BY <2>1 DEF TreesInv, TreesTypes
  <2>5. Housed' /\ Repository'
    BY <2>1, <2>3, NamesStay DEF TreesInv, Housed, Repository
  <2>6. ASSUME wClean PROVE Tidy'
    <3>1. Tidy
      BY <2>6 DEF TreesInv
    <3>2. \A b \in wBranches' \ KeptBranches : \E u \in Tasks : Leftover(b, u)'
      BY <2>1, <2>2, <2>4, <3>1 DEF Tidy, Leftover
    <3>3. \A s \in wTrees' : \E u \in Tasks : wSlug'[u] = s /\ Inside(u)'
      BY <2>1, <2>2, <3>1 DEF Tidy
    <3> QED BY <2>1, <2>2, <3>2, <3>3 DEF Tidy
  <2> QED BY <2>1, <2>4, <2>5, <2>6 DEF TreesInv
<1>4. CASE \E t \in Tasks :
             \/ Trees!Create(t) \/ Trees!RunEnds(t) \/ Trees!RemoveTree(t) \/ Trees!Delete(t)
  BY <1>4, TreesGit
<1>5. CASE \E t \in Tasks : Trees!Added(t) \/ Trees!AddKilled(t)
  BY <1>5, TreesAdd
<1>6. CASE \E t \in Tasks : Trees!Removed(t) \/ Trees!Deleted(t)
  BY <1>6, TreesRemove, TreesDelete
<1> QED BY <1>2, <1>3, <1>4, <1>5, <1>6 DEF Trees!Next

LEMMA TreesAreKept == TreesInv => Trees!WorktreesAreKept
<1> SUFFICES ASSUME TreesInv PROVE Trees!WorktreesAreKept
  OBVIOUS
<1>1. \A t \in Tasks : wPc[t] \in {"running", "remove"} =>
        wSlug[t] \in wTrees \cap wBranches /\ wOwner[wSlug[t]] = t
  BY DEF TreesInv, Housed, Inside
<1>2. wClean /\ (\A t \in Tasks : wPc[t] \in {"finished", "refused"}) =>
        /\ wTrees = {}
        /\ \A b \in wBranches \ KeptBranches : \E t \in Tasks : b = wSlug[t] /\ Trees!Nested(b)
  <2> SUFFICES ASSUME wClean, \A t \in Tasks : wPc[t] \in {"finished", "refused"}
               PROVE  /\ wTrees = {}
                      /\ \A b \in wBranches \ KeptBranches :
                           \E t \in Tasks : b = wSlug[t] /\ Trees!Nested(b)
    OBVIOUS
  <2>1. \A t \in Tasks : ~Holds(t) /\ ~Inside(t)
    BY DEF Holds, Inside
  <2>2. Tidy
    BY DEF TreesInv
  <2> QED BY <2>1, <2>2 DEF Tidy, Leftover
<1>3. wTrees \subseteq wBranches
  BY DEF TreesInv
<1>4. \A b \in KeptBranches \ wBranches :
        \E t \in Tasks : Trees!Nested(wSlug[t]) /\ b = Trees!Rebuilt(wSlug[t])
  BY DEF TreesInv, Repository, Mistaken
<1>5. wClean => \A t \in Tasks : wPc[t] = "refused" => Trees!InTheWay(t)
  BY DEF TreesInv, Tidy
<1> QED BY <1>1, <1>2, <1>3, <1>4, <1>5 DEF Trees!WorktreesAreKept, Trees!Over

(***************************************************************************)
(* The check of the target before a run                                    *)
(***************************************************************************)

\* Comparing number after number finds the order of two versions.
LEMMA LowerIsLess ==
  ASSUME NEW v \in Nat \X Nat \X Nat, NEW m \in Nat \X Nat \X Nat
  PROVE  ~Target!Lower(v, m) <=> Target!AtLeast(v, m)
<1>1. /\ v[1] \in Nat /\ v[2] \in Nat /\ v[3] \in Nat
      /\ m[1] \in Nat /\ m[2] \in Nat /\ m[3] \in Nat
  OBVIOUS
<1> DEFINE Below(i) == v[i] < m[i] /\ \A j \in 1 .. i - 1 : v[j] = m[j]
<1>2. Target!Lower(v, m) <=> Below(1) \/ Below(2) \/ Below(3)
  <2>1. 1..3 = {1, 2, 3}
    OBVIOUS
  <2> QED BY <2>1 DEF Target!Lower
<1>3. Below(1) <=> v[1] < m[1]
  <2>1. \A j \in 1 .. 1 - 1 : FALSE
    OBVIOUS
  <2> QED BY <2>1
<1>4. Below(2) <=> v[2] < m[2] /\ v[1] = m[1]
  <2>1. 1 .. 2 - 1 = {1}
    OBVIOUS
  <2> QED BY <2>1
<1>5. Below(3) <=> v[3] < m[3] /\ v[1] = m[1] /\ v[2] = m[2]
  <2>1. 1 .. 3 - 1 = {1, 2}
    OBVIOUS
  <2> QED BY <2>1
<1> HIDE DEF Below
<1> QED BY <1>1, <1>2, <1>3, <1>4, <1>5 DEF Target!AtLeast

Readable == qTarget.binary = "ok" /\ qTarget.version # Unparsable
Supported == Readable /\ Target!AtLeast(qTarget.version, MinCLIVersion)

\* What the error of the check says of the target.
Judged ==
  /\ qFailure = "nil" => Supported /\ (qTarget.env \/ qTarget.auth # "out")
  /\ qFailure = "ErrClaudeNotFound" => qTarget.binary = "absent"
  /\ qFailure = "ErrCLITooOld" =>
       qTarget.binary = "ok" /\ ~Target!AtLeast(qTarget.version, MinCLIVersion)
  /\ qFailure = "ErrNotAuthenticated" => Supported /\ ~qTarget.env /\ qTarget.auth = "out"
  /\ qFailure = "context" => qTarget.slow \/ qFirst \in qCancelled
  /\ qFailure \notin {"nil", "ErrClaudeNotFound", "ErrCLITooOld", "ErrNotAuthenticated",
                      "context"} =>
       qTarget.binary = "fails" \/ qTarget.version = Unparsable

TargetInv ==
  /\ qTarget \in CheckedTargets /\ qRun = [r \in Starters |-> qRun[r]]
  /\ qOnce = "auth" => Supported /\ ~qTarget.env
  /\ qOnce = "done" => Judged
  /\ qChecked => qTarget.env \/ qTarget.auth = "in"
  /\ \A r \in Starters :
       /\ qRun[r] = "started" => qOnce = "done" /\ qFailure = "nil"
       /\ qRun[r] = "refused" => qOnce = "done" /\ qFailure # "nil"

LEMMA TargetStart == Target!Init => TargetInv
  BY DEF Target!Init, TargetInv

LEMMA TargetVersion == ASSUME TargetInv, Target!Version PROVE TargetInv'
<1>1. /\ qOnce = "version" /\ qTarget' = qTarget /\ qFirst' = qFirst /\ qRun' = qRun
      /\ qCancelled' = qCancelled
  BY DEF Target!Version
<1>2. \A r \in Starters : qRun'[r] # "started" /\ qRun'[r] # "refused"
  BY <1>1 DEF TargetInv
<1>3. /\ Readable' <=> Readable
      /\ Supported' <=> Supported
  BY <1>1 DEF Readable, Supported, Target!AtLeast
<1>4. Readable => (~Target!Lower(qTarget.version, MinCLIVersion)
                    <=> Target!AtLeast(qTarget.version, MinCLIVersion))
  <2>1. Readable => qTarget.version \in Nat \X Nat \X Nat
    BY VersionsAssumption DEF TargetInv, Readable
  <2> QED BY <2>1, VersionsAssumption, LowerIsLess
<1>5. SUFFICES /\ qOnce' = "auth" => Supported /\ ~qTarget.env
               /\ qOnce' = "done" => Judged'
               /\ qChecked' => qTarget.env \/ qTarget.auth = "in"
  BY <1>1, <1>2, <1>3 DEF TargetInv
<1>6. CASE Readable /\ ~Target!Lower(qTarget.version, MinCLIVersion) /\ qTarget.env
           /\ qChecked' = TRUE /\ qOnce' = "done" /\ qFailure' = "nil"
  BY <1>3, <1>4, <1>1, <1>6 DEF Supported, Judged
<1>7. CASE Readable /\ ~Target!Lower(qTarget.version, MinCLIVersion) /\ ~qTarget.env
           /\ qOnce' = "auth" /\ qChecked' = qChecked
  BY <1>4, <1>7 DEF Supported, TargetInv
<1>8. CASE /\ qOnce' = "done" /\ qChecked' = qChecked
           /\ \/ qTarget.binary = "absent" /\ qFailure' = "ErrClaudeNotFound"
              \/ qTarget.binary = "fails" /\ qFailure' = "--version failed"
              \/ qTarget.version = Unparsable /\ qFailure' = "cannot parse version"
              \/ /\ Readable /\ Target!Lower(qTarget.version, MinCLIVersion)
                 /\ qFailure' = "ErrCLITooOld"
              \/ Target!Cut /\ qFailure' = "context"
  <2>1. Judged'
    <3>1. qTarget' = qTarget /\ qFirst' = qFirst /\ qCancelled' = qCancelled
      BY <1>1
    <3>2. Target!AtLeast(qTarget.version, MinCLIVersion)' <=>
          Target!AtLeast(qTarget.version, MinCLIVersion)
      BY <3>1 DEF Target!AtLeast
    <3> QED BY <1>4, <1>8, <3>1, <3>2 DEF Judged, Readable, Target!Cut
  <2> QED BY <1>8, <2>1 DEF TargetInv
<1> QED BY <1>6, <1>7, <1>8 DEF Target!Version, Target!Finish, Readable

LEMMA TargetAuth == ASSUME TargetInv, Target!Auth PROVE TargetInv'
<1>1. /\ qOnce = "auth" /\ qTarget' = qTarget /\ qFirst' = qFirst /\ qRun' = qRun
      /\ qCancelled' = qCancelled /\ qOnce' = "done"
  BY DEF Target!Auth, Target!Finish
<1>2. \A r \in Starters : qRun'[r] # "started" /\ qRun'[r] # "refused"
  BY <1>1 DEF TargetInv
<1>3. Supported' /\ ~qTarget.env
  BY <1>1 DEF TargetInv, Readable, Supported, Target!AtLeast
<1>4. \/ /\ qChecked' = (qTarget.auth = "in")
         /\ qFailure' = IF qTarget.auth = "out" THEN "ErrNotAuthenticated" ELSE "nil"
      \/ Target!Cut /\ qFailure' = "context" /\ qChecked' = qChecked
  BY DEF Target!Auth, Target!Finish, Target!AuthChecked
<1>5. Judged'
  BY <1>1, <1>3, <1>4 DEF Judged, Target!Cut
<1>6. qChecked' => qTarget.env \/ qTarget.auth = "in"
  BY <1>4 DEF TargetInv
<1> QED BY <1>1, <1>2, <1>5, <1>6 DEF TargetInv

LEMMA TargetStep == TargetInv /\ [Target!Next]_(Target!vars) => TargetInv'
<1> SUFFICES ASSUME TargetInv, [Target!Next]_(Target!vars) PROVE TargetInv'
  OBVIOUS
<1>1. CASE UNCHANGED Target!vars
  BY <1>1 DEF Target!vars, TargetInv, Judged, Supported, Readable, Target!AtLeast
<1>2. ASSUME NEW r \in Starters, Target!Begin(r) PROVE TargetInv'
  <2>1. /\ qTarget' = qTarget /\ qChecked' = qChecked /\ qFailure' = qFailure
        /\ qCancelled' = qCancelled /\ qRun' = [qRun EXCEPT ![r] = "waits"]
        /\ \/ qOnce = "new" /\ qOnce' = "version"
           \/ qOnce' = qOnce /\ qFirst' = qFirst
    BY <1>2 DEF Target!Begin
  <2>2. /\ qRun' = [s \in Starters |-> qRun'[s]] /\ qRun'[r] = "waits"
        /\ \A s \in Starters : s # r => qRun'[s] = qRun[s]
    BY <2>1 DEF TargetInv
  <2>3. (Supported' <=> Supported) /\ (qOnce' = "done" /\ Judged => Judged')
    BY <2>1 DEF Judged, Supported, Readable, Target!AtLeast
  <2> QED BY <2>1, <2>2, <2>3 DEF TargetInv
<1>3. ASSUME NEW r \in Starters, Target!Go(r) PROVE TargetInv'
  <2>1. /\ qTarget' = qTarget /\ qChecked' = qChecked /\ qFailure' = qFailure
        /\ qCancelled' = qCancelled /\ qOnce' = qOnce /\ qFirst' = qFirst /\ qOnce = "done"
        /\ qRun' = [qRun EXCEPT ![r] = IF qFailure # "nil" THEN "refused" ELSE "started"]
    BY <1>3 DEF Target!Go, Target!Refuses
  <2>2. /\ qRun' = [s \in Starters |-> qRun'[s]]
        /\ qRun'[r] = IF qFailure # "nil" THEN "refused" ELSE "started"
        /\ \A s \in Starters : s # r => qRun'[s] = qRun[s]
    BY <2>1 DEF TargetInv
  <2>3. (Supported' <=> Supported) /\ (Judged => Judged')
    BY <2>1 DEF Judged, Supported, Readable, Target!AtLeast
  <2> QED BY <2>1, <2>2, <2>3 DEF TargetInv
<1>4. ASSUME NEW r \in Starters, Target!Cancel(r) PROVE TargetInv'
  BY <1>4 DEF Target!Cancel, TargetInv, Judged, Supported, Readable, Target!AtLeast
<1> QED BY <1>1, <1>2, <1>3, <1>4, TargetVersion, TargetAuth DEF Target!Next

LEMMA TargetIsVerified == TargetInv => Target!OnlyVerifiedTargetsRun
<1> SUFFICES ASSUME TargetInv PROVE Target!OnlyVerifiedTargetsRun
  OBVIOUS
<1>1. /\ Target!OldEnough <=> Supported
      /\ Target!LoggedOut <=> qTarget.auth = "out" /\ ~qTarget.env
  BY DEF Target!OldEnough, Supported, Readable, Target!LoggedOut
<1>2. ASSUME NEW r \in Starters, qRun[r] = "started"
      PROVE  Target!OldEnough /\ ~Target!LoggedOut
  BY <1>1, <1>2 DEF TargetInv, Judged
<1>3. ASSUME NEW r \in Starters, qRun[r] = "refused"
      PROVE  CASE qFailure = "ErrClaudeNotFound" -> qTarget.binary = "absent"
               [] qFailure = "ErrCLITooOld" ->
                    qTarget.binary = "ok"
                    /\ ~Target!AtLeast(qTarget.version, MinCLIVersion)
               [] qFailure = "ErrNotAuthenticated" -> Target!OldEnough /\ Target!LoggedOut
               [] qFailure = "context" -> qTarget.slow \/ qFirst \in qCancelled
               [] OTHER -> qTarget.binary = "fails" \/ qTarget.version = Unparsable
  <2>1. Judged /\ qFailure # "nil"
    BY <1>3 DEF TargetInv
  <2>2. CASE qFailure = "ErrClaudeNotFound"
    BY <2>1, <2>2 DEF Judged
  <2>3. CASE qFailure = "ErrCLITooOld"
    BY <2>1, <2>3 DEF Judged
  <2>4. CASE qFailure = "ErrNotAuthenticated"
    BY <1>1, <2>1, <2>4 DEF Judged
  <2>5. CASE qFailure = "context"
    BY <2>1, <2>5 DEF Judged
  <2>6. CASE qFailure \notin {"ErrClaudeNotFound", "ErrCLITooOld", "ErrNotAuthenticated",
                              "context"}
    BY <2>1, <2>6 DEF Judged
  <2> QED BY <2>2, <2>3, <2>4, <2>5, <2>6
<1> QED BY <1>2, <1>3 DEF TargetInv, Target!OnlyVerifiedTargetsRun

\* A task at work has a checkout of its own, whatever its siblings, their slugs and a
\* cancellation do (runTask of fleet.go, workspace.go), and a run a target that was
\* verified, whoever checked it (preflight.go, beginRun of plugin.go).
THEOREM RunsAreSetUpAlways == Trees!Spec /\ Target!Spec => []RunsAreSetUp
<1>1. Trees!Spec => []Trees!WorktreesAreKept
  BY TreesStart, TreesStep, TreesAreKept, PTL DEF Trees!Spec
<1>2. Target!Spec => []Target!OnlyVerifiedTargetsRun
  BY TargetStart, TargetStep, TargetIsVerified, PTL DEF Target!Spec
<1> QED BY <1>1, <1>2, PTL DEF RunsAreSetUp

(***************************************************************************)
(* A node of branches                                                      *)
(***************************************************************************)
Ran(b) == br[b] \in {"ended", "joined"}

ParallelTypes ==
  /\ started \in 0..BranchCount
  /\ br = [b \in Branches |-> br[b]] /\ how = [b \in Branches |-> how[b]]
  /\ steps \subseteq Branches

\* A branch is in the report as soon as it has ended, and was cancelled for a reason.
BranchKept(b) ==
  /\ b > started => br[b] = "idle"
  /\ b \in steps <=> Ran(b)
  /\ Ran(b) => how[b] # Nothing
  /\ br[b] = "joined" /\ first = Nothing => how[b] = "ok"
  /\ Ran(b) /\ how[b] = "cancelled" => outer \/ first # Nothing \/ err = "clone panicked"

\* The first error is that of a branch that was joined, and no doing of the node's.
FirstKept ==
  /\ first # Nothing =>
       /\ \E b \in Branches : br[b] = "joined" /\ first = ErrorOf(b)
       /\ first = "cancelled" => outer \/ err = "clone panicked"
  /\ cancelled => first # Nothing \/ pc = "returned"

\* What the node is about to return.
NodeKept ==
  /\ pc \in {"fork", "merge"} => err = Nothing /\ ~merged
  /\ pc = "merge" => Joined /\ first = Nothing
  /\ pc = "returned" =>
       \/ err = "clone panicked" /\ ~merged
       \/ Joined /\ first # Nothing /\ err = first /\ ~merged
       \/ /\ Joined /\ first = Nothing /\ merged
          /\ err \in {Nothing, "merge failed", "interrupt in parallel"}
  /\ pc \in {"fork", "merge", "returned"}

ParallelInv ==
  ParallelTypes /\ (\A b \in Branches : BranchKept(b)) /\ FirstKept /\ NodeKept

LEMMA ParallelStart == Init => ParallelInv
<1> SUFFICES ASSUME Init PROVE ParallelInv
  OBVIOUS
<1>1. \A b \in Branches : br[b] = "idle" /\ how[b] = Nothing
  BY DEF Init
<1>2. ParallelTypes
  BY BranchCountAssumption DEF Init, ParallelTypes
<1>3. \A b \in Branches : BranchKept(b)
  BY <1>1 DEF Init, BranchKept, Ran
<1> QED BY <1>2, <1>3 DEF Init, ParallelInv, FirstKept, NodeKept

\* A branch goes on, and the others stay where they are.
LEMMA BranchMoves ==
  ASSUME ParallelInv, NEW b \in Branches, NEW x, br' = [br EXCEPT ![b] = x]
  PROVE  /\ br' = [c \in Branches |-> br'[c]] /\ br'[b] = x
         /\ \A c \in Branches : c # b => br'[c] = br[c] /\ (Ran(c)' <=> Ran(c))
  BY DEF ParallelInv, ParallelTypes, Ran

LEMMA ParallelBranch ==
  ASSUME ParallelInv, NEW b \in Branches, EndBranch(b) PROVE ParallelInv'
<1>1. PICK h : /\ how' = [how EXCEPT ![b] = h]
               /\ h = "cancelled" => cancelled \/ outer
               /\ h \in {"ok", "failed", "panicked", "asked", "cancelled"}
  BY DEF EndBranch
<1>2. /\ br[b] = "running" /\ br' = [br EXCEPT ![b] = "ended"] /\ steps' = steps \cup {b}
      /\ pc' = pc /\ started' = started /\ first' = first /\ cancelled' = cancelled
      /\ outer' = outer /\ merged' = merged /\ err' = err
  BY DEF EndBranch
<1>3. /\ br' = [c \in Branches |-> br'[c]] /\ br'[b] = "ended"
      /\ \A c \in Branches : c # b => br'[c] = br[c] /\ (Ran(c)' <=> Ran(c))
  BY <1>2, BranchMoves
<1>4. /\ how' = [c \in Branches |-> how'[c]] /\ how'[b] = h
      /\ \A c \in Branches : c # b => how'[c] = how[c]
  BY <1>1 DEF ParallelInv, ParallelTypes
<1>5. ~Joined
  BY <1>2 DEF Joined
<1>6. pc = "fork" \/ (pc = "returned" /\ err = "clone panicked" /\ ~merged)
  BY <1>5 DEF ParallelInv, NodeKept
<1>7. ParallelTypes'
  BY <1>2, <1>3, <1>4 DEF ParallelInv, ParallelTypes
<1>8. BranchKept(b)'
  <2>1. ~(b > started)
    BY <1>2 DEF ParallelInv, BranchKept
  <2>2. h # Nothing
    BY <1>1 DEF Nothing
  <2>3. cancelled => first # Nothing \/ err = "clone panicked"
    BY <1>6 DEF ParallelInv, FirstKept
  <2>4. Ran(b)' /\ br'[b] # "joined" /\ b \in steps'
    BY <1>2, <1>3 DEF Ran
  <2> QED BY <1>1, <1>2, <1>4, <2>1, <2>2, <2>3, <2>4 DEF BranchKept
<1>9. ASSUME NEW c \in Branches PROVE BranchKept(c)'
  <2>1. CASE c # b
    BY <1>2, <1>3, <1>4, <2>1 DEF ParallelInv, BranchKept
  <2> QED BY <1>8, <2>1
<1>10. FirstKept'
  BY <1>2, <1>3, <1>4 DEF ParallelInv, FirstKept, ErrorOf
<1>11. NodeKept'
  BY <1>2, <1>6 DEF NodeKept, ParallelInv
<1> QED BY <1>7, <1>9, <1>10, <1>11 DEF ParallelInv

LEMMA ParallelReports ==
  ASSUME ParallelInv, NEW b \in Branches, BranchReports(b) PROVE ParallelInv'
<1>1. /\ br[b] = "ended" /\ br' = [br EXCEPT ![b] = "joined"] /\ steps' = steps /\ how' = how
      /\ pc' = pc /\ started' = started /\ outer' = outer /\ merged' = merged /\ err' = err
      /\ \/ /\ how[b] # "ok" /\ first = Nothing
            /\ first' = ErrorOf(b) /\ cancelled' = TRUE
         \/ /\ how[b] = "ok" \/ first # Nothing
            /\ first' = first /\ cancelled' = cancelled
  BY DEF BranchReports, Report
<1>2. /\ br' = [c \in Branches |-> br'[c]] /\ br'[b] = "joined"
      /\ \A c \in Branches : c # b => br'[c] = br[c] /\ (Ran(c)' <=> Ran(c))
  BY <1>1, BranchMoves
<1>3. ~Joined
  BY <1>1 DEF Joined
<1>4. pc = "fork" \/ (pc = "returned" /\ err = "clone panicked" /\ ~merged)
  BY <1>3 DEF ParallelInv, NodeKept
<1>5. /\ Ran(b) /\ Ran(b)' /\ b \in steps /\ ~(b > started)
      /\ how[b] = "cancelled" => outer \/ first # Nothing \/ err = "clone panicked"
  BY <1>1, <1>2 DEF Ran, ParallelInv, BranchKept
<1>6. first' = Nothing => first = Nothing /\ how[b] = "ok"
  <2>1. how[b] # Nothing
    BY <1>5 DEF ParallelInv, BranchKept
  <2> QED BY <1>1, <2>1 DEF ErrorOf, Nothing
<1>7. ParallelTypes'
  BY <1>1, <1>2 DEF ParallelInv, ParallelTypes
<1>8. ASSUME NEW c \in Branches PROVE BranchKept(c)'
  BY <1>1, <1>2, <1>5, <1>6 DEF ParallelInv, BranchKept
<1>9. FirstKept'
  <2>1. CASE first' = first /\ cancelled' = cancelled
    BY <1>1, <1>2, <2>1 DEF ParallelInv, FirstKept, ErrorOf
  <2>2. CASE first = Nothing /\ first' = ErrorOf(b) /\ cancelled' = TRUE
    <3>1. first' = "cancelled" => outer \/ err = "clone panicked"
      BY <1>5, <2>2 DEF ErrorOf
    <3>2. first' = ErrorOf(b)'
      BY <1>1, <2>2 DEF ErrorOf
    <3>3. first' # Nothing
      <4>1. how[b] # Nothing
        BY <1>5 DEF ParallelInv, BranchKept
      <4> QED BY <2>2, <4>1 DEF ErrorOf, Nothing
    <3> QED BY <1>1, <1>2, <3>1, <3>2, <3>3 DEF FirstKept
  <2> QED BY <1>1, <2>1, <2>2
<1>10. NodeKept'
  BY <1>1, <1>4 DEF NodeKept, ParallelInv
<1> QED BY <1>7, <1>8, <1>9, <1>10 DEF ParallelInv

LEMMA ParallelStep == ParallelInv /\ [Next]_vars => ParallelInv'
<1> SUFFICES ASSUME ParallelInv, [Next]_vars PROVE ParallelInv'
  OBVIOUS
<1>1. CASE UNCHANGED vars
  BY <1>1 DEF vars, ParallelInv, ParallelTypes, BranchKept, Ran, FirstKept, NodeKept, ErrorOf,
              Joined
<1>2. CASE StartBranch
  <2>1. PICK b \in Branches : b = started + 1
    BY <1>2, BranchCountAssumption DEF StartBranch, ParallelInv, ParallelTypes, Branches
  <2>2. /\ pc = "fork" /\ started' = b /\ br' = [br EXCEPT ![b] = "running"]
        /\ started < BranchCount /\ started \in Nat
        /\ pc' = pc /\ how' = how /\ first' = first /\ cancelled' = cancelled
        /\ outer' = outer /\ steps' = steps /\ merged' = merged /\ err' = err
    BY <1>2, <2>1 DEF StartBranch, ParallelInv, ParallelTypes
  <2>3. /\ br' = [c \in Branches |-> br'[c]] /\ br'[b] = "running"
        /\ \A c \in Branches : c # b => br'[c] = br[c] /\ (Ran(c)' <=> Ran(c))
    BY <2>2, BranchMoves
  <2>4. br[b] = "idle" /\ ~Ran(b) /\ ~Ran(b)' /\ b \notin steps
    <3>1. b > started
      BY <2>1, <2>2
    <3>2. br[b] = "idle" /\ (b \in steps <=> Ran(b))
      BY <3>1 DEF ParallelInv, BranchKept
    <3> QED BY <2>3, <3>2 DEF Ran
  <2>5. ParallelTypes'
    BY <2>1, <2>2, <2>3, BranchCountAssumption DEF ParallelInv, ParallelTypes
  <2>6. ASSUME NEW c \in Branches PROVE BranchKept(c)'
    <3>1. c > started' => c > started /\ c # b
      BY <2>1, <2>2 DEF Branches
    <3> QED BY <2>2, <2>3, <2>4, <3>1 DEF ParallelInv, BranchKept
  <2>7. FirstKept'
    BY <2>2, <2>3, <2>4 DEF ParallelInv, FirstKept, ErrorOf
  <2>8. NodeKept'
    BY <2>2 DEF ParallelInv, NodeKept
  <2> QED BY <2>5, <2>6, <2>7, <2>8 DEF ParallelInv
<1>3. CASE ClonePanics
  BY <1>3 DEF ClonePanics, ParallelInv, ParallelTypes, BranchKept, Ran, FirstKept, NodeKept,
              ErrorOf, Joined, Nothing
<1>4. CASE Join
  BY <1>4 DEF Join, ParallelInv, ParallelTypes, BranchKept, Ran, FirstKept, NodeKept,
              ErrorOf, Joined, Nothing
<1>5. CASE Merge
  BY <1>5 DEF Merge, ParallelInv, ParallelTypes, BranchKept, Ran, FirstKept, NodeKept,
              ErrorOf, Joined, Nothing
<1>6. CASE OuterEnds
  BY <1>6 DEF OuterEnds, ParallelInv, ParallelTypes, BranchKept, Ran, FirstKept, NodeKept,
              ErrorOf, Joined
<1> QED BY <1>1, <1>2, <1>3, <1>4, <1>5, <1>6, ParallelBranch, ParallelReports DEF Next

LEMMA ParallelIsHonest == ParallelInv => ParallelIsAllOrNothing
<1> SUFFICES ASSUME ParallelInv PROVE ParallelIsAllOrNothing
  OBVIOUS
<1>1. ASSUME Joined
      PROVE  \A b \in Branches : br[b] = "joined" /\ b \in steps /\ (first = Nothing => how[b] = "ok")
  BY <1>1 DEF ParallelInv, BranchKept, Ran, Joined
<1>2. merged => pc = "returned" /\ Joined /\ first = Nothing
  BY DEF ParallelInv, NodeKept
<1>3. merged => \A b \in Branches : how[b] = "ok"
  BY <1>1, <1>2
<1>4. ASSUME pc = "returned"
      PROVE  /\ err = "clone panicked" \/ \A b \in Branches : br[b] = "joined" /\ b \in steps
             /\ err = Nothing => merged
             /\ err \in {"failed", "panicked"} => \E b \in steps : how[b] = err
             /\ err = "cancelled" => outer
             /\ (\E b \in steps : how[b] = "asked") => err # Nothing
  <2>1. CASE err = "clone panicked"
    BY <2>1 DEF Nothing
  <2>2. CASE Joined /\ first # Nothing /\ err = first
    <3>1. PICK b \in Branches : br[b] = "joined" /\ first = ErrorOf(b)
      BY <2>2 DEF ParallelInv, FirstKept
    <3>2. b \in steps /\ (err \in {"failed", "panicked"} => how[b] = err)
      BY <1>1, <2>2, <3>1 DEF ErrorOf
    <3>3. err = "cancelled" => outer
      BY <2>2 DEF ParallelInv, FirstKept
    <3> QED BY <1>1, <2>2, <3>2, <3>3
  <2>3. CASE Joined /\ first = Nothing /\ merged
             /\ err \in {Nothing, "merge failed", "interrupt in parallel"}
    <3>1. \A b \in steps : how[b] = "ok"
      BY <1>3, <2>3 DEF ParallelInv, ParallelTypes
    <3> QED BY <1>1, <2>3, <3>1 DEF Nothing
  <2> QED BY <1>4, <2>1, <2>2, <2>3 DEF ParallelInv, NodeKept
<1> QED BY <1>3, <1>4 DEF ParallelIsAllOrNothing

(***************************************************************************)
(* A node of agents                                                        *)
(***************************************************************************)
Sessions == AgentCalls \cup {Recovered}
Logged == {aRecord[i] : i \in DOMAIN aRecord}

\* What a call has added to the node's cost so far.
Bill(c) == IF aPc[c] = "billed" THEN aResult[c].cost ELSE 0
Bills == [c \in AgentCalls |-> Bill(c)]

AgentTypes ==
  /\ aGiven \subseteq AgentCalls
  /\ aPc = [c \in AgentCalls |-> aPc[c]] /\ aResumed = [c \in AgentCalls |-> aResumed[c]]
  /\ aResult = [c \in AgentCalls |-> aResult[c]]
  /\ aRecord \in Seq(Sessions) /\ aSess \in Sessions \cup {"none"} /\ aHeard \subseteq Sessions
  /\ \A c \in AgentCalls : aResult[c].cost \in Nat

\* A call resumes what it was told to, from its start on.
CallKept(c) ==
  /\ aPc[c] = "idle" => aResumed[c] = "none"
  /\ aPc[c] # "idle" => aResumed[c] = Agent!ToResume(c)
  /\ aPc[c] = "noting" => Agent!Notes

\* The session noted last is in the log, or a call is about to write it; what a call
\* tells its caller is in it.
LogKept ==
  Agent!Notes /\ Agent!Alone =>
    /\ \/ aSess = "none" \/ aSess \in Logged
       \/ \E c \in AgentCalls : aPc[c] = "noting" /\ Agent!SessionOf(c) = aSess
    /\ \A c \in AgentCalls : aPc[c] = "told" => Agent!SessionOf(c) \in Logged
    /\ aHeard \subseteq Logged

CostKept == aCost = SumOver(Bills, AgentCalls)

ResultKept ==
  /\ aNode # "running" => \A c \in AgentCalls : aPc[c] = "billed"
  /\ aNode = "applied" => \A c \in AgentCalls : Agent!Good(c)

AgentInv ==
  /\ AgentTypes /\ (\A c \in AgentCalls : CallKept(c))
  /\ LogKept /\ CostKept /\ ResultKept

LEMMA AgentStart == Agent!Init => AgentInv
<1> SUFFICES ASSUME Agent!Init PROVE AgentInv
  OBVIOUS
<1>1. \A c \in AgentCalls : /\ aPc[c] = "idle" /\ aResumed[c] = "none"
                            /\ aResult[c].cost = 0
  BY DEF Agent!Init, Agent!None, Agent!NoResult
<1>2. /\ aRecord = <<>> /\ aSess = "none" /\ aHeard = {} /\ aCost = 0 /\ aNode = "running"
      /\ aPc = [c \in AgentCalls |-> aPc[c]] /\ aResumed = [c \in AgentCalls |-> aResumed[c]]
      /\ aResult = [c \in AgentCalls |-> aResult[c]] /\ aGiven \subseteq AgentCalls
  BY DEF Agent!Init, Agent!None
<1>3. AgentTypes
  BY <1>1, <1>2 DEF AgentTypes
<1>4. \A c \in AgentCalls : CallKept(c)
  BY <1>1 DEF CallKept
<1>5. LogKept
  BY <1>1, <1>2 DEF LogKept
<1>6. CostKept
  <2>1. \A c \in AgentCalls : Bills[c] = 0
    BY <1>1 DEF Bills, Bill
  <2> QED BY <1>2, <2>1, AgentAssumption, SumOfNothing DEF CostKept
<1>7. ResultKept
  BY <1>2 DEF ResultKept
<1> QED BY <1>3, <1>4, <1>5, <1>6, <1>7 DEF AgentInv

\* The session of a call is a session, and calls that continue different ones have
\* different ones.
LEMMA SessionsApart ==
  ASSUME AgentInv
  PROVE  /\ \A c \in AgentCalls : Agent!SessionOf(c) \in Sessions /\ Agent!SessionOf(c) # "none"
         /\ Agent!Alone => \A c, d \in AgentCalls :
              Agent!SessionOf(c) = Agent!SessionOf(d) => c = d
<1>1. \A c \in AgentCalls : aResumed[c] \in {"none", c, Recovered}
  BY DEF AgentInv, CallKept, Agent!ToResume, Agent!None
<1>2. \A c \in AgentCalls : Agent!SessionOf(c) \in {c, Recovered}
  BY <1>1 DEF Agent!SessionOf, Agent!None
<1>3. ASSUME Agent!Alone, NEW c \in AgentCalls, NEW d \in AgentCalls,
             Agent!SessionOf(c) = Agent!SessionOf(d), c # d
      PROVE  FALSE
  <2>1. aResumed[c] # aResumed[d] \/ aResumed[c] = "none"
    BY <1>3 DEF Agent!Alone, Agent!None
  <2> QED BY <1>1, <1>3, <2>1, AgentAssumption DEF Agent!SessionOf, Agent!None
<1> QED BY <1>2, <1>3, AgentAssumption DEF Sessions

\* A call that moves on, with the session it had, and is not billed.
LEMMA AgentMoves ==
  ASSUME AgentInv, NEW c \in AgentCalls, NEW x, aPc' = [aPc EXCEPT ![c] = x],
         x # "idle", aPc[c] # "idle", aPc[c] # "billed", x # "billed", aResumed' = aResumed,
         aSetup' = aSetup, aGiven' = aGiven, aCost' = aCost, aNode' = aNode,
         aResult' = [d \in AgentCalls |-> aResult'[d]], aResult'[c].cost \in Nat,
         \A d \in AgentCalls : d # c => aResult'[d] = aResult[d],
         aRecord' \in Seq(Sessions), aSess' \in Sessions \cup {"none"}, aHeard' \subseteq Sessions,
         x = "noting" => Agent!Notes, LogKept'
  PROVE  AgentInv'
<1>1. /\ aPc' = [d \in AgentCalls |-> aPc'[d]] /\ aPc'[c] = x
      /\ \A d \in AgentCalls : d # c => aPc'[d] = aPc[d]
  BY DEF AgentInv, AgentTypes
<1>2. \A d \in AgentCalls : aResult'[d].cost \in Nat
  BY DEF AgentInv, AgentTypes
<1>3. AgentTypes'
  BY <1>1, <1>2 DEF AgentInv, AgentTypes
<1>4. ASSUME NEW d \in AgentCalls PROVE CallKept(d)'
  BY <1>1 DEF AgentInv, CallKept, Agent!ToResume, Agent!Notes
<1>5. Bills' = Bills
  <2>1. ASSUME NEW d \in AgentCalls PROVE Bill(d)' = Bill(d)
    BY <1>1 DEF Bill
  <2> QED BY <2>1 DEF Bills
<1>6. CostKept'
  BY <1>5 DEF AgentInv, CostKept
<1>7. ResultKept'
  <2>1. aNode = "running"
    BY DEF AgentInv, ResultKept
  <2> QED BY <2>1 DEF ResultKept
<1> QED BY <1>3, <1>4, <1>6, <1>7 DEF AgentInv

LEMMA AgentStarts == ASSUME AgentInv, NEW c \in AgentCalls, Agent!Start(c) PROVE AgentInv'
<1>1. PICK r : /\ r = Agent!ToResume(c) /\ aResumed' = [aResumed EXCEPT ![c] = r]
  BY DEF Agent!Start
<1>2. /\ aPc[c] = "idle" /\ aNode = "running" /\ aPc' = [aPc EXCEPT ![c] = "streaming"]
      /\ aSetup' = aSetup /\ aGiven' = aGiven /\ aCost' = aCost /\ aNode' = aNode
      /\ aResult' = aResult /\ aRecord' = aRecord /\ aSess' = aSess /\ aHeard' = aHeard
  BY DEF Agent!Start
<1>3. /\ aPc' = [d \in AgentCalls |-> aPc'[d]] /\ aPc'[c] = "streaming"
      /\ \A d \in AgentCalls : d # c => aPc'[d] = aPc[d]
  BY <1>2 DEF AgentInv, AgentTypes
<1>4. /\ aResumed' = [d \in AgentCalls |-> aResumed'[d]] /\ aResumed'[c] = r
      /\ \A d \in AgentCalls : d # c => aResumed'[d] = aResumed[d]
  BY <1>1 DEF AgentInv, AgentTypes
<1>5. AgentTypes'
  BY <1>2, <1>3, <1>4 DEF AgentInv, AgentTypes
<1>6. ASSUME NEW d \in AgentCalls PROVE CallKept(d)'
  BY <1>1, <1>2, <1>3, <1>4 DEF AgentInv, CallKept, Agent!ToResume, Agent!Notes
<1>7. LogKept'
  <2> SUFFICES ASSUME Agent!Notes', Agent!Alone' PROVE LogKept'
    BY DEF LogKept
  <2>1. Agent!Notes /\ Logged' = Logged
    BY <1>2 DEF Agent!Notes, Logged
  <2>2. aResumed[c] = "none"
    BY <1>2 DEF AgentInv, CallKept
  <2>3. Agent!Alone
    <3>1. \A d, e \in AgentCalls : d # e => aResumed'[d] # aResumed'[e] \/ aResumed'[d] = "none"
      BY DEF Agent!Alone, Agent!None
    <3>2. ASSUME NEW d \in AgentCalls, NEW e \in AgentCalls, d # e
          PROVE  aResumed[d] # aResumed[e] \/ aResumed[d] = "none"
      BY <1>4, <2>2, <3>1, <3>2
    <3> QED BY <3>2 DEF Agent!Alone, Agent!None
  <2>4. \A d \in AgentCalls : aPc[d] # "idle" => Agent!SessionOf(d)' = Agent!SessionOf(d)
    BY <1>2, <1>4 DEF Agent!SessionOf
  <2>5. \A d \in AgentCalls : (aPc'[d] = "noting" <=> aPc[d] = "noting")
                              /\ (aPc'[d] = "told" <=> aPc[d] = "told")
    BY <1>2, <1>3
  <2> QED BY <1>2, <2>1, <2>3, <2>4, <2>5 DEF AgentInv, LogKept
<1>8. CostKept'
  <2>1. ASSUME NEW d \in AgentCalls PROVE Bill(d)' = Bill(d)
    BY <1>2, <1>3 DEF Bill
  <2>2. Bills' = Bills
    BY <2>1 DEF Bills
  <2> QED BY <1>2, <2>2 DEF AgentInv, CostKept
<1>9. ResultKept'
  BY <1>2 DEF ResultKept
<1> QED BY <1>5, <1>6, <1>7, <1>8, <1>9 DEF AgentInv

LEMMA AgentEvent ==
  ASSUME AgentInv, NEW c \in AgentCalls, Agent!Event(c) PROVE AgentInv'
<1>1. /\ aPc[c] = "streaming" /\ aResumed' = aResumed
      /\ aSetup' = aSetup /\ aGiven' = aGiven /\ aCost' = aCost /\ aNode' = aNode
      /\ aResult' = aResult /\ aRecord' = aRecord /\ aHeard' = aHeard
  BY DEF Agent!Event
<1>2. PICK x : /\ aPc' = [aPc EXCEPT ![c] = x]
               /\ \/ /\ Agent!Notes /\ x = "noting" /\ aSess' = Agent!SessionOf(c)
                  \/ /\ ~(Agent!Notes /\ Agent!SessionOf(c) # aSess) /\ x = "told"
                     /\ aSess' = aSess
  BY DEF Agent!Event
<1>3. /\ aPc'[c] = x /\ \A d \in AgentCalls : d # c => aPc'[d] = aPc[d]
  BY <1>2 DEF AgentInv, AgentTypes
<1>4. aSess' \in Sessions \cup {"none"}
  BY <1>2, SessionsApart DEF AgentInv, AgentTypes
<1>5. LogKept'
  <2> SUFFICES ASSUME Agent!Notes', Agent!Alone' PROVE LogKept'
    BY DEF LogKept
  <2>1. Agent!Notes /\ Logged' = Logged /\ Agent!Alone
    BY <1>1 DEF Agent!Notes, Logged, Agent!Alone
  <2>2. \A d \in AgentCalls : Agent!SessionOf(d)' = Agent!SessionOf(d)
    BY <1>1 DEF Agent!SessionOf
  <2>3. /\ \/ aSess = "none" \/ aSess \in Logged
           \/ \E d \in AgentCalls : aPc[d] = "noting" /\ Agent!SessionOf(d) = aSess
        /\ \A d \in AgentCalls : aPc[d] = "told" => Agent!SessionOf(d) \in Logged
        /\ aHeard \subseteq Logged
    BY <2>1 DEF AgentInv, LogKept
  <2>4. CASE x = "noting" /\ aSess' = Agent!SessionOf(c)
    BY <1>1, <1>3, <2>1, <2>2, <2>3, <2>4 DEF LogKept
  <2>5. CASE x = "told" /\ aSess' = aSess /\ aSess = Agent!SessionOf(c)
    <3>1. aSess \in Logged
      BY <1>1, <2>1, <2>3, <2>5, SessionsApart
    <3> QED BY <1>1, <1>3, <2>1, <2>2, <2>3, <2>5, <3>1 DEF LogKept
  <2> QED BY <1>2, <2>1, <2>4, <2>5
<1>6. /\ x # "idle" /\ x # "billed" /\ (x = "noting" => Agent!Notes)
  BY <1>2
<1>7. /\ aResult' = [d \in AgentCalls |-> aResult'[d]] /\ aResult'[c].cost \in Nat
      /\ aRecord' \in Seq(Sessions) /\ aHeard' \subseteq Sessions
  BY <1>1 DEF AgentInv, AgentTypes
<1> QED BY <1>1, <1>2, <1>4, <1>5, <1>6, <1>7, AgentMoves

LEMMA AgentNotes ==
  ASSUME AgentInv, NEW c \in AgentCalls, Agent!NoteSession(c) PROVE AgentInv'
<1>1. /\ aPc[c] = "noting" /\ aPc' = [aPc EXCEPT ![c] = "told"] /\ aResumed' = aResumed
      /\ aSetup' = aSetup /\ aGiven' = aGiven /\ aCost' = aCost /\ aNode' = aNode
      /\ aResult' = aResult /\ aSess' = aSess /\ aHeard' = aHeard
      /\ aRecord' = Append(aRecord, Agent!SessionOf(c))
  BY DEF Agent!NoteSession
<1>2. /\ aPc'[c] = "told" /\ \A d \in AgentCalls : d # c => aPc'[d] = aPc[d]
  BY <1>1 DEF AgentInv, AgentTypes
<1>3. aRecord \in Seq(Sessions) /\ Agent!SessionOf(c) \in Sessions
  BY SessionsApart DEF AgentInv, AgentTypes
<1>4. PICK s \in Sessions : s = Agent!SessionOf(c)
  BY <1>3
<1>5. /\ aRecord' \in Seq(Sessions) /\ Len(aRecord') = Len(aRecord) + 1
      /\ \A i \in 1..Len(aRecord) : aRecord'[i] = aRecord[i]
      /\ aRecord'[Len(aRecord) + 1] = s /\ Len(aRecord) \in Nat
      /\ DOMAIN aRecord' = 1..(Len(aRecord) + 1) /\ DOMAIN aRecord = 1..Len(aRecord)
  BY <1>1, <1>3, <1>4
<1>6. Logged \subseteq Logged' /\ Agent!SessionOf(c) \in Logged'
  <2>1. Logged \subseteq Logged'
    BY <1>5 DEF Logged
  <2>2. s \in Logged'
    BY <1>5 DEF Logged
  <2> QED BY <1>4, <2>1, <2>2
<1>7. LogKept'
  <2> SUFFICES ASSUME Agent!Notes', Agent!Alone' PROVE LogKept'
    BY DEF LogKept
  <2>1. Agent!Notes /\ Agent!Alone
    BY <1>1 DEF Agent!Notes, Agent!Alone
  <2>2. \A d \in AgentCalls : Agent!SessionOf(d)' = Agent!SessionOf(d)
    BY <1>1 DEF Agent!SessionOf
  <2>3. /\ \/ aSess = "none" \/ aSess \in Logged
           \/ \E d \in AgentCalls : aPc[d] = "noting" /\ Agent!SessionOf(d) = aSess
        /\ \A d \in AgentCalls : aPc[d] = "told" => Agent!SessionOf(d) \in Logged
        /\ aHeard \subseteq Logged
    BY <2>1 DEF AgentInv, LogKept
  <2> QED BY <1>1, <1>2, <1>6, <2>2, <2>3 DEF LogKept
<1>8. /\ aResult' = [d \in AgentCalls |-> aResult'[d]] /\ aResult'[c].cost \in Nat
      /\ aSess' \in Sessions \cup {"none"} /\ aHeard' \subseteq Sessions
  BY <1>1 DEF AgentInv, AgentTypes
<1>9. aRecord' \in Seq(Sessions)
  BY <1>5
<1>10. PICK x : x = "told"
  OBVIOUS
<1>11. aPc' = [aPc EXCEPT ![c] = x] /\ x \notin {"idle", "billed", "noting"}
  BY <1>1, <1>10
<1> QED BY <1>1, <1>7, <1>8, <1>9, <1>11, AgentMoves

\* What a run costs.
LEMMA ResultCost ==
  \A r \in {[cost |-> 0, how |-> "error without result"]} \cup
           [cost : {1}, how : {"error", "error result", "ok"}] : r.cost \in Nat
<1>1. {0, 1} \subseteq Nat
  OBVIOUS
<1>2. \A r \in [cost : {1}, how : {"error", "error result", "ok"}] : r.cost \in {0, 1}
  OBVIOUS
<1>3. [cost |-> 0, how |-> "error without result"].cost \in {0, 1}
  OBVIOUS
<1> QED BY <1>1, <1>2, <1>3, Zenon

LEMMA AgentHears ==
  ASSUME AgentInv, NEW c \in AgentCalls, Agent!Hear(c) \/ Agent!Return(c) PROVE AgentInv'
<1>1. PICK x \in {"streaming", "returned"} :
        /\ aPc[c] \in {"told", "streaming"} /\ aPc' = [aPc EXCEPT ![c] = x]
        /\ \/ aPc[c] = "told" /\ aHeard' = aHeard \cup {Agent!SessionOf(c)}
           \/ aHeard' = aHeard
  BY DEF Agent!Hear, Agent!Return
<1>2. /\ aResumed' = aResumed /\ aSetup' = aSetup /\ aGiven' = aGiven /\ aCost' = aCost
      /\ aNode' = aNode /\ aSess' = aSess /\ aRecord' = aRecord
  BY DEF Agent!Hear, Agent!Return
<1>3. /\ aPc'[c] = x /\ \A d \in AgentCalls : d # c => aPc'[d] = aPc[d]
  BY <1>1 DEF AgentInv, AgentTypes
<1>4. /\ aResult' = [d \in AgentCalls |-> aResult'[d]] /\ aResult'[c].cost \in Nat
      /\ \A d \in AgentCalls : d # c => aResult'[d] = aResult[d]
  <2>1. CASE aResult' = aResult
    BY <2>1 DEF AgentInv, AgentTypes
  <2>2. CASE Agent!Hear(c)
    BY <2>1, <2>2 DEF Agent!Hear
  <2>3. CASE Agent!Return(c)
    <3>1. PICK r \in {[cost |-> 0, how |-> "error without result"]} \cup
                     [cost : {1}, how : {"error", "error result", "ok"}] :
              aResult' = [aResult EXCEPT ![c] = r]
      BY <2>3 DEF Agent!Return
    <3>2. r.cost \in Nat
      BY ResultCost, Zenon
    <3> QED BY <3>1, <3>2 DEF AgentInv, AgentTypes
  <2> QED BY <2>2, <2>3
<1>5. LogKept'
  <2> SUFFICES ASSUME Agent!Notes', Agent!Alone' PROVE LogKept'
    BY DEF LogKept
  <2>1. Agent!Notes /\ Agent!Alone /\ Logged' = Logged
    BY <1>2 DEF Agent!Notes, Agent!Alone, Logged
  <2>2. \A d \in AgentCalls : Agent!SessionOf(d)' = Agent!SessionOf(d)
    BY <1>2 DEF Agent!SessionOf
  <2>3. /\ \/ aSess = "none" \/ aSess \in Logged
           \/ \E d \in AgentCalls : aPc[d] = "noting" /\ Agent!SessionOf(d) = aSess
        /\ \A d \in AgentCalls : aPc[d] = "told" => Agent!SessionOf(d) \in Logged
        /\ aHeard \subseteq Logged
    BY <2>1 DEF AgentInv, LogKept
  <2>4. aHeard' \subseteq Logged
    BY <1>1, <2>3
  <2>5. \A d \in AgentCalls : (aPc[d] = "noting" => aPc'[d] = "noting")
                              /\ (aPc'[d] = "told" => aPc[d] = "told")
    BY <1>1, <1>3
  <2> QED BY <1>2, <2>1, <2>2, <2>3, <2>4, <2>5 DEF LogKept
<1>6. aHeard' \subseteq Sessions
  <2>1. Agent!SessionOf(c) \in Sessions
    BY SessionsApart
  <2> QED BY <1>1, <2>1 DEF AgentInv, AgentTypes
<1>7. aRecord' \in Seq(Sessions) /\ aSess' \in Sessions \cup {"none"}
  BY <1>2 DEF AgentInv, AgentTypes
<1> QED BY <1>1, <1>2, <1>4, <1>5, <1>6, <1>7, AgentMoves

LEMMA AgentBills ==
  ASSUME AgentInv, NEW c \in AgentCalls, Agent!AddCost(c) PROVE AgentInv'
<1>1. /\ aPc[c] = "returned" /\ aPc' = [aPc EXCEPT ![c] = "billed"] /\ aResumed' = aResumed
      /\ aSetup' = aSetup /\ aGiven' = aGiven /\ aCost' = aCost + aResult[c].cost
      /\ aNode' = aNode /\ aSess' = aSess /\ aRecord' = aRecord /\ aHeard' = aHeard
      /\ aResult' = aResult
  BY DEF Agent!AddCost
<1>2. /\ aPc' = [d \in AgentCalls |-> aPc'[d]] /\ aPc'[c] = "billed"
      /\ \A d \in AgentCalls : d # c => aPc'[d] = aPc[d]
  BY <1>1 DEF AgentInv, AgentTypes
<1>3. AgentTypes'
  BY <1>1, <1>2 DEF AgentInv, AgentTypes
<1>4. ASSUME NEW d \in AgentCalls PROVE CallKept(d)'
  BY <1>1, <1>2 DEF AgentInv, CallKept, Agent!ToResume, Agent!Notes
<1>5. LogKept'
  <2>1. (Agent!Notes' <=> Agent!Notes) /\ (Agent!Alone' <=> Agent!Alone) /\ Logged' = Logged
    BY <1>1 DEF Agent!Notes, Agent!Alone, Logged
  <2>2. \A d \in AgentCalls : Agent!SessionOf(d)' = Agent!SessionOf(d)
    BY <1>1 DEF Agent!SessionOf
  <2>3. \A d \in AgentCalls : (aPc[d] = "noting" <=> aPc'[d] = "noting")
                              /\ (aPc'[d] = "told" <=> aPc[d] = "told")
    BY <1>1, <1>2
  <2> QED BY <1>1, <2>1, <2>2, <2>3 DEF AgentInv, LogKept
<1>6. CostKept'
  <2>1. aResult[c].cost \in Nat /\ \A d \in AgentCalls : aResult[d].cost \in Nat
    BY DEF AgentInv, AgentTypes
  <2>2. PICK f \in [AgentCalls -> Nat] : f = Bills
    BY <2>1 DEF Bills, Bill
  <2>3. PICK g \in [AgentCalls -> Nat] : g = Bills'
    BY <1>1, <2>1 DEF Bills, Bill
  <2>4. g[c] = f[c] + aResult[c].cost /\ \A d \in AgentCalls : d # c => g[d] = f[d]
    BY <1>1, <1>2, <2>1, <2>2, <2>3 DEF Bills, Bill
  <2>5. SumOver(g, AgentCalls) = SumOver(f, AgentCalls) + aResult[c].cost
    BY <2>1, <2>4, AgentAssumption, SumGrows
  <2>6. aCost = SumOver(f, AgentCalls)
    BY <2>2 DEF AgentInv, CostKept
  <2> QED BY <1>1, <2>3, <2>5, <2>6 DEF CostKept
<1>7. ResultKept'
  <2>1. aNode = "running"
    BY <1>1 DEF AgentInv, ResultKept
  <2> QED BY <1>1, <2>1 DEF ResultKept
<1> QED BY <1>3, <1>4, <1>5, <1>6, <1>7 DEF AgentInv

LEMMA AgentStep == AgentInv /\ [Agent!Next]_(Agent!vars) => AgentInv'
<1> SUFFICES ASSUME AgentInv, [Agent!Next]_(Agent!vars) PROVE AgentInv'
  OBVIOUS
<1>1. CASE \/ UNCHANGED Agent!vars
           \/ Agent!Finish
  <2>1. /\ aPc' = aPc /\ aResumed' = aResumed /\ aSetup' = aSetup /\ aGiven' = aGiven
        /\ aCost' = aCost /\ aSess' = aSess /\ aRecord' = aRecord /\ aHeard' = aHeard
        /\ aResult' = aResult
    BY <1>1 DEF Agent!vars, Agent!stream, Agent!Finish
  <2>2. AgentTypes' /\ CostKept'
    BY <2>1 DEF AgentInv, AgentTypes, CostKept, Bills, Bill
  <2>3. LogKept'
    BY <2>1 DEF AgentInv, LogKept, Agent!Notes, Agent!Alone, Agent!SessionOf, Logged
  <2>4. \A c \in AgentCalls : CallKept(c)'
    BY <2>1 DEF AgentInv, CallKept, Agent!ToResume, Agent!Notes
  <2>5. ResultKept'
    BY <1>1, <2>1 DEF AgentInv, ResultKept, Agent!Finish, Agent!Good, Agent!vars
  <2> QED BY <2>2, <2>3, <2>4, <2>5 DEF AgentInv
<1> QED BY <1>1, AgentStarts, AgentEvent, AgentNotes, AgentHears, AgentBills DEF Agent!Next

LEMMA AgentIsHonest == AgentInv => Agent!AgentNodeIsHonest
<1> SUFFICES ASSUME AgentInv PROVE Agent!AgentNodeIsHonest
  OBVIOUS
<1>1. Agent!Notes /\ Agent!Alone => aHeard \subseteq {aRecord[i] : i \in DOMAIN aRecord}
  BY DEF AgentInv, LogKept, Logged
<1>2. \A c \in aGiven : aPc[c] # "idle" => Agent!SessionOf(c) = c
  BY DEF AgentInv, AgentTypes, CallKept, Agent!ToResume, Agent!SessionOf
<1>3. aNode # "running" =>
        aCost = Agent!MapThenSumSet(LAMBDA c : aResult[c].cost, AgentCalls)
  <2> SUFFICES ASSUME aNode # "running"
               PROVE  aCost = Agent!MapThenSumSet(LAMBDA c : aResult[c].cost, AgentCalls)
    OBVIOUS
  <2> DEFINE f == [c \in AgentCalls |-> aResult[c].cost]
  <2>1. Bills = f
    BY DEF AgentInv, ResultKept, Bills, Bill
  <2>2. Agent!MapThenSumSet(LAMBDA c : aResult[c].cost, AgentCalls) = SumOver(f, AgentCalls)
    BY DEF Agent!MapThenSumSet, Agent!MapThenFoldSet, SumOver, SumAt, Pick
  <2> QED BY <2>1, <2>2 DEF AgentInv, CostKept
<1>4. aNode = "applied" => \A c \in AgentCalls :
        /\ aResult[c].how \in {"ok", "error result"}
        /\ aResult[c].how = "error result" => aSetup.allow
  BY DEF AgentInv, ResultKept, Agent!Good
<1> QED BY <1>1, <1>2, <1>3, <1>4 DEF Agent!AgentNodeIsHonest

\* However its branches end and whatever a caller's clone and merge do, a node of branches
\* merges all of them or none (parallelFn of run.go); however the events of its calls
\* interleave, a node of agents logs a session before anyone hears of it, bills what
\* its calls cost and applies no result it was not to (agent.go).
THEOREM NodesAreHonestAlways == Spec /\ Agent!Spec => []NodesAreHonest
<1>1. Spec => []ParallelIsAllOrNothing
  BY ParallelStart, ParallelStep, ParallelIsHonest, PTL DEF Spec
<1>2. Agent!Spec => []Agent!AgentNodeIsHonest
  BY AgentStart, AgentStep, AgentIsHonest, PTL DEF Agent!Spec
<1> QED BY <1>1, <1>2, PTL DEF NodesAreHonest

(***************************************************************************)
(* Reports and spans                                                       *)
(***************************************************************************)
TopNodes == {Told!Top, Told!Fan}

ASequence(s) == Len(s) \in Nat /\ s = [i \in 1..Len(s) |-> s[i]]

Recorder(s) ==
  s = [pc |-> s.pc, step |-> s.step, path |-> s.path, prior |-> s.prior, steps |-> s.steps,
       visits |-> s.visits, under |-> s.under, todo |-> s.todo, failed |-> s.failed,
       pauses |-> s.pauses]

Counts(visits) ==
  visits = [n \in TopNodes \cup FanBranches |-> visits[n]]

RecorderOK(s) ==
  /\ Recorder(s) /\ Counts(s.visits)
  /\ ASequence(s.path) /\ ASequence(s.prior) /\ ASequence(s.steps)

ReportTypes ==
  /\ mRun = [r \in ReportRuns |-> mRun[r]] /\ mDone = [r \in ReportRuns |-> mDone[r]]
  /\ mReports = [r \in ReportRuns |-> mReports[r]]

\* What was done, and which of it by the loop itself.
DidOf(done) == [i \in 1..Len(done) |-> done[i].did]
TopsOf(D) == {i \in 1..Len(D) : D[i].parent = Told!Nobody}

\* The executions of a node since some place: those that ended, and the one under way.
Ended(D, from, n) == Told!Between(D, from, Len(D), n)
Flying(under, n) == IF \E x \in under : x.node = n THEN 1 ELSE 0
Since(D) == Told!AfterPause(D, Len(D))

\* What is under way, by where the loop is.
UnderWay(s) ==
  /\ \A x \in s.under : x.step = s.step
  /\ \A x, y \in s.under : x.node = y.node => x = y
  /\ s.pc \in TopNodes => \E x \in s.under : x.node = s.pc
  /\ s.pc \in TopNodes => \A x \in s.under :
       \/ x.node = s.pc /\ x.parent = Told!Nobody
       \/ s.pc = Told!Fan /\ x.node \in FanBranches \ s.todo /\ x.parent = Told!Fan
  /\ s.todo \subseteq FanBranches
  /\ s.pc \notin TopNodes => s.under = {}

\* Counts that are those of the executions, a branch's those since the last pause.
CountsOf(D, visits, under, path) ==
  /\ \A n \in TopNodes :
       visits[n] = Ended(D, 1, n) + Flying(under, n) /\ visits[n] = Told!CountOf(path, n)
  /\ \A n \in FanBranches : visits[n] = Ended(D, Since(D), n) + Flying(under, n)

\* Every execution was told its count.
From(D, i) == IF D[i].parent = Told!Nobody THEN 1 ELSE Told!AfterPause(D, i)
Attempts(done, D) ==
  \A i \in 1..Len(D) : done[i].attempt = Told!Between(D, From(D, i), i, D[i].node)

\* At a pause, a branch's count is not yet taken back.
Asked(s) == IF s.pc \in {"paused", "asks"} THEN Told!SeedVisits(s.path) ELSE s.visits
Counted(s, D) ==
  /\ CountsOf(D, Asked(s), s.under, s.path)
  /\ \A x \in s.under : x.attempt = s.visits[x.node]

\* The path is the executions of the loop, the one under way too.
Pathed(s, D) ==
  /\ \A i \in 1..Len(s.path) : s.path[i] \in TopNodes
  /\ Len(s.path) = Cardinality(TopsOf(D)) + IF s.pc \in TopNodes THEN 1 ELSE 0
  /\ s.pc \in TopNodes => s.path[Len(s.path)] = s.pc
  /\ \A i \in TopsOf(D) : s.path[Cardinality({j \in TopsOf(D) : j <= i})] = D[i].node

\* What the recorder has, and what it reported, is what was done.
Reported(s, D, report) ==
  /\ s.prior \o s.steps = D
  /\ s.pc \in {"asks", "over"} => report = Told!ReportOf(s)
  /\ s.pc \in {"paused", "asks"} => Len(D) > 0 /\ D[Len(D)].outcome = "paused"

\* What is known of an execution that ended: a node of branches costs nothing itself, and
\* comes after its branches.
Billed(s, D) ==
  \A i \in 1..Len(D) :
    /\ D[i].cost \in Nat /\ (D[i].node = Told!Fan => D[i].cost = 0)
    /\ D[i].parent = Told!Fan =>
         \/ s.pc = Told!Fan
         \/ \E j \in i + 1 .. Len(D) : D[j].node = Told!Fan

Faithful(s, done, report) ==
  /\ RecorderOK(s) /\ ASequence(done) /\ UnderWay(s)
  /\ Attempts(done, DidOf(done)) /\ Counted(s, DidOf(done)) /\ Pathed(s, DidOf(done))
  /\ Reported(s, DidOf(done), report) /\ Billed(s, DidOf(done))

RunInv(r) == Faithful(mRun[r], mDone[r], mReports[r])

ReportInv == ReportTypes /\ \A r \in ReportRuns : RunInv(r)

\* An execution under way has its span open, under its own key, and no other's.
KeyAt(node, step) == <<node, step>>
KeyOf(x) == KeyAt(x.node, x.step)
SpanOpen(x, open, spans) ==
  /\ x.span \in 1..Len(spans) /\ spans[x.span].ended = FALSE
  /\ KeyOf(x) \in DOMAIN open /\ open[KeyOf(x)] = x.span
SpanEnded(e, spans) == e.span \in 1..Len(spans) /\ spans[e.span].ended = TRUE

Spanned(s, done, open, spans) ==
  /\ \A x \in s.under : SpanOpen(x, open, spans)
  /\ \A x, y \in s.under : x.span = y.span => x = y
  /\ \A x, y \in s.under :
       x.parent = Told!Fan /\ y.node = Told!Fan => spans[x.span].above = y.span
  /\ \A i \in 1..Len(done) : SpanEnded(done[i], spans)

ASpan(p) == p = [run |-> p.run, node |-> p.node, above |-> p.above, ended |-> p.ended]
SpansOK(spans) == ASequence(spans) /\ \A i \in 1..Len(spans) : ASpan(spans[i])

SpanInv ==
  SpansOK(mSpans) /\ \A r \in ReportRuns : Spanned(mRun[r], mDone[r], mOpen, mSpans)

LEMMA TopsAreNodes ==
  /\ Told!Top # Told!Fan /\ Told!Top \notin FanBranches /\ Told!Fan \notin FanBranches
  /\ Told!Fan # Told!Nobody
<1>1. Told!Top # Told!Fan /\ Told!Fan # Told!Nobody
  BY DEF Told!Top, Told!Fan, Told!Nobody
<1>2. Told!Top \notin FanBranches /\ Told!Fan \notin FanBranches
  BY FanAssumption DEF Told!Top, Told!Fan
<1> QED BY <1>1, <1>2

LEMMA SameSize ==
  ASSUME NEW S
  PROVE  Told!Cardinality(S) = Cardinality(S)
BY DEF Told!Cardinality, Cardinality

\* A sequence with one element more.
LEMMA Appended ==
  ASSUME NEW s, ASequence(s), NEW e
  PROVE  /\ ASequence(Append(s, e)) /\ Len(Append(s, e)) = Len(s) + 1
         /\ \A i \in 1..Len(s) : Append(s, e)[i] = s[i]
         /\ Append(s, e)[Len(s) + 1] = e
         /\ DOMAIN s = 1..Len(s) /\ DOMAIN Append(s, e) = 1..(Len(s) + 1)
<1> DEFINE S == {s[i] : i \in 1..Len(s)} \cup {e}
<1>1. Len(s) \in Nat /\ s \in [1..Len(s) -> S]
  BY DEF ASequence
<1>2. s \in Seq(S)
  BY <1>1
<1>3. e \in S
  OBVIOUS
<1> HIDE DEF S
<1>4. /\ Append(s, e) \in Seq(S) /\ Len(Append(s, e)) = Len(s) + 1
      /\ \A i \in 1..Len(s) : Append(s, e)[i] = s[i]
      /\ Append(s, e)[Len(s) + 1] = e
      /\ DOMAIN s = 1..Len(s) /\ DOMAIN Append(s, e) = 1..(Len(s) + 1)
  BY <1>2, <1>3
<1>5. PICK t : t = Append(s, e)
  OBVIOUS
<1>6. t \in Seq(S) /\ Len(t) = Len(s) + 1
  BY <1>4, <1>5
<1>7. t = [i \in 1..Len(t) |-> t[i]]
  BY <1>6
<1> QED BY <1>1, <1>4, <1>5, <1>7 DEF ASequence

LEMMA EmptySequence == ASequence(<<>>) /\ Len(<<>>) = 0
BY DEF ASequence

\* What is appended to a sequence is appended to whatever it ends.
AppendsToTail(s, t, e) == s \o Append(t, e) = Append(s \o t, e)

LEMMA AppendedToTail ==
  ASSUME NEW s, ASequence(s), NEW t, ASequence(t), NEW e
  PROVE  AppendsToTail(s, t, e)
<1> DEFINE S == {s[i] : i \in 1..Len(s)} \cup {t[i] : i \in 1..Len(t)} \cup {e}
<1>1. s \in Seq(S) /\ t \in Seq(S) /\ e \in S
  <2>1. Len(s) \in Nat /\ s \in [1..Len(s) -> S] /\ Len(t) \in Nat /\ t \in [1..Len(t) -> S]
    BY DEF ASequence
  <2> HIDE DEF S
  <2>2. s \in Seq(S) /\ t \in Seq(S)
    BY <2>1
  <2> QED BY <2>2 DEF S
<1> HIDE DEF S
<1>2. s \o Append(t, e) = Append(s \o t, e)
  <2>1. PICK a : a = s \o Append(t, e)
    OBVIOUS
  <2>2. PICK b : b = Append(s \o t, e)
    OBVIOUS
  <2>3. /\ a \in Seq(S) /\ Len(a) = Len(s) + Len(t) + 1
        /\ \A i \in 1..Len(a) : a[i] = IF i <= Len(s) THEN s[i]
                                       ELSE IF i <= Len(s) + Len(t) THEN t[i - Len(s)] ELSE e
    BY <1>1, <2>1
  <2>4. /\ b \in Seq(S) /\ Len(b) = Len(s) + Len(t) + 1
        /\ \A i \in 1..Len(b) : b[i] = IF i <= Len(s) THEN s[i]
                                       ELSE IF i <= Len(s) + Len(t) THEN t[i - Len(s)] ELSE e
    <3>1. PICK c : c = s \o t
      OBVIOUS
    <3>2. /\ c \in Seq(S) /\ Len(c) = Len(s) + Len(t)
          /\ \A i \in 1..Len(c) : c[i] = IF i <= Len(s) THEN s[i] ELSE t[i - Len(s)]
      BY <1>1, <3>1
    <3>3. b = Append(c, e)
      BY <2>2, <3>1
    <3>4. /\ b \in Seq(S) /\ Len(b) = Len(c) + 1 /\ b[Len(c) + 1] = e
          /\ \A i \in 1..Len(c) : b[i] = c[i]
      <4>1. c \in Seq(S)
        BY <3>2
      <4> QED BY <1>1, <3>3, <4>1
    <3> QED BY <1>1, <3>2, <3>4
  <2>5. a = b
    BY <2>3, <2>4
  <2> QED BY <2>1, <2>2, <2>5
<1> QED BY <1>2, Zenon DEF AppendsToTail

LEMMA NothingToAppend ==
  ASSUME NEW s, ASequence(s)
  PROVE  s \o <<>> = s
<1> DEFINE S == {s[i] : i \in 1..Len(s)}
<1>1. Len(s) \in Nat /\ s \in [1..Len(s) -> S]
  BY DEF ASequence
<1> HIDE DEF S
<1>2. s \in Seq(S)
  BY <1>1
<1> QED BY <1>2

\* A set of the numbers up to one, with the next number or without.
LEMMA NextCounted ==
  ASSUME NEW k \in Nat, NEW A \in SUBSET (1..k)
  PROVE  /\ IsFiniteSet(A) /\ Cardinality(A) \in Nat /\ Cardinality(A) <= k
         /\ Cardinality(A \cup {k + 1}) = Cardinality(A) + 1
<1>1. IsFiniteSet(1..k) /\ Cardinality(1..k) = k
  BY FS_Interval
<1>2. IsFiniteSet(A) /\ Cardinality(A) <= k
  BY <1>1, FS_Subset
<1>3. k + 1 \notin A
  OBVIOUS
<1> QED BY <1>2, <1>3, FS_AddElement, FS_CardinalityType

\* The place behind the last pause.
LEMMA SinceIsPlace ==
  ASSUME NEW D, NEW i \in Nat
  PROVE  Told!AfterPause(D, i) \in 1..(i + 1)
<1> DEFINE P == {0} \cup {j \in 1..i : D[j].outcome = "paused"}
<1>1. PICK m \in P : \A j \in P : m >= j
  <2> DEFINE N == {i - j : j \in P}
  <2>1. P \subseteq 0..i
    OBVIOUS
  <2>2. N \subseteq Nat /\ N # {}
    BY <2>1
  <2> HIDE DEF P
  <2> HIDE DEF N
  <2>3. PICK n \in N : \A k \in N : n <= k
    BY <2>2, Least
  <2>4. PICK m \in P : n = i - m
    BY DEF N
  <2>5. ASSUME NEW j \in P PROVE m >= j
    <3>1. i - j \in N
      BY DEF N
    <3> QED BY <2>1, <2>3, <2>4, <3>1
  <2> QED BY <2>5
<1> HIDE DEF P
<1>2. Told!Max(P) \in P
  BY <1>1 DEF Told!Max
<1>3. P \subseteq 0..i
  BY DEF P
<1>4. Told!AfterPause(D, i) = 1 + Told!Max(P)
  BY DEF Told!AfterPause, P
<1>5. PICK last : last = Told!Max(P)
  OBVIOUS
<1>6. last \in 0..i /\ Told!AfterPause(D, i) = 1 + last
  BY <1>2, <1>3, <1>4, <1>5
<1> QED BY <1>6

LEMMA SinceAsBefore ==
  ASSUME NEW D, NEW E, NEW i \in Nat, \A j \in 1..i : D[j] = E[j]
  PROVE  Told!AfterPause(D, i) = Told!AfterPause(E, i)
<1>1. {j \in 1..i : D[j].outcome = "paused"} = {j \in 1..i : E[j].outcome = "paused"}
  OBVIOUS
<1> QED BY <1>1 DEF Told!AfterPause

LEMMA SinceNext ==
  ASSUME NEW D, NEW i \in Nat, D[i + 1].outcome # "paused"
  PROVE  Told!AfterPause(D, i + 1) = Told!AfterPause(D, i)
<1>1. {j \in 1..(i + 1) : D[j].outcome = "paused"} = {j \in 1..i : D[j].outcome = "paused"}
  OBVIOUS
<1> QED BY <1>1 DEF Told!AfterPause

LEMMA SincePaused ==
  ASSUME NEW D, NEW i \in Nat, i > 0, D[i].outcome = "paused"
  PROVE  Told!AfterPause(D, i) = i + 1
<1> DEFINE P == {0} \cup {j \in 1..i : D[j].outcome = "paused"}
<1>1. i \in P /\ P \subseteq 0..i
  OBVIOUS
<1> HIDE DEF P
<1>2. Told!Max(P) = i
  <2>1. i \in P /\ \A y \in P : i >= y
    BY <1>1
  <2>2. ASSUME NEW x \in P, \A y \in P : x >= y PROVE x = i
    <3>1. x \in 0..i /\ x >= i
      BY <1>1, <2>2
    <3> QED BY <3>1
  <2> QED BY <2>1, <2>2 DEF Told!Max
<1> QED BY <1>2 DEF Told!AfterPause, P

\* Executions of a node: those before, and the next.
Alike(D, E, i) == \A j \in 1..i : D[j] = E[j]

LEMMA BetweenAsBefore ==
  ASSUME NEW D, NEW E, NEW i \in Nat, Alike(D, E, i), NEW from \in Nat \ {0}, NEW n
  PROVE  Told!Between(D, from, i, n) = Told!Between(E, from, i, n)
<1>1. {j \in from..i : D[j].node = n} = {j \in from..i : E[j].node = n}
  BY DEF Alike
<1> QED BY <1>1 DEF Told!Between

LEMMA BetweenNext ==
  ASSUME NEW D, NEW i \in Nat, NEW from \in 1..(i + 1), NEW n
  PROVE  /\ Told!Between(D, from, i, n) \in Nat
         /\ Told!Between(D, from, i + 1, n) =
              Told!Between(D, from, i, n) + IF D[i + 1].node = n THEN 1 ELSE 0
<1> DEFINE A == {j \in from..i : D[j].node = n}
           B == {j \in from..(i + 1) : D[j].node = n}
<1>1. A \in SUBSET (1..i)
  OBVIOUS
<1>2. D[i + 1].node = n => B = A \cup {i + 1}
  OBVIOUS
<1>3. D[i + 1].node # n => B = A
  OBVIOUS
<1>4. Cardinality(A) = Told!Between(D, from, i, n) /\ Cardinality(B) = Told!Between(D, from, i + 1, n)
  BY SameSize DEF Told!Between
<1> HIDE DEF A
<1> HIDE DEF B
<1>5. Cardinality(A) \in Nat /\ Cardinality(A \cup {i + 1}) = Cardinality(A) + 1
  BY <1>1, NextCounted
<1> QED BY <1>2, <1>3, <1>4, <1>5

LEMMA BetweenNothing ==
  ASSUME NEW D, NEW i \in Nat, NEW n
  PROVE  Told!Between(D, i + 1, i, n) = 0
<1>1. {j \in (i + 1)..i : D[j].node = n} = {}
  OBVIOUS
<1> QED BY <1>1, SameSize, FS_EmptySet DEF Told!Between

\* A node's places on the path, when it is extended.
LEMMA CountNext ==
  ASSUME NEW path, ASequence(path), NEW m, NEW n
  PROVE  /\ Told!CountOf(path, n) \in Nat
         /\ Told!CountOf(Append(path, m), n) = Told!CountOf(path, n) + IF m = n THEN 1 ELSE 0
<1> DEFINE more == Append(path, m)
           A == {i \in DOMAIN path : path[i] = n}
           B == {i \in DOMAIN more : more[i] = n}
<1>1. PICK k : k = Len(path)
  OBVIOUS
<1>2. /\ k \in Nat /\ DOMAIN path = 1..k /\ DOMAIN more = 1..(k + 1) /\ more[k + 1] = m
      /\ \A i \in 1..k : more[i] = path[i]
  BY <1>1, Appended DEF ASequence
<1> HIDE DEF more
<1>3. A \in SUBSET (1..k)
  BY <1>2
<1>4. m = n => B = A \cup {k + 1}
  BY <1>2
<1>5. m # n => B = A
  BY <1>2
<1>6. Cardinality(A) = Told!CountOf(path, n) /\ Cardinality(B) = Told!CountOf(more, n)
  BY SameSize DEF Told!CountOf
<1> HIDE DEF A
<1> HIDE DEF B
<1>7. Cardinality(A) \in Nat /\ Cardinality(A \cup {k + 1}) = Cardinality(A) + 1
  BY <1>2, <1>3, NextCounted
<1> QED BY <1>4, <1>5, <1>6, <1>7 DEF more

LEMMA CountNone ==
  ASSUME NEW path, NEW n, \A i \in DOMAIN path : path[i] # n
  PROVE  Told!CountOf(path, n) = 0
<1>1. {i \in DOMAIN path : path[i] = n} = {}
  OBVIOUS
<1> QED BY <1>1, SameSize, FS_EmptySet DEF Told!CountOf

Make(place, step, path, prior, taken, visits, under, todo, failed, pauses) ==
  [pc |-> place, step |-> step, path |-> path, prior |-> prior, steps |-> taken,
   visits |-> visits, under |-> under, todo |-> todo, failed |-> failed, pauses |-> pauses]

\* A field of a record that an action sets, and those it leaves.
LEMMA EnterFields ==
  ASSUME NEW s, Recorder(s), NEW n, NEW parent, NEW step, n \in DOMAIN s.visits
  PROVE  LET t == Told!Enter(s, n, parent, step)
             x == Told!Execution(n, parent, step, s.visits[n] + 1, Len(mSpans) + 1)
         IN  /\ Recorder(t) /\ t.pc = s.pc /\ t.step = s.step /\ t.path = s.path
             /\ t.prior = s.prior /\ t.steps = s.steps /\ t.todo = s.todo
             /\ t.visits = [s.visits EXCEPT ![n] = @ + 1] /\ t.under = s.under \cup {x}
             /\ x.node = n /\ x.parent = parent /\ x.step = step
             /\ x.attempt = s.visits[n] + 1 /\ x.span = Len(mSpans) + 1
<1> DEFINE v == [s.visits EXCEPT ![n] = @ + 1]
           x == Told!Execution(n, parent, step, s.visits[n] + 1, Len(mSpans) + 1)
           under == s.under \cup {x}
<1>1. s = Make(s.pc, s.step, s.path, s.prior, s.steps, s.visits, s.under, s.todo, s.failed,
               s.pauses)
  BY Zenon DEF Recorder, Make
<1>2. Told!Enter(s, n, parent, step) = [[s EXCEPT !.visits = v] EXCEPT !.under = under]
  <2>1. [s EXCEPT !.visits = v].under = s.under
    BY <1>1 DEF Make
  <2> QED BY <2>1 DEF Told!Enter
<1>3. /\ x.node = n /\ x.parent = parent /\ x.step = step
      /\ x.attempt = s.visits[n] + 1 /\ x.span = Len(mSpans) + 1
  BY DEF Told!Execution
<1> HIDE DEF v
<1> HIDE DEF under
<1>4. Told!Enter(s, n, parent, step) =
        Make(s.pc, s.step, s.path, s.prior, s.steps, v, under, s.todo, s.failed, s.pauses)
  <2>1. PICK u1 : u1 = [s EXCEPT !.visits = v]
    OBVIOUS
  <2>2. u1 = Make(s.pc, s.step, s.path, s.prior, s.steps, v, s.under, s.todo, s.failed, s.pauses)
    BY <1>1, <1>2, <2>1 DEF Make
  <2>3. PICK u2 : u2 = [u1 EXCEPT !.under = under]
    OBVIOUS
  <2>4. u2 = Make(s.pc, s.step, s.path, s.prior, s.steps, v, under, s.todo, s.failed, s.pauses)
    BY <2>2, <2>3 DEF Make
  <2> QED BY <1>2, <2>1, <2>3, <2>4
<1>5. PICK t : t = Told!Enter(s, n, parent, step)
  OBVIOUS
<1>6. /\ Recorder(t) /\ t.pc = s.pc /\ t.step = s.step /\ t.path = s.path
      /\ t.prior = s.prior /\ t.steps = s.steps /\ t.todo = s.todo
      /\ t.visits = v /\ t.under = under
  BY <1>4, <1>5 DEF Make, Recorder
<1> QED BY <1>3, <1>5, <1>6, Zenon DEF v, under

Turned(s, n, todo) ==
  [s EXCEPT !.step = @ + 1, !.path = Append(@, n), !.pc = n, !.failed = FALSE, !.todo = todo]

LEMMA TurnFields ==
  ASSUME NEW s, Recorder(s), NEW n, NEW todo
  PROVE  LET t == Turned(s, n, todo)
         IN  /\ Recorder(t) /\ t.pc = n /\ t.step = s.step + 1 /\ t.path = Append(s.path, n)
             /\ t.prior = s.prior /\ t.steps = s.steps /\ t.todo = todo
             /\ t.visits = s.visits /\ t.under = s.under
<1> DEFINE a == s.step + 1
           p == Append(s.path, n)
           t == Turned(s, n, todo)
<1>1. s = Make(s.pc, s.step, s.path, s.prior, s.steps, s.visits, s.under, s.todo, s.failed,
               s.pauses)
  BY Zenon DEF Recorder, Make
<1>2. [s EXCEPT !.step = a].path = s.path
  BY <1>1 DEF Make
<1>3. t = [[[[[s EXCEPT !.step = a] EXCEPT !.path = p] EXCEPT !.pc = n] EXCEPT !.failed = FALSE]
             EXCEPT !.todo = todo]
  BY <1>2 DEF Turned
<1> HIDE DEF a, p, t
<1>4. t = Make(n, a, p, s.prior, s.steps, s.visits, s.under, todo, FALSE, s.pauses)
  <2>1. PICK u1 : u1 = [s EXCEPT !.step = a]
    OBVIOUS
  <2>2. u1 = Make(s.pc, a, s.path, s.prior, s.steps, s.visits, s.under, s.todo, s.failed, s.pauses)
    BY <1>1, <1>3, <2>1 DEF Make
  <2>3. PICK u2 : u2 = [u1 EXCEPT !.path = p]
    OBVIOUS
  <2>4. u2 = Make(s.pc, a, p, s.prior, s.steps, s.visits, s.under, s.todo, s.failed, s.pauses)
    BY <2>2, <2>3 DEF Make
  <2>5. PICK u3 : u3 = [u2 EXCEPT !.pc = n]
    OBVIOUS
  <2>6. u3 = Make(n, a, p, s.prior, s.steps, s.visits, s.under, s.todo, s.failed, s.pauses)
    BY <2>4, <2>5 DEF Make
  <2>7. PICK u4 : u4 = [u3 EXCEPT !.failed = FALSE]
    OBVIOUS
  <2>8. u4 = Make(n, a, p, s.prior, s.steps, s.visits, s.under, s.todo, FALSE, s.pauses)
    BY <2>6, <2>7 DEF Make
  <2>9. PICK u5 : u5 = [u4 EXCEPT !.todo = todo]
    OBVIOUS
  <2>10. u5 = Make(n, a, p, s.prior, s.steps, s.visits, s.under, todo, FALSE, s.pauses)
    BY <2>8, <2>9 DEF Make
  <2> QED BY <1>3, <2>1, <2>3, <2>5, <2>7, <2>9, <2>10
<1>5. /\ Recorder(t) /\ t.pc = n /\ t.step = a /\ t.path = p
      /\ t.prior = s.prior /\ t.steps = s.steps /\ t.todo = todo
      /\ t.visits = s.visits /\ t.under = s.under
  BY <1>4 DEF Make, Recorder
<1> QED BY <1>5, Zenon DEF a, p, t

LEMMA TodoFields ==
  ASSUME NEW s, Recorder(s), NEW b
  PROVE  LET t == [s EXCEPT !.todo = @ \ {b}]
         IN  /\ Recorder(t) /\ t.pc = s.pc /\ t.step = s.step /\ t.path = s.path
             /\ t.prior = s.prior /\ t.steps = s.steps /\ t.todo = s.todo \ {b}
             /\ t.visits = s.visits /\ t.under = s.under
BY DEF Recorder

Again(step, path, prior, visits, pauses) ==
  [Told!Fresh EXCEPT !.pc = Told!Top, !.step = step, !.path = path,
                     !.prior = prior, !.visits = visits, !.pauses = pauses]

LEMMA FreshFields ==
  ASSUME NEW step, NEW path, NEW prior, NEW visits, NEW pauses
  PROVE  LET t == Again(step, path, prior, visits, pauses)
         IN  /\ Recorder(t) /\ t.pc = Told!Top /\ t.step = step /\ t.path = path
             /\ t.prior = prior /\ t.steps = <<>> /\ t.todo = {}
             /\ t.visits = visits /\ t.under = {}
<1> DEFINE t == Again(step, path, prior, visits, pauses)
           none == [n \in TopNodes \cup FanBranches |-> 0]
<1>1. Told!Fresh = Make("ready", 0, <<>>, <<>>, <<>>, none, {}, {}, FALSE, 0)
  BY DEF Told!Fresh, Make, TopNodes
<1>2. PICK f : f = Told!Fresh
  OBVIOUS
<1>3. t = [[[[[[f EXCEPT !.pc = Told!Top] EXCEPT !.step = step] EXCEPT !.path = path]
             EXCEPT !.prior = prior] EXCEPT !.visits = visits] EXCEPT !.pauses = pauses]
  BY <1>2 DEF Again
<1> HIDE DEF t, none
<1>4. t = Make(Told!Top, step, path, prior, <<>>, visits, {}, {}, FALSE, pauses)
  <2>1. PICK u1 : u1 = [f EXCEPT !.pc = Told!Top]
    OBVIOUS
  <2>2. u1 = Make(Told!Top, 0, <<>>, <<>>, <<>>, none, {}, {}, FALSE, 0)
    BY <1>1, <1>2, <1>3, <2>1 DEF Make
  <2>3. PICK u2 : u2 = [u1 EXCEPT !.step = step]
    OBVIOUS
  <2>4. u2 = Make(Told!Top, step, <<>>, <<>>, <<>>, none, {}, {}, FALSE, 0)
    BY <2>2, <2>3 DEF Make
  <2>5. PICK u3 : u3 = [u2 EXCEPT !.path = path]
    OBVIOUS
  <2>6. u3 = Make(Told!Top, step, path, <<>>, <<>>, none, {}, {}, FALSE, 0)
    BY <2>4, <2>5 DEF Make
  <2>7. PICK u4 : u4 = [u3 EXCEPT !.prior = prior]
    OBVIOUS
  <2>8. u4 = Make(Told!Top, step, path, prior, <<>>, none, {}, {}, FALSE, 0)
    BY <2>6, <2>7 DEF Make
  <2>9. PICK u5 : u5 = [u4 EXCEPT !.visits = visits]
    OBVIOUS
  <2>10. u5 = Make(Told!Top, step, path, prior, <<>>, visits, {}, {}, FALSE, 0)
    BY <2>8, <2>9 DEF Make
  <2>11. PICK u6 : u6 = [u5 EXCEPT !.pauses = pauses]
    OBVIOUS
  <2>12. u6 = Make(Told!Top, step, path, prior, <<>>, visits, {}, {}, FALSE, pauses)
    BY <2>10, <2>11 DEF Make
  <2> QED BY <1>3, <2>1, <2>3, <2>5, <2>7, <2>9, <2>11, <2>12
<1>5. /\ Recorder(t) /\ t.pc = Told!Top /\ t.step = step /\ t.path = path
      /\ t.prior = prior /\ t.steps = <<>> /\ t.todo = {}
      /\ t.visits = visits /\ t.under = {}
  BY <1>4 DEF Make, Recorder
<1> QED BY <1>5, Zenon DEF t

LEMMA StartFields ==
  /\ Recorder(Told!Fresh) /\ Told!Fresh.pc = "ready" /\ Told!Fresh.path = <<>>
  /\ Told!Fresh.prior = <<>> /\ Told!Fresh.steps = <<>> /\ Told!Fresh.todo = {}
  /\ Told!Fresh.visits = [n \in TopNodes \cup FanBranches |-> 0]
  /\ Told!Fresh.under = {}
BY DEF Recorder, Told!Fresh, TopNodes

LEMMA PlaceFields ==
  ASSUME NEW s, Recorder(s), NEW place
  PROVE  LET t == [s EXCEPT !.pc = place]
         IN  /\ Recorder(t) /\ t.pc = place /\ t.step = s.step /\ t.path = s.path
             /\ t.prior = s.prior /\ t.steps = s.steps /\ t.todo = s.todo
             /\ t.visits = s.visits /\ t.under = s.under
BY DEF Recorder

LEMMA FailedFields ==
  ASSUME NEW s, Recorder(s), NEW failed
  PROVE  LET t == [s EXCEPT !.failed = failed]
         IN  /\ Recorder(t) /\ t.pc = s.pc /\ t.step = s.step /\ t.path = s.path
             /\ t.prior = s.prior /\ t.steps = s.steps /\ t.todo = s.todo
             /\ t.visits = s.visits /\ t.under = s.under
BY DEF Recorder

Less(s, x, d) == [s EXCEPT !.under = @ \ {x}, !.steps = Append(@, d)]

LEMMA LeaveFields ==
  ASSUME NEW s, Recorder(s), NEW x, NEW d
  PROVE  LET t == Less(s, x, d)
         IN  /\ Recorder(t) /\ t.pc = s.pc /\ t.step = s.step /\ t.path = s.path
             /\ t.prior = s.prior /\ t.steps = Append(s.steps, d) /\ t.todo = s.todo
             /\ t.visits = s.visits /\ t.under = s.under \ {x}
<1> DEFINE u == s.under \ {x}
           v == Append(s.steps, d)
           t == Less(s, x, d)
<1>1. s = Make(s.pc, s.step, s.path, s.prior, s.steps, s.visits, s.under, s.todo, s.failed,
               s.pauses)
  BY Zenon DEF Recorder, Make
<1>2. [s EXCEPT !.under = u].steps = s.steps
  BY <1>1 DEF Make
<1>3. t = [[s EXCEPT !.under = u] EXCEPT !.steps = v]
  BY <1>2 DEF Less
<1> HIDE DEF u, v, t
<1>4. t = Make(s.pc, s.step, s.path, s.prior, v, s.visits, u, s.todo, s.failed, s.pauses)
  <2>1. PICK u1 : u1 = [s EXCEPT !.under = u]
    OBVIOUS
  <2>2. u1 = Make(s.pc, s.step, s.path, s.prior, s.steps, s.visits, u, s.todo, s.failed, s.pauses)
    BY <1>1, <1>3, <2>1 DEF Make
  <2>3. PICK u2 : u2 = [u1 EXCEPT !.steps = v]
    OBVIOUS
  <2>4. u2 = Make(s.pc, s.step, s.path, s.prior, v, s.visits, u, s.todo, s.failed, s.pauses)
    BY <2>2, <2>3 DEF Make
  <2> QED BY <1>3, <2>1, <2>3, <2>4
<1>5. /\ Recorder(t) /\ t.pc = s.pc /\ t.step = s.step /\ t.path = s.path
      /\ t.prior = s.prior /\ t.steps = v /\ t.todo = s.todo
      /\ t.visits = s.visits /\ t.under = u
  BY <1>4 DEF Make, Recorder
<1> QED BY <1>5, Zenon DEF u, v, t

LEMMA StepFields ==
  ASSUME NEW x, NEW outcome, NEW cost
  PROVE  LET d == Told!StepOf(x, outcome, cost)
             e == [did |-> d, attempt |-> x.attempt, span |-> x.span]
         IN  /\ d.node = x.node /\ d.parent = x.parent /\ d.outcome = outcome /\ d.cost = cost
             /\ e.did = d /\ e.attempt = x.attempt /\ e.span = x.span
BY DEF Told!StepOf

LEMMA ReportFields ==
  ASSUME NEW s
  PROVE  /\ Told!ReportOf(s).steps = s.prior \o s.steps
         /\ Told!ReportOf(s).cost = Told!SumOf(s.prior \o s.steps)
         /\ Told!ReportOf(s).path = s.path
BY DEF Told!ReportOf

(* What an action does to a run, and leaves of the others *)

Alone(r) ==
  /\ ReportTypes'
  /\ \A q \in ReportRuns \ {r} :
       mRun'[q] = mRun[q] /\ mDone'[q] = mDone[q] /\ mReports'[q] = mReports[q]

Parent(n) == IF n \in TopNodes THEN Told!Nobody ELSE Told!Fan

\* An execution begins, on top of some counts, executions and path.
Begun(t, n, visits, under, path, span) ==
  /\ Recorder(t) /\ t.visits = [visits EXCEPT ![n] = @ + 1] /\ t.path = path
  /\ \E x : /\ x.node = n /\ x.step = t.step
            /\ x.parent = Parent(n)
            /\ x.attempt = visits[n] + 1 /\ x.span = span
            /\ t.under = under \cup {x}

Begins(r, n, visits, under, path) ==
  /\ Alone(r) /\ mDone' = mDone /\ mReports' = mReports
  /\ Begun(mRun'[r], n, visits, under, path, Len(mSpans) + 1)
  /\ \E step : step = mRun'[r].step /\ Told!StartSpan(r, n, Parent(n), step)

\* An execution ends: e is added to what was done.
Left(s, t, done, more, x, d, e) ==
  /\ more = Append(done, e)
  /\ Recorder(t) /\ t.step = s.step /\ t.path = s.path /\ t.visits = s.visits
  /\ t.prior = s.prior /\ t.todo = s.todo
  /\ t.under = s.under \ {x} /\ t.steps = Append(s.steps, d)
  /\ x \in s.under /\ d.node = x.node /\ d.parent = x.parent /\ d.cost \in Nat
  /\ e.did = d /\ e.attempt = x.attempt /\ e.span = x.span

LEMMA RunSet ==
  ASSUME ReportTypes, NEW r \in ReportRuns, NEW t, mRun' = [mRun EXCEPT ![r] = t],
         mDone' = [q \in ReportRuns |-> mDone'[q]], mReports' = [q \in ReportRuns |-> mReports'[q]],
         \A q \in ReportRuns \ {r} : mDone'[q] = mDone[q] /\ mReports'[q] = mReports[q]
  PROVE  Alone(r) /\ mRun'[r] = t
<1>1. mRun' = [q \in ReportRuns |-> mRun'[q]]
  BY DEF ReportTypes
<1>2. mRun'[r] = t /\ \A q \in ReportRuns \ {r} : mRun'[q] = mRun[q]
  BY DEF ReportTypes
<1> QED BY <1>1, <1>2 DEF Alone, ReportTypes

LEMMA Idle ==
  ASSUME ReportTypes, NEW r \in ReportRuns, NEW t, mRun' = [mRun EXCEPT ![r] = t],
         mDone' = mDone, mReports' = mReports
  PROVE  Alone(r) /\ mRun'[r] = t
<1>1. mDone' = [q \in ReportRuns |-> mDone'[q]] /\ mReports' = [q \in ReportRuns |-> mReports'[q]]
  BY DEF ReportTypes
<1> QED BY <1>1, RunSet

LEMMA StepBegins ==
  ASSUME ReportTypes, NEW r \in ReportRuns, RunInv(r), NEW n \in TopNodes, Told!Step(r, n)
  PROVE  LET s == mRun[r]
             t == mRun'[r]
         IN  /\ s.pc = "ready" /\ t.pc = n /\ t.todo \subseteq FanBranches
             /\ t.prior = s.prior /\ t.steps = s.steps
             /\ Begins(r, n, s.visits, s.under, Append(s.path, n))
<1> DEFINE s == mRun[r]
           a == s.step + 1
           todo == IF n = Told!Fan THEN FanBranches ELSE {}
           u == Turned(s, n, todo)
<1>1. PICK t : t = Told!Enter(u, n, Told!Nobody, a)
  OBVIOUS
<1>2. /\ s.pc = "ready" /\ mRun' = [mRun EXCEPT ![r] = t]
      /\ mDone' = mDone /\ mReports' = mReports
      /\ Told!StartSpan(r, n, Told!Nobody, a)
  BY <1>1 DEF Told!Step, Turned
<1>3. Recorder(s) /\ n \in DOMAIN s.visits
  BY DEF RunInv, Faithful, RecorderOK, Counts
<1> HIDE DEF s, todo
<1>4. /\ Recorder(u) /\ u.pc = n /\ u.step = s.step + 1 /\ u.path = Append(s.path, n)
      /\ u.prior = s.prior /\ u.steps = s.steps /\ u.todo = todo
      /\ u.visits = s.visits /\ u.under = s.under
  BY <1>3, TurnFields
<1>5. Alone(r) /\ mRun'[r] = t
  BY <1>2, Idle
<1>6. todo \subseteq FanBranches
  BY DEF todo
<1>7. PICK x : x = Told!Execution(n, Told!Nobody, a, u.visits[n] + 1, Len(mSpans) + 1)
  OBVIOUS
<1> HIDE DEF a, u
<1>8. /\ Recorder(t) /\ t.pc = u.pc /\ t.step = u.step /\ t.path = u.path
      /\ t.prior = u.prior /\ t.steps = u.steps /\ t.todo = u.todo
      /\ t.visits = [u.visits EXCEPT ![n] = @ + 1] /\ t.under = u.under \cup {x}
      /\ x.node = n /\ x.parent = Told!Nobody /\ x.step = a
      /\ x.attempt = u.visits[n] + 1 /\ x.span = Len(mSpans) + 1
  <2>1. n \in DOMAIN u.visits
    BY <1>3, <1>4
  <2> QED BY <1>1, <1>4, <1>7, <2>1, EnterFields
<1>9. Begins(r, n, s.visits, s.under, Append(s.path, n))
  BY <1>2, <1>4, <1>5, <1>8 DEF Begins, Begun, Parent, a
<1> QED BY <1>2, <1>4, <1>5, <1>6, <1>8, <1>9 DEF s

LEMMA BranchBegins ==
  ASSUME ReportTypes, NEW r \in ReportRuns, RunInv(r), NEW b \in FanBranches,
         Told!BranchStarts(r, b)
  PROVE  LET s == mRun[r]
             t == mRun'[r]
         IN  /\ s.pc = Told!Fan /\ t.pc = Told!Fan /\ b \in s.todo /\ t.todo = s.todo \ {b}
             /\ t.step = s.step /\ t.prior = s.prior /\ t.steps = s.steps
             /\ Begins(r, b, s.visits, s.under, s.path)
<1> DEFINE s == mRun[r]
           u == [s EXCEPT !.todo = @ \ {b}]
<1>1. PICK t : t = Told!Enter(u, b, Told!Fan, s.step)
  OBVIOUS
<1>2. /\ s.pc = Told!Fan /\ b \in s.todo /\ mRun' = [mRun EXCEPT ![r] = t]
      /\ mDone' = mDone /\ mReports' = mReports
      /\ Told!StartSpan(r, b, Told!Fan, s.step)
  BY <1>1 DEF Told!BranchStarts
<1>3. Recorder(s) /\ b \in DOMAIN s.visits
  BY DEF RunInv, Faithful, RecorderOK, Counts
<1>4. /\ Recorder(u) /\ u.pc = s.pc /\ u.step = s.step /\ u.path = s.path
      /\ u.prior = s.prior /\ u.steps = s.steps /\ u.todo = s.todo \ {b}
      /\ u.visits = s.visits /\ u.under = s.under
  BY <1>3, TodoFields
<1>5. Alone(r) /\ mRun'[r] = t
  BY <1>2, Idle
<1>6. b \notin TopNodes
  BY TopsAreNodes DEF TopNodes
<1>7. PICK x : x = Told!Execution(b, Told!Fan, s.step, u.visits[b] + 1, Len(mSpans) + 1)
  OBVIOUS
<1> HIDE DEF s, u
<1>8. /\ Recorder(t) /\ t.pc = u.pc /\ t.step = u.step /\ t.path = u.path
      /\ t.prior = u.prior /\ t.steps = u.steps /\ t.todo = u.todo
      /\ t.visits = [u.visits EXCEPT ![b] = @ + 1] /\ t.under = u.under \cup {x}
      /\ x.node = b /\ x.parent = Told!Fan /\ x.step = s.step
      /\ x.attempt = u.visits[b] + 1 /\ x.span = Len(mSpans) + 1
  <2>1. b \in DOMAIN u.visits
    BY <1>3, <1>4
  <2> QED BY <1>1, <1>4, <1>7, <2>1, EnterFields
<1>9. Begins(r, b, s.visits, s.under, s.path)
  BY <1>2, <1>4, <1>5, <1>6, <1>8 DEF Begins, Begun, Parent
<1> QED BY <1>2, <1>4, <1>5, <1>8, <1>9 DEF s

LEMMA ResumeBegins ==
  ASSUME ReportTypes, NEW r \in ReportRuns, RunInv(r), Told!Resume(r)
  PROVE  LET s == mRun[r]
             t == mRun'[r]
         IN  /\ s.pc = "asks" /\ t.pc = Told!Top /\ t.todo = {}
             /\ t.prior = mReports[r].steps /\ t.steps = <<>>
             /\ Begins(r, Told!Top, Told!SeedVisits(s.path), {}, Append(s.path, Told!Top))
<1> DEFINE s == mRun[r]
           path == Append(s.path, Told!Top)
           prior == mReports[r].steps
           visits == Told!SeedVisits(s.path)
           pauses == s.pauses + 1
           u == Again(s.step, path, prior, visits, pauses)
<1>1. PICK t : t = Told!Enter(u, Told!Top, Told!Nobody, s.step)
  OBVIOUS
<1>2. /\ s.pc = "asks" /\ mRun' = [mRun EXCEPT ![r] = t]
      /\ mDone' = mDone /\ mReports' = mReports
      /\ Told!StartSpan(r, Told!Top, Told!Nobody, s.step)
  BY <1>1 DEF Told!Resume, Again
<1>3. Told!Top \in DOMAIN visits /\ Told!Top \in TopNodes
  BY DEF Told!SeedVisits, TopNodes
<1> HIDE DEF s, path, prior, visits, pauses
<1>4. /\ Recorder(u) /\ u.pc = Told!Top /\ u.step = s.step /\ u.path = path
      /\ u.prior = prior /\ u.steps = <<>> /\ u.todo = {}
      /\ u.visits = visits /\ u.under = {}
  BY FreshFields, Zenon
<1>5. Alone(r) /\ mRun'[r] = t
  BY <1>2, Idle
<1>6. PICK x : x = Told!Execution(Told!Top, Told!Nobody, s.step, u.visits[Told!Top] + 1,
                                  Len(mSpans) + 1)
  OBVIOUS
<1> HIDE DEF u
<1>7. /\ Recorder(t) /\ t.pc = u.pc /\ t.step = u.step /\ t.path = u.path
      /\ t.prior = u.prior /\ t.steps = u.steps /\ t.todo = u.todo
      /\ t.visits = [u.visits EXCEPT ![Told!Top] = @ + 1] /\ t.under = u.under \cup {x}
      /\ x.node = Told!Top /\ x.parent = Told!Nobody /\ x.step = s.step
      /\ x.attempt = u.visits[Told!Top] + 1 /\ x.span = Len(mSpans) + 1
  <2>1. Told!Top \in DOMAIN u.visits
    BY <1>3, <1>4
  <2> QED BY <1>1, <1>4, <1>6, <2>1, EnterFields
<1>8. Begins(r, Told!Top, visits, {}, path)
  BY <1>2, <1>3, <1>4, <1>5, <1>7 DEF Begins, Begun, Parent
<1> QED BY <1>2, <1>4, <1>5, <1>7, <1>8 DEF s, path, prior, visits

\* What ends is a branch, or the node the loop is in.
Ended1(s, t, x, d) ==
  \/ /\ s.pc = Told!Fan /\ t.pc = Told!Fan /\ x.node \in FanBranches /\ d.outcome # "paused"
  \/ /\ s.pc \in TopNodes /\ x.node = s.pc /\ s.under = {x}
     /\ d.node = Told!Fan => d.cost = 0
     /\ t.pc \in {"ready", "failed", "paused"} /\ (t.pc = "paused" <=> d.outcome = "paused")

Ends(r, x, d) ==
  /\ Alone(r) /\ mReports' = mReports /\ Ended1(mRun[r], mRun'[r], x, d)
  /\ Told!EndSpan(x, d.outcome)
  /\ \E e : Left(mRun[r], mRun'[r], mDone[r], mDone'[r], x, d, e)

\* A run that is elsewhere, and otherwise as it was.
Moved(s, u) ==
  /\ Recorder(u) /\ u.step = s.step /\ u.path = s.path
  /\ u.prior = s.prior /\ u.steps = s.steps /\ u.todo = s.todo
  /\ u.visits = s.visits /\ u.under = s.under

LEMMA EndsOne ==
  ASSUME ReportTypes, NEW r \in ReportRuns, NEW u, Moved(mRun[r], u), NEW x \in mRun[r].under, NEW outcome, NEW cost \in Nat,
         Told!Leave(r, u, x, outcome, cost), mReports' = mReports,
         NEW d, d = Told!StepOf(x, outcome, cost)
  PROVE  /\ Alone(r) /\ mRun'[r].pc = u.pc /\ Told!EndSpan(x, d.outcome)
         /\ d.outcome = outcome /\ d.cost = cost /\ d.node = x.node
         /\ \E e : Left(mRun[r], mRun'[r], mDone[r], mDone'[r], x, d, e)
<1>2. PICK e : e = [did |-> d, attempt |-> x.attempt, span |-> x.span]
  OBVIOUS
<1>3. PICK t : t = Less(u, x, d)
  OBVIOUS
<1>4. /\ mRun' = [mRun EXCEPT ![r] = t] /\ mDone' = [mDone EXCEPT ![r] = Append(@, e)]
      /\ Told!EndSpan(x, outcome)
  BY <1>2, <1>3 DEF Told!Leave, Less
<1>5. /\ d.node = x.node /\ d.parent = x.parent /\ d.outcome = outcome /\ d.cost = cost
      /\ e.did = d /\ e.attempt = x.attempt /\ e.span = x.span
  BY <1>2, StepFields
<1>6. /\ mDone'[r] = Append(mDone[r], e) /\ mDone' = [q \in ReportRuns |-> mDone'[q]]
      /\ \A q \in ReportRuns \ {r} : mDone'[q] = mDone[q]
  <2>1. PICK more : more = Append(mDone[r], e)
    OBVIOUS
  <2>2. mDone' = [mDone EXCEPT ![r] = more]
    BY <1>4, <2>1
  <2>3. more = mDone'[r]
    BY <2>2 DEF ReportTypes
  <2>4. mDone'[r] = Append(mDone[r], e)
    BY <2>1, <2>3
  <2> QED BY <2>2, <2>4 DEF ReportTypes
<1>7. mReports' = [q \in ReportRuns |-> mReports'[q]]
  BY DEF ReportTypes
<1>8. Alone(r) /\ mRun'[r] = t
  BY <1>4, <1>6, <1>7, RunSet
<1>9. /\ Recorder(t) /\ t.pc = u.pc /\ t.step = u.step /\ t.path = u.path
      /\ t.prior = u.prior /\ t.steps = Append(u.steps, d) /\ t.todo = u.todo
      /\ t.visits = u.visits /\ t.under = u.under \ {x}
  BY <1>3, LeaveFields DEF Moved
<1>10. Left(mRun[r], t, mDone[r], mDone'[r], x, d, e)
  BY <1>5, <1>6, <1>9 DEF Left, Moved
<1>11. /\ mRun'[r].pc = u.pc /\ Left(mRun[r], mRun'[r], mDone[r], mDone'[r], x, d, e)
  BY <1>8, <1>9, <1>10
<1>12. Told!EndSpan(x, d.outcome)
  BY <1>4, <1>5
<1> QED BY <1>5, <1>6, <1>8, <1>11, <1>12, Zenon

LEMMA OwnIs ==
  ASSUME NEW r, NEW n, \E x \in mRun[r].under : x.node = n
  PROVE  Told!Own(r, n) \in mRun[r].under /\ Told!Own(r, n).node = n
BY DEF Told!Own

LEMMA TopEnds ==
  ASSUME ReportTypes, NEW r \in ReportRuns, RunInv(r),
         NEW outcome \in {"ok", "failed", "paused"}, NEW cost \in {0, 1},
         Told!TopEnds(r, outcome, cost)
  PROVE  \E x, d : Ends(r, x, d)
<1> DEFINE s == mRun[r]
           place == IF outcome = "ok" THEN "ready" ELSE outcome
<1>1. PICK u : u = [s EXCEPT !.pc = place]
  OBVIOUS
<1>2. PICK x : x = Told!Own(r, Told!Top)
  OBVIOUS
<1>3. s.pc = Told!Top /\ Told!Leave(r, u, x, outcome, cost) /\ mReports' = mReports
  BY <1>1, <1>2 DEF Told!TopEnds
<1>4. Recorder(s) /\ UnderWay(s)
  BY DEF RunInv, Faithful, RecorderOK
<1>5. Told!Top \in TopNodes /\ Told!Top # Told!Fan
  BY TopsAreNodes DEF TopNodes
<1>6. x \in s.under /\ x.node = Told!Top
  BY <1>2, <1>3, <1>4, <1>5, OwnIs DEF UnderWay
<1>7. s.under = {x}
  BY <1>3, <1>4, <1>5, <1>6 DEF UnderWay
<1>8. place \in {"ready", "failed", "paused"} /\ (place = "paused" <=> outcome = "paused")
  OBVIOUS
<1> HIDE DEF s, place
<1>9. /\ Recorder(u) /\ u.pc = place /\ u.step = s.step /\ u.path = s.path
      /\ u.prior = s.prior /\ u.steps = s.steps /\ u.todo = s.todo
      /\ u.visits = s.visits /\ u.under = s.under
  BY <1>1, <1>4, PlaceFields
<1>10. PICK d : d = Told!StepOf(x, outcome, cost)
  OBVIOUS
<1>11. cost \in Nat
  OBVIOUS
<1>12. /\ Alone(r) /\ mRun'[r].pc = u.pc /\ Told!EndSpan(x, d.outcome)
       /\ d.outcome = outcome /\ d.cost = cost /\ d.node = x.node
       /\ \E e : Left(mRun[r], mRun'[r], mDone[r], mDone'[r], x, d, e)
  <2>1. Moved(mRun[r], u)
    BY <1>9 DEF Moved, s
  <2> QED BY <1>3, <1>6, <1>9, <1>10, <1>11, <2>1, EndsOne DEF s
<1>13. Ended1(mRun[r], mRun'[r], x, d)
  BY <1>3, <1>5, <1>6, <1>7, <1>8, <1>9, <1>12 DEF Ended1, s
<1> QED BY <1>3, <1>12, <1>13 DEF Ends

LEMMA BranchEnds ==
  ASSUME ReportTypes, NEW r \in ReportRuns, RunInv(r), NEW b \in FanBranches,
         NEW outcome \in {"ok", "failed"}, Told!BranchEnds(r, b, outcome, 1)
  PROVE  \E x, d : Ends(r, x, d)
<1> DEFINE s == mRun[r]
           failed == s.failed \/ outcome = "failed"
<1>1. PICK u : u = [s EXCEPT !.failed = failed]
  OBVIOUS
<1>2. PICK x : x = Told!Own(r, b)
  OBVIOUS
<1>3. /\ s.pc = Told!Fan /\ Told!Leave(r, u, x, outcome, 1) /\ mReports' = mReports
      /\ \E y \in s.under : y.node = b
  BY <1>1, <1>2 DEF Told!BranchEnds
<1>4. Recorder(s) /\ UnderWay(s)
  BY DEF RunInv, Faithful, RecorderOK
<1>6. x \in s.under /\ x.node = b
  BY <1>2, <1>3, OwnIs
<1> HIDE DEF s, failed
<1>9. /\ Recorder(u) /\ u.pc = s.pc /\ u.step = s.step /\ u.path = s.path
      /\ u.prior = s.prior /\ u.steps = s.steps /\ u.todo = s.todo
      /\ u.visits = s.visits /\ u.under = s.under
  BY <1>1, <1>4, FailedFields
<1>10. PICK d : d = Told!StepOf(x, outcome, 1)
  OBVIOUS
<1>12. /\ Alone(r) /\ mRun'[r].pc = u.pc /\ Told!EndSpan(x, d.outcome)
       /\ d.outcome = outcome /\ d.cost = 1 /\ d.node = x.node
       /\ \E e : Left(mRun[r], mRun'[r], mDone[r], mDone'[r], x, d, e)
  <2>1. Moved(mRun[r], u)
    BY <1>9 DEF Moved, s
  <2> QED BY <1>3, <1>6, <1>9, <1>10, <2>1, EndsOne DEF s
<1>13. Ended1(mRun[r], mRun'[r], x, d)
  BY <1>3, <1>6, <1>9, <1>12 DEF Ended1, s
<1> QED BY <1>3, <1>12, <1>13 DEF Ends

LEMMA FanEnds ==
  ASSUME ReportTypes, NEW r \in ReportRuns, RunInv(r), Told!FanEnds(r)
  PROVE  \E x, d : Ends(r, x, d)
<1> DEFINE s == mRun[r]
<1>1. PICK x : x = Told!Own(r, Told!Fan)
  OBVIOUS
<1>2. PICK outcome \in {"ok", "failed"} :
        Told!Leave(r, [s EXCEPT !.pc = IF outcome = "ok" THEN "ready" ELSE outcome], x,
                   outcome, Told!FanCost(s))
  BY <1>1 DEF Told!FanEnds
<1> DEFINE place == IF outcome = "ok" THEN "ready" ELSE outcome
<1>3. PICK u : u = [s EXCEPT !.pc = place]
  OBVIOUS
<1>4. /\ s.pc = Told!Fan /\ Told!Leave(r, u, x, outcome, 0) /\ mReports' = mReports
      /\ \A y \in s.under : y.node = Told!Fan
  BY <1>2, <1>3 DEF Told!FanEnds, Told!FanCost
<1>5. Recorder(s) /\ UnderWay(s)
  BY DEF RunInv, Faithful, RecorderOK
<1>6. Told!Fan \in TopNodes
  BY DEF TopNodes
<1>7. x \in s.under /\ x.node = Told!Fan
  BY <1>1, <1>4, <1>5, <1>6, OwnIs DEF UnderWay
<1>8. s.under = {x}
  BY <1>4, <1>5, <1>7 DEF UnderWay
<1>9. place \in {"ready", "failed", "paused"} /\ place # "paused" /\ outcome # "paused"
  OBVIOUS
<1> HIDE DEF s, place
<1>10. /\ Recorder(u) /\ u.pc = place /\ u.step = s.step /\ u.path = s.path
       /\ u.prior = s.prior /\ u.steps = s.steps /\ u.todo = s.todo
       /\ u.visits = s.visits /\ u.under = s.under
  BY <1>3, <1>5, PlaceFields
<1>11. PICK d : d = Told!StepOf(x, outcome, 0)
  OBVIOUS
<1>12. /\ Alone(r) /\ mRun'[r].pc = u.pc /\ Told!EndSpan(x, d.outcome)
       /\ d.outcome = outcome /\ d.cost = 0 /\ d.node = x.node
       /\ \E e : Left(mRun[r], mRun'[r], mDone[r], mDone'[r], x, d, e)
  <2>1. Moved(mRun[r], u)
    BY <1>10 DEF Moved, s
  <2> QED BY <1>4, <1>7, <1>10, <1>11, <2>1, EndsOne DEF s
<1>13. Ended1(mRun[r], mRun'[r], x, d)
  BY <1>4, <1>6, <1>7, <1>8, <1>9, <1>10, <1>12 DEF Ended1, s
<1> QED BY <1>4, <1>12, <1>13 DEF Ends

LEMMA ReturnLeaves ==
  ASSUME ReportTypes, NEW r \in ReportRuns, RunInv(r), Told!Return(r)
  PROVE  LET s == mRun[r]
             t == mRun'[r]
         IN  /\ Alone(r) /\ mDone' = mDone /\ mReports'[r] = Told!ReportOf(s)
             /\ Recorder(t) /\ t.path = s.path /\ t.prior = s.prior /\ t.steps = s.steps
             /\ t.visits = s.visits /\ t.under = s.under /\ t.todo = s.todo /\ t.step = s.step
             /\ s.pc \in {"ready", "failed", "paused"}
             /\ t.pc = IF s.pc = "paused" THEN "asks" ELSE "over"
<1> DEFINE s == mRun[r]
           place == IF s.pc = "paused" THEN "asks" ELSE "over"
<1>1. PICK t : t = [s EXCEPT !.pc = place]
  OBVIOUS
<1>2. PICK report : report = Told!ReportOf(s)
  OBVIOUS
<1>3. /\ s.pc \in {"ready", "failed", "paused"} /\ mRun' = [mRun EXCEPT ![r] = t]
      /\ mReports' = [mReports EXCEPT ![r] = report] /\ mDone' = mDone
  BY <1>1, <1>2 DEF Told!Return
<1>4. /\ mReports'[r] = report /\ mReports' = [q \in ReportRuns |-> mReports'[q]]
      /\ \A q \in ReportRuns \ {r} : mReports'[q] = mReports[q]
  BY <1>3 DEF ReportTypes
<1>5. mDone' = [q \in ReportRuns |-> mDone'[q]]
  BY <1>3 DEF ReportTypes
<1>6. Alone(r) /\ mRun'[r] = t
  BY <1>3, <1>4, <1>5, RunSet
<1>7. Recorder(s)
  BY DEF RunInv, Faithful, RecorderOK
<1> HIDE DEF s, place
<1>8. /\ Recorder(t) /\ t.pc = place /\ t.step = s.step /\ t.path = s.path
      /\ t.prior = s.prior /\ t.steps = s.steps /\ t.todo = s.todo
      /\ t.visits = s.visits /\ t.under = s.under
  BY <1>1, <1>7, PlaceFields
<1> QED BY <1>2, <1>3, <1>4, <1>6, <1>8 DEF s, place

(* What an execution that begins leaves true *)

LEMMA FlyingMore ==
  ASSUME NEW under, NEW x, \A y \in under : y.node # x.node, NEW n
  PROVE  /\ Flying(under, n) \in Nat
         /\ Flying(under \cup {x}, n) = Flying(under, n) + IF x.node = n THEN 1 ELSE 0
BY DEF Flying

LEMMA FlyingLess ==
  ASSUME NEW under, NEW x \in under, \A y \in under : y.node = x.node => y = x, NEW n
  PROVE  /\ Flying(under \ {x}, n) \in Nat
         /\ Flying(under, n) = Flying(under \ {x}, n) + IF x.node = n THEN 1 ELSE 0
<1>1. CASE x.node = n
  <2>1. Flying(under, n) = 1
    BY <1>1 DEF Flying
  <2>2. Flying(under \ {x}, n) = 0
    BY <1>1 DEF Flying
  <2> QED BY <1>1, <2>1, <2>2
<1>2. CASE x.node # n
  <2>1. (\E y \in under \ {x} : y.node = n) <=> (\E y \in under : y.node = n)
    BY <1>2
  <2>2. Flying(under, n) = Flying(under \ {x}, n) /\ Flying(under, n) \in Nat
    BY <2>1 DEF Flying
  <2> QED BY <1>2, <2>2
<1> QED BY <1>1, <1>2

LEMMA EndedIsNat ==
  ASSUME NEW D, Len(D) \in Nat, NEW n
  PROVE  Ended(D, 1, n) \in Nat /\ Ended(D, Since(D), n) \in Nat
<1>1. PICK k : k = Len(D)
  OBVIOUS
<1>2. 1 \in 1..(k + 1) /\ Since(D) \in 1..(k + 1)
  BY <1>1, SinceIsPlace DEF Since
<1>3. Told!Between(D, 1, k, n) \in Nat
  BY <1>1, <1>2, BetweenNext
<1>4. PICK from : from = Since(D)
  OBVIOUS
<1>5. Told!Between(D, from, k, n) \in Nat
  BY <1>1, <1>2, <1>4, BetweenNext
<1> QED BY <1>1, <1>3, <1>4, <1>5 DEF Ended

\* An execution that begins is counted.
LEMMA EntryCounted ==
  ASSUME NEW D, Len(D) \in Nat, NEW visits, Counts(visits), NEW under,
         NEW path, ASequence(path), CountsOf(D, visits, under, path),
         NEW n \in TopNodes \cup FanBranches, NEW x, x.node = n, \A y \in under : y.node # n,
         NEW longer, longer = IF n \in TopNodes THEN Append(path, n) ELSE path
  PROVE  CountsOf(D, [visits EXCEPT ![n] = @ + 1], under \cup {x}, longer)
<1>1. PICK more : more = [visits EXCEPT ![n] = @ + 1]
  OBVIOUS
<1>2. PICK flying : flying = under \cup {x}
  OBVIOUS
<1>3. more[n] = visits[n] + 1 /\ \A k \in (TopNodes \cup FanBranches) \ {n} : more[k] = visits[k]
  BY <1>1 DEF Counts
<1>4. \A k : /\ Flying(under, k) \in Nat
             /\ Flying(flying, k) = Flying(under, k) + IF n = k THEN 1 ELSE 0
  BY <1>2, FlyingMore
<1>5. \A k : Ended(D, 1, k) \in Nat /\ Ended(D, Since(D), k) \in Nat
  BY EndedIsNat
<1>6. TopNodes \cap FanBranches = {}
  BY TopsAreNodes DEF TopNodes
<1>7. ASSUME NEW k \in TopNodes
      PROVE  more[k] = Ended(D, 1, k) + Flying(flying, k) /\ more[k] = Told!CountOf(longer, k)
  <2>1. visits[k] = Ended(D, 1, k) + Flying(under, k) /\ visits[k] = Told!CountOf(path, k)
    BY DEF CountsOf
  <2>2. Told!CountOf(longer, k) = Told!CountOf(path, k) + IF n = k THEN 1 ELSE 0
    <3>1. CASE n \in TopNodes
      <4>1. longer = Append(path, n)
        BY <3>1
      <4>2. Told!CountOf(Append(path, n), k) = Told!CountOf(path, k) + IF n = k THEN 1 ELSE 0
        BY CountNext
      <4> QED BY <4>1, <4>2
    <3>2. CASE n \notin TopNodes
      <4>1. longer = path /\ n # k
        BY <3>2
      <4>2. Told!CountOf(path, k) \in Nat
        BY CountNext
      <4> QED BY <4>1, <4>2
    <3> QED BY <3>1, <3>2
  <2> QED BY <1>3, <1>4, <1>5, <2>1, <2>2
<1>8. ASSUME NEW k \in FanBranches PROVE more[k] = Ended(D, Since(D), k) + Flying(flying, k)
  <2>1. visits[k] = Ended(D, Since(D), k) + Flying(under, k)
    BY DEF CountsOf
  <2> QED BY <1>3, <1>4, <1>5, <2>1
<1>9. CountsOf(D, more, flying, longer)
  BY <1>7, <1>8 DEF CountsOf
<1> QED BY <1>1, <1>2, <1>9

\* The places of a finite set of numbers.
LEMMA PlacesOf ==
  ASSUME NEW k \in Nat, NEW A \in SUBSET (1..k), NEW i \in A
  PROVE  /\ Cardinality({j \in A : j <= i}) \in 1..Cardinality(A)
         /\ Cardinality(A) \in Nat /\ {j \in A : j <= i} \in SUBSET (1..k)
<1>1. PICK B : B = {j \in A : j <= i}
  OBVIOUS
<1>2. B \in SUBSET (1..k) /\ i \in B /\ B \subseteq A
  <2>1. i \in 1..k
    OBVIOUS
  <2>2. i <= i
    BY <2>1
  <2> QED BY <1>1, <2>2
<1>3. IsFiniteSet(A) /\ IsFiniteSet(B) /\ Cardinality(A) \in Nat /\ Cardinality(B) \in Nat
  BY <1>2, NextCounted
<1>4. Cardinality(B) <= Cardinality(A)
  BY <1>2, <1>3, FS_Subset
<1>5. Cardinality(B) # 0
  BY <1>2, <1>3, FS_EmptySet
<1> QED BY <1>1, <1>2, <1>3, <1>4, <1>5

\* The path of a run whose loop begins an execution.
LEMMA EntryPathed ==
  ASSUME NEW s, NEW D, Pathed(s, D), Len(D) \in Nat, ASequence(s.path), s.pc \notin TopNodes,
         NEW t, NEW n \in TopNodes, t.pc = n, t.path = Append(s.path, n)
  PROVE  Pathed(t, D)
<1>1. PICK p : p = s.path
  OBVIOUS
<1>2. PICK q : q = Append(p, n)
  OBVIOUS
<1>3. /\ Len(p) \in Nat /\ Len(q) = Len(p) + 1 /\ q[Len(p) + 1] = n
      /\ \A i \in 1..Len(p) : q[i] = p[i]
  BY <1>1, <1>2, Appended DEF ASequence
<1>4. PICK A : A = TopsOf(D)
  OBVIOUS
<1>5. PICK k : k = Len(D)
  OBVIOUS
<1>6. k \in Nat /\ A \in SUBSET (1..k)
  BY <1>4, <1>5 DEF TopsOf
<1>7. Len(p) = Cardinality(A) /\ Cardinality(A) \in Nat
  <2>1. Cardinality(A) \in Nat
    BY <1>6, NextCounted
  <2>2. Len(p) = Cardinality(A) + 0
    BY <1>1, <1>4 DEF Pathed
  <2> QED BY <2>1, <2>2
<1>8. \A i \in 1..Len(q) : q[i] \in TopNodes
  BY <1>1, <1>3 DEF Pathed
<1>9. ASSUME NEW i \in A PROVE q[Cardinality({j \in A : j <= i})] = D[i].node
  <2>1. PICK c : c = Cardinality({j \in A : j <= i})
    OBVIOUS
  <2>2. c \in 1..Len(p)
    BY <1>6, <1>7, <2>1, PlacesOf
  <2>3. p[c] = D[i].node
    BY <1>1, <1>4, <2>1 DEF Pathed
  <2> QED BY <1>3, <2>1, <2>2, <2>3
<1>10. t.path = q
  BY <1>1, <1>2
<1>11. Len(q) = Cardinality(A) + 1
  BY <1>3, <1>7
<1> QED BY <1>3, <1>4, <1>8, <1>9, <1>10, <1>11 DEF Pathed

LEMMA DidIs ==
  ASSUME NEW done, ASequence(done)
  PROVE  /\ ASequence(DidOf(done)) /\ Len(DidOf(done)) = Len(done) /\ Len(done) \in Nat
         /\ \A i \in 1..Len(done) : DidOf(done)[i] = done[i].did
BY DEF ASequence, DidOf

LEMMA AskedIs ==
  ASSUME NEW s, RecorderOK(s)
  PROVE  Counts(Asked(s)) /\ (s.pc \notin {"paused", "asks"} => Asked(s) = s.visits)
<1>1. Counts(Told!SeedVisits(s.path))
  BY DEF Told!SeedVisits, Counts, TopNodes
<1> QED BY <1>1 DEF Asked, RecorderOK

LEMMA PlacesDiffer ==
  \A n \in TopNodes : n \notin {"ready", "failed", "paused", "asks", "over"}
BY DEF TopNodes, Told!Top, Told!Fan

\* The loop's next turn, or the first of a segment.
LEMMA TurnFaithful ==
  ASSUME NEW s, NEW t, NEW done, NEW report, NEW n \in TopNodes, NEW span,
         Faithful(s, done, report), s.pc \in {"ready", "asks"}, t.pc = n,
         t.todo \subseteq FanBranches, t.prior \o t.steps = s.prior \o s.steps,
         ASequence(t.prior), ASequence(t.steps),
         Begun(t, n, Asked(s), {}, Append(s.path, n), span)
  PROVE  Faithful(t, done, report)
<1>1. PICK D : D = DidOf(done)
  OBVIOUS
<1>2. ASequence(D) /\ Len(D) \in Nat
  BY <1>1, DidIs DEF Faithful
<1>3. /\ RecorderOK(s) /\ UnderWay(s) /\ Counted(s, D) /\ Pathed(s, D)
      /\ Reported(s, D, report) /\ Billed(s, D) /\ Attempts(done, D) /\ ASequence(done)
  BY <1>1 DEF Faithful
<1>4. s.pc \notin TopNodes /\ t.pc \notin {"paused", "asks", "over"}
  BY PlacesDiffer
<1>5. s.under = {}
  BY <1>3, <1>4 DEF UnderWay
<1>6. Counts(Asked(s))
  BY <1>3, AskedIs
<1>7. PICK x : /\ x.node = n /\ x.step = t.step /\ x.parent = Told!Nobody
               /\ x.attempt = Asked(s)[n] + 1 /\ t.under = {x}
  BY DEF Begun, Parent
<1>8. t.visits = [Asked(s) EXCEPT ![n] = @ + 1] /\ t.path = Append(s.path, n) /\ Recorder(t)
  BY DEF Begun, Parent
<1>9. RecorderOK(t)
  <2>1. ASequence(t.path)
    BY <1>3, <1>8, Appended DEF RecorderOK
  <2>2. Counts(t.visits)
    BY <1>6, <1>8 DEF Counts
  <2> QED BY <1>8, <2>1, <2>2 DEF RecorderOK
<1>10. UnderWay(t)
  BY <1>7 DEF UnderWay
<1>11. Counted(t, D)
  <2>1. CountsOf(D, Asked(s), {}, s.path)
    BY <1>3, <1>5 DEF Counted
  <2>2. Asked(t) = t.visits
    BY <1>4 DEF Asked
  <2>3. PICK path : path = Append(s.path, n)
    OBVIOUS
  <2>4. PICK visits : visits = Asked(s)
    OBVIOUS
  <2>5. CountsOf(D, [visits EXCEPT ![n] = @ + 1], {} \cup {x}, path)
    <3>1. ASequence(s.path) /\ Counts(visits) /\ CountsOf(D, visits, {}, s.path)
      BY <1>3, <1>6, <2>1, <2>4 DEF RecorderOK
    <3>2. path = IF n \in TopNodes THEN Append(s.path, n) ELSE s.path
      BY <2>3
    <3>3. n \in TopNodes \cup FanBranches
      OBVIOUS
    <3>4. \A y \in {} : y.node # n
      OBVIOUS
    <3> HIDE <2>1
    <3> QED BY <1>2, <1>7, <3>1, <3>2, <3>3, <3>4, EntryCounted
  <2>6. {} \cup {x} = {x}
    OBVIOUS
  <2>7. CountsOf(D, t.visits, t.under, t.path)
    BY <1>7, <1>8, <2>3, <2>4, <2>5, <2>6
  <2>8. t.visits[n] = Asked(s)[n] + 1
    BY <1>6, <1>8 DEF Counts
  <2> QED BY <1>7, <2>2, <2>7, <2>8 DEF Counted
<1>12. Pathed(t, D)
  BY <1>2, <1>3, <1>4, <1>8, EntryPathed DEF RecorderOK
<1>13. Reported(t, D, report)
  BY <1>3, <1>4 DEF Reported
<1>14. Billed(t, D)
  <2>1. Told!Fan \in TopNodes
    BY DEF TopNodes
  <2> QED BY <1>3, <1>4, <2>1 DEF Billed
<1> QED BY <1>1, <1>3, <1>9, <1>10, <1>11, <1>12, <1>13, <1>14 DEF Faithful

\* The next branch.
LEMMA BranchFaithful ==
  ASSUME NEW s, NEW t, NEW done, NEW report, NEW b \in FanBranches, NEW span,
         Faithful(s, done, report), s.pc = Told!Fan, t.pc = Told!Fan, b \in s.todo,
         t.todo = s.todo \ {b}, t.step = s.step, t.prior = s.prior, t.steps = s.steps,
         Begun(t, b, s.visits, s.under, s.path, span)
  PROVE  Faithful(t, done, report)
<1>1. PICK D : D = DidOf(done)
  OBVIOUS
<1>2. ASequence(D) /\ Len(D) \in Nat
  BY <1>1, DidIs DEF Faithful
<1>3. /\ RecorderOK(s) /\ UnderWay(s) /\ Counted(s, D) /\ Pathed(s, D)
      /\ Reported(s, D, report) /\ Billed(s, D) /\ Attempts(done, D) /\ ASequence(done)
  BY <1>1 DEF Faithful
<1>4. /\ Told!Fan \in TopNodes /\ b \notin TopNodes /\ b # Told!Fan
      /\ t.pc \notin {"paused", "asks", "over"}
  BY TopsAreNodes, PlacesDiffer DEF TopNodes
<1>5. \A y \in s.under : y.node # b
  BY <1>3, <1>4 DEF UnderWay
<1>6. Asked(s) = s.visits /\ Asked(t) = t.visits
  BY <1>4 DEF Asked
<1>7. PICK x : /\ x.node = b /\ x.step = t.step /\ x.parent = Told!Fan
               /\ x.attempt = s.visits[b] + 1 /\ t.under = s.under \cup {x}
  BY <1>4 DEF Begun, Parent
<1>8. t.visits = [s.visits EXCEPT ![b] = @ + 1] /\ t.path = s.path /\ Recorder(t)
  BY DEF Begun, Parent
<1>9. RecorderOK(t)
  <2>1. Counts(t.visits)
    BY <1>3, <1>8 DEF Counts, RecorderOK
  <2> QED BY <1>3, <1>8, <2>1 DEF RecorderOK
<1>10. UnderWay(t)
  <2>1. \A y \in t.under : y.step = t.step
    BY <1>3, <1>7 DEF UnderWay
  <2>2. \A y, z \in t.under : y.node = z.node => y = z
    BY <1>3, <1>5, <1>7 DEF UnderWay
  <2>3. \E y \in t.under : y.node = t.pc
    BY <1>3, <1>4, <1>7 DEF UnderWay
  <2>4. \A y \in t.under :
          \/ y.node = t.pc /\ y.parent = Told!Nobody
          \/ t.pc = Told!Fan /\ y.node \in FanBranches \ t.todo /\ y.parent = Told!Fan
    BY <1>3, <1>4, <1>7 DEF UnderWay
  <2>5. t.todo \subseteq FanBranches
    BY <1>3 DEF UnderWay
  <2> QED BY <1>4, <2>1, <2>2, <2>3, <2>4, <2>5 DEF UnderWay
<1>11. Counted(t, D)
  <2>1. CountsOf(D, s.visits, s.under, s.path)
    BY <1>3, <1>6 DEF Counted
  <2>2. ASequence(s.path) /\ Counts(s.visits)
    BY <1>3 DEF RecorderOK
  <2>3. s.path = IF b \in TopNodes THEN Append(s.path, b) ELSE s.path
    BY <1>4
  <2>4. b \in TopNodes \cup FanBranches
    OBVIOUS
  <2>5. CountsOf(D, [s.visits EXCEPT ![b] = @ + 1], s.under \cup {x}, s.path)
    BY <1>2, <1>5, <1>7, <2>1, <2>2, <2>3, <2>4, EntryCounted
  <2>6. CountsOf(D, t.visits, t.under, t.path)
    BY <1>7, <1>8, <2>5
  <2>7. /\ t.visits[b] = s.visits[b] + 1
        /\ \A y \in s.under : t.visits[y.node] = s.visits[y.node]
    BY <1>3, <1>5, <1>8 DEF Counts, RecorderOK
  <2>8. \A y \in t.under : y.attempt = t.visits[y.node]
    BY <1>3, <1>7, <2>7 DEF Counted
  <2> QED BY <1>6, <2>6, <2>8 DEF Counted
<1>12. Pathed(t, D)
  BY <1>3, <1>8 DEF Pathed
<1>13. Reported(t, D, report)
  BY <1>3, <1>4 DEF Reported
<1>14. Billed(t, D)
  BY <1>3 DEF Billed
<1> QED BY <1>1, <1>3, <1>9, <1>10, <1>11, <1>12, <1>13, <1>14 DEF Faithful

(* What an execution that ends leaves true *)

\* One execution more has been done.
Grown(D, E, d) ==
  /\ Len(D) \in Nat /\ Len(E) = Len(D) + 1
  /\ \A i \in 1..Len(D) : E[i] = D[i]
  /\ E[Len(D) + 1] = d

LEMMA DidGrows ==
  ASSUME NEW done, ASequence(done), NEW e
  PROVE  DidOf(Append(done, e)) = Append(DidOf(done), e.did)
         /\ Grown(DidOf(done), DidOf(Append(done, e)), e.did)
<1>1. PICK more : more = Append(done, e)
  OBVIOUS
<1>2. PICK D : D = DidOf(done)
  OBVIOUS
<1>3. PICK E : E = DidOf(more)
  OBVIOUS
<1>4. PICK F : F = Append(D, e.did)
  OBVIOUS
<1>5. PICK k : k = Len(done)
  OBVIOUS
<1>6. /\ k \in Nat /\ ASequence(more) /\ Len(more) = k + 1 /\ more[k + 1] = e
      /\ \A i \in 1..k : more[i] = done[i]
  BY <1>1, <1>5, Appended DEF ASequence
<1>7. ASequence(D) /\ Len(D) = k /\ \A i \in 1..k : D[i] = done[i].did
  BY <1>2, <1>5, DidIs
<1>8. ASequence(E) /\ Len(E) = k + 1 /\ \A i \in 1..(k + 1) : E[i] = more[i].did
  BY <1>3, <1>6, DidIs
<1>9. /\ ASequence(F) /\ Len(F) = k + 1 /\ F[k + 1] = e.did
      /\ \A i \in 1..k : F[i] = D[i]
  BY <1>4, <1>7, Appended
<1>10. \A i \in 1..(k + 1) : E[i] = F[i]
  BY <1>6, <1>7, <1>8, <1>9
<1>11. E = F
  BY <1>8, <1>9, <1>10 DEF ASequence
<1>12. Grown(D, E, e.did)
  BY <1>6, <1>7, <1>8, <1>9, <1>11 DEF Grown
<1> QED BY <1>1, <1>2, <1>3, <1>4, <1>11, <1>12

LEMMA EndedGrows ==
  ASSUME NEW D, NEW E, NEW d, Grown(D, E, d), NEW from \in 1..(Len(D) + 1), NEW n
  PROVE  /\ Ended(D, from, n) \in Nat
         /\ Ended(E, from, n) = Ended(D, from, n) + IF d.node = n THEN 1 ELSE 0
         /\ Told!Between(E, from, Len(D), n) = Ended(D, from, n)
<1>1. PICK k : k = Len(D)
  OBVIOUS
<1>2. /\ k \in Nat /\ Len(E) = k + 1 /\ E[k + 1] = d /\ from \in 1..(k + 1)
      /\ \A i \in 1..k : D[i] = E[i]
  BY <1>1 DEF Grown
<1>3. from \in Nat \ {0}
  BY <1>2
<1>4. Told!Between(D, from, k, n) \in Nat
  BY <1>2, BetweenNext
<1>5. Told!Between(E, from, k, n) = Told!Between(D, from, k, n)
  <2>1. Alike(D, E, k)
    BY <1>2 DEF Alike
  <2> QED BY <1>2, <1>3, <2>1, BetweenAsBefore
<1>6. Told!Between(E, from, k + 1, n) =
        Told!Between(E, from, k, n) + IF E[k + 1].node = n THEN 1 ELSE 0
  BY <1>2, BetweenNext
<1> QED BY <1>1, <1>2, <1>4, <1>5, <1>6 DEF Ended

LEMMA SinceGrows ==
  ASSUME NEW D, NEW E, NEW d, Grown(D, E, d)
  PROVE  /\ Since(D) \in 1..(Len(D) + 1)
         /\ d.outcome # "paused" => Since(E) = Since(D)
         /\ d.outcome = "paused" => Since(E) = Len(E) + 1
         /\ \A i \in 1..Len(D) : Told!AfterPause(E, i) = Told!AfterPause(D, i)
<1>1. PICK k : k = Len(D)
  OBVIOUS
<1>2. /\ k \in Nat /\ Len(E) = k + 1 /\ E[k + 1] = d
      /\ \A i \in 1..k : D[i] = E[i]
  BY <1>1 DEF Grown
<1>3. Since(D) \in 1..(k + 1)
  BY <1>1, <1>2, SinceIsPlace DEF Since
<1>4. ASSUME NEW i \in 0..k PROVE Told!AfterPause(E, i) = Told!AfterPause(D, i)
  <2>1. i \in Nat /\ \A j \in 1..i : D[j] = E[j]
    BY <1>2
  <2> QED BY <2>1, SinceAsBefore
<1>5. d.outcome # "paused" => Since(E) = Since(D)
  <2>1. d.outcome # "paused" => Told!AfterPause(E, k + 1) = Told!AfterPause(E, k)
    BY <1>2, SinceNext
  <2>2. k \in 0..k
    BY <1>2
  <2> QED BY <1>1, <1>2, <1>4, <2>1, <2>2 DEF Since
<1>6. d.outcome = "paused" => Since(E) = Len(E) + 1
  <2>1. k + 1 \in Nat /\ k + 1 > 0
    BY <1>2
  <2>2. d.outcome = "paused" => Told!AfterPause(E, k + 1) = (k + 1) + 1
    BY <1>2, <2>1, SincePaused
  <2> QED BY <1>2, <2>2 DEF Since
<1>7. \A i \in 1..k : Told!AfterPause(E, i) = Told!AfterPause(D, i)
  BY <1>2, <1>4
<1> QED BY <1>1, <1>3, <1>5, <1>6, <1>7

\* What is no longer under way has ended.
LEMMA EndCounted ==
  ASSUME NEW D, NEW E, NEW d, Grown(D, E, d), NEW visits, NEW under, NEW path,
         CountsOf(D, visits, under, path), NEW x \in under, d.node = x.node,
         \A y \in under : y.node = x.node => y = x, d.outcome # "paused"
  PROVE  CountsOf(E, visits, under \ {x}, path)
<1>1. PICK left : left = under \ {x}
  OBVIOUS
<1>2. \A n : /\ Flying(left, n) \in Nat
             /\ Flying(under, n) = Flying(left, n) + IF x.node = n THEN 1 ELSE 0
  BY <1>1, FlyingLess
<1>3. PICK since : since = Since(D)
  OBVIOUS
<1>4. 1 \in 1..(Len(D) + 1) /\ since \in 1..(Len(D) + 1) /\ Since(E) = since
  BY <1>3, SinceGrows DEF Grown
<1>5. \A n : /\ Ended(D, 1, n) \in Nat /\ Ended(D, since, n) \in Nat
             /\ Ended(E, 1, n) = Ended(D, 1, n) + IF d.node = n THEN 1 ELSE 0
             /\ Ended(E, since, n) = Ended(D, since, n) + IF d.node = n THEN 1 ELSE 0
  BY <1>4, EndedGrows
<1>6. ASSUME NEW n \in TopNodes
      PROVE  visits[n] = Ended(E, 1, n) + Flying(left, n) /\ visits[n] = Told!CountOf(path, n)
  <2>1. visits[n] = Ended(D, 1, n) + Flying(under, n) /\ visits[n] = Told!CountOf(path, n)
    BY DEF CountsOf
  <2> QED BY <1>2, <1>5, <2>1
<1>7. ASSUME NEW n \in FanBranches PROVE visits[n] = Ended(E, Since(E), n) + Flying(left, n)
  <2>1. visits[n] = Ended(D, since, n) + Flying(under, n)
    BY <1>3 DEF CountsOf
  <2> QED BY <1>2, <1>4, <1>5, <2>1
<1> QED BY <1>1, <1>6, <1>7 DEF CountsOf

\* At a pause, the counts are the ones a resumed run begins with.
LEMMA PauseCounted ==
  ASSUME NEW D, NEW E, NEW d, Grown(D, E, d), NEW visits, NEW path,
         NEW x, d.node = x.node, CountsOf(D, visits, {x}, path),
         d.outcome = "paused", ASequence(path), \A i \in 1..Len(path) : path[i] \in TopNodes
  PROVE  CountsOf(E, Told!SeedVisits(path), {}, path)
<1>1. \A n : /\ Flying({}, n) = 0 /\ Flying({x}, n) = IF x.node = n THEN 1 ELSE 0
  BY DEF Flying
<1>2. 1 \in 1..(Len(D) + 1)
  BY DEF Grown
<1>3. \A n : /\ Ended(D, 1, n) \in Nat
             /\ Ended(E, 1, n) = Ended(D, 1, n) + IF d.node = n THEN 1 ELSE 0
  BY <1>2, EndedGrows
<1>4. PICK seed : seed = Told!SeedVisits(path)
  OBVIOUS
<1>5. \A n \in TopNodes \cup FanBranches : seed[n] = Told!CountOf(path, n)
  BY <1>4 DEF Told!SeedVisits, TopNodes
<1>6. ASSUME NEW n \in TopNodes
      PROVE  seed[n] = Ended(E, 1, n) + Flying({}, n) /\ seed[n] = Told!CountOf(path, n)
  <2>1. visits[n] = Ended(D, 1, n) + Flying({x}, n) /\ visits[n] = Told!CountOf(path, n)
    BY DEF CountsOf
  <2>2. seed[n] = Told!CountOf(path, n)
    BY <1>5
  <2>3. Flying({}, n) = 0 /\ Flying({x}, n) = IF d.node = n THEN 1 ELSE 0
    BY <1>1
  <2>4. PICK before, after, none, one :
          /\ before = Ended(D, 1, n) /\ after = Ended(E, 1, n)
          /\ none = Flying({}, n) /\ one = Flying({x}, n)
    OBVIOUS
  <2>5. /\ before \in Nat /\ after = before + (IF d.node = n THEN 1 ELSE 0)
        /\ none = 0 /\ one = (IF d.node = n THEN 1 ELSE 0)
    BY <1>3, <2>3, <2>4
  <2>6. before + one = after + none
    BY <2>5
  <2> QED BY <2>1, <2>2, <2>4, <2>6
<1>7. ASSUME NEW n \in FanBranches PROVE seed[n] = Ended(E, Since(E), n) + Flying({}, n)
  <2>1. n \notin TopNodes
    BY TopsAreNodes DEF TopNodes
  <2>2. \A i \in DOMAIN path : path[i] # n
    BY <2>1 DEF ASequence
  <2>3. Told!CountOf(path, n) = 0
    BY <2>2, CountNone
  <2>4. Since(E) = Len(E) + 1 /\ Len(E) \in Nat
    BY SinceGrows DEF Grown
  <2>5. Ended(E, Since(E), n) = 0
    BY <2>4, BetweenNothing DEF Ended
  <2> QED BY <1>1, <1>5, <2>3, <2>5
<1> QED BY <1>4, <1>6, <1>7 DEF CountsOf

\* Every execution was told its count, the one that ends too.
LEMMA EndAttempted ==
  ASSUME NEW done, NEW more, NEW D, NEW E, NEW d, NEW e, Grown(D, E, d), Attempts(done, D),
         Len(done) = Len(D), ASequence(done), more = Append(done, e),
         d.parent # Told!Nobody => d.outcome # "paused",
         e.attempt = 1 + IF d.parent = Told!Nobody THEN Ended(D, 1, d.node)
                         ELSE Ended(D, Since(D), d.node)
  PROVE  Attempts(more, E)
<1>1. PICK k : k = Len(D)
  OBVIOUS
<1>2. k \in Nat /\ Len(E) = k + 1 /\ E[k + 1] = d /\ \A i \in 1..k : E[i] = D[i]
  BY <1>1 DEF Grown
<1>3. more[k + 1] = e /\ \A i \in 1..k : more[i] = done[i]
  BY <1>1, Appended
<1>4. ASSUME NEW i \in 1..k
      PROVE  more[i].attempt = Told!Between(E, From(E, i), i, E[i].node)
  <2>1. From(E, i) = From(D, i)
    BY <1>1, <1>2, SinceGrows DEF From
  <2>2. From(D, i) \in 1..(i + 1)
    <3>1. i \in Nat /\ 1 \in 1..(i + 1)
      BY <1>2
    <3>2. Told!AfterPause(D, i) \in 1..(i + 1)
      BY <3>1, SinceIsPlace
    <3> QED BY <3>1, <3>2 DEF From
  <2>3. PICK from : from = From(D, i)
    OBVIOUS
  <2>4. PICK n : n = D[i].node
    OBVIOUS
  <2>5. Told!Between(D, from, i, n) = Told!Between(E, from, i, n)
    <3>1. i \in Nat /\ i <= k
      BY <1>2
    <3>2. from \in Nat \ {0}
      BY <2>2, <2>3, <3>1
    <3>3. Alike(D, E, i)
      BY <1>2, <3>1 DEF Alike
    <3> QED BY <3>1, <3>2, <3>3, BetweenAsBefore
  <2>6. done[i].attempt = Told!Between(D, from, i, n)
    BY <1>1, <2>3, <2>4 DEF Attempts
  <2> QED BY <1>2, <1>3, <2>1, <2>3, <2>4, <2>5, <2>6
<1>5. more[k + 1].attempt = Told!Between(E, From(E, k + 1), k + 1, E[k + 1].node)
  <2>1. PICK n : n = d.node
    OBVIOUS
  <2>2. CASE d.parent = Told!Nobody
    <3>1. From(E, k + 1) = 1
      BY <1>2, <2>2 DEF From
    <3>2. 1 \in 1..(Len(D) + 1)
      BY <1>1, <1>2
    <3>3. Ended(D, 1, n) \in Nat /\ Ended(E, 1, n) = Ended(D, 1, n) + 1
      BY <2>1, <3>2, EndedGrows
    <3>4. Ended(E, 1, n) = Told!Between(E, 1, k + 1, n)
      BY <1>2 DEF Ended
    <3> QED BY <1>2, <1>3, <2>1, <2>2, <3>1, <3>3, <3>4
  <2>3. CASE d.parent # Told!Nobody
    <3>1. From(E, k + 1) = Since(D)
      BY <1>2, <2>3, SinceGrows DEF From, Since
    <3>2. PICK since : since = Since(D)
      OBVIOUS
    <3>3. since \in 1..(Len(D) + 1)
      BY <3>2, SinceGrows
    <3>4. Ended(D, since, n) \in Nat /\ Ended(E, since, n) = Ended(D, since, n) + 1
      BY <2>1, <3>3, EndedGrows
    <3>5. Ended(E, since, n) = Told!Between(E, since, k + 1, n)
      BY <1>2 DEF Ended
    <3> QED BY <1>2, <1>3, <2>1, <2>3, <3>1, <3>2, <3>4, <3>5
  <2> QED BY <2>2, <2>3
<1>6. \A i \in 1..Len(E) : i \in 1..k \/ i = k + 1
  BY <1>2
<1> QED BY <1>4, <1>5, <1>6, Zenon DEF Attempts

\* The path of a run whose loop ends an execution.
LEMMA EndPathed ==
  ASSUME NEW s, NEW D, NEW E, NEW d, Grown(D, E, d), Pathed(s, D), s.pc \in TopNodes,
         NEW t, t.path = s.path, d.node = s.pc, d.parent = Told!Nobody, t.pc \notin TopNodes
  PROVE  Pathed(t, E)
<1>1. PICK k : k = Len(D)
  OBVIOUS
<1>2. k \in Nat /\ Len(E) = k + 1 /\ E[k + 1] = d /\ \A i \in 1..k : E[i] = D[i]
  BY <1>1 DEF Grown
<1>3. PICK A : A = TopsOf(D)
  OBVIOUS
<1>4. PICK B : B = TopsOf(E)
  OBVIOUS
<1>5. A \in SUBSET (1..k) /\ B = A \cup {k + 1}
  BY <1>1, <1>2, <1>3, <1>4 DEF TopsOf
<1>6. Cardinality(A) \in Nat /\ Cardinality(B) = Cardinality(A) + 1
  BY <1>2, <1>5, NextCounted
<1>7. PICK p : p = s.path
  OBVIOUS
<1>8. Len(p) = Cardinality(B) /\ p[Len(p)] = s.pc /\ \A i \in 1..Len(p) : p[i] \in TopNodes
  BY <1>3, <1>6, <1>7 DEF Pathed
<1>9. ASSUME NEW i \in B PROVE p[Cardinality({j \in B : j <= i})] = E[i].node
  <2>1. CASE i \in A
    <3>1. i \in 1..k
      BY <1>5, <2>1
    <3>2. {j \in B : j <= i} = {j \in A : j <= i}
      BY <1>2, <1>5, <3>1
    <3>3. p[Cardinality({j \in A : j <= i})] = D[i].node
      BY <1>3, <1>7, <2>1 DEF Pathed
    <3> QED BY <1>2, <3>1, <3>2, <3>3
  <2>2. CASE i \notin A
    <3>1. i = k + 1
      BY <1>5, <2>2
    <3>2. \A j \in B : j <= k + 1
      BY <1>2, <1>5
    <3>3. {j \in B : j <= i} = B
      BY <3>1, <3>2
    <3> QED BY <1>2, <1>8, <3>1, <3>3
  <2> QED BY <2>1, <2>2
<1>10. t.path = p
  BY <1>7
<1>11. Cardinality(B) = Cardinality(B) + 0
  BY <1>6
<1> QED BY <1>4, <1>8, <1>9, <1>10, <1>11 DEF Pathed

LEMMA EndBranchPathed ==
  ASSUME NEW s, NEW D, NEW E, NEW d, Grown(D, E, d), Pathed(s, D), NEW t,
         t.path = s.path, t.pc = s.pc, d.parent # Told!Nobody
  PROVE  Pathed(t, E)
<1>1. PICK k : k = Len(D)
  OBVIOUS
<1>2. k \in Nat /\ Len(E) = k + 1 /\ E[k + 1] = d /\ \A i \in 1..k : E[i] = D[i]
  BY <1>1 DEF Grown
<1>3. TopsOf(E) = TopsOf(D) /\ TopsOf(D) \in SUBSET (1..k)
  BY <1>1, <1>2 DEF TopsOf
<1>4. \A i \in TopsOf(D) : E[i] = D[i]
  BY <1>2, <1>3
<1> QED BY <1>3, <1>4 DEF Pathed

LEMMA EndReported ==
  ASSUME NEW s, NEW t, NEW D, NEW E, NEW d, NEW report, Grown(D, E, d), E = Append(D, d),
         Reported(s, D, report), ASequence(s.prior), ASequence(s.steps),
         t.prior = s.prior, t.steps = Append(s.steps, d), t.pc \notin {"asks", "over"},
         t.pc = "paused" => d.outcome = "paused"
  PROVE  Reported(t, E, report)
<1>1. PICK a, b : a = s.prior /\ b = s.steps
  OBVIOUS
<1>2. t.prior \o t.steps = E
  <2>1. a \o Append(b, d) = Append(a \o b, d)
    <3>1. ASequence(a) /\ ASequence(b)
      BY <1>1
    <3>2. AppendsToTail(a, b, d)
      BY <3>1, AppendedToTail
    <3> QED BY <3>2, Zenon DEF AppendsToTail
  <2>2. a \o b = D
    BY <1>1 DEF Reported
  <2> QED BY <1>1, <2>1, <2>2
<1>3. Len(E) > 0 /\ E[Len(E)] = d
  BY DEF Grown
<1> QED BY <1>2, <1>3 DEF Reported

LEMMA EndBilled ==
  ASSUME NEW s, NEW t, NEW D, NEW E, NEW d, Grown(D, E, d), Billed(s, D), d.cost \in Nat,
         d.node = Told!Fan => d.cost = 0, d.parent = Told!Fan => t.pc = Told!Fan,
         s.pc = Told!Fan => t.pc = Told!Fan \/ d.node = Told!Fan
  PROVE  Billed(t, E)
<1>1. PICK k : k = Len(D)
  OBVIOUS
<1>2. k \in Nat /\ Len(E) = k + 1 /\ E[k + 1] = d /\ \A i \in 1..k : E[i] = D[i]
  BY <1>1 DEF Grown
<1>3. ASSUME NEW i \in 1..k
      PROVE  /\ E[i].cost \in Nat /\ (E[i].node = Told!Fan => E[i].cost = 0)
             /\ E[i].parent = Told!Fan =>
                  \/ t.pc = Told!Fan
                  \/ \E j \in i + 1 .. Len(E) : E[j].node = Told!Fan
  <2>1. /\ E[i].cost \in Nat /\ (E[i].node = Told!Fan => E[i].cost = 0)
        /\ E[i].parent = Told!Fan =>
             \/ s.pc = Told!Fan
             \/ \E j \in i + 1 .. k : E[j].node = Told!Fan
    BY <1>1, <1>2 DEF Billed
  <2>2. (\E j \in i + 1 .. k : E[j].node = Told!Fan) =>
        \E j \in i + 1 .. Len(E) : E[j].node = Told!Fan
    BY <1>2
  <2>3. d.node = Told!Fan => \E j \in i + 1 .. Len(E) : E[j].node = Told!Fan
    BY <1>2
  <2> QED BY <2>1, <2>2, <2>3
<1>4. \A i \in 1..Len(E) : i \in 1..k \/ i = k + 1
  BY <1>2
<1>5. /\ E[k + 1].cost \in Nat /\ (E[k + 1].node = Told!Fan => E[k + 1].cost = 0)
      /\ E[k + 1].parent = Told!Fan => t.pc = Told!Fan
  BY <1>2
<1> QED BY <1>3, <1>4, <1>5, Zenon DEF Billed

\* An execution ends.
LEMMA EndFaithful ==
  ASSUME NEW s, NEW t, NEW done, NEW more, NEW report, NEW x, NEW d, NEW e,
         Faithful(s, done, report), Left(s, t, done, more, x, d, e), Ended1(s, t, x, d)
  PROVE  Faithful(t, more, report)
<1>1. PICK D : D = DidOf(done)
  OBVIOUS
<1>2. PICK E : E = DidOf(more)
  OBVIOUS
<1>3. /\ RecorderOK(s) /\ UnderWay(s) /\ Counted(s, D) /\ Pathed(s, D)
      /\ Reported(s, D, report) /\ Billed(s, D) /\ Attempts(done, D) /\ ASequence(done)
  BY <1>1 DEF Faithful
<1>4. /\ more = Append(done, e) /\ e.did = d /\ e.attempt = x.attempt
      /\ Recorder(t) /\ t.step = s.step /\ t.path = s.path /\ t.visits = s.visits
      /\ t.prior = s.prior /\ t.todo = s.todo
      /\ t.under = s.under \ {x} /\ t.steps = Append(s.steps, d)
      /\ x \in s.under /\ d.node = x.node /\ d.parent = x.parent /\ d.cost \in Nat
  BY DEF Left
<1>5. Grown(D, E, d) /\ E = Append(D, d) /\ ASequence(more)
  BY <1>1, <1>2, <1>3, <1>4, DidGrows, Appended
<1>6. ASequence(D) /\ Len(D) = Len(done) /\ Len(D) \in Nat
  BY <1>1, <1>3, DidIs
<1>7. RecorderOK(t)
  <2>1. ASequence(t.steps)
    BY <1>3, <1>4, Appended DEF RecorderOK
  <2> QED BY <1>3, <1>4, <2>1 DEF RecorderOK
<1>8. /\ Told!Fan \in TopNodes /\ Told!Fan # Told!Nobody /\ TopNodes \cap FanBranches = {}
      /\ \A n \in TopNodes : n \notin {"ready", "failed", "paused", "asks", "over"}
  BY TopsAreNodes, PlacesDiffer DEF TopNodes
<1>9. s.pc \in TopNodes
  BY <1>8 DEF Ended1
<1>10. Asked(s) = s.visits
  BY <1>8, <1>9 DEF Asked
<1>11. CountsOf(D, s.visits, s.under, s.path) /\ x.attempt = s.visits[x.node]
  BY <1>3, <1>4, <1>10 DEF Counted
<1>12. \A y \in s.under : y.node = x.node => y = x
  BY <1>3, <1>4 DEF UnderWay
<1>13. CASE x.node \in FanBranches
  <2>1. s.pc = Told!Fan /\ t.pc = Told!Fan /\ d.outcome # "paused"
    BY <1>8, <1>13 DEF Ended1
  <2>2. d.parent = Told!Fan
    BY <1>3, <1>4, <1>8, <1>9, <1>13 DEF UnderWay
  <2>3. d.node \in FanBranches /\ d.node # Told!Fan
    BY <1>4, <1>8, <1>13
  <2>4. UnderWay(t)
    <3>1. \E y \in t.under : y.node = t.pc
      BY <1>3, <1>4, <1>9, <2>1, <2>3 DEF UnderWay
    <3> QED BY <1>3, <1>4, <1>8, <2>1, <3>1 DEF UnderWay
  <2>5. Attempts(more, E)
    <3>1. s.visits[d.node] = Ended(D, Since(D), d.node) + Flying(s.under, d.node)
      BY <1>11, <2>3 DEF CountsOf
    <3>2. Flying(s.under, d.node) = 1
      BY <1>4 DEF Flying
    <3>3. Ended(D, Since(D), d.node) \in Nat
      BY <1>6, EndedIsNat
    <3>4. d.parent # Told!Nobody
      BY <1>8, <2>2
    <3>5. e.attempt = 1 + Ended(D, Since(D), d.node)
      BY <1>4, <1>11, <3>1, <3>2, <3>3
    <3>6. e.attempt = 1 + IF d.parent = Told!Nobody THEN Ended(D, 1, d.node)
                          ELSE Ended(D, Since(D), d.node)
      BY <3>4, <3>5
    <3> QED BY <1>3, <1>4, <1>5, <1>6, <2>1, <3>6, EndAttempted
  <2>6. Counted(t, E)
    <3>1. CountsOf(E, s.visits, s.under \ {x}, s.path)
      BY <1>4, <1>5, <1>11, <1>12, <2>1, EndCounted
    <3>2. Asked(t) = t.visits
      BY <1>8, <2>1 DEF Asked
    <3> QED BY <1>3, <1>4, <3>1, <3>2 DEF Counted
  <2>7. Pathed(t, E)
    BY <1>3, <1>4, <1>5, <1>8, <2>1, <2>2, EndBranchPathed
  <2>8. Reported(t, E, report)
    BY <1>3, <1>4, <1>5, <1>8, <2>1, EndReported DEF RecorderOK
  <2>9. Billed(t, E)
    BY <1>3, <1>4, <1>5, <2>1, <2>3, EndBilled
  <2> QED BY <1>2, <1>5, <1>7, <2>4, <2>5, <2>6, <2>7, <2>8, <2>9 DEF Faithful
<1>14. CASE x.node \notin FanBranches
  <2>1. /\ x.node = s.pc /\ s.under = {x} /\ (d.node = Told!Fan => d.cost = 0)
        /\ t.pc \in {"ready", "failed", "paused"} /\ (t.pc = "paused" <=> d.outcome = "paused")
    BY <1>14 DEF Ended1
  <2>2. d.parent = Told!Nobody
    BY <1>3, <1>4, <1>9, <1>14 DEF UnderWay
  <2>3. d.node = s.pc /\ d.node \in TopNodes /\ t.pc \notin TopNodes /\ t.under = {}
    BY <1>4, <1>8, <1>9, <2>1
  <2>4. UnderWay(t)
    BY <1>3, <1>4, <2>3 DEF UnderWay
  <2>5. Attempts(more, E)
    <3>1. s.visits[d.node] = Ended(D, 1, d.node) + Flying(s.under, d.node)
      BY <1>11, <2>3 DEF CountsOf
    <3>2. Flying(s.under, d.node) = 1
      BY <1>4 DEF Flying
    <3>3. Ended(D, 1, d.node) \in Nat
      BY <1>6, EndedIsNat
    <3>4. e.attempt = 1 + Ended(D, 1, d.node)
      BY <1>4, <1>11, <3>1, <3>2, <3>3
    <3>5. e.attempt = 1 + IF d.parent = Told!Nobody THEN Ended(D, 1, d.node)
                          ELSE Ended(D, Since(D), d.node)
      BY <2>2, <3>4
    <3> QED BY <1>3, <1>4, <1>5, <1>6, <2>2, <3>5, EndAttempted
  <2>6. Counted(t, E)
    <3>1. CASE t.pc = "paused"
      <4>1. CountsOf(D, s.visits, {x}, s.path)
        BY <1>11, <2>1
      <4>2. d.outcome = "paused" /\ ASequence(s.path)
        BY <1>3, <2>1, <3>1 DEF RecorderOK
      <4>3. \A i \in 1..Len(s.path) : s.path[i] \in TopNodes
        BY <1>3 DEF Pathed
      <4>4. CountsOf(E, Told!SeedVisits(s.path), {}, s.path)
        BY <1>4, <1>5, <4>1, <4>2, <4>3, PauseCounted
      <4>5. Asked(t) = Told!SeedVisits(s.path)
        BY <1>4, <3>1 DEF Asked
      <4> QED BY <1>4, <2>3, <4>4, <4>5 DEF Counted
    <3>2. CASE t.pc # "paused"
      <4>1. CountsOf(E, s.visits, s.under \ {x}, s.path)
        BY <1>4, <1>5, <1>11, <1>12, <2>1, <3>2, EndCounted
      <4>2. Asked(t) = t.visits
        BY <2>1, <3>2 DEF Asked
      <4> QED BY <1>4, <2>3, <4>1, <4>2 DEF Counted
    <3> QED BY <3>1, <3>2
  <2>7. Pathed(t, E)
    BY <1>3, <1>4, <1>5, <1>9, <2>2, <2>3, EndPathed
  <2>8. Reported(t, E, report)
    BY <1>3, <1>4, <1>5, <2>1, EndReported DEF RecorderOK
  <2>9. Billed(t, E)
    BY <1>3, <1>4, <1>5, <1>8, <2>1, <2>2, <2>3, EndBilled
  <2> QED BY <1>2, <1>5, <1>7, <2>4, <2>5, <2>6, <2>7, <2>8, <2>9 DEF Faithful
<1> QED BY <1>13, <1>14

\* A segment returns.
LEMMA ReturnFaithful ==
  ASSUME NEW s, NEW t, NEW done, NEW report, NEW told, Faithful(s, done, report),
         Recorder(t), t.path = s.path, t.prior = s.prior, t.steps = s.steps,
         t.visits = s.visits, t.under = s.under, t.todo = s.todo, t.step = s.step,
         s.pc \in {"ready", "failed", "paused"},
         t.pc = IF s.pc = "paused" THEN "asks" ELSE "over", told = Told!ReportOf(s)
  PROVE  Faithful(t, done, told)
<1>1. PICK D : D = DidOf(done)
  OBVIOUS
<1>2. /\ RecorderOK(s) /\ UnderWay(s) /\ Counted(s, D) /\ Pathed(s, D)
      /\ Reported(s, D, report) /\ Billed(s, D) /\ Attempts(done, D) /\ ASequence(done)
  BY <1>1 DEF Faithful
<1>3. s.pc \notin TopNodes /\ t.pc \notin TopNodes /\ s.pc # Told!Fan
  BY PlacesDiffer DEF TopNodes
<1>4. RecorderOK(t)
  BY <1>2 DEF RecorderOK
<1>5. UnderWay(t)
  BY <1>2, <1>3 DEF UnderWay
<1>6. Counted(t, D)
  <2>1. Asked(t) = Asked(s)
    BY DEF Asked
  <2> QED BY <1>2, <2>1 DEF Counted
<1>7. Pathed(t, D)
  BY <1>2, <1>3 DEF Pathed
<1>8. Reported(t, D, told)
  <2>1. told = Told!ReportOf(t)
    BY DEF Told!ReportOf
  <2> QED BY <1>2, <2>1 DEF Reported
<1>9. Billed(t, D)
  BY <1>2, <1>3 DEF Billed
<1> QED BY <1>1, <1>2, <1>4, <1>5, <1>6, <1>7, <1>8, <1>9 DEF Faithful

(* The runs, step by step *)

LEMMA NothingFaithful == Faithful(Told!Fresh, <<>>, Told!NoReport)
<1>1. PICK s : s = Told!Fresh
  OBVIOUS
<1>2. PICK D : D = DidOf(<<>>)
  OBVIOUS
<1>3. PICK none : none = <<>>
  OBVIOUS
<1>4. /\ Recorder(s) /\ s.pc = "ready" /\ s.path = none /\ s.prior = none /\ s.steps = none
      /\ s.todo = {} /\ s.visits = [n \in TopNodes \cup FanBranches |-> 0] /\ s.under = {}
  BY <1>1, <1>3, StartFields
<1>5. ASequence(none) /\ Len(none) = 0
  BY <1>3, EmptySequence
<1>6. Len(D) = 0 /\ D = none
  <2>1. ASequence(D) /\ Len(D) = 0
    BY <1>2, <1>3, <1>5, DidIs
  <2> QED BY <2>1, <1>5 DEF ASequence
<1>7. s.pc \notin TopNodes
  BY <1>4, PlacesDiffer
<1>8. RecorderOK(s)
  BY <1>4, <1>5 DEF RecorderOK, Counts
<1>9. UnderWay(s)
  BY <1>4, <1>7 DEF UnderWay
<1>10. Attempts(none, D)
  BY <1>6 DEF Attempts
<1>11. Counted(s, D)
  <2>1. Since(D) = 1
    <3>1. PICK at : at = Told!AfterPause(D, 0)
      OBVIOUS
    <3>2. at \in 1..(0 + 1)
      BY <3>1, SinceIsPlace
    <3> QED BY <1>6, <3>1, <3>2 DEF Since
  <2>2. \A n : Ended(D, 1, n) = 0
    <3> TAKE n
    <3>1. Told!Between(D, 0 + 1, 0, n) = 0
      BY BetweenNothing
    <3>2. 0 + 1 = 1
      OBVIOUS
    <3> QED BY <1>6, <3>1, <3>2 DEF Ended
  <2>3. \A n : Told!CountOf(none, n) = 0
    <3>1. \A n : \A i \in DOMAIN none : none[i] # n
      BY <1>5 DEF ASequence
    <3> QED BY <3>1, CountNone
  <2>4. \A n : Flying({}, n) = 0
    BY DEF Flying
  <2>5. Asked(s) = s.visits
    BY <1>4 DEF Asked
  <2>6. \A n \in TopNodes \cup FanBranches : s.visits[n] = 0
    BY <1>4
  <2>7. CountsOf(D, s.visits, {}, none)
    BY <2>1, <2>2, <2>3, <2>4, <2>6 DEF CountsOf
  <2> QED BY <1>4, <2>5, <2>7 DEF Counted
<1>12. Pathed(s, D)
  <2>1. TopsOf(D) = {}
    BY <1>6 DEF TopsOf
  <2>2. Cardinality(TopsOf(D)) = 0
    BY <2>1, FS_EmptySet
  <2> QED BY <1>4, <1>5, <1>7, <2>1, <2>2 DEF Pathed
<1>13. Reported(s, D, Told!NoReport)
  <2>1. s.prior \o s.steps = D
    BY <1>3, <1>4, <1>5, <1>6, NothingToAppend
  <2> QED BY <1>4, <2>1 DEF Reported
<1>14. Billed(s, D)
  BY <1>6 DEF Billed
<1> QED BY <1>1, <1>2, <1>3, <1>5, <1>8, <1>9, <1>10, <1>11, <1>12, <1>13, <1>14 DEF Faithful

LEMMA ReportStart == Told!Init => ReportInv
<1> SUFFICES ASSUME Told!Init PROVE ReportInv
  OBVIOUS
<1>1. PICK s, none, told : s = Told!Fresh /\ none = <<>> /\ told = Told!NoReport
  OBVIOUS
<1>2. /\ mRun = [r \in ReportRuns |-> s] /\ mDone = [r \in ReportRuns |-> none]
      /\ mReports = [r \in ReportRuns |-> told]
  BY <1>1 DEF Told!Init
<1>3. Faithful(s, none, told)
  BY <1>1, NothingFaithful
<1>4. ReportTypes
  BY <1>2 DEF ReportTypes
<1>5. \A r \in ReportRuns : mRun[r] = s /\ mDone[r] = none /\ mReports[r] = told
  BY <1>2
<1>6. \A r \in ReportRuns : RunInv(r)
  BY <1>3, <1>5 DEF RunInv
<1> QED BY <1>4, <1>6 DEF ReportInv

LEMMA AloneKept ==
  ASSUME ReportInv, NEW r \in ReportRuns, Alone(r),
         Faithful(mRun'[r], mDone'[r], mReports'[r])
  PROVE  ReportInv'
<1>1. ASSUME NEW q \in ReportRuns PROVE Faithful(mRun'[q], mDone'[q], mReports'[q])
  <2>1. CASE q = r
    BY <2>1
  <2>2. CASE q # r
    BY <2>2 DEF Alone, ReportInv, RunInv
  <2> QED BY <2>1, <2>2
<1>2. ReportTypes'
  BY DEF Alone
<1> QED BY <1>1, <1>2 DEF ReportInv, RunInv

LEMMA ReportTurn ==
  ASSUME ReportInv, NEW r \in ReportRuns, NEW n \in TopNodes, Told!Step(r, n)
  PROVE  ReportInv'
<1>1. ReportTypes /\ RunInv(r) /\ Faithful(mRun[r], mDone[r], mReports[r])
  BY DEF ReportInv, RunInv
<1>2. /\ mRun[r].pc = "ready" /\ mRun'[r].pc = n /\ mRun'[r].todo \subseteq FanBranches
      /\ mRun'[r].prior = mRun[r].prior /\ mRun'[r].steps = mRun[r].steps
      /\ Begins(r, n, mRun[r].visits, mRun[r].under, Append(mRun[r].path, n))
  BY <1>1, StepBegins
<1>3. PICK s : s = mRun[r]
  OBVIOUS
<1>4. PICK t : t = mRun'[r]
  OBVIOUS
<1>5. /\ Alone(r) /\ mDone' = mDone /\ mReports' = mReports
      /\ Begun(t, n, s.visits, s.under, Append(s.path, n), Len(mSpans) + 1)
  BY <1>2, <1>3, <1>4 DEF Begins
<1>6. RecorderOK(s) /\ UnderWay(s) /\ s.pc \notin TopNodes
  BY <1>1, <1>2, <1>3, PlacesDiffer DEF Faithful
<1>7. s.under = {} /\ s.visits = Asked(s)
  BY <1>2, <1>3, <1>6, AskedIs DEF UnderWay
<1>8. Begun(t, n, Asked(s), {}, Append(s.path, n), Len(mSpans) + 1)
  BY <1>5, <1>7
<1>9. ASequence(t.prior) /\ ASequence(t.steps) /\ t.prior \o t.steps = s.prior \o s.steps
  BY <1>2, <1>3, <1>4, <1>6 DEF RecorderOK
<1>10. Faithful(t, mDone[r], mReports[r])
  BY <1>1, <1>2, <1>3, <1>4, <1>8, <1>9, TurnFaithful
<1> QED BY <1>4, <1>5, <1>10, AloneKept

LEMMA ReportBranch ==
  ASSUME ReportInv, NEW r \in ReportRuns, NEW b \in FanBranches, Told!BranchStarts(r, b)
  PROVE  ReportInv'
<1>1. ReportTypes /\ RunInv(r) /\ Faithful(mRun[r], mDone[r], mReports[r])
  BY DEF ReportInv, RunInv
<1>2. /\ mRun[r].pc = Told!Fan /\ mRun'[r].pc = Told!Fan /\ b \in mRun[r].todo
      /\ mRun'[r].todo = mRun[r].todo \ {b} /\ mRun'[r].step = mRun[r].step
      /\ mRun'[r].prior = mRun[r].prior /\ mRun'[r].steps = mRun[r].steps
      /\ Begins(r, b, mRun[r].visits, mRun[r].under, mRun[r].path)
  BY <1>1, BranchBegins
<1>3. /\ Alone(r) /\ mDone' = mDone /\ mReports' = mReports
      /\ Begun(mRun'[r], b, mRun[r].visits, mRun[r].under, mRun[r].path, Len(mSpans) + 1)
  BY <1>2 DEF Begins
<1>4. Faithful(mRun'[r], mDone[r], mReports[r])
  BY <1>1, <1>2, <1>3, BranchFaithful
<1> QED BY <1>3, <1>4, AloneKept

LEMMA ReportResume ==
  ASSUME ReportInv, NEW r \in ReportRuns, Told!Resume(r)
  PROVE  ReportInv'
<1>1. ReportTypes /\ RunInv(r) /\ Faithful(mRun[r], mDone[r], mReports[r])
  BY DEF ReportInv, RunInv
<1>2. PICK s : s = mRun[r]
  OBVIOUS
<1>3. PICK t : t = mRun'[r]
  OBVIOUS
<1>4. /\ s.pc = "asks" /\ t.pc = Told!Top /\ t.todo = {}
      /\ t.prior = mReports[r].steps /\ t.steps = <<>>
      /\ Begins(r, Told!Top, Told!SeedVisits(s.path), {}, Append(s.path, Told!Top))
  BY <1>1, <1>2, <1>3, ResumeBegins
<1>5. /\ Alone(r) /\ mDone' = mDone /\ mReports' = mReports
      /\ Begun(t, Told!Top, Told!SeedVisits(s.path), {}, Append(s.path, Told!Top),
               Len(mSpans) + 1)
  BY <1>3, <1>4 DEF Begins
<1>6. Asked(s) = Told!SeedVisits(s.path)
  BY <1>4 DEF Asked
<1>7. PICK D : D = DidOf(mDone[r])
  OBVIOUS
<1>8. ASequence(D) /\ Reported(s, D, mReports[r])
  BY <1>1, <1>2, <1>7, DidIs DEF Faithful
<1>9. mReports[r].steps = D /\ s.prior \o s.steps = D
  <2>1. mReports[r] = Told!ReportOf(s) /\ s.prior \o s.steps = D
    BY <1>4, <1>8 DEF Reported
  <2>2. Told!ReportOf(s).steps = s.prior \o s.steps
    BY ReportFields
  <2> QED BY <2>1, <2>2
<1>10. ASequence(t.prior) /\ ASequence(t.steps) /\ t.prior \o t.steps = s.prior \o s.steps
  <2>1. D \o <<>> = D
    BY <1>8, NothingToAppend
  <2> QED BY <1>4, <1>8, <1>9, <2>1, EmptySequence
<1>11. Told!Top \in TopNodes /\ t.todo \subseteq FanBranches
  BY <1>4 DEF TopNodes
<1>12. Begun(t, Told!Top, Asked(s), {}, Append(s.path, Told!Top), Len(mSpans) + 1)
  BY <1>5, <1>6
<1>13. Faithful(t, mDone[r], mReports[r])
  BY <1>1, <1>2, <1>4, <1>10, <1>11, <1>12, TurnFaithful
<1> QED BY <1>3, <1>5, <1>13, AloneKept

LEMMA ReportEnd ==
  ASSUME ReportInv, NEW r \in ReportRuns, \E x, d : Ends(r, x, d)
  PROVE  ReportInv'
<1>1. PICK x, d : Ends(r, x, d)
  OBVIOUS
<1>2. PICK e : Left(mRun[r], mRun'[r], mDone[r], mDone'[r], x, d, e)
  BY <1>1 DEF Ends
<1>3. Alone(r) /\ mReports' = mReports /\ Ended1(mRun[r], mRun'[r], x, d)
  BY <1>1 DEF Ends
<1>4. Faithful(mRun[r], mDone[r], mReports[r])
  BY DEF ReportInv, RunInv
<1>5. Faithful(mRun'[r], mDone'[r], mReports[r])
  BY <1>2, <1>3, <1>4, EndFaithful
<1> QED BY <1>3, <1>5, AloneKept

LEMMA ReportReturn ==
  ASSUME ReportInv, NEW r \in ReportRuns, Told!Return(r)
  PROVE  ReportInv'
<1>1. ReportTypes /\ RunInv(r) /\ Faithful(mRun[r], mDone[r], mReports[r])
  BY DEF ReportInv, RunInv
<1>2. PICK s : s = mRun[r]
  OBVIOUS
<1>3. PICK t : t = mRun'[r]
  OBVIOUS
<1>4. /\ Alone(r) /\ mDone' = mDone /\ mReports'[r] = Told!ReportOf(s)
      /\ Recorder(t) /\ t.path = s.path /\ t.prior = s.prior /\ t.steps = s.steps
      /\ t.visits = s.visits /\ t.under = s.under /\ t.todo = s.todo /\ t.step = s.step
      /\ s.pc \in {"ready", "failed", "paused"}
      /\ t.pc = IF s.pc = "paused" THEN "asks" ELSE "over"
  BY <1>1, <1>2, <1>3, ReturnLeaves
<1>5. Faithful(t, mDone[r], mReports'[r])
  BY <1>1, <1>2, <1>4, ReturnFaithful
<1> QED BY <1>3, <1>4, <1>5, AloneKept

LEMMA ReportStep == ReportInv /\ [Told!Next]_(Told!vars) => ReportInv'
<1> SUFFICES ASSUME ReportInv, [Told!Next]_(Told!vars) PROVE ReportInv'
  OBVIOUS
<1>1. CASE UNCHANGED Told!vars
  BY <1>1 DEF Told!vars, ReportInv, ReportTypes, RunInv
<1>2. ASSUME NEW r \in ReportRuns, NEW n \in TopNodes, Told!Step(r, n) PROVE ReportInv'
  BY <1>2, ReportTurn
<1>3. ASSUME NEW r \in ReportRuns, NEW outcome \in {"ok", "failed", "paused"},
             NEW cost \in {0, 1}, Told!TopEnds(r, outcome, cost)
      PROVE  ReportInv'
  BY <1>3, TopEnds, ReportEnd DEF ReportInv
<1>4. ASSUME NEW r \in ReportRuns, NEW b \in FanBranches, Told!BranchStarts(r, b)
      PROVE  ReportInv'
  BY <1>4, ReportBranch
<1>5. ASSUME NEW r \in ReportRuns, NEW b \in FanBranches, NEW outcome \in {"ok", "failed"},
             Told!BranchEnds(r, b, outcome, 1)
      PROVE  ReportInv'
  BY <1>5, BranchEnds, ReportEnd DEF ReportInv
<1>6. ASSUME NEW r \in ReportRuns, Told!FanEnds(r) PROVE ReportInv'
  BY <1>6, FanEnds, ReportEnd DEF ReportInv
<1>7. ASSUME NEW r \in ReportRuns, Told!Return(r) PROVE ReportInv'
  BY <1>7, ReportReturn
<1>8. ASSUME NEW r \in ReportRuns, Told!Resume(r) PROVE ReportInv'
  BY <1>8, ReportResume
<1> QED BY <1>1, <1>2, <1>3, <1>4, <1>5, <1>6, <1>7, <1>8, Zenon DEF Told!Next, TopNodes

(* What the invariant says of a report *)

\* A sum is that of the terms that are not zero.
LEMMA SumOfPart ==
  ASSUME NEW S, IsFiniteSet(S), NEW T \in SUBSET S, NEW f \in [S -> Nat],
         \A w \in S \ T : f[w] = 0
  PROVE  SumOver(f, S) = SumOver([w \in T |-> f[w]], T)
<1> DEFINE On(R, U) == [w \in R |-> IF w \in U THEN f[w] ELSE 0]
           Good == {U \in SUBSET T : SumOver(On(S, U), S) = SumOver(On(T, U), T)}
<1>1. IsFiniteSet(T) /\ T \subseteq S
  BY FS_Subset
<1>2. {} \in Good
  <2>1. SumOver(On(S, {}), S) = 0
    BY SumOfNothing
  <2>2. SumOver(On(T, {}), T) = 0
    BY <1>1, SumOfNothing
  <2> QED BY <2>1, <2>2
<1>3. ASSUME NEW U \in SUBSET T, U # {}, U \ {Pick(U)} \in Good PROVE U \in Good
  <2>1. PICK w, V : w = Pick(U) /\ V = U \ {w}
    OBVIOUS
  <2>2. w \in U /\ w \in T /\ w \in S
    BY <1>1, <1>3, <2>1 DEF Pick
  <2>3. SumOver(On(S, V), S) = SumOver(On(T, V), T)
    BY <1>3, <2>1
  <2>4. f[w] \in Nat
    BY <2>2
  <2>5. ASSUME NEW R \in {S, T} PROVE SumOver(On(R, U), R) = SumOver(On(R, V), R) + f[w]
    <3>1. PICK g : g = On(R, V)
      OBVIOUS
    <3>2. PICK h : h = On(R, U)
      OBVIOUS
    <3>3. g \in [R -> Nat] /\ h \in [R -> Nat]
      BY <1>1, <3>1, <3>2
    <3>4. IsFiniteSet(R) /\ w \in R
      BY <1>1, <2>2
    <3>5. h[w] = f[w] /\ g[w] = 0
      BY <2>1, <2>2, <3>1, <3>2, <3>4
    <3>6. \A y \in R : y # w => h[y] = g[y]
      BY <2>1, <3>1, <3>2
    <3>7. h[w] = g[w] + f[w]
      BY <2>4, <3>5
    <3>8. SumOver(h, R) = SumOver(g, R) + f[w]
      BY <2>4, <3>3, <3>4, <3>6, <3>7, SumGrows
    <3> QED BY <3>1, <3>2, <3>8
  <2>6. SumOver(On(S, U), S) = SumOver(On(S, V), S) + f[w]
    BY <2>5
  <2>7. SumOver(On(T, U), T) = SumOver(On(T, V), T) + f[w]
    BY <2>5
  <2> QED BY <2>3, <2>6, <2>7
<1>4. T \in Good
  <2> HIDE DEF Good
  <2> QED BY <1>1, <1>2, <1>3, ByPicking
<1>5. On(S, T) = f
  BY <1>1
<1>6. On(T, T) = [w \in T |-> f[w]]
  BY <1>1
<1> QED BY <1>4, <1>5, <1>6

LEMMA CostIsSum ==
  ASSUME NEW D, NEW S
  PROVE  Told!MapThenSumSet(LAMBDA i : D[i].cost, S) = SumOver([i \in S |-> D[i].cost], S)
<1> DEFINE f == [i \in S |-> D[i].cost]
           CostAt(F, s) == IF s = {} THEN 0 ELSE D[Pick(s)].cost + F[s \ {Pick(s)}]
           A(F) == F = [s \in SUBSET S |-> CostAt(F, s)]
           B(F) == F = [s \in SUBSET S |-> SumAt(f, F, s)]
<1>1. ASSUME NEW F PROVE A(F) <=> B(F)
  <2>1. ASSUME NEW s \in SUBSET S PROVE CostAt(F, s) = SumAt(f, F, s)
    <3>1. CASE s = {}
      BY <3>1 DEF SumAt
    <3>2. CASE s # {}
      <4>1. PICK x : x = Pick(s)
        OBVIOUS
      <4>2. x \in s
        BY <3>2, <4>1 DEF Pick
      <4>3. f[x] = D[x].cost
        BY <4>2
      <4> QED BY <3>2, <4>1, <4>3 DEF SumAt
    <3> QED BY <3>1, <3>2
  <2>2. [s \in SUBSET S |-> CostAt(F, s)] = [s \in SUBSET S |-> SumAt(f, F, s)]
    BY <2>1
  <2> QED BY <2>2
<1>2. Told!MapThenSumSet(LAMBDA i : D[i].cost, S) = (CHOOSE F : A(F))[S]
  BY DEF Told!MapThenSumSet, Told!MapThenFoldSet, Pick
<1>3. SumOver(f, S) = (CHOOSE F : B(F))[S]
  BY DEF SumOver
<1> HIDE DEF A, B
<1>4. (CHOOSE F : A(F)) = (CHOOSE F : B(F))
  BY <1>1, Zenon
<1> QED BY <1>2, <1>3, <1>4

LEMMA CostOnce ==
  ASSUME NEW D, Len(D) \in Nat, DOMAIN D = 1..Len(D),
         \A i \in 1..Len(D) : D[i].cost \in Nat /\ (D[i].node = Told!Fan => D[i].cost = 0)
  PROVE  Told!SumOf(D) =
           Told!MapThenSumSet(LAMBDA i : D[i].cost, {i \in DOMAIN D : D[i].node # Told!Fan})
<1> DEFINE S == DOMAIN D
           T == {i \in S : D[i].node # Told!Fan}
           f == [i \in S |-> D[i].cost]
           g == [i \in T |-> D[i].cost]
<1>1. Told!SumOf(D) = SumOver(f, S)
  BY CostIsSum DEF Told!SumOf
<1>2. Told!MapThenSumSet(LAMBDA i : D[i].cost, T) = SumOver(g, T)
  BY CostIsSum
<1>3. g = [i \in T |-> f[i]]
  OBVIOUS
<1>4. f \in [S -> Nat] /\ \A i \in S \ T : f[i] = 0
  OBVIOUS
<1>5. T \in SUBSET S /\ IsFiniteSet(S)
  BY FS_Interval
<1> HIDE DEF S, T, f, g
<1>6. SumOver(f, S) = SumOver(g, T)
  BY <1>3, <1>4, <1>5, SumOfPart
<1> QED BY <1>1, <1>2, <1>6 DEF T, S

LEMMA ReportIsTrue == ReportInv => Told!ReportIsCumulative
<1> SUFFICES ASSUME ReportInv, NEW r \in ReportRuns
             PROVE  /\ mRun[r].pc \in {"asks", "over"} =>
                         /\ mReports[r].steps = Told!Did(r)
                         /\ mReports[r].cost =
                              Told!MapThenSumSet(LAMBDA i : Told!Did(r)[i].cost,
                                {i \in DOMAIN Told!Did(r) : Told!Did(r)[i].node # Told!Fan})
                         /\ Len(mReports[r].path) = Told!Cardinality(Told!TopLevel(r))
                         /\ \A i \in Told!TopLevel(r) :
                              mReports[r].path[Told!Cardinality(
                                {j \in Told!TopLevel(r) : j <= i})] = Told!Did(r)[i].node
                    /\ \A i \in DOMAIN Told!Did(r) : Told!Did(r)[i].parent = Told!Fan =>
                         \/ mRun[r].pc = Told!Fan
                         \/ \E j \in i + 1 .. Len(Told!Did(r)) : Told!Did(r)[j].node = Told!Fan
                    /\ \A i \in DOMAIN Told!Did(r) :
                         mDone[r][i].attempt =
                           Told!Between(Told!Did(r),
                             IF Told!Did(r)[i].parent = Told!Nobody THEN 1
                             ELSE Told!AfterPause(Told!Did(r), i), i, Told!Did(r)[i].node)
  BY Zenon DEF Told!ReportIsCumulative
<1>1. PICK D : D = Told!Did(r)
  OBVIOUS
<1>2. PICK s, done, report : s = mRun[r] /\ done = mDone[r] /\ report = mReports[r]
  OBVIOUS
<1>3. D = DidOf(done)
  BY <1>1, <1>2 DEF Told!Did, DidOf
<1>4. /\ Attempts(done, D) /\ Pathed(s, D) /\ Reported(s, D, report) /\ Billed(s, D)
      /\ ASequence(done)
  BY <1>2, <1>3 DEF ReportInv, RunInv, Faithful
<1>5. ASequence(D) /\ Len(D) \in Nat /\ DOMAIN D = 1..Len(D)
  <2>1. ASequence(D) /\ Len(D) \in Nat
    BY <1>3, <1>4, DidIs
  <2> QED BY <2>1 DEF ASequence
<1>6. Told!TopLevel(r) = TopsOf(D)
  BY <1>1, <1>5 DEF Told!TopLevel, TopsOf
<1>7. ASSUME s.pc \in {"asks", "over"}
      PROVE  /\ report.steps = D
             /\ report.cost = Told!MapThenSumSet(LAMBDA i : D[i].cost,
                                {i \in DOMAIN D : D[i].node # Told!Fan})
             /\ Len(report.path) = Told!Cardinality(TopsOf(D))
             /\ \A i \in TopsOf(D) :
                  report.path[Told!Cardinality({j \in TopsOf(D) : j <= i})] = D[i].node
  <2>1. report = Told!ReportOf(s) /\ s.prior \o s.steps = D
    BY <1>4, <1>7 DEF Reported
  <2>2. /\ report.steps = s.prior \o s.steps /\ report.path = s.path
        /\ report.cost = Told!SumOf(s.prior \o s.steps)
    BY <2>1, ReportFields
  <2>3. report.steps = D /\ report.cost = Told!SumOf(D)
    BY <2>1, <2>2
  <2>4. Told!SumOf(D) = Told!MapThenSumSet(LAMBDA i : D[i].cost,
                                {i \in DOMAIN D : D[i].node # Told!Fan})
    BY <1>4, <1>5, CostOnce DEF Billed
  <2>5. s.pc \notin TopNodes
    BY <1>7, PlacesDiffer
  <2>6. TopsOf(D) \in SUBSET (1..Len(D))
    BY DEF TopsOf
  <2>7. Cardinality(TopsOf(D)) \in Nat
    BY <1>5, <2>6, NextCounted
  <2>8. Len(s.path) = Cardinality(TopsOf(D))
    <3>1. Len(s.path) = Cardinality(TopsOf(D)) + 0
      BY <1>4, <2>5 DEF Pathed
    <3> QED BY <2>7, <3>1
  <2>9. \A i \in TopsOf(D) :
          s.path[Cardinality({j \in TopsOf(D) : j <= i})] = D[i].node
    BY <1>4 DEF Pathed
  <2>10. Len(report.path) = Told!Cardinality(TopsOf(D))
    BY <2>2, <2>8, SameSize
  <2>11. ASSUME NEW i \in TopsOf(D)
         PROVE  report.path[Told!Cardinality({j \in TopsOf(D) : j <= i})] = D[i].node
    <3>1. PICK B : B = {j \in TopsOf(D) : j <= i}
      OBVIOUS
    <3>2. s.path[Cardinality(B)] = D[i].node
      BY <2>9, <3>1
    <3>3. Told!Cardinality(B) = Cardinality(B)
      BY SameSize
    <3> QED BY <2>2, <3>1, <3>2, <3>3
  <2> QED BY <2>3, <2>4, <2>10, <2>11
<1>8. \A i \in DOMAIN D : D[i].parent = Told!Fan =>
         \/ s.pc = Told!Fan
         \/ \E j \in i + 1 .. Len(D) : D[j].node = Told!Fan
  BY <1>4, <1>5 DEF Billed
<1>9. \A i \in DOMAIN D :
        done[i].attempt = Told!Between(D, IF D[i].parent = Told!Nobody THEN 1
                                          ELSE Told!AfterPause(D, i), i, D[i].node)
  BY <1>4, <1>5 DEF Attempts, From
<1> QED BY <1>1, <1>2, <1>6, <1>7, <1>8, <1>9

(* Spans *)

LEMMA KeysDiffer ==
  ASSUME NEW x, NEW y
  PROVE  /\ x.node # y.node => KeyOf(x) # KeyOf(y)
         /\ x.node = y.node /\ x.step = y.step => KeyOf(x) = KeyOf(y)
BY DEF KeyOf, KeyAt

\* A span more, and one that ended.
LEMMA SpanAdded ==
  ASSUME NEW spans, SpansOK(spans), NEW p, ASpan(p)
  PROVE  /\ SpansOK(Append(spans, p)) /\ Len(spans) \in Nat
         /\ Len(Append(spans, p)) = Len(spans) + 1 /\ Append(spans, p)[Len(spans) + 1] = p
         /\ \A i \in 1..Len(spans) : Append(spans, p)[i] = spans[i]
<1>1. PICK k : k = Len(spans)
  OBVIOUS
<1>2. PICK more : more = Append(spans, p)
  OBVIOUS
<1>3. /\ k \in Nat /\ ASequence(more) /\ Len(more) = k + 1 /\ more[k + 1] = p
      /\ \A i \in 1..k : more[i] = spans[i]
  BY <1>1, <1>2, Appended DEF SpansOK, ASequence
<1>4. SpansOK(more)
  <2>1. \A i \in 1..Len(more) : i \in 1..k \/ i = k + 1
    BY <1>3
  <2> QED BY <1>1, <1>3, <2>1 DEF SpansOK
<1> QED BY <1>1, <1>2, <1>3, <1>4

\* The observer's map with one span more, and a span that ended.
OpenedAt(open, key, new) ==
  [k \in DOMAIN open \cup {key} |-> IF k = key THEN new ELSE open[k]]
EndedAt(spans, i) == [spans EXCEPT ![i].ended = TRUE]

LEMMA OpenedFields ==
  ASSUME NEW open, NEW key, NEW new, NEW opened, opened = OpenedAt(open, key, new)
  PROVE  /\ key \in DOMAIN opened /\ opened[key] = new
         /\ \A j \in DOMAIN open : j # key => j \in DOMAIN opened /\ opened[j] = open[j]
BY DEF OpenedAt

LEMMA SpanSet ==
  ASSUME NEW spans, SpansOK(spans), NEW i \in 1..Len(spans)
  PROVE  LET ended == EndedAt(spans, i)
         IN  /\ SpansOK(ended) /\ Len(ended) = Len(spans)
             /\ ended[i].ended = TRUE /\ ended[i].above = spans[i].above
             /\ \A j \in 1..Len(spans) : j # i => ended[j] = spans[j]
<1>1. PICK k : k = Len(spans)
  OBVIOUS
<1>2. k \in Nat /\ spans = [j \in 1..k |-> spans[j]] /\ \A j \in 1..k : ASpan(spans[j])
  BY <1>1 DEF SpansOK, ASequence
<1>3. PICK old : old = spans[i]
  OBVIOUS
<1>4. PICK p : p = [old EXCEPT !.ended = TRUE]
  OBVIOUS
<1>5. ASpan(p) /\ p.ended = TRUE /\ p.above = old.above
  <2>1. ASpan(old)
    BY <1>1, <1>2, <1>3
  <2>2. p = [run |-> old.run, node |-> old.node, above |-> old.above, ended |-> TRUE]
    BY <1>4, <2>1 DEF ASpan
  <2> QED BY <2>2 DEF ASpan
<1>6. PICK ended : ended = [spans EXCEPT ![i] = p]
  OBVIOUS
<1>7. ended = EndedAt(spans, i)
  BY <1>3, <1>4, <1>6 DEF EndedAt
<1>8. /\ ended = [j \in 1..k |-> ended[j]] /\ ended[i] = p
      /\ \A j \in 1..k : j # i => ended[j] = spans[j]
  BY <1>1, <1>2, <1>6
<1>9. Len(ended) = k
  BY <1>2, <1>8
<1>10. ASequence(ended)
  BY <1>2, <1>8, <1>9 DEF ASequence
<1>11. SpansOK(ended)
  BY <1>2, <1>5, <1>8, <1>9, <1>10 DEF SpansOK
<1> QED BY <1>1, <1>3, <1>5, <1>7, <1>8, <1>9, <1>11

\* Where an execution starts: beside the branches under way, or alone.
Room(n, t, under) ==
  /\ \A y \in under : y.node # n /\ y.step = t.step
  /\ n \in TopNodes => under = {}

\* A branch's span is below the one its parallel node has open.
Below(n, p, open, fan) ==
  /\ ASpan(p) /\ p.ended = FALSE
  /\ Parent(n) = Told!Fan /\ fan \in DOMAIN open => p.above = open[fan]

\* What NodeStart does.
Starting(n, t, key, fan, p, open, spans, new, opened, more) ==
  /\ key = KeyAt(n, t.step) /\ fan = KeyAt(Told!Fan, t.step) /\ new = Len(spans) + 1
  /\ opened = OpenedAt(open, key, new) /\ more = Append(spans, p)

\* An execution's span starts.
LEMMA SpanStarts ==
  ASSUME NEW s, NEW t, NEW done, NEW open, NEW spans, SpansOK(spans),
         Spanned(s, done, open, spans), NEW n \in TopNodes \cup FanBranches,
         NEW under \in SUBSET s.under, NEW visits, NEW path, Room(n, t, under),
         NEW key, NEW fan, NEW p, Below(n, p, open, fan), NEW new, NEW opened, NEW more,
         Begun(t, n, visits, under, path, new),
         Starting(n, t, key, fan, p, open, spans, new, opened, more)
  PROVE  SpansOK(more) /\ Spanned(t, done, opened, more)
<1>1. PICK k : k = Len(spans)
  OBVIOUS
<1> USE DEF Room, Below, Starting
<1>2. /\ SpansOK(more) /\ k \in Nat /\ Len(more) = k + 1 /\ more[k + 1] = p
      /\ \A i \in 1..k : more[i] = spans[i]
  BY <1>1, SpanAdded
<1>3. PICK x : /\ x.node = n /\ x.step = t.step /\ x.parent = Parent(n) /\ x.span = k + 1
               /\ t.under = under \cup {x}
  BY <1>1 DEF Begun
<1>4. opened[key] = k + 1 /\ new = k + 1 /\ key \in DOMAIN opened /\ KeyOf(x) = key
  BY <1>1, <1>3, OpenedFields DEF KeyOf
<1>5. \A j \in DOMAIN open : j # key => j \in DOMAIN opened /\ opened[j] = open[j]
  BY OpenedFields
<1>6. ASSUME NEW y \in under PROVE SpanOpen(y, opened, more) /\ y.span \in 1..k
  <2>1. /\ y.span \in 1..k /\ spans[y.span].ended = FALSE
        /\ KeyOf(y) \in DOMAIN open /\ open[KeyOf(y)] = y.span
    BY <1>1 DEF Spanned, SpanOpen
  <2>2. KeyOf(y) # key
    BY <1>3, <1>4, KeysDiffer
  <2>3. KeyOf(y) \in DOMAIN opened /\ opened[KeyOf(y)] = y.span
    BY <1>5, <2>1, <2>2
  <2>4. y.span \in 1..Len(more) /\ more[y.span].ended = FALSE
    BY <1>2, <2>1
  <2> QED BY <2>1, <2>3, <2>4 DEF SpanOpen
<1>7. SpanOpen(x, opened, more)
  <2>1. x.span \in 1..Len(more)
    BY <1>2, <1>3
  <2> QED BY <1>2, <1>3, <1>4, <2>1 DEF SpanOpen
<1>8. \A y, z \in t.under : y.span = z.span => y = z
  <2>1. \A y, z \in under : y.span = z.span => y = z
    BY DEF Spanned
  <2>2. ASSUME NEW y \in under PROVE y.span # x.span
    <3>1. y.span \in 1..k
      BY <1>6
    <3> QED BY <1>2, <1>3, <3>1
  <2> QED BY <1>3, <2>1, <2>2
<1>9. ASSUME NEW y \in t.under, NEW z \in t.under, y.parent = Told!Fan, z.node = Told!Fan
      PROVE  more[y.span].above = z.span
  <2>1. n \notin TopNodes
    <3>1. CASE n \in TopNodes
      <4>1. y = x
        BY <1>3, <3>1
      <4>2. y.parent = Told!Nobody
        BY <1>3, <3>1, <4>1 DEF Parent
      <4> QED BY <1>9, <4>2, TopsAreNodes
    <3> QED BY <3>1
  <2>2. Parent(n) = Told!Fan /\ n # Told!Fan
    BY <2>1 DEF Parent, TopNodes
  <2>3. z \in under /\ z.step = t.step
    BY <1>3, <1>9, <2>2
  <2>4. CASE y \in under
    <3>1. spans[y.span].above = z.span
      BY <1>9, <2>3, <2>4 DEF Spanned
    <3>2. y.span \in 1..k
      BY <1>6, <2>4
    <3> QED BY <1>2, <3>1, <3>2
  <2>5. CASE y = x
    <3>1. fan = KeyOf(z)
      BY <1>9, <2>3 DEF KeyOf
    <3>2. SpanOpen(z, open, spans)
      BY <2>3 DEF Spanned
    <3>3. fan \in DOMAIN open /\ open[fan] = z.span
      BY <3>1, <3>2 DEF SpanOpen
    <3>4. p.above = z.span
      BY <2>2, <3>3
    <3> QED BY <1>2, <1>3, <2>5, <3>4
  <2> QED BY <1>3, <2>4, <2>5
<1>10. ASSUME NEW i \in 1..Len(done) PROVE SpanEnded(done[i], more)
  <2>1. done[i].span \in 1..k /\ spans[done[i].span].ended = TRUE
    BY <1>1 DEF Spanned, SpanEnded
  <2>2. done[i].span \in 1..Len(more) /\ more[done[i].span] = spans[done[i].span]
    BY <1>2, <2>1
  <2> QED BY <2>1, <2>2 DEF SpanEnded
<1>11. \A y \in t.under : SpanOpen(y, opened, more)
  BY <1>3, <1>6, <1>7
<1>12. Spanned(t, done, opened, more)
  BY <1>8, <1>9, <1>10, <1>11 DEF Spanned
<1> QED BY <1>2, <1>12

\* An execution's span ends.
LEMMA SpanEnds ==
  ASSUME NEW s, NEW t, NEW done, NEW more, NEW open, NEW spans, SpansOK(spans),
         Spanned(s, done, open, spans), UnderWay(s), ASequence(done), NEW x, NEW d, NEW e,
         Left(s, t, done, more, x, d, e),
         NEW left, left = [j \in DOMAIN open \ {KeyOf(x)} |-> open[j]],
         NEW ended, ended = EndedAt(spans, x.span)
  PROVE  SpansOK(ended) /\ Spanned(t, more, left, ended)
<1>1. PICK k : k = Len(spans)
  OBVIOUS
<1>2. x \in s.under /\ t.under = s.under \ {x} /\ more = Append(done, e) /\ e.span = x.span
  BY DEF Left
<1>3. x.span \in 1..k
  BY <1>1, <1>2 DEF Spanned, SpanOpen
<1>4. /\ SpansOK(ended) /\ Len(ended) = k /\ ended[x.span].ended = TRUE
      /\ \A j \in 1..k : j # x.span => ended[j] = spans[j]
  BY <1>1, <1>3, SpanSet
<1>5. ASSUME NEW y \in t.under PROVE SpanOpen(y, left, ended) /\ ended[y.span] = spans[y.span]
  <2>1. y \in s.under /\ y # x
    BY <1>2
  <2>2. /\ y.span \in 1..k /\ spans[y.span].ended = FALSE
        /\ KeyOf(y) \in DOMAIN open /\ open[KeyOf(y)] = y.span
    BY <1>1, <2>1 DEF Spanned, SpanOpen
  <2>3. y.span # x.span
    BY <1>2, <2>1 DEF Spanned
  <2>4. y.node # x.node
    BY <1>2, <2>1 DEF UnderWay
  <2>5. KeyOf(y) # KeyOf(x)
    BY <2>4, KeysDiffer
  <2>6. KeyOf(y) \in DOMAIN left /\ left[KeyOf(y)] = y.span
    BY <2>2, <2>5
  <2>7. ended[y.span] = spans[y.span]
    BY <1>4, <2>2, <2>3
  <2> QED BY <1>4, <2>2, <2>6, <2>7 DEF SpanOpen
<1>6. \A y, z \in t.under : y.span = z.span => y = z
  BY <1>2 DEF Spanned
<1>7. ASSUME NEW y \in t.under, NEW z \in t.under, y.parent = Told!Fan, z.node = Told!Fan
      PROVE  ended[y.span].above = z.span
  <2>1. spans[y.span].above = z.span
    BY <1>2, <1>7 DEF Spanned
  <2> QED BY <1>5, <2>1
<1>8. ASSUME NEW i \in 1..Len(more) PROVE SpanEnded(more[i], ended)
  <2>1. PICK n : n = Len(done)
    OBVIOUS
  <2>2. /\ n \in Nat /\ Len(more) = n + 1 /\ more[n + 1] = e
        /\ \A j \in 1..n : more[j] = done[j]
    BY <1>2, <2>1, Appended DEF ASequence
  <2>3. CASE i \in 1..n
    <3>1. PICK q : q = done[i].span
      OBVIOUS
    <3>2. q \in 1..k /\ spans[q].ended = TRUE
      BY <1>1, <2>1, <2>3, <3>1 DEF Spanned, SpanEnded
    <3>3. ended[q].ended = TRUE
      BY <1>4, <3>2
    <3>4. more[i].span = q
      BY <2>2, <2>3, <3>1
    <3> QED BY <1>4, <3>2, <3>3, <3>4 DEF SpanEnded
  <2>4. CASE i = n + 1
    <3>1. more[i].span = x.span
      BY <1>2, <2>2, <2>4
    <3> QED BY <1>3, <1>4, <3>1 DEF SpanEnded
  <2>5. i \in 1..n \/ i = n + 1
    BY <2>2
  <2> QED BY <2>3, <2>4, <2>5
<1>9. \A y \in t.under : SpanOpen(y, left, ended)
  BY <1>5
<1>10. Spanned(t, more, left, ended)
  BY <1>6, <1>7, <1>8, <1>9 DEF Spanned
<1> QED BY <1>4, <1>10

OneRun == \A r, q \in ReportRuns : r = q

LEMMA SpanStart == Told!Init => SpanInv
<1> SUFFICES ASSUME Told!Init PROVE SpanInv
  OBVIOUS
<1>1. PICK s, none : s = Told!Fresh /\ none = <<>>
  OBVIOUS
<1>2. mRun = [r \in ReportRuns |-> s] /\ mDone = [r \in ReportRuns |-> none] /\ mSpans = none
  BY <1>1 DEF Told!Init
<1>3. s.under = {}
  BY <1>1, FreshFields DEF Told!Fresh
<1>4. ASequence(none) /\ Len(none) = 0
  BY <1>1, EmptySequence
<1>5. SpansOK(mSpans)
  BY <1>2, <1>4 DEF SpansOK
<1>6. Spanned(s, none, mOpen, mSpans)
  BY <1>3, <1>4 DEF Spanned
<1> QED BY <1>2, <1>5, <1>6 DEF SpanInv

\* What one run does is all that happens to the spans.
LEMMA SpanKept ==
  ASSUME OneRun, NEW r \in ReportRuns, SpansOK(mSpans'),
         Spanned(mRun'[r], mDone'[r], mOpen', mSpans')
  PROVE  SpanInv'
BY DEF OneRun, SpanInv

LEMMA SpanBegin ==
  ASSUME OneRun, SpanInv, NEW r \in ReportRuns, NEW n \in TopNodes \cup FanBranches,
         NEW visits, NEW path, NEW under \in SUBSET mRun[r].under,
         Begins(r, n, visits, under, path),
         \A y \in under : y.node # n /\ y.step = mRun'[r].step,
         n \in TopNodes => under = {}
  PROVE  SpanInv'
<1>1. PICK s, done, spans, open :
        s = mRun[r] /\ done = mDone[r] /\ spans = mSpans /\ open = mOpen
  OBVIOUS
<1>2. PICK t : t = mRun'[r]
  OBVIOUS
<1>3. PICK key, fan : key = KeyAt(n, t.step) /\ fan = KeyAt(Told!Fan, t.step)
  OBVIOUS
<1>4. SpansOK(spans) /\ Spanned(s, done, open, spans) /\ under \in SUBSET s.under
  BY <1>1 DEF SpanInv
<1>5. /\ Begun(t, n, visits, under, path, Len(spans) + 1) /\ mDone' = mDone
      /\ Told!StartSpan(r, n, Parent(n), t.step)
  BY <1>1, <1>2 DEF Begins
<1>6. PICK above :
        above = IF Parent(n) = Told!Nobody THEN Told!NoSpan
                ELSE Told!OpenSpan(<<Parent(n), t.step>>)
  OBVIOUS
<1>7. PICK p : p = [run |-> r, node |-> n, above |-> above, ended |-> FALSE]
  OBVIOUS
<1>8. PICK new : new = Len(spans) + 1
  OBVIOUS
<1>9. PICK opened : opened = OpenedAt(open, key, new)
  OBVIOUS
<1>10. PICK more : more = Append(spans, p)
  OBVIOUS
<1>11. mOpen' = opened /\ mSpans' = more
  BY <1>1, <1>3, <1>5, <1>6, <1>7, <1>9, <1>10, <1>8 DEF Told!StartSpan, OpenedAt, KeyAt
<1>12. ASpan(p) /\ p.ended = FALSE /\ p.above = above
  BY <1>7 DEF ASpan
<1>13. Parent(n) = Told!Fan /\ fan \in DOMAIN open => above = open[fan]
  BY <1>1, <1>3, <1>6, TopsAreNodes DEF Told!OpenSpan, KeyAt
<1>14. \A y \in under : y.node # n /\ y.step = t.step
  BY <1>2
<1>15. Begun(t, n, visits, under, path, new)
  BY <1>5, <1>8
<1>16. Room(n, t, under) /\ Below(n, p, open, fan)
  BY <1>12, <1>13, <1>14 DEF Room, Below
<1>17. Starting(n, t, key, fan, p, open, spans, new, opened, more)
  BY <1>3, <1>9, <1>10, <1>8 DEF Starting
<1>18. SpansOK(more) /\ Spanned(t, done, opened, more)
  BY <1>4, <1>15, <1>16, <1>17, SpanStarts
<1> QED BY <1>1, <1>2, <1>5, <1>11, <1>18, SpanKept

LEMMA SpanEnd ==
  ASSUME OneRun, ReportInv, SpanInv, NEW r \in ReportRuns, \E x, d : Ends(r, x, d)
  PROVE  SpanInv'
<1>1. PICK x, d : Ends(r, x, d)
  OBVIOUS
<1>2. PICK s, done, spans, open :
        s = mRun[r] /\ done = mDone[r] /\ spans = mSpans /\ open = mOpen
  OBVIOUS
<1>3. PICK t, more : t = mRun'[r] /\ more = mDone'[r]
  OBVIOUS
<1>4. PICK e : Left(s, t, done, more, x, d, e)
  BY <1>1, <1>2, <1>3 DEF Ends
<1>5. SpansOK(spans) /\ Spanned(s, done, open, spans)
  BY <1>2 DEF SpanInv
<1>6. UnderWay(s) /\ ASequence(done)
  BY <1>2 DEF ReportInv, RunInv, Faithful
<1>7. PICK key : key = KeyOf(x)
  OBVIOUS
<1>8. key \in DOMAIN open /\ open[key] = x.span /\ x.span # Told!NoSpan
  <2>1. x \in s.under
    BY <1>4 DEF Left
  <2>2. SpanOpen(x, open, spans)
    BY <1>5, <2>1 DEF Spanned
  <2>3. x.span # 0
    BY <1>5, <2>2 DEF SpanOpen, SpansOK, ASequence
  <2> QED BY <1>7, <2>2, <2>3 DEF SpanOpen, Told!NoSpan
<1>9. PICK left : left = [j \in DOMAIN open \ {key} |-> open[j]]
  OBVIOUS
<1>10. mOpen' = left /\ mSpans' = EndedAt(spans, x.span)
  <2>1. Told!EndSpan(x, d.outcome)
    BY <1>1 DEF Ends
  <2>2. key = <<x.node, x.step>>
    BY <1>7 DEF KeyOf, KeyAt
  <2>3. Told!OpenSpan(key) # Told!NoSpan
    BY <1>2, <1>8 DEF Told!OpenSpan
  <2>4. mOpen' = left /\ mSpans' = [spans EXCEPT ![open[key]].ended = TRUE]
    BY <1>2, <1>9, <2>1, <2>2, <2>3 DEF Told!EndSpan
  <2> QED BY <1>8, <2>4 DEF EndedAt
<1>11. SpansOK(EndedAt(spans, x.span)) /\ Spanned(t, more, left, EndedAt(spans, x.span))
  BY <1>4, <1>5, <1>6, <1>7, <1>9, SpanEnds
<1> QED BY <1>3, <1>10, <1>11, SpanKept

LEMMA SpanReturn ==
  ASSUME OneRun, ReportInv, SpanInv, NEW r \in ReportRuns, Told!Return(r)
  PROVE  SpanInv'
<1>1. mRun'[r].under = mRun[r].under /\ mDone' = mDone
  BY ReturnLeaves DEF ReportInv
<1>2. mOpen' = mOpen /\ mSpans' = mSpans
  BY DEF Told!Return
<1>3. Spanned(mRun'[r], mDone'[r], mOpen', mSpans')
  BY <1>1, <1>2 DEF SpanInv, Spanned
<1> QED BY <1>2, <1>3, SpanKept DEF SpanInv

LEMMA SpanStep ==
  OneRun /\ ReportInv /\ SpanInv /\ [Told!Next]_(Told!vars) => SpanInv'
<1> SUFFICES ASSUME OneRun, ReportInv, SpanInv, [Told!Next]_(Told!vars) PROVE SpanInv'
  OBVIOUS
<1>1. CASE UNCHANGED Told!vars
  BY <1>1 DEF Told!vars, SpanInv
<1>2. ASSUME NEW r \in ReportRuns, NEW n \in TopNodes, Told!Step(r, n) PROVE SpanInv'
  <2>1. ReportTypes /\ RunInv(r) /\ UnderWay(mRun[r])
    BY DEF ReportInv, RunInv, Faithful
  <2>2. /\ mRun[r].pc = "ready"
        /\ Begins(r, n, mRun[r].visits, mRun[r].under, Append(mRun[r].path, n))
    BY <1>2, <2>1, StepBegins
  <2>3. mRun[r].under = {}
    BY <2>1, <2>2, PlacesDiffer DEF UnderWay
  <2> QED BY <2>2, <2>3, SpanBegin
<1>3. ASSUME NEW r \in ReportRuns, NEW outcome \in {"ok", "failed", "paused"},
             NEW cost \in {0, 1}, Told!TopEnds(r, outcome, cost)
      PROVE  SpanInv'
  BY <1>3, TopEnds, SpanEnd DEF ReportInv
<1>4. ASSUME NEW r \in ReportRuns, NEW b \in FanBranches, Told!BranchStarts(r, b)
      PROVE  SpanInv'
  <2>1. ReportTypes /\ RunInv(r) /\ UnderWay(mRun[r])
    BY DEF ReportInv, RunInv, Faithful
  <2>2. /\ mRun[r].pc = Told!Fan /\ b \in mRun[r].todo /\ mRun'[r].step = mRun[r].step
        /\ Begins(r, b, mRun[r].visits, mRun[r].under, mRun[r].path)
    BY <1>4, <2>1, BranchBegins
  <2>3. b # Told!Fan /\ b \notin TopNodes
    BY TopsAreNodes DEF TopNodes
  <2>4. ASSUME NEW y \in mRun[r].under PROVE y.node # b /\ y.step = mRun'[r].step
    BY <2>1, <2>2, <2>3 DEF UnderWay, TopNodes
  <2> QED BY <2>2, <2>3, <2>4, SpanBegin
<1>5. ASSUME NEW r \in ReportRuns, NEW b \in FanBranches, NEW outcome \in {"ok", "failed"},
             Told!BranchEnds(r, b, outcome, 1)
      PROVE  SpanInv'
  BY <1>5, BranchEnds, SpanEnd DEF ReportInv
<1>6. ASSUME NEW r \in ReportRuns, Told!FanEnds(r) PROVE SpanInv'
  BY <1>6, FanEnds, SpanEnd DEF ReportInv
<1>7. ASSUME NEW r \in ReportRuns, Told!Return(r) PROVE SpanInv'
  BY <1>7, SpanReturn
<1>8. ASSUME NEW r \in ReportRuns, Told!Resume(r) PROVE SpanInv'
  <2>1. ReportTypes /\ RunInv(r)
    BY DEF ReportInv
  <2>2. Begins(r, Told!Top, Told!SeedVisits(mRun[r].path), {}, Append(mRun[r].path, Told!Top))
    BY <1>8, <2>1, ResumeBegins
  <2>3. Told!Top \in TopNodes
    BY DEF TopNodes
  <2> QED BY <2>2, <2>3, SpanBegin
<1> QED BY <1>1, <1>2, <1>3, <1>4, <1>5, <1>6, <1>7, <1>8, Zenon DEF Told!Next, TopNodes

LEMMA SpansAreTrue == ReportInv /\ SpanInv => Told!SpansAreExecutions
<1> SUFFICES ASSUME ReportInv, SpanInv, NEW r \in ReportRuns
             PROVE  /\ \A i \in DOMAIN mDone[r] : mSpans[mDone[r][i].span].ended
                    /\ \A x \in mRun[r].under :
                         /\ ~mSpans[x.span].ended
                         /\ x.parent = Told!Fan =>
                              mSpans[x.span].above = Told!Own(r, Told!Fan).span
  BY DEF Told!SpansAreExecutions
<1>1. PICK s, done : s = mRun[r] /\ done = mDone[r]
  OBVIOUS
<1>2. Spanned(s, done, mOpen, mSpans)
  BY <1>1 DEF SpanInv
<1>3. UnderWay(s) /\ ASequence(done)
  BY <1>1 DEF ReportInv, RunInv, Faithful
<1>4. ASSUME NEW i \in DOMAIN done PROVE mSpans[done[i].span].ended
  <2>1. i \in 1..Len(done)
    BY <1>3 DEF ASequence
  <2>2. mSpans[done[i].span].ended = TRUE
    BY <1>2, <2>1 DEF Spanned, SpanEnded
  <2> QED BY <2>2, Zenon
<1>5. ASSUME NEW x \in s.under PROVE ~mSpans[x.span].ended
  <2>1. mSpans[x.span].ended = FALSE
    BY <1>2 DEF Spanned, SpanOpen
  <2> QED BY <2>1, Zenon
<1>6. ASSUME NEW x \in s.under, x.parent = Told!Fan
      PROVE  mSpans[x.span].above = Told!Own(r, Told!Fan).span
  <2>1. s.pc \in TopNodes
    BY <1>3 DEF UnderWay
  <2>2. s.pc = Told!Fan
    BY <1>3, <1>6, <2>1, TopsAreNodes DEF UnderWay
  <2>3. \E y \in mRun[r].under : y.node = Told!Fan
    BY <1>1, <1>3, <2>1, <2>2 DEF UnderWay
  <2>4. PICK y : y = Told!Own(r, Told!Fan)
    OBVIOUS
  <2>5. y \in s.under /\ y.node = Told!Fan
    BY <1>1, <2>3, <2>4, OwnIs
  <2>6. mSpans[x.span].above = y.span
    BY <1>2, <1>6, <2>5 DEF Spanned
  <2> QED BY <2>4, <2>6
<1> QED BY <1>1, <1>4, <1>5, <1>6

\* What every segment of every run reports is cumulative, and every execution is told its
\* attempt (report.go; exec, loop and Resume of run.go).
THEOREM ReportIsCumulativeAlways == Told!Spec => []Told!ReportIsCumulative
<1>1. Told!Init => ReportInv
  BY ReportStart
<1>2. ReportInv /\ [Told!Next]_(Told!vars) => ReportInv'
  BY ReportStep
<1>3. ReportInv => Told!ReportIsCumulative
  BY ReportIsTrue
<1> QED BY <1>1, <1>2, <1>3, PTL DEF Told!Spec

\* With one run at a time, as two take each other's keys, its reports and its spans are
\* those of its executions (report.go, run.go; NodeStart and NodeEnd of otel.go).
THEOREM ReportsAreTrueAlways == OneRun => (Told!Spec => []ReportsAreTrue)
<1> SUFFICES ASSUME OneRun PROVE Told!Spec => []ReportsAreTrue
  OBVIOUS
<1>1. Told!Init => ReportInv /\ SpanInv
  BY ReportStart, SpanStart
<1>2. ReportInv /\ SpanInv /\ [Told!Next]_(Told!vars) => (ReportInv /\ SpanInv)'
  BY ReportStep, SpanStep
<1>3. ReportInv /\ SpanInv => ReportsAreTrue
  BY ReportIsTrue, SpansAreTrue DEF ReportsAreTrue
<1> QED BY <1>1, <1>2, <1>3, PTL DEF Told!Spec

(***************************************************************************)
(* Forks of a log                                                          *)
(***************************************************************************)

\* The last position a test holds at is one of the sequence's, or none.
LEMMA LastPlace ==
  ASSUME NEW I, NEW n \in Nat, I \subseteq 1..n
  PROVE  (IF I # {} THEN Forked!Max(I) ELSE 0) \in 0..n
<1> SUFFICES ASSUME I # {} PROVE Forked!Max(I) \in 0..n
  OBVIOUS
<1> DEFINE N == {n - j : j \in I}
<1>1. N \subseteq Nat /\ N # {}
  <2>1. ASSUME NEW j \in I PROVE n - j \in Nat
    <3>1. j \in 1..n
      OBVIOUS
    <3> QED BY <3>1
  <2> QED BY <2>1
<1> HIDE DEF N
<1>2. PICK k \in N : \A j \in N : k <= j
  BY <1>1, Least
<1>3. PICK m \in I : k = n - m
  BY DEF N
<1>4. ASSUME NEW j \in I PROVE m >= j
  <2>1. n - j \in N
    BY DEF N
  <2> QED BY <1>2, <1>3, <2>1
<1>5. Forked!Max(I) \in I
  BY <1>4 DEF Forked!Max
<1>6. PICK last : last = Forked!Max(I)
  OBVIOUS
<1>7. last \in 1..n
  BY <1>5, <1>6
<1> QED BY <1>6, <1>7

\* The last record of some kinds, when a record is appended.
Kept(l, m, r) ==
  /\ ASequence(l) /\ ASequence(m) /\ Len(m) = Len(l) + 1 /\ m[Len(l) + 1] = r
  /\ \A i \in 1..Len(l) : m[i] = l[i]

LEMMA LastOfHit ==
  ASSUME NEW l, NEW m, NEW r, Kept(l, m, r), NEW kinds, r.kind \in kinds
  PROVE  Forked!LastOf(m, kinds) = Len(l) + 1
<1> DEFINE I == {i \in 1..Len(m) : m[i].kind \in kinds}
<1>1. Len(l) + 1 \in I /\ I \subseteq 1..(Len(l) + 1) /\ Len(l) \in Nat
  BY DEF Kept, ASequence
<1>2. Forked!LastOf(m, kinds) = IF I # {} THEN Forked!Max(I) ELSE 0
  BY DEF Forked!LastOf, Forked!SelectLastInSeq
<1> HIDE DEF I
<1>3. Forked!Max(I) = Len(l) + 1
  <2>1. \A y \in I : Len(l) + 1 >= y
    BY <1>1
  <2>2. ASSUME NEW x \in I, \A y \in I : x >= y PROVE x = Len(l) + 1
    <3>1. x \in 1..(Len(l) + 1) /\ x >= Len(l) + 1
      BY <1>1, <2>2
    <3> QED BY <1>1, <3>1
  <2> QED BY <1>1, <2>1, <2>2 DEF Forked!Max
<1> QED BY <1>1, <1>2, <1>3

LEMMA LastOfMiss ==
  ASSUME NEW l, NEW m, NEW r, Kept(l, m, r), NEW kinds, r.kind \notin kinds
  PROVE  /\ Forked!LastOf(m, kinds) = Forked!LastOf(l, kinds)
         /\ Forked!LastOf(l, kinds) \in 0..Len(l)
<1> DEFINE I == {i \in 1..Len(l) : l[i].kind \in kinds}
<1>1. I = {i \in 1..Len(m) : m[i].kind \in kinds}
  <2>1. Len(l) \in Nat /\ Len(m) = Len(l) + 1
    BY DEF Kept, ASequence
  <2>2. ~(m[Len(l) + 1].kind \in kinds)
    BY DEF Kept
  <2>3. \A i \in 1..Len(m) : i \in 1..Len(l) \/ i = Len(l) + 1
    BY <2>1
  <2>4. \A i \in 1..Len(l) : i \in 1..Len(m) /\ m[i] = l[i]
    BY <2>1 DEF Kept
  <2> QED BY <2>2, <2>3, <2>4
<1>2. Forked!LastOf(l, kinds) = IF I # {} THEN Forked!Max(I) ELSE 0
  BY DEF Forked!LastOf, Forked!SelectLastInSeq
<1>3. Forked!LastOf(m, kinds) = IF I # {} THEN Forked!Max(I) ELSE 0
  BY <1>1 DEF Forked!LastOf, Forked!SelectLastInSeq
<1>4. PICK n, last : n = Len(l) /\ last = IF I # {} THEN Forked!Max(I) ELSE 0
  OBVIOUS
<1>5. n \in Nat /\ I \subseteq 1..n
  BY <1>4 DEF Kept, ASequence
<1> HIDE DEF I
<1>6. last \in 0..n
  BY <1>4, <1>5, LastPlace
<1> QED BY <1>2, <1>3, <1>4, <1>6

\* A record that carries a state has it taken over.
LEMMA StateAtHit ==
  ASSUME NEW l, NEW m, NEW r, Kept(l, m, r), Forked!CarriesState(r)
  PROVE  Forked!StateOf(m) = r.state
<1> DEFINE I == {i \in 1..Len(m) : Forked!CarriesState(m[i])}
<1>1. Len(l) + 1 \in I /\ I \subseteq 1..(Len(l) + 1) /\ Len(l) \in Nat
  BY DEF Kept, ASequence
<1>2. Forked!StateAt(m) = IF I # {} THEN Forked!Max(I) ELSE 0
  BY DEF Forked!StateAt, Forked!SelectLastInSeq
<1> HIDE DEF I
<1>3. Forked!Max(I) = Len(l) + 1
  <2>1. \A y \in I : Len(l) + 1 >= y
    BY <1>1
  <2>2. ASSUME NEW x \in I, \A y \in I : x >= y PROVE x = Len(l) + 1
    <3>1. x \in 1..(Len(l) + 1) /\ x >= Len(l) + 1
      BY <1>1, <2>2
    <3> QED BY <1>1, <3>1
  <2> QED BY <1>1, <2>1, <2>2 DEF Forked!Max
<1> QED BY <1>1, <1>2, <1>3 DEF Forked!StateOf, Kept

(* The path of a log *)

\* The path after the first i records, and that f is all of them up to n.
Walked(l, f, i) ==
  IF i = 0 THEN <<>>
  ELSE IF l[i].kind \in {"node_commit", "interrupt"} THEN Append(f[i - 1], l[i].node)
  ELSE f[i - 1]
Walk(l, f, n) == f = [i \in 0..n |-> Walked(l, f, i)]

LEMMA WalkExists ==
  ASSUME NEW l
  PROVE  \A n \in Nat : \E f : Walk(l, f, n)
<1> DEFINE S == {n \in Nat : ~\E f : Walk(l, f, n)}
<1> SUFFICES ASSUME S # {} PROVE FALSE
  OBVIOUS
<1>1. PICK n \in S : \A k \in S : n <= k
  BY Least
<1>2. n # 0
  <2>1. Walk(l, [i \in 0..0 |-> <<>>], 0)
    BY DEF Walk, Walked
  <2> QED BY <1>1, <2>1
<1>3. n - 1 \in Nat /\ n - 1 \notin S
  BY <1>1, <1>2
<1>4. PICK f : Walk(l, f, n - 1)
  BY <1>3
<1> DEFINE g == [i \in 0..n |-> IF i = n THEN Walked(l, f, n) ELSE f[i]]
<1>5. ASSUME NEW i \in 0..n PROVE g[i] = Walked(l, g, i)
  <2>1. i # 0 => g[i - 1] = f[i - 1]
    BY <1>3
  <2>2. i # n => f[i] = Walked(l, f, i)
    BY <1>3, <1>4 DEF Walk
  <2>3. Walked(l, g, i) = Walked(l, f, i)
    BY <2>1 DEF Walked
  <2> QED BY <2>2, <2>3
<1>6. g = [i \in 0..n |-> g[i]]
  OBVIOUS
<1>7. Walk(l, g, n)
  BY <1>5, <1>6 DEF Walk
<1> QED BY <1>1, <1>7

\* Logs with the same first n records have the same path up to there.
LEMMA WalkUnique ==
  ASSUME NEW l, NEW m, NEW n \in Nat, NEW f, NEW g, NEW k \in Nat, n <= k,
         Walk(l, f, n), Walk(m, g, k), Alike(l, m, n)
  PROVE  \A i \in 0..n : f[i] = g[i]
<1> DEFINE S == {i \in 0..n : f[i] # g[i]}
<1> SUFFICES ASSUME S # {} PROVE FALSE
  OBVIOUS
<1>1. PICK i \in S : \A j \in S : i <= j
  <2>1. S \subseteq Nat
    OBVIOUS
  <2> HIDE DEF S
  <2> QED BY <2>1, Least
<1>2. i \in 0..n /\ i \in 0..k
  BY <1>1
<1>3. f[i] = Walked(l, f, i) /\ g[i] = Walked(m, g, i)
  BY <1>2 DEF Walk
<1>4. i # 0 => f[i - 1] = g[i - 1]
  BY <1>1
<1> QED BY <1>1, <1>3, <1>4 DEF Walked, Alike

LEMMA WalkIs ==
  ASSUME NEW l, ASequence(l)
  PROVE  \E f : Walk(l, f, Len(l)) /\ Forked!PathOf(l) = f[Len(l)]
<1> DEFINE f == CHOOSE f : f = [i \in 0..Len(l) |->
                IF i = 0 THEN <<>>
                ELSE IF l[i].kind \in {"node_commit", "interrupt"}
                     THEN Append(f[i - 1], l[i].node)
                ELSE f[i - 1]]
<1>1. Forked!PathOf(l) = f[Len(l)]
  BY DEF Forked!PathOf
<1>2. \E g : Walk(l, g, Len(l))
  BY WalkExists DEF ASequence
<1>3. Walk(l, f, Len(l))
  BY <1>2 DEF Walk, Walked
<1> QED BY <1>1, <1>3

\* A record that is neither a commit nor a question leaves the path.
LEMMA PathMiss ==
  ASSUME NEW l, NEW m, NEW r, Kept(l, m, r), r.kind \notin {"node_commit", "interrupt"}
  PROVE  Forked!PathOf(m) = Forked!PathOf(l)
<1>1. PICK n : n = Len(l)
  OBVIOUS
<1>2. n \in Nat /\ Len(m) = n + 1 /\ m[n + 1] = r /\ \A i \in 1..n : l[i] = m[i]
  BY <1>1 DEF Kept, ASequence
<1>3. PICK f : Walk(l, f, n) /\ Forked!PathOf(l) = f[n]
  BY <1>1, WalkIs DEF Kept
<1>4. PICK g : Walk(m, g, n + 1) /\ Forked!PathOf(m) = g[n + 1]
  BY <1>2, WalkIs DEF Kept
<1>5. f[n] = g[n]
  <2>1. PICK k : k = n + 1
    OBVIOUS
  <2>2. n <= k /\ k \in Nat /\ n \in 0..n
    BY <1>2, <2>1
  <2>3. Walk(m, g, k)
    BY <1>4, <2>1
  <2>4. Alike(l, m, n)
    BY <1>2 DEF Alike
  <2>5. \A i \in 0..n : f[i] = g[i]
    BY <1>2, <1>3, <2>2, <2>3, <2>4, WalkUnique
  <2> QED BY <2>2, <2>5
<1>6. g[n + 1] = Walked(m, g, n + 1)
  BY <1>2, <1>4 DEF Walk
<1>7. Walked(m, g, n + 1) = g[n]
  BY <1>2 DEF Walked
<1> QED BY <1>3, <1>4, <1>5, <1>6, <1>7

(* What a fork makes of a log *)

LEMMA ForkFields ==
  ASSUME NEW l
  PROVE  LET r == Forked!ForkRecord(l)
         IN  /\ r.kind = "fork" /\ r.seq = Forked!LastSeq(l) + 1 /\ r.step = Forked!StepOf(l)
             /\ r.state = Append(Forked!StateOf(l), EditMark) /\ r.next = Forked!NextOf(l)
<1>1. PICK step, next, state, seq :
        /\ step = Forked!StepOf(l) /\ next = Forked!NextOf(l)
        /\ state = Append(Forked!StateOf(l), EditMark) /\ seq = Forked!LastSeq(l) + 1
  OBVIOUS
<1>2. PICK e : e = Forked!Entry("fork", seq, "none", step)
  OBVIOUS
<1> QED BY <1>1, <1>2 DEF Forked!ForkRecord, Forked!Entry

\* Every record has its position as number.
Numbered(l) == ASequence(l) /\ \A i \in 1..Len(l) : l[i].seq = i

LEMMA NextNumber ==
  ASSUME NEW l, Numbered(l)
  PROVE  Forked!LastSeq(l) = Len(l)
<1>1. CASE l = <<>>
  BY <1>1 DEF Forked!LastSeq
<1>2. CASE l # <<>>
  <2>1. Len(l) \in Nat /\ l = [i \in 1..Len(l) |-> l[i]]
    BY DEF Numbered, ASequence
  <2>2. Len(l) # 0
    BY <1>2, <2>1
  <2>3. Len(l) \in 1..Len(l)
    BY <2>1, <2>2
  <2> QED BY <1>2, <2>3 DEF Forked!LastSeq, Numbered
<1> QED BY <1>1, <1>2

\* The edited state, the route and the step of the commit, and nothing open.
Edited(l, m) ==
  /\ Forked!StateOf(m) = Append(Forked!StateOf(l), EditMark)
  /\ Forked!ResumeNode(m) = Forked!NextOf(l) /\ Forked!ResumeStep(m) = Forked!StepOf(l)
  /\ Forked!ResumeReply(m) = "-" /\ Forked!ResumeSession(m) = "none"
  /\ Forked!PathOf(m) = Forked!PathOf(l) /\ Forked!StatusOf(m) = "unfinished"
  /\ m[Len(m)].seq = Len(m)

LEMMA ForkEdits ==
  ASSUME NEW l, Numbered(l), NEW m, Kept(l, m, Forked!ForkRecord(l))
  PROVE  Edited(l, m)
<1>1. PICK r : r = Forked!ForkRecord(l)
  OBVIOUS
<1>2. /\ r.kind = "fork" /\ r.seq = Len(l) + 1 /\ r.step = Forked!StepOf(l)
      /\ r.state = Append(Forked!StateOf(l), EditMark) /\ r.next = Forked!NextOf(l)
  BY <1>1, ForkFields, NextNumber
<1>3. PICK n : n = Len(l)
  OBVIOUS
<1>4. Kept(l, m, r) /\ n \in Nat /\ Len(m) = n + 1 /\ m[n + 1] = r
  BY <1>1, <1>3 DEF Kept, ASequence
<1>5. Forked!StateOf(m) = r.state
  BY <1>2, <1>4, StateAtHit DEF Forked!CarriesState
<1>6. Forked!Base(m) = n + 1 /\ Forked!Settled(m) = n + 1
  BY <1>2, <1>3, <1>4, LastOfHit DEF Forked!Base, Forked!Settled
<1>7. Forked!NextOf(m) = r.next /\ Forked!StepOf(m) = r.step
  BY <1>4, <1>6 DEF Forked!NextOf, Forked!StepOf
<1>8. Forked!Asked(m) \in 0..n
  BY <1>2, <1>3, <1>4, LastOfMiss DEF Forked!Asked
<1>9. ~Forked!Pending(m)
  BY <1>4, <1>6, <1>8 DEF Forked!Pending
<1>10. ~Forked!Answered(m)
  BY <1>9 DEF Forked!Answered, Forked!AnswerAt
<1>11. Forked!SessionAt(m) = 0
  <2>1. PICK s : s = Forked!LastOf(m, {"session"})
    OBVIOUS
  <2>2. s \in 0..n
    BY <1>2, <1>3, <1>4, <2>1, LastOfMiss
  <2>3. Forked!LastOf(m, {"node_commit", "fork", "interrupt"}) = n + 1
    BY <1>2, <1>3, <1>4, LastOfHit
  <2>4. ~(s > n + 1)
    BY <1>4, <2>2
  <2> QED BY <2>1, <2>3, <2>4 DEF Forked!SessionAt
<1>12. Forked!PathOf(m) = Forked!PathOf(l)
  BY <1>2, <1>4, PathMiss
<1>13. Forked!StatusOf(m) = "unfinished"
  <2>1. m # <<>> /\ m[Len(m)] = r
    BY <1>4
  <2>2. ~Forked!Ended(m)
    BY <1>2, <2>1 DEF Forked!Ended
  <2>3. ~Forked!EndedWell(m)
    BY <2>2 DEF Forked!EndedWell
  <2>4. m[Len(m)].kind # "interrupt"
    BY <1>2, <2>1
  <2> QED BY <2>1, <2>2, <2>3, <2>4 DEF Forked!StatusOf
<1>14. Forked!ResumeNode(m) = r.next /\ Forked!ResumeStep(m) = r.step
  BY <1>7, <1>10 DEF Forked!ResumeNode, Forked!ResumeStep
<1>15. Forked!ResumeReply(m) = "-"
  BY <1>10 DEF Forked!ResumeReply
<1>16. Forked!ResumeSession(m) = "none"
  BY <1>11 DEF Forked!ResumeSession
<1>17. m[Len(m)].seq = Len(m)
  BY <1>2, <1>3, <1>4
<1> QED BY <1>2, <1>5, <1>12, <1>13, <1>14, <1>15, <1>16, <1>17 DEF Edited

\* A sequence begins with another.
Copied(s, t) == Len(s) <= Len(t) /\ \A i \in 1..Len(s) : s[i] = t[i]

LEMMA IsSequence ==
  ASSUME NEW s, ASequence(s)
  PROVE  \E S : s \in Seq(S)
<1> DEFINE S == {s[i] : i \in 1..Len(s)}
<1>1. Len(s) \in Nat /\ s \in [1..Len(s) -> S]
  BY DEF ASequence
<1>2. s \in Seq(S)
  BY <1>1
<1> QED BY <1>2

LEMMA CopiesBegin ==
  ASSUME NEW s, NEW t, ASequence(s), ASequence(t), Copied(s, t)
  PROVE  Forked!IsPrefix(s, t)
<1>1. PICK n : n = Len(s)
  OBVIOUS
<1>2. n \in Nat /\ n <= Len(t) /\ Len(t) \in Nat
  BY <1>1 DEF Copied, ASequence
<1>3. SubSeq(s, 1, n) = [i \in 1..n |-> s[i]]
  BY <1>1, <1>2, IsSequence
<1>4. SubSeq(t, 1, n) = [i \in 1..n |-> t[i]]
  BY <1>1, <1>2, IsSequence
<1>5. [i \in 1..n |-> s[i]] = [i \in 1..n |-> t[i]]
  BY <1>1 DEF Copied
<1> QED BY <1>1, <1>2, <1>3, <1>4, <1>5 DEF Forked!IsPrefix

LEMMA BeginningOf ==
  ASSUME NEW t, ASequence(t), NEW n \in 1..Len(t)
  PROVE  LET s == SubSeq(t, 1, n)
         IN  ASequence(s) /\ Len(s) = n /\ Copied(s, t)
<1>1. Len(t) \in Nat /\ n \in Nat /\ n <= Len(t)
  BY DEF ASequence
<1>2. PICK s : s = SubSeq(t, 1, n)
  OBVIOUS
<1>3. s = [i \in 1..n |-> t[i]] /\ Len(s) = n
  BY <1>1, <1>2, IsSequence
<1>4. ASequence(s)
  BY <1>1, <1>3 DEF ASequence
<1>5. Copied(s, t)
  BY <1>1, <1>3 DEF Copied
<1> QED BY <1>2, <1>3, <1>4, <1>5

LEMMA SameCopy ==
  ASSUME NEW s, NEW t, ASequence(s), ASequence(t), Copied(s, t), Len(s) = Len(t)
  PROVE  s = t
<1>1. PICK n : n = Len(s)
  OBVIOUS
<1>2. n \in Nat /\ s = [i \in 1..n |-> s[i]] /\ t = [i \in 1..n |-> t[i]]
  BY <1>1 DEF ASequence
<1>3. \A i \in 1..n : s[i] = t[i]
  BY <1>1 DEF Copied
<1> QED BY <1>2, <1>3

\* A copy stays one when the original grows, and when it takes the next element.
LEMMA CopyKept ==
  ASSUME NEW s, NEW t, NEW u, NEW e, ASequence(s), Kept(t, u, e), Copied(s, t)
  PROVE  Copied(s, u)
<1>1. Len(s) \in Nat /\ Len(t) \in Nat /\ Len(u) = Len(t) + 1 /\ Len(s) <= Len(t)
  BY DEF ASequence, Kept, Copied
<1>2. ASSUME NEW i \in 1..Len(s) PROVE s[i] = u[i]
  <2>1. i \in 1..Len(t)
    BY <1>1
  <2> QED BY <2>1 DEF Kept, Copied
<1> QED BY <1>1, <1>2 DEF Copied

LEMMA CopyMore ==
  ASSUME NEW s, NEW t, NEW u, NEW e, Kept(s, t, e), ASequence(u), Copied(s, u),
         Len(s) < Len(u), e = u[Len(s) + 1]
  PROVE  Copied(t, u)
<1>1. PICK n : n = Len(s)
  OBVIOUS
<1>2. n \in Nat /\ Len(u) \in Nat /\ Len(t) = n + 1 /\ n < Len(u) /\ t[n + 1] = u[n + 1]
  BY <1>1 DEF ASequence, Kept
<1>3. \A i \in 1..n : t[i] = u[i]
  BY <1>1 DEF Kept, Copied
<1>4. \A i \in 1..(n + 1) : i \in 1..n \/ i = n + 1
  BY <1>2
<1> QED BY <1>2, <1>3, <1>4 DEF Copied

LEMMA CopyOfCopy ==
  ASSUME NEW s, NEW t, NEW u, ASequence(s), ASequence(t), ASequence(u),
         Copied(s, t), Copied(t, u)
  PROVE  Copied(s, u)
<1>1. Len(s) <= Len(u) /\ \A i \in 1..Len(s) : i \in 1..Len(t)
  BY DEF Copied, ASequence
<1> QED BY <1>1 DEF Copied

LEMMA KeptAppended ==
  ASSUME NEW s, ASequence(s), NEW e, NEW t, t = Append(s, e)
  PROVE  Kept(s, t, e)
BY Appended DEF Kept

\* The source, the copy under way and the one that was finished.
ForkInv ==
  /\ Numbered(fSource) /\ ASequence(fTarget) /\ ASequence(fFork) /\ ASequence(fSeen)
  /\ Copied(fFork, fSource) /\ Copied(fSeen, fSource)
  /\ fSeen = <<>> => Copied(fTarget, fSource)
  /\ fSeen # <<>> => fFork = <<>> /\ Kept(fSeen, fTarget, Forked!ForkRecord(fSeen))
  /\ fFork # <<>> => Copied(fTarget, fFork)

LEMMA NextIsNumbered ==
  ASSUME NEW r \in Forked!NextRecords
  PROVE  r.seq = Forked!LastSeq(fSource) + 1
<1> DEFINE node == Forked!ResumeNode(fSource)
           step == Forked!ResumeStep(fSource) + 1
           last == fSource[Len(fSource)]
           asked == fSource[Forked!Asked(fSource)]
           Of(kind) == Forked!Put(kind, node, step)
<1>1. \/ \E n : r = [Forked!Put("run_start", "none", 0) EXCEPT !.next = n]
      \/ \E s : r = [Forked!Put("run_end", "none", 0) EXCEPT !.state = s]
      \/ r = Of("node_start") \/ r = Of("recover")
      \/ \E s : r = [Of("session") EXCEPT !.session = s]
      \/ \E s, n : r = [Of("node_commit") EXCEPT !.state = s, !.next = n]
      \/ \E s : r = [Of("interrupt") EXCEPT !.state = s]
      \/ \E s : r = [Forked!Put("run_end", "none", 0) EXCEPT !.state = s, !.failed = TRUE]
      \/ \E s, n : r = [Forked!Put("edge", last.node, s) EXCEPT !.next = n]
      \/ \E a : r = [Forked!Put("resume", asked.node, asked.step) EXCEPT !.reply = a]
  BY Zenon DEF Forked!NextRecords
<1>2. r = Of("node_start") \/ r = Of("recover") => r.seq = Forked!LastSeq(fSource) + 1
  BY DEF Forked!Put, Forked!Entry
<1>3. ASSUME NEW n, r = [Forked!Put("run_start", "none", 0) EXCEPT !.next = n]
      PROVE  r.seq = Forked!LastSeq(fSource) + 1
  BY <1>3 DEF Forked!Put, Forked!Entry
<1>4. ASSUME NEW s, r = [Forked!Put("run_end", "none", 0) EXCEPT !.state = s]
      PROVE  r.seq = Forked!LastSeq(fSource) + 1
  BY <1>4 DEF Forked!Put, Forked!Entry
<1>5. ASSUME NEW s, r = [Of("session") EXCEPT !.session = s]
      PROVE  r.seq = Forked!LastSeq(fSource) + 1
  BY <1>5 DEF Forked!Put, Forked!Entry
<1>6. ASSUME NEW s, NEW n, r = [Of("node_commit") EXCEPT !.state = s, !.next = n]
      PROVE  r.seq = Forked!LastSeq(fSource) + 1
  BY <1>6 DEF Forked!Put, Forked!Entry
<1>7. ASSUME NEW s, r = [Of("interrupt") EXCEPT !.state = s]
      PROVE  r.seq = Forked!LastSeq(fSource) + 1
  BY <1>7 DEF Forked!Put, Forked!Entry
<1>8. ASSUME NEW s, r = [Forked!Put("run_end", "none", 0) EXCEPT !.state = s, !.failed = TRUE]
      PROVE  r.seq = Forked!LastSeq(fSource) + 1
  BY <1>8 DEF Forked!Put, Forked!Entry
<1>9. ASSUME NEW s, NEW n, r = [Forked!Put("edge", last.node, s) EXCEPT !.next = n]
      PROVE  r.seq = Forked!LastSeq(fSource) + 1
  BY <1>9 DEF Forked!Put, Forked!Entry
<1>10. ASSUME NEW a, r = [Forked!Put("resume", asked.node, asked.step) EXCEPT !.reply = a]
      PROVE  r.seq = Forked!LastSeq(fSource) + 1
  BY <1>10 DEF Forked!Put, Forked!Entry
<1> HIDE DEF Of
<1> QED BY <1>1, <1>2, <1>3, <1>4, <1>5, <1>6, <1>7, <1>8, <1>9, <1>10, Zenon

LEMMA ForkStart == Forked!Init => ForkInv
<1> SUFFICES ASSUME Forked!Init PROVE ForkInv
  OBVIOUS
<1>1. fSource = <<>> /\ fTarget = <<>> /\ fFork = <<>> /\ fSeen = <<>>
  BY DEF Forked!Init, Forked!NoFork
<1>2. ASequence(<<>>) /\ Numbered(<<>>) /\ Copied(<<>>, <<>>)
  BY DEF ASequence, Numbered, Copied
<1> QED BY <1>1, <1>2 DEF ForkInv

LEMMA ForkStep == ForkInv /\ [Forked!Next]_(Forked!vars) => ForkInv'
<1> SUFFICES ASSUME ForkInv, [Forked!Next]_(Forked!vars) PROVE ForkInv'
  OBVIOUS
<1>1. PICK source, target, fork, seen :
        source = fSource /\ target = fTarget /\ fork = fFork /\ seen = fSeen
  OBVIOUS
<1>2. /\ Numbered(source) /\ ASequence(source) /\ ASequence(target) /\ ASequence(fork)
      /\ ASequence(seen) /\ Copied(fork, source) /\ Copied(seen, source)
      /\ seen = <<>> => Copied(target, source)
      /\ seen # <<>> => fork = <<>> /\ Kept(seen, target, Forked!ForkRecord(seen))
      /\ fork # <<>> => Copied(target, fork)
  BY <1>1 DEF ForkInv, Numbered
<1>3. CASE UNCHANGED Forked!vars
  BY <1>3 DEF Forked!vars, ForkInv
<1>4. CASE Forked!SourceRuns
  <2>1. PICK r \in Forked!NextRecords : fSource' = Append(fSource, r)
    BY <1>4 DEF Forked!SourceRuns
  <2>2. PICK more : more = Append(source, r)
    OBVIOUS
  <2>3. fSource' = more /\ fTarget' = target /\ fFork' = fork /\ fSeen' = seen
    BY <1>1, <1>4, <2>1, <2>2 DEF Forked!SourceRuns
  <2>4. Kept(source, more, r) /\ r.seq = Len(source) + 1
    BY <1>1, <1>2, <2>2, KeptAppended, NextIsNumbered, NextNumber
  <2>5. Numbered(more)
    <3>1. ASequence(more) /\ Len(source) \in Nat
      BY <2>4 DEF Kept, ASequence
    <3>2. \A i \in 1..Len(more) : i \in 1..Len(source) \/ i = Len(source) + 1
      BY <2>4, <3>1 DEF Kept
    <3> QED BY <1>2, <2>4, <3>1, <3>2 DEF Numbered, Kept
  <2>6. Copied(fork, more) /\ Copied(seen, more) /\ (seen = <<>> => Copied(target, more))
    BY <1>2, <2>4, CopyKept
  <2> QED BY <1>2, <2>3, <2>5, <2>6 DEF ForkInv
<1>5. CASE Forked!ForkBegins
  <2>1. PICK n \in DOMAIN source : fFork' = SubSeq(source, 1, n)
    BY <1>1, <1>5 DEF Forked!ForkBegins
  <2>2. PICK copy : copy = SubSeq(source, 1, n)
    OBVIOUS
  <2>3. n \in 1..Len(source)
    BY <1>2 DEF ASequence
  <2>4. ASequence(copy) /\ Copied(copy, source)
    BY <1>2, <2>2, <2>3, BeginningOf
  <2>5. /\ fFork' = copy /\ fSource' = source /\ fTarget' = target /\ fSeen' = seen
        /\ target = <<>> /\ fork = <<>>
    BY <1>1, <1>5, <2>1, <2>2 DEF Forked!ForkBegins, Forked!NoFork
  <2>6. seen = <<>>
    <3>1. Len(target) = 0
      BY <2>5
    <3>2. ~Kept(seen, target, Forked!ForkRecord(seen))
      BY <1>2, <3>1 DEF Kept, ASequence
    <3> QED BY <1>2, <3>2
  <2>7. Copied(target, copy)
    BY <2>4, <2>5 DEF Copied, ASequence
  <2> QED BY <1>2, <2>4, <2>5, <2>6, <2>7 DEF ForkInv
<1>6. CASE Forked!ForkCopies
  <2>1. PICK e, more : e = fork[Len(target) + 1] /\ more = Append(target, e)
    OBVIOUS
  <2>2. /\ fTarget' = more /\ fSource' = source /\ fFork' = fork /\ fSeen' = seen
        /\ Len(target) < Len(fork)
    BY <1>1, <1>6, <2>1 DEF Forked!ForkCopies
  <2>3. fork # <<>> /\ seen = <<>>
    <3>1. fork # <<>>
      BY <1>2, <2>2 DEF ASequence
    <3> QED BY <1>2, <3>1
  <2>4. Kept(target, more, e)
    BY <1>2, <2>1, KeptAppended
  <2>7. ASequence(more)
    BY <2>4 DEF Kept
  <2>5. Copied(more, fork)
    BY <1>2, <2>1, <2>2, <2>3, <2>4, CopyMore
  <2>6. Copied(more, source)
    BY <1>2, <2>4, <2>5, <2>7, CopyOfCopy
  <2> QED BY <1>2, <2>2, <2>3, <2>5, <2>6, <2>7 DEF ForkInv
<1>7. CASE Forked!ForkEnds
  <2>1. PICK e, more : e = Forked!ForkRecord(fork) /\ more = Append(target, e)
    OBVIOUS
  <2>2. /\ fTarget' = more /\ fSource' = source /\ fFork' = <<>> /\ fSeen' = fork
        /\ fork # <<>> /\ Len(target) = Len(fork)
    BY <1>1, <1>7, <2>1 DEF Forked!ForkEnds, Forked!NoFork
  <2>3. target = fork
    BY <1>2, <2>2, SameCopy
  <2>4. Kept(fork, more, e)
    BY <1>2, <2>1, <2>3, KeptAppended
  <2>6. ASequence(more)
    BY <2>4 DEF Kept
  <2>5. ASequence(<<>>) /\ Copied(<<>>, source)
    BY <1>2 DEF ASequence, Copied
  <2> QED BY <1>2, <2>1, <2>2, <2>4, <2>5, <2>6 DEF ForkInv
<1>8. CASE Forked!ForkDies
  <2>1. fTarget' = target /\ fSource' = source /\ fFork' = <<>> /\ fSeen' = seen
    BY <1>1, <1>8 DEF Forked!ForkDies, Forked!NoFork
  <2>2. ASequence(<<>>) /\ Copied(<<>>, source)
    BY <1>2 DEF ASequence, Copied
  <2> QED BY <1>2, <2>1, <2>2 DEF ForkInv
<1> QED BY <1>3, <1>4, <1>5, <1>6, <1>7, <1>8 DEF Forked!Next

LEMMA ForksAreCopies == ForkInv => ForksAreExact
<1> SUFFICES ASSUME ForkInv PROVE ForksAreExact
  OBVIOUS
<1>1. PICK source, target, seen : source = fSource /\ target = fTarget /\ seen = fSeen
  OBVIOUS
<1>2. ASSUME seen = <<>> PROVE Forked!IsPrefix(target, source)
  BY <1>1, <1>2, CopiesBegin DEF ForkInv, Numbered
<1>3. ASSUME seen # <<>>
      PROVE  /\ Forked!IsPrefix(seen, source) /\ Len(target) = Len(seen) + 1
             /\ Edited(seen, target)
  <2>1. Forked!IsPrefix(seen, source)
    BY <1>1, CopiesBegin DEF ForkInv, Numbered
  <2>2. Kept(seen, target, Forked!ForkRecord(seen))
    BY <1>1, <1>3 DEF ForkInv
  <2>3. Numbered(seen)
    <3>1. Copied(seen, source) /\ Numbered(source) /\ ASequence(seen)
      BY <1>1 DEF ForkInv
    <3>2. \A i \in 1..Len(seen) : i \in 1..Len(source)
      BY <3>1 DEF Copied, Numbered, ASequence
    <3> QED BY <3>1, <3>2 DEF Copied, Numbered
  <2> QED BY <2>1, <2>2, <2>3, ForkEdits DEF Kept
<1> QED BY <1>1, <1>2, <1>3 DEF ForksAreExact, Forked!ForkIsExact, Edited

\* However long the source goes on and whenever the process that forks dies, a fork has the
\* edited state, the route and the step of the commit it was made from, that prefix of the
\* log, and no question, answer or session; and what a fork that died leaves is a prefix of
\* the source (Fork of durable.go).
THEOREM ForksAreExactAlways == Forked!Spec => []ForksAreExact
<1>1. ForkInv => ForksAreExact
  BY ForksAreCopies
<1> QED BY <1>1, ForkStart, ForkStep, PTL DEF Forked!Spec
=============================================================================
