-------------------------- MODULE DurableRunProofs --------------------------
(***************************************************************************)
(* Proofs about DurableRun, for every graph, step limit and number of      *)
(* crashes, store failures, questions and recoveries: what replaying a log *)
(* finds in it, the inductive invariant, and the history a log is; then    *)
(* what a durable run comes to: what callers are told is in the log, a     *)
(* finished run stays as it is, and, for runs of this store, the process   *)
(* holds what the log gives it whatever interrupted the run, and the log   *)
(* is that of a run without crashes: DurableRun implements LogicalRun.     *)
(***************************************************************************)
EXTENDS DurableRun, TLAPS, WellFoundedInduction

(***************************************************************************)
(* The last record of some kinds, when a record is appended.               *)
(***************************************************************************)
LEMMA LastOfNone == \A kinds : LastOf(<<>>, kinds) = 0
  BY DEF LastOf, SelectLastInSeq

LEMMA StateAtNone == StateAt(<<>>) = 0
  BY DEF StateAt, SelectLastInSeq

LEMMA LastOfHit ==
  ASSUME NEW l \in Seq(Records), NEW r \in Records, NEW kinds, r.kind \in kinds
  PROVE  LastOf(Append(l, r), kinds) = Len(l) + 1
<1> DEFINE m == Append(l, r)
           I == {i \in 1..Len(m) : m[i].kind \in kinds}
<1>1. Len(l) + 1 \in I /\ \A i \in I : i \in Int /\ Len(l) + 1 >= i
  OBVIOUS
<1>2. Max(I) = Len(l) + 1
  <2>1. \A x \in I : (\A y \in I : x >= y) => x = Len(l) + 1
    BY <1>1
  <2> QED BY <1>1, <2>1 DEF Max
<1>3. LastOf(m, kinds) = IF I # {} THEN Max(I) ELSE 0
  BY DEF LastOf, SelectLastInSeq
<1> QED BY <1>1, <1>2, <1>3

LEMMA LastOfMiss ==
  ASSUME NEW l \in Seq(Records), NEW r \in Records, NEW kinds, r.kind \notin kinds
  PROVE  LastOf(Append(l, r), kinds) = LastOf(l, kinds)
<1>1. {i \in 1..Len(Append(l, r)) : Append(l, r)[i].kind \in kinds}
        = {i \in 1..Len(l) : l[i].kind \in kinds}
  OBVIOUS
<1> QED BY <1>1 DEF LastOf, SelectLastInSeq

LEMMA StateAtAppend ==
  ASSUME NEW l \in Seq(Records), NEW r \in Records
  PROVE  StateAt(Append(l, r)) = IF CarriesState(r) THEN Len(l) + 1 ELSE StateAt(l)
<1> DEFINE m == Append(l, r)
           I == {i \in 1..Len(m) : CarriesState(m[i])}
<1>1. CASE CarriesState(r)
  <2>1. Len(l) + 1 \in I /\ \A i \in I : i \in Int /\ Len(l) + 1 >= i
    BY <1>1
  <2>2. Max(I) = Len(l) + 1
    <3>1. \A x \in I : (\A y \in I : x >= y) => x = Len(l) + 1
      BY <2>1
    <3> QED BY <2>1, <3>1 DEF Max
  <2>3. StateAt(m) = IF I # {} THEN Max(I) ELSE 0
    BY DEF StateAt, SelectLastInSeq
  <2> QED BY <1>1, <2>1, <2>2, <2>3
<1>2. CASE ~CarriesState(r)
  <2>1. I = {i \in 1..Len(l) : CarriesState(l[i])}
    BY <1>2
  <2> QED BY <1>2, <2>1 DEF StateAt, SelectLastInSeq
<1> QED BY <1>1, <1>2

\* A set of naturals has a least member.
LEMMA Least ==
  ASSUME NEW S, S \subseteq Nat, S # {}
  PROVE  \E m \in S : \A n \in S : m <= n
<1>1. PICK m \in S : \A n \in S : ~(<<n, m>> \in OpToRel(<, Nat))
  BY NatLessThanWellFounded, WFMin
<1>2. ASSUME NEW n \in S PROVE m <= n
  <2>1. <<n, m>> \notin OpToRel(<, Nat)
    BY <1>1
  <2> QED BY <2>1 DEF OpToRel
<1> QED BY <1>2

\* A non-empty set of positions has a last one.
LEMMA Greatest ==
  ASSUME NEW n \in Nat, NEW I, I \subseteq 1..n, I # {}
  PROVE  Max(I) \in I /\ \A j \in I : Max(I) >= j
<1> DEFINE After == {k \in Nat : n - k \in I}
<1>1. PICK i \in I : TRUE
  OBVIOUS
<1>2. n - i \in After
  BY <1>1
<1>3. PICK k \in After : \A d \in After : k <= d
  BY <1>2, Least
<1>4. ASSUME NEW j \in I PROVE n - k >= j
  <2>1. PICK d \in Nat : d = n - j
    OBVIOUS
  <2>2. n - d = j /\ d \in After
    BY <2>1
  <2>3. k <= d /\ k \in Nat
    BY <1>3, <2>2
  <2> QED BY <2>2, <2>3
<1>5. n - k \in I
  BY <1>3
<1> QED BY <1>4, <1>5 DEF Max

\* LastOf finds the last record of the kinds, if there is one.
LEMMA LastOfIsLast ==
  ASSUME NEW l \in Seq(Records), NEW kinds
  PROVE  /\ LastOf(l, kinds) \in 0..Len(l)
         /\ LastOf(l, kinds) > 0 => l[LastOf(l, kinds)].kind \in kinds
         /\ \A i \in 1..Len(l) : i > LastOf(l, kinds) => l[i].kind \notin kinds
<1> DEFINE I == {i \in 1..Len(l) : l[i].kind \in kinds}
<1>1. LastOf(l, kinds) = IF I # {} THEN Max(I) ELSE 0
  BY DEF LastOf, SelectLastInSeq
<1>2. Len(l) \in Nat /\ I \subseteq 1..Len(l)
  OBVIOUS
<1>3. CASE I = {}
  BY <1>1, <1>2, <1>3
<1>4. CASE I # {}
  <2>1. Max(I) \in I /\ \A j \in I : Max(I) >= j
    <3> HIDE DEF I
    <3> QED BY <1>2, <1>4, Greatest
  <2>2. LastOf(l, kinds) = Max(I)
    BY <1>1, <1>4
  <2> DEFINE top == Max(I)
  <2>3. top \in 1..Len(l) /\ l[top].kind \in kinds
    BY <2>1
  <2>4. \A j \in 1..Len(l) : j > top => l[j].kind \notin kinds
    BY <2>1, <2>3
  <2> HIDE DEF top
  <2> QED BY <2>2, <2>3, <2>4 DEF top
<1> QED BY <1>3, <1>4

\* The length, the positions and the end of a log with a record appended.
LEMMA Appended ==
  ASSUME NEW l \in Seq(Records), NEW r \in Records
  PROVE  LET m == Append(l, r) IN
           /\ m \in Seq(Records) /\ m # <<>> /\ Len(l) \in Nat /\ Len(m) = Len(l) + 1
           /\ m[Len(l) + 1] = r /\ m[Len(m)] = r
           /\ \A i \in 1..Len(l) : m[i] = l[i]
           /\ DOMAIN m = 1..(Len(l) + 1) /\ DOMAIN l = 1..Len(l)
           /\ EndedWell(m) <=> (r.kind = "run_end" /\ ~r.failed)
<1> DEFINE m == Append(l, r)
<1>1. /\ m \in Seq(Records) /\ m # <<>> /\ Len(l) \in Nat /\ Len(m) = Len(l) + 1
      /\ m[Len(l) + 1] = r /\ DOMAIN m = 1..(Len(l) + 1) /\ DOMAIN l = 1..Len(l)
      /\ \A i \in 1..Len(l) : m[i] = l[i]
  OBVIOUS
<1> HIDE DEF m
<1>2. m[Len(m)] = r
  BY <1>1
<1>3. EndedWell(m) <=> (r.kind = "run_end" /\ ~r.failed)
  BY <1>1, <1>2 DEF EndedWell, Ended
<1> QED BY <1>1, <1>2, <1>3 DEF m

\* The first record of a run asks nothing and sets the state.
LEMMA AppendedStart ==
  ASSUME NEW r \in Records, r.kind = "run_start"
  PROVE  /\ ~Pending(Append(<<>>, r)) /\ ~Answered(Append(<<>>, r))
         /\ ResumeReply(Append(<<>>, r)) = NoAnswer /\ StateOf(Append(<<>>, r)) = r.state
<1> DEFINE m == Append(<<>>, r)
<1>1. <<>> \in Seq(Records) /\ Len(<<>>) = 0 /\ m[1] = r
  OBVIOUS
<1>2. Settled(m) = 0 /\ Asked(m) = 0
  BY <1>1, LastOfMiss, LastOfNone DEF Settled, Asked
<1>3. StateAt(m) = 1
  <2>1. StateAt(m) = Len(<<>>) + 1
    BY <1>1, StateAtAppend DEF CarriesState
  <2> QED BY <1>1, <2>1
<1> HIDE DEF m
<1>4. ~Pending(m)
  BY <1>2 DEF Pending
<1>5. ~Answered(m)
  BY <1>4 DEF Answered, AnswerAt
<1> QED BY <1>1, <1>3, <1>4, <1>5 DEF ResumeReply, StateOf, m

(***************************************************************************)
(* The path, a recursive function, as the log grows.                       *)
(***************************************************************************)
\* The path after the first i records, as replayLog's loop builds it.
Extends(l, p, i) ==
  IF i = 0 THEN <<>>
  ELSE IF l[i].kind \in {"node_commit", "interrupt"} THEN Append(p[i - 1], l[i].node)
  ELSE p[i - 1]

\* p satisfies the recursive definition of the path up to n.
IsPath(l, p, n) == p = [i \in 0..n |-> Extends(l, p, i)]

\* Some function satisfies it: there is no least n for which none does.
LEMMA PathExists ==
  ASSUME NEW l
  PROVE  \A n \in Nat : \E p : IsPath(l, p, n)
<1> DEFINE S == {n \in Nat : ~\E p : IsPath(l, p, n)}
<1>1. SUFFICES ASSUME S # {} PROVE FALSE
  OBVIOUS
<1>2. PICK n \in S : \A k \in S : n <= k
  BY <1>1, Least
<1>3. n # 0
  <2>1. IsPath(l, [i \in 0..0 |-> <<>>], 0)
    BY DEF IsPath, Extends
  <2> QED BY <1>2, <2>1
<1>4. n - 1 \in Nat /\ n - 1 \notin S
  BY <1>2, <1>3
<1>5. PICK p : IsPath(l, p, n - 1)
  BY <1>4
<1> DEFINE q == [i \in 0..n |-> IF i = n THEN Extends(l, p, n) ELSE p[i]]
<1>6. \A i \in 0..n : q[i] = Extends(l, q, i)
  <2> SUFFICES ASSUME NEW i \in 0..n PROVE q[i] = Extends(l, q, i)
    OBVIOUS
  <2>1. i # 0 => q[i - 1] = p[i - 1]
    BY <1>4
  <2>2. i # n => p[i] = Extends(l, p, i)
    BY <1>4, <1>5 DEF IsPath
  <2>3. Extends(l, q, i) = Extends(l, p, i)
    BY <2>1 DEF Extends
  <2> QED BY <2>2, <2>3
<1>7. q = [i \in 0..n |-> q[i]]
  OBVIOUS
<1>8. IsPath(l, q, n)
  BY <1>6, <1>7 DEF IsPath
<1> QED BY <1>2, <1>8

\* Logs with the same first n records have the same path up to n.
LEMMA PathUnique ==
  ASSUME NEW l, NEW m, NEW n \in Nat, NEW p, NEW q, NEW k \in Nat, n <= k,
         IsPath(l, p, n), IsPath(m, q, k), \A i \in 1..n : l[i] = m[i]
  PROVE  \A i \in 0..n : p[i] = q[i]
<1> DEFINE S == {i \in 0..n : p[i] # q[i]}
<1>1. SUFFICES ASSUME S # {} PROVE FALSE
  OBVIOUS
<1>2. PICK i \in S : \A j \in S : i <= j
  <2>1. S \subseteq Nat
    OBVIOUS
  <2> HIDE DEF S
  <2> QED BY <1>1, <2>1, Least
<1>3. p[i] = Extends(l, p, i) /\ q[i] = Extends(m, q, i)
  <2>1. i \in 0..n /\ i \in 0..k
    BY <1>2
  <2>2. p[i] = Extends(l, p, i)
    BY <2>1 DEF IsPath
  <2>3. q[i] = Extends(m, q, i)
    BY <2>1 DEF IsPath
  <2> QED BY <2>2, <2>3
<1>4. i # 0 => p[i - 1] = q[i - 1]
  BY <1>2
<1> QED BY <1>2, <1>3, <1>4 DEF Extends

\* PathOf is such a function's last value.
LEMMA PathIs ==
  ASSUME NEW l \in Seq(Records)
  PROVE  \E p : IsPath(l, p, Len(l)) /\ PathOf(l) = p[Len(l)]
<1> DEFINE p == CHOOSE p : p = [i \in 0..Len(l) |->
                IF i = 0 THEN <<>>
                ELSE IF l[i].kind \in {"node_commit", "interrupt"}
                     THEN Append(p[i - 1], l[i].node)
                ELSE p[i - 1]]
<1>1. PathOf(l) = p[Len(l)]
  BY DEF PathOf
<1>2. \E f : IsPath(l, f, Len(l))
  <2>1. Len(l) \in Nat
    OBVIOUS
  <2> QED BY <2>1, PathExists
<1>3. IsPath(l, p, Len(l))
  BY <1>2 DEF IsPath, Extends
<1> QED BY <1>1, <1>3

\* The empty log has the empty path.
LEMMA PathOfNone == PathOf(<<>>) = <<>>
<1>1. <<>> \in Seq(Records) /\ Len(<<>>) = 0
  OBVIOUS
<1>2. PICK p : IsPath(<<>>, p, 0) /\ PathOf(<<>>) = p[0]
  BY <1>1, PathIs
<1> QED BY <1>2 DEF IsPath, Extends

\* A commit and a question add their node to the path, no other record does.
LEMMA PathOfAppend ==
  ASSUME NEW l \in Seq(Records), NEW r \in Records
  PROVE  PathOf(Append(l, r)) = IF r.kind \in {"node_commit", "interrupt"}
                                THEN Append(PathOf(l), r.node) ELSE PathOf(l)
<1> DEFINE m == Append(l, r)
<1>1. /\ m \in Seq(Records) /\ Len(l) \in Nat /\ Len(m) = Len(l) + 1
      /\ m[Len(l) + 1] = r /\ \A i \in 1..Len(l) : l[i] = m[i]
  OBVIOUS
<1> HIDE DEF m
<1>2. PICK p : IsPath(l, p, Len(l)) /\ PathOf(l) = p[Len(l)]
  BY PathIs
<1>3. PICK q : IsPath(m, q, Len(m)) /\ PathOf(m) = q[Len(m)]
  BY <1>1, PathIs
<1>4. p[Len(l)] = q[Len(l)]
  <2>1. Len(l) <= Len(m) /\ Len(m) \in Nat /\ Len(l) \in 0..Len(l)
    BY <1>1
  <2> QED BY <1>1, <1>2, <1>3, <2>1, PathUnique
<1>5. q[Len(m)] = Extends(m, q, Len(m))
  BY <1>1, <1>3 DEF IsPath
<1> QED BY <1>1, <1>2, <1>3, <1>4, <1>5 DEF Extends, m

\* The session, as the log grows.
LEMMA SessionAtAppend ==
  ASSUME NEW l \in Seq(Records), NEW r \in Records
  PROVE  SessionAt(Append(l, r)) =
           IF r.kind \in {"node_commit", "fork", "interrupt"} THEN 0
           ELSE IF r.kind = "session" THEN Len(l) + 1 ELSE SessionAt(l)
<1> DEFINE m == Append(l, r)
           Closers == {"node_commit", "fork", "interrupt"}
<1>1. /\ Len(l) \in Nat /\ LastOf(l, {"session"}) \in 0..Len(l)
      /\ LastOf(l, Closers) \in 0..Len(l)
  BY LastOfIsLast
<1>2. /\ LastOf(m, {"session"}) = IF r.kind = "session" THEN Len(l) + 1 ELSE LastOf(l, {"session"})
      /\ LastOf(m, Closers) = IF r.kind \in Closers THEN Len(l) + 1 ELSE LastOf(l, Closers)
  BY LastOfHit, LastOfMiss
<1> HIDE DEF m
<1>3. CASE r.kind \in Closers
  <2>1. ~(LastOf(m, {"session"}) > LastOf(m, Closers))
    BY <1>1, <1>2, <1>3
  <2> QED BY <1>3, <2>1 DEF SessionAt, m
<1>4. CASE r.kind = "session"
  <2>1. LastOf(m, {"session"}) = Len(l) + 1 /\ LastOf(m, {"session"}) > LastOf(m, Closers)
    BY <1>1, <1>2, <1>4
  <2> QED BY <1>4, <2>1 DEF SessionAt, m
<1>5. CASE r.kind \notin Closers \cup {"session"}
  BY <1>2, <1>5 DEF SessionAt, m
<1> QED BY <1>3, <1>4, <1>5

\* Where no session was logged since, none is handed on.
LEMMA NoSessionKept ==
  ASSUME NEW l, SessionAt(l) = 0
  PROVE  ResumeSession(l) = NoSession
  BY DEF ResumeSession

\* The first record of a run leaves no session to hand on.
LEMMA FirstHasNoSession ==
  ASSUME NEW r \in Records, r.kind = "run_start"
  PROVE  SessionAt(Append(<<>>, r)) = 0
<1>1. <<>> \in Seq(Records)
  OBVIOUS
<1>2. SessionAt(<<>>) = 0
  BY LastOfNone DEF SessionAt
<1> QED BY <1>1, <1>2, SessionAtAppend

(***************************************************************************)
(* replayLog's loop, one record at a time, and the last records            *)
(***************************************************************************)
\* What the loop has found after the first i records.
LoopStep(l, p, i) == IF i = 0 THEN Blank ELSE ReplayStep(p[i - 1], l[i], i)

IsLoop(l, p, n) == p = [i \in 0..n |-> LoopStep(l, p, i)]

\* As for the path: the recursive definition is satisfied, for each n,
LEMMA LoopExists ==
  ASSUME NEW l
  PROVE  \A n \in Nat : \E p : IsLoop(l, p, n)
<1> DEFINE S == {n \in Nat : ~\E p : IsLoop(l, p, n)}
<1>1. SUFFICES ASSUME S # {} PROVE FALSE
  OBVIOUS
<1>2. PICK n \in S : \A k \in S : n <= k
  BY <1>1, Least
<1>3. n # 0
  <2>1. IsLoop(l, [i \in 0..0 |-> Blank], 0)
    BY DEF IsLoop, LoopStep
  <2> QED BY <1>2, <2>1
<1>4. n - 1 \in Nat /\ n - 1 \notin S
  BY <1>2, <1>3
<1>5. PICK p : IsLoop(l, p, n - 1)
  BY <1>4
<1> DEFINE q == [i \in 0..n |-> IF i = n THEN LoopStep(l, p, n) ELSE p[i]]
<1>6. \A i \in 0..n : q[i] = LoopStep(l, q, i)
  <2> SUFFICES ASSUME NEW i \in 0..n PROVE q[i] = LoopStep(l, q, i)
    OBVIOUS
  <2>1. i # 0 => q[i - 1] = p[i - 1]
    BY <1>4
  <2>2. i # n => p[i] = LoopStep(l, p, i)
    BY <1>4, <1>5 DEF IsLoop
  <2>3. LoopStep(l, q, i) = LoopStep(l, p, i)
    BY <2>1 DEF LoopStep
  <2> QED BY <2>2, <2>3
<1>7. q = [i \in 0..n |-> q[i]]
  OBVIOUS
<1>8. IsLoop(l, q, n)
  BY <1>6, <1>7 DEF IsLoop
<1> QED BY <1>2, <1>8

\* by one function only, which depends on the first n records,
LEMMA LoopUnique ==
  ASSUME NEW l, NEW m, NEW n \in Nat, NEW p, NEW q, NEW k \in Nat, n <= k,
         IsLoop(l, p, n), IsLoop(m, q, k), \A i \in 1..n : l[i] = m[i]
  PROVE  \A i \in 0..n : p[i] = q[i]
<1> DEFINE S == {i \in 0..n : p[i] # q[i]}
<1>1. SUFFICES ASSUME S # {} PROVE FALSE
  OBVIOUS
<1>2. PICK i \in S : \A j \in S : i <= j
  <2>1. S \subseteq Nat
    OBVIOUS
  <2> HIDE DEF S
  <2> QED BY <1>1, <2>1, Least
<1>3. p[i] = LoopStep(l, p, i) /\ q[i] = LoopStep(m, q, i)
  <2>1. i \in 0..n /\ i \in 0..k
    BY <1>2
  <2>2. p[i] = LoopStep(l, p, i)
    BY <2>1 DEF IsLoop
  <2>3. q[i] = LoopStep(m, q, i)
    BY <2>1 DEF IsLoop
  <2> QED BY <2>2, <2>3
<1>4. i # 0 => p[i - 1] = q[i - 1]
  BY <1>2
<1> QED BY <1>2, <1>3, <1>4 DEF LoopStep

\* and Replayed is its last value.
LEMMA LoopIs ==
  ASSUME NEW l \in Seq(Records)
  PROVE  \E p : IsLoop(l, p, Len(l)) /\ Replayed(l) = p[Len(l)]
<1> DEFINE p == CHOOSE p : p = [i \in 0..Len(l) |->
                  IF i = 0 THEN Blank ELSE ReplayStep(p[i - 1], l[i], i)]
<1>1. Replayed(l) = p[Len(l)]
  BY DEF Replayed
<1>2. \E f : IsLoop(l, f, Len(l))
  <2>1. Len(l) \in Nat
    OBVIOUS
  <2> QED BY <2>1, LoopExists
<1>3. IsLoop(l, p, Len(l))
  BY <1>2 DEF IsLoop, LoopStep
<1> QED BY <1>1, <1>3

\* Replay starts from the blank record,
LEMMA ReplayedNone == Replayed(<<>>) = Blank
<1>1. <<>> \in Seq(Records) /\ Len(<<>>) = 0
  OBVIOUS
<1>2. PICK p : IsLoop(<<>>, p, 0) /\ Replayed(<<>>) = p[0]
  BY <1>1, LoopIs
<1> QED BY <1>2 DEF IsLoop, LoopStep

\* and reads one more record when one is appended.
LEMMA ReplayedAppend ==
  ASSUME NEW l \in Seq(Records), NEW r \in Records
  PROVE  Replayed(Append(l, r)) = ReplayStep(Replayed(l), r, Len(l) + 1)
<1> DEFINE m == Append(l, r)
<1>1. /\ m \in Seq(Records) /\ Len(l) \in Nat /\ Len(m) = Len(l) + 1
      /\ m[Len(l) + 1] = r /\ \A i \in 1..Len(l) : l[i] = m[i]
  OBVIOUS
<1> HIDE DEF m
<1>2. PICK p : IsLoop(l, p, Len(l)) /\ Replayed(l) = p[Len(l)]
  BY LoopIs
<1>3. PICK q : IsLoop(m, q, Len(m)) /\ Replayed(m) = q[Len(m)]
  BY <1>1, LoopIs
<1>4. p[Len(l)] = q[Len(l)]
  <2>1. Len(l) <= Len(m) /\ Len(m) \in Nat /\ Len(l) \in 0..Len(l)
    BY <1>1
  <2> QED BY <1>1, <1>2, <1>3, <2>1, LoopUnique
<1>5. q[Len(m)] = LoopStep(m, q, Len(m))
  BY <1>1, <1>3 DEF IsLoop
<1>6. Len(m) # 0 /\ Len(m) - 1 = Len(l)
  BY <1>1
<1> QED BY <1>1, <1>2, <1>3, <1>4, <1>5, <1>6 DEF LoopStep, m

\* The fields replay accumulates.
Fields == {"next", "step", "state", "path", "ended", "failed", "asked", "answered", "sess"}

\* One record, field by field: each field is set or cleared by some kinds only.
LEMMA LoopFields ==
  ASSUME NEW p, DOMAIN p = Fields, NEW r, NEW i
  PROVE  LET q == ReplayStep(p, r, i) IN
         /\ DOMAIN q = Fields
         /\ q.next = IF r.kind \in {"run_start", "node_commit", "fork"} THEN r.next ELSE p.next
         /\ q.step = IF r.kind \in {"run_start", "node_commit", "fork"} THEN r.step ELSE p.step
         /\ q.path = IF r.kind \in {"node_commit", "interrupt"}
                     THEN Append(p.path, r.node) ELSE p.path
         /\ q.asked = IF r.kind \in {"node_commit", "fork"} THEN 0
                      ELSE IF r.kind = "interrupt" THEN i ELSE p.asked
         /\ q.answered = IF r.kind \in {"node_commit", "fork", "interrupt"} THEN 0
                         ELSE IF r.kind = "resume" /\ p.asked > 0 THEN i ELSE p.answered
         /\ q.sess = IF r.kind \in {"node_commit", "fork", "interrupt"} THEN 0
                     ELSE IF r.kind = "session" THEN i ELSE p.sess
         /\ q.failed = IF r.kind = "run_end" THEN r.failed ELSE p.failed
         /\ q.ended = (r.kind = "run_end")
         /\ q.state = IF r.kind \in {"run_start", "node_commit", "fork", "interrupt"} THEN r.state
                      ELSE IF r.kind = "run_end" THEN (IF r.failed THEN p.state ELSE r.state)
                      ELSE p.state
<1> DEFINE q == ReplayStep(p, r, i)
           o == [p EXCEPT !.ended = (r.kind = "run_end")]
<1>1. /\ DOMAIN o = Fields /\ o.ended = (r.kind = "run_end")
      /\ \A x \in Fields \ {"ended"} : o[x] = p[x]
  BY DEF Fields
<1>2. CASE r.kind = "run_start"
  <2>1. q = [o EXCEPT !.state = r.state, !.next = r.next, !.step = r.step]
    BY <1>2 DEF ReplayStep
  <2> HIDE DEF q, o
  <2>2. /\ DOMAIN q = Fields /\ q.state = r.state /\ q.next = r.next /\ q.step = r.step
        /\ \A x \in Fields \ {"state", "next", "step"} : q[x] = o[x]
    BY <1>1, <2>1 DEF Fields
  <2> QED BY <1>1, <1>2, <2>2 DEF Fields, q
<1>3. CASE r.kind = "session"
  <2>1. q = [o EXCEPT !.sess = i]
    BY <1>3 DEF ReplayStep
  <2> HIDE DEF q, o
  <2>2. /\ DOMAIN q = Fields /\ q.sess = i
        /\ \A x \in Fields \ {"sess"} : q[x] = o[x]
    BY <1>1, <2>1 DEF Fields
  <2> QED BY <1>1, <1>3, <2>2 DEF Fields, q
<1>4. CASE r.kind = "node_commit"
  <2>1. q = [o EXCEPT !.state = r.state, !.next = r.next, !.step = r.step, !.path = Append(p.path, r.node), !.asked = 0, !.answered = 0, !.sess = 0]
    BY <1>4 DEF ReplayStep
  <2> HIDE DEF q, o
  <2>2. /\ DOMAIN q = Fields /\ q.state = r.state /\ q.next = r.next /\ q.step = r.step /\ q.path = Append(p.path, r.node) /\ q.asked = 0 /\ q.answered = 0 /\ q.sess = 0
        /\ \A x \in Fields \ {"state", "next", "step", "path", "asked", "answered", "sess"} : q[x] = o[x]
    BY <1>1, <2>1 DEF Fields
  <2> QED BY <1>1, <1>4, <2>2 DEF Fields, q
<1>5. CASE r.kind = "fork"
  <2>1. q = [o EXCEPT !.state = r.state, !.next = r.next, !.step = r.step, !.asked = 0, !.answered = 0, !.sess = 0]
    BY <1>5 DEF ReplayStep
  <2> HIDE DEF q, o
  <2>2. /\ DOMAIN q = Fields /\ q.state = r.state /\ q.next = r.next /\ q.step = r.step /\ q.asked = 0 /\ q.answered = 0 /\ q.sess = 0
        /\ \A x \in Fields \ {"state", "next", "step", "asked", "answered", "sess"} : q[x] = o[x]
    BY <1>1, <2>1 DEF Fields
  <2> QED BY <1>1, <1>5, <2>2 DEF Fields, q
<1>6. CASE r.kind = "interrupt"
  <2>1. q = [o EXCEPT !.asked = i, !.answered = 0, !.sess = 0, !.state = r.state, !.path = Append(p.path, r.node)]
    BY <1>6 DEF ReplayStep
  <2> HIDE DEF q, o
  <2>2. /\ DOMAIN q = Fields /\ q.asked = i /\ q.answered = 0 /\ q.sess = 0 /\ q.state = r.state /\ q.path = Append(p.path, r.node)
        /\ \A x \in Fields \ {"asked", "answered", "sess", "state", "path"} : q[x] = o[x]
    BY <1>1, <2>1 DEF Fields
  <2> QED BY <1>1, <1>6, <2>2 DEF Fields, q
<1>7. CASE r.kind = "resume"
  <2>1. q = [o EXCEPT !.answered = IF p.asked > 0 THEN i ELSE p.answered]
    BY <1>7 DEF ReplayStep
  <2> HIDE DEF q, o
  <2>2. /\ DOMAIN q = Fields /\ q.answered = IF p.asked > 0 THEN i ELSE p.answered
        /\ \A x \in Fields \ {"answered"} : q[x] = o[x]
    BY <1>1, <2>1 DEF Fields
  <2> QED BY <1>1, <1>7, <2>2 DEF Fields, q
<1>8. CASE r.kind = "run_end"
  <2>1. q = [o EXCEPT !.failed = r.failed, !.state = IF r.failed THEN p.state ELSE r.state]
    BY <1>8 DEF ReplayStep
  <2> HIDE DEF q, o
  <2>2. /\ DOMAIN q = Fields /\ q.failed = r.failed /\ q.state = IF r.failed THEN p.state ELSE r.state
        /\ \A x \in Fields \ {"failed", "state"} : q[x] = o[x]
    BY <1>1, <2>1 DEF Fields
  <2> QED BY <1>1, <1>8, <2>2 DEF Fields, q
<1>9. CASE r.kind \notin {"run_start", "session", "node_commit", "fork", "interrupt", "resume",
                         "run_end"}
  <2>1. q = o
    BY <1>9 DEF ReplayStep
  <2> HIDE DEF q, o
  <2> QED BY <1>1, <1>9, <2>1 DEF Fields, q
<1> QED BY <1>2, <1>3, <1>4, <1>5, <1>6, <1>7, <1>8, <1>9

\* A log that begins as every log does.
Begun(l) == l \in Seq(Records) /\ l # <<>> /\ l[1].kind = "run_start"

\* Such a log has a record to go on from and a state.
LEMMA BegunHasBase ==
  ASSUME NEW l, Begun(l)
  PROVE  Base(l) \in 1..Len(l) /\ StateAt(l) \in 1..Len(l)
<1>1. l \in Seq(Records) /\ Len(l) \in Nat /\ 1 \in 1..Len(l) /\ l[1].kind = "run_start"
  BY DEF Begun
<1>2. Base(l) \in 1..Len(l)
  <2>1. /\ Base(l) \in 0..Len(l)
        /\ 1 > Base(l) => l[1].kind \notin {"run_start", "node_commit", "fork"}
    BY <1>1, LastOfIsLast DEF Base
  <2> QED BY <1>1, <2>1
<1>3. StateAt(l) \in 1..Len(l)
  <2> DEFINE I == {i \in 1..Len(l) : CarriesState(l[i])}
  <2>1. StateAt(l) = IF I # {} THEN Max(I) ELSE 0
    BY DEF StateAt, SelectLastInSeq
  <2>2. 1 \in I /\ I \subseteq 1..Len(l)
    BY <1>1 DEF CarriesState
  <2>3. Max(I) \in I
    <3> HIDE DEF I
    <3> QED BY <1>1, <2>2, Greatest
  <2> QED BY <2>1, <2>2, <2>3
<1> QED BY <1>2, <1>3

\* The place, the state, the question and the answer, as the log grows.
LEMMA PlaceAppend ==
  ASSUME NEW l, Begun(l), NEW r \in Records
  PROVE  LET m == Append(l, r) IN
         /\ r.kind \in {"run_start", "node_commit", "fork"} =>
              NextOf(m) = r.next /\ StepOf(m) = r.step
         /\ r.kind \notin {"run_start", "node_commit", "fork"} =>
              NextOf(m) = NextOf(l) /\ StepOf(m) = StepOf(l)
         /\ StateOf(m) = IF CarriesState(r) THEN r.state ELSE StateOf(l)
<1> DEFINE m == Append(l, r)
<1>1. /\ l \in Seq(Records) /\ Len(l) \in Nat /\ m[Len(l) + 1] = r
      /\ \A i \in 1..Len(l) : m[i] = l[i]
  BY Appended DEF Begun
<1>2. Base(l) \in 1..Len(l) /\ StateAt(l) \in 1..Len(l)
  BY BegunHasBase
<1>3. StateAt(m) = IF CarriesState(r) THEN Len(l) + 1 ELSE StateAt(l)
  BY <1>1, StateAtAppend
<1>4. /\ r.kind \in {"run_start", "node_commit", "fork"} => Base(m) = Len(l) + 1
      /\ r.kind \notin {"run_start", "node_commit", "fork"} => Base(m) = Base(l)
  BY <1>1, LastOfHit, LastOfMiss DEF Base
<1> HIDE DEF m
<1>5. /\ r.kind \in {"run_start", "node_commit", "fork"} =>
           NextOf(m) = r.next /\ StepOf(m) = r.step
      /\ r.kind \notin {"run_start", "node_commit", "fork"} =>
           NextOf(m) = NextOf(l) /\ StepOf(m) = StepOf(l)
  BY <1>1, <1>2, <1>4 DEF NextOf, StepOf
<1>6. StateOf(m) = IF CarriesState(r) THEN r.state ELSE StateOf(l)
  BY <1>1, <1>2, <1>3 DEF StateOf
<1> QED BY <1>5, <1>6 DEF m

\* The open question, as the loop keeps it: 0 for none.
OpenAt(l) == IF Pending(l) THEN Asked(l) ELSE 0

\* What an append does to the open question and to its answer.
LEMMA OpenAppend ==
  ASSUME NEW l \in Seq(Records), NEW r \in Records
  PROVE  LET m == Append(l, r) IN
         /\ OpenAt(m) = IF r.kind \in {"node_commit", "fork"} THEN 0
                        ELSE IF r.kind = "interrupt" THEN Len(l) + 1 ELSE OpenAt(l)
         /\ AnswerAt(m) = IF r.kind \in {"node_commit", "fork", "interrupt"} THEN 0
                          ELSE IF r.kind = "resume" /\ OpenAt(l) > 0 THEN Len(l) + 1
                          ELSE AnswerAt(l)
<1> DEFINE m == Append(l, r)
<1>1. Len(l) \in Nat /\ Asked(l) \in 0..Len(l) /\ Settled(l) \in 0..Len(l)
      /\ LastOf(l, {"resume"}) \in 0..Len(l)
  BY LastOfIsLast DEF Asked, Settled
<1>2. /\ Settled(m) = IF r.kind \in {"node_commit", "fork"} THEN Len(l) + 1 ELSE Settled(l)
      /\ Asked(m) = IF r.kind = "interrupt" THEN Len(l) + 1 ELSE Asked(l)
      /\ LastOf(m, {"resume"}) = IF r.kind = "resume" THEN Len(l) + 1 ELSE LastOf(l, {"resume"})
  BY LastOfHit, LastOfMiss DEF Settled, Asked
<1> HIDE DEF m
<1>3. CASE r.kind \in {"node_commit", "fork"}
  <2>1. ~Pending(m)
    BY <1>1, <1>2, <1>3 DEF Pending
  <2> QED BY <1>3, <2>1 DEF OpenAt, AnswerAt, m
<1>4. CASE r.kind = "interrupt"
  <2>1. Pending(m) /\ Asked(m) = Len(l) + 1 /\ ~(LastOf(m, {"resume"}) > Asked(m))
    BY <1>1, <1>2, <1>4 DEF Pending
  <2> QED BY <1>4, <2>1 DEF OpenAt, AnswerAt, m
<1>5. CASE r.kind = "resume"
  <2>1. (Pending(m) <=> Pending(l)) /\ Asked(m) = Asked(l)
    BY <1>2, <1>5 DEF Pending
  <2>2. LastOf(m, {"resume"}) = Len(l) + 1 /\ Len(l) + 1 > Asked(m)
    BY <1>1, <1>2, <1>5
  <2>3. Pending(l) <=> OpenAt(l) > 0
    BY <1>1 DEF OpenAt, Pending
  <2>4. OpenAt(m) = OpenAt(l)
    BY <2>1 DEF OpenAt
  <2>5. AnswerAt(m) = IF OpenAt(l) > 0 THEN Len(l) + 1 ELSE AnswerAt(l)
    BY <2>1, <2>2, <2>3 DEF AnswerAt
  <2> QED BY <1>5, <2>4, <2>5 DEF m
<1>6. CASE r.kind \notin {"node_commit", "fork", "interrupt", "resume"}
  <2>1. (Pending(m) <=> Pending(l)) /\ Asked(m) = Asked(l)
        /\ LastOf(m, {"resume"}) = LastOf(l, {"resume"})
    BY <1>2, <1>6 DEF Pending
  <2>2. OpenAt(m) = OpenAt(l) /\ AnswerAt(m) = AnswerAt(l)
    BY <2>1 DEF OpenAt, AnswerAt
  <2> QED BY <1>6, <2>2 DEF m
<1> QED BY <1>3, <1>4, <1>5, <1>6

\* What the loop has found when it has read a log is what its last records say.
LoopAgrees(l) ==
  LET p == Replayed(l)
  IN  /\ DOMAIN p = Fields
      /\ p.next = NextOf(l) /\ p.step = StepOf(l) /\ p.state = StateOf(l)
      /\ p.path = PathOf(l)
      /\ p.asked = OpenAt(l) /\ p.answered = AnswerAt(l) /\ p.sess = SessionAt(l)
      /\ p.ended = Ended(l)
      /\ Ended(l) => p.failed = ~EndedWell(l)

\* Only a run_end ends a log, well if it carries no error.
LEMMA EndedAppend ==
  ASSUME NEW l \in Seq(Records), NEW r \in Records
  PROVE  /\ Ended(Append(l, r)) = (r.kind = "run_end")
         /\ r.kind = "run_end" => EndedWell(Append(l, r)) = ~r.failed
<1>1. LET m == Append(l, r) IN m # <<>> /\ m[Len(m)] = r
  BY Appended
<1>2. Ended(Append(l, r)) = (r.kind = "run_end")
  BY <1>1 DEF Ended
<1>3. r.failed \in BOOLEAN
  BY DEF Records
<1>4. ASSUME r.kind = "run_end" PROVE EndedWell(Append(l, r)) = ~r.failed
  BY <1>1, <1>2, <1>3, <1>4 DEF EndedWell
<1> QED BY <1>2, <1>4

\* The loop agrees on a log of a run_start alone,
LEMMA StartAgrees ==
  ASSUME NEW r \in Records, r.kind = "run_start"
  PROVE  LoopAgrees(Append(<<>>, r))
<1> DEFINE m == Append(<<>>, r)
           q == ReplayStep(Blank, r, Len(<<>>) + 1)
<1>1. <<>> \in Seq(Records) /\ Len(<<>>) = 0 /\ Len(<<>>) + 1 = 1 /\ m[1] = r
  OBVIOUS
<1>2. Replayed(m) = q
  BY <1>1, ReplayedAppend, ReplayedNone
<1>3. DOMAIN Blank = Fields
  BY DEF Blank, Fields
<1>4. /\ DOMAIN q = Fields /\ q.next = r.next /\ q.step = r.step /\ q.state = r.state
      /\ q.path = Blank.path /\ q.asked = Blank.asked /\ q.answered = Blank.answered
      /\ q.sess = Blank.sess /\ q.ended = FALSE
  <2> HIDE DEF q
  <2>1. DOMAIN q = Fields /\ q.next = r.next /\ q.step = r.step /\ q.state = r.state
    BY <1>3, LoopFields DEF q
  <2>2. q.path = Blank.path /\ q.asked = Blank.asked
    BY <1>3, LoopFields DEF q
  <2>3. q.answered = Blank.answered /\ q.sess = Blank.sess
    BY <1>3, LoopFields DEF q
  <2>4. q.ended = (r.kind = "run_end")
    BY <1>3, LoopFields DEF q
  <2> QED BY <2>1, <2>2, <2>3, <2>4
<1>5. NextOf(m) = r.next /\ StepOf(m) = r.step
  <2>1. LastOf(m, {"run_start", "node_commit", "fork"}) = Len(<<>>) + 1
    BY <1>1, LastOfHit
  <2> QED BY <1>1, <2>1 DEF NextOf, StepOf, Base
<1>6. StateOf(m) = r.state /\ ~Pending(m)
  BY AppendedStart
<1>7. PathOf(m) = <<>>
  BY <1>1, PathOfAppend, PathOfNone
<1>8. AnswerAt(m) = 0 /\ OpenAt(m) = 0
  BY <1>6 DEF AnswerAt, OpenAt
<1>9. SessionAt(m) = 0
  BY FirstHasNoSession
<1>10. Ended(m) = FALSE
  BY <1>1, EndedAppend
<1> HIDE DEF m, q
<1>11. LoopAgrees(m)
  BY <1>2, <1>4, <1>5, <1>6, <1>7, <1>8, <1>9, <1>10 DEF LoopAgrees, Blank
<1> QED BY <1>11 DEF m

\* and on a log with one record more than one it agrees on.
LEMMA AppendAgrees ==
  ASSUME NEW l, Begun(l), LoopAgrees(l), NEW r \in Records
  PROVE  LoopAgrees(Append(l, r))
<1> DEFINE m == Append(l, r)
           p == Replayed(l)
           q == ReplayStep(p, r, Len(l) + 1)
<1>1. l \in Seq(Records) /\ Replayed(m) = q
  BY ReplayedAppend DEF Begun
<1>2. DOMAIN p = Fields
  BY DEF LoopAgrees
<1> HIDE DEF m, p
<1>3. DOMAIN q = Fields
  BY <1>2, LoopFields
<1>4. q.next = NextOf(m) /\ q.step = StepOf(m)
  <2>1. p.next = NextOf(l) /\ p.step = StepOf(l)
    BY DEF LoopAgrees, p
  <2>2. /\ q.next = IF r.kind \in {"run_start", "node_commit", "fork"} THEN r.next ELSE p.next
        /\ q.step = IF r.kind \in {"run_start", "node_commit", "fork"} THEN r.step ELSE p.step
    BY <1>2, LoopFields
  <2> QED BY <2>1, <2>2, PlaceAppend DEF m
<1>5. q.state = StateOf(m)
  <2>1. p.state = StateOf(l)
    BY DEF LoopAgrees, p
  <2>2. q.state = IF r.kind \in {"run_start", "node_commit", "fork", "interrupt"} THEN r.state
                  ELSE IF r.kind = "run_end" THEN (IF r.failed THEN p.state ELSE r.state)
                  ELSE p.state
    BY <1>2, LoopFields
  <2>3. StateOf(m) = IF CarriesState(r) THEN r.state ELSE StateOf(l)
    BY PlaceAppend DEF m
  <2> QED BY <2>1, <2>2, <2>3 DEF CarriesState
<1>6. q.path = PathOf(m)
  <2>1. p.path = PathOf(l)
    BY DEF LoopAgrees, p
  <2>2. q.path = IF r.kind \in {"node_commit", "interrupt"} THEN Append(p.path, r.node) ELSE p.path
    BY <1>2, LoopFields
  <2> QED BY <1>1, <2>1, <2>2, PathOfAppend DEF m
<1>7. q.asked = OpenAt(m) /\ q.answered = AnswerAt(m)
  <2>1. p.asked = OpenAt(l) /\ p.answered = AnswerAt(l)
    BY DEF LoopAgrees, p
  <2>2. /\ q.asked = IF r.kind \in {"node_commit", "fork"} THEN 0
                     ELSE IF r.kind = "interrupt" THEN Len(l) + 1 ELSE p.asked
        /\ q.answered = IF r.kind \in {"node_commit", "fork", "interrupt"} THEN 0
                        ELSE IF r.kind = "resume" /\ p.asked > 0 THEN Len(l) + 1 ELSE p.answered
    BY <1>2, LoopFields
  <2> QED BY <1>1, <2>1, <2>2, OpenAppend DEF m
<1>8. q.sess = SessionAt(m)
  <2>1. p.sess = SessionAt(l)
    BY DEF LoopAgrees, p
  <2>2. q.sess = IF r.kind \in {"node_commit", "fork", "interrupt"} THEN 0
                 ELSE IF r.kind = "session" THEN Len(l) + 1 ELSE p.sess
    BY <1>2, LoopFields
  <2> QED BY <1>1, <2>1, <2>2, SessionAtAppend DEF m
<1>9. q.ended = Ended(m)
  <2>1. q.ended = (r.kind = "run_end")
    BY <1>2, LoopFields
  <2> QED BY <1>1, <2>1, EndedAppend DEF m
<1>10. Ended(m) => q.failed = ~EndedWell(m)
  <2>1. q.failed = IF r.kind = "run_end" THEN r.failed ELSE p.failed
    BY <1>2, LoopFields
  <2>2. r.failed \in BOOLEAN
    BY DEF Records
  <2>3. Ended(m) = (r.kind = "run_end")
    BY <1>1, EndedAppend DEF m
  <2>4. r.kind = "run_end" => EndedWell(m) = ~r.failed
    BY <1>1, EndedAppend DEF m
  <2> QED BY <2>1, <2>2, <2>3, <2>4
<1> HIDE DEF q
<1>11. LoopAgrees(m)
  BY <1>1, <1>3, <1>4, <1>5, <1>6, <1>7, <1>8, <1>9, <1>10 DEF LoopAgrees
<1> QED BY <1>11 DEF m

\* For every log that begins with run_start, whatever follows and in whatever
\* order: by its shortest counterexample.
LEMMA LoopAlwaysAgrees ==
  ASSUME NEW log0, Begun(log0)
  PROVE  LoopAgrees(log0)
<1> DEFINE Wrong(l, n) == Begun(l) /\ Len(l) = n /\ ~LoopAgrees(l)
           S == {n \in Nat : \E l : Wrong(l, n)}
<1>1. SUFFICES ASSUME Wrong(log0, Len(log0)) PROVE FALSE
  OBVIOUS
<1>2. Len(log0) \in S
  BY <1>1 DEF Begun
<1>3. PICK n \in S : \A k \in S : n <= k
  <2>1. S \subseteq Nat
    OBVIOUS
  <2> HIDE DEF S
  <2> QED BY <1>2, <2>1, Least
<1>4. PICK l : Wrong(l, n)
  BY <1>3
<1>5. /\ l \in Seq(Records) /\ Len(l) = n /\ n \in Nat /\ n > 0 /\ l[1].kind = "run_start"
      /\ l[n] \in Records /\ ~LoopAgrees(l)
  BY <1>3, <1>4 DEF Begun
<1>6. CASE n = 1
  <2>1. l = Append(<<>>, l[1])
    BY <1>5, <1>6
  <2> QED BY <1>5, <1>6, <2>1, StartAgrees
<1>7. CASE n # 1
  <2> DEFINE k == SubSeq(l, 1, n - 1)
  <2>1. l = Append(k, l[n]) /\ k \in Seq(Records) /\ Len(k) = n - 1 /\ k # <<>> /\ k[1] = l[1]
    BY <1>5, <1>7
  <2>2. Begun(k)
    BY <1>5, <2>1 DEF Begun
  <2>3. n - 1 \in Nat /\ ~(n <= n - 1)
    BY <1>5
  <2>4. ~Wrong(k, n - 1)
    BY <1>3, <2>3
  <2>5. LoopAgrees(k)
    BY <2>1, <2>2, <2>4
  <2> QED BY <1>5, <2>1, <2>2, <2>5, AppendAgrees
<1> QED BY <1>6, <1>7

(***************************************************************************)
(* What every log of a run looks like, and how an append changes where the *)
(* run stands in it (NextOf, StepOf).                                      *)
(***************************************************************************)
WellFormed(l) ==
  /\ Base(l) \in 0..Len(l) /\ Settled(l) \in 0..Len(l) /\ Asked(l) \in 0..Len(l)
  /\ LastOf(l, {"resume"}) \in 0..Len(l) /\ LastOf(l, {"session"}) \in 0..Len(l)
  /\ StateAt(l) \in 0..Len(l)
  /\ l # <<>> => /\ Base(l) > 0 /\ StateAt(l) > 0
                 /\ NextOf(l) \in Nodes \cup {End} /\ StepOf(l) \in Nat
  /\ \A i \in 1..Len(l) : l[i].kind = "node_commit" => l[i].step <= StepOf(l)
  /\ Asked(l) > 0 => l[Asked(l)].node \in Nodes /\ l[Asked(l)].step > 0
  /\ Pending(l) => /\ l[Asked(l)].node = NextOf(l)
                   /\ l[Asked(l)].step = StepOf(l) + 1

Neutral == {"node_start", "session", "edge", "resume", "recover", "run_end"}

LEMMA EmptyLog == WellFormed(<<>>)
  BY LastOfNone, StateAtNone DEF WellFormed, Base, Settled, Asked, Pending

LEMMA AppendNeutral ==
  ASSUME NEW l \in Seq(Records), WellFormed(l), l # <<>>,
         NEW r \in Records, r.kind \in Neutral
  PROVE  /\ WellFormed(Append(l, r))
         /\ NextOf(Append(l, r)) = NextOf(l) /\ StepOf(Append(l, r)) = StepOf(l)
<1> DEFINE m == Append(l, r)
<1>1. m \in Seq(Records) /\ m # <<>> /\ Len(m) = Len(l) + 1 /\ m[Len(l) + 1] = r
      /\ \A i \in 1..Len(l) : m[i] = l[i]
  OBVIOUS
<1>2. Base(m) = Base(l) /\ Settled(m) = Settled(l) /\ Asked(m) = Asked(l)
  BY LastOfMiss DEF Base, Settled, Asked, Neutral
<1>3. \A kinds : LastOf(m, kinds) \in {LastOf(l, kinds), Len(l) + 1}
  BY LastOfMiss, LastOfHit
<1>4. Base(l) \in 1..Len(l) /\ NextOf(m) = NextOf(l) /\ StepOf(m) = StepOf(l)
  BY <1>1, <1>2 DEF WellFormed, NextOf, StepOf
<1>5. Pending(m) <=> Pending(l)
  BY <1>2 DEF Pending
<1>6. \A i \in 1..Len(m) : m[i].kind = "node_commit" => m[i].step <= StepOf(m)
  BY <1>1, <1>4 DEF WellFormed, Neutral
<1>7. Asked(l) > 0 => m[Asked(m)] = l[Asked(l)]
  BY <1>1, <1>2 DEF WellFormed
<1>8. Pending(l) => Asked(l) > 0
  BY DEF Pending, WellFormed
<1>9. Len(l) \in Nat /\ StateAt(m) \in {StateAt(l), Len(l) + 1}
  BY StateAtAppend
<1> QED
  BY <1>1, <1>2, <1>3, <1>4, <1>5, <1>6, <1>7, <1>8, <1>9 DEF WellFormed

LEMMA AppendStart ==
  ASSUME NEW r \in Records, r.kind = "run_start", r.next \in Nodes \cup {End}
  PROVE  /\ WellFormed(Append(<<>>, r))
         /\ NextOf(Append(<<>>, r)) = r.next /\ StepOf(Append(<<>>, r)) = r.step
<1> DEFINE m == Append(<<>>, r)
<1>1. <<>> \in Seq(Records) /\ m # <<>> /\ Len(m) = 1 /\ m[1] = r /\ Len(<<>>) = 0
  OBVIOUS
<1>2. Base(m) = 1 /\ Settled(m) = 0 /\ Asked(m) = 0
  <2>1. LastOf(m, {"run_start", "node_commit", "fork"}) = Len(<<>>) + 1
    BY <1>1, LastOfHit
  <2>2. /\ LastOf(m, {"node_commit", "fork"}) = LastOf(<<>>, {"node_commit", "fork"})
        /\ LastOf(m, {"interrupt"}) = LastOf(<<>>, {"interrupt"})
    BY <1>1, LastOfMiss
  <2> QED BY <1>1, <2>1, <2>2, LastOfNone DEF Base, Settled, Asked
<1>3. LastOf(m, {"resume"}) = 0 /\ LastOf(m, {"session"}) = 0
  BY <1>1, LastOfMiss, LastOfNone
<1>4. NextOf(m) = r.next /\ StepOf(m) = r.step /\ r.step \in Nat
  BY <1>1, <1>2 DEF NextOf, StepOf, Records
<1>5. StateAt(m) = 1
  <2>1. StateAt(m) = Len(<<>>) + 1
    BY <1>1, StateAtAppend DEF CarriesState
  <2> QED BY <1>1, <2>1
<1> QED
  BY <1>1, <1>2, <1>3, <1>4, <1>5 DEF WellFormed, Pending

LEMMA AppendCommit ==
  ASSUME NEW l \in Seq(Records), WellFormed(l), l # <<>>,
         NEW r \in Records, r.kind = "node_commit", r.step = StepOf(l) + 1,
         r.next \in Nodes \cup {End}
  PROVE  /\ WellFormed(Append(l, r))
         /\ NextOf(Append(l, r)) = r.next /\ StepOf(Append(l, r)) = r.step
<1> DEFINE m == Append(l, r)
<1>1. m \in Seq(Records) /\ m # <<>> /\ Len(m) = Len(l) + 1 /\ m[Len(l) + 1] = r
      /\ \A i \in 1..Len(l) : m[i] = l[i]
  OBVIOUS
<1>2. Base(m) = Len(m) /\ Settled(m) = Len(m) /\ Asked(m) = Asked(l)
  BY <1>1, LastOfMiss, LastOfHit DEF Base, Settled, Asked
<1>3. LastOf(m, {"resume"}) = LastOf(l, {"resume"})
      /\ LastOf(m, {"session"}) = LastOf(l, {"session"})
  BY LastOfMiss
<1>4. NextOf(m) = r.next /\ StepOf(m) = r.step /\ r.step \in Nat
  BY <1>1, <1>2 DEF NextOf, StepOf, Records
<1>5. \A i \in 1..Len(m) : m[i].kind = "node_commit" => m[i].step <= StepOf(m)
  <2>1. \A i \in 1..Len(l) : l[i].kind = "node_commit" => l[i].step <= StepOf(l)
    BY DEF WellFormed
  <2>2. \A i \in 1..Len(l) : l[i].step \in Nat
    <3>1. \A i \in 1..Len(l) : l[i] \in Records
      OBVIOUS
    <3>2. \A x \in Records : x.step \in Nat
      BY DEF Records
    <3> QED BY <3>1, <3>2
  <2>3. StepOf(l) \in Nat
    BY DEF WellFormed
  <2> QED BY <1>1, <1>4, <2>1, <2>2, <2>3
<1>6. Asked(l) > 0 => m[Asked(m)] = l[Asked(l)]
  BY <1>1, <1>2 DEF WellFormed
<1>7. ~Pending(m)
  BY <1>1, <1>2 DEF Pending, WellFormed
<1>8. Len(l) \in Nat /\ StateAt(m) = Len(l) + 1
  BY StateAtAppend DEF CarriesState
<1> QED
  BY <1>1, <1>2, <1>3, <1>4, <1>5, <1>6, <1>7, <1>8 DEF WellFormed

LEMMA AppendQuestion ==
  ASSUME NEW l \in Seq(Records), WellFormed(l), l # <<>>,
         NEW r \in Records, r.kind = "interrupt", r.node \in Nodes,
         r.node = NextOf(l), r.step = StepOf(l) + 1
  PROVE  /\ WellFormed(Append(l, r))
         /\ NextOf(Append(l, r)) = NextOf(l) /\ StepOf(Append(l, r)) = StepOf(l)
<1> DEFINE m == Append(l, r)
<1>1. m \in Seq(Records) /\ m # <<>> /\ Len(m) = Len(l) + 1 /\ m[Len(l) + 1] = r
      /\ \A i \in 1..Len(l) : m[i] = l[i]
  OBVIOUS
<1>2. Base(m) = Base(l) /\ Settled(m) = Settled(l) /\ Asked(m) = Len(m)
  BY <1>1, LastOfMiss, LastOfHit DEF Base, Settled, Asked
<1>3. LastOf(m, {"resume"}) = LastOf(l, {"resume"})
      /\ LastOf(m, {"session"}) = LastOf(l, {"session"})
  BY LastOfMiss
<1>4. Base(l) \in 1..Len(l) /\ NextOf(m) = NextOf(l) /\ StepOf(m) = StepOf(l)
      /\ StepOf(l) \in Nat
  BY <1>1, <1>2 DEF WellFormed, NextOf, StepOf
<1>5. \A i \in 1..Len(m) : m[i].kind = "node_commit" => m[i].step <= StepOf(m)
  BY <1>1, <1>4 DEF WellFormed
<1>6. m[Asked(m)] = r
  BY <1>1, <1>2
<1>7. Len(l) \in Nat /\ StateAt(m) = Len(l) + 1
  BY StateAtAppend DEF CarriesState
<1> QED
  BY <1>1, <1>2, <1>3, <1>4, <1>5, <1>6, <1>7 DEF WellFormed
(***************************************************************************)
(* The inductive invariant: where the process, the caller's checkpoint and *)
(* the history of executions stand with respect to the log.                *)
(***************************************************************************)
Located ==
  /\ pc = "new" => log = <<>> /\ step = 0 /\ state = <<>> /\ held = NoCheckpoint
  /\ pc \in {"loop", "exec", "edge"} => log # <<>> /\ held = NoCheckpoint
  /\ pc \in {"loop", "edge"} => cur = NextOf(log) /\ step = StepOf(log)
  /\ pc = "exec" => /\ cur \in Nodes /\ cur = NextOf(log)
                    /\ step = StepOf(log) + 1
                    /\ step \in 1..MaxSteps /\ ran[step] = cur
  /\ pc \in {"import", "answer"} => /\ cur = held.node /\ step = held.step
                                    /\ cur \in Nodes
  /\ pc = "answer" => log # <<>>
  /\ pc = "finish" => log # <<>> \/ out = "silent"

HeldIsCurrent ==
  held # NoCheckpoint =>
    /\ held.node \in Nodes
    /\ log # <<>> => held.node = NextOf(log) /\ held.step = StepOf(log)

RanIsHistory ==
  \A s \in 1..MaxSteps :
    ran[s] # NoNode => /\ log # <<>> /\ s <= StepOf(log) + 1
                       /\ s = StepOf(log) + 1 => ran[s] = NextOf(log)

IInv == TypeOK /\ WellFormed(log) /\ Located /\ HeldIsCurrent /\ RanIsHistory

(***************************************************************************)
(* Types                                                                   *)
(***************************************************************************)
LEMMA EntryType ==
  ASSUME NEW kind \in Kinds, NEW n \in Nat, NEW node \in Nodes \cup {End, NoNode},
         NEW at \in Nat
  PROVE  /\ Entry(kind, n, node, at) \in Records
         /\ Entry(kind, n, node, at).kind = kind
         /\ Entry(kind, n, node, at).seq = n
         /\ Entry(kind, n, node, at).node = node
         /\ Entry(kind, n, node, at).step = at
<1> <<>> \in States
  BY DEF States
<1> QED BY DEF Entry, Records, Replies, SessionIds

LEMMA LeftType ==
  ASSUME TypeOK, cur \in Nodes, NEW how \in {"done", "asked", "partial"}
  PROVE  Left(how) \in States
<1>1. Mark(cur, given.reply, how) \in Marks
  BY DEF TypeOK, Mark, Marks
<1>2. state \in Seq(Marks)
  BY DEF TypeOK, States
<1> QED BY <1>1, <1>2 DEF Left, States

\* The records the process appends are records.
LEMMA RecordTypes ==
  ASSUME TypeOK, cur \in Nodes \cup {End, NoNode}
  PROVE  /\ \A kind \in Kinds : Rec(kind, cur, step) \in Records
         /\ \A kind \in Kinds : Rec(kind, cur, step + 1) \in Records
         /\ \A first \in Nodes \cup {End} : Begin(first) \in Records
         /\ \A id \in Sessions : [Rec("session", cur, step) EXCEPT !.session = id] \in Records
         /\ cur \in Nodes => \A next \in Nodes \cup {End} : Commit(next) \in Records
         /\ cur \in Nodes => Question \in Records
         /\ Closing \in Records
         /\ cur \in Nodes => Opening \in Records /\ TakenOver \in Records
         /\ Answer \in Records
<1>1. seq + 1 \in Nat /\ step \in Nat /\ step + 1 \in Nat /\ 0 \in Nat
      /\ state \in States /\ reply \in Replies
  BY DEF TypeOK
<1>2. \A kind \in Kinds : Rec(kind, cur, step) \in Records /\ Rec(kind, cur, step + 1) \in Records
  BY <1>1, EntryType DEF Rec
<1>3. \A kind \in Kinds, n \in Nat : Rec(kind, NoNode, n) \in Records
  BY <1>1, EntryType DEF Rec
<1>4. \A r \in Records :
        /\ \A n \in Nodes \cup {End} : [r EXCEPT !.next = n] \in Records
        /\ \A id \in Sessions : [r EXCEPT !.session = id] \in Records
        /\ \A st \in States : [r EXCEPT !.state = st] \in Records
        /\ \A st \in States, n \in Nodes \cup {End} : [r EXCEPT !.state = st, !.next = n] \in Records
        /\ \A st \in States, b \in BOOLEAN : [r EXCEPT !.state = st, !.failed = b] \in Records
        /\ \A a \in Replies : [r EXCEPT !.reply = a] \in Records
  <2> SUFFICES ASSUME NEW r \in Records
               PROVE  /\ \A n \in Nodes \cup {End} : [r EXCEPT !.next = n] \in Records
                      /\ \A id \in Sessions : [r EXCEPT !.session = id] \in Records
                      /\ \A st \in States : [r EXCEPT !.state = st] \in Records
                      /\ \A st \in States, n \in Nodes \cup {End} :
                           [r EXCEPT !.state = st, !.next = n] \in Records
                      /\ \A st \in States, b \in BOOLEAN :
                           [r EXCEPT !.state = st, !.failed = b] \in Records
                      /\ \A a \in Replies : [r EXCEPT !.reply = a] \in Records
    OBVIOUS
  <2>1. \A n \in Nodes \cup {End} : [r EXCEPT !.next = n] \in Records
    BY DEF Records
  <2>2. \A id \in Sessions : [r EXCEPT !.session = id] \in Records
    BY DEF Records, SessionIds
  <2>3. \A st \in States : [r EXCEPT !.state = st] \in Records
    BY DEF Records
  <2>4. \A st \in States, n \in Nodes \cup {End} : [r EXCEPT !.state = st, !.next = n] \in Records
    BY DEF Records
  <2>5. \A st \in States, b \in BOOLEAN : [r EXCEPT !.state = st, !.failed = b] \in Records
    BY DEF Records
  <2>6. \A a \in Replies : [r EXCEPT !.reply = a] \in Records
    BY DEF Records
  <2> QED BY <2>1, <2>2, <2>3, <2>4, <2>5, <2>6
<1>5. /\ "run_start" \in Kinds /\ "session" \in Kinds /\ "node_commit" \in Kinds
      /\ "interrupt" \in Kinds /\ "run_end" \in Kinds /\ "resume" \in Kinds
  BY DEF Kinds
<1>6. cur \in Nodes => Left("done") \in States /\ Left("asked") \in States
  BY LeftType
<1>7. (out # "ok") \in BOOLEAN
  OBVIOUS
<1>8. \A first \in Nodes \cup {End} : Begin(first) \in Records
  BY <1>1, <1>3, <1>4, <1>5 DEF Begin
<1>9. \A id \in Sessions : [Rec("session", cur, step) EXCEPT !.session = id] \in Records
  BY <1>2, <1>4, <1>5
<1>10. cur \in Nodes => \A next \in Nodes \cup {End} : Commit(next) \in Records
  BY <1>2, <1>4, <1>5, <1>6 DEF Commit
<1>11. cur \in Nodes => Question \in Records
  BY <1>2, <1>4, <1>5, <1>6 DEF Question
<1>12. Closing \in Records
  BY <1>1, <1>3, <1>4, <1>5, <1>7 DEF Closing
<1>13. cur \in Nodes => Opening \in Records /\ TakenOver \in Records
  BY <1>1, <1>2, <1>3, <1>4, <1>5 DEF Opening, TakenOver
<1>14. Answer \in Records
  BY <1>1, <1>2, <1>4, <1>5 DEF Answer
<1> QED BY <1>2, <1>8, <1>9, <1>10, <1>11, <1>12, <1>13, <1>14
WriterOK ==
  /\ log \in Seq(Records) /\ seq \in Nat /\ broken \in BOOLEAN
  /\ faults \in 0..MaxFaults

LEMMA FaultType ==
  ASSUME TypeOK, Fault
  PROVE  faults' \in 0..MaxFaults
  BY RunAssumption DEF TypeOK, Fault

LEMMA AppendTypes ==
  ASSUME TypeOK, NEW rec \in Records, Stored(rec) \/ NotStored(rec)
  PROVE  WriterOK'
<1>1. rec.seq \in Nat
  BY DEF Records
<1>2. Append(log, rec) \in Seq(Records) /\ log \in Seq(Records)
  BY DEF TypeOK
<1>3. CASE Stored(rec)
  BY <1>1, <1>2, <1>3 DEF Stored, WriterOK, TypeOK
<1>4. CASE NotStored(rec)
  BY <1>1, <1>2, <1>4, FaultType DEF NotStored, WriterOK, TypeOK
<1> QED BY <1>3, <1>4

LEMMA GoneTypes ==
  ASSUME Gone
  PROVE  /\ pc' = "idle" /\ cur' = NoNode /\ step' = 0 /\ state' \in States
         /\ reply' \in Replies /\ given' \in [reply : Replies, session : SessionIds]
         /\ noted' \in SessionIds /\ out' = "none" /\ seq' = 0 /\ broken' = FALSE
  BY DEF Gone, States, Replies, SessionIds, Nothing

LEMMA NothingType == Nothing \in [reply : Replies, session : SessionIds]
  BY DEF Nothing, Replies, SessionIds

LEMMA SegmentTypes ==
  ASSUME TypeOK, Located, Segment
  PROVE  TypeOK'
<1> USE DEF Replies, SessionIds
<1>1. CASE ReachEnd \/ MaxStepsReached
  BY <1>1 DEF ReachEnd, MaxStepsReached, EndLoop, TypeOK, writer, caller
<1>2. CASE Cancelled
  BY <1>2, FaultType DEF Cancelled, EndLoop, TypeOK, writer, caller
<1>3. CASE StartNode
  <2>1. Rec("node_start", cur, step + 1) \in Records
    BY <1>3, RecordTypes DEF StartNode, Starting, Kinds
  <2>2. WriterOK'
    BY <1>3, <2>1, AppendTypes DEF StartNode
  <2>3. ran' \in [1..MaxSteps -> Nodes \cup {NoNode}]
    BY <1>3 DEF StartNode, Starting, TypeOK
  <2>4. given' \in [reply : Replies, session : SessionIds]
    BY <1>3 DEF StartNode, Starting, TypeOK
  <2> QED
    BY <1>3, <2>2, <2>3, <2>4 DEF StartNode, Starting, WriterOK, TypeOK, caller
<1>4. CASE StartUnlogged
  <2>1. Rec("node_start", cur, step + 1) \in Records
    BY <1>4, RecordTypes DEF StartUnlogged, Starting, Kinds
  <2>2. WriterOK'
    BY <1>4, <2>1, AppendTypes DEF StartUnlogged
  <2>3. given' \in [reply : Replies, session : SessionIds]
    BY <1>4 DEF StartUnlogged, Starting, TypeOK
  <2> QED
    BY <1>4, <2>2, <2>3 DEF StartUnlogged, Starting, EndLoop, WriterOK, TypeOK, caller
<1>5. ASSUME NEW id \in Sessions, NoteSession(id)
      PROVE  TypeOK'
  <2>1. [Rec("session", cur, step) EXCEPT !.session = id] \in Records
    BY <1>5, RecordTypes DEF TypeOK
  <2>2. WriterOK'
    BY <1>5, <2>1, AppendTypes DEF NoteSession
  <2> QED
    BY <1>5, <2>2 DEF NoteSession, WriterOK, TypeOK, caller
<1>6. ASSUME NEW next \in Nodes \cup {End}, cur \in Nodes,
             NodeDone(next) \/ CommitUnlogged(next)
      PROVE  TypeOK'
  <2>1. Commit(next) \in Records
    BY <1>6, RecordTypes
  <2>2. WriterOK'
    BY <1>6, <2>1, AppendTypes DEF NodeDone, CommitUnlogged
  <2>3. Left("done") \in States
    BY <1>6, LeftType
  <2> QED
    BY <1>6, <2>2, <2>3, NothingType
    DEF NodeDone, CommitUnlogged, EndLoop, WriterOK, TypeOK, caller
<1>7. CASE NodeFails
  <2>1. Left("partial") \in States
    BY <1>7, LeftType DEF NodeFails, Located
  <2> QED
    BY <1>7, <2>1, FaultType, NothingType DEF NodeFails, EndLoop, TypeOK, writer, caller
<1>8. CASE NodeAsks
  <2>1. cur \in Nodes /\ step \in Nat /\ step >= 1
    BY <1>8, RunAssumption DEF NodeAsks, Located
  <2>2. Question \in Records /\ Left("asked") \in States
    BY <2>1, RecordTypes, LeftType
  <2>3. log' \in Seq(Records)
    BY <1>8, <2>2 DEF NodeAsks, TypeOK
  <2>4. held'.node \in Nodes /\ held'.step \in Nat /\ held'.state \in States
    BY <1>8, <2>1, <2>2 DEF NodeAsks
  <2> QED
    BY <1>8, <2>3, <2>4, GoneTypes DEF NodeAsks, TypeOK
<1>9. CASE AskUnlogged
  <2>1. cur \in Nodes
    BY <1>9 DEF AskUnlogged, Located
  <2>2. Question \in Records /\ Left("asked") \in States
    BY <2>1, RecordTypes, LeftType
  <2>3. WriterOK'
    BY <1>9, <2>2, AppendTypes DEF AskUnlogged
  <2> QED
    BY <1>9, <2>2, <2>3, NothingType DEF AskUnlogged, EndLoop, WriterOK, TypeOK, caller
<1>10. CASE LogEdge \/ EdgeUnlogged
  <2>1. Rec("edge", cur, step) \in Records
    BY RecordTypes DEF TypeOK, Kinds
  <2>2. WriterOK'
    BY <1>10, <2>1, AppendTypes DEF LogEdge, EdgeUnlogged
  <2> QED
    BY <1>10, <2>2 DEF LogEdge, EdgeUnlogged, EndLoop, WriterOK, TypeOK, caller
<1>11. CASE Finish
  <2>1. Closing \in Records
    BY RecordTypes DEF TypeOK
  <2>2. log' \in Seq(Records)
    <3>1. log' \in {log, Append(log, Closing)}
      BY <1>11 DEF Finish
    <3>2. log \in Seq(Records)
      BY DEF TypeOK
    <3> QED BY <2>1, <3>1, <3>2
  <2>3. faults' \in 0..MaxFaults
    BY <1>11, FaultType DEF Finish, TypeOK
  <2>4. result' \in {"none", "ok", "paused", "failed"}
    BY <1>11 DEF Finish
  <2> QED
    BY <1>11, <2>2, <2>3, <2>4, GoneTypes DEF Finish, TypeOK
<1>12. CASE ImportStart \/ ImportQuestion \/ LogAnswer
  <2>1. cur \in Nodes
    BY <1>12 DEF ImportStart, ImportQuestion, LogAnswer, Located
  <2>2. Opening \in Records /\ TakenOver \in Records /\ Answer \in Records
    BY <2>1, RecordTypes
  <2>3. WriterOK'
    BY <1>12, <2>2, AppendTypes DEF ImportStart, ImportQuestion, LogAnswer
  <2>4. held'.node \in Nodes \cup {NoNode} /\ held'.step \in Nat /\ held'.state \in States
    <3>1. held' \in {held, NoCheckpoint}
      BY <1>12 DEF ImportStart, ImportQuestion, LogAnswer, caller
    <3>2. NoCheckpoint.node = NoNode /\ NoCheckpoint.step = 0 /\ NoCheckpoint.state = <<>>
      BY DEF NoCheckpoint
    <3>3. <<>> \in States
      BY DEF States
    <3> QED BY <3>1, <3>2, <3>3 DEF TypeOK
  <2> QED
    BY <1>12, <2>3, <2>4
    DEF ImportStart, ImportQuestion, LogAnswer, WriterOK, TypeOK, locals, caller
<1>13. CASE ResumeUnlogged
  <2>1. cur \in Nodes
    BY <1>13 DEF ResumeUnlogged, Located
  <2>2. Opening \in Records /\ TakenOver \in Records /\ Answer \in Records
    BY <2>1, RecordTypes
  <2>3. log' \in Seq(Records)
    BY <1>13, <2>2 DEF ResumeUnlogged, TypeOK
  <2>4. faults' \in 0..MaxFaults
    BY <1>13, FaultType DEF ResumeUnlogged
  <2> QED
    BY <1>13, <2>3, <2>4, GoneTypes DEF ResumeUnlogged, TypeOK
<1>14. \A next \in (IF cur \in Nodes THEN Targets[cur] ELSE {}) :
          cur \in Nodes /\ next \in Nodes \cup {End}
  BY RunAssumption
<1> QED
  BY <1>1, <1>2, <1>3, <1>4, <1>5, <1>6, <1>7, <1>8, <1>9, <1>10, <1>11, <1>12,
     <1>13, <1>14 DEF Segment

\* What Recover reads off the log has the types of what it stores.
LEMMA ReplayTypes ==
  ASSUME TypeOK, WellFormed(log), log # <<>>
  PROVE  /\ ResumeNode(log) = NextOf(log) /\ ResumeStep(log) = StepOf(log)
         /\ NextOf(log) \in Nodes \cup {End} /\ StepOf(log) \in Nat
         /\ ResumeReply(log) \in Replies /\ ResumeSession(log) \in SessionIds
         /\ StateOf(log) \in States
         /\ Marker \in Records
<1>1. \A i \in 1..Len(log) : log[i] \in Records
  BY DEF TypeOK
<1>2. \A r \in Records : r.reply \in Replies /\ r.session \in SessionIds /\ r.seq \in Nat
  BY DEF Records
<1>3. NextOf(log) \in Nodes \cup {End} /\ StepOf(log) \in Nat /\ Len(log) \in 1..Len(log)
  BY DEF WellFormed, TypeOK
<1>4. Pending(log) => /\ log[Asked(log)].node = NextOf(log)
                      /\ log[Asked(log)].step = StepOf(log) + 1
  BY DEF WellFormed
<1>5. Answered(log) => Pending(log) /\ AnswerAt(log) \in 1..Len(log)
  BY DEF Answered, AnswerAt, WellFormed
<1>6. ResumeNode(log) = NextOf(log) /\ ResumeStep(log) = StepOf(log)
  BY <1>3, <1>4, <1>5 DEF ResumeNode, ResumeStep
<1>7. ResumeReply(log) \in Replies
  BY <1>1, <1>2, <1>5 DEF ResumeReply, Replies
<1>8. ResumeSession(log) \in SessionIds
  <2>1. SessionAt(log) \in 0..Len(log)
    BY DEF SessionAt, WellFormed
  <2> QED BY <1>1, <1>2, <2>1 DEF ResumeSession, SessionIds
<1>9. Marker \in Records
  <2>1. LastSeq(log) + 1 \in Nat
    BY <1>1, <1>2, <1>3 DEF LastSeq
  <2>2. Entry("recover", LastSeq(log) + 1, ResumeNode(log), ResumeStep(log) + 1) \in Records
    <3>1. "recover" \in Kinds
      BY DEF Kinds
    <3>2. ResumeNode(log) \in Nodes \cup {End, NoNode} /\ ResumeStep(log) + 1 \in Nat
      BY <1>3, <1>6
    <3> QED BY <2>1, <3>1, <3>2, EntryType
  <2>3. \A r \in Records, id \in SessionIds : [r EXCEPT !.session = id] \in Records
    BY DEF Records
  <2> QED BY <1>8, <2>2, <2>3 DEF Marker
<1>10. StateOf(log) \in States
  <2>1. StateAt(log) \in 1..Len(log)
    BY DEF WellFormed
  <2>2. \A r \in Records : r.state \in States
    BY DEF Records
  <2> QED BY <1>1, <2>1, <2>2 DEF StateOf
<1> QED BY <1>3, <1>6, <1>7, <1>8, <1>9, <1>10

LEMMA CallTypes ==
  ASSUME TypeOK, WellFormed(log), Located, HeldIsCurrent, Next, ~Segment
  PROVE  TypeOK'
<1> USE DEF Replies, SessionIds
<1>1. ASSUME NEW first \in Targets[Start], Run(first) \/ RunUnlogged(first)
      PROVE  TypeOK'
  <2>1. first \in Nodes \cup {End}
    BY RunAssumption
  <2>2. Begin(first) \in Records
    BY <2>1, RecordTypes DEF TypeOK
  <2>3. WriterOK'
    BY <1>1, <2>2, AppendTypes DEF Run, RunUnlogged
  <2> QED
    BY <1>1, <2>1, <2>3 DEF Run, RunUnlogged, EndLoop, WriterOK, TypeOK, caller
<1>2. CASE RecoverFinished
  BY <1>2 DEF RecoverFinished, TypeOK, locals, writer
<1>3. CASE RecoverPaused
  <2>1. log[Asked(log)].node \in Nodes /\ log[Asked(log)].step - 1 \in Nat
    <3>1. Asked(log) \in 1..Len(log) /\ log[Asked(log)].node \in Nodes
          /\ log[Asked(log)].step > 0
      BY <1>3 DEF RecoverPaused, WellFormed, Pending
    <3>2. \A r \in Records : r.step \in Nat
      BY DEF Records
    <3>3. log[Asked(log)].step \in Nat
      BY <3>1, <3>2 DEF TypeOK
    <3> QED BY <3>1, <3>3
  <2>2. StateOf(log) \in States
    BY <1>3, ReplayTypes DEF RecoverPaused
  <2>3. held'.node \in Nodes /\ held'.step \in Nat /\ held'.state \in States
    BY <1>3, <2>1, <2>2 DEF RecoverPaused
  <2> QED
    BY <1>3, <2>3 DEF RecoverPaused, TypeOK, locals, writer
<1>4. CASE RecoverRun
  <2>1. WriterOK'
    BY <1>4, ReplayTypes, AppendTypes DEF RecoverRun, Unfinished
  <2>2. recoveries' \in 0..MaxRecoveries
    BY <1>4, RunAssumption DEF RecoverRun, Unfinished, TypeOK
  <2>3. given' \in [reply : Replies, session : SessionIds]
    BY <1>4, ReplayTypes, NothingType DEF RecoverRun, Unfinished
  <2>4. held'.node = NoNode /\ held'.step = 0 /\ held'.state = <<>> /\ <<>> \in States
    BY <1>4 DEF RecoverRun, NoCheckpoint, States
  <2> QED
    BY <1>4, <2>1, <2>2, <2>3, <2>4, ReplayTypes
    DEF RecoverRun, Unfinished, WriterOK, TypeOK
<1>5. CASE RecoverUnlogged
  <2>1. log' \in Seq(Records)
    <3>1. Append(log, Marker) \in Seq(Records) /\ log \in Seq(Records)
      BY <1>5, ReplayTypes DEF RecoverUnlogged, Unfinished, TypeOK
    <3> QED BY <1>5, <3>1 DEF RecoverUnlogged
  <2>2. recoveries' \in 0..MaxRecoveries
    BY <1>5, RunAssumption DEF RecoverUnlogged, Unfinished, TypeOK
  <2> QED
    BY <1>5, <2>1, <2>2, FaultType DEF RecoverUnlogged, TypeOK, locals, writer
<1>6. ASSUME NEW a \in Answers, Resume(a)
      PROVE  TypeOK'
  <2>1. held.node \in Nodes
    BY <1>6 DEF Resume, HeldIsCurrent
  <2>2. LastSeq(log) \in Nat
    <3>1. log # <<>> => log[Len(log)] \in Records
      BY DEF TypeOK
    <3>2. \A r \in Records : r.seq \in Nat
      BY DEF Records
    <3> QED BY <3>1, <3>2 DEF LastSeq
  <2> QED
    BY <1>6, <2>1, <2>2 DEF Resume, TypeOK
<1>7. CASE Crash \/ Forget
  <2>1. held'.node \in Nodes \cup {NoNode} /\ held'.step \in Nat /\ held'.state \in States
    <3>1. held' \in {held, NoCheckpoint}
      BY <1>7 DEF Crash, Forget
    <3>2. NoCheckpoint.node = NoNode /\ NoCheckpoint.step = 0 /\ NoCheckpoint.state = <<>>
      BY DEF NoCheckpoint
    <3>3. <<>> \in States
      BY DEF States
    <3> QED BY <3>1, <3>2, <3>3 DEF TypeOK
  <2>2. CASE Crash
    BY <2>1, <2>2, FaultType, GoneTypes DEF Crash, TypeOK
  <2>3. CASE Forget
    BY <2>1, <2>3 DEF Forget, TypeOK, locals, writer
  <2> QED BY <1>7, <2>2, <2>3
<1> QED
  BY <1>1, <1>2, <1>3, <1>4, <1>5, <1>6, <1>7 DEF Next
(***************************************************************************)
(* Every step keeps the process, the checkpoint and the executions in line *)
(* with the log.  What matters of a step is which record it may append.    *)
(***************************************************************************)
Relations == WellFormed(log) /\ Located /\ HeldIsCurrent /\ RanIsHistory

\* A step that appends nothing, or a record that does not move the run on.
StaysPut ==
  /\ WellFormed(log')
  /\ log = <<>> => log' = <<>>
  /\ log # <<>> => /\ log' # <<>>
                   /\ NextOf(log') = NextOf(log) /\ StepOf(log') = StepOf(log)

LEMMA AppendedOrNot ==
  ASSUME TypeOK, WellFormed(log), log # <<>>,
         NEW rec \in Records, rec.kind \in Neutral,
         log' \in {log, Append(log, rec)}
  PROVE  StaysPut
<1>1. log \in Seq(Records)
  BY DEF TypeOK
<1>2. Append(log, rec) # <<>>
  BY <1>1
<1> QED BY <1>1, <1>2, AppendNeutral DEF StaysPut

LEMMA WrittenOrNot ==
  ASSUME NEW rec, Stored(rec) \/ NotStored(rec)
  PROVE  log' \in {log, Append(log, rec)}
  BY DEF Stored, NotStored

LEMMA RanStays ==
  ASSUME RanIsHistory, StaysPut, ran' = ran
  PROVE  RanIsHistory'
  BY DEF RanIsHistory, StaysPut

LEMMA HeldStays ==
  ASSUME HeldIsCurrent, StaysPut, held' = held \/ held' = NoCheckpoint
  PROVE  HeldIsCurrent'
  BY DEF HeldIsCurrent, StaysPut

LEMMA Unchanged ==
  ASSUME WellFormed(log), log' = log
  PROVE  StaysPut
  BY DEF StaysPut
LEMMA RecordFields ==
  /\ \A kind, node, at : Rec(kind, node, at).kind = kind
  /\ \A id : [Rec("session", cur, step) EXCEPT !.session = id].kind = "session"
  /\ \A next : /\ Commit(next).kind = "node_commit" /\ Commit(next).step = step
               /\ Commit(next).next = next /\ Commit(next).node = cur
  /\ Question.kind = "interrupt" /\ Question.node = cur /\ Question.step = step
  /\ \A first : /\ Begin(first).kind = "run_start" /\ Begin(first).next = first
                /\ Begin(first).step = 0
  /\ Opening.kind = "run_start" /\ Opening.next = cur /\ Opening.step = step
  /\ TakenOver.kind = "interrupt" /\ TakenOver.node = cur /\ TakenOver.step = step + 1
  /\ Answer.kind = "resume" /\ Closing.kind = "run_end" /\ Marker.kind = "recover"
<1>1. \A kind, n, node, at : /\ Entry(kind, n, node, at).kind = kind
                             /\ Entry(kind, n, node, at).node = node
                             /\ Entry(kind, n, node, at).step = at
  BY DEF Entry
<1>2. \A kind, node, at : Rec(kind, node, at).kind = kind
  BY <1>1 DEF Rec
<1>3. \A id : [Rec("session", cur, step) EXCEPT !.session = id].kind = "session"
  BY DEF Rec, Entry
<1>4. \A next : /\ Commit(next).kind = "node_commit" /\ Commit(next).step = step
                /\ Commit(next).next = next /\ Commit(next).node = cur
  BY DEF Commit, Rec, Entry
<1>5. Question.kind = "interrupt" /\ Question.node = cur /\ Question.step = step
  BY DEF Question, Rec, Entry
<1>6. \A first : /\ Begin(first).kind = "run_start" /\ Begin(first).next = first
                 /\ Begin(first).step = 0
  BY DEF Begin, Rec, Entry
<1>7. Opening.kind = "run_start" /\ Opening.next = cur /\ Opening.step = step
  BY DEF Opening, Rec, Entry
<1>8. TakenOver.kind = "interrupt" /\ TakenOver.node = cur /\ TakenOver.step = step + 1
  BY DEF TakenOver, Rec, Entry
<1>9. Answer.kind = "resume" /\ Closing.kind = "run_end" /\ Marker.kind = "recover"
  BY DEF Answer, Closing, Marker, Rec, Entry
<1> QED BY <1>2, <1>3, <1>4, <1>5, <1>6, <1>7, <1>8, <1>9

\* The loop's steps that do not move the run on.
LEMMA LoopRelations ==
  ASSUME IInv,
         \/ ReachEnd \/ MaxStepsReached \/ Cancelled \/ StartNode \/ StartUnlogged
         \/ \E id \in Sessions : NoteSession(id)
         \/ NodeFails \/ LogEdge \/ EdgeUnlogged
  PROVE  Relations'
<1> USE DEF IInv
<1>1. CASE ReachEnd \/ MaxStepsReached \/ Cancelled \/ NodeFails
  <2>1. StaysPut
    BY <1>1, Unchanged DEF ReachEnd, MaxStepsReached, Cancelled, NodeFails
  <2>2. held' = held /\ ran' = ran
    BY <1>1 DEF ReachEnd, MaxStepsReached, Cancelled, NodeFails, caller
  <2>3. pc' = "finish"
    BY <1>1 DEF ReachEnd, MaxStepsReached, Cancelled, NodeFails, EndLoop
  <2>4. log # <<>>
    BY <1>1 DEF ReachEnd, MaxStepsReached, Cancelled, NodeFails, Located
  <2> QED
    BY <2>1, <2>2, <2>3, <2>4, RanStays, HeldStays DEF Relations, Located, StaysPut
<1>2. CASE StartNode
  <2>1. log # <<>> /\ cur \in Nodes /\ cur = NextOf(log) /\ step = StepOf(log)
        /\ step \in Nat /\ step < MaxSteps /\ held = NoCheckpoint
    BY <1>2 DEF StartNode, Starting, Located, TypeOK
  <2>2. Rec("node_start", cur, step + 1) \in Records
    BY <2>1, RecordTypes DEF Kinds
  <2>3. StaysPut
    BY <1>2, <2>1, <2>2, RecordFields, WrittenOrNot, AppendedOrNot DEF StartNode, Neutral
  <2>4. step' = step + 1 /\ cur' = cur /\ held' = held /\ pc' = "exec"
        /\ ran' = [ran EXCEPT ![step + 1] = cur]
    BY <1>2 DEF StartNode, Starting, caller
  <2>5. step + 1 \in 1..MaxSteps /\ ran'[step + 1] = cur
        /\ \A s \in 1..MaxSteps : s # step + 1 => ran'[s] = ran[s]
    BY <2>1, <2>4, RunAssumption DEF TypeOK
  <2>6. RanIsHistory'
    BY <2>1, <2>3, <2>5 DEF RanIsHistory, StaysPut
  <2>7. Located'
    BY <2>1, <2>3, <2>4, <2>5 DEF Located, StaysPut
  <2> QED
    BY <2>3, <2>4, <2>6, <2>7, HeldStays DEF Relations, StaysPut
<1>3. CASE StartUnlogged
  <2>1. log # <<>> /\ cur \in Nodes
    BY <1>3 DEF StartUnlogged, Starting, Located
  <2>2. Rec("node_start", cur, step + 1) \in Records
    BY <2>1, RecordTypes DEF Kinds
  <2>3. StaysPut
    BY <1>3, <2>1, <2>2, RecordFields, WrittenOrNot, AppendedOrNot
    DEF StartUnlogged, Neutral
  <2>4. held' = held /\ ran' = ran /\ pc' = "finish"
    BY <1>3 DEF StartUnlogged, EndLoop, caller
  <2> QED
    BY <2>1, <2>3, <2>4, RanStays, HeldStays DEF Relations, Located, StaysPut
<1>4. ASSUME NEW id \in Sessions, NoteSession(id)
      PROVE  Relations'
  <2>1. pc = "exec" /\ log # <<>>
    BY <1>4 DEF NoteSession, Located
  <2>2. [Rec("session", cur, step) EXCEPT !.session = id] \in Records
    BY RecordTypes DEF TypeOK
  <2>3. log' \in {log, Append(log, [Rec("session", cur, step) EXCEPT !.session = id])}
    BY <1>4, WrittenOrNot DEF NoteSession
  <2>4. StaysPut
    BY <2>1, <2>2, <2>3, RecordFields, AppendedOrNot DEF Neutral
  <2>5. held' = held /\ ran' = ran /\ pc' = pc /\ cur' = cur /\ step' = step
    BY <1>4 DEF NoteSession, caller
  <2> QED
    BY <2>1, <2>4, <2>5, RanStays, HeldStays DEF Relations, Located, StaysPut
<1>5. CASE LogEdge \/ EdgeUnlogged
  <2>1. pc = "edge" /\ log # <<>>
    BY <1>5 DEF LogEdge, EdgeUnlogged, Located
  <2>2. Rec("edge", cur, step) \in Records
    BY RecordTypes DEF TypeOK, Kinds
  <2>3. log' \in {log, Append(log, Rec("edge", cur, step))}
    BY <1>5, WrittenOrNot DEF LogEdge, EdgeUnlogged
  <2>4. StaysPut
    BY <2>1, <2>2, <2>3, RecordFields, AppendedOrNot DEF Neutral
  <2>5. held' = held /\ ran' = ran /\ cur' = cur /\ step' = step /\ pc' \in {"loop", "finish"}
    BY <1>5 DEF LogEdge, EdgeUnlogged, EndLoop, caller
  <2> QED
    BY <2>1, <2>4, <2>5, RanStays, HeldStays DEF Relations, Located, StaysPut
<1> QED BY <1>1, <1>2, <1>3, <1>4, <1>5
\* A commit moves the run on by one step; the process dropped every checkpoint
\* before it started the node.
LEMMA CommitRelations ==
  ASSUME IInv, cur \in Nodes, NEW next \in Nodes \cup {End},
         NodeDone(next) \/ CommitUnlogged(next)
  PROVE  Relations'
<1> USE DEF IInv
<1>1. pc = "exec" /\ log # <<>> /\ held = NoCheckpoint /\ log \in Seq(Records)
      /\ step = StepOf(log) + 1 /\ cur = NextOf(log)
  BY DEF NodeDone, CommitUnlogged, Located, TypeOK
<1>2. /\ log' = log \/ log' = Append(log, Commit(next))
      /\ NodeDone(next) => log' = Append(log, Commit(next))
  BY DEF NodeDone, CommitUnlogged, Stored, NotStored
<1>3. /\ held' = held /\ ran' = ran /\ step' = step /\ cur' = next
      /\ pc' = "edge" \/ pc' = "finish"
      /\ pc' = "edge" => NodeDone(next)
  BY DEF NodeDone, CommitUnlogged, EndLoop, caller
<1>4. CASE log' = log
  <2>1. StaysPut
    BY <1>4, Unchanged
  <2>2. pc' = "finish"
    <3>1. Append(log, Commit(next)) # log
      BY <1>1
    <3> QED BY <1>2, <1>3, <1>4, <3>1
  <2> QED
    BY <1>1, <1>3, <2>1, <2>2, RanStays, HeldStays DEF Relations, Located, StaysPut
<1>5. CASE log' = Append(log, Commit(next))
  <2>1. Commit(next) \in Records
    BY RecordTypes
  <2>2. WellFormed(log') /\ NextOf(log') = next /\ StepOf(log') = step
    BY <1>1, <1>5, <2>1, RecordFields, AppendCommit
  <2>3. log' # <<>>
    BY <1>1, <1>5
  <2>4. RanIsHistory'
    <3>1. StepOf(log) \in Nat
      BY <1>1 DEF WellFormed
    <3>2. \A s \in 1..MaxSteps : ran[s] # NoNode => s <= StepOf(log')
      BY <1>1, <2>2, <3>1 DEF RanIsHistory
    <3>3. \A s \in 1..MaxSteps : s <= StepOf(log') => s <= StepOf(log') + 1 /\ s # StepOf(log') + 1
      BY <1>1, <2>2, <3>1, RunAssumption
    <3> QED BY <1>3, <2>3, <3>2, <3>3 DEF RanIsHistory
  <2>5. HeldIsCurrent'
    BY <1>1, <1>3 DEF HeldIsCurrent
  <2>6. Located'
    BY <1>1, <1>3, <2>2, <2>3 DEF Located
  <2> QED BY <2>2, <2>4, <2>5, <2>6 DEF Relations
<1> QED BY <1>2, <1>4, <1>5

LEMMA QuestionRelations ==
  ASSUME IInv, NodeAsks \/ AskUnlogged
  PROVE  Relations'
<1> USE DEF IInv
<1>1. pc = "exec" /\ log # <<>> /\ held = NoCheckpoint /\ log \in Seq(Records)
      /\ step = StepOf(log) + 1 /\ cur = NextOf(log) /\ cur \in Nodes
  BY DEF NodeAsks, AskUnlogged, Located, TypeOK
<1>2. log' \in {log, Append(log, Question)} /\ ran' = ran
  BY DEF NodeAsks, AskUnlogged, NotStored
<1>3. Question \in Records
  BY <1>1, RecordTypes
<1>4. StaysPut
  <2>1. CASE log' = log
    BY <2>1, Unchanged
  <2>2. CASE log' = Append(log, Question)
    <3>1. Append(log, Question) # <<>>
      BY <1>1
    <3> QED BY <1>1, <1>3, <2>2, <3>1, RecordFields, AppendQuestion DEF StaysPut
  <2> QED BY <1>2, <2>1, <2>2
<1>5. Located'
  BY <1>1, <1>4, GoneTypes DEF NodeAsks, AskUnlogged, EndLoop, Located, StaysPut
<1>6. HeldIsCurrent'
  <2>1. CASE AskUnlogged
    BY <1>4, <2>1, HeldStays DEF AskUnlogged, caller
  <2>2. CASE NodeAsks
    <3>1. held'.node = cur /\ held'.step = step - 1
      BY <2>2 DEF NodeAsks
    <3>2. StepOf(log) \in Nat
      BY <1>1 DEF WellFormed
    <3> QED BY <1>1, <1>4, <3>1, <3>2 DEF HeldIsCurrent, StaysPut
  <2> QED BY <2>1, <2>2
<1> QED BY <1>2, <1>4, <1>5, <1>6, RanStays DEF Relations, StaysPut

\* The records of logResume: whatever part of them is written, the log stands at
\* the checkpoint's node.
LEMMA ResumeAppends ==
  ASSUME IInv, pc \in {"import", "answer"}, ran' = ran, held' \in {held, NoCheckpoint},
         \/ log' = log
         \/ pc = "answer" /\ log' = Append(log, Answer)
         \/ pc = "import" /\ log = <<>> /\ log' = Append(log, Opening)
         \/ pc = "import" /\ log # <<>> /\ log' = Append(log, TakenOver)
  PROVE  /\ WellFormed(log') /\ RanIsHistory' /\ HeldIsCurrent'
         /\ log' # <<>> => NextOf(log') = held.node /\ StepOf(log') = held.step
         /\ log # <<>> => log' # <<>>
<1> USE DEF IInv
<1>1. held # NoCheckpoint /\ held.node \in Nodes /\ cur = held.node /\ step = held.step
      /\ log \in Seq(Records) /\ cur \in Nodes
  BY NamesAreDistinct DEF Located, NoCheckpoint, TypeOK
<1>2. log # <<>> => NextOf(log) = held.node /\ StepOf(log) = held.step
  BY <1>1 DEF HeldIsCurrent
<1>3. Opening \in Records /\ TakenOver \in Records /\ Answer \in Records
  BY <1>1, RecordTypes
<1>4. CASE log = <<>> /\ log' = Append(log, Opening)
  <2>1. WellFormed(log') /\ NextOf(log') = cur /\ StepOf(log') = step
    BY <1>1, <1>3, <1>4, RecordFields, AppendStart
  <2>2. \A s \in 1..MaxSteps : ran[s] = NoNode
    BY <1>4 DEF RanIsHistory
  <2>3. RanIsHistory'
    BY <2>2 DEF RanIsHistory
  <2>4. log' # <<>>
    BY <1>1, <1>4
  <2>5. HeldIsCurrent'
    BY <1>1, <2>1 DEF HeldIsCurrent
  <2> QED BY <1>1, <2>1, <2>3, <2>4, <2>5
<1>5. CASE log # <<>> \/ log' = log
  <2>1. StaysPut
    <3>1. CASE log' = log
      BY <3>1, Unchanged
    <3>2. CASE log # <<>> /\ log' = Append(log, Answer)
      BY <1>3, <3>2, RecordFields, AppendedOrNot DEF Neutral
    <3>3. CASE log # <<>> /\ log' = Append(log, TakenOver)
      <4>1. Append(log, TakenOver) # <<>>
        BY <1>1
      <4> QED
        BY <1>1, <1>2, <1>3, <3>3, <4>1, RecordFields, AppendQuestion DEF StaysPut
    <3> QED BY <1>5, <3>1, <3>2, <3>3
  <2> QED BY <1>2, <2>1, RanStays, HeldStays DEF StaysPut
<1>6. pc = "answer" => log # <<>>
  BY DEF Located
<1> QED BY <1>4, <1>5, <1>6

\* Steps that leave no segment executing: the end of one, a failed Resume, a
\* crash, a forgotten checkpoint, and Recover where it does not go on.
LEMMA IdleRelations ==
  ASSUME IInv,
         Finish \/ ResumeUnlogged \/ Crash \/ Forget \/ RecoverFinished
         \/ RecoverPaused \/ RecoverUnlogged
  PROVE  Relations'
<1> USE DEF IInv
<1>1. pc' = "idle"
  <2>1. CASE Finish \/ ResumeUnlogged \/ Crash
    BY <2>1, GoneTypes DEF Finish, ResumeUnlogged, Crash
  <2>2. CASE Forget \/ RecoverFinished \/ RecoverPaused \/ RecoverUnlogged
    BY <2>2 DEF Forget, RecoverFinished, RecoverPaused, RecoverUnlogged, Unfinished
  <2> QED BY <2>1, <2>2
<1>2. Located'
  BY <1>1 DEF Located
<1>3. ran' = ran
  BY DEF Finish, ResumeUnlogged, Crash, Forget, RecoverFinished, RecoverPaused,
     RecoverUnlogged
<1>4. CASE Crash \/ Forget \/ RecoverFinished
  <2>1. log' = log /\ (held' = held \/ held' = NoCheckpoint)
    BY <1>4 DEF Crash, Forget, RecoverFinished
  <2> QED
    BY <1>2, <1>3, <2>1, Unchanged, RanStays, HeldStays DEF Relations, StaysPut
<1>5. CASE RecoverPaused
  <2>1. log' = log /\ log # <<>> /\ Pending(log)
        /\ held'.node = log[Asked(log)].node /\ held'.step = log[Asked(log)].step - 1
    BY <1>5 DEF RecoverPaused
  <2>2. Asked(log) > 0 /\ StepOf(log) \in Nat
    BY <2>1 DEF WellFormed, Pending
  <2>3. log[Asked(log)].node = NextOf(log) /\ log[Asked(log)].step = StepOf(log) + 1
    BY <2>1 DEF WellFormed
  <2>4. held'.node = NextOf(log') /\ held'.step = StepOf(log') /\ held'.node \in Nodes
    BY <2>1, <2>2, <2>3 DEF WellFormed
  <2>5. HeldIsCurrent'
    BY <2>4 DEF HeldIsCurrent
  <2> QED
    BY <1>2, <1>3, <2>1, <2>5, Unchanged, RanStays DEF Relations, StaysPut
<1>6. CASE RecoverUnlogged
  <2>1. log # <<>> /\ log' \in {log, Append(log, Marker)} /\ held' = held
    BY <1>6 DEF RecoverUnlogged, Unfinished
  <2>2. StaysPut
    BY <2>1, ReplayTypes, RecordFields, AppendedOrNot DEF Neutral
  <2> QED
    BY <1>2, <1>3, <2>1, <2>2, RanStays, HeldStays DEF Relations, StaysPut
<1>7. CASE Finish
  <2>1. log' = log \/ log' = Append(log, Closing)
    BY <1>7 DEF Finish
  <2>2. held' = held
    BY <1>7 DEF Finish
  <2>3. CASE log # <<>>
    <3>1. Closing \in Records
      BY RecordTypes DEF TypeOK
    <3>2. StaysPut
      BY <2>1, <2>3, <3>1, RecordFields, AppendedOrNot DEF Neutral
    <3> QED
      BY <1>2, <1>3, <2>2, <3>2, RanStays, HeldStays DEF Relations, StaysPut
  <2>4. CASE log = <<>>
    \* run_start was not logged, so there is no run to end
    <3>1. log' = log
      BY <1>7, <2>4 DEF Finish, Located
    <3> QED
      BY <1>2, <1>3, <2>2, <3>1, Unchanged, RanStays, HeldStays DEF Relations, StaysPut
  <2> QED BY <2>3, <2>4
<1>8. CASE ResumeUnlogged
  <2>1. held' = held /\ pc \in {"import", "answer"}
    BY <1>8 DEF ResumeUnlogged
  <2>2. \/ log' = log
        \/ pc = "answer" /\ log' = Append(log, Answer)
        \/ pc = "import" /\ log = <<>> /\ log' = Append(log, Opening)
        \/ pc = "import" /\ log # <<>> /\ log' = Append(log, TakenOver)
    BY <1>8 DEF ResumeUnlogged
  <2> QED
    BY <1>2, <1>3, <2>1, <2>2, ResumeAppends DEF Relations
<1> QED BY <1>4, <1>5, <1>6, <1>7, <1>8
\* Steps that begin a segment, or take one to the loop.
LEMMA EntryRelations ==
  ASSUME IInv,
         \/ \E first \in Targets[Start] : Run(first) \/ RunUnlogged(first)
         \/ RecoverRun
         \/ \E a \in Answers : Resume(a)
         \/ ImportStart \/ ImportQuestion \/ LogAnswer
  PROVE  Relations'
<1> USE DEF IInv
<1>1. ASSUME NEW first \in Targets[Start], Run(first) \/ RunUnlogged(first)
      PROVE  Relations'
  <2>1. log = <<>> /\ step = 0 /\ held = NoCheckpoint /\ held' = held /\ ran' = ran
        /\ step' = step
    BY <1>1 DEF Run, RunUnlogged, Located, caller
  <2>2. first \in Nodes \cup {End} /\ Begin(first) \in Records
    BY RunAssumption, RecordTypes DEF TypeOK
  <2>3. \A s \in 1..MaxSteps : ran[s] = NoNode
    BY <2>1 DEF RanIsHistory
  <2>4. RanIsHistory' /\ HeldIsCurrent'
    BY <2>1, <2>3 DEF RanIsHistory, HeldIsCurrent
  <2>5. log' = log \/ log' = Append(log, Begin(first))
    BY <1>1 DEF Run, RunUnlogged, Stored, NotStored
  <2>6. \/ pc' = "loop" /\ cur' = first /\ log' = Append(log, Begin(first))
        \/ pc' = "finish" /\ out' = "silent"
    BY <1>1 DEF Run, RunUnlogged, Stored, EndLoop
  <2>7. CASE log' = log
    <3>1. Append(<<>>, Begin(first)) # <<>>
      BY <2>2
    <3>2. pc' = "finish" /\ out' = "silent"
      BY <2>1, <2>6, <2>7, <3>1
    <3> QED BY <2>4, <2>7, <3>2, Unchanged DEF Relations, Located
  <2>8. CASE log' = Append(log, Begin(first))
    <3>1. WellFormed(log') /\ NextOf(log') = first /\ StepOf(log') = 0 /\ log' # <<>>
      BY <2>1, <2>2, <2>8, RecordFields, AppendStart
    <3> QED BY <2>1, <2>4, <2>6, <3>1 DEF Relations, Located
  <2> QED BY <2>5, <2>7, <2>8
<1>2. CASE RecoverRun
  <2>1. log # <<>> /\ held' = NoCheckpoint /\ ran' = ran /\ pc' = "loop"
        /\ cur' = ResumeNode(log) /\ step' = ResumeStep(log)
    BY <1>2 DEF RecoverRun, Unfinished
  <2>2. log' \in {log, Append(log, Marker)}
    BY <1>2, WrittenOrNot DEF RecoverRun
  <2>3. StaysPut
    BY <2>1, <2>2, ReplayTypes, RecordFields, AppendedOrNot DEF Neutral
  <2> QED
    BY <2>1, <2>3, ReplayTypes, RanStays, HeldStays DEF Relations, Located, StaysPut
<1>3. ASSUME NEW a \in Answers, Resume(a)
      PROVE  Relations'
  <2>1. log' = log /\ ran' = ran /\ held' = held /\ cur' = held.node /\ step' = held.step
        /\ pc' = (IF log = <<>> THEN "import" ELSE "answer") /\ held.node \in Nodes
    BY <1>3 DEF Resume, HeldIsCurrent
  <2> QED
    BY <2>1, Unchanged, RanStays, HeldStays DEF Relations, Located, StaysPut
<1>4. CASE ImportStart \/ ImportQuestion \/ LogAnswer
  <2>1. ran' = ran /\ held' \in {held, NoCheckpoint} /\ cur' = cur /\ step' = step
    BY <1>4 DEF ImportStart, ImportQuestion, LogAnswer, locals, caller
  <2>2. pc \in {"import", "answer"} /\ cur = held.node /\ step = held.step /\ cur \in Nodes
    BY <1>4 DEF ImportStart, ImportQuestion, LogAnswer, Located
  <2>3. \/ pc = "answer" /\ log # <<>> /\ log' = Append(log, Answer)
           /\ pc' = "loop" /\ held' = NoCheckpoint
        \/ pc = "import" /\ log = <<>> /\ log' = Append(log, Opening)
           /\ pc' = "import" /\ held' = held
        \/ pc = "import" /\ log # <<>> /\ log' = Append(log, TakenOver)
           /\ pc' = "answer" /\ held' = held
    BY <1>4 DEF ImportStart, ImportQuestion, LogAnswer, Stored, Located, locals, caller
  <2>4. /\ WellFormed(log') /\ RanIsHistory' /\ HeldIsCurrent'
        /\ log' # <<>> => NextOf(log') = held.node /\ StepOf(log') = held.step
        /\ log # <<>> => log' # <<>>
    BY <2>1, <2>2, <2>3, ResumeAppends
  <2> QED
    BY <2>1, <2>2, <2>3, <2>4 DEF Relations, Located
<1> QED BY <1>1, <1>2, <1>3, <1>4

-----------------------------------------------------------------------------
LEMMA InitInvariant == Init => IInv
<1> SUFFICES ASSUME Init PROVE IInv
  OBVIOUS
<1>1. \A cp \in Imported : cp.node \in Nodes /\ cp.step \in Nat /\ cp.state \in States
  BY RunAssumption DEF Checkpoints
<1>2. held \in Imported \/ held = NoCheckpoint
  BY DEF Init
<1>3. /\ NoCheckpoint.node = NoNode /\ NoCheckpoint.step = 0
      /\ NoCheckpoint.state = <<>> /\ <<>> \in States
  BY DEF NoCheckpoint, States
<1>4. held.node \in Nodes \cup {NoNode} /\ held.step \in Nat /\ held.state \in States
  BY <1>1, <1>2, <1>3
<1>5. ran \in [1..MaxSteps -> Nodes \cup {NoNode}]
      /\ \A s \in 1..MaxSteps : ran[s] = NoNode
  BY DEF Init
<1>6. TypeOK
  <2>1. log \in Seq(Records) /\ pc \in {"new", "idle"} /\ cur = NoNode /\ step \in Nat
    BY DEF Init
  <2>2. state \in States /\ given \in [reply : Replies, session : SessionIds]
    BY <1>3, NothingType DEF Init
  <2>3. reply \in Replies /\ noted \in SessionIds /\ out = "none" /\ seq \in Nat
        /\ broken \in BOOLEAN /\ result = "none"
    BY DEF Init, Replies, SessionIds
  <2>4. faults \in 0..MaxFaults /\ recoveries \in 0..MaxRecoveries
    BY RunAssumption DEF Init
  <2> QED BY <1>4, <1>5, <2>1, <2>2, <2>3, <2>4 DEF TypeOK
<1>7. WellFormed(log)
  BY EmptyLog DEF Init
<1>8. Located /\ HeldIsCurrent /\ RanIsHistory
  BY <1>1, <1>2, <1>5 DEF Init, Located, HeldIsCurrent, RanIsHistory
<1> QED BY <1>6, <1>7, <1>8 DEF IInv

LEMMA StepInvariant == IInv /\ [Next]_vars => IInv'
<1> SUFFICES ASSUME IInv, [Next]_vars PROVE IInv'
  OBVIOUS
<1>1. CASE Next
  <2>1. TypeOK'
    BY <1>1, SegmentTypes, CallTypes DEF IInv
  <2>2. Relations'
    <3>1. \A next \in (IF cur \in Nodes THEN Targets[cur] ELSE {}) :
             cur \in Nodes /\ next \in Nodes \cup {End}
      BY RunAssumption
    <3> QED
      BY <1>1, <3>1, LoopRelations, CommitRelations, QuestionRelations, IdleRelations,
         EntryRelations DEF Next, Segment
  <2> QED BY <2>1, <2>2 DEF IInv, Relations
<1>2. CASE UNCHANGED vars
  BY <1>2 DEF vars, IInv, TypeOK, WellFormed, Located, HeldIsCurrent, RanIsHistory
<1> QED BY <1>1, <1>2

THEOREM Invariance == Spec => []IInv
  BY InitInvariant, StepInvariant, PTL DEF Spec

\* Every variable has its type, whatever crashes and is recovered.
THEOREM TypeCorrect == Spec => []TypeOK
<1>1. IInv => TypeOK
  BY DEF IInv
<1> QED BY <1>1, Invariance, PTL

\* IdempotencyKey is the same on every attempt of a logical step (durable.go:66-70).
THEOREM KeysAreStable == Spec => KeyNamesOneNode
<1>1. IInv /\ [Next]_vars =>
        [\A s \in DOMAIN ran : ran[s] # NoNode => ran'[s] = ran[s]]_ran
  <2> SUFFICES ASSUME IInv, [Next]_vars, ran' # ran
               PROVE  \A s \in DOMAIN ran : ran[s] # NoNode => ran'[s] = ran[s]
    OBVIOUS
  <2>1. StartNode
    BY DEF Next, Segment, vars, caller, locals, writer, Run, RunUnlogged, ReachEnd,
       MaxStepsReached, Cancelled, StartUnlogged, NoteSession, NodeDone,
       CommitUnlogged, NodeFails, NodeAsks, AskUnlogged, LogEdge, EdgeUnlogged,
       Finish, ImportStart, ImportQuestion, LogAnswer, ResumeUnlogged,
       RecoverFinished, RecoverPaused, RecoverRun, RecoverUnlogged, Resume, Crash,
       Forget
  <2>2. cur = NextOf(log) /\ step = StepOf(log) /\ ran' = [ran EXCEPT ![step + 1] = cur]
    BY <2>1 DEF StartNode, Starting, IInv, Located
  <2>3. ran \in [1..MaxSteps -> Nodes \cup {NoNode}]
    BY DEF IInv, TypeOK
  <2>4. \A s \in 1..MaxSteps : s = step + 1 /\ ran[s] # NoNode => ran[s] = cur
    BY <2>2 DEF IInv, RanIsHistory
  <2> QED BY <2>2, <2>3, <2>4
<1> QED BY <1>1, Invariance, PTL DEF Spec, KeyNamesOneNode
\* No node whose commit is in the log is executed again under that step number.
THEOREM CommitsRunOnce == Spec => NoCommitRunsAgain
<1> DEFINE Fresh == pc' = "exec" /\ pc # "exec" =>
              \A i \in DOMAIN log : log[i].kind = "node_commit" => log[i].step < step'
<1>1. IInv /\ [Next]_vars => [Fresh]_vars
  <2> SUFFICES ASSUME IInv, Next, pc' = "exec", pc # "exec"
               PROVE  \A i \in DOMAIN log : log[i].kind = "node_commit" => log[i].step < step'
    BY DEF Fresh
  <2>1. CASE StartNode
    <3>1. step' = StepOf(log) + 1
      BY <2>1 DEF StartNode, Starting, IInv, Located
    <3>2. log # <<>> /\ log \in Seq(Records)
      BY <2>1 DEF StartNode, Starting, IInv, Located, TypeOK
    <3>3. \A i \in 1..Len(log) : log[i].step \in Nat
      <4>1. \A i \in 1..Len(log) : log[i] \in Records
        BY <3>2
      <4>2. \A r \in Records : r.step \in Nat
        BY DEF Records
      <4> QED BY <4>1, <4>2
    <3>4. StepOf(log) \in Nat
          /\ \A i \in 1..Len(log) : log[i].kind = "node_commit" => log[i].step <= StepOf(log)
      BY <3>2 DEF IInv, WellFormed
    <3> QED BY <3>1, <3>2, <3>3, <3>4
  <2>2. CASE ~StartNode
    BY <2>2, GoneTypes
    DEF Next, Segment, EndLoop, caller, locals, writer, Run, RunUnlogged, ReachEnd,
       MaxStepsReached, Cancelled, StartUnlogged, NoteSession, NodeDone,
       CommitUnlogged, NodeFails, NodeAsks, AskUnlogged, LogEdge, EdgeUnlogged,
       Finish, ImportStart, ImportQuestion, LogAnswer, ResumeUnlogged,
       RecoverFinished, RecoverPaused, RecoverRun, RecoverUnlogged, Resume, Crash,
       Forget
  <2> QED BY <2>1, <2>2
<1> QED BY <1>1, Invariance, PTL DEF Spec, NoCommitRunsAgain
(***************************************************************************)
(* OneHistory: appending a record keeps the log one linear history when    *)
(* the record is of the node and the step the log stands at.               *)
(***************************************************************************)
Links == {"node_start", "node_commit", "interrupt"}

Linked(l) ==
  \A i \in 1..Len(l) :
    l[i].kind \in Links =>
      /\ l[i].node = NextOf(SubSeq(l, 1, i - 1))
      /\ l[i].step = StepOf(SubSeq(l, 1, i - 1)) + 1

LEMMA LinkedAppend ==
  ASSUME NEW l \in Seq(Records), Linked(l), NEW r \in Records,
         r.kind \in Links => r.node = NextOf(l) /\ r.step = StepOf(l) + 1
  PROVE  Linked(Append(l, r))
<1> DEFINE m == Append(l, r)
<1> SUFFICES ASSUME NEW i \in 1..Len(m), m[i].kind \in Links
             PROVE  /\ m[i].node = NextOf(SubSeq(m, 1, i - 1))
                    /\ m[i].step = StepOf(SubSeq(m, 1, i - 1)) + 1
  BY DEF Linked
<1>1. CASE i \in 1..Len(l)
  <2>1. SubSeq(m, 1, i - 1) = SubSeq(l, 1, i - 1) /\ m[i] = l[i]
    BY <1>1
  <2> QED BY <1>1, <2>1 DEF Linked
<1>2. CASE i = Len(l) + 1
  <2>1. SubSeq(m, 1, i - 1) = l /\ m[i] = r
    BY <1>2
  <2> QED BY <2>1
<1> QED BY <1>1, <1>2
\* What a step may append: a record that is no link, or the next one.
NextLink(r) ==
  r \in Records /\ (r.kind \in Links => r.node = NextOf(log) /\ r.step = StepOf(log) + 1)

LEMMA OnlyNextLinks ==
  ASSUME IInv, Next
  PROVE  log' = log \/ \E r \in Records : NextLink(r) /\ log' = Append(log, r)
<1> USE DEF IInv
<1>1. cur \in Nodes \cup {End, NoNode}
  BY DEF TypeOK
<1>2. \A r \in Records : r.kind \notin Links => NextLink(r)
  BY DEF NextLink
<1>3. ASSUME NEW first \in Targets[Start], Run(first) \/ RunUnlogged(first)
      PROVE  log' = log \/ \E r \in Records : NextLink(r) /\ log' = Append(log, r)
  <2>1. Begin(first) \in Records /\ NextLink(Begin(first))
    BY <1>1, <1>2, RecordTypes, RecordFields, RunAssumption DEF Links
  <2> QED BY <1>3, <2>1 DEF Run, RunUnlogged, Stored, NotStored
<1>4. CASE StartNode \/ StartUnlogged
  <2>1. Rec("node_start", cur, step + 1) \in Records
    BY <1>1, RecordTypes DEF Kinds
  <2>2. /\ Rec("node_start", cur, step + 1).node = cur
        /\ Rec("node_start", cur, step + 1).step = step + 1
    BY DEF Rec, Entry
  <2>3. cur = NextOf(log) /\ step = StepOf(log)
    BY <1>4 DEF StartNode, StartUnlogged, Starting, Located
  <2>4. NextLink(Rec("node_start", cur, step + 1))
    BY <2>1, <2>2, <2>3 DEF NextLink
  <2> QED BY <1>4, <2>1, <2>4 DEF StartNode, StartUnlogged, Stored, NotStored
<1>5. ASSUME NEW id \in Sessions, NoteSession(id)
      PROVE  log' = log \/ \E r \in Records : NextLink(r) /\ log' = Append(log, r)
  <2> DEFINE r == [Rec("session", cur, step) EXCEPT !.session = id]
  <2>1. r \in Records /\ NextLink(r)
    BY <1>1, <1>2, RecordTypes, RecordFields DEF Links
  <2>2. log' \in {log, Append(log, r)}
    BY <1>5, WrittenOrNot DEF NoteSession
  <2> QED BY <2>1, <2>2
<1>6. ASSUME NEW next \in (IF cur \in Nodes THEN Targets[cur] ELSE {}),
             NodeDone(next) \/ CommitUnlogged(next)
      PROVE  log' = log \/ \E r \in Records : NextLink(r) /\ log' = Append(log, r)
  <2>1. cur \in Nodes /\ next \in Nodes \cup {End}
    BY RunAssumption
  <2>2. cur = NextOf(log) /\ step = StepOf(log) + 1
    BY <1>6 DEF NodeDone, CommitUnlogged, Located
  <2>3. Commit(next) \in Records /\ NextLink(Commit(next))
    BY <1>1, <2>1, <2>2, RecordTypes, RecordFields DEF NextLink
  <2> QED BY <1>6, <2>3 DEF NodeDone, CommitUnlogged, Stored, NotStored
<1>7. CASE NodeAsks \/ AskUnlogged
  <2>1. cur \in Nodes /\ cur = NextOf(log) /\ step = StepOf(log) + 1
    BY <1>7 DEF NodeAsks, AskUnlogged, Located
  <2>2. Question \in Records /\ NextLink(Question)
    BY <1>1, <2>1, RecordTypes, RecordFields DEF NextLink
  <2> QED BY <1>7, <2>2 DEF NodeAsks, AskUnlogged, NotStored
<1>8. CASE LogEdge \/ EdgeUnlogged
  <2>1. Rec("edge", cur, step) \in Records /\ NextLink(Rec("edge", cur, step))
    BY <1>1, <1>2, RecordTypes, RecordFields DEF Links, Kinds
  <2> QED BY <1>8, <2>1 DEF LogEdge, EdgeUnlogged, Stored, NotStored
<1>9. CASE Finish
  <2>1. Closing \in Records /\ NextLink(Closing)
    BY <1>1, <1>2, RecordTypes, RecordFields DEF Links
  <2> QED BY <1>9, <2>1 DEF Finish
<1>10. CASE ImportStart \/ ImportQuestion \/ LogAnswer \/ ResumeUnlogged
  <2>1. cur \in Nodes /\ cur = held.node /\ step = held.step /\ held # NoCheckpoint
    BY <1>10, NamesAreDistinct
    DEF ImportStart, ImportQuestion, LogAnswer, ResumeUnlogged, Located, NoCheckpoint
  <2>2. log # <<>> => cur = NextOf(log) /\ step = StepOf(log)
    BY <2>1 DEF HeldIsCurrent
  <2>3. Opening \in Records /\ TakenOver \in Records /\ Answer \in Records
    BY <1>1, <2>1, RecordTypes
  <2>4. /\ NextLink(Opening) /\ NextLink(Answer)
        /\ log # <<>> => NextLink(TakenOver)
    BY <1>2, <2>2, <2>3, RecordFields DEF NextLink, Links
  <2>5. \/ log' = log \/ log' = Append(log, Opening) \/ log' = Append(log, Answer)
        \/ log # <<>> /\ log' = Append(log, TakenOver)
    BY <1>10 DEF ImportStart, ImportQuestion, LogAnswer, ResumeUnlogged, Stored
  <2> QED BY <2>3, <2>4, <2>5
<1>11. CASE RecoverRun \/ RecoverUnlogged
  <2>1. Marker \in Records /\ NextLink(Marker)
    BY <1>2, <1>11, ReplayTypes, RecordFields
    DEF Links, RecoverRun, RecoverUnlogged, Unfinished
  <2> QED BY <1>11, <2>1 DEF RecoverRun, RecoverUnlogged, Stored
<1>12. CASE \/ ReachEnd \/ MaxStepsReached \/ Cancelled \/ NodeFails
            \/ RecoverFinished \/ RecoverPaused \/ Crash \/ Forget
            \/ \E a \in Answers : Resume(a)
  BY <1>12 DEF ReachEnd, MaxStepsReached, Cancelled, NodeFails, RecoverFinished,
     RecoverPaused, Crash, Forget, Resume
<1> QED
  BY <1>3, <1>4, <1>5, <1>6, <1>7, <1>8, <1>9, <1>10, <1>11, <1>12 DEF Next, Segment

\* The log of a run is one linear history of the graph (durable.go:19-22): every
\* start, commit and question is of the node the last commit routed to, under
\* the step number after it, whatever crashed, failed or was asked in between.
THEOREM HistoryIsLinear == Spec => []OneHistory
<1>1. Init => Linked(log)
  BY DEF Init, Linked
<1>2. IInv /\ Linked(log) /\ [Next]_vars => Linked(log)'
  <2> SUFFICES ASSUME IInv, Linked(log), [Next]_vars PROVE Linked(log')
    OBVIOUS
  <2>1. CASE log' = log
    BY <2>1
  <2>2. CASE Next /\ log' # log
    <3>1. PICK r \in Records : NextLink(r) /\ log' = Append(log, r)
      BY <2>2, OnlyNextLinks
    <3>2. log \in Seq(Records)
      BY DEF IInv, TypeOK
    <3> QED BY <3>1, <3>2, LinkedAppend DEF NextLink
  <2> QED BY <2>1, <2>2 DEF vars
<1>3. IInv /\ Linked(log) => OneHistory
  <2> SUFFICES ASSUME IInv, Linked(log) PROVE OneHistory
    OBVIOUS
  <2>1. DOMAIN log = 1..Len(log)
    BY DEF IInv, TypeOK
  <2> QED BY <2>1 DEF Linked, OneHistory, Links
<1> QED BY <1>1, <1>2, <1>3, Invariance, PTL DEF Spec

(***************************************************************************)
(* How an append changes what is read off the log                          *)
(***************************************************************************)
\* A question is open and has no answer yet.
Waits(l) == Pending(l) /\ ~Answered(l)

\* What the caller of Recover, and LogicalRun, see of a log.
SameView(l, m) ==
  /\ Pending(m) <=> Pending(l)
  /\ Answered(m) <=> Answered(l)
  /\ ResumeReply(m) = ResumeReply(l)
  /\ StateOf(m) = StateOf(l)

\* A record that says nothing of questions, answers and states.
LEMMA AppendSilent ==
  ASSUME NEW l \in Seq(Records), WellFormed(l), l # <<>>, NEW r \in Records,
         r.kind \in Neutral \ {"resume"}
  PROVE  /\ r.kind # "run_end" \/ r.failed => SameView(l, Append(l, r))
         /\ r.kind = "run_end" /\ ~r.failed =>
              /\ Pending(Append(l, r)) <=> Pending(l)
              /\ Answered(Append(l, r)) <=> Answered(l)
              /\ ResumeReply(Append(l, r)) = ResumeReply(l)
              /\ StateOf(Append(l, r)) = r.state
<1> DEFINE m == Append(l, r)
<1>1. /\ Len(l) \in Nat /\ m[Len(l) + 1] = r /\ \A i \in 1..Len(l) : m[i] = l[i]
  BY Appended
<1>2. /\ Settled(m) = Settled(l) /\ Asked(m) = Asked(l)
      /\ LastOf(m, {"resume"}) = LastOf(l, {"resume"})
  BY LastOfMiss DEF Settled, Asked, Neutral
<1>3. StateAt(m) = IF CarriesState(r) THEN Len(l) + 1 ELSE StateAt(l)
  BY StateAtAppend
<1> HIDE DEF m
<1>4. (Pending(m) <=> Pending(l)) /\ AnswerAt(m) = AnswerAt(l)
  BY <1>2 DEF Pending, AnswerAt
<1>5. Answered(m) <=> Answered(l)
  BY <1>4 DEF Answered
<1>6. ResumeReply(m) = ResumeReply(l)
  <2>1. Answered(l) => AnswerAt(l) \in 1..Len(l)
    BY DEF Answered, AnswerAt, WellFormed
  <2> QED BY <1>1, <1>4, <1>5, <2>1 DEF ResumeReply
<1>7. CarriesState(r) <=> r.kind = "run_end" /\ ~r.failed
  BY DEF CarriesState, Neutral
<1>8. StateAt(l) \in 1..Len(l)
  BY DEF WellFormed
<1>9. StateOf(m) = IF CarriesState(r) THEN r.state ELSE StateOf(l)
  BY <1>1, <1>3, <1>8 DEF StateOf
<1> QED BY <1>4, <1>5, <1>6, <1>7, <1>9 DEF SameView, m

LEMMA AppendAnswer ==
  ASSUME NEW l \in Seq(Records), WellFormed(l), l # <<>>, NEW r \in Records,
         r.kind = "resume"
  PROVE  /\ Pending(Append(l, r)) <=> Pending(l)
         /\ Pending(l) => Answered(Append(l, r)) /\ ResumeReply(Append(l, r)) = r.reply
         /\ StateOf(Append(l, r)) = StateOf(l)
<1> DEFINE m == Append(l, r)
<1>1. /\ Len(l) \in Nat /\ m[Len(l) + 1] = r /\ \A i \in 1..Len(l) : m[i] = l[i]
  BY Appended
<1>2. /\ Settled(m) = Settled(l) /\ Asked(m) = Asked(l)
      /\ LastOf(m, {"resume"}) = Len(l) + 1
  BY LastOfMiss, LastOfHit DEF Settled, Asked
<1>3. StateAt(m) = StateAt(l)
  BY StateAtAppend DEF CarriesState
<1> HIDE DEF m
<1>4. Pending(m) <=> Pending(l)
  BY <1>2 DEF Pending
<1>5. Pending(l) => AnswerAt(m) = Len(l) + 1
  BY <1>1, <1>2, <1>4 DEF AnswerAt, WellFormed
<1>6. Pending(l) => Answered(m) /\ ResumeReply(m) = r.reply
  BY <1>1, <1>5 DEF Answered, ResumeReply
<1>7. StateOf(m) = StateOf(l)
  BY <1>1, <1>3 DEF StateOf, WellFormed
<1> QED BY <1>4, <1>6, <1>7 DEF m

LEMMA AppendedCommit ==
  ASSUME NEW l \in Seq(Records), WellFormed(l), NEW r \in Records, r.kind = "node_commit"
  PROVE  /\ ~Pending(Append(l, r)) /\ ~Answered(Append(l, r))
         /\ ResumeReply(Append(l, r)) = NoAnswer /\ StateOf(Append(l, r)) = r.state
<1> DEFINE m == Append(l, r)
<1>1. Len(l) \in Nat /\ m[Len(l) + 1] = r
  BY Appended
<1>2. Settled(m) = Len(l) + 1 /\ Asked(m) = Asked(l)
  BY LastOfMiss, LastOfHit DEF Settled, Asked
<1>3. StateAt(m) = Len(l) + 1
  BY StateAtAppend DEF CarriesState
<1> HIDE DEF m
<1>4. ~Pending(m)
  BY <1>1, <1>2 DEF Pending, WellFormed
<1>5. ~Answered(m)
  BY <1>4 DEF Answered, AnswerAt
<1> QED BY <1>1, <1>3, <1>4, <1>5 DEF ResumeReply, StateOf, m

LEMMA AppendedQuestion ==
  ASSUME NEW l \in Seq(Records), WellFormed(l), NEW r \in Records, r.kind = "interrupt"
  PROVE  /\ Pending(Append(l, r)) /\ ~Answered(Append(l, r))
         /\ Append(l, r)[Asked(Append(l, r))] = r
         /\ ResumeReply(Append(l, r)) = NoAnswer /\ StateOf(Append(l, r)) = r.state
<1> DEFINE m == Append(l, r)
<1>1. Len(l) \in Nat /\ m[Len(l) + 1] = r
  BY Appended
<1>2. /\ Settled(m) = Settled(l) /\ Asked(m) = Len(l) + 1
      /\ LastOf(m, {"resume"}) = LastOf(l, {"resume"})
  BY LastOfMiss, LastOfHit DEF Settled, Asked
<1>3. StateAt(m) = Len(l) + 1
  BY StateAtAppend DEF CarriesState
<1> HIDE DEF m
<1>4. Pending(m)
  BY <1>1, <1>2 DEF Pending, WellFormed
<1>5. ~Answered(m)
  BY <1>1, <1>2 DEF Answered, AnswerAt, WellFormed
<1> QED BY <1>1, <1>2, <1>3, <1>4, <1>5 DEF ResumeReply, StateOf, m

LEMMA EmptyView ==
  ~Pending(<<>>) /\ ~Answered(<<>>) /\ ~EndedWell(<<>>) /\ ResumeReply(<<>>) = NoAnswer
  BY LastOfNone DEF Pending, Answered, AnswerAt, Asked, Settled, EndedWell, Ended, ResumeReply

(***************************************************************************)
(* What callers are told (CallerIsToldTheTruth, FinishedIsFinal)           *)
(***************************************************************************)
\* The run is under way: no question waits, and it has not succeeded.
Quiet(l) ==
  /\ ~Waits(l) /\ ~EndedWell(l)
  /\ l # <<>> => l[Len(l)].kind # "interrupt"

\* Where the process can be when the log waits for an answer or has ended: not
\* in the loop.  After a store error in "finish" the question may be stored.
Settles ==
  /\ pc \in {"new", "loop", "exec", "edge", "import"} => Quiet(log)
  /\ pc = "import" => ~Pending(log)
  /\ pc = "answer" => ~EndedWell(log)
  /\ pc = "finish" => ~EndedWell(log) /\ held = NoCheckpoint /\ (broken \/ Quiet(log))
  /\ EndedWell(log) => held = NoCheckpoint
  /\ log # <<>> => (Waits(log) <=> log[Len(log)].kind = "interrupt")

\* What the caller was told last, when no segment executes.
Truth ==
  /\ result \in {"ok", "paused"} => pc = "idle"
  /\ result = "ok" => EndedWell(log)
  /\ result = "paused" =>
       /\ Pending(log) /\ ~Answered(log) /\ held.node = log[Asked(log)].node
       /\ held.step = StepOf(log) /\ held.state = StateOf(log)

LEMMA QuietAppend ==
  ASSUME NEW l \in Seq(Records), WellFormed(l), l # <<>>, Quiet(l),
         NEW r \in Records, r.kind \in Neutral, r.kind # "run_end" \/ r.failed
  PROVE  Quiet(Append(l, r))
<1>1. ~Waits(Append(l, r))
  BY AppendSilent, AppendAnswer DEF Waits, Quiet, SameView
<1> QED BY <1>1, Appended DEF Quiet, Neutral

LEMMA QuietCommit ==
  ASSUME NEW l \in Seq(Records), WellFormed(l), NEW r \in Records, r.kind = "node_commit"
  PROVE  Quiet(Append(l, r))
  BY AppendedCommit, Appended DEF Quiet, Waits

LEMMA QuietStart ==
  ASSUME NEW r \in Records, r.kind = "run_start"
  PROVE  Quiet(Append(<<>>, r)) /\ ~Pending(Append(<<>>, r))
<1>1. <<>> \in Seq(Records)
  OBVIOUS
<1> QED BY <1>1, AppendedStart, Appended DEF Quiet, Waits

LEMMA QuietEmpty == Quiet(<<>>)
  BY EmptyView DEF Quiet, Waits

\* A question just stored waits; a run that has just ended does not.
LEMMA AskedLast ==
  ASSUME NEW l \in Seq(Records), WellFormed(l), NEW r \in Records, r.kind = "interrupt"
  PROVE  LET m == Append(l, r) IN
           Waits(m) /\ ~EndedWell(m) /\ m[Len(m)].kind = "interrupt"
  BY AppendedQuestion, Appended DEF Waits

LEMMA EndedLast ==
  ASSUME NEW l \in Seq(Records), WellFormed(l), l # <<>>, Quiet(l),
         NEW r \in Records, r.kind = "run_end"
  PROVE  LET m == Append(l, r) IN
           ~Waits(m) /\ m[Len(m)].kind # "interrupt" /\ (EndedWell(m) <=> ~r.failed)
<1>1. ~Waits(Append(l, r))
  BY AppendSilent DEF Waits, Quiet, SameView, Neutral
<1> QED BY <1>1, Appended

LEMMA AnsweredLast ==
  ASSUME NEW l \in Seq(Records), WellFormed(l), l # <<>>,
         NEW r \in Records, r.kind = "resume"
  PROVE  Quiet(Append(l, r))
<1>1. ~Waits(Append(l, r))
  BY AppendAnswer DEF Waits
<1> QED BY <1>1, Appended DEF Quiet

-----------------------------------------------------------------------------
\* The steps of the loop, and how a run begins and continues.
LEMMA LoopSettles ==
  ASSUME IInv, Settles,
         \/ ReachEnd \/ MaxStepsReached \/ Cancelled \/ NodeFails
         \/ StartNode \/ StartUnlogged \/ \E id \in Sessions : NoteSession(id)
         \/ LogEdge \/ EdgeUnlogged
  PROVE  Settles'
<1> USE DEF IInv
<1>1. /\ pc \in {"loop", "exec", "edge"} /\ pc' \in {"loop", "exec", "edge", "finish"}
      /\ held' = held
  BY DEF ReachEnd, MaxStepsReached, Cancelled, NodeFails, StartNode, StartUnlogged, Starting,
     NoteSession, LogEdge, EdgeUnlogged, EndLoop, caller
<1>2. log # <<>> /\ held = NoCheckpoint /\ log \in Seq(Records) /\ Quiet(log)
  BY <1>1 DEF Located, TypeOK, Settles
<1>3. log' = log \/ \E r \in Records : /\ log' = Append(log, r)
                                       /\ r.kind \in {"node_start", "session", "edge"}
  <2>1. CASE ReachEnd \/ MaxStepsReached \/ Cancelled \/ NodeFails
    BY <2>1 DEF ReachEnd, MaxStepsReached, Cancelled, NodeFails
  <2>2. CASE StartNode \/ StartUnlogged
    <3>1. Rec("node_start", cur, step + 1) \in Records
      BY RecordTypes DEF TypeOK, Kinds
    <3> QED BY <2>2, <3>1, RecordFields, WrittenOrNot DEF StartNode, StartUnlogged
  <2>3. ASSUME NEW id \in Sessions, NoteSession(id)
        PROVE  \/ log' = log
               \/ \E r \in Records : log' = Append(log, r) /\ r.kind = "session"
    <3>1. [Rec("session", cur, step) EXCEPT !.session = id] \in Records
      BY RecordTypes DEF TypeOK
    <3>2. log' \in {log, Append(log, [Rec("session", cur, step) EXCEPT !.session = id])}
      BY <2>3, WrittenOrNot DEF NoteSession
    <3> QED BY <3>1, <3>2, RecordFields
  <2>4. CASE LogEdge \/ EdgeUnlogged
    <3>1. Rec("edge", cur, step) \in Records
      BY RecordTypes DEF TypeOK, Kinds
    <3> QED BY <2>4, <3>1, RecordFields, WrittenOrNot DEF LogEdge, EdgeUnlogged
  <2> QED BY <2>1, <2>2, <2>3, <2>4
<1>4. Quiet(log')
  BY <1>2, <1>3, QuietAppend DEF Neutral
<1> QED BY <1>1, <1>2, <1>4 DEF Settles, Quiet

LEMMA CommitSettles ==
  ASSUME IInv, Settles, cur \in Nodes, NEW next \in Nodes \cup {End},
         NodeDone(next) \/ CommitUnlogged(next)
  PROVE  Settles'
<1> USE DEF IInv
<1>1. pc = "exec" /\ pc' \in {"edge", "finish"} /\ held' = held
  BY DEF NodeDone, CommitUnlogged, EndLoop, caller
<1>2. held = NoCheckpoint /\ log \in Seq(Records) /\ Quiet(log)
  BY <1>1 DEF Located, TypeOK, Settles
<1>3. log' \in {log, Append(log, Commit(next))} /\ Commit(next) \in Records
  BY RecordTypes, WrittenOrNot DEF NodeDone, CommitUnlogged
<1>4. Quiet(log')
  <2>1. Commit(next).kind = "node_commit"
    BY RecordFields
  <2>2. Quiet(Append(log, Commit(next)))
    BY <1>2, <1>3, <2>1, QuietCommit
  <2> QED BY <1>2, <1>3, <2>2
<1> QED BY <1>1, <1>2, <1>4 DEF Settles, Quiet

LEMMA QuestionSettles ==
  ASSUME IInv, Settles, NodeAsks \/ AskUnlogged
  PROVE  Settles'
<1> USE DEF IInv
<1>1. pc = "exec" /\ held = NoCheckpoint /\ log \in Seq(Records) /\ Quiet(log) /\ cur \in Nodes
  BY DEF NodeAsks, AskUnlogged, Located, TypeOK, Settles
<1>2. Question \in Records
  BY <1>1, RecordTypes
<1>3. LET m == Append(log, Question) IN
        Waits(m) /\ ~EndedWell(m) /\ m[Len(m)].kind = "interrupt"
  BY <1>1, <1>2, RecordFields, AskedLast
<1>4. CASE NodeAsks
  <2>1. pc' = "idle" /\ log' = Append(log, Question)
    BY <1>4, GoneTypes DEF NodeAsks
  <2> QED BY <1>3, <2>1 DEF Settles
<1>5. CASE AskUnlogged
  <2>1. pc' = "finish" /\ held' = held
    BY <1>5 DEF AskUnlogged, EndLoop, caller
  <2>2. log' = log \/ (log' = Append(log, Question) /\ broken')
    BY <1>5 DEF AskUnlogged, NotStored
  <2>3. CASE log' = log
    BY <1>1, <2>1, <2>3 DEF Settles, Quiet
  <2>4. CASE log' = Append(log, Question) /\ broken'
    BY <1>1, <1>3, <2>1, <2>4 DEF Settles
  <2> QED BY <2>2, <2>3, <2>4
<1> QED BY <1>4, <1>5

LEMMA RunSettles ==
  ASSUME IInv, Settles,
         \/ \E first \in Targets[Start] : Run(first) \/ RunUnlogged(first)
         \/ RecoverRun \/ RecoverUnlogged
  PROVE  Settles'
<1> USE DEF IInv
<1>1. ASSUME NEW first \in Targets[Start], Run(first) \/ RunUnlogged(first)
      PROVE  Settles'
  <2>1. log = <<>> /\ held = NoCheckpoint /\ held' = held /\ pc' \in {"loop", "finish"}
    BY <1>1 DEF Run, RunUnlogged, Located, EndLoop, caller
  <2>2. Begin(first) \in Records
    BY RunAssumption, RecordTypes DEF TypeOK
  <2>3. log' \in {log, Append(log, Begin(first))}
    BY <1>1, WrittenOrNot DEF Run, RunUnlogged
  <2>4. Quiet(log')
    BY <2>1, <2>2, <2>3, RecordFields, QuietStart, QuietEmpty
  <2> QED BY <2>1, <2>4 DEF Settles, Quiet
<1>2. CASE RecoverRun \/ RecoverUnlogged
  <2>1. /\ pc = "idle" /\ log # <<>> /\ ~EndedWell(log) /\ ~Waits(log)
        /\ log \in Seq(Records) /\ Marker \in Records
    BY <1>2, ReplayTypes DEF RecoverRun, RecoverUnlogged, Unfinished, Waits, TypeOK
  <2>2. Quiet(log)
    BY <2>1 DEF Quiet, Settles
  <2>3. log' \in {log, Append(log, Marker)}
    BY <1>2, WrittenOrNot DEF RecoverRun, RecoverUnlogged
  <2>4. Quiet(log')
    BY <2>1, <2>2, <2>3, RecordFields, QuietAppend DEF Neutral
  <2>5. pc' \in {"loop", "idle"}
    BY <1>2, <2>1 DEF RecoverRun, RecoverUnlogged
  <2> QED BY <2>4, <2>5 DEF Settles, Quiet
<1> QED BY <1>1, <1>2

LEMMA ResumeSettles ==
  ASSUME IInv, Settles,
         \/ \E a \in Answers : Resume(a)
         \/ ImportStart \/ ImportQuestion \/ LogAnswer \/ ResumeUnlogged
  PROVE  Settles'
<1> USE DEF IInv
<1>1. ASSUME NEW a \in Answers, Resume(a)
      PROVE  Settles'
  <2>1. /\ log' = log /\ held' = held /\ held # NoCheckpoint
        /\ pc' = (IF log = <<>> THEN "import" ELSE "answer")
    BY <1>1 DEF Resume
  <2>2. ~EndedWell(log)
    BY <2>1 DEF Settles
  <2> QED BY <2>1, <2>2, QuietEmpty, EmptyView DEF Settles
<1>2. CASE ImportStart \/ ImportQuestion \/ LogAnswer \/ ResumeUnlogged
  <2>1. /\ pc \in {"import", "answer"} /\ cur \in Nodes /\ log \in Seq(Records)
        /\ ~EndedWell(log)
    BY <1>2 DEF ImportStart, ImportQuestion, LogAnswer, ResumeUnlogged, Located, TypeOK,
       Settles, Quiet
  <2>2. Opening \in Records /\ TakenOver \in Records /\ Answer \in Records
    BY <2>1, RecordTypes
  <2>3. \/ log' = log /\ pc' = "idle"
        \/ log = <<>> /\ log' = Append(<<>>, Opening) /\ pc' \in {"idle", "import"}
        \/ log' = Append(log, TakenOver) /\ pc' \in {"idle", "answer"}
        \/ log # <<>> /\ log' = Append(log, Answer) /\ pc' \in {"idle", "loop"}
    <3>1. ImportStart => log = <<>> /\ log' = Append(<<>>, Opening) /\ pc' = "import"
      BY DEF ImportStart, Stored, locals
    <3>2. ImportQuestion => log' = Append(log, TakenOver) /\ pc' = "answer"
      BY DEF ImportQuestion, Stored
    <3>3. LogAnswer => log # <<>> /\ log' = Append(log, Answer) /\ pc' = "loop"
      BY DEF LogAnswer, Stored, Located
    <3>4. ResumeUnlogged => /\ pc' = "idle"
                            /\ \/ log' = log
                               \/ log = <<>> /\ log' = Append(<<>>, Opening)
                               \/ log' = Append(log, TakenOver)
                               \/ log # <<>> /\ log' = Append(log, Answer)
      BY GoneTypes DEF ResumeUnlogged, Located
    <3> QED BY <1>2, <3>1, <3>2, <3>3, <3>4
  <2>4. CASE log' = log /\ pc' = "idle"
    BY <2>1, <2>4 DEF Settles
  <2>5. CASE log = <<>> /\ log' = Append(<<>>, Opening) /\ pc' \in {"idle", "import"}
    <3>1. Quiet(log') /\ ~Pending(log')
      BY <2>2, <2>5, RecordFields, QuietStart
    <3> QED BY <2>5, <3>1 DEF Settles, Quiet
  <2>6. CASE log' = Append(log, TakenOver) /\ pc' \in {"idle", "answer"}
    <3>1. Waits(log') /\ ~EndedWell(log') /\ log'[Len(log')].kind = "interrupt"
      BY <2>1, <2>2, <2>6, RecordFields, AskedLast
    <3> QED BY <2>6, <3>1 DEF Settles
  <2>7. CASE log # <<>> /\ log' = Append(log, Answer) /\ pc' \in {"idle", "loop"}
    <3>1. Quiet(log')
      BY <2>1, <2>2, <2>7, RecordFields, AnsweredLast
    <3> QED BY <2>7, <3>1 DEF Settles, Quiet
  <2> QED BY <2>3, <2>4, <2>5, <2>6, <2>7
<1> QED BY <1>1, <1>2

LEMMA CloseSettles ==
  ASSUME IInv, Settles,
         Finish \/ Crash \/ Forget \/ RecoverFinished \/ RecoverPaused
  PROVE  Settles'
<1> USE DEF IInv
<1>1. CASE Crash \/ Forget \/ RecoverFinished \/ RecoverPaused
  <2>1. log' = log /\ pc' = "idle"
    BY <1>1, GoneTypes DEF Crash, Forget, RecoverFinished, RecoverPaused
  <2>2. EndedWell(log) => held' = NoCheckpoint
    BY <1>1 DEF Crash, Forget, RecoverFinished, RecoverPaused, Settles
  <2> QED BY <2>1, <2>2 DEF Settles
<1>2. CASE Finish
  <2>1. /\ pc = "finish" /\ pc' = "idle" /\ held' = held
        /\ log' = log \/ (log' = Append(log, Closing) /\ ~broken /\ out # "silent")
    BY <1>2, GoneTypes DEF Finish
  <2>2. held = NoCheckpoint /\ log \in Seq(Records) /\ Closing \in Records
    BY <2>1, RecordTypes DEF Settles, TypeOK
  <2>3. CASE log' = log
    BY <2>1, <2>2, <2>3 DEF Settles
  <2>4. CASE log' = Append(log, Closing) /\ ~broken /\ out # "silent"
    <3>1. log # <<>> /\ Quiet(log)
      BY <2>1, <2>4 DEF Located, Settles
    <3>2. ~Waits(log') /\ log'[Len(log')].kind # "interrupt"
      BY <2>2, <2>4, <3>1, RecordFields, EndedLast
    <3> QED BY <2>1, <2>2, <3>2 DEF Settles
  <2> QED BY <2>1, <2>3, <2>4
<1> QED BY <1>1, <1>2

LEMMA StepSettles ==
  ASSUME IInv, Settles, [Next]_vars
  PROVE  Settles'
<1>1. CASE Next
  <2>1. \A next \in (IF cur \in Nodes THEN Targets[cur] ELSE {}) :
           cur \in Nodes /\ next \in Nodes \cup {End}
    BY RunAssumption
  <2> QED
    BY <1>1, <2>1, LoopSettles, CommitSettles, QuestionSettles, RunSettles, ResumeSettles,
       CloseSettles DEF Next, Segment
<1>2. CASE UNCHANGED vars
  BY <1>2 DEF vars, Settles
<1> QED BY <1>1, <1>2

-----------------------------------------------------------------------------
\* The result changes hands only when a segment, or Recover, ends.
LEMMA WhoSpeaks ==
  ASSUME Next
  PROVE  \/ Finish \/ NodeAsks \/ RecoverFinished \/ RecoverPaused
         \/ result' \in {"none", "failed"}
         \/ pc # "idle" /\ result' = result
  BY DEF Next, Segment, EndLoop, caller, Run, RunUnlogged, ReachEnd, MaxStepsReached,
     Cancelled, StartNode, StartUnlogged, Starting, NoteSession, NodeDone, CommitUnlogged,
     NodeFails, AskUnlogged, LogEdge, EdgeUnlogged, ImportStart, ImportQuestion, LogAnswer,
     ResumeUnlogged, RecoverRun, RecoverUnlogged, Resume, Crash, Forget

LEMMA StepTruth ==
  ASSUME IInv, Settles, Truth, [Next]_vars
  PROVE  Truth'
<1> USE DEF IInv
<1>1. CASE UNCHANGED vars
  BY <1>1 DEF vars, Truth
<1>2. CASE Next /\ result' \in {"none", "failed"}
  BY <1>2 DEF Truth
<1>3. CASE Next /\ pc # "idle" /\ result' = result
  BY <1>3 DEF Truth
<1>4. CASE Finish
  <2>1. /\ pc = "finish" /\ pc' = "idle" /\ result' \in {"ok", "failed"}
        /\ result' = "ok" => out = "ok" /\ log' = Append(log, Closing)
    BY <1>4, GoneTypes DEF Finish
  <2>2. log \in Seq(Records) /\ Closing \in Records
    BY RecordTypes DEF TypeOK
  <2>3. out = "ok" => ~Closing.failed
    BY DEF Closing, Rec, Entry
  <2>4. EndedWell(Append(log, Closing)) <=> ~Closing.failed
    BY <2>2, RecordFields, Appended
  <2>5. result' = "ok" => EndedWell(log')
    BY <2>1, <2>3, <2>4
  <2> QED BY <2>1, <2>5 DEF Truth
<1>5. CASE NodeAsks
  <2>1. /\ pc = "exec" /\ pc' = "idle" /\ result' = "paused" /\ log' = Append(log, Question)
        /\ held'.node = cur /\ held'.step = step - 1 /\ held'.state = Left("asked")
    BY <1>5, GoneTypes DEF NodeAsks
  <2>2. /\ cur \in Nodes /\ cur = NextOf(log) /\ step = StepOf(log) + 1 /\ StepOf(log) \in Nat
        /\ log # <<>> /\ log \in Seq(Records)
    BY <2>1 DEF Located, WellFormed, TypeOK
  <2>3. Question \in Records /\ Question.state = Left("asked")
    BY <2>2, RecordTypes DEF Question, Rec, Entry
  <2>4. /\ Pending(log') /\ ~Answered(log') /\ log'[Asked(log')] = Question
        /\ StateOf(log') = Left("asked")
    BY <2>1, <2>2, <2>3, RecordFields, AppendedQuestion
  <2>5. StepOf(log') = StepOf(log)
    BY <2>1, <2>2, <2>3, RecordFields, AppendQuestion
  <2> QED BY <2>1, <2>2, <2>4, <2>5, RecordFields DEF Truth
<1>6. CASE RecoverFinished
  BY <1>6 DEF RecoverFinished, Truth
<1>7. CASE RecoverPaused
  <2>1. /\ log' = log /\ pc' = "idle" /\ result' = "paused" /\ Pending(log) /\ ~Answered(log)
        /\ held'.node = log[Asked(log)].node /\ held'.step = log[Asked(log)].step - 1
        /\ held'.state = StateOf(log) /\ log # <<>>
    BY <1>7 DEF RecoverPaused
  <2>2. log[Asked(log)].step = StepOf(log) + 1 /\ StepOf(log) \in Nat
    BY <2>1 DEF WellFormed
  <2> QED BY <2>1, <2>2 DEF Truth
<1> QED BY <1>1, <1>2, <1>3, <1>4, <1>5, <1>6, <1>7, WhoSpeaks

LEMMA TruthInvariant == Spec => [](Settles /\ Truth)
<1>1. Init => Settles /\ Truth
  BY QuietEmpty, EmptyView DEF Init, Settles, Truth
<1>2. IInv /\ Settles /\ Truth /\ [Next]_vars => (Settles /\ Truth)'
  BY StepSettles, StepTruth
<1> QED BY <1>1, <1>2, Invariance, PTL DEF Spec

\* Success is reported only when the log ends in a good run_end, a question only
\* when Recover would hand back the same checkpoint, and Summarize says "paused"
\* and "done" exactly when Recover would.
THEOREM WhatCallersAreTold == Spec => []CallerIsToldTheTruth
<1>1. IInv /\ Settles /\ Truth => CallerIsToldTheTruth
  <2> SUFFICES ASSUME Settles, Truth, log # <<>>
               PROVE  /\ (StatusOf(log) = "paused") <=> (Waits(log) /\ ~EndedWell(log))
                      /\ (StatusOf(log) = "done") <=> EndedWell(log)
    BY DEF CallerIsToldTheTruth, Truth, Waits
  <2>1. Waits(log) <=> log[Len(log)].kind = "interrupt"
    BY DEF Settles
  <2>2. Ended(log) <=> log[Len(log)].kind = "run_end"
    BY DEF Ended
  <2>3. EndedWell(log) => Ended(log)
    BY DEF EndedWell
  <2>4. CASE Ended(log)
    <3>1. EndedWell(log) => StatusOf(log) = "done"
      BY <2>2, <2>4 DEF StatusOf
    <3>2. ~EndedWell(log) => StatusOf(log) = "failed"
      BY <2>2, <2>4 DEF StatusOf
    <3> QED BY <2>1, <2>2, <2>4, <3>1, <3>2
  <2>5. CASE ~Ended(log)
    <3>1. StatusOf(log) = IF Waits(log) THEN "paused" ELSE "unfinished"
      BY <2>1, <2>3, <2>5 DEF StatusOf
    <3> QED BY <2>3, <2>5, <3>1
  <2> QED BY <2>4, <2>5
<1> QED BY <1>1, Invariance, TruthInvariant, PTL

LEMMA FinalStep ==
  ASSUME IInv, Settles, [Next]_vars, EndedWell(log)
  PROVE  log' = log /\ pc' \in {pc, "idle"}
<1>1. pc = "idle" /\ held = NoCheckpoint
  BY DEF Settles, Quiet, IInv, TypeOK
<1> QED
  BY <1>1 DEF vars, Next, Segment, Run, RunUnlogged, ReachEnd, MaxStepsReached, Cancelled,
     StartNode, StartUnlogged, Starting, NoteSession, NodeDone, CommitUnlogged, NodeFails,
     NodeAsks, AskUnlogged, LogEdge, EdgeUnlogged, Finish, ImportStart, ImportQuestion,
     LogAnswer, ResumeUnlogged, RecoverFinished, RecoverPaused, RecoverRun,
     RecoverUnlogged, Unfinished, Resume, Crash, Forget

\* A run that ended without error is never executed or logged again: no caller has
\* a checkpoint of it, and Recover has nothing to do.
THEOREM TheEndIsFinal == Spec => FinishedIsFinal
<1> DEFINE Final == EndedWell(log) => log' = log /\ pc' \in {pc, "idle"}
<1>1. IInv /\ Settles /\ [Next]_vars => [Final]_vars
  BY FinalStep DEF Final
<1> QED BY <1>1, Invariance, TruthInvariant, PTL DEF Spec, FinishedIsFinal

(***************************************************************************)
(* RunsAsIfUninterrupted, for runs that began in this store: what the      *)
(* process holds is what the log says, so each record it appends is a step *)
(* of the run without crashes.                                             *)
(***************************************************************************)
Continues ==
  /\ pc # "import"
  /\ pc = "new" => reply = NoAnswer
  /\ pc \in {"loop", "exec", "edge"} => state = StateOf(log)
  /\ pc = "loop" => reply = ResumeReply(log)
  /\ pc = "exec" => reply = NoAnswer /\ given.reply = ResumeReply(log)
  /\ pc = "edge" => reply = NoAnswer /\ ResumeReply(log) = NoAnswer
  /\ pc = "answer" => state = held.state /\ reply \in Answers
  /\ pc = "finish" /\ out = "ok" => /\ log # <<>> /\ NextOf(log) = End
                                    /\ state = StateOf(log)
  /\ held # NoCheckpoint => log # <<>> /\ Pending(log) /\ held.state = StateOf(log)
  /\ Answered(log) => ResumeReply(log) \in Answers

\* A record that no caller sees: it is no step of the logical run.
Silent(r) == r.kind \in Neutral \ {"resume"} /\ (r.kind = "run_end" => r.failed)

LEMMA SilentKeepsView ==
  ASSUME NEW l \in Seq(Records), WellFormed(l), l # <<>>, NEW r \in Records, Silent(r)
  PROVE  LET m == Append(l, r) IN
           /\ m # <<>> /\ WellFormed(m) /\ SameView(l, m)
           /\ NextOf(m) = NextOf(l) /\ StepOf(m) = StepOf(l)
<1>1. r.kind \in Neutral /\ r.kind \in Neutral \ {"resume"} /\ (r.kind # "run_end" \/ r.failed)
  BY DEF Silent
<1>2. SameView(l, Append(l, r))
  BY <1>1, AppendSilent
<1> QED BY <1>1, <1>2, AppendNeutral, Appended

\* What the log gains in one step.
Logged ==
  \/ log' = log
  \/ log # <<>> /\ \E r \in Records : Silent(r) /\ log' = Append(log, r)
  \/ log = <<>> /\ \E first \in Targets[Start] : log' = Append(<<>>, Begin(first))
  \/ pc = "exec" /\ cur \in Nodes
       /\ \E next \in Targets[cur] : log' = Append(log, Commit(next))
  \/ pc = "exec" /\ log' = Append(log, Question)
  \/ pc = "answer" /\ log' = Append(log, Answer)
  \/ pc = "finish" /\ out = "ok" /\ ~broken /\ log' = Append(log, Closing)

LEMMA LoopLogs ==
  ASSUME IInv,
         \/ ReachEnd \/ MaxStepsReached \/ Cancelled \/ NodeFails
         \/ StartNode \/ StartUnlogged \/ \E id \in Sessions : NoteSession(id)
         \/ LogEdge \/ EdgeUnlogged \/ RecoverRun \/ RecoverUnlogged
  PROVE  \/ log' = log
         \/ log # <<>> /\ \E r \in Records : Silent(r) /\ log' = Append(log, r)
<1> USE DEF IInv
<1>1. CASE ReachEnd \/ MaxStepsReached \/ Cancelled \/ NodeFails
  BY <1>1 DEF ReachEnd, MaxStepsReached, Cancelled, NodeFails
<1>2. CASE StartNode \/ StartUnlogged
  <2>1. log # <<>> /\ log' \in {log, Append(log, Rec("node_start", cur, step + 1))}
    BY <1>2, WrittenOrNot DEF StartNode, StartUnlogged, Starting, Located
  <2>2. Rec("node_start", cur, step + 1) \in Records
    BY RecordTypes DEF TypeOK, Kinds
  <2>3. Silent(Rec("node_start", cur, step + 1))
    BY RecordFields DEF Silent, Neutral
  <2> QED BY <2>1, <2>2, <2>3
<1>3. ASSUME NEW id \in Sessions, NoteSession(id)
      PROVE  \/ log' = log
             \/ log # <<>> /\ \E r \in Records : Silent(r) /\ log' = Append(log, r)
  <2> DEFINE r == [Rec("session", cur, step) EXCEPT !.session = id]
  <2>1. r \in Records /\ Silent(r)
    BY RecordTypes, RecordFields DEF TypeOK, Silent, Neutral
  <2>2. log # <<>> /\ log' \in {log, Append(log, r)}
    BY <1>3, WrittenOrNot DEF NoteSession, Located
  <2> QED BY <2>1, <2>2
<1>4. CASE LogEdge \/ EdgeUnlogged
  <2>1. log # <<>> /\ log' \in {log, Append(log, Rec("edge", cur, step))}
    BY <1>4, WrittenOrNot DEF LogEdge, EdgeUnlogged, Located
  <2>2. Rec("edge", cur, step) \in Records
    BY RecordTypes DEF TypeOK, Kinds
  <2>3. Silent(Rec("edge", cur, step))
    BY RecordFields DEF Silent, Neutral
  <2> QED BY <2>1, <2>2, <2>3
<1>5. CASE RecoverRun \/ RecoverUnlogged
  <2>1. log # <<>> /\ log' \in {log, Append(log, Marker)}
    BY <1>5, WrittenOrNot DEF RecoverRun, RecoverUnlogged, Unfinished
  <2>2. Marker \in Records /\ Silent(Marker)
    BY <2>1, ReplayTypes, RecordFields DEF Silent, Neutral
  <2> QED BY <2>1, <2>2
<1> QED BY <1>1, <1>2, <1>3, <1>4, <1>5

LEMMA FinishLogs ==
  ASSUME IInv, Finish
  PROVE  \/ log' = log
         \/ log # <<>> /\ \E r \in Records : Silent(r) /\ log' = Append(log, r)
         \/ pc = "finish" /\ out = "ok" /\ ~broken /\ log' = Append(log, Closing)
<1>1. /\ pc = "finish" /\ Closing \in Records
      /\ log' = log \/ (log' = Append(log, Closing) /\ ~broken /\ out # "silent")
  BY RecordTypes DEF IInv, TypeOK, Finish
<1>2. out # "ok" => Silent(Closing)
  <2>1. Closing.kind = "run_end" /\ Closing.failed = (out # "ok")
    BY DEF Closing, Rec, Entry
  <2> QED BY <2>1 DEF Silent, Neutral
<1>3. out # "silent" => log # <<>>
  BY <1>1 DEF IInv, Located
<1> QED BY <1>1, <1>2, <1>3

LEMMA StepLogs ==
  ASSUME IInv, Continues, [Next]_vars
  PROVE  Logged
<1>1. CASE UNCHANGED vars
  BY <1>1 DEF vars, Logged
<1>2. ASSUME NEW first \in Targets[Start], Run(first) \/ RunUnlogged(first)
      PROVE  Logged
  <2>1. log = <<>> /\ log' \in {log, Append(log, Begin(first))}
    BY <1>2, WrittenOrNot DEF Run, RunUnlogged, IInv, Located
  <2> QED BY <2>1 DEF Logged
<1>3. ASSUME NEW next \in (IF cur \in Nodes THEN Targets[cur] ELSE {}),
             NodeDone(next) \/ CommitUnlogged(next)
      PROVE  Logged
  <2>1. pc = "exec" /\ log' \in {log, Append(log, Commit(next))}
    BY <1>3, WrittenOrNot DEF NodeDone, CommitUnlogged
  <2> QED BY <2>1 DEF Logged
<1>4. CASE NodeAsks \/ AskUnlogged
  <2>1. pc = "exec" /\ log' \in {log, Append(log, Question)}
    BY <1>4, WrittenOrNot DEF NodeAsks, AskUnlogged
  <2> QED BY <2>1 DEF Logged
<1>5. CASE ImportStart \/ ImportQuestion \/ LogAnswer \/ ResumeUnlogged
  <2>1. pc = "answer" /\ log' \in {log, Append(log, Answer)}
    BY <1>5 DEF ImportStart, ImportQuestion, LogAnswer, ResumeUnlogged, Continues, Stored
  <2> QED BY <2>1 DEF Logged
<1>6. CASE \/ RecoverFinished \/ RecoverPaused \/ Crash \/ Forget
           \/ \E a \in Answers : Resume(a)
  BY <1>6 DEF RecoverFinished, RecoverPaused, Crash, Forget, Resume, Logged
<1>7. CASE \/ ReachEnd \/ MaxStepsReached \/ Cancelled \/ NodeFails
           \/ StartNode \/ StartUnlogged \/ \E id \in Sessions : NoteSession(id)
           \/ LogEdge \/ EdgeUnlogged \/ RecoverRun \/ RecoverUnlogged
  BY <1>7, LoopLogs DEF Logged
<1>8. CASE Finish
  BY <1>8, FinishLogs DEF Logged
<1> QED
  BY <1>1, <1>2, <1>3, <1>4, <1>5, <1>6, <1>7, <1>8 DEF Next, Segment

\* What callers and the logical run see is as it was.
Unmoved ==
  /\ log = <<>> <=> log' = <<>>
  /\ log # <<>> => SameView(log, log') /\ NextOf(log') = NextOf(log)
  /\ Answered(log') => ResumeReply(log') \in Answers

LEMMA SilentIsUnmoved ==
  ASSUME IInv, Continues,
         log' = log \/ (log # <<>> /\ \E r \in Records : Silent(r) /\ log' = Append(log, r))
  PROVE  Unmoved
<1>1. CASE log' = log
  BY <1>1 DEF Unmoved, SameView, Continues
<1>2. CASE log # <<>> /\ \E r \in Records : Silent(r) /\ log' = Append(log, r)
  BY <1>2, SilentKeepsView DEF Unmoved, SameView, Continues, IInv, TypeOK
<1> QED BY <1>1, <1>2

LEMMA LoopContinues ==
  ASSUME IInv, Continues,
         \/ ReachEnd \/ MaxStepsReached \/ Cancelled \/ NodeFails
         \/ StartNode \/ StartUnlogged \/ \E id \in Sessions : NoteSession(id)
         \/ LogEdge \/ EdgeUnlogged
  PROVE  Continues'
<1> USE DEF IInv
<1>1. pc \in {"loop", "exec", "edge"} /\ held' = held
  BY DEF ReachEnd, MaxStepsReached, Cancelled, NodeFails, StartNode, StartUnlogged, Starting,
     NoteSession, LogEdge, EdgeUnlogged, caller
<1>2. log # <<>> /\ held = NoCheckpoint /\ state = StateOf(log)
  BY <1>1 DEF Located, Continues
<1>3. Unmoved
  BY LoopLogs, SilentIsUnmoved
<1>4. /\ log' # <<>> /\ StateOf(log') = StateOf(log) /\ ResumeReply(log') = ResumeReply(log)
      /\ NextOf(log') = NextOf(log) /\ (Answered(log') => ResumeReply(log') \in Answers)
  BY <1>2, <1>3 DEF Unmoved, SameView
<1>5. CASE ReachEnd
  <2>1. cur = NextOf(log) /\ cur = End /\ state' = state /\ pc' = "finish"
    BY <1>5 DEF ReachEnd, Located, EndLoop
  <2> QED BY <1>1, <1>2, <1>4, <2>1 DEF Continues
<1>6. CASE MaxStepsReached \/ Cancelled \/ NodeFails \/ StartUnlogged \/ EdgeUnlogged
  <2>1. pc' = "finish" /\ out' # "ok"
    BY <1>6 DEF MaxStepsReached, Cancelled, NodeFails, StartUnlogged, EdgeUnlogged, EndLoop
  <2> QED BY <1>1, <1>2, <1>4, <2>1 DEF Continues
<1>7. CASE StartNode
  <2>1. /\ pc = "loop" /\ pc' = "exec" /\ state' = state /\ reply' = NoAnswer
        /\ given' = [given EXCEPT !.reply = reply]
    BY <1>7 DEF StartNode, Starting
  <2>2. given'.reply = reply
    BY <2>1 DEF TypeOK
  <2>3. reply = ResumeReply(log)
    BY <2>1 DEF Continues
  <2> QED BY <1>1, <1>2, <1>4, <2>1, <2>2, <2>3 DEF Continues
<1>8. ASSUME NEW id \in Sessions, NoteSession(id)
      PROVE  Continues'
  <2>1. pc = "exec" /\ pc' = pc /\ state' = state /\ reply' = reply /\ given' = given
    BY <1>8 DEF NoteSession
  <2> QED BY <1>1, <1>2, <1>4, <2>1 DEF Continues
<1>9. CASE LogEdge
  <2>1. pc = "edge" /\ pc' = "loop" /\ state' = state /\ reply' = reply
    BY <1>9 DEF LogEdge
  <2> QED BY <1>1, <1>2, <1>4, <2>1 DEF Continues
<1> QED BY <1>5, <1>6, <1>7, <1>8, <1>9

LEMMA NodeContinues ==
  ASSUME IInv, Continues,
         \/ \E next \in (IF cur \in Nodes THEN Targets[cur] ELSE {}) :
               NodeDone(next) \/ CommitUnlogged(next)
         \/ NodeAsks \/ AskUnlogged
  PROVE  Continues'
<1> USE DEF IInv
<1>1. pc = "exec" /\ log # <<>> /\ held = NoCheckpoint /\ log \in Seq(Records) /\ cur \in Nodes
      /\ reply = NoAnswer
  BY DEF NodeDone, CommitUnlogged, NodeAsks, AskUnlogged, Located, TypeOK, Continues
<1>2. ASSUME NEW next \in (IF cur \in Nodes THEN Targets[cur] ELSE {}),
             NodeDone(next) \/ CommitUnlogged(next)
      PROVE  Continues'
  <2>1. /\ state' = Left("done") /\ reply' = reply /\ held' = held
        /\ log' \in {log, Append(log, Commit(next))}
        /\ \/ pc' = "edge" /\ log' = Append(log, Commit(next))
           \/ pc' = "finish" /\ out' = "failed"
    BY <1>2, WrittenOrNot DEF NodeDone, CommitUnlogged, Stored, EndLoop, caller
  <2>2. Commit(next) \in Records /\ Commit(next).state = Left("done")
    <3>1. next \in Nodes \cup {End}
      BY <1>1, RunAssumption
    <3> QED BY <1>1, <3>1, RecordTypes DEF Commit, Rec, Entry, TypeOK
  <2>3. LET m == Append(log, Commit(next)) IN
          ~Answered(m) /\ ResumeReply(m) = NoAnswer /\ StateOf(m) = Left("done")
    BY <1>1, <2>2, RecordFields, AppendedCommit
  <2>4. Answered(log') => ResumeReply(log') \in Answers
    BY <2>1, <2>3 DEF Continues
  <2>5. held' = NoCheckpoint
    BY <1>1, <2>1
  <2> QED BY <1>1, <2>1, <2>3, <2>4, <2>5 DEF Continues
<1>3. Question \in Records /\ Question.state = Left("asked")
  BY <1>1, RecordTypes DEF Question, Rec, Entry
<1>4. LET m == Append(log, Question) IN
        m # <<>> /\ Pending(m) /\ ~Answered(m) /\ StateOf(m) = Left("asked")
  BY <1>1, <1>3, RecordFields, AppendedQuestion, Appended
<1>5. CASE NodeAsks
  <2>1. pc' = "idle" /\ log' = Append(log, Question) /\ held'.state = Left("asked")
    BY <1>5, GoneTypes DEF NodeAsks
  <2> QED BY <1>4, <2>1 DEF Continues
<1>6. CASE AskUnlogged
  <2>1. /\ pc' = "finish" /\ out' = "failed" /\ held' = held
        /\ log' \in {log, Append(log, Question)}
    BY <1>6, WrittenOrNot DEF AskUnlogged, EndLoop, caller
  <2>2. Answered(log') => ResumeReply(log') \in Answers
    BY <1>4, <2>1 DEF Continues
  <2> QED BY <1>1, <2>1, <2>2 DEF Continues
<1> QED BY <1>2, <1>5, <1>6

LEMMA CallContinues ==
  ASSUME IInv, Continues,
         \/ \E first \in Targets[Start] : Run(first) \/ RunUnlogged(first)
         \/ RecoverRun \/ RecoverUnlogged \/ RecoverFinished \/ RecoverPaused
         \/ Crash \/ Forget \/ \E a \in Answers : Resume(a)
  PROVE  Continues'
<1> USE DEF IInv
<1>1. ASSUME NEW first \in Targets[Start], Run(first) \/ RunUnlogged(first)
      PROVE  Continues'
  <2>1. /\ pc = "new" /\ log = <<>> /\ state = <<>> /\ reply = NoAnswer
        /\ held = NoCheckpoint /\ held' = held /\ state' = state /\ reply' = reply
        /\ log' \in {log, Append(log, Begin(first))}
        /\ \/ pc' = "loop" /\ log' = Append(log, Begin(first))
           \/ pc' = "finish" /\ out' = "silent"
    BY <1>1, WrittenOrNot
    DEF Run, RunUnlogged, Located, Continues, EndLoop, caller, Stored
  <2>2. Begin(first) \in Records /\ Begin(first).state = <<>>
    BY RunAssumption, RecordTypes DEF TypeOK, Begin, Rec, Entry
  <2>3. LET m == Append(<<>>, Begin(first)) IN
          ~Answered(m) /\ ResumeReply(m) = NoAnswer /\ StateOf(m) = <<>>
    BY <2>2, RecordFields, AppendedStart
  <2>4. Answered(log') => ResumeReply(log') \in Answers
    BY <2>1, <2>3, EmptyView
  <2> QED BY <2>1, <2>3, <2>4 DEF Continues
<1>2. CASE RecoverRun \/ RecoverUnlogged
  <2>1. log # <<>> /\ Unmoved
    BY <1>2, LoopLogs, SilentIsUnmoved DEF RecoverRun, RecoverUnlogged, Unfinished
  <2>2. CASE RecoverRun
    <3>1. /\ pc' = "loop" /\ state' = StateOf(log) /\ reply' = ResumeReply(log)
          /\ held' = NoCheckpoint
      BY <2>2 DEF RecoverRun
    <3> QED BY <2>1, <3>1 DEF Continues, Unmoved, SameView
  <2>3. CASE RecoverUnlogged
    <3>1. pc' = "idle" /\ held' = held
      BY <2>3 DEF RecoverUnlogged, Unfinished
    <3> QED BY <2>1, <3>1 DEF Continues, Unmoved, SameView
  <2> QED BY <1>2, <2>2, <2>3
<1>3. CASE RecoverFinished \/ Crash \/ Forget
  <2>1. log' = log /\ pc' = "idle" /\ held' \in {held, NoCheckpoint}
    BY <1>3, GoneTypes DEF RecoverFinished, Crash, Forget
  <2> QED BY <2>1 DEF Continues
<1>4. CASE RecoverPaused
  <2>1. /\ log' = log /\ pc' = "idle" /\ held'.state = StateOf(log)
        /\ log # <<>> /\ Pending(log)
    BY <1>4 DEF RecoverPaused
  <2> QED BY <2>1 DEF Continues
<1>5. ASSUME NEW a \in Answers, Resume(a)
      PROVE  Continues'
  <2>1. /\ log' = log /\ held' = held /\ state' = held.state /\ reply' = a
        /\ pc' = (IF log = <<>> THEN "import" ELSE "answer") /\ held # NoCheckpoint
    BY <1>5 DEF Resume
  <2>2. pc' = "answer"
    BY <2>1 DEF Continues
  <2> QED BY <2>1, <2>2 DEF Continues
<1> QED BY <1>1, <1>2, <1>3, <1>4, <1>5

LEMMA EndContinues ==
  ASSUME IInv, Settles, Continues,
         \/ Finish \/ ImportStart \/ ImportQuestion \/ LogAnswer \/ ResumeUnlogged
  PROVE  Continues'
<1> USE DEF IInv
<1>1. CASE Finish
  <2>1. pc = "finish" /\ pc' = "idle" /\ held' = held /\ held = NoCheckpoint
    BY <1>1, GoneTypes DEF Finish, Settles
  <2>2. Answered(log') => ResumeReply(log') \in Answers
    <3>1. CASE \/ log' = log
               \/ log # <<>> /\ \E r \in Records : Silent(r) /\ log' = Append(log, r)
      BY <3>1, SilentIsUnmoved DEF Unmoved
    <3>2. CASE out = "ok" /\ log' = Append(log, Closing)
      <4>1. log # <<>> /\ log \in Seq(Records) /\ Closing \in Records
        BY <2>1, <3>2, RecordTypes DEF Located, TypeOK
      <4>2. Closing.kind = "run_end" /\ ~Closing.failed /\ Closing.kind \in Neutral \ {"resume"}
        BY <3>2 DEF Closing, Rec, Entry, Neutral
      <4>3. (Answered(log') <=> Answered(log)) /\ ResumeReply(log') = ResumeReply(log)
        BY <3>2, <4>1, <4>2, AppendSilent
      <4> QED BY <4>3 DEF Continues
    <3> QED BY <1>1, <3>1, <3>2, FinishLogs
  <2> QED BY <2>1, <2>2 DEF Continues
<1>2. CASE ImportStart \/ ImportQuestion \/ LogAnswer \/ ResumeUnlogged
  <2>1. /\ pc = "answer" /\ log' \in {log, Append(log, Answer)}
        /\ \/ /\ pc' = "loop" /\ log' = Append(log, Answer) /\ held' = NoCheckpoint
              /\ state' = state /\ reply' = reply
           \/ pc' = "idle" /\ held' = held
    BY <1>2, GoneTypes
    DEF ImportStart, ImportQuestion, LogAnswer, ResumeUnlogged, Continues, Stored, locals
  <2>2. /\ held # NoCheckpoint /\ log # <<>> /\ log \in Seq(Records) /\ cur \in Nodes
        /\ Pending(log) /\ held.state = StateOf(log) /\ state = held.state /\ reply \in Answers
    BY <2>1, NamesAreDistinct DEF Located, NoCheckpoint, TypeOK, Continues
  <2>3. Answer \in Records /\ Answer.reply = reply
    BY RecordTypes DEF TypeOK, Answer, Rec, Entry
  <2>4. LET m == Append(log, Answer) IN
          m # <<>> /\ Pending(m) /\ ResumeReply(m) = reply /\ StateOf(m) = StateOf(log)
    BY <2>2, <2>3, RecordFields, AppendAnswer, Appended
  <2>5. CASE log' = Append(log, Answer)
    BY <2>1, <2>2, <2>4, <2>5 DEF Continues
  <2>6. CASE log' = log
    <3>1. Append(log, Answer) # log
      BY <2>2
    <3> QED BY <2>1, <2>6, <3>1 DEF Continues
  <2> QED BY <2>1, <2>5, <2>6
<1> QED BY <1>1, <1>2

LEMMA StepContinues ==
  ASSUME IInv, Settles, Continues, [Next]_vars
  PROVE  Continues'
<1>1. CASE UNCHANGED vars
  BY <1>1 DEF vars, Continues
<1>2. CASE Next
  BY <1>2, LoopContinues, NodeContinues, CallContinues, EndContinues DEF Next, Segment
<1> QED BY <1>1, <1>2

-----------------------------------------------------------------------------
(***************************************************************************)
(* The refinement: each record is a step of the logical run, or none.      *)
(***************************************************************************)
\* What LogicalRun sees of a log.
SameRun ==
  /\ log = <<>> <=> log' = <<>>
  /\ log # <<>> => /\ NextOf(log') = NextOf(log) /\ StepOf(log') = StepOf(log)
                   /\ StateOf(log') = StateOf(log)
  /\ Pending(log') <=> Pending(log)
  /\ ResumeReply(log') = ResumeReply(log)
  /\ EndedWell(log') <=> EndedWell(log)

LEMMA Stutter ==
  ASSUME SameRun
  PROVE  UNCHANGED Logical!vars
<1>1. (Pending(log') = Pending(log)) /\ (EndedWell(log') = EndedWell(log))
  BY DEF SameRun, Pending, EndedWell
<1>2. (IF Answered(log') THEN log'[AnswerAt(log')].reply ELSE NoAnswer)
        = (IF Answered(log) THEN log[AnswerAt(log)].reply ELSE NoAnswer)
  BY DEF SameRun, ResumeReply
<1> QED BY <1>1, <1>2 DEF SameRun, Logical!vars

LEMMA SilentStep ==
  ASSUME IInv, Settles, log # <<>>,
         NEW r \in Records, Silent(r), log' = Append(log, r), ~EndedWell(log)
  PROVE  SameRun
<1>1. /\ log' # <<>> /\ SameView(log, log')
      /\ NextOf(log') = NextOf(log) /\ StepOf(log') = StepOf(log)
  BY SilentKeepsView DEF IInv, TypeOK
<1>2. ~EndedWell(log')
  BY Appended DEF IInv, TypeOK, Silent
<1> QED BY <1>1, <1>2 DEF SameRun, SameView

\* The reply of the logical run is what Recover gives the node.
ReplyOf(l) == IF Answered(l) THEN l[AnswerAt(l)].reply ELSE NoAnswer

LEMMA BeginStep ==
  ASSUME log = <<>>, NEW first \in Targets[Start], log' = Append(<<>>, Begin(first)),
         IInv
  PROVE  Logical!Begin
<1>1. /\ Begin(first) \in Records /\ Begin(first).state = <<>>
      /\ first \in Nodes \cup {End}
  BY RunAssumption, RecordTypes DEF IInv, TypeOK, Begin, Rec, Entry
<1>2. /\ ~Pending(log') /\ ~Answered(log') /\ StateOf(log') = <<>>
      /\ NextOf(log') = first /\ StepOf(log') = 0
  BY <1>1, RecordFields, AppendedStart, AppendStart
<1>3. /\ log' # <<>> /\ ~EndedWell(log')
  <2>1. <<>> \in Seq(Records)
    OBVIOUS
  <2>2. Begin(first).kind = "run_start"
    BY RecordFields
  <2>3. LET m == Append(<<>>, Begin(first)) IN m # <<>> /\ ~EndedWell(m)
    BY <1>1, <2>1, <2>2, Appended
  <2> QED BY <2>3
<1>4. ~Pending(log) /\ ~Answered(log) /\ ~EndedWell(log)
  BY EmptyView
<1>5. (Pending(log') = Pending(log)) /\ (EndedWell(log') = EndedWell(log))
  BY <1>2, <1>3, <1>4 DEF Pending, EndedWell
<1> QED BY <1>2, <1>3, <1>4, <1>5 DEF Logical!Begin

\* Where the executing node stands in the logical run.
LEMMA ExecutingIsNext ==
  ASSUME IInv, Settles, Continues, pc = "exec"
  PROVE  /\ log # <<>> /\ log \in Seq(Records) /\ cur \in Nodes /\ cur = NextOf(log)
         /\ StepOf(log) < MaxSteps /\ step = StepOf(log) + 1 /\ StepOf(log) \in Nat
         /\ state = StateOf(log) /\ given.reply = ReplyOf(log)
         /\ Pending(log) => ReplyOf(log) # NoAnswer
         /\ ~EndedWell(log)
<1>1. /\ log # <<>> /\ log \in Seq(Records) /\ cur \in Nodes /\ cur = NextOf(log)
      /\ step = StepOf(log) + 1 /\ step \in 1..MaxSteps /\ StepOf(log) \in Nat
  BY DEF IInv, Located, TypeOK, WellFormed
<1>2. state = StateOf(log) /\ given.reply = ReplyOf(log)
  BY DEF Continues, ResumeReply, ReplyOf
<1>3. ~Waits(log) /\ ~EndedWell(log)
  BY DEF Settles, Quiet
<1>4. Pending(log) => ReplyOf(log) # NoAnswer
  BY <1>3, NamesAreDistinct DEF Waits, Continues, ResumeReply, ReplyOf
<1> QED BY <1>1, <1>2, <1>3, <1>4, RunAssumption

LEMMA DoStep ==
  ASSUME IInv, Settles, Continues, pc = "exec", NEW next \in Targets[cur],
         log' = Append(log, Commit(next))
  PROVE  Logical!Do
<1>1. /\ log # <<>> /\ log \in Seq(Records) /\ cur \in Nodes /\ cur = NextOf(log)
      /\ StepOf(log) < MaxSteps /\ step = StepOf(log) + 1
      /\ state = StateOf(log) /\ given.reply = ReplyOf(log)
      /\ Pending(log) => ReplyOf(log) # NoAnswer
      /\ ~EndedWell(log)
  BY ExecutingIsNext
<1>2. /\ Commit(next) \in Records /\ Commit(next).state = Left("done")
      /\ next \in Nodes \cup {End}
  <2>1. next \in Nodes \cup {End}
    BY <1>1, RunAssumption
  <2> QED BY <1>1, <2>1, RecordTypes DEF Commit, Rec, Entry, IInv, TypeOK
<1>3. /\ ~Pending(log') /\ ~Answered(log') /\ StateOf(log') = Left("done")
  BY <1>1, <1>2, RecordFields, AppendedCommit DEF IInv
<1>4. NextOf(log') = next /\ StepOf(log') = StepOf(log) + 1
  BY <1>1, <1>2, RecordFields, AppendCommit DEF IInv
<1>5. log' # <<>> /\ ~EndedWell(log')
  BY <1>1, <1>2, RecordFields, Appended
<1>6. (Pending(log') = FALSE) /\ (EndedWell(log') = EndedWell(log))
  BY <1>1, <1>3, <1>5 DEF Pending, EndedWell
<1>7. Left("done") = Append(StateOf(log), [node |-> NextOf(log), reply |-> ReplyOf(log),
                                           how |-> "done"])
  BY <1>1 DEF Left, Mark
<1>8. (IF Answered(log') THEN log'[AnswerAt(log')].reply ELSE NoAnswer) = NoAnswer
  BY <1>3
<1> QED
  BY <1>1, <1>3, <1>4, <1>5, <1>6, <1>7, <1>8 DEF Logical!Do, Logical!Leaves, ReplyOf

LEMMA AskStep ==
  ASSUME IInv, Settles, Continues, pc = "exec", log' = Append(log, Question)
  PROVE  Logical!Ask
<1>1. /\ log # <<>> /\ log \in Seq(Records) /\ cur \in Nodes /\ cur = NextOf(log)
      /\ StepOf(log) < MaxSteps /\ step = StepOf(log) + 1
      /\ state = StateOf(log) /\ given.reply = ReplyOf(log)
      /\ Pending(log) => ReplyOf(log) # NoAnswer
      /\ ~EndedWell(log)
  BY ExecutingIsNext
<1>2. Question \in Records /\ Question.state = Left("asked")
  BY <1>1, RecordTypes DEF Question, Rec, Entry, IInv, TypeOK
<1>3. Pending(log') /\ ~Answered(log') /\ StateOf(log') = Left("asked")
  BY <1>1, <1>2, RecordFields, AppendedQuestion DEF IInv
<1>4. NextOf(log') = NextOf(log) /\ StepOf(log') = StepOf(log)
  BY <1>1, <1>2, RecordFields, AppendQuestion DEF IInv
<1>5. log' # <<>> /\ ~EndedWell(log')
  BY <1>1, <1>2, RecordFields, Appended
<1>6. (Pending(log') = TRUE) /\ (EndedWell(log') = EndedWell(log))
  BY <1>1, <1>3, <1>5 DEF Pending, EndedWell
<1>7. Left("asked") = Append(StateOf(log), [node |-> NextOf(log), reply |-> ReplyOf(log),
                                            how |-> "asked"])
  BY <1>1 DEF Left, Mark
<1>8. (IF Answered(log') THEN log'[AnswerAt(log')].reply ELSE NoAnswer) = NoAnswer
  BY <1>3
<1> QED
  BY <1>1, <1>3, <1>4, <1>5, <1>6, <1>7, <1>8 DEF Logical!Ask, Logical!Leaves, ReplyOf

LEMMA ReplyStep ==
  ASSUME IInv, Settles, Continues, pc = "answer", log' = Append(log, Answer)
  PROVE  Logical!Reply
<1>1. /\ log # <<>> /\ log \in Seq(Records) /\ Pending(log) /\ reply \in Answers
      /\ ~EndedWell(log)
  BY NamesAreDistinct
  DEF IInv, Located, NoCheckpoint, TypeOK, Continues, Settles
<1>2. Answer \in Records /\ Answer.reply = reply
  BY RecordTypes DEF IInv, TypeOK, Answer, Rec, Entry
<1>3. /\ Pending(log') /\ Answered(log') /\ ResumeReply(log') = reply
      /\ StateOf(log') = StateOf(log)
  BY <1>1, <1>2, RecordFields, AppendAnswer DEF IInv
<1>4. NextOf(log') = NextOf(log) /\ StepOf(log') = StepOf(log)
  BY <1>1, <1>2, RecordFields, AppendNeutral DEF IInv, Neutral
<1>5. log' # <<>> /\ ~EndedWell(log')
  BY <1>1, <1>2, RecordFields, Appended
<1>6. (Pending(log') = Pending(log)) /\ (EndedWell(log') = EndedWell(log))
  BY <1>1, <1>3, <1>5 DEF Pending, EndedWell
<1>7. (IF Answered(log') THEN log'[AnswerAt(log')].reply ELSE NoAnswer) \in Answers
  BY <1>1, <1>3 DEF ResumeReply
<1> QED BY <1>1, <1>3, <1>4, <1>5, <1>6, <1>7 DEF Logical!Reply

LEMMA FinishStep ==
  ASSUME IInv, Settles, Continues, pc = "finish", out = "ok", log' = Append(log, Closing)
  PROVE  Logical!Finish
<1>1. /\ log # <<>> /\ log \in Seq(Records) /\ NextOf(log) = End /\ state = StateOf(log)
  BY DEF IInv, TypeOK, Continues
<1>2. /\ Closing \in Records /\ Closing.state = state /\ ~Closing.failed
      /\ Closing.kind = "run_end" /\ Closing.kind \in Neutral \ {"resume"}
      /\ Closing.kind \in Neutral
  BY RecordTypes DEF IInv, TypeOK, Closing, Rec, Entry, Neutral
<1>3. /\ Pending(log') <=> Pending(log)
      /\ ResumeReply(log') = ResumeReply(log) /\ StateOf(log') = StateOf(log)
  BY <1>1, <1>2, AppendSilent DEF IInv
<1>4. NextOf(log') = NextOf(log) /\ StepOf(log') = StepOf(log)
  BY <1>1, <1>2, AppendNeutral DEF IInv
<1>5. log' # <<>> /\ EndedWell(log')
  BY <1>1, <1>2, Appended
<1>6. (Pending(log') = Pending(log)) /\ (EndedWell(log') = TRUE)
  BY <1>3, <1>5 DEF Pending, EndedWell
<1>7. (IF Answered(log') THEN log'[AnswerAt(log')].reply ELSE NoAnswer)
        = (IF Answered(log) THEN log[AnswerAt(log)].reply ELSE NoAnswer)
  BY <1>3 DEF ResumeReply
<1> QED BY <1>1, <1>3, <1>4, <1>5, <1>6, <1>7 DEF Logical!Finish

LEMMA Simulation ==
  ASSUME IInv, Settles, Continues, [Next]_vars
  PROVE  [Logical!Next]_(Logical!vars)
<1>1. Logged
  BY StepLogs
<1>2. CASE log' = log
  <2>1. SameRun
    BY <1>2 DEF SameRun
  <2> QED BY <2>1, Stutter
<1>3. CASE log # <<>> /\ \E r \in Records : Silent(r) /\ log' = Append(log, r)
  <2>1. PICK r \in Records : Silent(r) /\ log' = Append(log, r)
    BY <1>3
  <2>2. log' # log
    <3>1. log \in Seq(Records)
      BY DEF IInv, TypeOK
    <3>2. Append(log, r) # log
      BY <3>1
    <3> QED BY <2>1, <3>2
  <2>3. ~EndedWell(log)
    BY <2>2, FinalStep
  <2> QED BY <1>3, <2>1, <2>3, SilentStep, Stutter
<1>4. CASE /\ log = <<>>
           /\ \E first \in Targets[Start] : log' = Append(<<>>, Begin(first))
  BY <1>4, BeginStep DEF Logical!Next
<1>5. CASE /\ pc = "exec" /\ cur \in Nodes
           /\ \E next \in Targets[cur] : log' = Append(log, Commit(next))
  BY <1>5, DoStep DEF Logical!Next
<1>6. CASE pc = "exec" /\ log' = Append(log, Question)
  BY <1>6, AskStep DEF Logical!Next
<1>7. CASE pc = "answer" /\ log' = Append(log, Answer)
  BY <1>7, ReplyStep DEF Logical!Next
<1>8. CASE pc = "finish" /\ out = "ok" /\ ~broken /\ log' = Append(log, Closing)
  BY <1>8, FinishStep DEF Logical!Next
<1> QED BY <1>1, <1>2, <1>3, <1>4, <1>5, <1>6, <1>7, <1>8 DEF Logged

LEMMA ContinuesAlways ==
  ASSUME Imported = {}
  PROVE  Spec => []Continues
<1>1. Init => Continues
  BY EmptyView DEF Init, Continues
<1>2. IInv /\ Settles /\ Continues /\ [Next]_vars => Continues'
  BY StepContinues
<1> QED BY <1>1, <1>2, Invariance, TruthInvariant, PTL DEF Spec

\* Through the log, a run of this store with any number of crashes, store failures,
\* pauses and recoveries is one run of the graph without them: each node works on
\* what its predecessor left, gets the answer to its question and moves the run on
\* once (the package comment of durable.go).
THEOREM CrashesAreInvisible ==
  ASSUME Imported = {}
  PROVE  Spec => RunsAsIfUninterrupted
<1>1. Init => Logical!Init
  <2>1. (Pending(<<>>) = FALSE) /\ (EndedWell(<<>>) = FALSE)
    BY EmptyView DEF Pending, EndedWell
  <2> QED BY <2>1, EmptyView DEF Init, Logical!Init
<1>2. IInv /\ Settles /\ Continues /\ [Next]_vars => [Logical!Next]_(Logical!vars)
  BY Simulation
<1> QED
  BY <1>1, <1>2, Invariance, TruthInvariant, ContinuesAlways, PTL
  DEF Spec, RunsAsIfUninterrupted, Logical!Spec

(***************************************************************************)
(* What a recovered run is handed: the path and the session                *)
(***************************************************************************)
\* The recover record does not change which session is handed on.
LEMMA MarkerKeepsSession ==
  ASSUME TypeOK, WellFormed(log), log # <<>>
  PROVE  ResumeSession(Append(log, Marker)) = ResumeSession(log)
<1> DEFINE m == Append(log, Marker)
<1>1. Marker \in Records /\ Marker.kind = "recover" /\ log \in Seq(Records)
  BY ReplayTypes, RecordFields DEF TypeOK
<1>2. SessionAt(m) = SessionAt(log)
  BY <1>1, SessionAtAppend
<1>3. SessionAt(log) \in 0..Len(log)
  BY <1>1, LastOfIsLast DEF SessionAt
<1>4. SessionAt(log) > 0 => m[SessionAt(log)] = log[SessionAt(log)]
  BY <1>1, <1>3, Appended
<1>5. ResumeNode(m) = ResumeNode(log) /\ ResumeStep(m) = ResumeStep(log)
  <2>1. Marker.kind \in Neutral \ {"resume"} /\ Marker.kind \in Neutral
    BY <1>1 DEF Neutral
  <2>2. WellFormed(m) /\ NextOf(m) = NextOf(log) /\ StepOf(m) = StepOf(log)
    BY <1>1, <2>1, AppendNeutral
  <2>3. /\ Asked(m) = Asked(log) /\ LastOf(m, {"resume"}) = LastOf(log, {"resume"})
        /\ Settled(m) = Settled(log)
    BY <1>1, LastOfMiss DEF Asked, Settled
  <2>4. (Answered(m) <=> Answered(log)) /\ (Answered(log) => Asked(log) \in 1..Len(log))
    BY <2>3 DEF Answered, AnswerAt, Pending, WellFormed
  <2>5. Answered(log) => m[Asked(m)] = log[Asked(log)]
    BY <1>1, <2>3, <2>4, Appended
  <2> HIDE DEF m
  <2> QED BY <2>2, <2>3, <2>4, <2>5 DEF ResumeNode, ResumeStep
<1> HIDE DEF m
<1> QED BY <1>2, <1>4, <1>5 DEF ResumeSession, m

\* The path of the run, in the process or in a checkpoint, is the log's.
Paths ==
  /\ pc = "new" => path = <<>>
  /\ pc \in {"loop", "edge"} => path = PathOf(log)
  /\ pc = "exec" => path = Append(PathOf(log), cur)
  /\ pc = "answer" => path = held.path
  /\ held # NoCheckpoint => held.path = PathOf(log)

\* Only Recover hands a session on, from the log, to an attempt of the node and
\* the step that logged it.
Handed ==
  /\ pc \in {"new", "idle", "answer", "edge"} => given.session = NoSession
  /\ pc = "edge" \/ held # NoCheckpoint => SessionAt(log) = 0
  /\ pc = "loop" => given.session = ResumeSession(log)
  /\ SessionIsOwn

\* A record that does not show leaves the path alone.
LEMMA SilentKeepsPath ==
  ASSUME NEW l \in Seq(Records),
         NEW m, m = l \/ \E r \in Records : Silent(r) /\ m = Append(l, r)
  PROVE  PathOf(m) = PathOf(l)
  BY PathOfAppend DEF Silent, Neutral

\* The path is kept by the loop between nodes,
LEMMA LoopPaths ==
  ASSUME IInv, Paths,
         \/ ReachEnd \/ MaxStepsReached \/ Cancelled \/ NodeFails
         \/ StartNode \/ StartUnlogged \/ \E id \in Sessions : NoteSession(id)
         \/ LogEdge \/ EdgeUnlogged
  PROVE  Paths'
<1>1. pc \in {"loop", "exec", "edge"} /\ held' = held
  BY DEF ReachEnd, MaxStepsReached, Cancelled, NodeFails, StartNode, StartUnlogged, Starting,
     NoteSession, LogEdge, EdgeUnlogged, caller
<1>2. held = NoCheckpoint /\ log \in Seq(Records)
  BY <1>1 DEF IInv, Located, TypeOK
<1>3. PathOf(log') = PathOf(log)
  BY <1>2, LoopLogs, SilentKeepsPath
<1>4. CASE ReachEnd \/ MaxStepsReached \/ Cancelled \/ NodeFails \/ StartUnlogged \/ EdgeUnlogged
  <2>1. pc' = "finish"
    BY <1>4 DEF ReachEnd, MaxStepsReached, Cancelled, NodeFails, StartUnlogged, EdgeUnlogged,
       EndLoop
  <2> QED BY <1>1, <1>2, <2>1 DEF Paths
<1>5. CASE StartNode
  BY <1>1, <1>2, <1>3, <1>5 DEF StartNode, Starting, Paths
<1>6. ASSUME NEW id \in Sessions, NoteSession(id)
      PROVE  Paths'
  BY <1>1, <1>2, <1>3, <1>6 DEF NoteSession, Paths
<1>7. CASE LogEdge
  BY <1>1, <1>2, <1>3, <1>7 DEF LogEdge, Paths
<1> QED BY <1>4, <1>5, <1>6, <1>7

\* by a node that commits or asks,
LEMMA NodePaths ==
  ASSUME IInv, Paths,
         \/ \E next \in (IF cur \in Nodes THEN Targets[cur] ELSE {}) :
               NodeDone(next) \/ CommitUnlogged(next)
         \/ NodeAsks \/ AskUnlogged
  PROVE  Paths'
<1>1. /\ pc = "exec" /\ held = NoCheckpoint /\ log \in Seq(Records) /\ cur \in Nodes
      /\ path = Append(PathOf(log), cur) /\ TypeOK
  BY DEF NodeDone, CommitUnlogged, NodeAsks, AskUnlogged, IInv, Located, TypeOK, Paths
<1>2. ASSUME NEW next \in (IF cur \in Nodes THEN Targets[cur] ELSE {}),
             NodeDone(next) \/ CommitUnlogged(next)
      PROVE  Paths'
  <2>1. /\ path' = path /\ held' = held
        /\ \/ pc' = "edge" /\ log' = Append(log, Commit(next))
           \/ pc' = "finish"
    BY <1>2 DEF NodeDone, CommitUnlogged, Stored, EndLoop, caller
  <2>2. Commit(next) \in Records
    BY <1>1, RunAssumption, RecordTypes
  <2>3. PathOf(Append(log, Commit(next))) = path
    BY <1>1, <2>2, RecordFields, PathOfAppend
  <2> QED BY <1>1, <2>1, <2>3 DEF Paths
<1>3. CASE NodeAsks
  <2>1. /\ pc' = "idle" /\ log' = Append(log, Question) /\ held'.path = path
    BY <1>3, GoneTypes DEF NodeAsks
  <2>2. Question \in Records
    BY <1>1, RecordTypes
  <2>3. PathOf(Append(log, Question)) = path
    BY <1>1, <2>2, RecordFields, PathOfAppend
  <2> QED BY <2>1, <2>3 DEF Paths
<1>4. CASE AskUnlogged
  <2>1. pc' = "finish" /\ held' = held
    BY <1>4 DEF AskUnlogged, EndLoop, caller
  <2> QED BY <1>1, <2>1 DEF Paths
<1> QED BY <1>2, <1>3, <1>4

\* by a call, a crash and what recovers from it,
LEMMA CallPaths ==
  ASSUME IInv, Settles, Continues, Paths,
         \/ \E first \in Targets[Start] : Run(first) \/ RunUnlogged(first)
         \/ RecoverRun \/ RecoverUnlogged \/ RecoverFinished \/ RecoverPaused
         \/ Crash \/ Forget \/ \E a \in Answers : Resume(a)
         \/ Finish \/ ImportStart \/ ImportQuestion \/ LogAnswer \/ ResumeUnlogged
  PROVE  Paths'
<1>0. log \in Seq(Records) /\ TypeOK
  BY DEF IInv, TypeOK
<1>1. ASSUME NEW first \in Targets[Start], Run(first) \/ RunUnlogged(first)
      PROVE  Paths'
  <2>1. /\ log = <<>> /\ held' = held /\ held = NoCheckpoint /\ path' = path /\ path = <<>>
        /\ \/ pc' = "loop" /\ log' = Append(log, Begin(first))
           \/ pc' = "finish"
    BY <1>1 DEF Run, RunUnlogged, IInv, Located, Paths, EndLoop, caller, Stored
  <2>2. Begin(first) \in Records /\ Begin(first).kind = "run_start"
    BY <1>0, RunAssumption, RecordTypes, RecordFields DEF TypeOK
  <2>3. PathOf(Append(log, Begin(first))) = <<>>
    BY <1>0, <2>1, <2>2, PathOfAppend, PathOfNone
  <2> QED BY <2>1, <2>3 DEF Paths
<1>2. CASE RecoverRun \/ RecoverUnlogged
  <2>1. PathOf(log') = PathOf(log)
    BY <1>0, <1>2, LoopLogs, SilentKeepsPath
  <2>2. CASE RecoverRun
    BY <2>1, <2>2 DEF RecoverRun, Paths
  <2>3. CASE RecoverUnlogged
    <3>1. pc' = "idle" /\ held' = held
      BY <2>3 DEF RecoverUnlogged, Unfinished
    <3> QED BY <2>1, <3>1 DEF Paths
  <2> QED BY <1>2, <2>2, <2>3
<1>3. CASE RecoverFinished \/ Crash \/ Forget
  <2>1. log' = log /\ pc' = "idle" /\ held' \in {held, NoCheckpoint}
    BY <1>3, GoneTypes DEF RecoverFinished, Crash, Forget
  <2> QED BY <2>1 DEF Paths
<1>4. CASE RecoverPaused
  <2>1. log' = log /\ pc' = "idle" /\ held'.path = PathOf(log)
    BY <1>4 DEF RecoverPaused
  <2> QED BY <2>1 DEF Paths
<1>5. ASSUME NEW a \in Answers, Resume(a)
      PROVE  Paths'
  <2>1. /\ log' = log /\ held' = held /\ path' = held.path
        /\ pc' \in {"import", "answer"}
    BY <1>5 DEF Resume
  <2> QED BY <2>1 DEF Paths
<1>6. CASE Finish
  <2>1. pc' = "idle" /\ held' = held /\ held = NoCheckpoint
    BY <1>6, GoneTypes DEF Finish, Settles
  <2> QED BY <2>1 DEF Paths
<1>7. CASE ImportStart \/ ImportQuestion \/ LogAnswer \/ ResumeUnlogged
  <2>1. /\ pc = "answer" /\ log' \in {log, Append(log, Answer)}
        /\ \/ pc' = "loop" /\ log' = Append(log, Answer) /\ held' = NoCheckpoint /\ path' = path
           \/ pc' = "idle" /\ held' = held
    BY <1>7, GoneTypes
    DEF ImportStart, ImportQuestion, LogAnswer, ResumeUnlogged, Continues, Stored, locals
  <2>2. cur \in Nodes /\ held # NoCheckpoint
    BY <2>1, NamesAreDistinct DEF IInv, Located, NoCheckpoint
  <2>3. Answer \in Records /\ Answer.kind = "resume"
    BY <1>0, <2>2, RecordTypes, RecordFields
  <2>4. PathOf(log') = PathOf(log)
    BY <1>0, <2>1, <2>3, PathOfAppend
  <2>5. path = PathOf(log)
    BY <2>1, <2>2 DEF Paths
  <2> QED BY <2>1, <2>4, <2>5 DEF Paths
<1> QED BY <1>1, <1>2, <1>3, <1>4, <1>5, <1>6, <1>7

\* and so by every step.
LEMMA StepPaths ==
  ASSUME IInv, Settles, Continues, Paths, [Next]_vars
  PROVE  Paths'
<1>1. CASE UNCHANGED vars
  BY <1>1 DEF vars, Paths
<1>2. CASE Next
  BY <1>2, LoopPaths, NodePaths, CallPaths DEF Next, Segment
<1> QED BY <1>1, <1>2

\* The session id was logged by that node at that step, which has not ended since.
Owned(l, node, at, id) ==
  \E i \in 1..Len(l) :
    /\ l[i].kind = "session" /\ l[i].session = id /\ l[i].node = node /\ l[i].step = at
    /\ \A j \in i..Len(l) : l[j].kind \notin {"node_commit", "interrupt"}

\* It stays so while no commit and no question is logged.
LEMMA OwnedAppend ==
  ASSUME NEW l \in Seq(Records), NEW r \in Records, NEW node, NEW at, NEW id,
         Owned(l, node, at, id), r.kind \notin {"node_commit", "interrupt"}
  PROVE  Owned(Append(l, r), node, at, id)
<1> DEFINE m == Append(l, r)
<1>1. PICK i \in 1..Len(l) :
        /\ l[i].kind = "session" /\ l[i].session = id /\ l[i].node = node /\ l[i].step = at
        /\ \A j \in i..Len(l) : l[j].kind \notin {"node_commit", "interrupt"}
  BY DEF Owned
<1>2. /\ Len(l) \in Nat /\ Len(m) = Len(l) + 1 /\ m[Len(l) + 1] = r
      /\ \A j \in 1..Len(l) : m[j] = l[j]
  BY Appended
<1> HIDE DEF m
<1>3. i \in 1..Len(m) /\ m[i] = l[i]
  BY <1>1, <1>2
<1>4. \A j \in i..Len(m) : m[j].kind \notin {"node_commit", "interrupt"}
  <2> SUFFICES ASSUME NEW j \in i..Len(m)
               PROVE  m[j].kind \notin {"node_commit", "interrupt"}
    OBVIOUS
  <2>1. CASE j = Len(l) + 1
    BY <1>2, <2>1
  <2>2. CASE j # Len(l) + 1
    <3>1. j \in i..Len(l) /\ j \in 1..Len(l)
      BY <1>2, <2>2
    <3> QED BY <1>1, <1>2, <3>1
  <2> QED BY <2>1, <2>2
<1>5. /\ m[i].kind = "session" /\ m[i].session = id /\ m[i].node = node /\ m[i].step = at
  BY <1>1, <1>3
<1>6. Owned(m, node, at, id)
  BY <1>3, <1>4, <1>5 DEF Owned
<1> QED BY <1>6 DEF m

\* The session replay hands on was logged by that attempt.
LEMMA ResumedIsOwned ==
  ASSUME NEW l \in Seq(Records), ResumeSession(l) # NoSession
  PROVE  Owned(l, ResumeNode(l), ResumeStep(l) + 1, ResumeSession(l))
<1> DEFINE Closers == {"node_commit", "fork", "interrupt"}
           s == LastOf(l, {"session"})
<1>1. /\ SessionAt(l) > 0 /\ l[SessionAt(l)].node = ResumeNode(l)
      /\ l[SessionAt(l)].step = ResumeStep(l) + 1
      /\ ResumeSession(l) = l[SessionAt(l)].session
  BY DEF ResumeSession
<1>2. SessionAt(l) = s /\ s > LastOf(l, Closers)
  BY <1>1 DEF SessionAt
<1>3. s \in 0..Len(l) /\ (s > 0 => l[s].kind = "session") /\ Len(l) \in Nat
  BY LastOfIsLast
<1>4. LastOf(l, Closers) \in 0..Len(l)
      /\ \A i \in 1..Len(l) : i > LastOf(l, Closers) => l[i].kind \notin Closers
  BY LastOfIsLast
<1> HIDE DEF s
<1>5. s \in 1..Len(l) /\ l[s].kind = "session"
  BY <1>1, <1>2, <1>3
<1>6. \A j \in s..Len(l) : l[j].kind \notin {"node_commit", "interrupt"}
  <2> SUFFICES ASSUME NEW j \in s..Len(l)
               PROVE  l[j].kind \notin {"node_commit", "interrupt"}
    OBVIOUS
  <2>1. j \in 1..Len(l) /\ j > LastOf(l, Closers)
    BY <1>2, <1>4, <1>5
  <2> QED BY <1>4, <2>1
<1> QED BY <1>1, <1>2, <1>5, <1>6 DEF Owned

\* SessionIsOwn, in these words.
LEMMA OwnIsOwned ==
  ASSUME log \in Seq(Records)
  PROVE  SessionIsOwn <=>
           (pc = "exec" /\ given.session # NoSession => Owned(log, cur, step, given.session))
<1>1. DOMAIN log = 1..Len(log)
  OBVIOUS
<1> QED BY <1>1 DEF SessionIsOwn, Owned

\* It is about executing nodes only.
LEMMA OwnElsewhere ==
  ASSUME pc' # "exec"
  PROVE  SessionIsOwn'
  BY DEF SessionIsOwn

\* The session in hand is kept by the loop between nodes,
LEMMA LoopHanded ==
  ASSUME IInv, Handed,
         \/ ReachEnd \/ MaxStepsReached \/ Cancelled \/ NodeFails
         \/ StartNode \/ StartUnlogged \/ \E id \in Sessions : NoteSession(id)
         \/ LogEdge \/ EdgeUnlogged
  PROVE  Handed'
<1> USE DEF IInv
<1>1. pc \in {"loop", "exec", "edge"} /\ held' = held
  BY DEF ReachEnd, MaxStepsReached, Cancelled, NodeFails, StartNode, StartUnlogged, Starting,
     NoteSession, LogEdge, EdgeUnlogged, caller
<1>2. held' = NoCheckpoint /\ log # <<>> /\ log \in Seq(Records)
  BY <1>1 DEF Located, TypeOK
<1>3. CASE ReachEnd \/ MaxStepsReached \/ Cancelled \/ NodeFails \/ StartUnlogged \/ EdgeUnlogged
  <2>1. pc' = "finish"
    BY <1>3 DEF ReachEnd, MaxStepsReached, Cancelled, NodeFails, StartUnlogged, EdgeUnlogged,
       EndLoop
  <2> QED BY <1>2, <2>1, OwnElsewhere DEF Handed
<1>4. CASE StartNode
  <2> DEFINE r == Rec("node_start", cur, step + 1)
  <2>1. /\ pc = "loop" /\ pc' = "exec" /\ cur' = cur /\ step' = step + 1
        /\ given' = [given EXCEPT !.reply = reply] /\ log' = Append(log, r)
    BY <1>4 DEF StartNode, Starting, Stored
  <2>2. given'.session = given.session
    BY <2>1 DEF TypeOK
  <2>3. /\ given.session = ResumeSession(log) /\ cur = ResumeNode(log)
        /\ step = ResumeStep(log)
    BY <1>2, <2>1, ReplayTypes DEF Handed, Located
  <2>4. r \in Records /\ r.kind = "node_start"
    BY RecordTypes, RecordFields DEF TypeOK, Kinds
  <2> HIDE DEF r
  <2>5. given.session # NoSession => Owned(log, cur, step + 1, given.session)
    BY <1>2, <2>3, ResumedIsOwned
  <2>6. given.session # NoSession => Owned(log', cur', step', given'.session)
    BY <1>2, <2>1, <2>2, <2>4, <2>5, OwnedAppend
  <2>7. log' \in Seq(Records)
    BY <1>2, <2>1, <2>4
  <2>8. SessionIsOwn'
    <3>1. DOMAIN log' = 1..Len(log')
      BY <2>7
    <3> QED BY <2>2, <2>6, <3>1 DEF SessionIsOwn, Owned
  <2> QED BY <1>2, <2>1, <2>8 DEF Handed
<1>5. ASSUME NEW id \in Sessions, NoteSession(id)
      PROVE  Handed'
  <2> DEFINE r == [Rec("session", cur, step) EXCEPT !.session = id]
  <2>1. /\ pc = "exec" /\ pc' = "exec" /\ cur' = cur /\ step' = step /\ given' = given
        /\ log' \in {log, Append(log, r)}
    BY <1>5, WrittenOrNot DEF NoteSession
  <2>2. r \in Records /\ r.kind = "session"
    BY RecordTypes, RecordFields DEF TypeOK
  <2> HIDE DEF r
  <2>3. given.session # NoSession => Owned(log, cur, step, given.session)
    BY <1>2, <2>1, OwnIsOwned DEF Handed
  <2>4. given.session # NoSession => Owned(log', cur', step', given'.session)
    BY <1>2, <2>1, <2>2, <2>3, OwnedAppend
  <2>5. log' \in Seq(Records)
    BY <1>2, <2>1, <2>2
  <2>6. SessionIsOwn'
    <3>1. DOMAIN log' = 1..Len(log')
      BY <2>5
    <3> QED BY <2>1, <2>4, <3>1 DEF SessionIsOwn, Owned
  <2> QED BY <1>2, <2>1, <2>6 DEF Handed
<1>6. CASE LogEdge
  <2>1. pc = "edge" /\ pc' = "loop" /\ given' = given /\ log' = Append(log, Rec("edge", cur, step))
    BY <1>6 DEF LogEdge, Stored
  <2>2. Rec("edge", cur, step) \in Records /\ Rec("edge", cur, step).kind = "edge"
    BY RecordTypes, RecordFields DEF TypeOK, Kinds
  <2>3. SessionAt(log') = 0
    BY <1>2, <2>1, <2>2, SessionAtAppend DEF Handed
  <2>4. given'.session = ResumeSession(log')
    BY <2>1, <2>3, NoSessionKept DEF Handed
  <2> QED BY <1>2, <2>1, <2>4, OwnElsewhere DEF Handed
<1> QED BY <1>3, <1>4, <1>5, <1>6

\* by a node that commits or asks,
LEMMA NodeHanded ==
  ASSUME IInv, Handed,
         \/ \E next \in (IF cur \in Nodes THEN Targets[cur] ELSE {}) :
               NodeDone(next) \/ CommitUnlogged(next)
         \/ NodeAsks \/ AskUnlogged
  PROVE  Handed'
<1>1. /\ pc = "exec" /\ held = NoCheckpoint /\ log \in Seq(Records) /\ cur \in Nodes /\ TypeOK
  BY DEF NodeDone, CommitUnlogged, NodeAsks, AskUnlogged, IInv, Located, TypeOK
<1>2. ASSUME NEW next \in (IF cur \in Nodes THEN Targets[cur] ELSE {}),
             NodeDone(next) \/ CommitUnlogged(next)
      PROVE  Handed'
  <2>1. /\ given' = Nothing /\ held' = NoCheckpoint
        /\ \/ pc' = "edge" /\ log' = Append(log, Commit(next))
           \/ pc' = "finish"
    BY <1>1, <1>2 DEF NodeDone, CommitUnlogged, Stored, EndLoop, caller
  <2>2. Commit(next) \in Records /\ Commit(next).kind = "node_commit"
    BY <1>1, RunAssumption, RecordTypes, RecordFields
  <2>3. SessionAt(Append(log, Commit(next))) = 0
    BY <1>1, <2>2, SessionAtAppend
  <2> QED BY <2>1, <2>3, OwnElsewhere DEF Handed, Nothing
<1>3. CASE NodeAsks
  <2>1. pc' = "idle" /\ log' = Append(log, Question) /\ given' = Nothing
    BY <1>3 DEF NodeAsks, Gone
  <2>2. Question \in Records /\ Question.kind = "interrupt"
    BY <1>1, RecordTypes, RecordFields
  <2>3. SessionAt(log') = 0
    BY <1>1, <2>1, <2>2, SessionAtAppend
  <2> QED BY <2>1, <2>3, OwnElsewhere DEF Handed, Nothing
<1>4. CASE AskUnlogged
  <2>1. pc' = "finish" /\ held' = held
    BY <1>4 DEF AskUnlogged, EndLoop, caller
  <2> QED BY <1>1, <2>1, OwnElsewhere DEF Handed
<1> QED BY <1>2, <1>3, <1>4

\* by a call, a crash and what recovers from it,
LEMMA CallHanded ==
  ASSUME IInv, Settles, Continues, Handed,
         \/ \E first \in Targets[Start] : Run(first) \/ RunUnlogged(first)
         \/ RecoverRun \/ RecoverUnlogged \/ RecoverFinished \/ RecoverPaused
         \/ Crash \/ Forget \/ \E a \in Answers : Resume(a)
         \/ Finish \/ ImportStart \/ ImportQuestion \/ LogAnswer \/ ResumeUnlogged
  PROVE  Handed'
<1>0. log \in Seq(Records) /\ TypeOK /\ WellFormed(log)
  BY DEF IInv, TypeOK
<1>1. ASSUME NEW first \in Targets[Start], Run(first) \/ RunUnlogged(first)
      PROVE  Handed'
  <2>1. /\ pc = "new" /\ log = <<>> /\ held' = NoCheckpoint /\ given' = given
        /\ \/ pc' = "loop" /\ log' = Append(<<>>, Begin(first))
           \/ pc' = "finish"
    BY <1>1 DEF Run, RunUnlogged, IInv, Located, EndLoop, caller, Stored
  <2>2. Begin(first) \in Records /\ Begin(first).kind = "run_start"
    BY <1>0, RunAssumption, RecordTypes, RecordFields DEF TypeOK
  <2>3. SessionAt(Append(<<>>, Begin(first))) = 0
    BY <2>2, FirstHasNoSession
  <2>4. pc' = "loop" => given'.session = ResumeSession(log')
    BY <2>1, <2>3, NoSessionKept DEF Handed
  <2> QED BY <2>1, <2>4, OwnElsewhere DEF Handed
<1>2. CASE RecoverRun
  <2>1. /\ log # <<>> /\ pc' = "loop" /\ held' = NoCheckpoint
        /\ log' = Append(log, Marker) /\ given' = [Nothing EXCEPT !.session = ResumeSession(log)]
    BY <1>2 DEF RecoverRun, Unfinished, Stored
  <2>2. given'.session = ResumeSession(log')
    BY <1>0, <2>1, MarkerKeepsSession DEF Nothing
  <2> QED BY <2>1, <2>2, OwnElsewhere DEF Handed
<1>3. CASE RecoverUnlogged
  <2>1. /\ log # <<>> /\ pc = "idle" /\ pc' = "idle" /\ held' = held /\ given' = given
        /\ log' \in {log, Append(log, Marker)}
    BY <1>3 DEF RecoverUnlogged, Unfinished, locals
  <2>2. Marker \in Records /\ Marker.kind = "recover"
    BY <1>0, <2>1, ReplayTypes, RecordFields
  <2>3. SessionAt(log') = SessionAt(log)
    BY <1>0, <2>1, <2>2, SessionAtAppend
  <2> QED BY <2>1, <2>3, OwnElsewhere DEF Handed
<1>4. CASE RecoverFinished \/ Crash \/ Forget
  <2>1. /\ log' = log /\ pc' = "idle" /\ held' \in {held, NoCheckpoint}
        /\ given'.session = NoSession
    BY <1>4 DEF RecoverFinished, Crash, Forget, locals, Gone, Nothing, Handed
  <2> QED BY <2>1, OwnElsewhere DEF Handed
<1>5. CASE RecoverPaused
  <2>1. /\ log' = log /\ pc = "idle" /\ pc' = "idle" /\ given' = given /\ log # <<>> /\ Waits(log)
    BY <1>5 DEF RecoverPaused, locals, Waits
  <2>2. log[Len(log)].kind = "interrupt" /\ Len(log) \in 1..Len(log)
    BY <1>0, <2>1 DEF Settles
  <2>3. SessionAt(log) = 0
    <3>1. /\ LastOf(log, {"session"}) \in 0..Len(log)
          /\ LastOf(log, {"session"}) > 0 => log[LastOf(log, {"session"})].kind = "session"
      BY <1>0, LastOfIsLast
    <3>2. LastOf(log, {"node_commit", "fork", "interrupt"}) \in 0..Len(log)
          /\ ~(Len(log) > LastOf(log, {"node_commit", "fork", "interrupt"}))
      BY <1>0, <2>2, LastOfIsLast
    <3>3. LastOf(log, {"session"}) # Len(log)
      BY <2>2, <3>1
    <3>4. ~(LastOf(log, {"session"}) > LastOf(log, {"node_commit", "fork", "interrupt"}))
      BY <2>2, <3>1, <3>2, <3>3
    <3> QED BY <3>4 DEF SessionAt
  <2> QED BY <2>1, <2>3, OwnElsewhere DEF Handed
<1>6. ASSUME NEW a \in Answers, Resume(a)
      PROVE  Handed'
  <2>1. /\ pc = "idle" /\ log' = log /\ held' = held /\ given' = given
        /\ pc' \in {"import", "answer"}
    BY <1>6 DEF Resume
  <2> QED BY <2>1, OwnElsewhere DEF Handed
<1>7. CASE Finish
  <2>1. pc' = "idle" /\ held' = held /\ held = NoCheckpoint /\ given' = Nothing
    BY <1>7 DEF Finish, Settles, Gone
  <2> QED BY <2>1, OwnElsewhere DEF Handed, Nothing
<1>8. CASE ImportStart \/ ImportQuestion \/ LogAnswer \/ ResumeUnlogged
  <2>1. /\ pc = "answer" /\ log' \in {log, Append(log, Answer)}
        /\ \/ pc' = "loop" /\ held' = NoCheckpoint /\ given' = given
           \/ pc' = "idle" /\ held' = held /\ given' = Nothing
    BY <1>8 DEF ImportStart, ImportQuestion, LogAnswer, ResumeUnlogged, Continues, Stored,
       locals, Gone
  <2>2. cur \in Nodes /\ held # NoCheckpoint
    BY <2>1, NamesAreDistinct DEF IInv, Located, NoCheckpoint
  <2>3. Answer \in Records /\ Answer.kind = "resume"
    BY <1>0, <2>2, RecordTypes, RecordFields
  <2>4. SessionAt(log') = 0
    BY <1>0, <2>1, <2>2, <2>3, SessionAtAppend DEF Handed
  <2>5. pc' = "loop" => given'.session = ResumeSession(log')
    BY <2>1, <2>4, NoSessionKept DEF Handed
  <2> QED BY <2>1, <2>4, <2>5, OwnElsewhere DEF Handed, Nothing
<1> QED BY <1>1, <1>2, <1>3, <1>4, <1>5, <1>6, <1>7, <1>8

\* and so by every step.
LEMMA StepHanded ==
  ASSUME IInv, Settles, Continues, Handed, [Next]_vars
  PROVE  Handed'
<1>1. CASE UNCHANGED vars
  BY <1>1 DEF vars, Handed, SessionIsOwn
<1>2. CASE Next
  BY <1>2, LoopHanded, NodeHanded, CallHanded DEF Next, Segment
<1> QED BY <1>1, <1>2

\* Every answer in the log was given to a question that was open.
AnswersOpen(l) ==
  \A i \in 1..Len(l) : l[i].kind = "resume" => Pending(SubSeq(l, 1, i - 1))

\* It stays so if an answer is only appended to a log with an open question,
LEMMA AnswersOpenAppend ==
  ASSUME NEW l \in Seq(Records), AnswersOpen(l), NEW r \in Records,
         r.kind = "resume" => Pending(l)
  PROVE  AnswersOpen(Append(l, r))
<1> DEFINE m == Append(l, r)
<1> SUFFICES ASSUME NEW i \in 1..Len(m), m[i].kind = "resume"
             PROVE  Pending(SubSeq(m, 1, i - 1))
  BY DEF AnswersOpen
<1>1. CASE i \in 1..Len(l)
  <2>1. SubSeq(m, 1, i - 1) = SubSeq(l, 1, i - 1) /\ m[i] = l[i]
    BY <1>1
  <2> QED BY <1>1, <2>1 DEF AnswersOpen
<1>2. CASE i = Len(l) + 1
  <2>1. SubSeq(m, 1, i - 1) = l /\ m[i] = r
    BY <1>2
  <2> QED BY <2>1
<1> QED BY <1>1, <1>2

\* which every step of a run of this store does.
LEMMA StepAnswers ==
  ASSUME IInv, Continues, AnswersOpen(log), [Next]_vars
  PROVE  AnswersOpen(log')
<1>1. log \in Seq(Records) /\ TypeOK
  BY DEF IInv, TypeOK
<1>2. CASE log' = log
  BY <1>2
<1>3. ASSUME NEW r \in Records, log' = Append(log, r), r.kind = "resume" => Pending(log)
      PROVE  AnswersOpen(log')
  BY <1>1, <1>3, AnswersOpenAppend
<1>4. CASE log # <<>> /\ \E r \in Records : Silent(r) /\ log' = Append(log, r)
  BY <1>3, <1>4 DEF Silent
<1>5. ASSUME NEW first \in Targets[Start], log = <<>>, log' = Append(<<>>, Begin(first))
      PROVE  AnswersOpen(log')
  <2>1. Begin(first) \in Records /\ Begin(first).kind = "run_start"
    BY <1>1, RunAssumption, RecordTypes, RecordFields DEF TypeOK
  <2> QED BY <1>3, <1>5, <2>1
<1>6. ASSUME NEW next \in Targets[cur], cur \in Nodes, log' = Append(log, Commit(next))
      PROVE  AnswersOpen(log')
  <2>1. Commit(next) \in Records /\ Commit(next).kind = "node_commit"
    BY <1>1, <1>6, RunAssumption, RecordTypes, RecordFields
  <2> QED BY <1>3, <1>6, <2>1
<1>7. CASE pc = "exec" /\ log' = Append(log, Question)
  <2>1. Question \in Records /\ Question.kind = "interrupt"
    BY <1>1, <1>7, RecordTypes, RecordFields DEF IInv, Located
  <2> QED BY <1>3, <1>7, <2>1
<1>8. CASE pc = "answer" /\ log' = Append(log, Answer)
  <2>1. cur \in Nodes /\ held # NoCheckpoint
    BY <1>8, NamesAreDistinct DEF IInv, Located, NoCheckpoint
  <2>2. Answer \in Records /\ Pending(log)
    BY <1>1, <2>1, RecordTypes DEF Continues
  <2> QED BY <1>3, <1>8, <2>2
<1>9. CASE pc = "finish" /\ log' = Append(log, Closing)
  <2>1. Closing \in Records /\ Closing.kind = "run_end"
    BY <1>1, RecordTypes, RecordFields DEF TypeOK
  <2> QED BY <1>3, <1>9, <2>1
<1> QED
  BY StepLogs, <1>2, <1>4, <1>5, <1>6, <1>7, <1>8, <1>9 DEF Logged

\* Between two nodes a crash is invisible; the path is whole; every execution gets
\* the answer to its question; every answer in the log is to an open question; and
\* a session is handed only to the attempt that logged it: whatever interrupted a
\* run of this store, its continuation has what the log gives it.
THEOREM RecoveryContinuesAlways ==
  ASSUME Imported = {}
  PROVE  Spec => []RecoveryContinues
<1>1. Init => Paths /\ Handed /\ AnswersOpen(log)
  <2> SUFFICES ASSUME Init PROVE Paths /\ Handed /\ AnswersOpen(log)
    OBVIOUS
  <2>1. pc = "new" /\ log = <<>> /\ path = <<>> /\ held = NoCheckpoint /\ given = Nothing
    BY DEF Init
  <2> QED BY <2>1 DEF Paths, Handed, SessionIsOwn, Nothing, AnswersOpen
<1>2. IInv /\ Settles /\ Continues /\ Paths /\ Handed /\ AnswersOpen(log) /\ [Next]_vars
        => (Paths /\ Handed /\ AnswersOpen(log))'
  BY StepPaths, StepHanded, StepAnswers
<1>3. IInv /\ Truth /\ Continues /\ Paths /\ Handed /\ AnswersOpen(log) => RecoveryContinues
  <2> SUFFICES ASSUME IInv, Truth, Continues, Paths, Handed, AnswersOpen(log)
               PROVE  RecoveryContinues
    OBVIOUS
  <2>1. RecoveryIsExact
    BY ReplayTypes DEF IInv, Located, Continues, Handed, RecoveryIsExact
  <2>2. PathIsCumulative
    <3>1. result = "paused" => held # NoCheckpoint
      <4>1. result = "paused" => log \in Seq(Records) /\ Pending(log) /\ held.node = log[Asked(log)].node
        BY DEF Truth, IInv, TypeOK
      <4>2. Pending(log) => Asked(log) > 0
        BY DEF Pending, WellFormed, IInv
      <4>3. Asked(log) > 0 => log[Asked(log)].node \in Nodes
        BY DEF WellFormed, IInv
      <4> QED BY <4>1, <4>2, <4>3, NamesAreDistinct DEF NoCheckpoint
    <3> QED BY <3>1 DEF PathIsCumulative, Paths
  <2>3. AnswerReachesNode
    BY DEF Continues, AnswerReachesNode
  <2>4. ResumeAnswersQuestion
    <3>1. DOMAIN log = 1..Len(log)
      BY DEF IInv, TypeOK
    <3> QED BY <3>1 DEF AnswersOpen, ResumeAnswersQuestion
  <2>5. SessionIsOwn
    BY DEF Handed
  <2> QED BY <2>1, <2>2, <2>3, <2>4, <2>5 DEF RecoveryContinues
<1> QED BY <1>1, <1>2, <1>3, Invariance, TruthInvariant, ContinuesAlways, PTL DEF Spec

(***************************************************************************)
(* ImportReadsAsOwn: what the loop of replayLog makes of every run's log.  *)
(***************************************************************************)
\* A run's log begins with run_start.
LEMMA StepBegun ==
  ASSUME IInv, [Next]_vars, log = <<>> \/ Begun(log)
  PROVE  log' = <<>> \/ Begun(log')
<1>1. log \in Seq(Records) /\ TypeOK
  BY DEF IInv, TypeOK
<1>2. CASE log' = log
  BY <1>2
<1>3. CASE Begun(log) /\ Next
  <2>1. log' = log \/ \E r \in Records : log' = Append(log, r)
    BY <1>3, OnlyNextLinks
  <2>2. ASSUME NEW r \in Records, log' = Append(log, r) PROVE Begun(log')
    <3>1. 1 \in 1..Len(log)
      BY <1>3 DEF Begun
    <3>2. Append(log, r) \in Seq(Records) /\ Append(log, r) # <<>> /\ Append(log, r)[1] = log[1]
      BY <1>1, <3>1, Appended
    <3> QED BY <1>3, <2>2, <3>2 DEF Begun
  <2> QED BY <1>3, <2>1, <2>2
<1>4. ASSUME NEW r \in Records, r.kind = "run_start", log = <<>>, log' = Append(log, r)
      PROVE  Begun(log')
  <2>1. Append(<<>>, r) \in Seq(Records) /\ Append(<<>>, r) # <<>> /\ Append(<<>>, r)[1] = r
    OBVIOUS
  <2> QED BY <1>4, <2>1 DEF Begun
<1>5. CASE log = <<>> /\ Next
  <2>1. ASSUME NEW first \in Targets[Start], Run(first) \/ RunUnlogged(first)
        PROVE  log' = <<>> \/ Begun(log')
    <3>1. log' \in {log, Append(log, Begin(first))}
      BY <2>1, WrittenOrNot DEF Run, RunUnlogged
    <3>2. Begin(first) \in Records /\ Begin(first).kind = "run_start"
      BY <1>1, RunAssumption, RecordTypes, RecordFields DEF TypeOK
    <3> QED BY <1>4, <1>5, <3>1, <3>2
  <2>2. CASE ImportStart \/ ImportQuestion \/ LogAnswer \/ ResumeUnlogged
    <3>1. cur \in Nodes /\ log' \in {log, Append(log, Opening)}
      BY <1>5, <2>2, WrittenOrNot
      DEF ImportStart, ImportQuestion, LogAnswer, ResumeUnlogged, IInv, Located
    <3>2. Opening \in Records /\ Opening.kind = "run_start"
      BY <1>1, <3>1, RecordTypes, RecordFields
    <3> QED BY <1>4, <1>5, <3>1, <3>2
  <2>3. CASE \/ ReachEnd \/ MaxStepsReached \/ Cancelled \/ NodeFails
             \/ StartNode \/ StartUnlogged \/ \E id \in Sessions : NoteSession(id)
             \/ LogEdge \/ EdgeUnlogged \/ RecoverRun \/ RecoverUnlogged
    BY <1>5, <2>3, LoopLogs
  <2>4. CASE Finish
    BY <1>5, <2>4, FinishLogs DEF IInv, Located
  <2>5. CASE \/ \E next \in (IF cur \in Nodes THEN Targets[cur] ELSE {}) :
                  NodeDone(next) \/ CommitUnlogged(next)
             \/ NodeAsks \/ AskUnlogged
    BY <1>5, <2>5 DEF NodeDone, CommitUnlogged, NodeAsks, AskUnlogged, IInv, Located
  <2>6. CASE \/ RecoverFinished \/ RecoverPaused \/ Crash \/ Forget
             \/ \E a \in Answers : Resume(a)
    BY <1>5, <2>6 DEF RecoverFinished, RecoverPaused, Crash, Forget, Resume
  <2> QED BY <1>5, <2>1, <2>2, <2>3, <2>4, <2>5, <2>6 DEF Next, Segment
<1> QED BY <1>2, <1>3, <1>5 DEF vars

\* Whatever a run of this store or an imported one has logged, crashes and failed
\* imports included, replayLog's loop finds in it what its last records say, and
\* it is one linear history.
THEOREM ImportReadsAsOwnAlways == Spec => []ImportReadsAsOwn
<1> DEFINE First == log = <<>> \/ Begun(log)
<1>1. Init => First
  BY DEF Init
<1>2. IInv /\ First /\ [Next]_vars => First'
  BY StepBegun
<1>3. IInv /\ First => ReplayIsLastRecords
  <2> SUFFICES ASSUME IInv, Begun(log) PROVE ReplayIsLastRecords
    BY DEF ReplayIsLastRecords
  <2> DEFINE p == Replayed(log)
  <2>1. LoopAgrees(log)
    BY LoopAlwaysAgrees
  <2>2. /\ p.next = NextOf(log) /\ p.step = StepOf(log) /\ p.state = StateOf(log)
        /\ p.path = PathOf(log) /\ p.asked = OpenAt(log) /\ p.answered = AnswerAt(log)
        /\ p.sess = SessionAt(log)
    BY <2>1 DEF LoopAgrees
  <2>3. p.ended = Ended(log) /\ (p.ended => p.failed = ~EndedWell(log))
    BY <2>1 DEF LoopAgrees
  <2>4. Asked(log) \in 0..Len(log) /\ Settled(log) \in 0..Len(log) /\ Len(log) \in Nat
    BY DEF IInv, WellFormed, TypeOK
  <2> HIDE DEF p
  <2>5. (p.asked > 0) = Pending(log) /\ (p.asked > 0 => p.asked = Asked(log))
    BY <2>2, <2>4 DEF OpenAt, Pending
  <2> QED BY <2>2, <2>3, <2>5 DEF ReplayIsLastRecords, p
<1> QED
  BY <1>1, <1>2, <1>3, Invariance, HistoryIsLinear, PTL DEF Spec, ImportReadsAsOwn
=============================================================================
