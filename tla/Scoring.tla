------------------------------- MODULE Scoring -------------------------------
(***************************************************************************)
(* The scorers of an evaluation (src/eval): trajectories matched against   *)
(* expected tool calls (match.go), ROUGE over words (text.go), and the     *)
(* verdict of a judge that is asked several times (judge.go, rubric.go).   *)
(* Each is computed the way the code does and compared with what it means. *)
(*                                                                         *)
(* An operator introduced as a "faulty variant" is no part of Next: it is  *)
(* the definition after it with a plausible bug.                           *)
(***************************************************************************)
EXTENDS Integers, Sequences, SequencesExt, FiniteSets, FiniteSetsExt

CONSTANTS
  Lengths,     \* of trajectories
  Calls,       \* tool calls, [server, tool, args]: an MCP tool has a server
  Texts,       \* word sequences
  Samples,     \* answers to a judge's samples: a score, or Failed
  Failed,
  Threshold    \* of a judge

VARIABLE scored   \* what was scored last, and the outcome

-----------------------------------------------------------------------------
(* Trajectories: actual calls 1..na, expected ones 1..ne, and eq, the pairs  *)
(* <<actual, expected>> that match                                           *)

Exact(na, ne, eq) == na = ne /\ \A i \in 1..ne : <<i, i>> \in eq

\* Each actual call may take the next expected one.
InOrder(na, ne, eq) ==
  LET I[a \in 0..na] == IF a = 0 THEN 0
                        ELSE IF I[a - 1] < ne /\ <<a, I[a - 1] + 1>> \in eq
                             THEN I[a - 1] + 1 ELSE I[a - 1]
  IN  I[na] = ne

\* try: an augmenting path from e over the calls not yet seen, from a on.
RECURSIVE Augment(_, _, _, _, _)
Augment(e, a, st, na, eq) ==
  IF a > na THEN [st EXCEPT !.ok = FALSE]
  ELSE IF a \in st.seen \/ <<a, e>> \notin eq THEN Augment(e, a + 1, st, na, eq)
  ELSE LET seeing == [st EXCEPT !.seen = @ \cup {a}]
           moved == IF st.owner[a] = 0 THEN [seeing EXCEPT !.ok = TRUE]
                    ELSE Augment(st.owner[a], 1, seeing, na, eq)
       IN  IF moved.ok THEN [moved EXCEPT !.owner[a] = e]
           ELSE Augment(e, a + 1, moved, na, eq)

\* Faulty variant: an expected call takes the first free one that matches it.
AnyOrderGreedy(na, ne, eq) ==
  LET T[e \in 0..ne] ==
        IF e = 0 THEN {}
        ELSE LET free == {a \in 1..na : <<a, e>> \in eq} \ T[e - 1]
             IN  T[e - 1] \cup (IF free = {} THEN {} ELSE {Min(free)})
  IN  Cardinality(T[ne]) = ne

AnyOrder(na, ne, eq) ==
  /\ ne <= na
  /\ LET T[e \in 0..ne] ==
           IF e = 0 THEN [ok |-> TRUE, seen |-> {}, owner |-> [a \in 1..na |-> 0]]
           ELSE IF ~T[e - 1].ok THEN T[e - 1]
           ELSE Augment(e, 1, [T[e - 1] EXCEPT !.seen = {}], na, eq)
     IN  T[ne].ok

MatchTrajectory(na, ne, eq) ==
  scored' = [kind |-> "trajectory", na |-> na, ne |-> ne, eq |-> eq,
             exact |-> Exact(na, ne, eq), inOrder |-> InOrder(na, ne, eq),
             anyOrder |-> AnyOrder(na, ne, eq)]

\* nameMatches: with MCPNames a bare expected name matches on any server.
NameMatches(a, e, mcp) ==
  a.tool = e.tool /\ (a.server = e.server \/ (mcp /\ e.server = ""))

\* Arguments are <<"null">>, <<"value", v>>, <<"list", values>> or
\* <<"object", function>>; decodeArgs makes an empty object null.
NoArgs == <<"null">>
Decode(args) == IF args = <<"object", <<>>>> THEN NoArgs ELSE args

\* jsonSubset: null pins nothing.
RECURSIVE Subsumes(_, _)
Subsumes(act, exp) ==
  \/ exp = NoArgs
  \/ exp[1] = "value" /\ act = exp
  \/ /\ exp[1] = "list" /\ act[1] = "list" /\ Len(act[2]) = Len(exp[2])
     /\ \A i \in DOMAIN exp[2] : Subsumes(act[2][i], exp[2][i])
  \/ /\ exp[1] = "object" /\ act[1] = "object" /\ DOMAIN exp[2] \subseteq DOMAIN act[2]
     /\ \A k \in DOMAIN exp[2] : Subsumes(act[2][k], exp[2][k])

\* Faulty variant: the empty object is compared as it is written.
ArgsMatchUndecoded(act, exp, subset) ==
  IF subset THEN Subsumes(act, exp) ELSE act = exp

ArgsMatch(act, exp, subset) ==
  IF subset THEN Subsumes(Decode(act), Decode(exp)) ELSE Decode(act) = Decode(exp)

CallMatches(a, e, ignoreArgs, mcp, subset) ==
  NameMatches(a, e, mcp) /\ (ignoreArgs \/ ArgsMatch(a.args, e.args, subset))

CompareCalls(a, e) ==
  scored' = [kind |-> "call", a |-> a, e |-> e,
             matches |-> {<<i, m, s>> \in BOOLEAN \X BOOLEAN \X BOOLEAN :
                            CallMatches(a, e, i, m, s)}]

-----------------------------------------------------------------------------
(* ROUGE, as the fraction <<2 * overlap, words of both>>                     *)

\* fMeasure; two empty texts are identical, one shares nothing.
FMeasure(overlap, c, r) ==
  IF Len(c) = 0 /\ Len(r) = 0 THEN <<1, 1>>
  ELSE IF overlap = 0 THEN <<0, 1>> ELSE <<2 * overlap, Len(c) + Len(r)>>

Count(s, w) == Cardinality({i \in DOMAIN s : s[i] = w})
Rouge1(c, r) ==
  FMeasure(FoldSet(LAMBDA w, acc : acc + Min({Count(c, w), Count(r, w)}), 0, ToSet(c)),
           c, r)

\* Faulty variant: the diagonal is not consulted.
LcsTable(c, r) ==
  LET L[i \in 0..Len(c), j \in 0..Len(r)] ==
        IF i = 0 \/ j = 0 THEN 0
        ELSE IF c[i] = r[j] THEN L[i - 1, j] + 1
        ELSE IF L[i - 1, j] >= L[i, j - 1] THEN L[i - 1, j] ELSE L[i, j - 1]
  IN  L[Len(c), Len(r)]

\* The longest common subsequence, row by row.
Lcs(c, r) ==
  LET L[i \in 0..Len(c), j \in 0..Len(r)] ==
        IF i = 0 \/ j = 0 THEN 0
        ELSE IF c[i] = r[j] THEN L[i - 1, j - 1] + 1
        ELSE IF L[i - 1, j] >= L[i, j - 1] THEN L[i - 1, j] ELSE L[i, j - 1]
  IN  L[Len(c), Len(r)]

RougeL(c, r) == FMeasure(Lcs(c, r), c, r)

Rouge(c, r) ==
  scored' = [kind |-> "rouge", c |-> c, r |-> r, one |-> Rouge1(c, r),
             long |-> RougeL(c, r), overlap |-> Lcs(c, r)]

-----------------------------------------------------------------------------
(* Judges                                                                    *)

Answered(samples) == SelectSeq(samples, LAMBDA s : s # Failed)

\* medianVerdict, twice the score: the mean of the two middle ones.
\* Faulty variant: the upper middle alone.
MedianUpper(rs) == 2 * SortSeq(rs, <)[Len(rs) \div 2 + 1]

Median(rs) ==
  LET sorted == SortSeq(rs, <)
      mid == (Len(rs) - 1) \div 2 + 1
  IN  IF Len(rs) % 2 = 0 THEN sorted[mid] + sorted[mid + 1] ELSE 2 * sorted[mid]

\* Score and JudgeRubric: samples that fail are skipped; it is an error only if
\* all did.  A rubric passes by a strict majority of those that answered.
Judge(samples) ==
  LET rs == Answered(samples)
      yes == Cardinality({i \in DOMAIN rs : rs[i] >= Threshold})
  IN  scored' = [kind |-> "judge", samples |-> samples, err |-> rs = <<>>,
                 score |-> IF rs = <<>> THEN 0 ELSE Median(rs),
                 pass |-> rs # <<>> /\ Median(rs) >= 2 * Threshold,
                 rubric |-> yes * 2 > Len(rs)]

-----------------------------------------------------------------------------

Init == scored = <<>>

Next ==
  /\ scored = <<>>
  /\ \/ \E na, ne \in Lengths : \E eq \in SUBSET ((1..na) \X (1..ne)) :
          MatchTrajectory(na, ne, eq)
     \/ \E a, e \in Calls : CompareCalls(a, e)
     \/ \E c, r \in Texts : Rouge(c, r)
     \/ \E s \in Samples : Judge(s)

Spec == Init /\ [][Next]_scored

-----------------------------------------------------------------------------
(* Properties *)

Assignments(na, ne, eq) ==
  {f \in [1..ne -> 1..na] : IsInjective(f) /\ \A e \in 1..ne : <<f[e], e>> \in eq}

\* MatchTrajectory says whether the expected calls can be assigned distinct
\* actual ones, in the same order for InOrder, one by one for Exact: the greedy
\* scan and the augmenting paths find an assignment whenever there is one.
MatchFindsAssignment ==
  scored # <<>> /\ scored.kind = "trajectory" =>
    LET fs == Assignments(scored.na, scored.ne, scored.eq) IN
    /\ scored.anyOrder <=> fs # {}
    /\ scored.inOrder <=> \E f \in fs : \A i, j \in 1..scored.ne : i < j => f[i] < f[j]
    /\ scored.exact <=> scored.na = scored.ne /\ \E f \in fs : \A i \in 1..scored.ne : f[i] = i

\* Options only make a comparison of two calls looser, a call always matches
\* itself, and one that is written without arguments in another way (callMatches,
\* argsMatch, nameMatches).
OptionsOnlyLoosen ==
  scored # <<>> /\ scored.kind = "call" =>
    /\ \A x \in scored.matches, i, m, s \in BOOLEAN :
         (x[1] => i) /\ (x[2] => m) /\ (x[3] => s) => <<i, m, s>> \in scored.matches
    /\ scored.a = scored.e => scored.matches = BOOLEAN \X BOOLEAN \X BOOLEAN
    /\ /\ scored.a.args \in {NoArgs, <<"object", <<>>>>}
       /\ scored.e.args \in {NoArgs, <<"object", <<>>>>}
       => (<<FALSE, FALSE, FALSE>> \in scored.matches
             <=> <<TRUE, FALSE, FALSE>> \in scored.matches)

\* ROUGE-L counts the longest subsequence the texts share, is never above
\* ROUGE-1 and is 1 for equal texts only (RougeL, Rouge1, fMeasure).
RougeIsSound ==
  scored # <<>> /\ scored.kind = "rouge" =>
    LET sub(s) == {[k \in 1..Cardinality(K) |-> s[SetToSortSeq(K, <)[k]]]
                     : K \in SUBSET DOMAIN s}
        shared == sub(scored.c) \cap sub(scored.r)
    IN  /\ scored.overlap = Max({Len(x) : x \in shared})
        /\ scored.long[1] * scored.one[2] <= scored.one[1] * scored.long[2]
        /\ scored.long[1] <= scored.long[2] /\ scored.one[1] <= scored.one[2]
        /\ scored.long[1] = scored.long[2] <=> scored.c = scored.r

\* The median of a judge's answers has as many below it as above and leans to
\* neither side (it is the mirror of the mirrored answers' median), a judge that
\* always says the same keeps its verdict, whichever samples failed, and score
\* and rubric agree for an odd number of answers (medianVerdict, JudgeRubric).
JudgeIsFair ==
  scored # <<>> /\ scored.kind = "judge" =>
    LET rs == Answered(scored.samples)
        half(P(_)) == 2 * Cardinality({i \in DOMAIN rs : P(2 * rs[i])}) <= Len(rs)
    IN  /\ scored.err <=> \A i \in DOMAIN scored.samples : scored.samples[i] = Failed
        /\ ~scored.err =>
             /\ half(LAMBDA x : x < scored.score) /\ half(LAMBDA x : x > scored.score)
             /\ Median([i \in DOMAIN rs |-> -rs[i]]) = -scored.score
             /\ (\A i \in DOMAIN rs : rs[i] >= Threshold) => scored.pass /\ scored.rubric
             /\ (\A i \in DOMAIN rs : rs[i] < Threshold) => ~scored.pass /\ ~scored.rubric
             /\ Len(rs) % 2 = 1 => (scored.pass <=> scored.rubric)

\* What the scorers compute is what they mean.
ScoresAreRight ==
  MatchFindsAssignment /\ OptionsOnlyLoosen /\ RougeIsSound /\ JudgeIsFair
=============================================================================
