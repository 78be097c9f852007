--------------------------- MODULE PermissionRules ---------------------------
(***************************************************************************)
(* Which requests a permission rule matches (src/permissions/             *)
(* permissions.go): globs, the legacy prefix form, compound shell commands *)
(* and file paths.  Texts are sequences of characters.                     *)
(*                                                                         *)
(* An operator introduced as a "faulty variant" is no part of Next: it is  *)
(* the definition after it with a plausible bug.                           *)
(***************************************************************************)
EXTENDS Naturals, Sequences, SequencesExt

CONSTANT Requests   \* what is matched: <<tool, pattern, input>>

VARIABLE verdict    \* the last request, and whether a rule of each kind matches

\* Faulty variant: a star is never given more than it took at first.
GlobNoRetry(pat, s) ==
  LET G[pi \in 1..Len(pat) + 1, ti \in 1..Len(s) + 1] ==
        IF pi > Len(pat) THEN ti > Len(s)
        ELSE IF pat[pi] = "*" THEN G[pi + 1, ti] \/ G[pi + 1, Len(s) + 1]
        ELSE ti <= Len(s) /\ pat[pi] \in {"?", s[ti]} /\ G[pi + 1, ti + 1]
  IN  G[1, 1]

\* glob's loop: a mismatch goes back to the last star, which takes one more.
Glob(pat, s) ==
  LET P == Len(pat)  T == Len(s)
      G[pi \in 1..P + 1, ti \in 1..T + 1, star \in 0..P, mark \in 1..T + 1] ==
        IF ti > T THEN \A i \in pi..P : pat[i] = "*"
        ELSE IF pi <= P /\ pat[pi] \in {"?", s[ti]} /\ pat[pi] # "*"
             THEN G[pi + 1, ti + 1, star, mark]
        ELSE IF pi <= P /\ pat[pi] = "*" THEN G[pi + 1, ti, pi, ti]
        ELSE star > 0 /\ G[star + 1, mark + 1, star, mark + 1]
  IN  G[1, 1, 0, 1]

\* argGlob: "prefix:*" is the prefix alone or followed by a space.
ArgGlob(pat, s) ==
  LET n == Len(pat) - 2 IN
  IF n >= 0 /\ SubSeq(pat, n + 1, n + 2) = <<":", "*">>
  THEN LET prefix == SubSeq(pat, 1, n) IN s = prefix \/ Glob(prefix \o <<" ", "*">>, s)
  ELSE Glob(pat, s)

Trim(s) ==
  LET ink == {i \in DOMAIN s : s[i] # " "}
  IN  IF ink = {} THEN <<>>
      ELSE SubSeq(s, CHOOSE i \in ink : \A j \in ink : i <= j,
                     CHOOSE i \in ink : \A j \in ink : i >= j)

\* The stretches of s between the characters of a set.
Split(s, cuts) ==
  FoldLeft(LAMBDA acc, ch : IF ch \in cuts THEN Append(acc, <<>>)
                            ELSE [acc EXCEPT ![Len(acc)] = Append(@, ch)],
           << <<>> >>, s)

Separators == {"&", "|", ";", "\n", "\r"}
Grouping == {"backtick", "(", ")", "{", "}"}

\* splitShell and splitShellDeny: the segments of a compound command.
SplitAt(cmd, cuts) ==
  LET parts == Split(cmd, cuts)
  IN  SelectSeq([i \in DOMAIN parts |-> Trim(parts[i])], LAMBDA p : p # <<>>)
SplitShell(cmd) == SplitAt(cmd, Separators)
SplitShellDeny(cmd) == SplitAt(cmd, Separators \cup Grouping)

Substitutes(s) == \E i \in 1..Len(s) - 1 : s[i] = "$" /\ s[i + 1] = "("

\* Faulty variant: one segment that matches is enough.
BashAllowsAny(pat, cmd) ==
  \E i \in DOMAIN SplitShell(cmd) : ArgGlob(pat, SplitShell(cmd)[i])

\* matchArg for Bash, Allow and Ask rules.
BashAllows(pat, cmd) ==
  /\ \A ch \in {"backtick", "<", ">"} : ~Contains(cmd, ch)
  /\ ~Substitutes(cmd)
  /\ SplitShell(cmd) # <<>>
  /\ \A i \in DOMAIN SplitShell(cmd) : ArgGlob(pat, SplitShell(cmd)[i])

\* matchArg for Bash, Deny rules.
BashDenies(pat, cmd) ==
  \/ ArgGlob(pat, cmd)
  \/ \E i \in DOMAIN SplitShellDeny(cmd) : ArgGlob(pat, SplitShellDeny(cmd)[i])

\* path.Clean on the elements of a slashed path.
Slashed(p) == [i \in DOMAIN p |-> IF p[i] = "\\" THEN "/" ELSE p[i]]
Elements(p) == Split(Slashed(p), {"/"})
Rooted(p) == p # <<>> /\ Slashed(p)[1] = "/"
Clean(p) ==
  FoldLeft(LAMBDA acc, el :
            IF el \in {<<>>, <<".">>} THEN acc
            ELSE IF el # <<".", ".">> THEN Append(acc, el)
            ELSE IF acc # <<>> /\ Last(acc) # el THEN Front(acc)
            ELSE IF Rooted(p) THEN acc ELSE Append(acc, el),
           <<>>, Elements(p))

\* matchPath: Deny rules also see the slashed and the cleaned path.
\* Faulty variant: a path is taken as written.
PathAllowsAny(pat, p) == ArgGlob(pat, p)

PathAllows(pat, p) ==
  /\ \A i \in DOMAIN Elements(p) : Elements(p)[i] # <<".", ".">>
  /\ ArgGlob(pat, p)
Joined(p) ==
  LET els == Clean(p)
      body == FoldLeft(LAMBDA acc, el : IF acc = <<>> THEN el ELSE acc \o <<"/">> \o el,
                       <<>>, els)
  IN  IF Rooted(p) THEN <<"/">> \o body ELSE IF els = <<>> THEN <<".">> ELSE body
PathDenies(pat, p) ==
  ArgGlob(pat, p) \/ ArgGlob(pat, Slashed(p)) \/ ArgGlob(pat, Joined(p))

\* Rule.matches for a tool that takes a path, for Bash and for any other tool.
Allows(tool, pat, in) ==
  CASE tool = "Bash" -> BashAllows(pat, in)
    [] tool = "Read" -> PathAllows(pat, in)
    [] OTHER -> ArgGlob(pat, in)
Denies(tool, pat, in) ==
  CASE tool = "Bash" -> BashDenies(pat, in)
    [] tool = "Read" -> PathDenies(pat, in)
    [] OTHER -> ArgGlob(pat, in)

Init == verdict = <<>>

Match(req) ==
  verdict' = [tool |-> req[1], pat |-> req[2], in |-> req[3],
              allow |-> Allows(req[1], req[2], req[3]),
              deny |-> Denies(req[1], req[2], req[3])]

Next == verdict = <<>> /\ \E req \in Requests : Match(req)

Spec == Init /\ [][Next]_verdict

-----------------------------------------------------------------------------
(* Properties *)

\* What a glob means: a star is any run of characters, "?" is one.
Means(pat, s) ==
  LET M[i \in 1..Len(pat) + 1, j \in 1..Len(s) + 1] ==
        IF i > Len(pat) THEN j > Len(s)
        ELSE IF pat[i] = "*" THEN \E k \in j..Len(s) + 1 : M[i + 1, k]
        ELSE j <= Len(s) /\ pat[i] \in {"?", s[j]} /\ M[i + 1, j + 1]
  IN  M[1, 1]

\* The commands in a text: the longest stretches without a separator.
Commands(s) ==
  {Trim(SubSeq(s, i, j)) : <<i, j>> \in
     {<<i, j>> \in (1..Len(s)) \X (1..Len(s)) :
        /\ \A k \in i..j : s[k] \notin Separators
        /\ i = 1 \/ s[i - 1] \in Separators
        /\ j = Len(s) \/ s[j + 1] \in Separators}} \ {<<>>}

\* Rules say what their patterns mean (glob, argGlob, matchArg, splitShell,
\* splitShellDeny, matchPath): the one-star loop of glob finds a match whenever
\* there is one; a rule that allows a shell text matches each of its commands,
\* and one that allows what is under a directory matches only paths that stay
\* there once resolved; whatever a pattern allows it also denies when it is
\* used in a Deny rule, grouping characters apart, at which only Deny cuts.
RulesMeanTheirPatterns ==
  verdict # <<>> =>
    LET v == verdict IN
    /\ v.tool \notin {"Bash", "Read"} => (v.allow <=> Means(v.pat, v.in))
    /\ v.tool = "Bash" /\ v.allow =>
         /\ Commands(v.in) # {}
         /\ \A c \in Commands(v.in) : ArgGlob(v.pat, c)
    /\ v.tool = "Read" /\ v.allow /\ v.pat = <<"d", "/", "*">> =>
         Clean(v.in) # <<>> /\ Clean(v.in)[1] = <<"d">>
    /\ v.allow /\ (v.tool = "Bash" => \A ch \in Grouping : ~Contains(v.in, ch))
         => v.deny
=============================================================================
