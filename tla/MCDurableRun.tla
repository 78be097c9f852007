---------------------------- MODULE MCDurableRun ----------------------------
(***************************************************************************)
(* Small instances of DurableRun: a graph Start -> draft, draft -> draft   *)
(* or review, review -> draft or End (a loop, a branch and a way out).     *)
(***************************************************************************)
EXTENDS DurableRun

MCNodes == {"draft", "review"}

MCTargets ==
  [n \in MCNodes \cup {Start} |->
     IF n = "draft" THEN {"draft", "review"}
     ELSE IF n = "review" THEN {"draft", End} ELSE {"draft"}]

NoImports == {}

\* A run that paused at its second node in a graph without a store.
PausedElsewhere ==
  {[node |-> "review", step |-> 1,
    state |-> <<Mark("draft", NoAnswer, "done"), Mark("review", NoAnswer, "asked")>>,
    path |-> <<"draft", "review">>]}
=============================================================================
