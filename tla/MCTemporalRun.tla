---------------------------- MODULE MCTemporalRun ----------------------------
(* The graph Start -> draft, draft -> draft or review, review -> draft or End. *)
EXTENDS TemporalRun

MCNodes == {"draft", "review"}

MCTargets ==
  [n \in MCNodes \cup {Start} |->
     IF n = "draft" THEN {"draft", "review"}
     ELSE IF n = "review" THEN {"draft", End} ELSE {"draft"}]
=============================================================================
