-------------------------------- MODULE MCWeb --------------------------------
(* Two observed runs that ask and stop; one longer run; one run followed by *)
(* a browser; one of two branches; one whose graph has no observer on the   *)
(* server; and two that leave questions behind.                             *)
EXTENDS Web

CONSTANTS r1, r2, s1, u1, p1, c1, b1, b2

Alone(r) == [runs |-> {r}, readers |-> {}, controls |-> 0]

MCScenes ==
  {[runs |-> {r1, r2}, readers |-> {}, controls |-> 2],
   [runs |-> {s1}, readers |-> {}, controls |-> 2],
   [Alone(r1) EXCEPT !.readers = {c1}],
   Alone(p1), Alone(u1)}

OneRun == {Alone(s1)}

MCMaxSteps == [r \in Runs |-> IF r \in {s1, p1} THEN 2 ELSE 1]

MCBranchesOf == [r \in Runs |-> [n \in Nodes |-> IF r = p1 THEN <<b1, b2>> ELSE <<>>]]
=============================================================================
