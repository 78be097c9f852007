------------------------------ MODULE MCFleet ------------------------------
(* Fleet over the ways in which three tasks can depend on one another, up  *)
(* to their names: the acyclic ones, those in which one task can never run *)
(* (it waits for itself, as it would for an unknown ID), and cycles of two.*)
EXTENDS Fleet

CONSTANTS a, b, c

MCTasks == {a, b, c}

Layered ==
  {d \in [MCTasks -> SUBSET MCTasks] :
    /\ d[a] \subseteq {a} /\ d[b] \subseteq {a} /\ d[c] \subseteq {a, b}}

Cyclic ==
  {d \in [MCTasks -> SUBSET MCTasks] :
    /\ d[a] = {b} /\ d[b] = {a} /\ d[c] \subseteq {a}}

MCBatches == Layered \cup Cyclic
=============================================================================
