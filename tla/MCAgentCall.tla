----------------------------- MODULE MCAgentCall -----------------------------
(* One local stream with retries; the same, with few lines, over three      *)
(* attempts; one remote stream with retries; and two streams and a JSON     *)
(* call of one Runner at once.                                              *)
EXTENDS AgentCall

CONSTANTS a, b, j, s

MCScenes ==
  {[calls |-> {a}, lines |-> 3, says |-> Lines, attempts |-> 2],
   [calls |-> {a}, lines |-> 2, says |-> {"session", "failure"}, attempts |-> 3],
   [calls |-> {s}, lines |-> 1, says |-> Lines \ {"long"}, attempts |-> 2],
   [calls |-> {a, b}, lines |-> 2, says |-> {"cost", "result"}, attempts |-> 1],
   [calls |-> {a, j}, lines |-> 2, says |-> {"cost", "result"}, attempts |-> 1]}
=============================================================================
