----------------------------- MODULE LogicalRun -----------------------------
(***************************************************************************)
(* What a durable run promises its caller (the package comment of          *)
(* src/graph/durable.go): one linear run of the graph that no crash, no    *)
(* store failure and no Recover is visible in.  Each node works on exactly *)
(* what its predecessor left, is given the answer to its question and      *)
(* nothing else, and moves the run on once.                                *)
(***************************************************************************)
EXTENDS Integers, Sequences

CONSTANTS Nodes, Start, End, Targets, MaxSteps, Answers, NoAnswer, Imported

VARIABLES
  at,       \* the node to run next: Start before the run, End after its last node
  done,     \* executions completed
  state,    \* what the nodes made of the state
  asked,    \* the node at "at" has asked a question
  reply,    \* the answer it got
  finished  \* the caller may be told that the run succeeded

vars == <<at, done, state, asked, reply, finished>>

Leaves(how) == Append(state, [node |-> at, reply |-> reply, how |-> how])

Init ==
  /\ at = Start /\ done = 0 /\ state = <<>>
  /\ asked = FALSE /\ reply = NoAnswer /\ finished = FALSE

Begin ==
  /\ at = Start
  /\ \/ at' \in Targets[Start] /\ done' = 0 /\ state' = <<>>
     \/ \E cp \in Imported : at' = cp.node /\ done' = cp.step /\ state' = cp.state
  /\ UNCHANGED <<asked, reply, finished>>

\* A node completes: once, on the state and the answer of this run.
Do ==
  /\ at \in Nodes /\ done < MaxSteps /\ ~finished
  /\ asked => reply # NoAnswer
  /\ at' \in Targets[at] /\ done' = done + 1 /\ state' = Leaves("done")
  /\ asked' = FALSE /\ reply' = NoAnswer
  /\ UNCHANGED finished

\* It stops to ask, or the question of an imported checkpoint is taken over.
Ask ==
  /\ at \in Nodes /\ done < MaxSteps /\ ~finished
  /\ asked => reply # NoAnswer
  /\ asked' = TRUE /\ reply' = NoAnswer
  /\ state' \in {state, Leaves("asked")}
  /\ UNCHANGED <<at, done, finished>>

\* Until the node completes, a second Resume may replace the answer.
Reply ==
  /\ asked /\ ~finished
  /\ reply' \in Answers
  /\ UNCHANGED <<at, done, state, asked, finished>>

Finish ==
  /\ at = End
  /\ finished' = TRUE
  /\ UNCHANGED <<at, done, state, asked, reply>>

Next == Begin \/ Do \/ Ask \/ Reply \/ Finish

Spec == Init /\ [][Next]_vars
=============================================================================
