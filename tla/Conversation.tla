---------------------------- MODULE Conversation ----------------------------
(***************************************************************************)
(* A simulated conversation (src/eval/conversation.go): Conversation with  *)
(* mergeRuns, over a caller's session or a ClientSession, with a scripted  *)
(* user or one played by Claude (LLMUser).                                 *)
(*                                                                         *)
(* A turn's run is [calls, response, cost]: its tool calls, its response   *)
(* (0 if it has none) and its cost, which stands for every summed metric.  *)
(* Each turn really costs 1; a ClientSession reports the cost of the       *)
(* session so far (client.Turn, client.go:136).                            *)
(*                                                                         *)
(* An operator introduced as a "faulty variant" is no part of Next: it is  *)
(* the definition after it with a plausible bug.                           *)
(***************************************************************************)
EXTENDS Naturals, Sequences, SequencesExt

CONSTANTS
  Limits,    \* values of maxTurns
  Scripts,   \* the scripts of a scripted user: sequences of "text" and "blank"
  Played     \* in place of a script: the user is played by Claude

VARIABLES
  maxTurns, script, cumulative,  \* the caller's choices
  pc,        \* "query", "user", "ended", "agent failed", "user failed"
  message,   \* what is sent next: 0 the start, i the user's i-th message
  history,   \* for every turn the message it answers
  merged,    \* the merged run
  runs       \* history: the runs observed, in order

vars == <<maxTurns, script, cumulative, pc, message, history, merged, runs>>

Init ==
  /\ maxTurns \in Limits /\ script \in Scripts \cup {Played} /\ cumulative \in BOOLEAN
  /\ pc = "query" /\ message = 0 /\ history = <<>>
  /\ merged = [calls |-> <<>>, response |-> 0, cost |-> 0] /\ runs = <<>>

Limit == IF maxTurns < 1 THEN 1 ELSE maxTurns

MergeRuns(a, b) ==
  [calls |-> a.calls \o b.calls, response |-> b.response, cost |-> a.cost + b.cost]

\* Faulty variant: the run of a turn that failed is dropped with its error.
ObserveIfOk(run, ok) == merged' = IF ok THEN MergeRuns(merged, run) ELSE merged

\* The run is merged before the error is looked at.
Observe(run, ok) == merged' = MergeRuns(merged, run)

\* Query fails on an error of the session; ClientSession's on an error result too.
Query ==
  /\ pc = "query"
  /\ \E calls \in {<<>>, <<Len(runs) + 1>>}, response \in {0, Len(runs) + 1}, ok \in BOOLEAN :
       LET run == [calls |-> calls, response |-> response,
                   cost |-> IF cumulative THEN Len(runs) + 1 ELSE 1]
       IN  /\ Observe(run, ok)
           /\ runs' = Append(runs, run)
           /\ history' = IF ok THEN Append(history, message) ELSE history
           /\ pc' = IF ~ok THEN "agent failed"
                    ELSE IF Len(history) + 1 = Limit THEN "ended" ELSE "user"
  /\ UNCHANGED <<maxTurns, script, cumulative, message>>

\* Faulty variant: the index is the length of the history.
ScriptedNextSkips == IF Len(history) < Len(script) THEN Len(history) + 1 ELSE 0

\* The i-th message after turn i, 0 (done) once they run out.
ScriptedNext == IF Len(history) - 1 < Len(script) THEN Len(history) ELSE 0

\* A user played by Claude may go on, be done (GoalReached), or fail; a scripted
\* message that is blank ends the conversation as well.
User ==
  /\ pc = "user"
  /\ \E next \in IF script = Played THEN {Len(history), 0} ELSE {ScriptedNext} :
       IF next = 0 \/ (script # Played /\ script[next] = "blank")
       THEN pc' = "ended" /\ UNCHANGED message
       ELSE pc' = "query" /\ message' = next
  /\ UNCHANGED <<maxTurns, script, cumulative, history, merged, runs>>

UserFails ==
  /\ pc = "user" /\ script = Played
  /\ pc' = "user failed"
  /\ UNCHANGED <<maxTurns, script, cumulative, message, history, merged, runs>>

Next == Query \/ User \/ UserFails

Spec == Init /\ [][Next]_vars

-----------------------------------------------------------------------------
(* Properties *)

\* The merged run has "all tool calls in order, the last response, summed metrics"
\* and "what was gathered so far" when the agent or the user fails
\* (conversation.go:95-98): nothing is lost or counted twice, unless the session
\* reports cumulative costs.  The history is the turns that ended well, each
\* answering the next message; a conversation ends with every message of a script
\* before its first blank one answered, unless the limit comes first.
ConversationIsComplete ==
  /\ merged.calls = FlattenSeq([i \in DOMAIN runs |-> runs[i].calls])
  /\ runs # <<>> => merged.response = Last(runs).response
  /\ ~cumulative => merged.cost = Len(runs)
  /\ Len(runs) \in Len(history)..Len(history) + 1 /\ Len(runs) <= Limit
  /\ Len(runs) # Len(history) => pc = "agent failed"
  /\ \A i \in DOMAIN history : history[i] = i - 1
  /\ pc = "ended" /\ script # Played =>
       /\ \A i \in 1..Len(history) - 1 : script[i] = "text"
       /\ \/ Len(history) = Limit \/ Len(history) = Len(script) + 1
          \/ script[Len(history)] = "blank"
=============================================================================
