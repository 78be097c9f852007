------------------------------ MODULE AgentNode ------------------------------
(***************************************************************************)
(* A node that runs Claude (src/graph/agent.go): runAgent's choice of what *)
(* to send, what hears of each stream event and in which order             *)
(* (noteSession in durable.go, the hooks of step.go), the cost of the node *)
(* (AddCost in report.go) and what Agent makes of the result.  A node of   *)
(* the caller's own may make several calls of RunAgent at once; it is      *)
(* taken to treat their results as Agent does.                             *)
(*                                                                         *)
(* The runner is external here (AgentCall.tla has its retries): it emits   *)
(* events and returns a result, an error, or both.                         *)
(*                                                                         *)
(* An operator introduced as a "faulty variant" is no part of Next: it is  *)
(* the definition after it with a plausible bug.                           *)
(***************************************************************************)
EXTENDS Naturals, Sequences, FiniteSets, FiniteSetsExt

CONSTANTS
  Calls,       \* the RunAgent calls of the node
  Recovered,   \* the session a recovered node is to continue
  MaxEvents    \* bound: stream events of a call

VARIABLES
  setup,      \* [logged, observer, recovered, allow]: a run log or step hooks are
              \* there, an AgentObserver is, a session to continue is, and
              \* AllowErrorResult is set
  given,      \* the calls whose Input names a session to resume itself
  pc,         \* a call: "idle", "streaming", "noting", "told", "returned", "billed"
  resumed,    \* the session a call was told to resume
  events,     \* number of events a call has seen
  sess,       \* the session noted last (scope.sess)
  record,     \* the sessions logged, in order
  heard,      \* the sessions of the events the caller has heard of
  result,     \* what the runner returned: cost, and how it ended
  cost,       \* scope.cost
  node        \* "running", "applied", "failed"

stream == <<pc, events, sess, record, heard>>
vars == <<setup, given, resumed, stream, result, cost, node>>

None == "none"
NoResult == [cost |-> 0, how |-> None]

Init ==
  /\ setup \in [logged : BOOLEAN, observer : BOOLEAN, recovered : BOOLEAN, allow : BOOLEAN]
  /\ given \in SUBSET Calls
  /\ pc = [c \in Calls |-> "idle"] /\ resumed = [c \in Calls |-> None]
  /\ events = [c \in Calls |-> 0] /\ sess = None /\ record = <<>> /\ heard = {}
  /\ result = [c \in Calls |-> NoResult] /\ cost = 0 /\ node = "running"

\* Faulty variant: the recovered session wins over the one the Input names.
ToResumeAlways(c) ==
  IF setup.recovered THEN Recovered ELSE IF c \in given THEN c ELSE None

\* A session of the Input wins; else a recovered node continues its session, with
\* a prompt that says so.
ToResume(c) ==
  IF c \in given THEN c ELSE IF setup.recovered THEN Recovered ELSE None

Start(c) ==
  /\ pc[c] = "idle" /\ node = "running"
  /\ pc' = [pc EXCEPT ![c] = "streaming"]
  /\ resumed' = [resumed EXCEPT ![c] = ToResume(c)]
  /\ UNCHANGED <<setup, given, events, sess, record, heard, result, cost, node>>

\* The CLI keeps the id of a session it resumes.
SessionOf(c) == IF resumed[c] = None THEN c ELSE resumed[c]

\* An AgentObserver takes the place of the log and of the hooks.
Notes == setup.logged /\ ~setup.observer

\* The first half of the progress function: under the lock, is the session new?
Event(c) ==
  /\ pc[c] = "streaming" /\ events[c] < MaxEvents
  /\ events' = [events EXCEPT ![c] = @ + 1]
  /\ IF Notes /\ SessionOf(c) # sess
     THEN sess' = SessionOf(c) /\ pc' = [pc EXCEPT ![c] = "noting"]
     ELSE pc' = [pc EXCEPT ![c] = "told"] /\ UNCHANGED sess
  /\ UNCHANGED <<setup, given, resumed, record, heard, result, cost, node>>

\* OnSession and the record are written without the lock.
NoteSession(c) ==
  /\ pc[c] = "noting"
  /\ record' = Append(record, SessionOf(c))
  /\ pc' = [pc EXCEPT ![c] = "told"]
  /\ UNCHANGED <<setup, given, resumed, events, sess, heard, result, cost, node>>

\* Faulty variant: the caller hears of the event while it is being noted.
HearBefore(c) ==
  /\ pc[c] \in {"noting", "told"}
  /\ heard' = heard \cup {SessionOf(c)}
  /\ pc' = IF pc[c] = "told" THEN [pc EXCEPT ![c] = "streaming"] ELSE pc
  /\ UNCHANGED <<setup, given, resumed, events, sess, record, result, cost, node>>

\* The caller's progress function, the hook or the observer.
Hear(c) ==
  /\ pc[c] = "told"
  /\ heard' = heard \cup {SessionOf(c)}
  /\ pc' = [pc EXCEPT ![c] = "streaming"]
  /\ UNCHANGED <<setup, given, resumed, events, sess, record, result, cost, node>>

\* The runner returns an error, with or without a result, or a result.
Return(c) ==
  /\ pc[c] = "streaming"
  /\ \E r \in {[cost |-> 0, how |-> "error without result"]} \cup
              [cost : {1}, how : {"error", "error result", "ok"}] :
       result' = [result EXCEPT ![c] = r]
  /\ pc' = [pc EXCEPT ![c] = "returned"]
  /\ UNCHANGED <<setup, given, resumed, events, sess, record, heard, cost, node>>

\* Faulty variant: a call that ends in an error is free.
AddCostOfSuccess(c) ==
  /\ pc[c] = "returned"
  /\ cost' = IF result[c].how \in {"ok", "error result"} THEN cost + result[c].cost ELSE cost
  /\ pc' = [pc EXCEPT ![c] = "billed"]
  /\ UNCHANGED <<setup, given, resumed, events, sess, record, heard, result, node>>

\* AddCost, whether or not the call succeeded.
AddCost(c) ==
  /\ pc[c] = "returned"
  /\ cost' = cost + result[c].cost
  /\ pc' = [pc EXCEPT ![c] = "billed"]
  /\ UNCHANGED <<setup, given, resumed, events, sess, record, heard, result, node>>

\* Faulty variant: an error result is applied like any other.
GoodAlways(c) == result[c].how \in {"ok", "error result"}

\* What Agent hands to apply.
Good(c) == result[c].how = "ok" \/ (result[c].how = "error result" /\ setup.allow)

\* The node returns when its calls have; Agent makes one, and apply may fail.
Finish ==
  /\ node = "running" /\ \A c \in Calls : pc[c] = "billed"
  /\ \/ (\A c \in Calls : Good(c)) /\ node' = "applied"
     \/ node' = "failed"
  /\ UNCHANGED <<setup, given, resumed, stream, result, cost>>

Next ==
  \/ \E c \in Calls :
       Start(c) \/ Event(c) \/ NoteSession(c) \/ Hear(c) \/ Return(c) \/ AddCost(c)
  \/ Finish

Spec == Init /\ [][Next]_vars

-----------------------------------------------------------------------------
(* Properties *)

Alone == \A c, d \in Calls : c # d => resumed[c] # resumed[d] \/ resumed[c] = None

\* A session is "logged before anyone reacts to the event" (agent.go:103), so that
\* after a crash it can be continued, unless an AgentObserver listens or several
\* calls continue one session; a call that names its session continues that one;
\* no dollar a call has cost is missing from a finished node, however its calls
\* ended; and no result the caller did not ask to see is applied.
AgentNodeIsHonest ==
  /\ Notes /\ Alone => heard \subseteq {record[i] : i \in DOMAIN record}
  /\ \A c \in given : pc[c] # "idle" => SessionOf(c) = c
  /\ node # "running" =>
       cost = MapThenSumSet(LAMBDA c : result[c].cost, Calls)
  /\ node = "applied" => \A c \in Calls :
       /\ result[c].how \in {"ok", "error result"}
       /\ result[c].how = "error result" => setup.allow
=============================================================================
