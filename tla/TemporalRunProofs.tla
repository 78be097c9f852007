-------------------------- MODULE TemporalRunProofs --------------------------
(***************************************************************************)
(* Proofs about TemporalRun: its invariant, by an inductive one; that an   *)
(* attempt that follows a reported session continues it; and that, with    *)
(* any number of workers, crashes and answers, the workflow implements     *)
(* LogicalRun, the run that nothing interrupts.                            *)
(***************************************************************************)
EXTENDS TemporalRun, TLAPS

(***************************************************************************)
(* The inductive invariant                                                 *)
(***************************************************************************)
\* The workflow's locals at each place of its loop.
FlowOK ==
  /\ pc = "first" <=> cur = Start
  /\ pc = "first" => step = 0 /\ state = <<>>
  /\ pc \in {"node", "ask", "again"} => cur \in Nodes /\ step \in 1..MaxSteps
  /\ pc \in {"first", "loop", "ask"} => answer = NoAnswer
  /\ pc = "again" => answer \in Answers
  /\ out = "ok" => pc = "loop" /\ cur = End

\* The activity in flight runs the node at cur on the workflow's state.
ActivityOK ==
  /\ pc = "node" =>
       /\ input = [node |-> cur, step |-> step, state |-> state, reply |-> answer]
       /\ try >= 1 /\ path # <<>>
  /\ started => pc = "node" /\ Running

\* Of every attempt of every activity there is at most one, and none is ahead of
\* the server.
AttemptsOK ==
  /\ \A w \in live : w.activity \in 1..Len(path)
  /\ \A v, w \in live : v.activity = w.activity /\ v.try = w.try => v = w
  /\ pc = "node" /\ Running =>
       \A w \in live : w.activity = Len(path) =>
         w.try <= try /\ (w.try = try => started)

\* "session" was begun in "activity".
BegunIn(session, activity) ==
  session \in 1..Len(begun) /\ begun[session] = activity

\* A session is noted and reported in the activity it was begun in only, and
\* once one was reported the server has one for the next attempt.
SessionsOK ==
  /\ details # 0 => BegunIn(details, Len(path))
  /\ details # 0 /\ pc = "node" /\ Running => started \/ try > 1
  /\ \A w \in live :
       /\ w.note # 0 => BegunIn(w.note, w.activity)
       /\ Running /\ Current(w) /\ details # 0 => w.note # 0
  /\ reached <= Len(path)
  /\ reached = Len(path) /\ path # <<>> => details # 0

\* Answers received so far.
Received == Len(sent) - Len(signals)

Distinct(s) == \A i, j \in DOMAIN s : s[i] = s[j] => i = j

\* Every question was received an answer for, but for the one being asked;
\* answers arrive in the order they were sent, and if none was sent twice for a
\* question, the k-th is the one to the k-th question.
AnswersOK ==
  /\ Received = (IF pc = "ask" THEN asks - 1 ELSE asks) /\ Received >= 0
  /\ \A i \in 1..Len(signals) : signals[i].question = sent[Received + i]
  /\ \A i \in 1..Len(sent) : sent[i] \in 1..asks
  /\ Distinct(sent) => \A i \in 1..Received : sent[i] = i
  /\ pc = "again" => Received >= 1 /\ took = sent[Received]

IInv == TypeOK /\ FlowOK /\ ActivityOK /\ AttemptsOK /\ SessionsOK /\ AnswersOK

(***************************************************************************)
(* What a step can do                                                      *)
(***************************************************************************)
LEMMA RetriedCases ==
  ASSUME Retried, TypeOK
  PROVE  \/ try < MaxAttempts /\ try' = try + 1 /\ UNCHANGED flow
         \/ try' = try /\ Fails
BY DEF Retried

\* To the workflow: nothing; or it fails; or it takes one of its own steps, or
\* is told how the attempt of its activity ended.
LEMMA FlowCases ==
  ASSUME TypeOK, [Next]_vars
  PROVE  \/ UNCHANGED flow
         \/ Running /\ Fails
         \/ \E next \in Targets[Start] : First(next)
         \/ ReachEnd \/ Schedule \/ Receive
         \/ \E w \in live : \/ \E next \in Targets[input.node] : Completes(w, next)
                            \/ Asks(w)
<1>1. CASE Workflow
  BY <1>1 DEF Workflow, FirstFails, MaxStepsReached, ScheduleCancelled
<1>2. CASE StartAttempt
  BY <1>2 DEF StartAttempt
<1>3. CASE TimesOut
  <2>1. Running /\ Retried
    BY <1>3 DEF TimesOut
  <2> QED BY <2>1, RetriedCases
<1>4. ASSUME NEW w \in live, Worker(w)
      PROVE  \/ UNCHANGED flow
             \/ Running /\ Fails
             \/ \E next \in Targets[input.node] : Completes(w, next)
             \/ Asks(w)
  <2>1. CASE AttemptFails(w)
    <3>1. Running /\ Retried
      BY <2>1 DEF AttemptFails
    <3> QED BY <3>1, RetriedCases
  <2>2. CASE AttemptFailsForGood(w)
    BY <2>2 DEF AttemptFailsForGood
  <2> QED BY <1>4, <2>1, <2>2 DEF Worker, NewSession, Beat, WorkerDies, Unheard
<1>5. CASE \E a \in Answers, question \in 1..asks : Answer(a, question)
  BY <1>5 DEF Answer
<1>6. CASE Cancel
  BY <1>6 DEF Cancel
<1>7. CASE UNCHANGED vars
  BY <1>7 DEF vars
<1> QED BY <1>1, <1>2, <1>3, <1>4, <1>5, <1>6, <1>7 DEF Next

\* To the session of the activity in flight, and to the path.
LEMMA ServerCases ==
  ASSUME TypeOK, [Next]_vars
  PROVE  \/ Schedule
         \/ /\ path' = path
            /\ \/ UNCHANGED <<details, reached>>
               \/ \E w \in live : Beat(w)
<1>1. CASE Workflow
  BY <1>1 DEF Workflow, First, FirstFails, ReachEnd, MaxStepsReached, ScheduleCancelled,
              Receive, Fails, server
<1>2. CASE StartAttempt
  BY <1>2 DEF StartAttempt, flow
<1>3. CASE TimesOut
  <2>1. UNCHANGED <<details, reached>> /\ Retried
    BY <1>3 DEF TimesOut
  <2> QED BY <2>1, RetriedCases DEF flow, Fails
<1>4. ASSUME NEW w \in live, Worker(w)
      PROVE  path' = path /\ (UNCHANGED <<details, reached>> \/ Beat(w))
  <2>1. CASE AttemptFails(w)
    <3>1. UNCHANGED <<details, reached>> /\ Retried
      BY <2>1 DEF AttemptFails
    <3> QED BY <3>1, RetriedCases DEF flow, Fails
  <2>2. CASE AttemptFailsForGood(w)
    BY <2>2 DEF AttemptFailsForGood, Fails
  <2>3. CASE NewSession(w) \/ WorkerDies(w) \/ Unheard(w)
    BY <2>3 DEF NewSession, WorkerDies, Unheard, flow, server
  <2> QED BY <1>4, <2>1, <2>2, <2>3 DEF Worker, Beat, Completes, Asks, flow
<1>5. CASE \E a \in Answers, question \in 1..asks : Answer(a, question)
  BY <1>5 DEF Answer, flow, server
<1>6. CASE Cancel
  BY <1>6 DEF Cancel, flow, server
<1>7. CASE UNCHANGED vars
  BY <1>7 DEF vars, flow, server
<1> QED BY <1>1, <1>2, <1>3, <1>4, <1>5, <1>6, <1>7 DEF Next

\* To the attempts: one starts; one notes a new session; or some are gone, and
\* if an activity is still in flight the server has the same one or counts one more.
LEMMA LiveCases ==
  ASSUME TypeOK, [Next]_vars
  PROVE  \/ StartAttempt
         \/ Schedule
         \/ \E w \in live : NewSession(w)
         \/ /\ live' \subseteq live /\ path' = path /\ begun' = begun
            /\ pc' = "node" /\ Running' =>
                 \/ UNCHANGED <<pc, out, try, started>>
                 \/ pc = "node" /\ Running /\ try' = try + 1
<1>1. CASE Workflow
  BY <1>1 DEF Workflow, First, FirstFails, ReachEnd, MaxStepsReached, ScheduleCancelled,
              Receive, Fails, Running, server
<1>2. CASE TimesOut
  <2>1. live' = live /\ begun' = begun /\ pc = "node" /\ Running /\ Retried
    BY <1>2 DEF TimesOut
  <2> QED BY <2>1, RetriedCases DEF flow, Fails, Running
<1>3. ASSUME NEW w \in live, Worker(w), ~NewSession(w)
      PROVE  /\ live' \subseteq live /\ path' = path /\ begun' = begun
             /\ pc' = "node" /\ Running' =>
                  \/ UNCHANGED <<pc, out, try, started>>
                  \/ pc = "node" /\ Running /\ try' = try + 1
  <2>1. CASE AttemptFails(w)
    <3>1. live' \subseteq live /\ begun' = begun /\ Running /\ Retried
      BY <2>1 DEF AttemptFails
    <3> QED BY <3>1, RetriedCases DEF flow, Fails, Running
  <2>2. CASE AttemptFailsForGood(w)
    BY <2>2 DEF AttemptFailsForGood, Fails, Running
  <2>3. CASE Beat(w) \/ WorkerDies(w) \/ Unheard(w)
    BY <2>3 DEF Beat, WorkerDies, Unheard, flow, server
  <2> QED BY <1>3, <2>1, <2>2, <2>3 DEF Worker, Completes, Asks
<1>4. CASE \E a \in Answers, question \in 1..asks : Answer(a, question)
  BY <1>4 DEF Answer, flow, server
<1>5. CASE Cancel
  BY <1>5 DEF Cancel, flow, server
<1>6. CASE UNCHANGED vars
  BY <1>6 DEF vars, flow, server
<1> QED BY <1>1, <1>2, <1>3, <1>4, <1>5, <1>6 DEF Next

(***************************************************************************)
(* The invariant holds initially and every step preserves it               *)
(***************************************************************************)
LEMMA InitIInv == Init => IInv
<1> SUFFICES ASSUME Init PROVE IInv
  OBVIOUS
<1> USE DEF Init
<1>1. NoInput \in Inputs
  BY DEF NoInput, Inputs, Replies
<1>2. TypeOK
  <2>1. /\ state \in Seq(Marks) /\ path \in Seq(Nodes) /\ begun \in Seq(Nat)
        /\ sent \in Seq(Nat) /\ signals \in Seq([reply : Answers, question : Nat])
    OBVIOUS
  <2>2. try \in 0..MaxAttempts
    BY TemporalAssumption
  <2> QED BY <1>1, <2>1, <2>2 DEF TypeOK, Replies
<1>3. FlowOK /\ ActivityOK
  BY DEF FlowOK, ActivityOK, Running
<1>4. AttemptsOK /\ SessionsOK
  BY DEF AttemptsOK, SessionsOK
<1>5. AnswersOK
  BY DEF AnswersOK, Received, Distinct
<1> QED BY <1>2, <1>3, <1>4, <1>5 DEF IInv

\* What Receive takes off the buffer.
LEMMA HeadTyped ==
  ASSUME signals \in Seq([reply : Answers, question : Nat]), signals # <<>>
  PROVE  /\ Head(signals) = signals[1] /\ Head(signals).reply \in Answers
         /\ Head(signals).question \in Nat /\ Len(signals) >= 1
         /\ Tail(signals) \in Seq([reply : Answers, question : Nat])
         /\ Len(Tail(signals)) = Len(signals) - 1
         /\ \A i \in 1..(Len(signals) - 1) : Tail(signals)[i] = signals[i + 1]
<1>1. Len(signals) \in Nat /\ Len(signals) >= 1
  OBVIOUS
<1>2. signals[1].reply \in Answers /\ signals[1].question \in Nat
  <2> DEFINE S == [reply : Answers, question : Nat]
  <2>1. \A x \in S : x.reply \in Answers /\ x.question \in Nat
    OBVIOUS
  <2>2. signals \in Seq(S)
    OBVIOUS
  <2> HIDE DEF S
  <2>3. signals[1] \in S
    BY <1>1, <2>2
  <2> QED BY <2>1, <2>3
<1>5. Head(signals) = signals[1]
  BY <1>1
<1>3. /\ Tail(signals) \in Seq([reply : Answers, question : Nat])
      /\ Len(Tail(signals)) = Len(signals) - 1
  OBVIOUS
<1>4. \A i \in 1..(Len(signals) - 1) : Tail(signals)[i] = signals[i + 1]
  BY <1>1, <1>3
<1> QED BY <1>1, <1>2, <1>3, <1>4, <1>5

\* What Schedule adds to the path.
LEMMA ScheduledPath ==
  ASSUME TypeOK, FlowOK, Schedule
  PROVE  /\ cur \in Nodes /\ Len(path) \in Nat
         /\ path' \in Seq(Nodes) /\ Len(path') = Len(path) + 1 /\ path' # <<>>
<1>1. cur \in Nodes
  BY TemporalAssumption DEF Schedule, FlowOK, TypeOK
<1>2. path \in Seq(Nodes) /\ path' = Append(path, cur)
  BY DEF TypeOK, Schedule
<1>3. path' \in Seq(Nodes) /\ Len(path') = Len(path) + 1 /\ Len(path) \in Nat
  BY <1>1, <1>2
<1>4. Len(path') # 0
  BY <1>3
<1>5. path' # <<>>
  BY <1>3, <1>4
<1> QED BY <1>1, <1>3, <1>5

LEMMA NextFlowOK == IInv /\ [Next]_vars => FlowOK'
<1> SUFFICES ASSUME IInv, [Next]_vars PROVE FlowOK'
  OBVIOUS
<1> USE DEF IInv, FlowOK
<1>1. CASE UNCHANGED flow
  BY <1>1 DEF flow
<1>2. CASE Running /\ Fails
  BY <1>2 DEF Fails
<1>3. ASSUME NEW next \in Targets[Start], First(next) PROVE FlowOK'
  <2>1. next # Start
    BY TemporalAssumption
  <2> QED BY <1>3, <2>1 DEF First
<1>4. CASE ReachEnd
  BY <1>4 DEF ReachEnd
<1>5. CASE Schedule
  <2>1. step \in Nat /\ cur \in Nodes \cup {Start, End} /\ MaxSteps \in Nat
    BY TemporalAssumption DEF TypeOK
  <2> QED BY <1>5, <2>1 DEF Schedule, NextStep, Running
<1>6. CASE Receive
  <2>1. Head(signals).reply \in Answers
    BY <1>6, HeadTyped DEF Receive, TypeOK
  <2> QED BY <1>6, <2>1 DEF Receive, Running
<1>7. ASSUME NEW w \in live, NEW next \in Targets[input.node], Completes(w, next)
      PROVE  FlowOK'
  <2>1. pc = "node" /\ Running
    BY <1>7 DEF Completes, Current, ActivityOK
  <2>2. input.node = cur /\ cur \in Nodes
    BY <2>1 DEF ActivityOK
  <2>3. next # Start
    BY <2>2, TemporalAssumption
  <2> QED BY <1>7, <2>1, <2>3 DEF Completes, AnswerAfter, Running
<1>8. ASSUME NEW w \in live, Asks(w) PROVE FlowOK'
  <2>1. pc = "node" /\ Running
    BY <1>8 DEF Asks, Current, ActivityOK
  <2> QED BY <1>8, <2>1 DEF Asks, Running
<1> QED BY <1>1, <1>2, <1>3, <1>4, <1>5, <1>6, <1>7, <1>8, FlowCases

LEMMA NextActivityOK == IInv /\ [Next]_vars => ActivityOK'
<1> SUFFICES ASSUME IInv, [Next]_vars PROVE ActivityOK'
  OBVIOUS
<1> USE DEF IInv, ActivityOK
<1>1. CASE Schedule
  <2>1. path' # <<>>
    BY <1>1, ScheduledPath
  <2> QED BY <1>1, <2>1 DEF Schedule, Running
<1>2. CASE Workflow /\ ~Schedule
  BY <1>2 DEF Workflow, First, FirstFails, ReachEnd, MaxStepsReached, ScheduleCancelled,
              Receive, Fails, Running, server
<1>3. CASE StartAttempt
  BY <1>3 DEF StartAttempt, flow, Running
<1>4. ASSUME Retried, input' = input, ~started' PROVE ActivityOK'
  <2>1. try \in Nat
    BY DEF TypeOK
  <2> QED BY <1>4, <2>1, RetriedCases DEF flow, Fails, Running
<1>5. CASE TimesOut
  BY <1>4, <1>5 DEF TimesOut
<1>6. ASSUME NEW w \in live, Worker(w) PROVE ActivityOK'
  <2>1. CASE AttemptFails(w)
    BY <1>4, <2>1 DEF AttemptFails
  <2>2. CASE AttemptFailsForGood(w)
    BY <2>2 DEF AttemptFailsForGood, Fails
  <2>3. CASE NewSession(w) \/ Beat(w) \/ WorkerDies(w) \/ Unheard(w)
    BY <2>3 DEF NewSession, Beat, WorkerDies, Unheard, flow, server, Running
  <2> QED BY <1>6, <2>1, <2>2, <2>3 DEF Worker, Completes, Asks
<1>7. CASE \E a \in Answers, question \in 1..asks : Answer(a, question)
  BY <1>7 DEF Answer, flow, server, Running
<1>8. CASE Cancel
  BY <1>8 DEF Cancel, flow, server, Running
<1>9. CASE UNCHANGED vars
  BY <1>9 DEF vars, flow, server, Running
<1> QED BY <1>1, <1>2, <1>3, <1>5, <1>6, <1>7, <1>8, <1>9 DEF Next

LEMMA NextAttemptsOK == IInv /\ [Next]_vars => AttemptsOK'
<1> SUFFICES ASSUME IInv, [Next]_vars PROVE AttemptsOK'
  OBVIOUS
<1> USE DEF IInv, AttemptsOK
<1>1. /\ Len(path) \in Nat /\ try \in Nat
      /\ \A w \in live : w \in Attempts /\ w.activity \in Nat /\ w.try \in Nat
  BY DEF TypeOK, Attempts
<1>2. CASE StartAttempt
  <2>1. PICK s : live' = live \cup {[activity |-> Len(path), try |-> try, session |-> s,
                                     note |-> FirstNote(s)]}
    BY <1>2 DEF StartAttempt
  <2> DEFINE new == [activity |-> Len(path), try |-> try, session |-> s, note |-> FirstNote(s)]
  <2>2. new.activity = Len(path) /\ new.try = try /\ live' = live \cup {new}
    BY <2>1
  <2> HIDE DEF new
  <2>3. /\ pc = "node" /\ Running /\ ~started
        /\ UNCHANGED <<pc, out, path, try>> /\ started' /\ Running'
    BY <1>2 DEF StartAttempt, flow, Running
  <2>4. path # <<>>
    BY <2>3, <1>1 DEF TypeOK, ActivityOK
  <2> QED BY <1>1, <2>2, <2>3, <2>4
<1>3. CASE Schedule
  <2>1. live' = live /\ Len(path') = Len(path) + 1
    BY <1>3, ScheduledPath DEF Schedule
  <2> QED BY <1>1, <2>1
<1>4. ASSUME NEW w \in live, NewSession(w) PROVE AttemptsOK'
  <2> DEFINE new == [w EXCEPT !.note = Len(begun) + 1]
  <2>1. new.activity = w.activity /\ new.try = w.try /\ live' = (live \ {w}) \cup {new}
    BY <1>1, <1>4 DEF NewSession, Attempts
  <2> HIDE DEF new
  <2>2. UNCHANGED <<pc, out, path, try, started>> /\ Running' = Running
    BY <1>4 DEF NewSession, flow, server, Running
  <2> QED BY <1>1, <2>1, <2>2
<1>5. CASE /\ live' \subseteq live /\ path' = path
           /\ pc' = "node" /\ Running' =>
                \/ UNCHANGED <<pc, out, try, started>>
                \/ pc = "node" /\ Running /\ try' = try + 1
  BY <1>1, <1>5 DEF Running
<1> QED BY <1>2, <1>3, <1>4, <1>5, LiveCases

\* A session stays begun in the activity it was begun in.
LEMMA BegunGrows ==
  ASSUME TypeOK, [Next]_vars, NEW n, NEW a, BegunIn(n, a)
  PROVE  BegunIn(n, a)'
<1>1. begun \in Seq(Nat) /\ live \subseteq Attempts
  BY DEF TypeOK
<1>2. CASE begun' = begun
  BY <1>2 DEF BegunIn
<1>3. ASSUME NEW w \in live, NewSession(w) PROVE BegunIn(n, a)'
  <2>1. w.activity \in Nat
    BY <1>1 DEF Attempts
  <2>2. begun' = Append(begun, w.activity)
    BY <1>3 DEF NewSession
  <2> QED BY <1>1, <2>1, <2>2 DEF BegunIn
<1> QED BY <1>2, <1>3, LiveCases DEF StartAttempt, Schedule

LEMMA NextSessionsOK == IInv /\ [Next]_vars => SessionsOK'
<1> SUFFICES ASSUME IInv, [Next]_vars PROVE SessionsOK'
  OBVIOUS
<1> USE DEF IInv
<1>1. /\ Len(path) \in Nat /\ try \in Nat /\ details \in Nat /\ reached \in Nat
      /\ begun \in Seq(Nat)
      /\ \A w \in live : w \in Attempts /\ w.activity \in Nat /\ w.try \in Nat /\ w.note \in Nat
  BY DEF TypeOK, Attempts
<1>2. /\ details' # 0 => BegunIn(details, Len(path))'
      /\ reached' <= Len(path)'
      /\ reached' = Len(path)' /\ path' # <<>> => details' # 0
  <2>1. CASE Schedule
    <3>1. details' = 0 /\ reached' = reached /\ Len(path') = Len(path) + 1
      BY <2>1, ScheduledPath DEF Schedule
    <3> QED BY <1>1, <3>1 DEF SessionsOK
  <2>2. ASSUME NEW w \in live, Beat(w), path' = path
        PROVE  /\ details' # 0 => BegunIn(details, Len(path))'
               /\ reached' <= Len(path)'
               /\ reached' = Len(path)' /\ path' # <<>> => details' # 0
    <3>1. /\ details' = w.note /\ begun' = begun
          /\ reached' = IF w.note # 0 THEN w.activity ELSE reached
          /\ w.activity = Len(path) /\ Running /\ Current(w)
      BY <2>2 DEF Beat, Current
    <3>2. w.note # 0 => BegunIn(w.note, Len(path))
      BY <3>1 DEF SessionsOK
    <3>3. w.note = 0 => details = 0
      BY <3>1 DEF SessionsOK
    <3>4. details' # 0 => BegunIn(details, Len(path))'
      BY <2>2, <3>1, <3>2 DEF BegunIn
    <3> QED BY <1>1, <2>2, <3>1, <3>3, <3>4 DEF SessionsOK
  <2>3. CASE path' = path /\ UNCHANGED <<details, reached>>
    <3>1. details' # 0 => BegunIn(details, Len(path))'
      BY <2>3, BegunGrows DEF SessionsOK, BegunIn
    <3> QED BY <2>3, <3>1 DEF SessionsOK
  <2> QED BY <2>1, <2>2, <2>3, ServerCases
<1>3. details' # 0 /\ pc' = "node" /\ Running' => started' \/ try' > 1
  <2>1. CASE StartAttempt
    BY <2>1 DEF StartAttempt
  <2>2. CASE Schedule
    BY <2>2 DEF Schedule
  <2>3. ASSUME NEW w \in live, NewSession(w)
        PROVE  details' # 0 /\ pc' = "node" /\ Running' => started' \/ try' > 1
    BY <2>3 DEF NewSession, flow, server, SessionsOK, Running
  <2>4. ASSUME pc = "node", Running, try' = try + 1 PROVE try' > 1
    BY <1>1, <2>4 DEF ActivityOK
  <2>5. ASSUME UNCHANGED <<pc, out, try, started>>, details' # 0, pc' = "node", Running'
        PROVE  started' \/ try' > 1
    <3>1. CASE details' = details
      BY <2>5, <3>1 DEF SessionsOK, Running
    <3>2. ASSUME NEW w \in live, Beat(w) PROVE started'
      BY <2>5, <3>2 DEF Beat, Current
    <3> QED BY <2>5, <3>1, <3>2, ServerCases DEF Schedule
  <2> QED BY <2>1, <2>2, <2>3, <2>4, <2>5, LiveCases
<1>4. ASSUME NEW w \in live', w \in live
      PROVE  w.note # 0 => BegunIn(w.note, w.activity)'
  BY <1>4, BegunGrows DEF SessionsOK
<1>5. \A w \in live' :
        /\ w.note # 0 => BegunIn(w.note, w.activity)'
        /\ Running' /\ Current(w)' /\ details' # 0 => w.note # 0
  <2>1. CASE StartAttempt
    <3>1. PICK s, new :
            /\ s = IF try > 1 THEN details ELSE 0
            /\ new = [activity |-> Len(path), try |-> try, session |-> s, note |-> FirstNote(s)]
            /\ live' = live \cup {new} /\ pc = "node" /\ Running /\ ~started
            /\ path' = path /\ try' = try /\ details' = details /\ begun' = begun
      BY <2>1 DEF StartAttempt, flow
    <3>2. new.note = s /\ new.activity = Len(path)
      BY <3>1 DEF FirstNote
    <3>3. s # 0 => BegunIn(s, Len(path))
      BY <3>1 DEF SessionsOK
    <3>4. details # 0 => s # 0
      BY <3>1 DEF SessionsOK
    <3>5. \A w \in live : ~Current(w)'
      BY <3>1 DEF AttemptsOK, Current
    <3>6. s # 0 => BegunIn(s, Len(path))'
      BY <3>1, <3>3 DEF BegunIn
    <3>7. ASSUME NEW w \in live', w = new
          PROVE  /\ w.note # 0 => BegunIn(w.note, w.activity)'
                 /\ details' # 0 => w.note # 0
      <4>1. BegunIn(w.note, w.activity)' <=> BegunIn(s, Len(path))'
        BY <3>1, <3>2, <3>7 DEF BegunIn
      <4> QED BY <3>1, <3>2, <3>4, <3>6, <3>7, <4>1
    <3> QED BY <1>4, <3>1, <3>5, <3>7
  <2>2. CASE Schedule
    BY <1>4, <2>2 DEF Schedule
  <2>3. ASSUME NEW v \in live, NewSession(v), NEW w \in live'
        PROVE  /\ w.note # 0 => BegunIn(w.note, w.activity)'
               /\ Running' /\ Current(w)' /\ details' # 0 => w.note # 0
    <3>1. PICK new :
          /\ new = [v EXCEPT !.note = Len(begun) + 1]
          /\ live' = (live \ {v}) \cup {new} /\ begun' = Append(begun, v.activity)
          /\ Current(w)' = Current(w) /\ Running' = Running /\ details' = details
      BY <2>3 DEF NewSession, flow, server, Running, Current
    <3>2. new.note = Len(begun) + 1 /\ new.activity = v.activity
      BY <1>1, <3>1 DEF Attempts
    <3>3. CASE w = new
      <4>1. w.note # 0
        BY <1>1, <3>2, <3>3
      <4>2. BegunIn(w.note, w.activity)'
        BY <1>1, <3>1, <3>2, <3>3 DEF BegunIn
      <4> QED BY <4>1, <4>2
    <3>4. CASE w \in live
      BY <1>4, <3>1, <3>4 DEF SessionsOK
    <3> QED BY <3>1, <3>3, <3>4
  <2>4. ASSUME /\ live' \subseteq live /\ path' = path
               /\ pc' = "node" /\ Running' =>
                    \/ UNCHANGED <<pc, out, try, started>>
                    \/ pc = "node" /\ Running /\ try' = try + 1,
               NEW w \in live', Running', Current(w)', details' # 0
        PROVE  w.note # 0
    <3>1. pc' = "node"
      BY <2>4, NextActivityOK DEF ActivityOK, Current
    <3>2. ASSUME pc = "node", Running, try' = try + 1 PROVE FALSE
      BY <1>1, <2>4, <3>2 DEF AttemptsOK, Current
    <3>3. UNCHANGED <<pc, out, try, started>>
      BY <2>4, <3>1, <3>2
    <3>4. Running /\ Current(w)
      BY <2>4, <3>3 DEF Running, Current
    <3>5. CASE details' = details
      BY <2>4, <3>4, <3>5 DEF SessionsOK
    <3>6. ASSUME NEW v \in live, Beat(v) PROVE w.note # 0
      <4>1. v = w
        BY <2>4, <3>4, <3>6 DEF Beat, Current, AttemptsOK
      <4> QED BY <2>4, <3>6, <4>1 DEF Beat
    <3> QED BY <2>4, <3>5, <3>6, ServerCases DEF Schedule
  <2>5. CASE /\ live' \subseteq live /\ path' = path /\ begun' = begun
             /\ pc' = "node" /\ Running' =>
                  \/ UNCHANGED <<pc, out, try, started>>
                  \/ pc = "node" /\ Running /\ try' = try + 1
    <3> SUFFICES ASSUME NEW w \in live'
                 PROVE  /\ w.note # 0 => BegunIn(w.note, w.activity)'
                        /\ Running' /\ Current(w)' /\ details' # 0 => w.note # 0
      OBVIOUS
    <3>1. w \in live
      BY <2>5
    <3> QED BY <1>4, <2>4, <2>5, <3>1
  <2> QED BY <2>1, <2>2, <2>3, <2>5, LiveCases
<1> QED BY <1>2, <1>3, <1>5 DEF SessionsOK

\* To the answers: nothing; or one is sent; or one is received.
LEMMA AnswerCases ==
  ASSUME TypeOK, [Next]_vars
  PROVE  \/ UNCHANGED <<signals, sent, took>>
         \/ Receive
         \/ \E a \in Answers, question \in 1..asks : Answer(a, question)
<1>1. CASE Workflow
  BY <1>1 DEF Workflow, First, FirstFails, ReachEnd, MaxStepsReached, ScheduleCancelled,
              Schedule
<1>2. ASSUME NEW w \in live, Worker(w) PROVE UNCHANGED <<signals, sent, took>>
  <2>1. CASE NewSession(w) \/ Beat(w) \/ WorkerDies(w) \/ Unheard(w)
    BY <2>1 DEF NewSession, Beat, WorkerDies, Unheard
  <2> QED BY <1>2, <2>1 DEF Worker, Completes, Asks, AttemptFails, AttemptFailsForGood
<1>3. CASE UNCHANGED vars
  BY <1>3 DEF vars
<1> QED BY <1>1, <1>2, <1>3 DEF Next, StartAttempt, TimesOut, Cancel

LEMMA NextAnswersOK == IInv /\ [Next]_vars => AnswersOK'
<1> SUFFICES ASSUME IInv, [Next]_vars PROVE AnswersOK'
  OBVIOUS
<1> USE DEF IInv
<1>1. /\ Len(signals) \in Nat /\ Len(sent) \in Nat /\ asks \in Nat /\ sent \in Seq(Nat)
      /\ signals \in Seq([reply : Answers, question : Nat])
      /\ DOMAIN sent = 1..Len(sent)
  BY DEF TypeOK
<1>0. /\ Received = Len(sent) - Len(signals) /\ Received \in Nat
      /\ Received = (IF pc = "ask" THEN asks - 1 ELSE asks)
  <2>1. Received = Len(sent) - Len(signals)
    BY DEF Received
  <2>2. Received = (IF pc = "ask" THEN asks - 1 ELSE asks) /\ Received >= 0
    BY DEF AnswersOK
  <2>3. Received \in Int
    BY <1>1, <2>1
  <2>4. Received \in Nat
    BY <2>2, <2>3
  <2> QED BY <2>1, <2>2, <2>4
<1>2. CASE Receive
  <2>1. /\ Len(signals) >= 1 /\ Head(signals) = signals[1]
        /\ Len(Tail(signals)) = Len(signals) - 1
        /\ \A i \in 1..(Len(signals) - 1) : Tail(signals)[i] = signals[i + 1]
    BY <1>2, HeadTyped DEF Receive, TypeOK
  <2>2. /\ pc = "ask" /\ pc' = "again" /\ asks' = asks /\ sent' = sent
        /\ signals' = Tail(signals) /\ took' = signals[1].question
    BY <1>2, <2>1 DEF Receive
  <2>3. /\ Received = asks - 1 /\ Received' = Received + 1 /\ Received >= 0
        /\ Received + 1 \in 1..Len(sent)
    <3>1. Received' = Len(sent') - Len(signals')
      BY DEF Received
    <3>2. Received = asks - 1 /\ Received >= 0
      BY <1>0, <2>2
    <3>3. Received' = Received + 1
      <4>1. Len(sent') = Len(sent) /\ Len(signals') = Len(signals) - 1
        BY <2>1, <2>2
      <4> QED BY <1>0, <1>1, <3>1, <4>1
    <3>4. Received + 1 \in 1..Len(sent)
      BY <1>0, <1>1, <2>1
    <3> QED BY <3>2, <3>3, <3>4
  <2>4. \A i \in 1..Len(signals) : signals[i].question = sent[Received + i]
    BY DEF AnswersOK
  <2>5. took' = sent[Received + 1]
    BY <1>1, <2>1, <2>2, <2>4
  <2>6. ASSUME NEW i \in 1..Len(signals')
        PROVE  signals'[i].question = sent'[Received' + i]
    <3>1. i \in 1..(Len(signals) - 1) /\ i + 1 \in 1..Len(signals)
      BY <1>1, <2>1, <2>2
    <3>2. signals'[i].question = sent[Received + (i + 1)]
      BY <2>1, <2>2, <2>4, <3>1
    <3>3. Received + (i + 1) = Received' + i
      BY <1>0, <2>3, <3>1
    <3> QED BY <2>2, <3>2, <3>3
  <2>7. ASSUME Distinct(sent) PROVE sent[Received + 1] = Received + 1
    <3>1. \A i \in 1..Received : sent[i] = i
      BY <2>7 DEF AnswersOK
    <3>2. sent[Received + 1] \in 1..(Received + 1)
      BY <1>1, <2>3 DEF AnswersOK
    <3>3. ASSUME sent[Received + 1] \in 1..Received PROVE FALSE
      <4>1. sent[sent[Received + 1]] = sent[Received + 1]
        BY <3>1, <3>3
      <4>2. sent[Received + 1] \in DOMAIN sent /\ Received + 1 \in DOMAIN sent
        BY <1>1, <2>3, <3>3
      <4>3. sent[Received + 1] = Received + 1
        BY <2>7, <4>1, <4>2 DEF Distinct
      <4> QED BY <2>3, <3>3, <4>3
    <3> QED BY <2>3, <3>2, <3>3
  <2>8. Distinct(sent) => \A i \in 1..(Received + 1) : sent[i] = i
    <3>1. Distinct(sent) => \A i \in 1..Received : sent[i] = i
      BY DEF AnswersOK
    <3>2. \A i \in 1..(Received + 1) : i \in 1..Received \/ i = Received + 1
      BY <1>0
    <3> QED BY <2>7, <3>1, <3>2
  <2>9. Distinct(sent)' => \A i \in 1..Received' : sent'[i] = i
    BY <2>2, <2>3, <2>8
  <2>10. \A i \in 1..Len(sent') : sent'[i] \in 1..asks'
    BY <2>2 DEF AnswersOK
  <2>11. /\ Received' = (IF pc' = "ask" THEN asks' - 1 ELSE asks') /\ Received' >= 0
         /\ pc' = "again" => Received' >= 1 /\ took' = sent'[Received']
    BY <1>0, <1>1, <2>2, <2>3, <2>5
  <2> QED BY <2>6, <2>9, <2>10, <2>11 DEF AnswersOK
<1>3. ASSUME NEW a \in Answers, NEW q \in 1..asks, Answer(a, q) PROVE AnswersOK'
  <2> DEFINE new == [reply |-> a, question |-> q]
  <2>1. /\ sent' = Append(sent, q) /\ signals' = Append(signals, new)
        /\ UNCHANGED <<pc, asks, took>>
    BY <1>3 DEF Answer, flow
  <2>2. new.question = q /\ q \in Nat /\ new \in [reply : Answers, question : Nat]
    OBVIOUS
  <2> HIDE DEF new
  <2>3. /\ Len(sent') = Len(sent) + 1 /\ Len(signals') = Len(signals) + 1
        /\ sent'[Len(sent) + 1] = q /\ signals'[Len(signals) + 1] = new
        /\ \A i \in 1..Len(sent) : sent'[i] = sent[i]
        /\ \A i \in 1..Len(signals) : signals'[i] = signals[i]
        /\ DOMAIN sent' = 1..(Len(sent) + 1)
    BY <1>1, <2>1, <2>2
  <2>4. Received' = Received /\ Received \in Int /\ Received <= Len(sent)
    <3>1. Received' = Len(sent') - Len(signals')
      BY DEF Received
    <3> QED BY <1>0, <1>1, <2>3, <3>1
  <2>5. ASSUME NEW i \in 1..Len(signals')
        PROVE  signals'[i].question = sent'[Received' + i]
    <3>1. CASE i = Len(signals) + 1
      <4>1. Received + i = Len(sent) + 1
        BY <1>0, <1>1, <3>1
      <4> QED BY <2>2, <2>3, <2>4, <3>1, <4>1
    <3>2. CASE i \in 1..Len(signals)
      <4>1. Received + i \in 1..Len(sent)
        BY <1>0, <1>1, <3>2
      <4> QED BY <2>3, <2>4, <3>2, <4>1 DEF AnswersOK
    <3> QED BY <1>1, <2>3, <3>1, <3>2
  <2>6. \A i \in 1..Len(sent') : sent'[i] \in 1..asks'
    BY <1>1, <2>1, <2>3 DEF AnswersOK
  <2>7. Distinct(sent') => Distinct(sent)
    BY <1>1, <2>3 DEF Distinct
  <2>8. Distinct(sent)' => \A i \in 1..Received' : sent'[i] = i
    BY <1>1, <2>3, <2>4, <2>7 DEF AnswersOK
  <2>9. pc = "again" => Received \in 1..Len(sent)
    BY <1>0, <1>1, <2>4 DEF AnswersOK
  <2>10. /\ Received' = (IF pc' = "ask" THEN asks' - 1 ELSE asks') /\ Received' >= 0
         /\ pc' = "again" => Received' >= 1 /\ took' = sent'[Received']
    BY <1>0, <2>1, <2>3, <2>4, <2>9 DEF AnswersOK
  <2> QED BY <2>5, <2>6, <2>8, <2>10 DEF AnswersOK
<1>4. CASE UNCHANGED <<signals, sent, took>> /\ ~Receive
  <2>1. Received' = Received /\ Received \in Int
    BY <1>0, <1>4 DEF Received
  <2>2. \/ pc' = pc /\ asks' = asks
        \/ pc # "ask" /\ pc' \in {"loop", "node"} /\ asks' = asks
        \/ pc = "node" /\ pc' = "ask" /\ asks' = asks + 1
    <3>1. ASSUME NEW w \in live, Asks(w)
          PROVE  pc = "node" /\ pc' = "ask" /\ asks' = asks + 1
      BY <3>1 DEF Asks, Current, ActivityOK
    <3>2. ASSUME NEW w \in live, NEW next \in Targets[input.node], Completes(w, next)
          PROVE  pc = "node" /\ pc' = "loop" /\ asks' = asks
      BY <3>2 DEF Completes, Current, ActivityOK
    <3> QED BY <1>4, <3>1, <3>2, FlowCases DEF flow, Fails, First, ReachEnd, Schedule
  <2>3. Received' = (IF pc' = "ask" THEN asks' - 1 ELSE asks') /\ Received' >= 0
    BY <1>0, <1>1, <2>1, <2>2 DEF AnswersOK
  <2>4. \A i \in 1..Len(sent') : sent'[i] \in 1..asks'
    BY <1>1, <1>4, <2>2 DEF AnswersOK
  <2>5. pc' = "again" => pc = "again"
    BY <2>2
  <2> QED BY <1>4, <2>1, <2>3, <2>4, <2>5 DEF AnswersOK
<1> QED BY <1>2, <1>3, <1>4, AnswerCases

\* To what the server knows of the activity in flight.
LEMMA AttemptCases ==
  ASSUME TypeOK, [Next]_vars
  PROVE  \/ Schedule
         \/ /\ input' = input
            /\ try' = try \/ Retried
            /\ started' = started \/ started' = TRUE \/ started' = FALSE
<1>1. CASE Workflow
  BY <1>1 DEF Workflow, First, FirstFails, ReachEnd, MaxStepsReached,
              ScheduleCancelled, Receive, server
<1>2. ASSUME NEW w \in live, Worker(w)
      PROVE  /\ input' = input
             /\ try' = try \/ Retried
             /\ started' = started \/ started' = FALSE
  <2>1. CASE NewSession(w) \/ WorkerDies(w) \/ Unheard(w)
    BY <2>1 DEF NewSession, WorkerDies, Unheard, server
  <2> QED BY <1>2, <2>1 DEF Worker, Beat, Completes, Asks, AttemptFails, AttemptFailsForGood
<1>3. CASE \E a \in Answers, question \in 1..asks : Answer(a, question)
  BY <1>3 DEF Answer, server
<1>4. CASE Cancel
  BY <1>4 DEF Cancel, server
<1>5. CASE UNCHANGED vars
  BY <1>5 DEF vars, server
<1> QED BY <1>1, <1>2, <1>3, <1>4, <1>5 DEF Next, StartAttempt, TimesOut

\* To its environment.
LEMMA EnvironmentCases ==
  ASSUME TypeOK, [Next]_vars
  PROVE  /\ cancelled' = TRUE \/ cancelled' = cancelled
         /\ faults' = faults + 1 \/ faults' = faults
<1>1. CASE Workflow
  BY <1>1 DEF Workflow, First, FirstFails, ReachEnd, MaxStepsReached,
              ScheduleCancelled, Schedule, Receive, Fault
<1>2. ASSUME NEW w \in live, Worker(w)
      PROVE  cancelled' = cancelled /\ (faults' = faults + 1 \/ faults' = faults)
  <2>1. CASE NewSession(w) \/ WorkerDies(w) \/ Unheard(w)
    BY <2>1 DEF NewSession, WorkerDies, Unheard, Fault
  <2> QED BY <1>2, <2>1 DEF Worker, Beat, Completes, Asks, AttemptFails, AttemptFailsForGood,
          Fault
<1>3. CASE UNCHANGED vars
  BY <1>3 DEF vars
<1> QED BY <1>1, <1>2, <1>3 DEF Next, StartAttempt, TimesOut, Answer, Cancel, Fault

LEMMA NextTypeOK == IInv /\ [Next]_vars => TypeOK'
<1> SUFFICES ASSUME IInv, [Next]_vars PROVE TypeOK'
  OBVIOUS
<1> USE DEF IInv
<1>1. ASSUME NEW how \in {"done", "asked"}, pc = "node" PROVE Left(how) \in Seq(Marks)
  <2>1. /\ input.state = state /\ input.node = cur /\ input.reply = answer /\ cur \in Nodes
        /\ answer \in Replies /\ state \in Seq(Marks)
    BY <1>1 DEF ActivityOK, FlowOK, TypeOK
  <2>2. [node |-> cur, reply |-> answer, how |-> how] \in Marks
    BY <2>1 DEF Marks
  <2> QED BY <2>1, <2>2 DEF Left
<1>2. /\ pc' \in {"first", "loop", "again", "node", "ask"}
      /\ out' \in {"none", "ok", "failed"}
      /\ step' \in Nat /\ asks' \in Nat
  <2> USE DEF TypeOK
  <2>1. CASE Schedule
    BY <2>1 DEF Schedule, NextStep
  <2>2. ASSUME NEW w \in live, \/ Asks(w)
                               \/ \E next \in Targets[input.node] : Completes(w, next)
        PROVE  pc' \in {"loop", "ask"} /\ step' = step /\ asks' \in Nat /\ out' = out
    BY <2>2 DEF Asks, Completes
  <2> QED BY <2>1, <2>2, FlowCases DEF flow, Fails, First, ReachEnd, Receive
<1>7. path' \in Seq(Nodes)
  BY ScheduledPath, ServerCases DEF TypeOK
<1>8. cur' \in Nodes \cup {Start, End} /\ state' \in Seq(Marks) /\ answer' \in Replies
  <2>1. cur \in Nodes \cup {Start, End} /\ state \in Seq(Marks) /\ answer \in Replies
    BY DEF TypeOK
  <2>2. ASSUME NEW next \in Targets[Start], First(next)
        PROVE  cur' \in Nodes \cup {Start, End} /\ UNCHANGED <<state, answer>>
    BY <2>2, TemporalAssumption DEF First
  <2>3. CASE Receive
    BY <2>1, <2>3, HeadTyped DEF Receive, Replies, TypeOK
  <2>4. ASSUME NEW w \in live, NEW next \in Targets[input.node], Completes(w, next)
        PROVE  cur' \in Nodes \cup {Start, End} /\ state' \in Seq(Marks) /\ answer' \in Replies
    <3>1. pc = "node" /\ cur' = next /\ answer' = NoAnswer /\ state' = Left("done")
      BY <2>4 DEF Completes, Current, ActivityOK, AnswerAfter
    <3>2. input.node \in Nodes
      BY <3>1 DEF ActivityOK, FlowOK
    <3> QED BY <1>1, <3>1, <3>2, TemporalAssumption DEF Replies
  <2>5. ASSUME NEW w \in live, Asks(w)
        PROVE  cur' = cur /\ state' \in Seq(Marks) /\ answer' \in Replies
    BY <1>1, <2>5 DEF Asks, Current, ActivityOK, Replies
  <2> QED BY <2>1, <2>2, <2>3, <2>4, <2>5, FlowCases DEF flow, Fails, ReachEnd, Schedule
<1>3. /\ signals' \in Seq([reply : Answers, question : Nat])
      /\ sent' \in Seq(Nat) /\ took' \in Nat
  <2>1. CASE Receive
    BY <2>1, HeadTyped DEF Receive, TypeOK
  <2>2. ASSUME NEW a \in Answers, NEW q \in 1..asks, Answer(a, q)
        PROVE  /\ signals' \in Seq([reply : Answers, question : Nat])
               /\ sent' \in Seq(Nat) /\ took' \in Nat
    BY <2>2 DEF Answer, TypeOK
  <2> QED BY <2>1, <2>2, AnswerCases DEF TypeOK
<1>4. live' \subseteq Attempts /\ begun' \in Seq(Nat)
  <2> USE DEF TypeOK
  <2>1. CASE StartAttempt
    <3>1. [activity |-> Len(path), try |-> try, session |-> IF try > 1 THEN details ELSE 0,
           note |-> FirstNote(IF try > 1 THEN details ELSE 0)] \in Attempts
      BY DEF Attempts, FirstNote
    <3> QED BY <2>1, <3>1 DEF StartAttempt
  <2>2. CASE Schedule
    BY <2>2 DEF Schedule
  <2>3. ASSUME NEW w \in live, NewSession(w)
        PROVE  live' \subseteq Attempts /\ begun' \in Seq(Nat)
    <3>1. Len(begun) + 1 \in Nat /\ w \in Attempts /\ begun \in Seq(Nat)
          /\ live \subseteq Attempts
      OBVIOUS
    <3>2. [w EXCEPT !.note = Len(begun) + 1] \in Attempts /\ w.activity \in Nat
      BY <3>1 DEF Attempts
    <3>3. begun' = Append(begun, w.activity)
      BY <2>3 DEF NewSession
    <3>4. live' = (live \ {w}) \cup {[w EXCEPT !.note = Len(begun) + 1]}
      BY <2>3 DEF NewSession
    <3>5. live' \subseteq Attempts
      BY <3>1, <3>2, <3>4
    <3>6. begun' \in Seq(Nat)
      BY <3>1, <3>2, <3>3
    <3> QED BY <3>5, <3>6
  <2>4. CASE live' \subseteq live /\ begun' = begun
    BY <2>4
  <2> QED BY <2>1, <2>2, <2>3, <2>4, LiveCases
<1>5. details' \in Nat /\ reached' \in Nat
  <2>1. /\ \A w \in live : w.note \in Nat /\ w.activity \in Nat
        /\ details \in Nat /\ reached \in Nat
    BY DEF TypeOK, Attempts
  <2>2. CASE Schedule
    BY <2>1, <2>2 DEF Schedule
  <2>3. ASSUME NEW w \in live, Beat(w) PROVE details' \in Nat /\ reached' \in Nat
    BY <2>1, <2>3 DEF Beat
  <2> QED BY <2>1, <2>2, <2>3, ServerCases
<1>6. input' \in Inputs
  <2>1. CASE Schedule
    <3>1. /\ cur \in Nodes /\ step' \in Nat /\ state \in Seq(Marks) /\ answer \in Replies
          /\ input' = [node |-> cur, step |-> step', state |-> state, reply |-> answer]
      BY <1>2, <2>1, ScheduledPath DEF Schedule, TypeOK
    <3> QED BY <3>1 DEF Inputs
  <2> QED BY <2>1, AttemptCases DEF TypeOK
<1>9. try' \in 0..MaxAttempts
  <2>1. try \in Nat /\ try <= MaxAttempts /\ MaxAttempts \in Nat \ {0}
    BY TemporalAssumption DEF TypeOK
  <2>2. CASE Schedule
    BY <2>1, <2>2 DEF Schedule
  <2>3. CASE Retried
    BY <2>1, <2>3 DEF Retried
  <2>4. CASE try' = try
    BY <2>1, <2>4
  <2> QED BY <2>2, <2>3, <2>4, AttemptCases
<1>10. started' \in BOOLEAN
  <2>1. CASE Schedule
    BY <2>1, Zenon DEF Schedule
  <2>2. CASE started' = started
    BY <2>2, Zenon DEF TypeOK
  <2> QED BY <2>1, <2>2, AttemptCases, Zenon
<1>11. cancelled' \in BOOLEAN /\ faults' \in Nat
  <2>1. /\ cancelled' = TRUE \/ cancelled' = cancelled
        /\ faults' = faults + 1 \/ faults' = faults
    BY EnvironmentCases
  <2>2. cancelled' \in BOOLEAN
    BY <2>1, Zenon DEF TypeOK
  <2>3. faults' \in Nat
    BY <2>1 DEF TypeOK
  <2> QED BY <2>2, <2>3
<1> QED BY <1>2, <1>3, <1>4, <1>5, <1>6, <1>7, <1>8, <1>9, <1>10, <1>11 DEF TypeOK

LEMMA NextIInv == IInv /\ [Next]_vars => IInv'
BY NextTypeOK, NextFlowOK, NextActivityOK, NextAttemptsOK, NextSessionsOK, NextAnswersOK
   DEF IInv

LEMMA Inductive == Spec => []IInv
<1> QED BY InitIInv, NextIInv, PTL DEF Spec

(***************************************************************************)
(* What the workflow promises                                              *)
(***************************************************************************)
LEMMA AnsweredInState == IInv => AnswerIsToItsQuestion
<1> SUFFICES ASSUME IInv, pc = "again", Distinct(sent) PROVE took = asks
  BY DEF AnswerIsToItsQuestion, Distinct
<1>1. Received = asks /\ took = sent[Received] /\ Received >= 1 /\ asks \in Nat
  BY DEF IInv, AnswersOK, TypeOK
<1>2. \A i \in 1..Received : sent[i] = i
  BY DEF IInv, AnswersOK
<1> QED BY <1>1, <1>2

\* Whatever crashes, times out and is heard too late, and however many answers
\* are signalled: as long as no question is answered twice, a node is run again
\* with the answer to its own question (answers.Receive in temporal.go).
THEOREM TypedAndAnsweredAlways == Spec => []TypedAndAnswered
<1>1. IInv => TypedAndAnswered
  BY AnsweredInState DEF TypedAndAnswered, IInv
<1> QED BY <1>1, Inductive, PTL

LEMMA StepContinues ==
  ASSUME IInv, [Next]_vars, NEW w \in live',
         ~\E v \in live : v.activity = w.activity /\ v.try = w.try,
         reached = w.activity
  PROVE  w.session # 0 /\ begun[w.session] = w.activity
<1>1. CASE StartAttempt
  <2>1. /\ w = [activity |-> Len(path), try |-> try,
                session |-> IF try > 1 THEN details ELSE 0,
                note |-> FirstNote(IF try > 1 THEN details ELSE 0)]
        /\ pc = "node" /\ Running /\ ~started
    BY <1>1 DEF StartAttempt
  <2>2. w.activity = Len(path) /\ w.session = IF try > 1 THEN details ELSE 0
    BY <2>1
  <2>3. path # <<>>
    BY <2>1 DEF IInv, ActivityOK
  <2>4. details # 0 /\ try > 1
    BY <2>1, <2>2, <2>3 DEF IInv, SessionsOK
  <2>5. begun[details] = Len(path)
    BY <2>4 DEF IInv, SessionsOK, BegunIn
  <2> QED BY <2>2, <2>4, <2>5
<1>2. ASSUME NEW v \in live, NewSession(v) PROVE FALSE
  <2>1. /\ v \in Attempts
        /\ w \in (live \ {v}) \cup {[v EXCEPT !.note = Len(begun) + 1]}
    BY <1>2 DEF NewSession, IInv, TypeOK
  <2>2. CASE w = [v EXCEPT !.note = Len(begun) + 1]
    BY <2>1, <2>2 DEF Attempts
  <2> QED BY <2>1, <2>2
<1>3. CASE live' \subseteq live
  BY <1>3
<1>4. CASE Schedule
  BY <1>3, <1>4 DEF Schedule
<1> QED BY <1>1, <1>2, <1>3, <1>4, LiveCases DEF IInv

\* Once a session of an activity was reported, every later attempt of it
\* continues a session begun in it (OnSession and the heartbeats of node).
THEOREM SessionIsNeverForgottenAlways == Spec => SessionIsNeverForgotten
<1>1. IInv /\ [Next]_vars =>
        [\A w \in live' :
           /\ ~\E v \in live : v.activity = w.activity /\ v.try = w.try
           /\ reached = w.activity
           => w.session # 0 /\ begun[w.session] = w.activity]_vars
  BY StepContinues
<1> QED BY <1>1, Inductive, PTL DEF Spec, SessionIsNeverForgotten

(***************************************************************************)
(* The workflow implements the run that nothing interrupts                 *)
(***************************************************************************)
LEMMA LogicalInit == Init => Logical!Init
BY DEF Init, Logical!Init

\* What LogicalRun sees as "done" and "asked".
Completed == IF pc \in {"node", "ask", "again"} THEN step - 1 ELSE step
Asked == pc = "ask" \/ answer # NoAnswer

LEMMA StutterStep ==
  ASSUME UNCHANGED <<cur, state, answer>>, Completed' = Completed, Asked' <=> Asked,
         out' = "ok" <=> out = "ok"
  PROVE  UNCHANGED Logical!vars
BY DEF Logical!vars, Completed, Asked

LEMMA DoStep ==
  ASSUME IInv, NEW w \in live, NEW next \in Targets[input.node], Completes(w, next)
  PROVE  Logical!Do
<1>1. /\ pc = "node" /\ Running /\ pc' = "loop" /\ cur' = next /\ step' = step
      /\ answer' = NoAnswer /\ state' = Left("done") /\ out' = out
  BY DEF Completes, Current, IInv, ActivityOK, AnswerAfter
<1>2. /\ input.node = cur /\ input.state = state /\ input.reply = answer
      /\ cur \in Nodes /\ step \in 1..MaxSteps /\ MaxSteps \in Nat
  BY <1>1, TemporalAssumption DEF IInv, ActivityOK, FlowOK
<1>3. state' = Append(state, [node |-> cur, reply |-> answer, how |-> "done"])
  BY <1>1, <1>2 DEF Left
<1>4. Completed < MaxSteps /\ Completed' = Completed + 1
  BY <1>1, <1>2 DEF Completed
<1>5. out # "ok" /\ out' # "ok"
  BY <1>1 DEF Running
<1>6. Asked => answer # NoAnswer
  BY <1>1 DEF Asked
<1>7. ~Asked'
  BY <1>1 DEF Asked
<1> QED BY <1>1, <1>2, <1>3, <1>4, <1>5, <1>6, <1>7
        DEF Logical!Do, Logical!Leaves, Completed, Asked

LEMMA AskStep ==
  ASSUME IInv, NEW w \in live, Asks(w)
  PROVE  Logical!Ask
<1>1. /\ pc = "node" /\ Running /\ pc' = "ask" /\ cur' = cur /\ step' = step
      /\ answer' = NoAnswer /\ state' = Left("asked") /\ out' = out
  BY DEF Asks, Current, IInv, ActivityOK
<1>2. /\ input.node = cur /\ input.state = state /\ input.reply = answer
      /\ cur \in Nodes /\ step \in 1..MaxSteps /\ MaxSteps \in Nat
  BY <1>1, TemporalAssumption DEF IInv, ActivityOK, FlowOK
<1>3. state' = Append(state, [node |-> cur, reply |-> answer, how |-> "asked"])
  BY <1>1, <1>2 DEF Left
<1>4. Completed < MaxSteps /\ Completed' = Completed
  BY <1>1, <1>2 DEF Completed
<1>5. out # "ok" /\ out' # "ok"
  BY <1>1 DEF Running
<1>6. (Asked => answer # NoAnswer) /\ Asked'
  BY <1>1 DEF Asked
<1> QED BY <1>1, <1>2, <1>3, <1>4, <1>5, <1>6
        DEF Logical!Ask, Logical!Leaves, Completed, Asked

LEMMA ReplyStep ==
  ASSUME IInv, Receive
  PROVE  Logical!Reply
<1>1. /\ pc = "ask" /\ pc' = "again" /\ UNCHANGED <<cur, step, state, out>> /\ Running
      /\ answer' \in Answers
  BY HeadTyped DEF Receive, IInv, TypeOK
<1>2. Completed' = Completed /\ out # "ok" /\ out' # "ok"
  BY <1>1 DEF Completed, Running
<1>3. answer' # NoAnswer
  BY <1>1, TemporalAssumption
<1>4. Asked /\ Asked'
  BY <1>1, <1>3 DEF Asked
<1> QED BY <1>1, <1>2, <1>4 DEF Logical!Reply, Completed, Asked

LEMMA BeginStep ==
  ASSUME IInv, NEW next \in Targets[Start], First(next)
  PROVE  Logical!Begin
<1>1. /\ pc = "first" /\ pc' = "loop" /\ cur = Start /\ cur' = next
      /\ UNCHANGED <<out, step, state, answer>> /\ step = 0 /\ state = <<>>
  BY DEF First, IInv, FlowOK
<1>2. Completed' = 0
  BY <1>1 DEF Completed
<1>3. Asked' <=> Asked
  BY <1>1 DEF Asked
<1> QED BY <1>1, <1>2, <1>3 DEF Logical!Begin, Completed, Asked

LEMMA LogicalStep == IInv /\ [Next]_vars => [Logical!Next]_(Logical!vars)
<1> SUFFICES ASSUME IInv, [Next]_vars PROVE [Logical!Next]_(Logical!vars)
  OBVIOUS
<1>1. CASE UNCHANGED flow
  <2>1. UNCHANGED <<cur, state, answer>> /\ Completed' = Completed /\ (Asked' <=> Asked)
        /\ out' = out
    BY <1>1 DEF flow, Completed, Asked
  <2> QED BY <2>1, StutterStep
<1>2. CASE Running /\ Fails
  <2>1. UNCHANGED <<cur, state, answer>> /\ Completed' = Completed /\ (Asked' <=> Asked)
        /\ out' # "ok" /\ out # "ok"
    BY <1>2 DEF Fails, Running, Completed, Asked
  <2> QED BY <2>1, StutterStep
<1>3. ASSUME NEW next \in Targets[Start], First(next) PROVE Logical!Next
  BY <1>3, BeginStep DEF Logical!Next
<1>4. CASE ReachEnd
  <2>1. /\ cur = End /\ out' = "ok" /\ UNCHANGED <<cur, state, answer>>
        /\ Completed' = Completed /\ (Asked' <=> Asked)
    BY <1>4 DEF ReachEnd, Completed, Asked
  <2>2. Logical!Finish
    BY <2>1 DEF Logical!Finish, Completed, Asked
  <2> QED BY <2>2 DEF Logical!Next
<1>5. CASE Schedule
  <2>1. step \in Nat
    BY DEF IInv, TypeOK
  <2>2. UNCHANGED <<cur, state, answer, out>> /\ pc \in {"loop", "again"} /\ pc' = "node"
    BY <1>5 DEF Schedule
  <2>3. Completed' = Completed
    BY <1>5, <2>1, <2>2 DEF Schedule, NextStep, Completed
  <2>4. Asked' <=> Asked
    BY <2>2 DEF Asked
  <2> QED BY <2>2, <2>3, <2>4, StutterStep
<1>6. CASE Receive
  BY <1>6, ReplyStep DEF Logical!Next
<1>7. ASSUME NEW w \in live, NEW next \in Targets[input.node], Completes(w, next)
      PROVE  Logical!Next
  BY <1>7, DoStep DEF Logical!Next
<1>8. ASSUME NEW w \in live, Asks(w) PROVE Logical!Next
  BY <1>8, AskStep DEF Logical!Next
<1> QED BY <1>1, <1>2, <1>3, <1>4, <1>5, <1>6, <1>7, <1>8, FlowCases DEF IInv

\* The package comment of temporal.go: each node works once on what its
\* predecessor left, with the answer to its own question.
THEOREM WorkflowIsLogical == Spec => RunsAsIfUninterrupted
<1> QED BY LogicalInit, LogicalStep, Inductive, PTL DEF Spec, RunsAsIfUninterrupted, Logical!Spec
=============================================================================
