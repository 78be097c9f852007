------------------------------ MODULE AgentCall ------------------------------
(***************************************************************************)
(* Calls of the agent CLI (src/runner, src/transport): RunStream and       *)
(* RunJSON, alone or under withRetry, with the process they start, the     *)
(* teardown that kills it here and on the far side of a remote transport,  *)
(* the pipe between the two, and the SpendCap plugin and the preflight     *)
(* that the calls of one Runner share.                                     *)
(*                                                                         *)
(* The CLI writes lines into a bounded pipe and ends when it likes, or     *)
(* never; contexts end at any time; Terminate may fail.  A line that       *)
(* carries a cost costs 1.  A session is named by the attempt that         *)
(* reported it.                                                            *)
(*                                                                         *)
(* An operator introduced as a "faulty variant" is no part of Next: it is  *)
(* the definition after it with a plausible bug.                           *)
(***************************************************************************)
EXTENDS Integers, Sequences, SequencesExt, FiniteSets

CONSTANTS
  Calls,
  Remote,      \* the calls over a transport that is a Terminator
  Json,        \* the calls of RunJSON; the others are RunStream
  Scenes,      \* which calls run; how many lines each CLI writes at most, and
               \* which; RetryPolicy.scene.attempts
  MaxSpend,    \* RetryPolicy.MaxSpendUSD
  Unknown,     \* RetryPolicy.UnknownAttemptCostUSD
  CapMax,      \* the SpendCap's limit
  PipeCap      \* lines the pipe holds

\* "session" is the session event, "cost" any other event with a cost; a
\* "result" is a success, a "failure" an error result; "long" is a line over
\* the buffer limit.
Lines == {"session", "cost", "result", "failure", "long"}
Costly == {"cost", "result", "failure"}
Results == {"result", "failure"}

ASSUME CallAssumption ==
  /\ Remote \subseteq Calls /\ Json \subseteq Calls
  /\ \A s \in Scenes :
       /\ s.calls \subseteq Calls /\ IsFiniteSet(s.calls) /\ s.says \subseteq Lines
       /\ s.lines \in Nat /\ s.attempts \in Nat \ {0}
  /\ PipeCap \in Nat \ {0}
  /\ MaxSpend \in Nat /\ Unknown \in Nat /\ CapMax \in Nat

VARIABLES
  scene,
  call,      \* per call: the locals of withRetry and of the run, see Fresh
  cli,       \* per call: the process of the attempt, see NoProcess
  preflight, \* preflightOnce: not run yet, or what it returned, for ever
  capSpent   \* SpendCap.spent

vars == <<scene, call, cli, preflight, capSpent>>

\* kill: the kill once ran; remoteKill: its Terminate; context: of the attempt.
Fresh ==
  [pc |-> "idle", attempt |-> 0, context |-> "live",
   kill |-> FALSE, remoteKill |-> "no", abort |-> "none",
   session |-> 0, result |-> "none",
   outcome |-> "none", resume |-> 0, spent |-> 0, guard |-> 0]

\* proc: the local process; far: the agent on the far side; spared: Terminate
\* found nothing to kill there or failed, or the link was lost.  told: of all
\* attempts of the call, the last whose CLI reported a session.
NoProcess ==
  [proc |-> "none", far |-> "none", pipe |-> <<>>, wrote |-> <<>>, spared |-> FALSE,
   told |-> 0]

Contexts == {"live", "timeout", "cancelled"}
Outcomes == {"none", "ok", "error_result", "veto", "too_long", "timeout",
             "cancelled", "exit", "truncated", "unparsed", "refused",
             "preflight", "not_found"}

Locals ==
  [pc : {"idle", "begin", "scan", "wait", "finish", "ended", "backoff", "done"},
   attempt : 0..scene.attempts, context : Contexts,
   kill : BOOLEAN, remoteKill : {"no", "asked", "over"},
   abort : {"none", "veto", "too_long"},
   session : 0..scene.attempts, result : Results \cup {"none"},
   outcome : Outcomes, resume : 0..scene.attempts, spent : Nat, guard : Nat]

Processes ==
  [proc : {"none", "up", "exit0", "exit1", "killed"},
   far : {"none", "starting", "up", "gone"},
   pipe : Seq(Lines), wrote : Seq(Lines), spared : BOOLEAN,
   told : Nat]

TypeOK ==
  /\ scene \in Scenes
  /\ preflight \in {"not_run", "passed", "failed"} /\ capSpent \in Nat
  /\ call \in [Calls -> Locals] /\ cli \in [Calls -> Processes]
  /\ \A c \in Calls : Len(cli[c].pipe) <= PipeCap

Init ==
  /\ scene \in Scenes
  /\ call = [c \in Calls |-> Fresh]
  /\ cli = [c \in Calls |-> NoProcess]
  /\ preflight = "not_run" /\ capSpent = 0

At(c, where) == c \in scene.calls /\ call[c].pc = where
Up(c) == cli[c].proc = "up"

-----------------------------------------------------------------------------
(* An attempt begins: preflight, plugins, the process *)

Attempt(c) ==
  /\ \/ At(c, "idle")
     \/ At(c, "backoff") /\ call[c].context # "cancelled"
  /\ call' = [call EXCEPT ![c] =
       [Fresh EXCEPT !.pc = "begin", !.attempt = call[c].attempt + 1,
                     !.resume = call[c].resume, !.spent = call[c].spent,
                     !.guard = call[c].guard]]
  /\ cli' = [cli EXCEPT ![c] =
       [NoProcess EXCEPT !.spared = cli[c].spared, !.told = cli[c].told]]
  /\ UNCHANGED <<scene, preflight, capSpent>>

EndWith(c, outcome) ==
  call' = [call EXCEPT ![c].pc = "ended", ![c].outcome = outcome]

\* The first call of the Runner runs it, with its own context; all share what
\* it returned.
Preflight(c) ==
  /\ At(c, "begin") /\ preflight = "not_run"
  /\ preflight' \in {"passed", "failed"}
  /\ UNCHANGED <<scene, call, cli, capSpent>>

PreflightFailed(c) ==
  /\ At(c, "begin") /\ preflight = "failed"
  /\ EndWith(c, "preflight")
  /\ UNCHANGED <<scene, cli, preflight, capSpent>>

\* SpendCap.OnRunStart.
WithinCap == capSpent < CapMax

Refuse(c) ==
  /\ At(c, "begin") /\ preflight = "passed" /\ ~WithinCap
  /\ EndWith(c, "refused")
  /\ UNCHANGED <<scene, cli, preflight, capSpent>>

StartFails(c) ==
  /\ At(c, "begin") /\ preflight = "passed" /\ WithinCap
  /\ EndWith(c, "not_found")
  /\ UNCHANGED <<scene, cli, preflight, capSpent>>

Start(c) ==
  /\ At(c, "begin") /\ preflight = "passed" /\ WithinCap
  /\ call' = [call EXCEPT ![c].pc = IF c \in Json THEN "wait" ELSE "scan"]
  /\ cli' = [cli EXCEPT ![c].proc = "up",
                        ![c].far = IF c \in Remote THEN "starting" ELSE "none"]
  /\ UNCHANGED <<scene, preflight, capSpent>>

-----------------------------------------------------------------------------
(* The CLI, here or on the far side *)

\* The wrapper has written its PID file and become the CLI.
FarStarts(c) ==
  /\ cli[c].far = "starting"
  /\ cli' = [cli EXCEPT ![c].far = "up"]
  /\ UNCHANGED <<scene, call, preflight, capSpent>>

Working(c) == IF c \in Remote THEN cli[c].far = "up" /\ Up(c) ELSE Up(c)

\* RunJSON collects stdout in memory: only a stream has a pipe that fills.
Write(c, line) ==
  /\ Working(c)
  /\ Len(cli[c].wrote) < scene.lines
  /\ ~\E i \in DOMAIN cli[c].wrote : cli[c].wrote[i] \in Results
  /\ cli' = [cli EXCEPT ![c].wrote = Append(@, line),
                        ![c].pipe = IF c \in Json THEN @ ELSE Append(@, line),
                        ![c].told = IF line = "session" THEN call[c].attempt ELSE @]
  /\ c \notin Json => Len(cli[c].pipe) < PipeCap
  /\ c \in Json => line \in Results
  /\ UNCHANGED <<scene, call, preflight, capSpent>>

Exit(c, code) ==
  /\ Working(c)
  /\ cli' = [cli EXCEPT ![c].proc = code,
                        ![c].far = IF c \in Remote THEN "gone" ELSE @]
  /\ UNCHANGED <<scene, call, preflight, capSpent>>

\* The local client of a remote run dies by itself: the far side goes on.
LinkLost(c) ==
  /\ c \in Remote /\ Up(c)
  /\ cli' = [cli EXCEPT ![c].proc = "exit1", ![c].spared = TRUE]
  /\ UNCHANGED <<scene, call, preflight, capSpent>>

-----------------------------------------------------------------------------
(* The read loop of RunStream *)

\* Faulty variant: the loop is left, the process is not killed.
AbortOnly(c, why) == [call[c] EXCEPT !.pc = "wait", !.abort = why]

\* Stopping the run ourselves: killAsync.
Abort(c, why) ==
  [call[c] EXCEPT !.pc = "wait", !.abort = why, !.kill = TRUE,
                  !.remoteKill = IF @ = "no" /\ c \in Remote THEN "asked" ELSE @]

\* Faulty variant: the cap never stops a stream.
VetoedNever(line) == FALSE

\* SpendCap.OnEvent: the result that closes a run is never vetoed.
Vetoed(line) == line = "cost" /\ capSpent' > CapMax

Scan(c) ==
  /\ At(c, "scan") /\ cli[c].pipe # <<>>
  /\ LET line == Head(cli[c].pipe)
     IN  /\ capSpent' = capSpent + (IF line \in Costly THEN 1 ELSE 0)
         /\ call' = [call EXCEPT ![c] =
              IF line = "long" THEN Abort(c, "too_long")
              ELSE IF Vetoed(line) THEN Abort(c, "veto")
              ELSE [call[c] EXCEPT
                !.session = IF line = "session" THEN call[c].attempt ELSE @,
                !.result = IF line \in Results THEN line ELSE @]]
  /\ cli' = [cli EXCEPT ![c].pipe = Tail(@)]
  /\ UNCHANGED <<scene, preflight>>

ScanEnds(c) ==
  /\ At(c, "scan") /\ cli[c].pipe = <<>> /\ ~Up(c)
  /\ call' = [call EXCEPT ![c].pc = "wait"]
  /\ UNCHANGED <<scene, cli, preflight, capSpent>>

\* cmd.Wait returns.  RunJSON has all of stdout then.
Wait(c) ==
  /\ At(c, "wait") /\ ~Up(c)
  /\ call' = [call EXCEPT ![c].pc = "finish",
       ![c].result = IF c \in Json /\ cli[c].wrote # <<>> THEN Last(cli[c].wrote) ELSE @]
  /\ UNCHANGED <<scene, cli, preflight, capSpent>>

-----------------------------------------------------------------------------
(* Teardown *)

\* Faulty variant: the watcher notes that the context ended, and kills nothing.
KillNothing(c, context) == [call[c] EXCEPT !.context = context]

Kill(c, context) ==
  [call[c] EXCEPT !.context = context, !.kill = TRUE,
                  !.remoteKill = IF @ = "no" /\ c \in Remote THEN "asked" ELSE @]

\* cmdCtx ends: ProcessTimeout, or the caller cancels.  The watcher kills once,
\* unless finish has closed procDone.
ContextEnds(c, context) ==
  /\ \E where \in {"scan", "wait"} : At(c, where)
  /\ call[c].context = "live"
  /\ call' = [call EXCEPT ![c] = Kill(c, context)]
  /\ UNCHANGED <<scene, cli, preflight, capSpent>>

\* SIGTERM to the process group, SIGKILL after killGrace.
LocalDies(c) ==
  /\ call[c].kill /\ Up(c)
  /\ cli' = [cli EXCEPT ![c].proc = "killed"]
  /\ UNCHANGED <<scene, call, preflight, capSpent>>

\* Terminate runs the kill script: no PID file yet, nothing to kill; or it
\* fails or is cut off by terminateTimeout.
Terminate(c) ==
  /\ call[c].remoteKill = "asked"
  /\ call' = [call EXCEPT ![c].remoteKill = "over"]
  /\ \/ cli[c].far = "up" /\ cli' = [cli EXCEPT ![c].far = "gone"]
     \/ cli[c].far \in {"starting", "up"} /\ cli' = [cli EXCEPT ![c].spared = TRUE]
     \/ cli[c].far = "gone" /\ UNCHANGED cli
  /\ UNCHANGED <<scene, preflight, capSpent>>

\* Faulty variant: the run returns while the remote kill is still under way.
KillReturnedLocal(c) == ~Up(c)

\* Both halves of kill are over.
KillReturned(c) == ~Up(c) /\ call[c].remoteKill # "asked"

-----------------------------------------------------------------------------
(* What an attempt came to *)

\* Faulty variant: a stream without a result event is taken for an answer.
OutcomeOfUncut(c) ==
  LET k == call[c]
      died == cli[c].proc # "exit0"
  IN  CASE k.abort # "none" -> k.abort
        [] k.abort = "none" /\ died /\ k.context # "live" -> k.context
        [] k.abort = "none" /\ died /\ k.context = "live" -> "exit"
        [] k.abort = "none" /\ ~died ->
             IF k.result = "failure" THEN "error_result" ELSE "ok"

\* In the order of the tests at the end of RunStream and RunJSON.
OutcomeOf(c) ==
  LET k == call[c]
      died == cli[c].proc # "exit0"
  IN  CASE k.abort # "none" -> k.abort
        [] k.abort = "none" /\ died /\ k.context # "live" -> k.context
        [] k.abort = "none" /\ died /\ k.context = "live" -> "exit"
        [] k.abort = "none" /\ ~died ->
             CASE k.result = "result" -> "ok"
               [] k.result = "failure" -> "error_result"
               [] k.result = "none" -> IF c \in Json THEN "unparsed" ELSE "truncated"

\* finish: the watcher and a kill in flight are waited for.  RunJSON's cost
\* reaches the SpendCap through OnRunEnd.
Finish(c) ==
  /\ At(c, "finish")
  /\ call[c].kill => KillReturned(c)
  /\ EndWith(c, OutcomeOf(c))
  /\ capSpent' = capSpent +
       (IF c \in Json /\ OutcomeOf(c) \in {"ok", "error_result"} THEN 1 ELSE 0)
  /\ UNCHANGED <<scene, cli, preflight>>

-----------------------------------------------------------------------------
(* withRetry *)

\* The cost of the Result an attempt returned.
Returned(c) == IF call[c].outcome \in {"ok", "error_result"} THEN 1 ELSE 0

\* Only a truncated attempt is charged the estimate.
Charged(c) == Returned(c) + (IF call[c].outcome = "truncated" THEN Unknown ELSE 0)

\* DefaultRetryable: an exit or an error result is transient or is not.
Retryable(c) == call[c].outcome \in {"timeout", "truncated", "exit", "error_result"}

\* Faulty variant: an attempt that reported no session starts the task over.
SessionOfThisAttempt(c) == IF c \in Json THEN 0 ELSE call[c].session

\* SessionIDOf the error, else the Result's; an earlier one is kept if the
\* attempt reported none.  RunJSONWithRetry never resumes.
SessionToResume(c) ==
  IF c \in Json THEN 0
  ELSE IF call[c].session # 0 THEN call[c].session ELSE call[c].resume

Counted(c) ==
  [call[c] EXCEPT !.spent = @ + Returned(c), !.guard = @ + Charged(c)]

Retry(c) ==
  /\ At(c, "ended") /\ Retryable(c)
  /\ call[c].attempt < scene.attempts
  /\ MaxSpend > 0 => Counted(c).guard < MaxSpend
  /\ call' = [call EXCEPT ![c] =
       [Counted(c) EXCEPT !.pc = "backoff", !.context = "live",
                          !.resume = SessionToResume(c)]]
  /\ UNCHANGED <<scene, cli, preflight, capSpent>>

GiveUp(c) ==
  /\ At(c, "ended")
  /\ \/ call[c].outcome \notin {"timeout", "truncated"}
     \/ call[c].attempt = scene.attempts
     \/ MaxSpend > 0 /\ Counted(c).guard >= MaxSpend
  /\ call' = [call EXCEPT ![c] = [Counted(c) EXCEPT !.pc = "done"]]
  /\ UNCHANGED <<scene, cli, preflight, capSpent>>

\* The caller cancels during the backoff.
BackoffCancelled(c) ==
  /\ At(c, "backoff")
  /\ call' = [call EXCEPT ![c].pc = "done", ![c].outcome = "cancelled"]
  /\ UNCHANGED <<scene, cli, preflight, capSpent>>

-----------------------------------------------------------------------------
Caller(c) ==
  \/ Attempt(c) \/ Preflight(c) \/ PreflightFailed(c) \/ Refuse(c)
  \/ StartFails(c) \/ Start(c)
  \/ Scan(c) \/ ScanEnds(c) \/ Wait(c) \/ Finish(c)
  \/ Retry(c) \/ GiveUp(c) \/ BackoffCancelled(c)

Teardown(c) == LocalDies(c) \/ Terminate(c)

CLI(c) ==
  \/ FarStarts(c) \/ LinkLost(c)
  \/ \E line \in scene.says : Write(c, line)
  \/ \E code \in {"exit0", "exit1"} : Exit(c, code)

Next ==
  \E c \in Calls :
    \/ Caller(c) \/ Teardown(c) \/ CLI(c)
    \/ \E context \in {"timeout", "cancelled"} : ContextEnds(c, context)

Spec == Init /\ [][Next]_vars

\* Goroutines are scheduled, SIGKILL kills, and ProcessTimeout comes for a run
\* that was not aborted.  The CLI need not do anything.
FairSpec ==
  /\ Spec
  /\ \A c \in Calls :
       /\ WF_vars(Caller(c)) /\ WF_vars(LocalDies(c)) /\ WF_vars(Terminate(c))
       /\ WF_vars(call[c].abort = "none" /\ ContextEnds(c, "timeout"))

-----------------------------------------------------------------------------
(* Properties *)

\* When an attempt is over its process is gone, and so is the agent on the far
\* side, unless Terminate came before the PID file was written, failed, or was
\* not called as the local client had died by itself: a retry never runs beside
\* the attempt it replaces (teardown, finish and kill in runner/runner.go,
\* killScript in transport/teardown.go).
NothingOutlivesTheAttempt ==
  \A c \in scene.calls : call[c].pc \in {"ended", "backoff", "done"} =>
     /\ ~Up(c)
     /\ cli[c].far \in {"starting", "up"} => cli[c].spared

\* What is reported agrees with what the CLI did, whatever the race between its
\* exit, the context and a veto: a success has a result and a clean exit, and a
\* stream is called truncated only if it has no result (RunStream).
OutcomeIsTrue ==
  \A c \in scene.calls : At(c, "ended") =>
     /\ call[c].outcome = "ok" => /\ cli[c].proc = "exit0"
                                  /\ Contains(cli[c].wrote, "result")
     /\ call[c].outcome = "truncated" =>
          \A i \in DOMAIN cli[c].wrote : cli[c].wrote[i] \notin Results
     /\ call[c].outcome \in {"timeout", "cancelled"} => call[c].context # "live"

\* Each attempt ends as what it was, and takes its process with it.
AttemptsAreSound == TypeOK /\ NothingOutlivesTheAttempt /\ OutcomeIsTrue

\* The cap is passed by at most one event for each run that was under way when
\* it was reached (SpendCap in runner/plugin.go).
CapIsPassedByOneEventPerRun ==
  capSpent <= CapMax + Cardinality(scene.calls)

\* A retry continues the session that the CLI reported last, in whichever attempt
\* that was and however it ended, so no work is done twice and none of it is lost
\* (SessionIDOf, withRetry in runner/retry.go).
RetryResumesLatestSession ==
  \A c \in scene.calls \ Json :
    At(c, "backoff") \/ At(c, "begin") => call[c].resume = cli[c].told

\* Every call ends, also if the CLI hangs or blocks on a full pipe, and one that
\* was aborted ends without waiting for ProcessTimeout (RunStream, teardown).
CallEnds == \A c \in Calls : At(c, "begin") ~> At(c, "done")
=============================================================================
