--------------------------- MODULE AgentCallProofs ---------------------------
(***************************************************************************)
(* Proofs about AgentCall, for every set of calls, however the CLI, the    *)
(* contexts and the remote teardown behave: an attempt leaves no process   *)
(* behind and is reported as what it was, a retry resumes the latest       *)
(* session, and the cap is passed by one event for each run at most.       *)
(***************************************************************************)
EXTENDS AgentCall, FiniteSetTheorems, TLAPS

(***************************************************************************)
(* The inductive invariant                                                 *)
(***************************************************************************)
\* The process an attempt has at each place.
ProcessOK(c) ==
  LET k == call[c]
      p == cli[c]
  IN  /\ k.pc \in {"idle", "begin"} =>
           p.proc = "none" /\ p.far = "none" /\ p.pipe = <<>> /\ p.wrote = <<>>
      /\ k.pc \in {"finish", "ended", "backoff", "done"} => p.proc # "up"
      /\ p.far \in {"starting", "up"} => c \in Remote

\* An agent on the far side whose client is gone was spared, or will be killed.
FarSideOK(c) ==
  LET k == call[c]
      p == cli[c]
  IN  /\ k.remoteKill # "no" => k.kill
      /\ k.pc \in {"idle", "begin"} => ~k.kill
      /\ k.pc \in {"ended", "backoff", "done"} => k.remoteKill # "asked"
      /\ p.far \in {"starting", "up"} =>
           /\ k.kill => k.remoteKill # "no"
           /\ k.remoteKill = "over" => p.spared
           /\ p.proc # "up" => p.spared \/ k.remoteKill = "asked"

\* Lines read from the pipe.
ReadLines(c) == Len(cli[c].wrote) - Len(cli[c].pipe)

\* The pipe holds the end of what was written; a result is the last line.
PipeOK(c) ==
  LET p == cli[c]
  IN  /\ c \in Json => p.pipe = <<>> /\ \A i \in 1..Len(p.wrote) : p.wrote[i] \in Results
      /\ c \notin Json =>
           /\ ReadLines(c) >= 0
           /\ \A i \in 1..Len(p.pipe) : p.pipe[i] = p.wrote[ReadLines(c) + i]
      /\ \A i \in 1..(Len(p.wrote) - 1) : p.wrote[i] \notin Results

\* The result a call has was read, and one that was read it has; a stream that
\* was not aborted is left at its end.
ResultOK(c) ==
  LET k == call[c]
      p == cli[c]
  IN  /\ k.pc = "scan" => c \notin Json
      /\ k.pc \in {"idle", "begin"} => k.result = "none" /\ k.abort = "none"
      /\ k.result # "none" => \E i \in 1..Len(p.wrote) :
           p.wrote[i] = k.result /\ (c \notin Json => i <= ReadLines(c))
      /\ c \notin Json /\ k.result = "none" /\ k.abort = "none" =>
           \A i \in 1..ReadLines(c) : p.wrote[i] \notin Results
      /\ c \notin Json /\ k.pc \in {"wait", "finish"} /\ k.abort = "none" =>
           p.proc # "up" /\ p.pipe = <<>>
      /\ c \notin Json /\ k.pc = "scan" => k.abort = "none"

\* OutcomeIsTrue of one call.
OutcomeOK(c) ==
  LET k == call[c]
      p == cli[c]
  IN  k.pc = "ended" =>
        /\ k.outcome = "ok" => p.proc = "exit0" /\ \E i \in 1..Len(p.wrote) : p.wrote[i] = "result"
        /\ k.outcome = "truncated" => \A i \in 1..Len(p.wrote) : p.wrote[i] \notin Results
        /\ k.outcome \in {"timeout", "cancelled"} => k.context # "live"

\* A session is the current attempt's, the one to resume is not a later one's.
SessionOK(c) ==
  LET k == call[c]
  IN  /\ k.pc = "idle" => k.attempt = 0
      /\ k.pc = "backoff" => k.attempt < scene.attempts
      /\ k.session \in {0, k.attempt} /\ k.resume <= k.attempt

\* A stream resumes the session told last by an attempt before this one; what this
\* one tells has been read, or is still in the pipe, unless the loop was left early.
ToldOK(c) ==
  LET k == call[c]
      p == cli[c]
  IN  c \notin Json =>
        /\ k.pc \in {"idle", "begin"} => k.session = 0
        /\ k.pc \in {"idle", "begin", "backoff"} => p.told = k.resume
        /\ k.pc \in {"scan", "wait", "finish", "ended"} =>
             /\ k.resume < k.attempt /\ p.told \in {k.resume, k.attempt}
             /\ k.session # 0 => p.told = k.attempt
             /\ \A i \in 1..Len(p.pipe) : p.pipe[i] = "session" => p.told = k.attempt
             /\ k.pc = "scan" /\ p.told = k.attempt /\ k.session = 0 =>
                  \E i \in 1..Len(p.pipe) : p.pipe[i] = "session"
             /\ k.pc # "scan" /\ k.abort = "none" /\ p.told = k.attempt => k.session # 0
        /\ k.pc = "begin" => k.resume < k.attempt
        /\ k.pc = "ended" /\ Retryable(c) => k.abort = "none"

ToldsOK == \A c \in Calls : ToldOK(c)

\* The calls past the check of the cap whose next event may still raise what is spent.
Spenders ==
  {c \in scene.calls :
     \/ call[c].pc = "scan" /\ call[c].result = "none"
     \/ c \in Json /\ call[c].pc \in {"wait", "finish"}}

\* Each spender may pass the cap once.
CapOK ==
  \/ capSpent <= CapMax
  \/ capSpent + Cardinality(Spenders) <= CapMax + Cardinality(scene.calls)

CallOK(c) ==
  /\ ProcessOK(c) /\ FarSideOK(c) /\ PipeOK(c) /\ ResultOK(c) /\ OutcomeOK(c) /\ SessionOK(c)

CallsOK == \A c \in Calls : CallOK(c)

IInv == TypeOK /\ CallsOK /\ ToldsOK /\ CapOK

(***************************************************************************)
(* What a step does to the call it is of                                   *)
(***************************************************************************)
LEMMA Typed ==
  ASSUME TypeOK, NEW c \in Calls
  PROVE  /\ call[c] \in Locals /\ cli[c] \in Processes
         /\ Len(cli[c].pipe) \in Nat /\ Len(cli[c].wrote) \in Nat
         /\ scene.attempts \in Nat \ {0} /\ scene.calls \subseteq Calls
         /\ IsFiniteSet(scene.calls) /\ scene.lines \in Nat /\ scene.says \subseteq Lines
<1>1. call[c] \in Locals /\ cli[c] \in Processes
  BY DEF TypeOK
<1>2. cli[c].pipe \in Seq(Lines) /\ cli[c].wrote \in Seq(Lines)
  BY <1>1 DEF Processes
<1>3. /\ scene.attempts \in Nat \ {0} /\ scene.calls \subseteq Calls
      /\ IsFiniteSet(scene.calls) /\ scene.lines \in Nat /\ scene.says \subseteq Lines
  BY CallAssumption DEF TypeOK
<1> QED BY <1>1, <1>2, <1>3

\* The other calls are left as they are.
Others(c) ==
  \A d \in Calls \ {c} : call'[d] = call[d] /\ cli'[d] = cli[d]

\* Nothing changes of the attempt but where the call is and what it came to.
SameAttempt(c) ==
  /\ call'[c].attempt = call[c].attempt /\ call'[c].context = call[c].context
  /\ call'[c].kill = call[c].kill /\ call'[c].remoteKill = call[c].remoteKill
  /\ call'[c].abort = call[c].abort /\ call'[c].result = call[c].result
  /\ call'[c].session = call[c].session /\ call'[c].resume = call[c].resume

LEMMA Moves ==
  ASSUME TypeOK, NEW c \in Calls, NEW where, call' = [call EXCEPT ![c].pc = where]
  PROVE  /\ call'[c].pc = where /\ call'[c].outcome = call[c].outcome /\ SameAttempt(c)
         /\ \A d \in Calls \ {c} : call'[d] = call[d]
<1>1. call'[c] = [call[c] EXCEPT !.pc = where]
  BY DEF TypeOK
<1> QED BY <1>1, Typed DEF Locals, SameAttempt, TypeOK

LEMMA Ends ==
  ASSUME TypeOK, NEW c \in Calls, NEW where, NEW outcome,
         call' = [call EXCEPT ![c].pc = where, ![c].outcome = outcome]
  PROVE  /\ call'[c].pc = where /\ call'[c].outcome = outcome /\ SameAttempt(c)
         /\ \A d \in Calls \ {c} : call'[d] = call[d]
<1>1. call'[c] = [call[c] EXCEPT !.pc = where, !.outcome = outcome]
  BY DEF TypeOK
<1> QED BY <1>1, Typed DEF Locals, SameAttempt, TypeOK

(***************************************************************************)
(* Every step of a call keeps what is said of it                           *)
(***************************************************************************)
LEMMA AttemptOK ==
  ASSUME TypeOK, NEW c \in Calls, CallOK(c), Attempt(c)
  PROVE  CallOK(c)' /\ Others(c)
<1>1. /\ call'[c] = [Fresh EXCEPT !.pc = "begin", !.attempt = call[c].attempt + 1,
                       !.resume = call[c].resume, !.spent = call[c].spent,
                       !.guard = call[c].guard]
      /\ cli'[c] = [NoProcess EXCEPT !.spared = cli[c].spared, !.told = cli[c].told]
      /\ scene' = scene /\ Others(c)
  BY DEF Attempt, TypeOK, Others
<1>2. /\ call'[c].pc = "begin" /\ call'[c].attempt = call[c].attempt + 1
      /\ call'[c].resume = call[c].resume /\ call'[c].session = 0
  BY <1>1 DEF Fresh
<1>3. /\ call'[c].kill = FALSE /\ call'[c].remoteKill = "no" /\ call'[c].abort = "none"
      /\ call'[c].result = "none"
  BY <1>1 DEF Fresh
<1>4. /\ cli'[c].proc = "none" /\ cli'[c].far = "none" /\ cli'[c].pipe = <<>>
      /\ cli'[c].wrote = <<>>
  BY <1>1 DEF NoProcess
<1>5. call[c].attempt \in Nat /\ call[c].resume \in Nat
  BY Typed DEF Locals
<1>6. ProcessOK(c)' /\ FarSideOK(c)'
  BY <1>2, <1>3, <1>4 DEF ProcessOK, FarSideOK
<1>7. PipeOK(c)' /\ ResultOK(c)' /\ OutcomeOK(c)'
  BY <1>2, <1>3, <1>4 DEF PipeOK, ReadLines, ResultOK, OutcomeOK
<1>8. SessionOK(c)'
  BY <1>2, <1>5 DEF SessionOK, CallOK
<1> QED BY <1>1, <1>6, <1>7, <1>8 DEF CallOK

\* A call whose process and attempt stay as they are: only its place matters.
LEMMA OnlyMoves ==
  ASSUME TypeOK, NEW c \in Calls, CallOK(c), scene' = scene, cli' = cli, SameAttempt(c),
         ProcessOK(c)',
         call'[c].pc \in {"ended", "backoff", "done"} /\ call[c].kill =>
           call[c].remoteKill # "asked",
         call[c].pc # "idle",
         call'[c].pc \notin {"idle", "begin", "backoff", "scan"},
         call'[c].pc \in {"wait", "finish"} /\ c \notin Json /\ call[c].abort = "none" =>
           cli[c].proc # "up" /\ cli[c].pipe = <<>>,
         OutcomeOK(c)'
  PROVE  CallOK(c)'
<1> USE DEF CallOK, SameAttempt
<1>1. FarSideOK(c)'
  BY DEF FarSideOK
<1>2. PipeOK(c)'
  BY DEF PipeOK, ReadLines
<1>3. ResultOK(c)'
  BY DEF ResultOK, ReadLines
<1>4. SessionOK(c)'
  BY DEF SessionOK
<1> QED BY <1>1, <1>2, <1>3, <1>4

LEMMA NotStartedOK ==
  ASSUME TypeOK, NEW c \in Calls, CallOK(c), PreflightFailed(c) \/ Refuse(c) \/ StartFails(c)
  PROVE  CallOK(c)' /\ Others(c)
<1>1. PICK o \in {"preflight", "refused", "not_found"} :
        call' = [call EXCEPT ![c].pc = "ended", ![c].outcome = o]
  BY DEF PreflightFailed, Refuse, StartFails, EndWith
<1>2. call[c].pc = "begin" /\ cli' = cli /\ scene' = scene
  BY DEF PreflightFailed, Refuse, StartFails, At
<1>3. /\ call'[c].pc = "ended" /\ call'[c].outcome = o /\ SameAttempt(c)
      /\ \A d \in Calls \ {c} : call'[d] = call[d]
  BY <1>1, Ends
<1>4. ProcessOK(c)' /\ OutcomeOK(c)'
  BY <1>2, <1>3 DEF CallOK, ProcessOK, OutcomeOK
<1>5. call[c].kill => call[c].remoteKill # "asked"
  BY <1>2 DEF CallOK, FarSideOK
<1>6. CallOK(c)'
  BY <1>2, <1>3, <1>4, <1>5, OnlyMoves
<1> QED BY <1>2, <1>3, <1>6 DEF Others

LEMMA UntouchedOK ==
  ASSUME NEW c \in Calls, CallOK(c), scene' = scene, call'[c] = call[c], cli'[c] = cli[c]
  PROVE  CallOK(c)'
<1>1. ProcessOK(c)' /\ FarSideOK(c)'
  BY DEF CallOK, ProcessOK, FarSideOK
<1>2. PipeOK(c)'
  BY DEF CallOK, PipeOK, ReadLines
<1>3. ResultOK(c)'
  BY DEF CallOK, ResultOK, ReadLines
<1>4. OutcomeOK(c)' /\ SessionOK(c)'
  BY DEF CallOK, OutcomeOK, SessionOK
<1> QED BY <1>1, <1>2, <1>3, <1>4 DEF CallOK

LEMMA StartOK ==
  ASSUME TypeOK, NEW c \in Calls, CallOK(c), Start(c)
  PROVE  CallOK(c)' /\ Others(c)
<1>1. /\ call[c].pc = "begin" /\ scene' = scene
      /\ call' = [call EXCEPT ![c].pc = IF c \in Json THEN "wait" ELSE "scan"]
      /\ cli'[c] = [cli[c] EXCEPT !.proc = "up",
                                  !.far = IF c \in Remote THEN "starting" ELSE "none"]
      /\ \A d \in Calls \ {c} : cli'[d] = cli[d]
  BY DEF Start, At, TypeOK
<1>2. /\ call'[c].pc = (IF c \in Json THEN "wait" ELSE "scan") /\ SameAttempt(c)
      /\ \A d \in Calls \ {c} : call'[d] = call[d]
  <2> DEFINE where == IF c \in Json THEN "wait" ELSE "scan"
  <2>1. call' = [call EXCEPT ![c].pc = where]
    BY <1>1
  <2> HIDE DEF where
  <2>2. /\ call'[c].pc = where /\ SameAttempt(c)
        /\ \A d \in Calls \ {c} : call'[d] = call[d]
    BY <2>1, Moves
  <2> QED BY <2>2 DEF where
<1>3. /\ cli'[c].proc = "up" /\ cli'[c].far = (IF c \in Remote THEN "starting" ELSE "none")
      /\ cli'[c].pipe = cli[c].pipe /\ cli'[c].wrote = cli[c].wrote
      /\ cli'[c].spared = cli[c].spared
  BY <1>1, Typed DEF Processes
<1>4. ProcessOK(c)'
  BY <1>2, <1>3 DEF ProcessOK
<1>5. FarSideOK(c)'
  BY <1>1, <1>2, <1>3 DEF FarSideOK, CallOK, SameAttempt
<1>6. PipeOK(c)' /\ ResultOK(c)'
  <2>1. /\ call[c].result = "none" /\ call[c].abort = "none"
        /\ cli[c].wrote = <<>> /\ cli[c].pipe = <<>>
    BY <1>1 DEF CallOK, ProcessOK, ResultOK
  <2> QED BY <1>2, <1>3, <2>1 DEF PipeOK, ResultOK, ReadLines, SameAttempt
<1>7. OutcomeOK(c)' /\ SessionOK(c)'
  BY <1>1, <1>2 DEF OutcomeOK, SessionOK, CallOK, SameAttempt
<1> QED BY <1>1, <1>2, <1>4, <1>5, <1>6, <1>7 DEF CallOK, Others

\* The process changes, the call does not: the pipe and its end are kept.
LEMMA ProcessMoves ==
  ASSUME TypeOK, NEW c \in Calls, CallOK(c), scene' = scene, call' = call,
         cli'[c].pipe = cli[c].pipe, cli'[c].wrote = cli[c].wrote,
         cli[c].proc # "none" \/ cli[c].far # "none",
         cli'[c].proc = cli[c].proc \/ cli[c].proc = "up",
         \/ cli'[c].far = cli[c].far
         \/ cli'[c].far = "gone"
         \/ cli[c].far = "starting" /\ cli'[c].far = "up",
         cli[c].spared => cli'[c].spared,
         cli'[c].far \in {"starting", "up"} /\ cli'[c].proc # "up" =>
           cli'[c].spared \/ call[c].remoteKill = "asked"
  PROVE  CallOK(c)'
<1>1. call[c].pc \notin {"idle", "begin"}
  BY DEF CallOK, ProcessOK
<1>2. ProcessOK(c)'
  BY <1>1 DEF CallOK, ProcessOK
<1>3. FarSideOK(c)'
  BY <1>1 DEF CallOK, FarSideOK
<1>4. PipeOK(c)'
  <2>1. ReadLines(c)' = ReadLines(c)
    BY DEF ReadLines
  <2> QED BY <2>1 DEF CallOK, PipeOK
<1>5. ResultOK(c)'
  BY <1>1 DEF CallOK, ResultOK, ReadLines
<1>6. call[c].pc = "ended" => cli'[c].proc = cli[c].proc
  BY DEF CallOK, ProcessOK
<1>7. OutcomeOK(c)' /\ SessionOK(c)'
  BY <1>6 DEF CallOK, OutcomeOK, SessionOK
<1> QED BY <1>2, <1>3, <1>4, <1>5, <1>7 DEF CallOK

LEMMA CliOK ==
  ASSUME TypeOK, NEW c \in Calls, CallOK(c),
         FarStarts(c) \/ LinkLost(c) \/ LocalDies(c) \/ \E code \in {"exit0", "exit1"} : Exit(c, code)
  PROVE  CallOK(c)' /\ Others(c)
<1>1. scene' = scene /\ call' = call
  BY DEF FarStarts, LinkLost, LocalDies, Exit
<1>2. CASE FarStarts(c)
  <2>1. /\ cli'[c] = [cli[c] EXCEPT !.far = "up"] /\ cli[c].far = "starting"
        /\ \A d \in Calls \ {c} : cli'[d] = cli[d]
    BY <1>2 DEF FarStarts, TypeOK
  <2>2. /\ cli'[c].proc = cli[c].proc /\ cli'[c].far = "up"
        /\ cli'[c].pipe = cli[c].pipe /\ cli'[c].wrote = cli[c].wrote
        /\ cli'[c].spared = cli[c].spared
    BY <2>1, Typed DEF Processes
  <2>3. cli'[c].proc # "up" => cli'[c].spared \/ call[c].remoteKill = "asked"
    BY <2>1, <2>2 DEF CallOK, FarSideOK
  <2>5. cli[c].spared => cli'[c].spared
    BY <2>2
  <2>4. CallOK(c)'
    BY <1>1, <2>1, <2>2, <2>3, <2>5, ProcessMoves
  <2> QED BY <1>1, <2>1, <2>4 DEF Others
<1>3. CASE LinkLost(c)
  <2>1. /\ cli'[c] = [cli[c] EXCEPT !.proc = "exit1", !.spared = TRUE] /\ cli[c].proc = "up"
        /\ \A d \in Calls \ {c} : cli'[d] = cli[d]
    BY <1>3 DEF LinkLost, Up, TypeOK
  <2>2. /\ cli'[c].proc = "exit1" /\ cli'[c].far = cli[c].far
        /\ cli'[c].pipe = cli[c].pipe /\ cli'[c].wrote = cli[c].wrote
        /\ cli'[c].spared
    BY <2>1, Typed DEF Processes
  <2>3. CallOK(c)'
    BY <1>1, <2>1, <2>2, ProcessMoves
  <2> QED BY <1>1, <2>1, <2>3 DEF Others
<1>4. CASE LocalDies(c)
  <2>1. /\ cli'[c] = [cli[c] EXCEPT !.proc = "killed"] /\ cli[c].proc = "up" /\ call[c].kill
        /\ \A d \in Calls \ {c} : cli'[d] = cli[d]
    BY <1>4 DEF LocalDies, Up, TypeOK
  <2>2. /\ cli'[c].proc = "killed" /\ cli'[c].far = cli[c].far
        /\ cli'[c].pipe = cli[c].pipe /\ cli'[c].wrote = cli[c].wrote
        /\ cli'[c].spared = cli[c].spared
    BY <2>1, Typed DEF Processes
  <2>3. call[c].remoteKill \in {"no", "asked", "over"}
    BY Typed DEF Locals
  <2>4. cli'[c].far \in {"starting", "up"} => cli'[c].spared \/ call[c].remoteKill = "asked"
    BY <2>1, <2>2, <2>3 DEF CallOK, FarSideOK
  <2>6. cli[c].spared => cli'[c].spared
    BY <2>2
  <2>5. CallOK(c)'
    BY <1>1, <2>1, <2>2, <2>4, <2>6, ProcessMoves
  <2> QED BY <1>1, <2>1, <2>5 DEF Others
<1>5. ASSUME NEW code \in {"exit0", "exit1"}, Exit(c, code)
      PROVE  CallOK(c)' /\ Others(c)
  <2>1. /\ cli'[c] = [cli[c] EXCEPT !.proc = code,
                                    !.far = IF c \in Remote THEN "gone" ELSE @]
        /\ cli[c].proc = "up"
        /\ \A d \in Calls \ {c} : cli'[d] = cli[d]
    BY <1>5 DEF Exit, Working, Up, TypeOK
  <2>2. /\ cli'[c].proc = code
        /\ cli'[c].far = (IF c \in Remote THEN "gone" ELSE cli[c].far)
        /\ cli'[c].pipe = cli[c].pipe /\ cli'[c].wrote = cli[c].wrote
        /\ cli'[c].spared = cli[c].spared
    BY <2>1, Typed DEF Processes
  <2>3. c \notin Remote => cli[c].far \notin {"starting", "up"}
    BY DEF CallOK, ProcessOK
  <2>4. CallOK(c)'
    BY <1>1, <2>1, <2>2, <2>3, ProcessMoves
  <2> QED BY <1>1, <2>1, <2>4 DEF Others
<1> QED BY <1>2, <1>3, <1>4, <1>5

LEMMA ReadBounds ==
  ASSUME TypeOK, NEW c \in Calls
  PROVE  /\ ReadLines(c) = Len(cli[c].wrote) - Len(cli[c].pipe) /\ ReadLines(c) \in Int
         /\ ReadLines(c) <= Len(cli[c].wrote)
         /\ ReadLines(c) = (Len(cli[c].wrote) + 1) - (Len(cli[c].pipe) + 1)
         /\ ReadLines(c) + (Len(cli[c].pipe) + 1) = Len(cli[c].wrote) + 1
         /\ ReadLines(c) + 1 = Len(cli[c].wrote) - (Len(cli[c].pipe) - 1)
         /\ Len(cli[c].pipe) = 0 => ReadLines(c) = Len(cli[c].wrote)
         /\ \A i \in 1..Len(cli[c].pipe) :
              ReadLines(c) >= 0 => ReadLines(c) + i \in 1..Len(cli[c].wrote)
         /\ \A i \in 1..ReadLines(c) : i \in 1..Len(cli[c].wrote)
<1> DEFINE w == Len(cli[c].wrote)
           p == Len(cli[c].pipe)
           r == ReadLines(c)
<1>1. r = w - p
  BY DEF ReadLines
<1>2. w \in Nat /\ p \in Nat
  BY Typed
<1> HIDE DEF w, p, r
<1>3. /\ r \in Int /\ r <= w /\ r = (w + 1) - (p + 1) /\ r + (p + 1) = w + 1
      /\ r + 1 = w - (p - 1) /\ (p = 0 => r = w)
  BY <1>1, <1>2
<1>4. \A i \in 1..p : r >= 0 => r + i \in 1..w
  BY <1>1, <1>2
<1>5. \A i \in 1..r : i \in 1..w
  BY <1>1, <1>2
<1> QED BY <1>1, <1>3, <1>4, <1>5 DEF w, p, r

LEMMA WriteOK ==
  ASSUME TypeOK, NEW c \in Calls, CallOK(c), NEW line \in scene.says, Write(c, line)
  PROVE  CallOK(c)' /\ Others(c)
<1>1. /\ scene' = scene /\ call' = call /\ cli[c].proc = "up" /\ line \in Lines
      /\ ~\E i \in DOMAIN cli[c].wrote : cli[c].wrote[i] \in Results
      /\ cli'[c] = [cli[c] EXCEPT !.wrote = Append(@, line),
                                  !.pipe = IF c \in Json THEN @ ELSE Append(@, line),
                                  !.told = IF line = "session" THEN call[c].attempt ELSE @]
      /\ c \in Json => line \in Results
      /\ \A d \in Calls \ {c} : cli'[d] = cli[d]
  BY Typed DEF Write, Working, Up, TypeOK
<1>2. /\ cli'[c].proc = cli[c].proc /\ cli'[c].far = cli[c].far
      /\ cli'[c].spared = cli[c].spared /\ cli'[c].wrote = Append(cli[c].wrote, line)
      /\ cli'[c].pipe = IF c \in Json THEN cli[c].pipe ELSE Append(cli[c].pipe, line)
  BY <1>1, Typed DEF Processes
<1>3. /\ cli[c].wrote \in Seq(Lines) /\ cli[c].pipe \in Seq(Lines)
      /\ Len(cli[c].wrote) \in Nat /\ Len(cli[c].pipe) \in Nat
  BY Typed DEF Processes
<1>4. /\ Len(cli'[c].wrote) = Len(cli[c].wrote) + 1
      /\ cli'[c].wrote[Len(cli[c].wrote) + 1] = line
      /\ \A i \in 1..Len(cli[c].wrote) :
           cli'[c].wrote[i] = cli[c].wrote[i] /\ cli[c].wrote[i] \notin Results
  BY <1>1, <1>2, <1>3
<1>5. c \notin Json =>
        /\ Len(cli'[c].pipe) = Len(cli[c].pipe) + 1
        /\ cli'[c].pipe[Len(cli[c].pipe) + 1] = line
        /\ \A i \in 1..Len(cli[c].pipe) : cli'[c].pipe[i] = cli[c].pipe[i]
  BY <1>1, <1>2, <1>3
<1>6. c \notin Json => ReadLines(c)' = ReadLines(c)
  <2> SUFFICES ASSUME c \notin Json PROVE ReadLines(c)' = ReadLines(c)
    OBVIOUS
  <2>1. ReadLines(c)' = Len(cli'[c].wrote) - Len(cli'[c].pipe)
    BY DEF ReadLines
  <2>2. ReadLines(c)' = (Len(cli[c].wrote) + 1) - (Len(cli[c].pipe) + 1)
    BY <1>4, <1>5, <2>1
  <2> QED BY <2>2, ReadBounds
<1>7. call[c].pc \notin {"idle", "begin", "finish", "ended", "backoff", "done"}
  BY <1>1, Typed DEF CallOK, ProcessOK
<1>8. ProcessOK(c)' /\ FarSideOK(c)' /\ OutcomeOK(c)' /\ SessionOK(c)'
  BY <1>1, <1>2, <1>7 DEF CallOK, ProcessOK, FarSideOK, OutcomeOK, SessionOK
<1>9. PipeOK(c)'
  <2>1. c \in Json => /\ cli'[c].pipe = <<>>
                      /\ \A i \in 1..Len(cli'[c].wrote) : cli'[c].wrote[i] \in Results
    <3> SUFFICES ASSUME c \in Json
                 PROVE  /\ cli'[c].pipe = <<>>
                        /\ \A i \in 1..Len(cli'[c].wrote) : cli'[c].wrote[i] \in Results
      OBVIOUS
    <3>1. cli[c].pipe = <<>> /\ \A i \in 1..Len(cli[c].wrote) : cli[c].wrote[i] \in Results
      BY DEF CallOK, PipeOK
    <3>2. line \in Results /\ cli'[c].pipe = <<>>
      BY <1>1, <1>2, <3>1
    <3>3. \A i \in 1..(Len(cli[c].wrote) + 1) : i \in 1..Len(cli[c].wrote) \/ i = Len(cli[c].wrote) + 1
      BY <1>3
    <3> QED BY <1>4, <3>1, <3>2, <3>3
  <2>2. ASSUME c \notin Json, NEW i \in 1..Len(cli'[c].pipe)
        PROVE  cli'[c].pipe[i] = cli'[c].wrote[ReadLines(c) + i]
    <3>1. CASE i = Len(cli[c].pipe) + 1
      <4>1. ReadLines(c) + i = Len(cli[c].wrote) + 1
        BY <3>1, ReadBounds
      <4> QED BY <1>4, <1>5, <2>2, <3>1, <4>1
    <3>2. CASE i \in 1..Len(cli[c].pipe)
      <4>1. ReadLines(c) >= 0 /\ cli[c].pipe[i] = cli[c].wrote[ReadLines(c) + i]
        BY <2>2, <3>2 DEF CallOK, PipeOK
      <4>2. ReadLines(c) + i \in 1..Len(cli[c].wrote)
        BY <3>2, <4>1, ReadBounds
      <4> QED BY <1>4, <1>5, <2>2, <3>2, <4>1, <4>2
    <3> QED BY <1>3, <1>5, <2>2, <3>1, <3>2
  <2>3. c \notin Json => ReadLines(c)' = ReadLines(c) /\ ReadLines(c) >= 0
    BY <1>6 DEF CallOK, PipeOK
  <2>4. \A i \in 1..(Len(cli'[c].wrote) - 1) : cli'[c].wrote[i] \notin Results
    BY <1>3, <1>4
  <2> QED BY <2>1, <2>2, <2>3, <2>4 DEF PipeOK
<1>10. ResultOK(c)'
  <2>1. call[c].result = "none" \/ call[c].result \in Results
    BY Typed DEF Locals
  <2>2. call[c].result = "none"
    BY <1>4, <2>1 DEF CallOK, ResultOK
  <2>3. c \notin Json /\ call[c].abort = "none" =>
          \A i \in 1..ReadLines(c) : cli'[c].wrote[i] \notin Results
    <3> SUFFICES ASSUME c \notin Json, NEW i \in 1..ReadLines(c)
                 PROVE  cli'[c].wrote[i] \notin Results
      OBVIOUS
    <3>1. i \in 1..Len(cli[c].wrote)
      BY ReadBounds
    <3> QED BY <1>4, <3>1
  <2> QED BY <1>1, <1>2, <1>6, <1>7, <2>2, <2>3 DEF CallOK, ResultOK
<1> QED BY <1>1, <1>8, <1>9, <1>10 DEF CallOK, Others

LEMMA TerminateOK ==
  ASSUME TypeOK, NEW c \in Calls, CallOK(c), Terminate(c)
  PROVE  CallOK(c)' /\ Others(c)
<1>1. /\ scene' = scene /\ call[c].remoteKill = "asked"
      /\ call'[c] = [call[c] EXCEPT !.remoteKill = "over"]
      /\ \A d \in Calls \ {c} : call'[d] = call[d] /\ cli'[d] = cli[d]
  BY DEF Terminate, TypeOK
<1>2. /\ call'[c].pc = call[c].pc /\ call'[c].kill = call[c].kill
      /\ call'[c].remoteKill = "over" /\ call'[c].abort = call[c].abort
      /\ call'[c].result = call[c].result /\ call'[c].session = call[c].session
      /\ call'[c].resume = call[c].resume /\ call'[c].attempt = call[c].attempt
      /\ call'[c].outcome = call[c].outcome /\ call'[c].context = call[c].context
  BY <1>1, Typed DEF Locals
<1>3. /\ cli'[c].proc = cli[c].proc /\ cli'[c].pipe = cli[c].pipe
      /\ cli'[c].wrote = cli[c].wrote
      /\ \/ cli'[c].far = "gone"
         \/ cli'[c].far = cli[c].far /\ cli'[c].spared = TRUE
  <2>1. cli[c] \in Processes
    BY Typed
  <2>2. CASE cli[c].far = "up" /\ cli' = [cli EXCEPT ![c].far = "gone"]
    BY <2>1, <2>2 DEF Processes, TypeOK
  <2>3. CASE cli' = [cli EXCEPT ![c].spared = TRUE]
    BY <2>1, <2>3 DEF Processes, TypeOK
  <2>4. CASE cli[c].far = "gone" /\ cli' = cli
    BY <2>4
  <2> QED BY <2>2, <2>3, <2>4 DEF Terminate
<1>4. call[c].kill /\ call[c].pc \notin {"idle", "begin"}
  BY <1>1 DEF CallOK, FarSideOK
<1>5. ProcessOK(c)' /\ FarSideOK(c)'
  BY <1>2, <1>3, <1>4 DEF CallOK, ProcessOK, FarSideOK
<1>6. PipeOK(c)'
  BY <1>3 DEF CallOK, PipeOK, ReadLines
<1>7. ResultOK(c)'
  BY <1>2, <1>3 DEF CallOK, ResultOK, ReadLines
<1>8. OutcomeOK(c)'
  BY <1>2, <1>3 DEF CallOK, OutcomeOK
<1>9. SessionOK(c)'
  BY <1>1, <1>2 DEF CallOK, SessionOK
<1> QED BY <1>1, <1>5, <1>6, <1>7, <1>8, <1>9 DEF CallOK, Others

LEMMA ScanEndsOK ==
  ASSUME TypeOK, NEW c \in Calls, CallOK(c), ScanEnds(c)
  PROVE  CallOK(c)' /\ Others(c)
<1>1. /\ call[c].pc = "scan" /\ scene' = scene /\ cli' = cli
      /\ cli[c].proc # "up" /\ cli[c].pipe = <<>>
      /\ call' = [call EXCEPT ![c].pc = "wait"]
  BY DEF ScanEnds, At, Up
<1>2. /\ call'[c].pc = "wait" /\ SameAttempt(c)
      /\ \A d \in Calls \ {c} : call'[d] = call[d]
  BY <1>1, Moves
<1>3. ProcessOK(c)' /\ OutcomeOK(c)'
  BY <1>1, <1>2 DEF CallOK, ProcessOK, OutcomeOK
<1>4. CallOK(c)'
  BY <1>1, <1>2, <1>3, OnlyMoves
<1> QED BY <1>1, <1>2, <1>4 DEF Others

LEMMA WaitOK ==
  ASSUME TypeOK, NEW c \in Calls, CallOK(c), Wait(c)
  PROVE  CallOK(c)' /\ Others(c)
<1>1. /\ call[c].pc = "wait" /\ scene' = scene /\ cli' = cli /\ cli[c].proc # "up"
      /\ call'[c] = [call[c] EXCEPT !.pc = "finish",
           !.result = IF c \in Json /\ cli[c].wrote # <<>> THEN Last(cli[c].wrote) ELSE @]
      /\ \A d \in Calls \ {c} : call'[d] = call[d]
  BY DEF Wait, At, Up, TypeOK
<1>2. /\ call'[c].pc = "finish" /\ call'[c].kill = call[c].kill
      /\ call'[c].remoteKill = call[c].remoteKill /\ call'[c].abort = call[c].abort
      /\ call'[c].session = call[c].session /\ call'[c].context = call[c].context
      /\ call'[c].resume = call[c].resume /\ call'[c].attempt = call[c].attempt
      /\ call'[c].result = IF c \in Json /\ cli[c].wrote # <<>>
                           THEN Last(cli[c].wrote) ELSE call[c].result
  BY <1>1, Typed DEF Locals
<1>3. ProcessOK(c)' /\ FarSideOK(c)' /\ OutcomeOK(c)' /\ SessionOK(c)'
  BY <1>1, <1>2 DEF CallOK, ProcessOK, FarSideOK, OutcomeOK, SessionOK
<1>4. PipeOK(c)'
  BY <1>1 DEF CallOK, PipeOK, ReadLines
<1>5. ResultOK(c)'
  <2>1. ReadLines(c)' = ReadLines(c)
    BY <1>1 DEF ReadLines
  <2>2. CASE c \in Json /\ cli[c].wrote # <<>>
    <3>1. cli[c].wrote \in Seq(Lines)
      BY Typed DEF Processes
    <3>2. Len(cli[c].wrote) \in 1..Len(cli[c].wrote)
      BY <2>2, <3>1
    <3>3. call'[c].result = cli[c].wrote[Len(cli[c].wrote)]
      BY <1>2, <2>2 DEF Last
    <3> QED BY <1>1, <1>2, <2>2, <3>2, <3>3 DEF ResultOK
  <2>3. CASE ~(c \in Json /\ cli[c].wrote # <<>>)
    <3>1. call'[c].result = call[c].result
      BY <1>2, <2>3
    <3>2. call'[c].pc = "finish" /\ call'[c].abort = call[c].abort /\ cli' = cli
      BY <1>1, <1>2
    <3>3. ResultOK(c) /\ call[c].pc = "wait"
      BY <1>1 DEF CallOK
    <3> QED BY <2>1, <3>1, <3>2, <3>3 DEF ResultOK
  <2> QED BY <2>2, <2>3
<1> QED BY <1>1, <1>3, <1>4, <1>5 DEF CallOK, Others

LEMMA ContextEndsOK ==
  ASSUME TypeOK, NEW c \in Calls, CallOK(c), NEW context \in {"timeout", "cancelled"},
         ContextEnds(c, context)
  PROVE  CallOK(c)' /\ Others(c)
<1>1. /\ call[c].pc \in {"scan", "wait"} /\ scene' = scene /\ cli' = cli
      /\ call'[c] = [call[c] EXCEPT !.context = context, !.kill = TRUE,
           !.remoteKill = IF @ = "no" /\ c \in Remote THEN "asked" ELSE @]
      /\ \A d \in Calls \ {c} : call'[d] = call[d]
  BY DEF ContextEnds, Kill, At, TypeOK
<1>2. /\ call'[c].pc = call[c].pc /\ call'[c].kill = TRUE
      /\ call'[c].remoteKill =
           (IF call[c].remoteKill = "no" /\ c \in Remote THEN "asked" ELSE call[c].remoteKill)
      /\ call'[c].abort = call[c].abort /\ call'[c].result = call[c].result
      /\ call'[c].session = call[c].session
      /\ call'[c].resume = call[c].resume /\ call'[c].attempt = call[c].attempt
  BY <1>1, Typed DEF Locals
<1>3. ProcessOK(c)' /\ OutcomeOK(c)' /\ SessionOK(c)'
  BY <1>1, <1>2 DEF CallOK, ProcessOK, OutcomeOK, SessionOK
<1>4. FarSideOK(c)'
  BY <1>1, <1>2 DEF CallOK, ProcessOK, FarSideOK
<1>5. PipeOK(c)'
  BY <1>1 DEF CallOK, PipeOK, ReadLines
<1>6. ResultOK(c)'
  BY <1>1, <1>2 DEF CallOK, ResultOK, ReadLines
<1> QED BY <1>1, <1>3, <1>4, <1>5, <1>6 DEF CallOK, Others

\* What OutcomeOf says of a call, as far as it is a claim.
LEMMA OutcomeCases ==
  ASSUME TypeOK, NEW c \in Calls
  PROVE  /\ OutcomeOf(c) = "ok" => cli[c].proc = "exit0" /\ call[c].result = "result"
         /\ OutcomeOf(c) = "truncated" =>
              /\ call[c].abort = "none" /\ call[c].result = "none" /\ c \notin Json
         /\ OutcomeOf(c) \in {"timeout", "cancelled"} => call[c].context # "live"
         /\ OutcomeOf(c) \in Outcomes
<1>1. /\ call[c].abort \in {"none", "veto", "too_long"} /\ call[c].context \in Contexts
      /\ call[c].result \in Results \cup {"none"}
  BY Typed DEF Locals
<1> DEFINE k == call[c]
           died == cli[c].proc # "exit0"
<1>2. CASE k.abort # "none"
  <2>1. OutcomeOf(c) = k.abort
    BY <1>2 DEF OutcomeOf
  <2> QED BY <1>1, <1>2, <2>1 DEF Outcomes
<1>3. CASE k.abort = "none" /\ died /\ k.context # "live"
  <2>1. OutcomeOf(c) = k.context
    BY <1>3 DEF OutcomeOf
  <2> QED BY <1>1, <1>3, <2>1 DEF Outcomes, Contexts
<1>4. CASE k.abort = "none" /\ died /\ k.context = "live"
  <2>1. OutcomeOf(c) = "exit"
    BY <1>4 DEF OutcomeOf
  <2> QED BY <2>1 DEF Outcomes
<1>5. CASE k.abort = "none" /\ ~died /\ k.result = "result"
  <2>1. OutcomeOf(c) = "ok"
    BY <1>5 DEF OutcomeOf
  <2> QED BY <1>5, <2>1 DEF Outcomes
<1>6. CASE k.abort = "none" /\ ~died /\ k.result = "failure"
  <2>1. OutcomeOf(c) = "error_result"
    BY <1>6 DEF OutcomeOf
  <2> QED BY <2>1 DEF Outcomes
<1>7. CASE k.abort = "none" /\ ~died /\ k.result = "none"
  <2>1. OutcomeOf(c) = IF c \in Json THEN "unparsed" ELSE "truncated"
    BY <1>7 DEF OutcomeOf
  <2> QED BY <1>7, <2>1 DEF Outcomes
<1> QED BY <1>1, <1>2, <1>3, <1>4, <1>5, <1>6, <1>7 DEF Results

LEMMA FinishOK ==
  ASSUME TypeOK, NEW c \in Calls, CallOK(c), Finish(c)
  PROVE  CallOK(c)' /\ Others(c)
<1>1. /\ call[c].pc = "finish" /\ scene' = scene /\ cli' = cli
      /\ call[c].kill => call[c].remoteKill # "asked"
      /\ call' = [call EXCEPT ![c].pc = "ended", ![c].outcome = OutcomeOf(c)]
  BY DEF Finish, EndWith, At, KillReturned
<1>2. /\ call'[c].pc = "ended" /\ call'[c].outcome = OutcomeOf(c) /\ SameAttempt(c)
      /\ \A d \in Calls \ {c} : call'[d] = call[d]
  <2> DEFINE o == OutcomeOf(c)
  <2>1. call' = [call EXCEPT ![c].pc = "ended", ![c].outcome = o]
    BY <1>1
  <2> HIDE DEF o
  <2>2. /\ call'[c].pc = "ended" /\ call'[c].outcome = o /\ SameAttempt(c)
        /\ \A d \in Calls \ {c} : call'[d] = call[d]
    BY <2>1, Ends
  <2> QED BY <2>2 DEF o
<1>3. ProcessOK(c)'
  BY <1>1, <1>2 DEF CallOK, ProcessOK
<1>4. OutcomeOK(c)'
  <2>1. /\ call'[c].outcome = "ok" => cli[c].proc = "exit0" /\ call[c].result = "result"
        /\ call'[c].outcome = "truncated" =>
             call[c].abort = "none" /\ call[c].result = "none" /\ c \notin Json
        /\ call'[c].outcome \in {"timeout", "cancelled"} => call[c].context # "live"
    BY <1>2, OutcomeCases
  <2>2. call[c].result = "result" => \E i \in 1..Len(cli[c].wrote) : cli[c].wrote[i] = "result"
    BY DEF CallOK, ResultOK
  <2>3. ASSUME call[c].abort = "none", call[c].result = "none", c \notin Json
        PROVE  \A i \in 1..Len(cli[c].wrote) : cli[c].wrote[i] \notin Results
    <3>1. cli[c].pipe = <<>>
      BY <1>1, <2>3 DEF CallOK, ResultOK
    <3>2. ReadLines(c) = Len(cli[c].wrote)
      BY <3>1, ReadBounds
    <3> QED BY <2>3, <3>2 DEF CallOK, ResultOK
  <2> QED BY <1>1, <1>2, <2>1, <2>2, <2>3 DEF OutcomeOK, SameAttempt
<1>5. CallOK(c)'
  BY <1>1, <1>2, <1>3, <1>4, OnlyMoves
<1> QED BY <1>1, <1>2, <1>5 DEF Others

\* A line leaves the pipe: the process is the same, one more line is read.
LEMMA OneLineRead ==
  ASSUME TypeOK, NEW c \in Calls, CallOK(c), Scan(c)
  PROVE  /\ c \notin Json /\ call[c].pc = "scan" /\ call[c].abort = "none"
         /\ cli[c].pipe # <<>> /\ scene' = scene
         /\ cli'[c].proc = cli[c].proc /\ cli'[c].far = cli[c].far
         /\ cli'[c].spared = cli[c].spared /\ cli'[c].wrote = cli[c].wrote
         /\ ReadLines(c)' = ReadLines(c) + 1 /\ ReadLines(c) \in Nat
         /\ ReadLines(c) + 1 \in 1..Len(cli[c].wrote)
         /\ Head(cli[c].pipe) = cli[c].wrote[ReadLines(c) + 1]
         /\ Head(cli[c].pipe) \in Lines
         /\ PipeOK(c)'
         /\ \A d \in Calls \ {c} : call'[d] = call[d] /\ cli'[d] = cli[d]
<1>1. /\ call[c].pc = "scan" /\ cli[c].pipe # <<>> /\ scene' = scene
      /\ cli'[c] = [cli[c] EXCEPT !.pipe = Tail(@)]
      /\ \A d \in Calls \ {c} : call'[d] = call[d] /\ cli'[d] = cli[d]
  BY DEF Scan, At, TypeOK
<1>2. c \notin Json /\ call[c].abort = "none"
  BY <1>1 DEF CallOK, ResultOK
<1>3. /\ cli'[c].proc = cli[c].proc /\ cli'[c].far = cli[c].far
      /\ cli'[c].spared = cli[c].spared /\ cli'[c].wrote = cli[c].wrote
      /\ cli'[c].pipe = Tail(cli[c].pipe)
  BY <1>1, Typed DEF Processes
<1>4. cli[c].pipe \in Seq(Lines) /\ Len(cli[c].pipe) \in Nat /\ Len(cli[c].wrote) \in Nat
  BY Typed DEF Processes
<1>5. /\ Len(cli[c].pipe) >= 1 /\ Len(cli'[c].pipe) = Len(cli[c].pipe) - 1
      /\ Head(cli[c].pipe) = cli[c].pipe[1] /\ Head(cli[c].pipe) \in Lines
      /\ \A i \in 1..Len(cli'[c].pipe) : cli'[c].pipe[i] = cli[c].pipe[i + 1]
  BY <1>1, <1>3, <1>4
<1>6. ReadLines(c)' = ReadLines(c) + 1
  <2>1. ReadLines(c)' = Len(cli[c].wrote) - (Len(cli[c].pipe) - 1)
    BY <1>3, <1>5 DEF ReadLines
  <2> QED BY <2>1, ReadBounds
<1>7. /\ ReadLines(c) >= 0 /\ ReadLines(c) \in Int
      /\ \A i \in 1..Len(cli[c].pipe) : cli[c].pipe[i] = cli[c].wrote[ReadLines(c) + i]
  BY <1>2, ReadBounds DEF CallOK, PipeOK
<1>8. ReadLines(c) + 1 \in 1..Len(cli[c].wrote) /\ Head(cli[c].pipe) = cli[c].wrote[ReadLines(c) + 1]
  <2>1. 1 \in 1..Len(cli[c].pipe)
    BY <1>4, <1>5
  <2> QED BY <1>5, <1>7, <2>1, ReadBounds
<1>9. PipeOK(c)'
  <2>1. ASSUME NEW i \in 1..Len(cli'[c].pipe)
        PROVE  cli'[c].pipe[i] = cli'[c].wrote[ReadLines(c)' + i]
    <3>1. i + 1 \in 1..Len(cli[c].pipe) /\ i \in Int
      BY <1>4, <1>5
    <3>2. cli'[c].pipe[i] = cli[c].wrote[ReadLines(c) + (i + 1)]
      BY <1>5, <1>7, <3>1
    <3>3. ReadLines(c)' + i = ReadLines(c) + (i + 1)
      BY <1>6, <1>7, <3>1
    <3> QED BY <1>3, <3>2, <3>3
  <2>2. ReadLines(c)' >= 0
    BY <1>6, <1>7
  <2> QED BY <1>2, <1>3, <2>1, <2>2 DEF CallOK, PipeOK
<1>10. ReadLines(c) \in Nat
  BY <1>7
<1> QED BY <1>1, <1>2, <1>3, <1>5, <1>6, <1>8, <1>9, <1>10

LEMMA ScanOK ==
  ASSUME TypeOK, NEW c \in Calls, CallOK(c), Scan(c)
  PROVE  CallOK(c)' /\ Others(c)
<1>1. PICK line : line = Head(cli[c].pipe)
  OBVIOUS
<1>2. /\ c \notin Json /\ call[c].pc = "scan" /\ call[c].abort = "none" /\ scene' = scene
      /\ cli'[c].proc = cli[c].proc /\ cli'[c].far = cli[c].far
      /\ cli'[c].spared = cli[c].spared /\ cli'[c].wrote = cli[c].wrote
      /\ ReadLines(c)' = ReadLines(c) + 1 /\ ReadLines(c) \in Nat
      /\ ReadLines(c) + 1 \in 1..Len(cli[c].wrote) /\ line = cli[c].wrote[ReadLines(c) + 1]
      /\ PipeOK(c)' /\ Others(c)
  BY <1>1, OneLineRead DEF Others
<1>3. \/ \E why \in {"veto", "too_long"} : call'[c] = Abort(c, why)
      \/ call'[c] = [call[c] EXCEPT
           !.session = IF line = "session" THEN call[c].attempt ELSE @,
           !.result = IF line \in Results THEN line ELSE @]
  <2>1. call' = [call EXCEPT ![c] =
          IF line = "long" THEN Abort(c, "too_long")
          ELSE IF line = "cost" /\ capSpent' > CapMax THEN Abort(c, "veto")
          ELSE [call[c] EXCEPT
            !.session = IF line = "session" THEN call[c].attempt ELSE @,
            !.result = IF line \in Results THEN line ELSE @]]
    BY <1>1 DEF Scan, Vetoed
  <2>2. call'[c] = IF line = "long" THEN Abort(c, "too_long")
                   ELSE IF line = "cost" /\ capSpent' > CapMax THEN Abort(c, "veto")
                   ELSE [call[c] EXCEPT
                     !.session = IF line = "session" THEN call[c].attempt ELSE @,
                     !.result = IF line \in Results THEN line ELSE @]
    BY <2>1, Zenon DEF TypeOK
  <2> QED BY <2>2
<1>4. \/ call[c].result = "none"
      \/ \E i \in 1..Len(cli[c].wrote) : cli[c].wrote[i] = call[c].result /\ i <= ReadLines(c)
  BY <1>2 DEF CallOK, ResultOK
<1>5. \/ call[c].result = "none"
      \/ \E i \in 1..Len(cli[c].wrote) : cli[c].wrote[i] = call[c].result /\ i <= ReadLines(c) + 1
  BY <1>2, <1>4
<1>6. CASE \E why \in {"veto", "too_long"} : call'[c] = Abort(c, why)
  <2>1. PICK why \in {"veto", "too_long"} : call'[c] = Abort(c, why)
    BY <1>6
  <2>2. /\ call'[c].pc = "wait" /\ call'[c].abort = why /\ call'[c].kill = TRUE
        /\ call'[c].remoteKill =
             (IF call[c].remoteKill = "no" /\ c \in Remote THEN "asked" ELSE call[c].remoteKill)
        /\ call'[c].result = call[c].result /\ call'[c].session = call[c].session
        /\ call'[c].resume = call[c].resume /\ call'[c].attempt = call[c].attempt
    BY <2>1, Typed DEF Locals, Abort
  <2>3. ProcessOK(c)' /\ OutcomeOK(c)' /\ SessionOK(c)'
    BY <1>2, <2>2 DEF CallOK, ProcessOK, OutcomeOK, SessionOK
  <2>4. FarSideOK(c)'
    BY <1>2, <2>2 DEF CallOK, ProcessOK, FarSideOK
  <2>5. ResultOK(c)'
    BY <1>2, <1>5, <2>2 DEF ResultOK
  <2> QED BY <1>2, <2>3, <2>4, <2>5 DEF CallOK
<1>7. CASE call'[c] = [call[c] EXCEPT
             !.session = IF line = "session" THEN call[c].attempt ELSE @,
             !.result = IF line \in Results THEN line ELSE @]
  <2>1. /\ call'[c].pc = "scan" /\ call'[c].abort = "none" /\ call'[c].kill = call[c].kill
        /\ call'[c].remoteKill = call[c].remoteKill
        /\ call'[c].result = (IF line \in Results THEN line ELSE call[c].result)
        /\ call'[c].session = (IF line = "session" THEN call[c].attempt ELSE call[c].session)
        /\ call'[c].resume = call[c].resume /\ call'[c].attempt = call[c].attempt
    BY <1>2, <1>7, Typed DEF Locals
  <2>2. ProcessOK(c)' /\ OutcomeOK(c)' /\ SessionOK(c)' /\ FarSideOK(c)'
    BY <1>2, <2>1 DEF CallOK, ProcessOK, OutcomeOK, SessionOK, FarSideOK
  <2>3. ResultOK(c)'
    <3>1. call'[c].result # "none" =>
            \E i \in 1..Len(cli[c].wrote) : cli[c].wrote[i] = call'[c].result /\ i <= ReadLines(c) + 1
      BY <1>2, <1>5, <2>1
    <3>2. ASSUME call'[c].result = "none", NEW i \in 1..(ReadLines(c) + 1)
          PROVE  cli[c].wrote[i] \notin Results
      <4>1. line \notin Results /\ call[c].result = "none"
        BY <2>1, <3>2 DEF Results
      <4>2. i = ReadLines(c) + 1 \/ i \in 1..ReadLines(c)
        BY <1>2, <3>2
      <4>3. CASE i = ReadLines(c) + 1
        BY <1>2, <4>1, <4>3
      <4>4. CASE i \in 1..ReadLines(c)
        BY <1>2, <4>1, <4>4 DEF CallOK, ResultOK
      <4> QED BY <4>2, <4>3, <4>4
    <3> QED BY <1>2, <2>1, <3>1, <3>2 DEF ResultOK
  <2> QED BY <1>2, <2>2, <2>3 DEF CallOK
<1> QED BY <1>2, <1>3, <1>6, <1>7

LEMMA RetryOK ==
  ASSUME TypeOK, NEW c \in Calls, CallOK(c), Retry(c)
  PROVE  CallOK(c)' /\ Others(c)
<1>1. /\ call[c].pc = "ended" /\ call[c].attempt < scene.attempts
      /\ scene' = scene /\ cli' = cli
      /\ call'[c] = [Counted(c) EXCEPT !.pc = "backoff", !.context = "live",
                                       !.resume = SessionToResume(c)]
      /\ \A d \in Calls \ {c} : call'[d] = call[d]
  BY DEF Retry, At, TypeOK
<1>2. /\ call'[c].pc = "backoff" /\ call'[c].resume = SessionToResume(c)
      /\ call'[c].kill = call[c].kill /\ call'[c].remoteKill = call[c].remoteKill
      /\ call'[c].abort = call[c].abort /\ call'[c].result = call[c].result
      /\ call'[c].session = call[c].session /\ call'[c].attempt = call[c].attempt
  BY <1>1, Typed DEF Locals, Counted
<1>3. ProcessOK(c)' /\ FarSideOK(c)' /\ OutcomeOK(c)'
  BY <1>1, <1>2 DEF CallOK, ProcessOK, FarSideOK, OutcomeOK
<1>4. PipeOK(c)'
  BY <1>1 DEF CallOK, PipeOK, ReadLines
<1>5. ResultOK(c)'
  BY <1>1, <1>2 DEF CallOK, ResultOK, ReadLines
<1>6. SessionOK(c)'
  <2>1. /\ call[c].attempt \in Nat /\ call[c].session \in {0, call[c].attempt}
        /\ call[c].resume <= call[c].attempt
    BY Typed DEF Locals, CallOK, SessionOK
  <2>2. SessionToResume(c) \in {0, call[c].session, call[c].resume}
    BY DEF SessionToResume
  <2>3. SessionToResume(c) <= call[c].attempt
    BY <2>1, <2>2
  <2> QED BY <1>1, <1>2, <2>1, <2>3 DEF SessionOK
<1> QED BY <1>1, <1>3, <1>4, <1>5, <1>6 DEF CallOK, Others

LEMMA GiveUpOK ==
  ASSUME TypeOK, NEW c \in Calls, CallOK(c), GiveUp(c) \/ BackoffCancelled(c)
  PROVE  CallOK(c)' /\ Others(c) /\ call'[c].pc = "done"
<1>1. /\ call[c].pc \in {"ended", "backoff"} /\ scene' = scene /\ cli' = cli
  BY DEF GiveUp, BackoffCancelled, At
<1>2. /\ call'[c].pc = "done" /\ SameAttempt(c)
      /\ \A d \in Calls \ {c} : call'[d] = call[d]
  <2>1. CASE GiveUp(c)
    <3>1. /\ call'[c] = [Counted(c) EXCEPT !.pc = "done"]
          /\ \A d \in Calls \ {c} : call'[d] = call[d]
      BY <2>1 DEF GiveUp, TypeOK
    <3> QED BY <3>1, Typed DEF Locals, Counted, SameAttempt
  <2>2. CASE BackoffCancelled(c)
    BY <2>2, Ends DEF BackoffCancelled
  <2> QED BY <2>1, <2>2
<1>3. ProcessOK(c)' /\ OutcomeOK(c)'
  BY <1>1, <1>2 DEF CallOK, ProcessOK, OutcomeOK
<1>4. call[c].remoteKill # "asked"
  BY <1>1 DEF CallOK, FarSideOK
<1>5. CallOK(c)'
  BY <1>1, <1>2, <1>3, <1>4, OnlyMoves
<1> QED BY <1>1, <1>2, <1>5 DEF Others

LEMMA CallerOK ==
  ASSUME TypeOK, NEW c \in Calls, CallOK(c), Caller(c)
  PROVE  CallOK(c)' /\ Others(c)
<1>1. CASE Preflight(c)
  <2>1. scene' = scene /\ call' = call /\ cli' = cli
    BY <1>1 DEF Preflight
  <2> QED BY <2>1, UntouchedOK DEF Others
<1>2. CASE PreflightFailed(c) \/ Refuse(c) \/ StartFails(c)
  BY <1>2, NotStartedOK
<1>3. CASE Attempt(c)
  BY <1>3, AttemptOK
<1>4. CASE Start(c)
  BY <1>4, StartOK
<1>5. CASE Scan(c)
  BY <1>5, ScanOK
<1>6. CASE ScanEnds(c)
  BY <1>6, ScanEndsOK
<1>7. CASE Wait(c)
  BY <1>7, WaitOK
<1>8. CASE Finish(c)
  BY <1>8, FinishOK
<1>9. CASE Retry(c)
  BY <1>9, RetryOK
<1>10. CASE GiveUp(c) \/ BackoffCancelled(c)
  BY <1>10, GiveUpOK
<1> QED BY <1>1, <1>2, <1>3, <1>4, <1>5, <1>6, <1>7, <1>8, <1>9, <1>10 DEF Caller

LEMMA OneStep ==
  ASSUME TypeOK, NEW c \in Calls, CallOK(c),
         \/ Caller(c) \/ Teardown(c) \/ CLI(c)
         \/ \E context \in {"timeout", "cancelled"} : ContextEnds(c, context)
  PROVE  CallOK(c)' /\ Others(c)
<1>1. CASE Caller(c)
  BY <1>1, CallerOK
<1>2. CASE LocalDies(c) \/ FarStarts(c) \/ LinkLost(c)
  BY <1>2, CliOK
<1>3. CASE \E code \in {"exit0", "exit1"} : Exit(c, code)
  BY <1>3, CliOK
<1>4. CASE Terminate(c)
  BY <1>4, TerminateOK
<1>5. CASE \E line \in scene.says : Write(c, line)
  BY <1>5, WriteOK
<1>6. CASE \E context \in {"timeout", "cancelled"} : ContextEnds(c, context)
  BY <1>6, ContextEndsOK
<1> QED BY <1>1, <1>2, <1>3, <1>4, <1>5, <1>6 DEF Teardown, CLI

LEMMA StepOK ==
  ASSUME TypeOK, CallsOK, Next
  PROVE  CallsOK' /\ scene' = scene
<1>1. PICK c \in Calls :
        \/ Caller(c) \/ Teardown(c) \/ CLI(c)
        \/ \E context \in {"timeout", "cancelled"} : ContextEnds(c, context)
  BY DEF Next
<1>2. CallOK(c)
  BY DEF CallsOK
<1>3. CallOK(c)' /\ Others(c)
  BY <1>1, <1>2, OneStep
<1>4. scene' = scene
  <2>1. CASE Caller(c)
    BY <2>1 DEF Caller, Attempt, Preflight, PreflightFailed, Refuse, StartFails, Start,
                Scan, ScanEnds, Wait, Finish, Retry, GiveUp, BackoffCancelled
  <2>2. CASE ~Caller(c)
    BY <1>1, <2>2 DEF Teardown, CLI, LocalDies, Terminate, FarStarts, LinkLost, Write,
                      Exit, ContextEnds
  <2> QED BY <2>1, <2>2
<1>5. ASSUME NEW d \in Calls \ {c}
      PROVE  CallOK(d)'
  <2>1. CallOK(d) /\ call'[d] = call[d] /\ cli'[d] = cli[d]
    BY <1>3 DEF CallsOK, Others
  <2> QED BY <1>4, <2>1, UntouchedOK
<1>6. CallsOK'
  <2> SUFFICES ASSUME NEW d \in Calls PROVE CallOK(d)'
    BY DEF CallsOK
  <2> QED BY <1>3, <1>5
<1> QED BY <1>4, <1>6

(***************************************************************************)
(* Every step keeps the types                                              *)
(***************************************************************************)
LEMMA CountedTyped ==
  ASSUME TypeOK, NEW c \in Calls
  PROVE  /\ Counted(c) \in Locals /\ Counted(c).attempt = call[c].attempt
         /\ SessionToResume(c) \in 0..scene.attempts
<1>1. call[c] \in Locals /\ Unknown \in Nat
  BY Typed, CallAssumption
<1>2. Returned(c) \in {0, 1}
  BY DEF Returned
<1>3. Charged(c) \in Nat
  BY <1>1, <1>2 DEF Charged
<1>4. call[c].spent + Returned(c) \in Nat /\ call[c].guard + Charged(c) \in Nat
  BY <1>1, <1>2, <1>3 DEF Locals
<1>5. Counted(c) = [call[c] EXCEPT !.spent = call[c].spent + Returned(c),
                                   !.guard = call[c].guard + Charged(c)]
  BY DEF Counted
<1>6. Counted(c) \in Locals /\ Counted(c).attempt = call[c].attempt
  BY <1>1, <1>4, <1>5 DEF Locals
<1>7. SessionToResume(c) \in 0..scene.attempts
  BY Typed DEF SessionToResume, Locals
<1> QED BY <1>6, <1>7

LEMMA CallerTyped ==
  ASSUME TypeOK, NEW c \in Calls, CallOK(c), Caller(c), scene' = scene
  PROVE  call' \in [Calls -> Locals]
<1> USE DEF TypeOK
<1>1. call[c] \in Locals /\ scene.attempts \in Nat \ {0}
  BY Typed
<1>2. ASSUME NEW o \in Outcomes, call' = [call EXCEPT ![c].pc = "ended", ![c].outcome = o]
      PROVE  call' \in [Calls -> Locals]
  <2>1. [call[c] EXCEPT !.pc = "ended", !.outcome = o] \in Locals
    BY <1>1 DEF Locals
  <2> QED BY <1>2, <2>1
<1>3. CASE Attempt(c)
  <2>1. PICK n : n = call[c].attempt + 1
    OBVIOUS
  <2>2. call[c].attempt \in Nat /\ call[c].attempt < scene.attempts
    BY <1>1, <1>3 DEF Attempt, At, CallOK, SessionOK, Locals
  <2>3. n \in 0..scene.attempts
    BY <1>1, <2>1, <2>2
  <2>4. PICK k : k = [Fresh EXCEPT !.pc = "begin", !.attempt = n,
           !.resume = call[c].resume, !.spent = call[c].spent,
           !.guard = call[c].guard]
    OBVIOUS
  <2>5. k = [pc |-> "begin", attempt |-> n, context |-> "live",
             kill |-> FALSE, remoteKill |-> "no", abort |-> "none",
             session |-> 0, result |-> "none", outcome |-> "none",
             resume |-> call[c].resume, spent |-> call[c].spent, guard |-> call[c].guard]
    BY <2>4 DEF Fresh
  <2>6. /\ call[c].resume \in 0..scene.attempts /\ call[c].spent \in Nat
        /\ call[c].guard \in Nat /\ 0 \in 0..scene.attempts
    BY <1>1 DEF Locals
  <2>7. k \in Locals
    BY <2>3, <2>5, <2>6 DEF Locals, Contexts, Outcomes
  <2> QED BY <1>3, <2>1, <2>4, <2>7 DEF Attempt
<1>4. CASE PreflightFailed(c) \/ Refuse(c) \/ StartFails(c)
  <2>1. {"preflight", "refused", "not_found"} \subseteq Outcomes
    BY DEF Outcomes
  <2>2. PICK o \in {"preflight", "refused", "not_found"} :
          call' = [call EXCEPT ![c].pc = "ended", ![c].outcome = o]
    BY <1>4 DEF PreflightFailed, Refuse, StartFails, EndWith
  <2> QED BY <1>2, <2>1, <2>2
<1>5. CASE Preflight(c)
  BY <1>5 DEF Preflight
<1>6. CASE Start(c) \/ ScanEnds(c)
  <2>1. PICK where \in {"wait", "scan"} : call' = [call EXCEPT ![c].pc = where]
    BY <1>6 DEF Start, ScanEnds
  <2>2. [call[c] EXCEPT !.pc = where] \in Locals
    BY <1>1 DEF Locals
  <2> QED BY <2>1, <2>2
<1>7. CASE Scan(c)
  <2>1. PICK line \in Lines :
          \/ call' = [call EXCEPT ![c] = Abort(c, "too_long")]
          \/ call' = [call EXCEPT ![c] = Abort(c, "veto")]
          \/ call' = [call EXCEPT ![c] = [call[c] EXCEPT
               !.session = IF line = "session" THEN call[c].attempt ELSE @,
               !.result = IF line \in Results THEN line ELSE @]]
    BY <1>7, OneLineRead DEF Scan, Vetoed
  <2>2. Abort(c, "too_long") \in Locals /\ Abort(c, "veto") \in Locals
    <3> SUFFICES ASSUME NEW why \in {"veto", "too_long"} PROVE Abort(c, why) \in Locals
      OBVIOUS
    <3>1. PICK r : r = IF call[c].remoteKill = "no" /\ c \in Remote
                       THEN "asked" ELSE call[c].remoteKill
      OBVIOUS
    <3>2. r \in {"no", "asked", "over"}
      BY <1>1, <3>1 DEF Locals
    <3>3. [call[c] EXCEPT !.pc = "wait", !.abort = why] \in Locals
      BY <1>1 DEF Locals
    <3>4. PICK k \in Locals : k = [call[c] EXCEPT !.pc = "wait", !.abort = why]
      BY <3>3
    <3>5. [k EXCEPT !.kill = TRUE, !.remoteKill = r] \in Locals
      BY <3>2 DEF Locals
    <3> QED BY <3>1, <3>4, <3>5 DEF Abort
  <2>3. [call[c] EXCEPT
           !.session = IF line = "session" THEN call[c].attempt ELSE @,
           !.result = IF line \in Results THEN line ELSE @] \in Locals
    <3>1. PICK s \in 0..scene.attempts :
            s = IF line = "session" THEN call[c].attempt ELSE call[c].session
      BY <1>1 DEF Locals
    <3>2. PICK r \in Results \cup {"none"} :
            r = IF line \in Results THEN line ELSE call[c].result
      BY <1>1 DEF Locals
    <3>3. [call[c] EXCEPT !.session = s, !.result = r] \in Locals
      BY <1>1 DEF Locals
    <3> QED BY <3>1, <3>2, <3>3
  <2> QED BY <2>1, <2>2, <2>3
<1>8. CASE Wait(c)
  <2>1. c \in Json /\ cli[c].wrote # <<>> => Last(cli[c].wrote) \in Results
    BY Typed DEF Processes, CallOK, PipeOK, Last
  <2>2. [call[c] EXCEPT !.pc = "finish",
           !.result = IF c \in Json /\ cli[c].wrote # <<>> THEN Last(cli[c].wrote) ELSE @] \in Locals
    BY <1>1, <2>1 DEF Locals
  <2>3. call' = [call EXCEPT ![c] = [call[c] EXCEPT !.pc = "finish",
           !.result = IF c \in Json /\ cli[c].wrote # <<>> THEN Last(cli[c].wrote) ELSE @]]
    BY <1>8 DEF Wait
  <2> QED BY <2>2, <2>3
<1>9. CASE Finish(c)
  BY <1>2, <1>9, OutcomeCases DEF Finish, EndWith
<1>10. CASE Retry(c)
  <2>1. PICK k \in Locals : k = Counted(c)
    BY CountedTyped
  <2>2. [k EXCEPT !.pc = "backoff", !.context = "live"] \in Locals
    BY DEF Locals, Contexts
  <2>3. PICK m \in Locals : m = [k EXCEPT !.pc = "backoff", !.context = "live"]
    BY <2>2
  <2>4. [m EXCEPT !.resume = SessionToResume(c)] \in Locals
    BY CountedTyped DEF Locals
  <2> QED BY <1>10, <2>1, <2>3, <2>4 DEF Retry
<1>11. CASE GiveUp(c)
  <2>1. PICK k \in Locals : k = Counted(c)
    BY CountedTyped
  <2>2. [k EXCEPT !.pc = "done"] \in Locals
    BY DEF Locals
  <2> QED BY <1>11, <2>1, <2>2 DEF GiveUp
<1>12. CASE BackoffCancelled(c)
  <2>1. PICK o \in Outcomes : o = "cancelled"
    BY DEF Outcomes
  <2>2. [call[c] EXCEPT !.pc = "done", !.outcome = o] \in Locals
    BY <1>1 DEF Locals
  <2> QED BY <1>12, <2>1, <2>2 DEF BackoffCancelled
<1> QED BY <1>3, <1>4, <1>5, <1>6, <1>7, <1>8, <1>9, <1>10, <1>11, <1>12 DEF Caller

LEMMA ProcessesTyped ==
  ASSUME TypeOK, NEW c \in Calls, CallOK(c),
         \/ Caller(c) \/ Teardown(c) \/ CLI(c)
         \/ \E context \in {"timeout", "cancelled"} : ContextEnds(c, context)
  PROVE  cli' \in [Calls -> Processes] /\ \A d \in Calls : Len(cli'[d].pipe) <= PipeCap
<1> USE DEF TypeOK
<1>1. cli[c] \in Processes /\ PipeCap \in Nat \ {0} /\ Len(cli[c].pipe) \in Nat
  BY Typed, CallAssumption
<1>2. ASSUME NEW p \in Processes, cli' = [cli EXCEPT ![c] = p], Len(p.pipe) <= PipeCap
      PROVE  cli' \in [Calls -> Processes] /\ \A d \in Calls : Len(cli'[d].pipe) <= PipeCap
  BY <1>2
<1>3. ASSUME NEW p, cli' = [cli EXCEPT ![c] = p],
             p.pipe = cli[c].pipe, p \in Processes
      PROVE  cli' \in [Calls -> Processes] /\ \A d \in Calls : Len(cli'[d].pipe) <= PipeCap
  BY <1>2, <1>3
<1>4. CASE cli' = cli
  BY <1>4
<1>5. CASE Attempt(c)
  <2>1. PICK p : p = [NoProcess EXCEPT !.spared = cli[c].spared, !.told = cli[c].told]
    OBVIOUS
  <2>2. p = [proc |-> "none", far |-> "none", pipe |-> <<>>, wrote |-> <<>>,
             spared |-> cli[c].spared, told |-> cli[c].told]
    BY <2>1 DEF NoProcess
  <2>3. p.pipe = <<>>
    BY <2>2
  <2>4. <<>> \in Seq(Lines) /\ cli[c].spared \in BOOLEAN /\ cli[c].told \in Nat
    BY <1>1 DEF Processes
  <2>5. p \in Processes
    BY <2>2, <2>4, Zenon DEF Processes
  <2> QED BY <1>1, <1>2, <1>5, <2>1, <2>3, <2>5 DEF Attempt
<1>6. CASE Start(c)
  <2>1. PICK p : p = [cli[c] EXCEPT !.proc = "up",
                        !.far = IF c \in Remote THEN "starting" ELSE "none"]
    OBVIOUS
  <2>2. p.pipe = cli[c].pipe /\ p \in Processes
    BY <1>1, <2>1 DEF Processes
  <2> QED BY <1>3, <1>6, <2>1, <2>2 DEF Start
<1>7. CASE Scan(c)
  <2>1. PICK p : p = [cli[c] EXCEPT !.pipe = Tail(@)]
    OBVIOUS
  <2>2. cli[c].pipe \in Seq(Lines) /\ cli[c].pipe # <<>>
    BY <1>1, <1>7 DEF Scan, Processes
  <2>3. Tail(cli[c].pipe) \in Seq(Lines) /\ Len(Tail(cli[c].pipe)) = Len(cli[c].pipe) - 1
    BY <2>2
  <2>4. p \in Processes /\ p.pipe = Tail(cli[c].pipe)
    BY <1>1, <2>1, <2>3 DEF Processes
  <2>5. Len(p.pipe) <= PipeCap
    BY <1>1, <2>3, <2>4
  <2> QED BY <1>2, <1>7, <2>1, <2>4, <2>5 DEF Scan
<1>8. CASE LocalDies(c) \/ FarStarts(c) \/ LinkLost(c) \/ Terminate(c)
  <2>1. CASE LocalDies(c)
    <3>1. PICK p : p = [cli[c] EXCEPT !.proc = "killed"]
      OBVIOUS
    <3>2. p.pipe = cli[c].pipe /\ p \in Processes
      BY <1>1, <3>1 DEF Processes
    <3> QED BY <1>3, <2>1, <3>1, <3>2 DEF LocalDies
  <2>2. CASE FarStarts(c)
    <3>1. PICK p : p = [cli[c] EXCEPT !.far = "up"]
      OBVIOUS
    <3>2. p.pipe = cli[c].pipe /\ p \in Processes
      BY <1>1, <3>1 DEF Processes
    <3> QED BY <1>3, <2>2, <3>1, <3>2 DEF FarStarts
  <2>3. CASE LinkLost(c)
    <3>1. PICK p : p = [cli[c] EXCEPT !.proc = "exit1", !.spared = TRUE]
      OBVIOUS
    <3>2. p.pipe = cli[c].pipe /\ p \in Processes
      BY <1>1, <3>1 DEF Processes
    <3> QED BY <1>3, <2>3, <3>1, <3>2 DEF LinkLost
  <2>4. CASE cli' = [cli EXCEPT ![c].far = "gone"]
    <3>1. PICK p : p = [cli[c] EXCEPT !.far = "gone"]
      OBVIOUS
    <3>2. p.pipe = cli[c].pipe /\ p \in Processes
      BY <1>1, <3>1 DEF Processes
    <3> QED BY <1>3, <2>4, <3>1, <3>2
  <2>5. CASE cli' = [cli EXCEPT ![c].spared = TRUE]
    <3>1. PICK p : p = [cli[c] EXCEPT !.spared = TRUE]
      OBVIOUS
    <3>2. p.pipe = cli[c].pipe /\ p \in Processes
      BY <1>1, <3>1 DEF Processes
    <3> QED BY <1>3, <2>5, <3>1, <3>2
  <2> QED BY <1>4, <1>8, <2>1, <2>2, <2>3, <2>4, <2>5 DEF Terminate
<1>9. ASSUME NEW code \in {"exit0", "exit1"}, Exit(c, code)
      PROVE  cli' \in [Calls -> Processes] /\ \A d \in Calls : Len(cli'[d].pipe) <= PipeCap
  <2>1. PICK p : p = [cli[c] EXCEPT !.proc = code, !.far = IF c \in Remote THEN "gone" ELSE @]
    OBVIOUS
  <2>2. p.pipe = cli[c].pipe /\ p \in Processes
    BY <1>1, <2>1 DEF Processes
  <2> QED BY <1>3, <1>9, <2>1, <2>2 DEF Exit
<1>10. ASSUME NEW line \in scene.says, Write(c, line)
       PROVE  cli' \in [Calls -> Processes] /\ \A d \in Calls : Len(cli'[d].pipe) <= PipeCap
  <2>1. PICK p : p = [cli[c] EXCEPT !.wrote = Append(@, line),
                                    !.pipe = IF c \in Json THEN @ ELSE Append(@, line),
                                    !.told = IF line = "session" THEN call[c].attempt ELSE @]
    OBVIOUS
  <2>2. /\ line \in Lines /\ call[c].attempt \in Nat /\ cli[c].told \in Nat
        /\ cli[c].pipe \in Seq(Lines) /\ cli[c].wrote \in Seq(Lines)
    <3>1. line \in Lines /\ call[c] \in Locals
      BY Typed
    <3>2. call[c].attempt \in Nat
      BY <3>1 DEF Locals
    <3> QED BY <1>1, <3>1, <3>2 DEF Processes
  <2>3. /\ Append(cli[c].pipe, line) \in Seq(Lines) /\ Append(cli[c].wrote, line) \in Seq(Lines)
        /\ Len(Append(cli[c].pipe, line)) = Len(cli[c].pipe) + 1
    BY <2>2
  <2>4. /\ p \in Processes
        /\ p.pipe = IF c \in Json THEN cli[c].pipe ELSE Append(cli[c].pipe, line)
    <3>1. PICK told : told = IF line = "session" THEN call[c].attempt ELSE cli[c].told
      OBVIOUS
    <3>2. told \in Nat
      BY <2>2, <3>1
    <3>3. PICK pipe : pipe = IF c \in Json THEN cli[c].pipe ELSE Append(cli[c].pipe, line)
      OBVIOUS
    <3>4. pipe \in Seq(Lines)
      BY <2>2, <2>3, <3>3
    <3>5. p = [cli[c] EXCEPT !.wrote = Append(cli[c].wrote, line), !.pipe = pipe,
                             !.told = told]
      BY <1>1, <2>1, <3>1, <3>3 DEF Processes
    <3> HIDE <3>1, <3>3
    <3>6. p.pipe = pipe /\ p \in Processes
      BY <1>1, <2>3, <3>2, <3>4, <3>5 DEF Processes
    <3> QED BY <3>3, <3>6
  <2>5. c \notin Json => Len(cli[c].pipe) < PipeCap
    BY <1>10 DEF Write
  <2>6. c \notin Json => Len(p.pipe) <= PipeCap
    BY <1>1, <2>3, <2>4, <2>5
  <2>7. c \in Json => p.pipe = cli[c].pipe
    BY <2>4
  <2>8. cli' = [cli EXCEPT ![c] = p]
    BY <1>10, <2>1 DEF Write
  <2> QED BY <1>2, <1>3, <2>4, <2>6, <2>7, <2>8
<1>11. ASSUME NEW context, ContextEnds(c, context)
       PROVE  cli' = cli
  BY <1>11 DEF ContextEnds
<1>12. CASE Caller(c) /\ ~Attempt(c) /\ ~Start(c) /\ ~Scan(c)
  <2>1. cli' = cli
    BY <1>12 DEF Caller, Preflight, PreflightFailed, Refuse, StartFails,
                 ScanEnds, Wait, Finish, Retry, GiveUp, BackoffCancelled
  <2> QED BY <1>4, <2>1
<1> QED BY <1>4, <1>5, <1>6, <1>7, <1>8, <1>9, <1>10, <1>11, <1>12 DEF Teardown, CLI

LEMMA NextTypeOK ==
  ASSUME TypeOK, CallsOK, Next
  PROVE  TypeOK'
<1>1. PICK c \in Calls :
        \/ Caller(c) \/ Teardown(c) \/ CLI(c)
        \/ \E context \in {"timeout", "cancelled"} : ContextEnds(c, context)
  BY DEF Next
<1>2. CallOK(c) /\ scene' = scene /\ scene \in Scenes
  BY StepOK DEF CallsOK, TypeOK
<1>3. cli' \in [Calls -> Processes] /\ \A d \in Calls : Len(cli'[d].pipe) <= PipeCap
  BY <1>1, <1>2, ProcessesTyped
<1>4. call' \in [Calls -> Locals]
  <2>1. CASE Caller(c)
    BY <1>2, <2>1, CallerTyped
  <2>2. CASE call' = call
    BY <2>2 DEF TypeOK
  <2>3. CASE Terminate(c)
    <3>1. PICK k : k = [call[c] EXCEPT !.remoteKill = "over"]
      OBVIOUS
    <3>2. call[c] \in Locals
      BY Typed
    <3>3. k \in Locals
      BY <3>1, <3>2 DEF Locals
    <3> QED BY <2>3, <3>1, <3>3 DEF Terminate, TypeOK
  <2>4. ASSUME NEW context \in {"timeout", "cancelled"}, ContextEnds(c, context)
        PROVE  call' \in [Calls -> Locals]
    <3>1. PICK r : r = IF call[c].remoteKill = "no" /\ c \in Remote
                       THEN "asked" ELSE call[c].remoteKill
      OBVIOUS
    <3>2. /\ call[c] \in Locals /\ context \in Contexts
          /\ r \in {"no", "asked", "over"}
      BY <3>1, Typed DEF Contexts, Locals
    <3>3. PICK k : k = [call[c] EXCEPT !.context = context, !.kill = TRUE, !.remoteKill = r]
      OBVIOUS
    <3>4. k \in Locals
      <4>1. PICK m : m = [call[c] EXCEPT !.context = context, !.kill = TRUE]
        OBVIOUS
      <4>2. m \in Locals
        BY <3>2, <4>1 DEF Locals
      <4>3. k = [m EXCEPT !.remoteKill = r]
        BY <3>3, <4>1
      <4> QED BY <3>2, <4>2, <4>3 DEF Locals
    <3>5. call' = [call EXCEPT ![c] = k]
      BY <2>4, <3>1, <3>3 DEF ContextEnds, Kill
    <3> QED BY <3>4, <3>5 DEF TypeOK
  <2> QED BY <1>1, <2>1, <2>2, <2>3, <2>4 DEF Teardown, LocalDies, CLI, FarStarts, LinkLost,
                                               Write, Exit
<1>5. preflight' \in {"not_run", "passed", "failed"} /\ capSpent' \in Nat
  <2>1. preflight \in {"not_run", "passed", "failed"} /\ capSpent \in Nat
    BY DEF TypeOK
  <2>2. CASE Preflight(c)
    BY <2>1, <2>2 DEF Preflight
  <2>3. CASE Scan(c)
    BY <2>1, <2>3 DEF Scan
  <2>4. CASE Finish(c)
    BY <2>1, <2>4 DEF Finish
  <2>5. CASE preflight' = preflight /\ capSpent' = capSpent
    BY <2>1, <2>5
  <2> QED BY <1>1, <2>2, <2>3, <2>4, <2>5
          DEF Caller, Attempt, PreflightFailed, Refuse, StartFails, Start, ScanEnds, Wait,
              Retry, GiveUp, BackoffCancelled, Teardown, LocalDies, Terminate, CLI, FarStarts,
              LinkLost, Write, Exit, ContextEnds
<1>6. Locals' = Locals
  BY <1>2 DEF Locals
<1>7. Processes' = Processes
  BY DEF Processes
<1> QED BY <1>2, <1>3, <1>4, <1>5, <1>6, <1>7 DEF TypeOK

(***************************************************************************)
(* Every step keeps the session to resume                                  *)
(***************************************************************************)
SameSession(c) ==
  /\ call'[c].attempt = call[c].attempt /\ call'[c].session = call[c].session
  /\ call'[c].resume = call[c].resume /\ call'[c].abort = call[c].abort

\* Nothing is told, and nothing of a call changes that counts for it but its place.
LEMMA SameTold ==
  ASSUME TypeOK, NEW c \in Calls, ToldOK(c), SameSession(c), cli'[c].told = cli[c].told,
         cli'[c].pipe = cli[c].pipe,
         \/ call'[c].pc = call[c].pc /\ call'[c].outcome = call[c].outcome
         \/ call[c].pc \in {"scan", "wait"} /\ call'[c].pc \in {"wait", "finish"} /\ cli[c].pipe = <<>>
         \/ call[c].pc = "wait" /\ call'[c].pc = "finish"
         \/ /\ call[c].pc = "finish" /\ call'[c].pc = "ended"
            /\ call'[c].outcome \in {"timeout", "truncated", "exit", "error_result"} =>
                 call[c].abort = "none"
         \/ /\ call[c].pc = "begin" /\ call'[c].pc \in {"scan", "wait", "ended"}
            /\ cli[c].pipe = <<>>
            /\ call'[c].pc = "ended" =>
                 call'[c].outcome \notin {"timeout", "truncated", "exit", "error_result"}
         \/ call'[c].pc = "done"
  PROVE  ToldOK(c)'
<1>1. CASE call'[c].pc = call[c].pc /\ call'[c].outcome = call[c].outcome
  BY <1>1 DEF ToldOK, SameSession, Retryable
<1>2. CASE /\ call[c].pc \in {"scan", "wait"} /\ call'[c].pc \in {"wait", "finish"}
           /\ cli[c].pipe = <<>>
  BY <1>2 DEF ToldOK, SameSession
<1>3. CASE call[c].pc = "wait" /\ call'[c].pc = "finish"
  BY <1>3 DEF ToldOK, SameSession
<1>4. CASE /\ call[c].pc = "finish" /\ call'[c].pc = "ended"
           /\ call'[c].outcome \in {"timeout", "truncated", "exit", "error_result"} =>
                call[c].abort = "none"
  BY <1>4 DEF ToldOK, SameSession, Retryable
<1>5. CASE /\ call[c].pc = "begin" /\ call'[c].pc \in {"scan", "wait", "ended"}
           /\ cli[c].pipe = <<>>
           /\ call'[c].pc = "ended" =>
                call'[c].outcome \notin {"timeout", "truncated", "exit", "error_result"}
  <2>1. \A i \in 1..Len(cli[c].pipe) : FALSE
    BY <1>5
  <2>2. /\ call'[c].session = call[c].session /\ call'[c].resume = call[c].resume
        /\ call'[c].attempt = call[c].attempt
    BY DEF SameSession
  <2>3. call'[c].pc = "ended" => ~Retryable(c)'
    BY <1>5 DEF Retryable
  <2>4. CASE c \in Json
    BY <2>4 DEF ToldOK
  <2>5. CASE c \notin Json
    <3>1. /\ call[c].session = 0 /\ cli[c].told = call[c].resume
          /\ call[c].resume < call[c].attempt
      BY <1>5, <2>5 DEF ToldOK
    <3>2. call[c].resume # call[c].attempt
      BY <3>1, Typed DEF Locals
    <3> QED BY <1>5, <2>1, <2>2, <2>3, <3>1, <3>2 DEF ToldOK
  <2> QED BY <2>4, <2>5
<1>6. CASE call'[c].pc = "done"
  BY <1>6 DEF ToldOK
<1> QED BY <1>1, <1>2, <1>3, <1>4, <1>5, <1>6

LEMMA ToldAttempt ==
  ASSUME TypeOK, NEW c \in Calls, CallOK(c), ToldOK(c), Attempt(c)
  PROVE  ToldOK(c)'
<1>1. /\ call'[c] = [Fresh EXCEPT !.pc = "begin", !.attempt = call[c].attempt + 1,
                       !.resume = call[c].resume, !.spent = call[c].spent,
                       !.guard = call[c].guard]
      /\ cli'[c] = [NoProcess EXCEPT !.spared = cli[c].spared, !.told = cli[c].told]
      /\ call[c].pc \in {"idle", "backoff"}
  BY DEF Attempt, TypeOK, At
<1>2. /\ call'[c].pc = "begin" /\ call'[c].attempt = call[c].attempt + 1
      /\ call'[c].resume = call[c].resume /\ call'[c].session = 0
      /\ cli'[c].told = cli[c].told
  BY <1>1 DEF Fresh, NoProcess
<1>3. call[c].attempt \in Nat /\ call[c].resume \in Nat /\ call[c].resume <= call[c].attempt
  BY Typed DEF Locals, CallOK, SessionOK
<1> QED BY <1>1, <1>2, <1>3 DEF ToldOK

LEMMA ToldScan ==
  ASSUME TypeOK, NEW c \in Calls, CallOK(c), ToldOK(c), Scan(c)
  PROVE  ToldOK(c)'
<1>1. PICK line : line = Head(cli[c].pipe)
  OBVIOUS
<1>2. /\ c \notin Json /\ call[c].pc = "scan" /\ call[c].abort = "none"
      /\ cli'[c] = [cli[c] EXCEPT !.pipe = Tail(@)]
  BY OneLineRead DEF Scan, TypeOK
<1>3. /\ cli[c].pipe \in Seq(Lines) /\ cli[c].pipe # <<>> /\ cli'[c].told = cli[c].told
      /\ cli'[c].pipe = Tail(cli[c].pipe)
  BY <1>2, OneLineRead, Typed DEF Processes
<1>4. \A i \in 1..Len(cli[c].pipe) :
        i # 1 => i - 1 \in 1..Len(cli'[c].pipe) /\ cli'[c].pipe[i - 1] = cli[c].pipe[i]
  BY <1>3
<1>9. \A i \in 1..Len(cli'[c].pipe) :
        i + 1 \in 1..Len(cli[c].pipe) /\ cli'[c].pipe[i] = cli[c].pipe[i + 1]
  BY <1>3
<1>5. line = cli[c].pipe[1] /\ 1 \in 1..Len(cli[c].pipe)
  BY <1>1, <1>3
<1>6. call'[c] = IF line = "long" THEN Abort(c, "too_long")
                 ELSE IF line = "cost" /\ capSpent' > CapMax THEN Abort(c, "veto")
                 ELSE [call[c] EXCEPT
                   !.session = IF line = "session" THEN call[c].attempt ELSE @,
                   !.result = IF line \in Results THEN line ELSE @]
  BY <1>1, Zenon DEF Scan, Vetoed, TypeOK
<1>7. CASE \E why \in {"veto", "too_long"} : call'[c] = Abort(c, why)
  <2>1. /\ call'[c].pc = "wait" /\ call'[c].abort # "none"
        /\ call'[c].session = call[c].session
        /\ call'[c].resume = call[c].resume /\ call'[c].attempt = call[c].attempt
    BY <1>7, Typed DEF Locals, Abort
  <2>2. \A i \in 1..Len(cli'[c].pipe) : \E j \in 1..Len(cli[c].pipe) :
          cli'[c].pipe[i] = cli[c].pipe[j]
    BY <1>9
  <2> QED BY <1>2, <1>3, <2>1, <2>2 DEF ToldOK
<1>8. CASE call'[c] = [call[c] EXCEPT
             !.session = IF line = "session" THEN call[c].attempt ELSE @,
             !.result = IF line \in Results THEN line ELSE @] /\ line # "long"
  <2>1. /\ call'[c].pc = "scan"
        /\ call'[c].session = (IF line = "session" THEN call[c].attempt ELSE call[c].session)
        /\ call'[c].resume = call[c].resume /\ call'[c].attempt = call[c].attempt
    BY <1>2, <1>8, Typed DEF Locals
  <2>2. call[c].attempt \in Nat /\ call[c].resume \in Nat /\ call[c].resume < call[c].attempt
    BY <1>2, Typed DEF Locals, ToldOK
  <2>5. ASSUME NEW i \in 1..Len(cli'[c].pipe), cli'[c].pipe[i] = "session"
        PROVE  cli'[c].told = call'[c].attempt
    <3>1. cli[c].pipe[i + 1] = "session" /\ i + 1 \in 1..Len(cli[c].pipe)
      BY <1>9, <2>5
    <3> QED BY <1>2, <1>3, <2>1, <3>1 DEF ToldOK
  <2>3. CASE line = "session"
    <3>1. \E i \in 1..Len(cli[c].pipe) : cli[c].pipe[i] = "session"
      BY <1>3, <1>5, <2>3
    <3>2. cli[c].told = call[c].attempt
      BY <1>2, <3>1 DEF ToldOK
    <3> QED BY <1>2, <1>3, <2>1, <2>2, <2>3, <2>5, <3>2 DEF ToldOK
  <2>4. CASE line # "session"
    <3>1. ASSUME call'[c].session = 0, cli'[c].told = call'[c].attempt
          PROVE  \E i \in 1..Len(cli'[c].pipe) : cli'[c].pipe[i] = "session"
      <4>1. PICK i \in 1..Len(cli[c].pipe) : cli[c].pipe[i] = "session"
        BY <1>2, <1>3, <2>1, <2>4, <3>1 DEF ToldOK
      <4> QED BY <1>4, <1>5, <2>4, <4>1
    <3> QED BY <1>2, <1>3, <2>1, <2>2, <2>4, <2>5, <3>1 DEF ToldOK
  <2> QED BY <2>3, <2>4
<1> QED BY <1>6, <1>7, <1>8

LEMMA ToldWrite ==
  ASSUME TypeOK, NEW c \in Calls, CallOK(c), ToldOK(c), NEW line \in scene.says, Write(c, line)
  PROVE  ToldOK(c)'
<1> SUFFICES ASSUME c \notin Json PROVE ToldOK(c)'
  BY DEF ToldOK
<1>1. /\ call' = call /\ cli[c].proc = "up"
      /\ cli'[c] = [cli[c] EXCEPT !.wrote = Append(@, line),
                                  !.pipe = IF c \in Json THEN @ ELSE Append(@, line),
                                  !.told = IF line = "session" THEN call[c].attempt ELSE @]
  BY DEF Write, Working, Up, TypeOK
<1>2. /\ cli'[c].pipe = Append(cli[c].pipe, line)
      /\ cli'[c].told = IF line = "session" THEN call[c].attempt ELSE cli[c].told
      /\ cli[c].pipe \in Seq(Lines)
  BY <1>1, Typed DEF Processes
<1>3. /\ Len(cli[c].pipe) \in Nat /\ Len(cli'[c].pipe) = Len(cli[c].pipe) + 1
      /\ cli'[c].pipe[Len(cli[c].pipe) + 1] = line
      /\ \A i \in 1..Len(cli[c].pipe) : cli'[c].pipe[i] = cli[c].pipe[i]
  BY <1>2
<1>4. \A i \in 1..Len(cli'[c].pipe) : i = Len(cli[c].pipe) + 1 \/ i \in 1..Len(cli[c].pipe)
  BY <1>3
<1>5. \A i \in 1..Len(cli[c].pipe) : i \in 1..Len(cli'[c].pipe)
  BY <1>3
<1>6. Len(cli[c].pipe) + 1 \in 1..Len(cli'[c].pipe)
  BY <1>3
<1>7. call[c].pc \in {"scan", "wait"}
  BY <1>1, Typed DEF CallOK, ProcessOK, Locals
<1>8. call[c].pc = "wait" => call[c].abort # "none"
  BY <1>1 DEF CallOK, ResultOK
<1>9. /\ call[c].resume < call[c].attempt /\ cli[c].told \in {call[c].resume, call[c].attempt}
      /\ call[c].session # 0 => cli[c].told = call[c].attempt
      /\ \A i \in 1..Len(cli[c].pipe) : cli[c].pipe[i] = "session" => cli[c].told = call[c].attempt
      /\ call[c].pc = "scan" /\ cli[c].told = call[c].attempt /\ call[c].session = 0 =>
           \E i \in 1..Len(cli[c].pipe) : cli[c].pipe[i] = "session"
  BY <1>7 DEF ToldOK
<1>10. \A i \in 1..Len(cli'[c].pipe) : cli'[c].pipe[i] = "session" => cli'[c].told = call[c].attempt
  BY <1>2, <1>3, <1>4, <1>9
<1>11. call[c].pc = "scan" /\ cli'[c].told = call[c].attempt /\ call[c].session = 0 =>
         \E i \in 1..Len(cli'[c].pipe) : cli'[c].pipe[i] = "session"
  BY <1>2, <1>3, <1>5, <1>6, <1>9
<1> QED BY <1>1, <1>2, <1>7, <1>8, <1>9, <1>10, <1>11 DEF ToldOK

LEMMA ToldRetry ==
  ASSUME TypeOK, NEW c \in Calls, CallOK(c), ToldOK(c), Retry(c)
  PROVE  ToldOK(c)'
<1> SUFFICES ASSUME c \notin Json PROVE ToldOK(c)'
  BY DEF ToldOK
<1>1. /\ call[c].pc = "ended" /\ Retryable(c) /\ cli' = cli
      /\ call'[c] = [Counted(c) EXCEPT !.pc = "backoff", !.context = "live",
                                       !.resume = SessionToResume(c)]
  BY DEF Retry, At, TypeOK
<1>2. call'[c].pc = "backoff" /\ call'[c].resume = SessionToResume(c)
  BY <1>1, Typed DEF Locals, Counted
<1>3. SessionToResume(c) = IF call[c].session # 0 THEN call[c].session ELSE call[c].resume
  BY DEF SessionToResume
<1>4. call[c].session \in {0, call[c].attempt}
  BY DEF CallOK, SessionOK
<1>5. /\ cli[c].told \in {call[c].resume, call[c].attempt}
      /\ call[c].session # 0 => cli[c].told = call[c].attempt
      /\ cli[c].told = call[c].attempt => call[c].session # 0
  BY <1>1 DEF ToldOK
<1>6. SessionToResume(c) = cli[c].told
  BY <1>3, <1>4, <1>5
<1> QED BY <1>1, <1>2, <1>6 DEF ToldOK

LEMMA ToldProcess ==
  ASSUME TypeOK, NEW c \in Calls, ToldOK(c),
         \/ FarStarts(c) \/ LinkLost(c) \/ LocalDies(c) \/ Terminate(c)
         \/ \E code \in {"exit0", "exit1"} : Exit(c, code)
         \/ \E context \in {"timeout", "cancelled"} : ContextEnds(c, context)
  PROVE  ToldOK(c)'
<1>1. /\ call'[c].pc = call[c].pc /\ call'[c].outcome = call[c].outcome /\ SameSession(c)
  <2>1. CASE call' = call
    BY <2>1 DEF SameSession
  <2>2. CASE Terminate(c)
    BY <2>2, Typed DEF Terminate, SameSession, TypeOK, Locals
  <2>3. ASSUME NEW context, ContextEnds(c, context)
        PROVE  /\ call'[c].pc = call[c].pc /\ call'[c].outcome = call[c].outcome
               /\ SameSession(c)
    BY <2>3, Typed DEF ContextEnds, Kill, SameSession, TypeOK, Locals
  <2> QED BY <2>1, <2>2, <2>3 DEF FarStarts, LinkLost, LocalDies, Exit
<1>2. cli'[c].told = cli[c].told /\ cli'[c].pipe = cli[c].pipe
  <2>1. cli[c] \in Processes
    BY Typed
  <2> QED BY <2>1 DEF FarStarts, LinkLost, LocalDies, Exit, Terminate, ContextEnds, TypeOK, Processes
<1> QED BY <1>1, <1>2, SameTold

LEMMA ToldCaller ==
  ASSUME TypeOK, NEW c \in Calls, CallOK(c), ToldOK(c), Caller(c)
  PROVE  ToldOK(c)'
<1>1. CASE Attempt(c)
  BY <1>1, ToldAttempt
<1>2. CASE Preflight(c)
  <2>1. call' = call /\ cli' = cli
    BY <1>2 DEF Preflight
  <2> QED BY <2>1, SameTold DEF SameSession
<1>3. CASE PreflightFailed(c) \/ Refuse(c) \/ StartFails(c)
  <2>1. PICK o \in {"preflight", "refused", "not_found"} :
          call' = [call EXCEPT ![c].pc = "ended", ![c].outcome = o]
    BY <1>3 DEF PreflightFailed, Refuse, StartFails, EndWith
  <2>2. call'[c].pc = "ended" /\ call'[c].outcome = o /\ SameAttempt(c)
    BY <2>1, Ends
  <2>3. call[c].pc = "begin" /\ cli' = cli
    BY <1>3 DEF PreflightFailed, Refuse, StartFails, At
  <2>4. cli[c].pipe = <<>>
    BY <2>3 DEF CallOK, ProcessOK
  <2> QED BY <2>2, <2>3, <2>4, SameTold DEF SameSession, SameAttempt
<1>4. CASE Start(c)
  <2>1. PICK where \in {"scan", "wait"} : call' = [call EXCEPT ![c].pc = where]
    BY <1>4 DEF Start
  <2>2. call'[c].pc = where /\ SameAttempt(c)
    BY <2>1, Moves
  <2>3. call[c].pc = "begin" /\ cli'[c].told = cli[c].told /\ cli'[c].pipe = cli[c].pipe
    BY <1>4, Typed DEF Start, At, TypeOK, Processes
  <2>4. cli[c].pipe = <<>>
    BY <2>3 DEF CallOK, ProcessOK
  <2> QED BY <2>2, <2>3, <2>4, SameTold DEF SameSession, SameAttempt
<1>5. CASE Scan(c)
  BY <1>5, ToldScan
<1>6. CASE ScanEnds(c)
  <2>1. call'[c].pc = "wait" /\ SameAttempt(c)
    BY <1>6, Moves DEF ScanEnds
  <2>2. call[c].pc = "scan" /\ cli' = cli /\ cli[c].pipe = <<>>
    BY <1>6 DEF ScanEnds, At
  <2> QED BY <2>1, <2>2, SameTold DEF SameSession, SameAttempt
<1>7. CASE Wait(c)
  <2>1. PICK r : call'[c] = [call[c] EXCEPT !.pc = "finish", !.result = r]
    BY <1>7 DEF Wait, TypeOK
  <2>2. /\ call'[c].pc = "finish" /\ SameSession(c)
    BY <2>1, Typed DEF Locals, SameSession
  <2>3. call[c].pc = "wait" /\ cli' = cli
    BY <1>7 DEF Wait, At
  <2> QED BY <2>2, <2>3, SameTold
<1>8. CASE Finish(c)
  <2>1. call'[c].pc = "ended" /\ call'[c].outcome = OutcomeOf(c) /\ SameAttempt(c)
    BY <1>8, Ends DEF Finish, EndWith
  <2>2. call[c].pc = "finish" /\ cli' = cli
    BY <1>8 DEF Finish, At
  <2>3. call[c].abort # "none" => OutcomeOf(c) \in {"veto", "too_long"}
    BY Typed DEF OutcomeOf, Locals
  <2> QED BY <2>1, <2>2, <2>3, SameTold DEF SameSession, SameAttempt
<1>9. CASE Retry(c)
  BY <1>9, ToldRetry
<1>10. CASE GiveUp(c) \/ BackoffCancelled(c)
  <2>1. call'[c].pc = "done"
    BY <1>10, GiveUpOK
  <2> QED BY <2>1 DEF ToldOK
<1> QED BY <1>1, <1>2, <1>3, <1>4, <1>5, <1>6, <1>7, <1>8, <1>9, <1>10 DEF Caller

LEMMA NextToldsOK ==
  ASSUME TypeOK, CallsOK, ToldsOK, Next
  PROVE  ToldsOK'
<1>1. PICK c \in Calls :
        \/ Caller(c) \/ Teardown(c) \/ CLI(c)
        \/ \E context \in {"timeout", "cancelled"} : ContextEnds(c, context)
  BY DEF Next
<1>2. CallOK(c) /\ ToldOK(c)
  BY DEF CallsOK, ToldsOK
<1>3. ToldOK(c)'
  BY <1>1, <1>2, ToldCaller, ToldProcess, ToldWrite DEF Teardown, CLI
<1>4. ASSUME NEW d \in Calls \ {c}
      PROVE  ToldOK(d)'
  <2>1. call'[d] = call[d] /\ cli'[d] = cli[d]
    BY <1>1, <1>2, OneStep DEF Others
  <2>2. ToldOK(d)
    BY DEF ToldsOK
  <2> QED BY <2>1, <2>2, SameTold DEF SameSession
<1> SUFFICES ASSUME NEW d \in Calls PROVE ToldOK(d)'
  BY DEF ToldsOK
<1> QED BY <1>3, <1>4

(***************************************************************************)
(* Every step keeps the bound on what is spent                             *)
(***************************************************************************)
\* Whether one call may still spend.
Spends(c) ==
  \/ call[c].pc = "scan" /\ call[c].result = "none"
  \/ c \in Json /\ call[c].pc \in {"wait", "finish"}

LEMMA SpendersFinite ==
  ASSUME TypeOK
  PROVE  /\ IsFiniteSet(scene.calls) /\ Cardinality(scene.calls) \in Nat
         /\ IsFiniteSet(Spenders) /\ Cardinality(Spenders) \in Nat
         /\ Cardinality(Spenders) <= Cardinality(scene.calls)
<1>1. IsFiniteSet(scene.calls)
  BY CallAssumption DEF TypeOK
<1>2. Spenders \subseteq scene.calls
  BY DEF Spenders
<1> QED BY <1>1, <1>2, FS_Subset, FS_CardinalityType

\* Only the call of the step starts or stops being a spender.
LEMMA OneSpender ==
  ASSUME TypeOK, NEW c \in Calls, Others(c), scene' = scene,
         Spends(c)' => Spends(c)
  PROVE  Spenders' \subseteq Spenders /\ (~Spends(c)' => Spenders' \subseteq Spenders \ {c})
<1>1. scene.calls \subseteq Calls
  BY CallAssumption DEF TypeOK
<1>2. ASSUME NEW d \in Spenders'
      PROVE  d \in Spenders /\ (d = c => Spends(c)')
  <2>1. d \in scene.calls /\ Spends(d)'
    BY <1>2 DEF Spenders, Spends
  <2>2. Spends(d)
    <3>1. CASE d = c
      BY <2>1, <3>1
    <3>2. CASE d # c
      <4>1. call'[d] = call[d]
        BY <1>1, <2>1, <3>2 DEF Others
      <4> QED BY <2>1, <4>1 DEF Spends
    <3> QED BY <3>1, <3>2
  <2> QED BY <2>1, <2>2 DEF Spenders, Spends
<1> QED BY <1>2

\* The last spending of a spender.
LEMMA SpentOnce ==
  ASSUME TypeOK, CapOK, TypeOK', scene' = scene, NEW c \in Spenders,
         Spenders' \subseteq Spenders \ {c}, capSpent' <= capSpent + 1
  PROVE  CapOK'
<1> DEFINE n == Cardinality(scene.calls)
           s == Cardinality(Spenders)
           t == Cardinality(Spenders')
<1>1. s \in Nat /\ n \in Nat /\ s <= n /\ IsFiniteSet(Spenders) /\ IsFiniteSet(Spenders \ {c})
  BY SpendersFinite, FS_RemoveElement
<1>2. Cardinality(Spenders \ {c}) = s - 1
  BY <1>1, FS_RemoveElement
<1>3. t <= s - 1
  BY <1>1, <1>2, FS_Subset
<1>4. t \in Nat
  BY <1>1, FS_Subset, FS_CardinalityType
<1>5. capSpent \in Nat /\ capSpent' \in Nat /\ CapMax \in Nat
  BY CallAssumption DEF TypeOK
<1>6. capSpent <= CapMax \/ capSpent + s <= CapMax + n
  BY DEF CapOK
<1> HIDE DEF n, s, t
<1>7. capSpent' <= CapMax \/ capSpent' + t <= CapMax + n
  <2>1. PICK a, b : a = capSpent /\ b = capSpent'
    OBVIOUS
  <2>2. /\ a \in Nat /\ b \in Nat /\ b <= a + 1 /\ s \in Nat /\ n \in Nat /\ t \in Nat
        /\ CapMax \in Nat /\ s <= n /\ t <= s - 1
    BY <1>1, <1>3, <1>4, <1>5, <2>1
  <2>3. a <= CapMax \/ a + s <= CapMax + n
    BY <1>6, <2>1
  <2>4. b + t <= CapMax + n
    BY <2>2, <2>3
  <2> QED BY <2>1, <2>4
<1> QED BY <1>7 DEF CapOK, n, t

LEMMA NothingSpent ==
  ASSUME TypeOK, CapOK, TypeOK', scene' = scene,
         Spenders' \subseteq Spenders, capSpent' = capSpent
  PROVE  CapOK'
<1> DEFINE n == Cardinality(scene.calls)
           s == Cardinality(Spenders)
           t == Cardinality(Spenders')
<1>1. s \in Nat /\ n \in Nat /\ IsFiniteSet(Spenders)
  BY SpendersFinite
<1>2. t <= s /\ t \in Nat
  BY <1>1, FS_Subset, FS_CardinalityType
<1>3. capSpent \in Nat /\ CapMax \in Nat /\ (capSpent <= CapMax \/ capSpent + s <= CapMax + n)
  BY CallAssumption DEF TypeOK, CapOK
<1> HIDE DEF n, s, t
<1>4. capSpent <= CapMax \/ capSpent + t <= CapMax + n
  BY <1>1, <1>2, <1>3
<1> QED BY <1>4 DEF CapOK, n, t

\* A stream that has its result has read all there is.
LEMMA NoResultBeforeTheEnd ==
  ASSUME TypeOK, NEW c \in Calls, CallOK(c), Scan(c)
  PROVE  call[c].result = "none"
<1> SUFFICES ASSUME call[c].result # "none" PROVE FALSE
  OBVIOUS
<1>1. PICK r : r = ReadLines(c)
  OBVIOUS
<1>2. PICK w : w = Len(cli[c].wrote)
  OBVIOUS
<1>3. /\ c \notin Json /\ r \in Nat /\ r + 1 \in 1..w /\ w \in Nat
      /\ call[c].result \in Results
  BY <1>1, <1>2, OneLineRead, Typed DEF Locals
<1>4. PICK i \in 1..w : cli[c].wrote[i] = call[c].result /\ i <= r
  BY <1>1, <1>2, <1>3 DEF CallOK, ResultOK
<1>5. i \in 1..(w - 1)
  BY <1>3, <1>4
<1>6. cli[c].wrote[i] \notin Results
  BY <1>2, <1>5 DEF CallOK, PipeOK
<1> QED BY <1>3, <1>4, <1>6

LEMMA ScanCapOK ==
  ASSUME TypeOK, CapOK, TypeOK', NEW c \in Calls, CallOK(c), Scan(c)
  PROVE  CapOK'
<1>1. PICK line : line = Head(cli[c].pipe)
  OBVIOUS
<1>2. /\ call[c].pc = "scan" /\ c \notin Json /\ scene' = scene /\ Others(c)
      /\ line \in Lines /\ call[c].result = "none" /\ c \in scene.calls
  BY <1>1, OneLineRead, NoResultBeforeTheEnd DEF Others, Scan, At
<1>3. c \in Spenders /\ Spends(c)
  BY <1>2 DEF Spenders, Spends
<1>4. Spenders' \subseteq Spenders /\ (~Spends(c)' => Spenders' \subseteq Spenders \ {c})
  BY <1>2, <1>3, OneSpender
<1>5. capSpent' = capSpent + (IF line \in Costly THEN 1 ELSE 0)
  BY <1>1 DEF Scan
<1>6. call'[c] = IF line = "long" THEN Abort(c, "too_long")
                 ELSE IF line = "cost" /\ capSpent' > CapMax THEN Abort(c, "veto")
                 ELSE [call[c] EXCEPT
                   !.session = IF line = "session" THEN call[c].attempt ELSE @,
                   !.result = IF line \in Results THEN line ELSE @]
  <2>1. call' = [call EXCEPT ![c] =
          IF line = "long" THEN Abort(c, "too_long")
          ELSE IF line = "cost" /\ capSpent' > CapMax THEN Abort(c, "veto")
          ELSE [call[c] EXCEPT
            !.session = IF line = "session" THEN call[c].attempt ELSE @,
            !.result = IF line \in Results THEN line ELSE @]]
    BY <1>1 DEF Scan, Vetoed
  <2> QED BY <2>1, Zenon DEF TypeOK
<1>7. CASE line \notin Costly
  <2>1. capSpent' = capSpent
    BY <1>5, <1>7 DEF TypeOK
  <2> QED BY <1>2, <1>4, <2>1, NothingSpent
<1>8. CASE line \in Costly /\ capSpent' > CapMax
  <2>1. ~Spends(c)'
    <3>1. CASE line = "cost"
      <4>1. call'[c] = Abort(c, "veto")
        BY <1>6, <1>8, <3>1
      <4>2. call'[c].pc = "wait"
        BY <4>1, Typed DEF Abort, Locals
      <4> QED BY <1>2, <4>2 DEF Spends
    <3>2. CASE line \in Results
      <4>1. call'[c] = [call[c] EXCEPT
              !.session = IF line = "session" THEN call[c].attempt ELSE @, !.result = line]
        BY <1>6, <3>2 DEF Results
      <4>2. call'[c].result = line /\ call'[c].pc = "scan"
        BY <1>2, <4>1, Typed DEF Locals
      <4> QED BY <1>2, <3>2, <4>2 DEF Spends, Results
    <3> QED BY <1>8, <3>1, <3>2 DEF Costly, Results
  <2>2. capSpent' <= capSpent + 1
    BY <1>5 DEF TypeOK
  <2> QED BY <1>2, <1>3, <1>4, <2>1, <2>2, SpentOnce
<1>9. CASE line \in Costly /\ ~(capSpent' > CapMax)
  <2>1. capSpent' \in Nat /\ CapMax \in Nat
    BY CallAssumption DEF TypeOK
  <2> QED BY <1>9, <2>1 DEF CapOK
<1> QED BY <1>7, <1>8, <1>9

LEMMA FinishCapOK ==
  ASSUME TypeOK, CapOK, TypeOK', NEW c \in Calls, CallOK(c), Finish(c)
  PROVE  CapOK'
<1>1. /\ call[c].pc = "finish" /\ scene' = scene /\ Others(c) /\ c \in scene.calls
  BY FinishOK DEF Finish, At
<1>2. call'[c].pc = "ended"
  <2> DEFINE o == OutcomeOf(c)
  <2>1. call' = [call EXCEPT ![c].pc = "ended", ![c].outcome = o]
    BY DEF Finish, EndWith
  <2> HIDE DEF o
  <2> QED BY <2>1, Ends
<1>3. ~Spends(c)'
  BY <1>2 DEF Spends
<1>4. Spenders' \subseteq Spenders \ {c}
  BY <1>1, <1>3, OneSpender
<1>5. CASE c \in Json
  <2>1. c \in Spenders
    BY <1>1, <1>5 DEF Spenders
  <2>2. capSpent' <= capSpent + 1
    BY DEF Finish, TypeOK
  <2> QED BY <1>1, <1>4, <2>1, <2>2, SpentOnce
<1>6. CASE c \notin Json
  <2>1. capSpent' = capSpent
    BY <1>6 DEF Finish, TypeOK
  <2> QED BY <1>1, <1>4, <2>1, NothingSpent
<1> QED BY <1>5, <1>6

LEMMA NextCapOK ==
  ASSUME TypeOK, CallsOK, CapOK, TypeOK', Next
  PROVE  CapOK'
<1>1. PICK c \in Calls :
        \/ Caller(c) \/ Teardown(c) \/ CLI(c)
        \/ \E context \in {"timeout", "cancelled"} : ContextEnds(c, context)
  BY DEF Next
<1>2. CallOK(c) /\ scene' = scene
  BY StepOK DEF CallsOK
<1>3. ASSUME Others(c), Spends(c)' => Spends(c), capSpent' = capSpent
      PROVE  CapOK'
  BY <1>2, <1>3, OneSpender, NothingSpent
<1>4. ASSUME call' = call, cli' = cli \/ \A d \in Calls \ {c} : cli'[d] = cli[d],
             capSpent' = capSpent
      PROVE  CapOK'
  BY <1>3, <1>4 DEF Others, Spends
<1>5. CASE Start(c)
  <2>1. capSpent' = capSpent /\ capSpent < CapMax
    BY <1>5 DEF Start, WithinCap
  <2>2. capSpent \in Nat /\ CapMax \in Nat
    BY CallAssumption DEF TypeOK
  <2> QED BY <2>1, <2>2 DEF CapOK
<1>6. CASE Scan(c)
  BY <1>2, <1>6, ScanCapOK
<1>7. CASE Finish(c)
  BY <1>2, <1>7, FinishCapOK
<1>8. CASE Attempt(c)
  <2>1. Others(c)
    BY <1>2, <1>8, AttemptOK
  <2>2. call'[c].pc = "begin"
    BY <1>8 DEF Attempt, TypeOK, Fresh
  <2> QED BY <1>3, <1>8, <2>1, <2>2 DEF Attempt, Spends
<1>9. CASE PreflightFailed(c) \/ Refuse(c) \/ StartFails(c)
  <2>1. PICK o : call' = [call EXCEPT ![c].pc = "ended", ![c].outcome = o]
    BY <1>9 DEF PreflightFailed, Refuse, StartFails, EndWith
  <2>2. call'[c].pc = "ended"
    BY <2>1, Ends
  <2>3. Others(c) /\ capSpent' = capSpent
    BY <1>2, <1>9, NotStartedOK DEF PreflightFailed, Refuse, StartFails
  <2> QED BY <1>3, <2>2, <2>3 DEF Spends
<1>10. CASE Preflight(c)
  BY <1>4, <1>10 DEF Preflight
<1>11. CASE ScanEnds(c)
  <2>1. c \notin Json /\ Others(c)
    BY <1>2, <1>11, ScanEndsOK DEF ScanEnds, At, CallOK, ResultOK
  <2>2. call'[c].pc = "wait" /\ capSpent' = capSpent
    BY <1>11, Moves DEF ScanEnds
  <2> QED BY <1>3, <2>1, <2>2 DEF Spends
<1>12. CASE Wait(c)
  <2>1. Others(c) /\ capSpent' = capSpent /\ call[c].pc = "wait"
    BY <1>2, <1>12, WaitOK DEF Wait, At
  <2>2. call'[c].pc = "finish"
    <3>1. PICK r : call'[c] = [call[c] EXCEPT !.pc = "finish", !.result = r]
      BY <1>12 DEF Wait, TypeOK
    <3> QED BY <3>1, Typed DEF Locals
  <2> QED BY <1>3, <2>1, <2>2 DEF Spends
<1>13. CASE Retry(c)
  <2>1. Others(c) /\ capSpent' = capSpent
    BY <1>2, <1>13, RetryOK DEF Retry
  <2>2. call'[c].pc = "backoff"
    <3>1. PICK k \in Locals : k = Counted(c)
      BY CountedTyped
    <3>2. call'[c] = [k EXCEPT !.pc = "backoff", !.context = "live", !.resume = SessionToResume(c)]
      BY <1>13, <3>1 DEF Retry, TypeOK
    <3> QED BY <3>2 DEF Locals
  <2> QED BY <1>3, <2>1, <2>2 DEF Spends
<1>14. CASE GiveUp(c) \/ BackoffCancelled(c)
  <2>1. Others(c) /\ capSpent' = capSpent
    BY <1>2, <1>14, GiveUpOK DEF GiveUp, BackoffCancelled
  <2>2. call'[c].pc = "done"
    BY <1>2, <1>14, GiveUpOK
  <2> QED BY <1>3, <2>1, <2>2 DEF Spends
<1>15. CASE Terminate(c)
  <2>1. Others(c) /\ capSpent' = capSpent
    BY <1>2, <1>15, TerminateOK DEF Terminate
  <2>2. call'[c].pc = call[c].pc /\ call'[c].result = call[c].result
    BY <1>15, Typed DEF Terminate, TypeOK, Locals
  <2> QED BY <1>3, <2>1, <2>2 DEF Spends
<1>16. ASSUME NEW context \in {"timeout", "cancelled"}, ContextEnds(c, context)
       PROVE  CapOK'
  <2>1. Others(c) /\ capSpent' = capSpent
    BY <1>2, <1>16, ContextEndsOK DEF ContextEnds
  <2>2. call'[c].pc = call[c].pc /\ call'[c].result = call[c].result
    <3>1. PICK r : call'[c] = [call[c] EXCEPT !.context = context, !.kill = TRUE, !.remoteKill = r]
      BY <1>16 DEF ContextEnds, Kill, TypeOK
    <3> QED BY <3>1, Typed DEF Locals
  <2> QED BY <1>3, <2>1, <2>2 DEF Spends
<1>17. CASE LocalDies(c) \/ CLI(c)
  <2>1. call' = call /\ capSpent' = capSpent /\ \A d \in Calls \ {c} : cli'[d] = cli[d]
    BY <1>17 DEF LocalDies, CLI, FarStarts, LinkLost, Write, Exit, TypeOK
  <2> QED BY <1>4, <2>1
<1> QED BY <1>1, <1>5, <1>6, <1>7, <1>8, <1>9, <1>10, <1>11, <1>12, <1>13, <1>14, <1>15,
           <1>16, <1>17 DEF Caller, Teardown

(***************************************************************************)
(* What follows from the invariant                                         *)
(***************************************************************************)
LEMMA InitIInv ==
  Init => IInv
<1> SUFFICES ASSUME Init PROVE IInv
  OBVIOUS
<1>1. /\ scene \in Scenes /\ call = [c \in Calls |-> Fresh]
      /\ cli = [c \in Calls |-> NoProcess] /\ preflight = "not_run" /\ capSpent = 0
  BY DEF Init
<1>2. Fresh \in Locals
  <2>1. 0 \in 0..scene.attempts
    BY <1>1, CallAssumption
  <2> QED BY <2>1 DEF Fresh, Locals, Contexts, Outcomes
<1>3. <<>> \in Seq(Lines) /\ Len(<<>>) <= PipeCap
  BY CallAssumption
<1>4. NoProcess \in Processes
  BY <1>3 DEF NoProcess, Processes
<1>5. TypeOK
  BY <1>1, <1>2, <1>3, <1>4 DEF TypeOK, NoProcess
<1>6. ASSUME NEW c \in Calls PROVE CallOK(c)
  <2>1. call[c] = Fresh /\ cli[c] = NoProcess
    BY <1>1
  <2>2. ProcessOK(c) /\ FarSideOK(c) /\ OutcomeOK(c) /\ SessionOK(c)
    BY <2>1 DEF ProcessOK, FarSideOK, OutcomeOK, SessionOK, Fresh, NoProcess
  <2>3. PipeOK(c) /\ ResultOK(c)
    BY <2>1 DEF PipeOK, ResultOK, ReadLines, Fresh, NoProcess
  <2> QED BY <2>2, <2>3 DEF CallOK
<1>7. CapOK
  BY <1>1, CallAssumption DEF CapOK
<1>8. ToldsOK
  BY <1>1 DEF ToldsOK, ToldOK, Fresh, NoProcess
<1> QED BY <1>5, <1>6, <1>7, <1>8 DEF IInv, CallsOK

LEMMA Inductive ==
  IInv /\ [Next]_vars => IInv'
<1> SUFFICES ASSUME IInv, [Next]_vars PROVE IInv'
  OBVIOUS
<1>1. TypeOK /\ CallsOK /\ ToldsOK /\ CapOK
  BY DEF IInv
<1>2. CASE Next
  <2>1. TypeOK'
    BY <1>1, <1>2, NextTypeOK
  <2>2. CallsOK'
    BY <1>1, <1>2, StepOK
  <2>3. CapOK'
    BY <1>1, <1>2, <2>1, NextCapOK
  <2>4. ToldsOK'
    BY <1>1, <1>2, NextToldsOK
  <2> QED BY <2>1, <2>2, <2>3, <2>4 DEF IInv
<1>3. CASE UNCHANGED vars
  <2>1. scene' = scene /\ call' = call /\ cli' = cli /\ preflight' = preflight
        /\ capSpent' = capSpent
    BY <1>3 DEF vars
  <2>2. TypeOK'
    BY <1>1, <2>1 DEF TypeOK, Locals, Processes
  <2>3. CallsOK'
    <3> SUFFICES ASSUME NEW c \in Calls PROVE CallOK(c)'
      BY DEF CallsOK
    <3> QED BY <1>1, <2>1, UntouchedOK DEF CallsOK
  <2>4. CapOK'
    BY <1>1, <2>1, <2>2, NothingSpent DEF Spenders
  <2>5. ToldsOK'
    BY <1>1, <2>1, SameTold DEF ToldsOK, SameSession
  <2> QED BY <2>2, <2>3, <2>4, <2>5 DEF IInv
<1> QED BY <1>2, <1>3

LEMMA InvariantHolds == Spec => []IInv
<1> QED BY InitIInv, Inductive, PTL DEF Spec

\* When an attempt is over its process and the agent on the far side are gone,
\* or it is known why not, and what it is reported as is what it was: a success
\* has a result and a clean exit, a truncated stream none (RunStream, teardown,
\* finish and kill in runner/runner.go).
THEOREM AttemptsAreSoundAlways == Spec => []AttemptsAreSound
<1>1. IInv => AttemptsAreSound
  <2> SUFFICES ASSUME IInv PROVE AttemptsAreSound
    OBVIOUS
  <2>1. TypeOK /\ \A c \in Calls : CallOK(c)
    BY DEF IInv, CallsOK
  <2>2. scene.calls \subseteq Calls
    BY <2>1, CallAssumption DEF TypeOK
  <2>3. NothingOutlivesTheAttempt
    <3> SUFFICES ASSUME NEW c \in scene.calls, call[c].pc \in {"ended", "backoff", "done"}
                 PROVE  ~Up(c) /\ (cli[c].far \in {"starting", "up"} => cli[c].spared)
      BY DEF NothingOutlivesTheAttempt
    <3> QED BY <2>1, <2>2 DEF CallOK, ProcessOK, FarSideOK, Up
  <2>4. OutcomeIsTrue
    <3> SUFFICES ASSUME NEW c \in scene.calls, call[c].pc = "ended"
                 PROVE  /\ call[c].outcome = "ok" =>
                             cli[c].proc = "exit0" /\ Contains(cli[c].wrote, "result")
                        /\ call[c].outcome = "truncated" =>
                             \A i \in DOMAIN cli[c].wrote : cli[c].wrote[i] \notin Results
                        /\ call[c].outcome \in {"timeout", "cancelled"} =>
                             call[c].context # "live"
      BY DEF OutcomeIsTrue, At
    <3>1. cli[c].wrote \in Seq(Lines)
      BY <2>1, <2>2, Typed DEF Processes
    <3>2. DOMAIN cli[c].wrote = 1..Len(cli[c].wrote)
      BY <3>1
    <3>3. CallOK(c)
      BY <2>1, <2>2
    <3> QED BY <3>2, <3>3 DEF CallOK, OutcomeOK, Contains
  <2> QED BY <2>1, <2>3, <2>4 DEF AttemptsAreSound
<1> QED BY <1>1, InvariantHolds, PTL

\* The cap is passed by one event at most for each run that was under way when
\* it was reached, whatever number of them spend at once (SpendCap in
\* runner/plugin.go).
THEOREM CapIsPassedByOneEventPerRunAlways == Spec => []CapIsPassedByOneEventPerRun
<1>1. IInv => CapIsPassedByOneEventPerRun
  <2> SUFFICES ASSUME IInv PROVE CapIsPassedByOneEventPerRun
    OBVIOUS
  <2>1. TypeOK /\ CapOK
    BY DEF IInv
  <2>2. /\ Cardinality(scene.calls) \in Nat /\ Cardinality(Spenders) \in Nat
        /\ capSpent \in Nat /\ CapMax \in Nat
    BY <2>1, SpendersFinite, CallAssumption DEF TypeOK
  <2> QED BY <2>1, <2>2 DEF CapOK, CapIsPassedByOneEventPerRun
<1> QED BY <1>1, InvariantHolds, PTL

\* A retry continues the session the CLI reported last, in whichever attempt that
\* was and however it ended (SessionIDOf and withRetry in runner/retry.go).
THEOREM RetryResumesLatestSessionAlways == Spec => []RetryResumesLatestSession
<1>1. IInv => RetryResumesLatestSession
  <2> SUFFICES ASSUME IInv, NEW c \in scene.calls \ Json,
                      At(c, "backoff") \/ At(c, "begin")
               PROVE  call[c].resume = cli[c].told
    BY DEF RetryResumesLatestSession
  <2>1. c \in Calls
    BY CallAssumption DEF IInv, TypeOK
  <2>2. ToldOK(c)
    BY <2>1 DEF IInv, ToldsOK
  <2> QED BY <2>2 DEF ToldOK, At
<1> QED BY <1>1, InvariantHolds, PTL
=============================================================================
