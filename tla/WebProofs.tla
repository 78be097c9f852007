------------------------------ MODULE WebProofs ------------------------------
(***************************************************************************)
(* Proofs about Web, for any runs, browsers, node sets and presses: every  *)
(* question somebody waits for can be answered and is shown, a browser     *)
(* gets every event once and in order, a run that stops goes on exactly if *)
(* it was told to since, and a run's durable log would be shown as the run *)
(* was shown live, as far as a log can tell.                               *)
(***************************************************************************)
EXTENDS Web, FiniteSetTheorems, SequenceTheorems, WellFoundedInduction, TLAPS

(***************************************************************************)
(* The inductive invariant                                                 *)
(***************************************************************************)
\* A sequence of whatever.
ASequence(s) == Len(s) \in Nat /\ s = [i \in 1..Len(s) |-> s[i]]

\* The journal is a finite set of entries, a sequence for each run.
JournalOK ==
  /\ events = [r \in Runs |-> events[r]]
  /\ \A r \in Runs : ASequence(events[r])
  /\ IsFiniteSet(Entries)

\* A run inside a node has taken a step that Resume can take back.
InNode == {"node", "askshow", "askwait", "askend", "mark", "show", "paused", "reshow", "wait"}

StepsOK == \A r \in Runs :
  /\ pc[r] \in InNode => step[r] >= 1
  /\ pc[r] = "mark" => r \in Observed

\* A stream stands where its browser does, and never past the journal.
ReaderOK(c) ==
  /\ got[c] = [i \in 1..Len(got[c]) |-> i] /\ Len(got[c]) <= JournalLen
  /\ conn[c] # "off" => after[c] = Len(got[c])
  /\ conn[c] = "write" => after[c] + batch[c] <= JournalLen

ReadersOK == \A c \in Readers : ReaderOK(c)

Base == TypeOK /\ JournalOK /\ StepsOK /\ ReadersOK

\* The last the journal says of a run's questions is that one is asked.
Shown(r) ==
  \E i \in 1..Len(events[r]) :
     /\ events[r][i].type = "interrupt"
     /\ \A j \in (i + 1)..Len(events[r]) : events[r][j].type \notin {"interrupt", "resume"}

ShownOK == \A r \in scene.runs :
  \/ pc[r] \in {"askwait", "wait"}
  \/ pc[r] = "paused" /\ r \in Observed
  => Shown(r)

\* open, queued and wedged count the askers that are there and those that are gone.
Due == open + queued + (IF wedged THEN 1 ELSE 0)
Counted == Due = Cardinality(Askers) + orphans

\* A run alone on its server and without observer leaves a question only as it ends.
AloneOK == \A r \in Runs :
  scene.runs = {r} /\ r \notin Observed => orphans = 0 \/ pc[r] \in {"finish", "over"}

Questions == ShownOK /\ Counted /\ AloneOK

\* The runs of a server are observed by it, or there is one: of several without
\* observer ensureOpen surfaces one question only.
Surfaced(s) == s.runs \subseteq Observed \/ \E r \in Runs : s.runs = {r}

(***************************************************************************)
(* The journal grows                                                       *)
(***************************************************************************)
LEMMA Appended ==
  ASSUME NEW s, ASequence(s), NEW e
  PROVE  /\ ASequence(Append(s, e)) /\ Len(Append(s, e)) = Len(s) + 1
         /\ \A i \in 1..Len(s) : Append(s, e)[i] = s[i]
         /\ Append(s, e)[Len(s) + 1] = e
         /\ DOMAIN s = 1..Len(s) /\ DOMAIN Append(s, e) = 1..(Len(s) + 1)
<1> DEFINE S == {s[i] : i \in 1..Len(s)} \cup {e}
<1>1. Len(s) \in Nat /\ s \in [1..Len(s) -> S]
  BY DEF ASequence
<1>2. s \in Seq(S)
  BY <1>1, SeqDef
<1>3. e \in S
  OBVIOUS
<1> HIDE DEF S
<1>4. /\ Append(s, e) \in Seq(S) /\ Len(Append(s, e)) = Len(s) + 1
      /\ \A i \in 1..Len(s) : Append(s, e)[i] = s[i]
      /\ Append(s, e)[Len(s) + 1] = e
      /\ DOMAIN s = 1..Len(s) /\ DOMAIN Append(s, e) = 1..(Len(s) + 1)
  BY <1>2, <1>3
<1>5. PICK t : t = Append(s, e)
  OBVIOUS
<1>6. t \in Seq(S) /\ Len(t) = Len(s) + 1
  BY <1>4, <1>5
<1>7. t = [i \in 1..Len(t) |-> t[i]]
  BY <1>6
<1> QED BY <1>1, <1>4, <1>5, <1>7 DEF ASequence

\* An untouched journal is as good as it was, and as long.
LEMMA JournalStays ==
  ASSUME JournalOK, events' = events
  PROVE  JournalOK' /\ JournalLen \in Nat /\ JournalLen' = JournalLen
<1>1. Entries' = Entries
  BY DEF Entries
<1>2. JournalLen \in Nat /\ JournalLen' = JournalLen
  BY <1>1, FS_CardinalityType DEF JournalOK, JournalLen
<1> QED BY <1>1, <1>2 DEF JournalOK

\* What an emit does to the journal.
LEMMA Emitted ==
  ASSUME JournalOK, NEW r \in Runs, NEW ev, Emit(r, ev)
  PROVE  /\ JournalOK' /\ JournalLen \in Nat /\ JournalLen' \in Nat
         /\ JournalLen <= JournalLen'
         /\ \A d \in Runs \ {r} : events'[d] = events[d]
         /\ r \in Observed \/ ev.by # "observer" => events'[r] = Append(events[r], ev)
<1>1. /\ events = [d \in Runs |-> events[d]] /\ ASequence(events[r])
      /\ \A d \in Runs : ASequence(events[d])
      /\ IsFiniteSet(Entries) /\ JournalLen \in Nat
  BY FS_CardinalityType DEF JournalOK, JournalLen
<1>2. CASE r \in Observed \/ ev.by # "observer"
  <2>1. events' = [events EXCEPT ![r] = Append(@, ev)]
    BY <1>2 DEF Emit
  <2>2. events'[r] = Append(events[r], ev) /\ \A d \in Runs \ {r} : events'[d] = events[d]
    BY <1>1, <2>1
  <2>3. ASSUME NEW d \in Runs PROVE ASequence(events'[d])
    <3>1. ASequence(Append(events[r], ev))
      BY <1>1, Appended
    <3> QED BY <1>1, <2>2, <3>1
  <2>4. events' = [d \in Runs |-> events'[d]]
    BY <1>1, <2>1
  <2>5. Entries' = Entries \cup {<<r, Len(events[r]) + 1>>}
    <3>1. DOMAIN events'[r] = DOMAIN events[r] \cup {Len(events[r]) + 1}
      <4>1. /\ DOMAIN events[r] = 1..Len(events[r]) /\ Len(events[r]) \in Nat
            /\ DOMAIN events'[r] = 1..(Len(events[r]) + 1)
        BY <1>1, <2>2, Appended DEF ASequence
      <4> QED BY <4>1
    <3>2. \A d \in Runs : {d} \X DOMAIN events'[d] =
            IF d = r THEN ({d} \X DOMAIN events[d]) \cup {<<r, Len(events[r]) + 1>>}
                     ELSE {d} \X DOMAIN events[d]
      BY <2>2, <3>1
    <3>3. ASSUME NEW x PROVE x \in Entries' <=> x \in Entries \/ x = <<r, Len(events[r]) + 1>>
      BY <3>2 DEF Entries
    <3> QED BY <3>3
  <2>6. IsFiniteSet(Entries') /\ Cardinality(Entries) <= Cardinality(Entries')
    <3>1. PICK x : x = <<r, Len(events[r]) + 1>>
      OBVIOUS
    <3>2. /\ IsFiniteSet(Entries \cup {x})
          /\ Cardinality(Entries \cup {x}) =
               IF x \in Entries THEN Cardinality(Entries) ELSE Cardinality(Entries) + 1
      BY <1>1, FS_AddElement
    <3>3. Cardinality(Entries) \in Nat
      BY <1>1, FS_CardinalityType
    <3> QED BY <2>5, <3>1, <3>2, <3>3
  <2>7. JournalLen' \in Nat /\ JournalLen <= JournalLen'
    BY <2>6, FS_CardinalityType DEF JournalLen
  <2>8. JournalOK'
    BY <2>3, <2>4, <2>6 DEF JournalOK
  <2>9. JournalLen \in Nat
    BY <1>1
  <2> QED BY <2>2, <2>7, <2>8, <2>9
<1>3. CASE ~(r \in Observed \/ ev.by # "observer")
  <2>1. events' = events
    BY <1>3 DEF Emit
  <2>2. JournalOK' /\ JournalLen \in Nat /\ JournalLen' = JournalLen
    BY <2>1, JournalStays
  <2>3. JournalLen' \in Nat /\ JournalLen <= JournalLen'
    BY <2>2
  <2> QED BY <1>3, <2>1, <2>2, <2>3
<1> QED BY <1>2, <1>3

(***************************************************************************)
(* Types                                                                   *)
(***************************************************************************)
\* An answer leaves the channel.
LEMMA Received ==
  ASSUME TypeOK, Receive
  PROVE  /\ queued' \in 0..AnswersCap /\ wedged' = FALSE /\ open' = open /\ orphans' = orphans
         /\ queued' + 1 = queued + (IF wedged THEN 1 ELSE 0)
<1>1. queued \in 0..AnswersCap /\ wedged \in BOOLEAN /\ AnswersCap \in Nat
  BY WebAssumption DEF TypeOK
<1>2. /\ queued > 0 /\ wedged' = FALSE /\ open' = open /\ orphans' = orphans
      /\ queued' = IF wedged THEN queued ELSE queued - 1
  BY DEF Receive
<1> QED BY <1>1, <1>2

\* A step of one run, its caller's cancellation included.
RunStep(r) == Run(r) \/ Cancelled(r)

\* A branch leaves its run where it is, and shows what no log can tell.
LEMMA BranchKeeps ==
  ASSUME NEW r \in Runs, BranchStep(r)
  PROVE  /\ At(r, "node") /\ pc' = pc
         /\ UNCHANGED <<scene, cur, step, answered, out, asked, log, gate, questions, streams>>
         /\ taken' = taken \/ \E b \in Branches : taken' = [taken EXCEPT ![r][<<cur[r], b>>] = @ + 1]
         /\ \E b \in Branches, s \in {"called", "run", "ended", "failed"} : BranchIs(r, b, s)
<1>1. PICK b \in Branches : \/ CallBranch(r, b) \/ StartBranch(r, b)
                            \/ \E how \in {"ok", "error"} : EndBranch(r, b, how)
  BY DEF BranchStep
<1>2. CASE CallBranch(r, b)
  BY <1>2 DEF CallBranch
<1>3. CASE StartBranch(r, b)
  BY <1>3 DEF StartBranch
<1>4. ASSUME NEW how \in {"ok", "error"}, EndBranch(r, b, how)
      PROVE  /\ At(r, "node") /\ pc' = pc
             /\ UNCHANGED <<scene, cur, step, answered, out, asked, log, gate, questions, streams>>
             /\ taken' = taken
             /\ \E s \in {"called", "run", "ended", "failed"} : BranchIs(r, b, s)
  BY <1>4 DEF EndBranch
<1> QED BY <1>1, <1>2, <1>3, <1>4

LEMMA BranchEmits ==
  ASSUME TypeOK, NEW r \in Runs, BranchStep(r)
  PROVE  \E ev : Emit(r, ev) /\ ~Durable(ev) /\ ev.type \notin {"interrupt", "resume"}
<1>1. PICK b \in Branches : \/ CallBranch(r, b) \/ StartBranch(r, b)
                            \/ \E how \in {"ok", "error"} : EndBranch(r, b, how)
  BY DEF BranchStep
<1>2. CASE CallBranch(r, b)
  <2>1. PICK ev : Emit(r, ev) /\ ev = EdgeEvent(cur[r], b, step[r], taken'[r][<<cur[r], b>>])
    BY <1>2 DEF CallBranch
  <2>2. ev.to = b /\ ev.type = "edge"
    BY <2>1 DEF EdgeEvent, Event
  <2> QED BY <2>1, <2>2 DEF Durable
<1>3. ASSUME NEW type \in {"node_start", "node_end"}, NEW how, Emit(r, OfBranch(r, type, b, how))
      PROVE  \E ev : Emit(r, ev) /\ ~Durable(ev) /\ ev.type \notin {"interrupt", "resume"}
  <2>1. PICK ev : Emit(r, ev) /\ ev = OfBranch(r, type, b, how)
    BY <1>3
  <2>2. ev.parent = cur[r] /\ ev.type = type
    BY <2>1 DEF OfBranch, Event
  <2>3. cur[r] # NoNode
    BY WebAssumption DEF TypeOK
  <2> QED BY <2>1, <2>2, <2>3 DEF Durable
<1> QED BY <1>1, <1>2, <1>3 DEF StartBranch, EndBranch

\* The control points of a run.
Points == {"new", "edge", "top", "hit", "gated", "resume", "start", "node", "askshow", "askwait",
           "askend", "mark", "show", "paused", "reshow", "wait", "finish", "over"}

LEMMA RunTyped ==
  ASSUME TypeOK, StepsOK, NEW r \in Runs, RunStep(r)
  PROVE  TypeOK'
<1>1. ASSUME NEW n \in Nodes, RunStart(r, n)
      PROVE  TypeOK'
  BY <1>1 DEF RunStart, Go, TypeOK, gate, questions, streams
<1>0. ASSUME NEW e, taken' = [taken EXCEPT ![r][e] = @ + 1]
      PROVE  taken' \in [Runs -> [Edges \cup Fans -> Nat]]
  <2>1. /\ taken[r] \in [Edges \cup Fans -> Nat]
        /\ taken \in [Runs -> [Edges \cup Fans -> Nat]]
    BY DEF TypeOK
  <2>2. [taken[r] EXCEPT ![e] = @ + 1] \in [Edges \cup Fans -> Nat]
    <3>1. CASE e \in Edges \cup Fans
      BY <2>1, <3>1
    <3>2. CASE e \notin Edges \cup Fans
      BY <2>1, <3>2
    <3> QED BY <3>1, <3>2
  <2> QED BY <1>0, <2>1, <2>2
<1>2. CASE EdgeTaken(r)
  <2>1. \E e : taken' = [taken EXCEPT ![r][e] = @ + 1]
    BY <1>2 DEF EdgeTaken
  <2>2. taken' \in [Runs -> [Edges \cup Fans -> Nat]]
    BY <1>0, <2>1
  <2> QED BY <1>2, <2>2 DEF EdgeTaken, Go, TypeOK, gate, questions, streams
<1>3. CASE ReachEnd(r)
  BY <1>3 DEF ReachEnd, EndWith, Go, TypeOK, journal, gate, questions, streams
<1>4. CASE RunEnd(r)
  BY <1>4 DEF RunEnd, Go, TypeOK, gate, questions, streams
<1>5. CASE Pass(r) \/ Released(r)
  <2>1. PICK w \in {"resume", "start"} : pc' = [pc EXCEPT ![r] = w]
    BY <1>5 DEF Pass, Released, Go
  <2> QED BY <1>5, <2>1 DEF Pass, Released, TypeOK, journal, gate, questions, streams
<1>6. CASE Before(r)
  <2>1. held' \in [Runs -> Nat]
    BY <1>6 DEF Before, TypeOK
  <2>2. pressed' \in [Runs -> BOOLEAN] /\ pauseNext' \in BOOLEAN
    BY <1>6 DEF Before, TypeOK
  <2>3. pc' = [pc EXCEPT ![r] = "hit"] /\ release' = release /\ breakpoints' = breakpoints
    BY <1>6 DEF Before, Go
  <2>4. UNCHANGED <<scene, cur, step, answered, out, asked, branch, events, taken, questions, streams>>
    BY <1>6 DEF Before, journal
  <2> QED BY <2>1, <2>2, <2>3, <2>4 DEF TypeOK, questions, streams
<1>7. CASE BreakpointHit(r) \/ Resumed(r)
  BY <1>7 DEF BreakpointHit, Resumed, Go, TypeOK, gate, questions, streams
<1>8. CASE NodeStart(r)
  <2>1. branch' \in [Runs -> [Branches -> {"idle", "called", "run", "ended", "failed"}]]
    BY <1>8 DEF NodeStart, TypeOK
  <2>2. step' \in [Runs -> Nat] /\ pc' = [pc EXCEPT ![r] = "node"]
    BY <1>8 DEF NodeStart, Go, TypeOK
  <2>3. UNCHANGED <<scene, cur, answered, out, asked, taken, gate, questions, streams>>
    BY <1>8 DEF NodeStart
  <2> QED BY <2>1, <2>2, <2>3 DEF TypeOK, gate, questions, streams
<1>9. ASSUME NEW n \in Nodes \cup {End}, NodeEnd(r, n)
      PROVE  TypeOK'
  BY <1>9 DEF NodeEnd, Go, TypeOK, gate, questions, streams
<1>10. CASE NodeFails(r) \/ RouteFails(r) \/ StartRouteFails(r)
  BY <1>10 DEF NodeFails, RouteFails, StartRouteFails, EndWith, Go, TypeOK, gate, questions, streams
<1>11. CASE Ask(r)
  <2>1. /\ pc' = [pc EXCEPT ![r] = "askshow"] /\ asked' = [asked EXCEPT ![r] = TRUE]
        /\ open' = open + 1 /\ UNCHANGED <<queued, wedged, orphans>>
    BY <1>11 DEF Ask, MarkOpen, Go
  <2>2. UNCHANGED <<scene, cur, step, answered, out, branch, journal, gate, streams>>
    BY <1>11 DEF Ask
  <2>3. pc' \in [Runs -> Points] /\ asked' \in [Runs -> BOOLEAN] /\ open' \in Nat
    BY <2>1 DEF TypeOK, Points
  <2> QED BY <2>1, <2>2, <2>3 DEF TypeOK, Points, journal, gate, streams
<1>12. CASE AskShow(r) \/ AskEnd(r) \/ Reshow(r) \/ Show(r)
  <2>1. PICK w \in {"askwait", "node", "wait", "paused"} : pc' = [pc EXCEPT ![r] = w]
    BY <1>12 DEF AskShow, AskEnd, Reshow, Show, Go
  <2>2. UNCHANGED <<scene, cur, step, answered, out, asked, branch, taken, gate, questions, streams>>
    BY <1>12 DEF AskShow, AskEnd, Reshow, Show
  <2> QED BY <2>1, <2>2 DEF TypeOK, gate, questions, streams
<1>13. CASE AskAnswered(r)
  <2>1. Receive /\ pc' = [pc EXCEPT ![r] = "askend"]
    BY <1>13 DEF AskAnswered, Go
  <2> QED BY <1>13, <2>1, Received DEF AskAnswered, TypeOK, journal, gate, streams
<1>14. CASE Interrupt(r)
  BY <1>14 DEF Interrupt, Go, TypeOK, gate, questions, streams
<1>15. CASE Mark(r)
  <2>1. /\ pc' = [pc EXCEPT ![r] = "show"] /\ open' = open + 1
        /\ UNCHANGED <<queued, wedged, orphans>>
    BY <1>15 DEF Mark, MarkOpen, Go
  <2>2. UNCHANGED <<scene, cur, step, answered, out, asked, branch, journal, gate, streams>>
    BY <1>15 DEF Mark
  <2>3. pc' \in [Runs -> Points] /\ open' \in Nat
    BY <2>1 DEF TypeOK, Points
  <2> QED BY <2>1, <2>2, <2>3 DEF TypeOK, Points, journal, gate, streams
<1>16. CASE EnsureOpen(r)
  <2>1. PICK w \in {"wait", "reshow"} : pc' = [pc EXCEPT ![r] = w]
    BY <1>16 DEF EnsureOpen, Go
  <2>2. open' \in Nat /\ queued' = queued /\ wedged' = wedged /\ orphans' \in Nat
    BY <1>16 DEF EnsureOpen, TypeOK, questions
  <2> QED BY <1>16, <2>1, <2>2 DEF EnsureOpen, TypeOK, journal, gate, streams
<1>17. CASE Resume(r)
  <2>1. /\ Receive /\ pc' = [pc EXCEPT ![r] = "top"] /\ answered' = [answered EXCEPT ![r] = TRUE]
        /\ step' = [step EXCEPT ![r] = @ - 1]
    BY <1>17 DEF Resume, Go
  <2>2. step' \in [Runs -> Nat]
    <3>1. step \in [Runs -> Nat] /\ step[r] >= 1
      BY <1>17 DEF Resume, At, StepsOK, InNode, TypeOK
    <3>2. PICK k : k = step[r] - 1
      OBVIOUS
    <3>3. k \in Nat /\ step' = [step EXCEPT ![r] = k]
      BY <2>1, <3>1, <3>2
    <3> QED BY <3>1, <3>3
  <2> QED BY <1>17, <2>1, <2>2, Received DEF Resume, TypeOK, journal, gate, streams
<1>18. CASE GateCancelled(r) \/ TopCancelled(r)
  <2>1. pc' = [pc EXCEPT ![r] = "finish"] /\ out' = [out EXCEPT ![r] = "cancelled"]
    BY <1>18 DEF GateCancelled, TopCancelled, EndWith, Go
  <2> QED BY <1>18, <2>1 DEF GateCancelled, TopCancelled, TypeOK, journal, gate, streams
<1>19. CASE AskCancelled(r)
  <2>1. pc' = [pc EXCEPT ![r] = "finish"] /\ out' = [out EXCEPT ![r] = "cancelled"]
    BY <1>19 DEF AskCancelled, EndWith, Go
  <2>2. open' = open /\ queued' = queued /\ wedged' = wedged /\ orphans' \in Nat
    BY <1>19 DEF AskCancelled, Abandon, TypeOK
  <2>3. UNCHANGED <<scene, cur, step, answered, asked, log, branch, taken, gate, streams>>
    BY <1>19 DEF AskCancelled
  <2> QED BY <2>1, <2>2, <2>3 DEF TypeOK, gate, streams
<1>20. CASE WaitCancelled(r)
  <2>1. /\ pc' = [pc EXCEPT ![r] = "over"] /\ orphans' = orphans + 1
        /\ UNCHANGED <<open, queued, wedged>>
    BY <1>20 DEF WaitCancelled, Abandon, Go
  <2>2. UNCHANGED <<scene, cur, step, answered, out, asked, branch, journal, gate, streams>>
    BY <1>20 DEF WaitCancelled
  <2>3. pc' \in [Runs -> Points] /\ orphans' \in Nat
    BY <2>1 DEF TypeOK, Points
  <2> QED BY <2>1, <2>2, <2>3 DEF TypeOK, Points, journal, gate, streams
<1>21. CASE BranchStep(r)
  <2>1. /\ pc' = pc
        /\ UNCHANGED <<scene, cur, step, answered, out, asked, log, gate, questions, streams>>
    BY <1>21, BranchKeeps
  <2>2. taken' \in [Runs -> [Edges \cup Fans -> Nat]]
    <3>1. taken' = taken \/ \E b \in Branches : taken' = [taken EXCEPT ![r][<<cur[r], b>>] = @ + 1]
      BY <1>21, BranchKeeps
    <3>2. CASE taken' = taken
      BY <3>2 DEF TypeOK
    <3>3. ASSUME NEW b \in Branches, taken' = [taken EXCEPT ![r][<<cur[r], b>>] = @ + 1]
          PROVE  taken' \in [Runs -> [Edges \cup Fans -> Nat]]
      BY <1>0, <3>3
    <3> QED BY <3>1, <3>2, <3>3
  <2>3. branch' \in [Runs -> [Branches -> {"idle", "called", "run", "ended", "failed"}]]
    <3>1. PICK b \in Branches, s \in {"called", "run", "ended", "failed"} : BranchIs(r, b, s)
      BY <1>21, BranchKeeps
    <3> QED BY <3>1 DEF BranchIs, TypeOK
  <2> QED BY <2>1, <2>2, <2>3 DEF TypeOK, gate, questions, streams
<1> QED BY <1>1, <1>2, <1>3, <1>4, <1>5, <1>6, <1>7, <1>8, <1>9, <1>10, <1>11, <1>12, <1>13,
           <1>14, <1>15, <1>16, <1>17, <1>18, <1>19, <1>20, <1>21 DEF RunStep, Run, Cancelled

\* Where a step of a run leaves it: inside a node only if it was there or took the step.
LEMMA RunSteps ==
  ASSUME TypeOK, StepsOK, NEW r \in Runs, RunStep(r)
  PROVE  StepsOK'
<1>1. ASSUME NEW w, pc' = [pc EXCEPT ![r] = w], w = "mark" => r \in Observed,
             \/ step' = step /\ (w \in InNode => pc[r] \in InNode)
             \/ step' = [step EXCEPT ![r] = step[r] + 1]
             \/ step' = [step EXCEPT ![r] = step[r] - 1] /\ w \notin InNode
      PROVE  StepsOK'
  <2>1. pc'[r] = w /\ \A d \in Runs \ {r} : pc'[d] = pc[d] /\ step'[d] = step[d]
    BY <1>1 DEF TypeOK
  <2>2. w \in InNode => step'[r] >= 1
    <3>1. step \in [Runs -> Nat] /\ (pc[r] \in InNode => step[r] >= 1)
      BY DEF TypeOK, StepsOK
    <3> QED BY <1>1, <3>1
  <2> QED BY <1>1, <2>1, <2>2 DEF StepsOK
<1>2. CASE \E n \in Nodes : RunStart(r, n)
  BY <1>1, <1>2 DEF RunStart, Go, InNode
<1>3. CASE EdgeTaken(r) \/ RunEnd(r) \/ Before(r) \/ BreakpointHit(r) \/ Released(r) \/ Resumed(r)
  BY <1>1, <1>3 DEF EdgeTaken, RunEnd, Before, BreakpointHit, Released, Resumed, Go, InNode
<1>4. CASE ReachEnd(r)
  BY <1>1, <1>4 DEF ReachEnd, EndWith, Go, InNode
<1>5. CASE Pass(r)
  <2>1. PICK w \in {"resume", "start"} : pc' = [pc EXCEPT ![r] = w]
    BY <1>5 DEF Pass, Go
  <2> QED BY <1>1, <1>5, <2>1 DEF Pass, InNode
<1>6. CASE NodeStart(r)
  BY <1>1, <1>6 DEF NodeStart, Go, InNode
<1>7. CASE \E n \in Nodes \cup {End} : NodeEnd(r, n)
  BY <1>1, <1>7 DEF NodeEnd, Go, InNode
<1>8. CASE \/ NodeFails(r) \/ RouteFails(r) \/ StartRouteFails(r)
           \/ TopCancelled(r) \/ GateCancelled(r) \/ AskCancelled(r)
  BY <1>1, <1>8 DEF NodeFails, RouteFails, StartRouteFails, TopCancelled, GateCancelled, AskCancelled, EndWith, Go, InNode
<1>9. CASE Ask(r) \/ AskShow(r) \/ AskAnswered(r) \/ AskEnd(r)
  <2>1. step' = step /\ pc[r] \in InNode
    BY <1>9 DEF Ask, AskShow, AskAnswered, AskEnd, At, InNode
  <2>2. \E w \in {"askshow", "askwait", "askend", "node"} : pc' = [pc EXCEPT ![r] = w]
    BY <1>9 DEF Ask, AskShow, AskAnswered, AskEnd, Go
  <2> QED BY <1>1, <2>1, <2>2
<1>10. CASE Interrupt(r)
  BY <1>1, <1>10 DEF Interrupt, At, Go, InNode
<1>11. CASE Mark(r) \/ Show(r) \/ Reshow(r) \/ WaitCancelled(r)
  BY <1>1, <1>11 DEF Mark, Show, Reshow, WaitCancelled, At, Go, InNode
<1>12. CASE EnsureOpen(r)
  BY <1>1, <1>12 DEF EnsureOpen, At, Go, InNode
<1>13. CASE Resume(r)
  BY <1>1, <1>13 DEF Resume, Go, InNode
<1>14. CASE BranchStep(r)
  <2>1. pc' = pc /\ step' = step
    BY <1>14, BranchKeeps
  <2> QED BY <2>1 DEF StepsOK
<1> QED BY <1>14, <1>2, <1>3, <1>4, <1>5, <1>6, <1>7, <1>8, <1>9, <1>10, <1>11, <1>12, <1>13 DEF RunStep, Run, Cancelled

\* A step of a run leaves the streams alone and adds at most one event, of its own.
LEMMA RunEmits ==
  ASSUME NEW r \in Runs, RunStep(r)
  PROVE  /\ scene' = scene /\ UNCHANGED streams
         /\ events' = events \/ \E ev : Emit(r, ev)
<1>1. CASE \E n \in Nodes : RunStart(r, n)
  BY <1>1 DEF RunStart
<1>2. CASE EdgeTaken(r) \/ RunEnd(r) \/ BreakpointHit(r) \/ Resumed(r) \/ NodeStart(r)
  BY <1>2 DEF EdgeTaken, RunEnd, BreakpointHit, Resumed, NodeStart
<1>3. CASE \/ ReachEnd(r) \/ Pass(r) \/ Before(r) \/ Released(r) \/ TopCancelled(r)
           \/ GateCancelled(r)
  BY <1>3 DEF ReachEnd, Pass, Before, Released, TopCancelled, GateCancelled, journal
<1>4. CASE \E n \in Nodes \cup {End} : NodeEnd(r, n)
  BY <1>4 DEF NodeEnd
<1>5. CASE StartRouteFails(r) \/ RouteFails(r) \/ NodeFails(r) \/ AskCancelled(r) \/ AskShow(r) \/ AskEnd(r) \/ Interrupt(r) \/ Show(r)
           \/ Reshow(r)
  BY <1>5 DEF StartRouteFails, RouteFails, NodeFails, AskCancelled, AskShow, AskEnd, Interrupt, Show, Reshow
<1>6. CASE Ask(r) \/ AskAnswered(r) \/ Mark(r) \/ EnsureOpen(r) \/ Resume(r) \/ WaitCancelled(r)
  BY <1>6 DEF Ask, AskAnswered, Mark, EnsureOpen, Resume, WaitCancelled, journal
<1>7. CASE BranchStep(r)
  <2>1. scene' = scene /\ UNCHANGED streams
    BY <1>7, BranchKeeps
  <2>2. PICK b \in Branches : \/ CallBranch(r, b) \/ StartBranch(r, b)
                              \/ \E how \in {"ok", "error"} : EndBranch(r, b, how)
    BY <1>7 DEF BranchStep
  <2> QED BY <2>1, <2>2 DEF CallBranch, StartBranch, EndBranch
<1> QED BY <1>7, <1>1, <1>2, <1>3, <1>4, <1>5, <1>6 DEF RunStep, Run, Cancelled

(***************************************************************************)
(* Humans and streams                                                      *)
(***************************************************************************)
LEMMA HumanTyped ==
  ASSUME TypeOK, Human
  PROVE  /\ TypeOK' /\ pc' = pc /\ step' = step /\ scene' = scene /\ events' = events
         /\ UNCHANGED streams
<1>1. CASE Answer
  <2>1. open' \in Nat /\ queued' \in 0..AnswersCap /\ wedged' \in BOOLEAN /\ orphans' = orphans
    <3>1. open \in Nat /\ queued \in 0..AnswersCap /\ AnswersCap \in Nat
      BY WebAssumption DEF TypeOK
    <3>2. /\ open > 0 /\ open' = open - 1
          /\ \/ queued < AnswersCap /\ queued' = queued + 1
             \/ queued' = queued
      BY <1>1 DEF Answer
    <3>3. open' \in Nat /\ queued' \in 0..AnswersCap
      BY <3>1, <3>2
    <3> QED BY <1>1, <3>3 DEF Answer, TypeOK
  <2> QED BY <1>1, <2>1 DEF Answer, TypeOK, graph, journal, gate, streams
<1>2. CASE Pause
  BY <1>2 DEF Pause, TypeOK, graph, journal, questions, streams
<1>3. ASSUME NEW action, Release(action)
      PROVE  /\ TypeOK' /\ pc' = pc /\ step' = step /\ scene' = scene /\ events' = events
             /\ UNCHANGED streams
  <2>1. pauseNext' \in BOOLEAN
    BY <1>3 DEF Release
  <2>2. pressed' \in [Runs -> BOOLEAN]
    BY <1>3 DEF Release
  <2>3. release' \in Nat
    BY <1>3 DEF Release, TypeOK
  <2>4. UNCHANGED <<scene, graph, journal, breakpoints, held, questions, streams>>
    BY <1>3 DEF Release
  <2> QED BY <2>1, <2>2, <2>3, <2>4 DEF TypeOK, graph, journal, questions, streams
<1>4. ASSUME NEW nodes \in SUBSET Nodes, SetBreakpoints(nodes)
      PROVE  /\ TypeOK' /\ pc' = pc /\ step' = step /\ scene' = scene /\ events' = events
             /\ UNCHANGED streams
  BY <1>4 DEF SetBreakpoints, TypeOK, graph, journal, questions, streams
<1> QED BY <1>1, <1>2, <1>3, <1>4 DEF Human

\* A step of a stream, of its browser or its connection.
StreamStep(c) == Stream(c) \/ Connect(c) \/ Beat(c) \/ Drop(c)

\* What a browser has got, and some more of what follows.
LEMMA MoreIds ==
  ASSUME NEW g \in Seq(Nat), g = [i \in 1..Len(g) |-> i], NEW n \in Nat
  PROVE  /\ g \o [i \in 1..n |-> Len(g) + i] = [i \in 1..(Len(g) + n) |-> i]
         /\ g \o [i \in 1..n |-> Len(g) + i] \in Seq(Nat)
         /\ Len(g \o [i \in 1..n |-> Len(g) + i]) = Len(g) + n
<1>1. PICK h : h = [i \in 1..n |-> Len(g) + i]
  OBVIOUS
<1>2. Len(g) \in Nat
  OBVIOUS
<1>3. h \in [1..n -> Nat]
  BY <1>1, <1>2
<1>4. h \in Seq(Nat) /\ Len(h) = n
  BY <1>3, SeqDef
<1>5. PICK k : k = g \o h
  OBVIOUS
<1>6. k \in Seq(Nat) /\ Len(k) = Len(g) + n
  <2>1. \A a, b \in Seq(Nat) : a \o b \in Seq(Nat) /\ Len(a \o b) = Len(a) + Len(b)
    BY ConcatProperties
  <2>2. g \o h \in Seq(Nat) /\ Len(g \o h) = Len(g) + Len(h)
    BY <1>4, <2>1
  <2> QED BY <1>4, <1>5, <2>2
<1>7. \A i \in 1..(Len(g) + n) : k[i] = i
  <2>1. TAKE i \in 1..(Len(g) + n)
  <2>2. k[i] = IF i <= Len(g) THEN g[i] ELSE h[i - Len(g)]
    BY <1>2, <1>4, <1>5
  <2>3. i <= Len(g) => g[i] = i
    BY <1>2
  <2>4. i > Len(g) => h[i - Len(g)] = i
    BY <1>1, <1>2
  <2> QED BY <1>2, <2>2, <2>3, <2>4
<1>8. k = [i \in 1..(Len(g) + n) |-> k[i]]
  BY <1>6
<1>9. k = [i \in 1..(Len(g) + n) |-> i]
  BY <1>7, <1>8
<1> QED BY <1>1, <1>5, <1>6, <1>9

\* The last a browser got is as many events as it got.
LEMMA LastGot ==
  ASSUME NEW g \in Seq(Nat), g = [i \in 1..Len(g) |-> i]
  PROVE  (IF g = <<>> THEN 0 ELSE Last(g)) = Len(g)
<1>1. g = <<>> => Len(g) = 0
  OBVIOUS
<1>2. g # <<>> => Len(g) \in 1..Len(g)
  BY EmptySeq
<1>3. g # <<>> => g[Len(g)] = Len(g)
  BY <1>2
<1> QED BY <1>1, <1>3 DEF Last

\* Stream c moves: its state, position, batch, what it knows, what its browser has.
Moves(c, x, a, b, k, g) ==
  /\ x \in {"off", "read", "write", "wait"} /\ conn' = [conn EXCEPT ![c] = x]
  /\ a \in Nat /\ after' = [after EXCEPT ![c] = a]
  /\ b \in Nat /\ batch' = [batch EXCEPT ![c] = b]
  /\ k \in Nat /\ known' = [known EXCEPT ![c] = k]
  /\ g \in Seq(Nat) /\ got' = [got EXCEPT ![c] = g]
  /\ g = [i \in 1..Len(g) |-> i] /\ Len(g) <= JournalLen
  /\ x # "off" => a = Len(g)
  /\ x = "write" => a + b <= JournalLen

LEMMA StreamKeeps ==
  ASSUME TypeOK, JournalOK, ReadersOK, NEW c \in Readers, StreamStep(c)
  PROVE  /\ TypeOK' /\ ReadersOK'
         /\ scene' = scene /\ UNCHANGED <<graph, journal, gate, questions>>
<1>1. /\ JournalLen \in Nat /\ after \in [Readers -> Nat] /\ batch \in [Readers -> Nat]
      /\ known \in [Readers -> Nat] /\ got \in [Readers -> Seq(Nat)]
      /\ conn \in [Readers -> {"off", "read", "write", "wait"}]
  BY FS_CardinalityType DEF JournalOK, JournalLen, TypeOK
<1>2. /\ got[c] \in Seq(Nat) /\ got[c] = [i \in 1..Len(got[c]) |-> i]
      /\ Len(got[c]) \in Nat /\ Len(got[c]) <= JournalLen
      /\ after[c] \in Nat /\ batch[c] \in Nat
      /\ conn[c] # "off" => after[c] = Len(got[c])
      /\ conn[c] = "write" => after[c] + batch[c] <= JournalLen
  BY <1>1 DEF ReadersOK, ReaderOK
<1>3. scene' = scene /\ UNCHANGED <<graph, journal, gate, questions>>
  <2>1. CASE Stream(c)
    BY <2>1 DEF Stream, ReadBatch, WriteBatch, Wake
  <2>2. CASE Connect(c) \/ Beat(c) \/ Drop(c)
    BY <2>2 DEF Connect, Beat, Drop
  <2> QED BY <2>1, <2>2 DEF StreamStep
<1>4. JournalLen' = JournalLen
  BY <1>3 DEF JournalLen, Entries, journal
<1>5. ASSUME NEW x, NEW a, NEW b, NEW k, NEW g, Moves(c, x, a, b, k, g)
      PROVE  TypeOK' /\ ReadersOK'
  <2>1. /\ conn' \in [Readers -> {"off", "read", "write", "wait"}]
        /\ after' \in [Readers -> Nat] /\ batch' \in [Readers -> Nat]
        /\ known' \in [Readers -> Nat] /\ got' \in [Readers -> Seq(Nat)]
    BY <1>1, <1>5 DEF Moves
  <2>2. TypeOK'
    BY <1>3, <2>1 DEF TypeOK, graph, journal, gate, questions
  <2>3. conn'[c] = x /\ after'[c] = a /\ batch'[c] = b /\ got'[c] = g
    BY <1>1, <1>5 DEF Moves
  <2>4. \A d \in Readers \ {c} : /\ conn'[d] = conn[d] /\ after'[d] = after[d]
                                  /\ batch'[d] = batch[d] /\ got'[d] = got[d]
    BY <1>1, <1>5 DEF Moves
  <2>5. ASSUME NEW d \in Readers PROVE ReaderOK(d)'
    <3>1. CASE d = c
      BY <1>4, <1>5, <2>3, <3>1 DEF ReaderOK, Moves
    <3>2. CASE d # c
      BY <1>4, <2>4, <3>2 DEF ReadersOK, ReaderOK
    <3> QED BY <3>1, <3>2
  <2> QED BY <2>2, <2>5 DEF ReadersOK
<1>6. /\ conn = [conn EXCEPT ![c] = conn[c]] /\ after = [after EXCEPT ![c] = after[c]]
      /\ batch = [batch EXCEPT ![c] = batch[c]] /\ known = [known EXCEPT ![c] = known[c]]
      /\ got = [got EXCEPT ![c] = got[c]] /\ known[c] \in Nat
  BY <1>1
<1>7. CASE ReadBatch(c)
  <2>1. PICK b : b = JournalLen - after[c]
    OBVIOUS
  <2>2. /\ conn[c] = "read" /\ conn' = [conn EXCEPT ![c] = "write"]
        /\ batch' = [batch EXCEPT ![c] = b] /\ known' = [known EXCEPT ![c] = JournalLen]
        /\ after' = after /\ got' = got
    BY <1>7, <2>1 DEF ReadBatch
  <2>3. b \in Nat /\ after[c] = Len(got[c]) /\ after[c] + b = JournalLen
    BY <1>1, <1>2, <2>1, <2>2
  <2>4. after' = [after EXCEPT ![c] = after[c]] /\ got' = [got EXCEPT ![c] = got[c]]
    BY <1>6, <2>2
  <2>5. Moves(c, "write", after[c], b, JournalLen, got[c])
    <3>1. after[c] + b <= JournalLen
      BY <1>1, <2>3
    <3> QED BY <1>1, <1>2, <2>2, <2>3, <2>4, <3>1 DEF Moves
  <2> QED BY <1>3, <1>5, <2>5
<1>8. CASE WriteBatch(c)
  <2>1. /\ conn[c] = "write" /\ after[c] = Len(got[c])
        /\ batch' = batch /\ known' = known
    BY <1>2, <1>8 DEF WriteBatch
  <2>2. PICK x \in {"read", "wait"} : conn' = [conn EXCEPT ![c] = x]
    BY <1>8 DEF WriteBatch
  <2>3. PICK a : a = after[c] + batch[c]
    OBVIOUS
  <2>4. PICK g : g = got[c] \o Ids(c, batch[c])
    OBVIOUS
  <2>5. after' = [after EXCEPT ![c] = a] /\ got' = [got EXCEPT ![c] = g]
    BY <1>8, <2>3, <2>4 DEF WriteBatch
  <2>6. g \in Seq(Nat) /\ Len(g) = a /\ g = [i \in 1..Len(g) |-> i]
    <3>1. Ids(c, batch[c]) = [i \in 1..batch[c] |-> Len(got[c]) + i]
      BY <2>1 DEF Ids
    <3>2. a = Len(got[c]) + batch[c]
      BY <2>1, <2>3
    <3>3. g = got[c] \o [i \in 1..batch[c] |-> Len(got[c]) + i]
      BY <2>4, <3>1
    <3>4. g \in Seq(Nat) /\ Len(g) = a /\ g = [i \in 1..a |-> i]
      BY <1>2, <3>2, <3>3, MoreIds
    <3> QED BY <3>4
  <2>7. a \in Nat /\ a <= JournalLen
    BY <1>2, <2>1, <2>3
  <2>8. batch' = [batch EXCEPT ![c] = batch[c]] /\ known' = [known EXCEPT ![c] = known[c]]
    BY <1>6, <2>1
  <2>9. Moves(c, x, a, batch[c], known[c], g)
    BY <1>2, <1>6, <2>2, <2>5, <2>6, <2>7, <2>8 DEF Moves
  <2> QED BY <1>3, <1>5, <2>9
<1>9. CASE Wake(c) \/ Beat(c)
  <2>1. /\ conn[c] = "wait" /\ conn' = [conn EXCEPT ![c] = "read"]
        /\ after' = after /\ batch' = batch /\ known' = known /\ got' = got
    BY <1>9 DEF Wake, Beat
  <2>2. /\ after' = [after EXCEPT ![c] = after[c]] /\ batch' = [batch EXCEPT ![c] = batch[c]]
        /\ known' = [known EXCEPT ![c] = known[c]] /\ got' = [got EXCEPT ![c] = got[c]]
    BY <1>6, <2>1
  <2>3. Moves(c, "read", after[c], batch[c], known[c], got[c])
    BY <1>2, <1>6, <2>1, <2>2 DEF Moves
  <2> QED BY <1>3, <1>5, <2>3
<1>10. CASE Connect(c)
  <2>1. PICK a : a = IF got[c] = <<>> THEN 0 ELSE Last(got[c])
    OBVIOUS
  <2>2. /\ conn' = [conn EXCEPT ![c] = "read"] /\ after' = [after EXCEPT ![c] = a]
        /\ batch' = batch /\ known' = known /\ got' = got
    BY <1>10, <2>1 DEF Connect
  <2>3. a = Len(got[c])
    BY <1>2, <2>1, LastGot
  <2>4. /\ batch' = [batch EXCEPT ![c] = batch[c]] /\ known' = [known EXCEPT ![c] = known[c]]
        /\ got' = [got EXCEPT ![c] = got[c]]
    BY <1>6, <2>2
  <2>5. Moves(c, "read", a, batch[c], known[c], got[c])
    BY <1>2, <1>6, <2>2, <2>3, <2>4 DEF Moves
  <2> QED BY <1>3, <1>5, <2>5
<1>11. CASE Drop(c)
  <2>1. PICK n \in 0..(IF conn[c] = "write" THEN batch[c] ELSE 0) :
          got' = [got EXCEPT ![c] = @ \o Ids(c, n)]
    BY <1>11 DEF Drop
  <2>2. /\ conn[c] # "off" /\ conn' = [conn EXCEPT ![c] = "off"]
        /\ after' = after /\ batch' = batch /\ known' = known
    BY <1>11 DEF Drop
  <2>3. n \in Nat /\ after[c] = Len(got[c]) /\ Len(got[c]) + n <= JournalLen
    BY <1>1, <1>2, <2>1, <2>2
  <2>4. PICK g : g = got[c] \o Ids(c, n)
    OBVIOUS
  <2>5. got' = [got EXCEPT ![c] = g]
    BY <2>1, <2>4
  <2>6. g \in Seq(Nat) /\ Len(g) = Len(got[c]) + n /\ g = [i \in 1..Len(g) |-> i]
    <3>1. Ids(c, n) = [i \in 1..n |-> Len(got[c]) + i]
      BY <2>3 DEF Ids
    <3> QED BY <1>2, <2>3, <2>4, <3>1, MoreIds
  <2>7. /\ after' = [after EXCEPT ![c] = after[c]] /\ batch' = [batch EXCEPT ![c] = batch[c]]
        /\ known' = [known EXCEPT ![c] = known[c]]
    BY <1>6, <2>2
  <2>8. Moves(c, "off", after[c], batch[c], known[c], g)
    BY <1>2, <1>6, <2>2, <2>3, <2>5, <2>6, <2>7 DEF Moves
  <2> QED BY <1>3, <1>5, <2>8
<1> QED BY <1>3, <1>7, <1>8, <1>9, <1>10, <1>11 DEF StreamStep, Stream

(***************************************************************************)
(* Every event once                                                        *)
(***************************************************************************)
\* A browser is unharmed by what is added to the journal.
LEMMA ReadersStay ==
  ASSUME TypeOK, ReadersOK, UNCHANGED streams,
         JournalLen \in Nat, JournalLen' \in Nat, JournalLen <= JournalLen'
  PROVE  ReadersOK'
<1>1. ASSUME NEW c \in Readers PROVE ReaderOK(c)'
  <2>1. Len(got[c]) \in Nat /\ after[c] \in Nat /\ batch[c] \in Nat
    BY DEF TypeOK
  <2>2. /\ got[c] = [i \in 1..Len(got[c]) |-> i] /\ Len(got[c]) <= JournalLen
        /\ conn[c] # "off" => after[c] = Len(got[c])
        /\ conn[c] = "write" => after[c] + batch[c] <= JournalLen
    BY DEF ReadersOK, ReaderOK
  <2>3. conn' = conn /\ after' = after /\ batch' = batch /\ got' = got
    BY DEF streams
  <2>4. Len(got[c]) <= JournalLen'
    BY <2>1, <2>2
  <2>5. conn[c] = "write" => after[c] + batch[c] <= JournalLen'
    BY <2>1, <2>2
  <2> QED BY <2>2, <2>3, <2>4, <2>5 DEF ReaderOK
<1> QED BY <1>1 DEF ReadersOK

LEMMA BaseInit ==
  ASSUME Init
  PROVE  Base
<1>1. Entries = {} /\ JournalLen = 0
  <2>1. \A r \in Runs : DOMAIN events[r] = {}
    BY DEF Init
  <2>2. Entries = {}
    BY <2>1 DEF Entries
  <2> QED BY <2>2, FS_EmptySet DEF JournalLen
<1>2. TypeOK
  <2>1. scene \in Scenes /\ pc = [r \in Runs |-> "new"] /\ out = [r \in Runs |-> "none"]
    BY DEF Init
  <2>2. queued \in 0..AnswersCap
    BY WebAssumption DEF Init
  <2>3. pc \in [Runs -> {"new"}] /\ out \in [Runs -> {"none"}]
    BY <2>1
  <2>4. taken \in [Runs -> [Edges \cup Fans -> Nat]]
    BY DEF Init
  <2>5. conn \in [Readers -> {"off"}] /\ got \in [Readers -> Seq(Nat)]
    BY DEF Init
  <2> QED BY <2>1, <2>2, <2>3, <2>4, <2>5 DEF Init, TypeOK
<1>3. JournalOK
  <2>1. ASequence(<<>>)
    BY DEF ASequence
  <2> QED BY <1>1, <2>1, FS_EmptySet DEF Init, JournalOK
<1>4. StepsOK
  BY DEF Init, StepsOK, InNode
<1>5. ReadersOK
  BY <1>1 DEF Init, ReadersOK, ReaderOK
<1> QED BY <1>2, <1>3, <1>4, <1>5 DEF Base

LEMMA BaseNext ==
  ASSUME Base, [Next]_vars
  PROVE  Base'
<1>1. TypeOK /\ JournalOK /\ StepsOK /\ ReadersOK
  BY DEF Base
<1>2. ASSUME NEW r \in Runs, RunStep(r) PROVE Base'
  <2>1. TypeOK' /\ StepsOK'
    BY <1>1, <1>2, RunTyped, RunSteps
  <2>2. UNCHANGED streams /\ (events' = events \/ \E ev : Emit(r, ev))
    BY <1>2, RunEmits
  <2>3. CASE events' = events
    <3>1. JournalOK' /\ JournalLen \in Nat /\ JournalLen' = JournalLen
      BY <1>1, <2>3, JournalStays
    <3>2. JournalLen' \in Nat /\ JournalLen <= JournalLen'
      BY <3>1
    <3> QED BY <1>1, <2>1, <2>2, <3>1, <3>2, ReadersStay DEF Base
  <2>4. CASE \E ev : Emit(r, ev)
    <3>1. PICK ev : Emit(r, ev)
      BY <2>4
    <3>2. /\ JournalOK' /\ JournalLen \in Nat /\ JournalLen' \in Nat
          /\ JournalLen <= JournalLen'
      BY <1>1, <3>1, Emitted
    <3> QED BY <1>1, <2>1, <2>2, <3>2, ReadersStay DEF Base
  <2> QED BY <2>2, <2>3, <2>4
<1>3. CASE Human
  <2>1. TypeOK' /\ pc' = pc /\ step' = step /\ events' = events /\ UNCHANGED streams
    BY <1>1, <1>3, HumanTyped
  <2>2. JournalOK' /\ JournalLen \in Nat /\ JournalLen' = JournalLen
    BY <1>1, <2>1, JournalStays
  <2>3. JournalLen' \in Nat /\ JournalLen <= JournalLen'
    BY <2>2
  <2>4. ReadersOK'
    BY <1>1, <2>1, <2>2, <2>3, ReadersStay
  <2> QED BY <1>1, <2>1, <2>2, <2>4 DEF Base, StepsOK
<1>4. ASSUME NEW c \in Readers, StreamStep(c) PROVE Base'
  <2>1. TypeOK' /\ ReadersOK' /\ UNCHANGED <<graph, journal>>
    BY <1>1, <1>4, StreamKeeps
  <2>2. pc' = pc /\ step' = step /\ events' = events
    BY <2>1 DEF graph, journal
  <2> QED BY <1>1, <2>1, <2>2, JournalStays DEF Base, StepsOK
<1>5. CASE UNCHANGED vars
  <2>1. /\ scene' = scene
        /\ UNCHANGED graph /\ UNCHANGED journal /\ UNCHANGED gate /\ UNCHANGED questions
        /\ UNCHANGED streams
    BY <1>5 DEF vars
  <2>2. TypeOK'
    BY <1>1, <2>1 DEF TypeOK, graph, journal, gate, questions, streams
  <2>3. events' = events /\ pc' = pc /\ step' = step
    BY <2>1 DEF graph, journal
  <2>4. JournalOK' /\ JournalLen \in Nat /\ JournalLen' = JournalLen
    BY <1>1, <2>3, JournalStays
  <2>5. JournalLen' \in Nat /\ JournalLen <= JournalLen'
    BY <2>4
  <2> QED BY <1>1, <2>1, <2>2, <2>3, <2>4, <2>5, ReadersStay DEF Base, StepsOK
<1> QED BY <1>2, <1>3, <1>4, <1>5 DEF Next, RunStep, StreamStep

LEMMA BaseAlways == Spec => []Base
<1>1. Init => Base
  BY BaseInit
<1>2. Base /\ [Next]_vars => Base'
  BY BaseNext
<1> QED BY <1>1, <1>2, PTL DEF Spec

\* A browser gets every event once and in order, however often it reconnects
\* (handleEvents in graphweb/http.go): a stream that is connected stands behind
\* the last event its browser got, so a batch can only continue there.
THEOREM EachEventOnceAlways == Spec => []EachEventOnce
<1>1. Base => EachEventOnce
  <2> SUFFICES ASSUME Base PROVE EachEventOnce
    OBVIOUS
  <2>1. scene.readers \subseteq Readers
    BY WebAssumption DEF Base, TypeOK
  <2> QED BY <2>1 DEF Base, ReadersOK, ReaderOK, EachEventOnce
<1> QED BY <1>1, BaseAlways, PTL

(***************************************************************************)
(* No press is lost                                                        *)
(***************************************************************************)
\* Every step of a run is of one that takes part.
LEMMA RunMoves ==
  ASSUME TypeOK, NEW r \in Runs, RunStep(r)
  PROVE  r \in scene.runs /\ \E w : pc' = [pc EXCEPT ![r] = w]
<1>1. CASE (\E n \in Nodes : RunStart(r, n)) \/ (\E n \in Nodes \cup {End} : NodeEnd(r, n))
  BY <1>1 DEF RunStart, NodeEnd, At, Go
<1>2. CASE EdgeTaken(r) \/ ReachEnd(r) \/ RunEnd(r) \/ Pass(r) \/ Before(r) \/ BreakpointHit(r)
           \/ Released(r)
  BY <1>2 DEF EdgeTaken, ReachEnd, EndWith, RunEnd, Pass, Before, Gated, BreakpointHit, Released, At, Go
<1>3. CASE Resumed(r) \/ NodeStart(r) \/ NodeFails(r) \/ Ask(r) \/ AskShow(r) \/ AskAnswered(r)
           \/ AskEnd(r)
  BY <1>3 DEF Resumed, NodeStart, NodeFails, EndWith, Ask, AskShow, AskAnswered, AskEnd, At, Go
<1>4. CASE Interrupt(r) \/ Mark(r) \/ Show(r) \/ EnsureOpen(r) \/ Reshow(r) \/ Resume(r)
  BY <1>4 DEF Interrupt, Mark, Show, EnsureOpen, Reshow, Resume, At, Go
<1>5. CASE TopCancelled(r) \/ GateCancelled(r) \/ AskCancelled(r) \/ WaitCancelled(r)
  BY <1>5 DEF TopCancelled, GateCancelled, AskCancelled, WaitCancelled, EndWith, At, Go
<1>6. CASE StartRouteFails(r) \/ RouteFails(r)
  BY <1>6 DEF StartRouteFails, RouteFails, EndWith, At, Go
<1>7. CASE BranchStep(r)
  <2>1. r \in scene.runs /\ pc' = [pc EXCEPT ![r] = pc[r]]
    BY <1>7, BranchKeeps DEF At, TypeOK
  <2> QED BY <2>1
<1> QED BY <1>6, <1>7, <1>1, <1>2, <1>3, <1>4, <1>5 DEF RunStep, Run, Cancelled

Stopping == {"hit", "gated"}

\* The channels: none is from the future, and a run that stops holds the one of
\* the time it began to, unless it was closed since.
GateOK == \A r \in Runs :
  /\ held[r] <= release
  /\ pc[r] \in Stopping => (pressed[r] <=> held[r] < release)

\* Only a run that begins to stop takes a channel, and only so does it stop.
LEMMA RunGates ==
  ASSUME TypeOK, NEW r \in Runs, RunStep(r)
  PROVE  /\ release' = release
         /\ \/ held' = held /\ pressed' = pressed /\ (pc'[r] \in Stopping => pc[r] \in Stopping)
            \/ /\ held' = [held EXCEPT ![r] = release]
               /\ pressed' = [pressed EXCEPT ![r] = FALSE]
<1>1. pc = [d \in Runs |-> pc[d]]
  BY DEF TypeOK
<1>2. CASE Before(r)
  BY <1>2 DEF Before
<1>3. CASE (\E n \in Nodes : RunStart(r, n)) \/ (\E n \in Nodes \cup {End} : NodeEnd(r, n))
  BY <1>1, <1>3 DEF RunStart, NodeEnd, Go, gate, Stopping
<1>4. CASE \/ StartRouteFails(r) \/ EdgeTaken(r) \/ ReachEnd(r) \/ RunEnd(r) \/ BreakpointHit(r)
           \/ Released(r)
  BY <1>1, <1>4 DEF StartRouteFails, EdgeTaken, ReachEnd, RunEnd, BreakpointHit, Released, EndWith,
                    At, Go, gate, Stopping
<1>5. CASE Pass(r)
  <2>1. pc'[r] \in {"resume", "start"} /\ UNCHANGED gate
    BY <1>1, <1>5 DEF Pass, Go
  <2> QED BY <2>1 DEF gate, Stopping
<1>6. CASE \/ Resumed(r) \/ NodeStart(r) \/ RouteFails(r) \/ NodeFails(r) \/ Ask(r) \/ AskShow(r)
           \/ AskAnswered(r) \/ AskEnd(r)
  BY <1>1, <1>6 DEF Resumed, NodeStart, RouteFails, NodeFails, Ask, AskShow, AskAnswered, AskEnd,
                    EndWith, Go, gate, Stopping
<1>7. CASE Interrupt(r) \/ EnsureOpen(r)
  <2>1. pc'[r] \in {"mark", "show", "wait", "reshow"} /\ UNCHANGED gate
    BY <1>1, <1>7 DEF Interrupt, EnsureOpen, Go
  <2> QED BY <2>1 DEF gate, Stopping
<1>8. CASE Mark(r) \/ Show(r) \/ Reshow(r) \/ Resume(r) \/ Cancelled(r)
  BY <1>1, <1>8 DEF Mark, Show, Reshow, Resume, Cancelled, TopCancelled, GateCancelled,
                    AskCancelled, WaitCancelled, EndWith, Go, gate, Stopping
<1>9. CASE BranchStep(r)
  BY <1>9, BranchKeeps DEF gate
<1> QED BY <1>2, <1>3, <1>4, <1>5, <1>6, <1>7, <1>8, <1>9 DEF RunStep, Run

LEMMA GateInit ==
  ASSUME Init
  PROVE  GateOK
BY DEF Init, GateOK, Stopping

LEMMA GateNext ==
  ASSUME Base, GateOK, [Next]_vars
  PROVE  GateOK'
<1>1. /\ TypeOK /\ release \in Nat /\ held \in [Runs -> Nat] /\ pressed \in [Runs -> BOOLEAN]
      /\ pc = [d \in Runs |-> pc[d]]
  BY DEF Base, TypeOK
<1>2. ASSUME NEW r \in Runs, RunStep(r) PROVE GateOK'
  <2>1. release' = release
    BY <1>1, <1>2, RunGates
  <2>2. \A d \in Runs \ {r} : pc'[d] = pc[d]
    <3>1. PICK w : pc' = [pc EXCEPT ![r] = w]
      BY <1>1, <1>2, RunMoves
    <3> QED BY <1>1, <3>1
  <2>3. CASE held' = held /\ pressed' = pressed /\ (pc'[r] \in Stopping => pc[r] \in Stopping)
    BY <2>1, <2>2, <2>3 DEF GateOK
  <2>4. CASE /\ held' = [held EXCEPT ![r] = release]
             /\ pressed' = [pressed EXCEPT ![r] = FALSE]
    BY <1>1, <2>1, <2>2, <2>4 DEF GateOK
  <2> QED BY <1>1, <1>2, <2>3, <2>4, RunGates
<1>3. ASSUME UNCHANGED gate, pc' = pc PROVE GateOK'
  BY <1>3 DEF GateOK, gate
<1>4. CASE Human
  <2>1. pc' = pc
    BY <1>1, <1>4, HumanTyped
  <2>2. ASSUME NEW action, Release(action) PROVE GateOK'
    <3>1. /\ release' = release + 1 /\ held' = held
          /\ pressed' = [r \in Runs |-> pressed[r] \/ pc[r] \in Stopping]
      BY <2>2 DEF Release, Stopping
    <3>2. ASSUME NEW r \in Runs
          PROVE  held[r] <= release + 1 /\ held[r] < release + 1
      BY <1>1 DEF GateOK
    <3> QED BY <2>1, <3>1, <3>2 DEF GateOK
  <2>3. CASE Answer
    BY <1>3, <2>1, <2>3 DEF Answer
  <2>4. CASE Pause
    BY <2>1, <2>4 DEF Pause, GateOK
  <2>5. ASSUME NEW nodes \in SUBSET Nodes, SetBreakpoints(nodes) PROVE GateOK'
    BY <2>1, <2>5 DEF SetBreakpoints, GateOK
  <2> QED BY <1>4, <2>2, <2>3, <2>4, <2>5 DEF Human
<1>5. ASSUME NEW c \in Readers, StreamStep(c) PROVE GateOK'
  <2>1. UNCHANGED <<graph, journal, gate, questions>>
    BY <1>5, StreamKeeps DEF Base
  <2> QED BY <1>3, <2>1 DEF graph
<1>6. CASE UNCHANGED vars
  <2>1. UNCHANGED graph /\ UNCHANGED gate
    BY <1>6 DEF vars
  <2> QED BY <1>3, <2>1 DEF graph
<1> QED BY <1>2, <1>4, <1>5, <1>6 DEF Next, RunStep, StreamStep

\* A run that stops may go on exactly if a step or continue was pressed since it
\* began to stop (Before and Control in graphweb/server.go): the channel it took
\* in the first critical section is the server's until the next press.
THEOREM ReleaseIsNeverLostAlways == Spec => []ReleaseIsNeverLost
<1>1. Init => Base /\ GateOK
  BY BaseInit, GateInit
<1>2. Base /\ GateOK /\ [Next]_vars => Base' /\ GateOK'
  BY BaseNext, GateNext
<1>3. Base /\ GateOK => ReleaseIsNeverLost
  <2> SUFFICES ASSUME Base, GateOK, NEW r \in scene.runs, pc[r] \in {"hit", "gated"}
               PROVE  pressed[r] <=> held[r] < release
    BY DEF ReleaseIsNeverLost
  <2>1. r \in Runs
    BY WebAssumption DEF Base, TypeOK
  <2> QED BY <2>1 DEF GateOK, Stopping
<1> QED BY <1>1, <1>2, <1>3, PTL DEF Spec

(***************************************************************************)
(* Questions                                                               *)
(***************************************************************************)
\* A run at control point w is somebody who waits for a human.
WaitsAt(r, w) ==
  w \in {"askshow", "askwait", "reshow", "wait"} \/ (r \in Observed /\ w \in {"show", "paused"})

\* As one run moves, the askers become one more or one less, or stay.
LEMMA OneAsker ==
  ASSUME TypeOK, NEW r \in scene.runs, scene' = scene, NEW w, pc' = [pc EXCEPT ![r] = w]
  PROVE  /\ Cardinality(Askers) \in Nat /\ Cardinality(Askers') \in Nat
         /\ Cardinality(Askers') + (IF WaitsAt(r, pc[r]) THEN 1 ELSE 0)
            = Cardinality(Askers) + (IF WaitsAt(r, w) THEN 1 ELSE 0)
<1>1. scene.runs \subseteq Runs /\ IsFiniteSet(scene.runs)
  BY WebAssumption DEF TypeOK
<1>2. PICK B : B = Askers \ {r}
  OBVIOUS
<1>3. \A d \in scene.runs : Asking(d) <=> WaitsAt(d, pc[d])
  BY DEF Asking, WaitsAt
<1>4. \A d \in scene.runs : Asking(d)' <=> WaitsAt(d, pc'[d])
  BY DEF Asking, WaitsAt
<1>5. pc'[r] = w /\ \A d \in Runs \ {r} : pc'[d] = pc[d]
  BY <1>1 DEF TypeOK
<1>6. IsFiniteSet(B) /\ r \notin B
  BY <1>1, <1>2, FS_Subset DEF Askers
<1>7. Askers = IF WaitsAt(r, pc[r]) THEN B \cup {r} ELSE B
  BY <1>2, <1>3 DEF Askers
<1>8. Askers' = {d \in scene.runs : WaitsAt(d, pc'[d])}
  BY <1>4 DEF Askers
<1>9. Askers' = IF WaitsAt(r, w) THEN B \cup {r} ELSE B
  BY <1>1, <1>2, <1>3, <1>5, <1>8 DEF Askers
<1>10. Cardinality(B) \in Nat /\ Cardinality(B \cup {r}) = Cardinality(B) + 1
  BY <1>6, FS_AddElement, FS_CardinalityType
<1> QED BY <1>7, <1>9, <1>10

\* Arithmetic of the count.
LEMMA AddUp ==
  ASSUME NEW a \in Nat, NEW b \in Nat, NEW c \in Nat
  PROVE  a + b + c \in Nat
OBVIOUS

LEMMA OneLess ==
  ASSUME NEW a \in Nat, NEW b \in Nat, NEW c \in Nat, NEW k \in Nat, c + 1 = b + k
  PROVE  (a + c + 0) + 1 = a + b + k
OBVIOUS

\* The count is one.
LEMMA DueTyped ==
  ASSUME TypeOK, TypeOK'
  PROVE  Due \in Nat /\ Due' \in Nat /\ orphans \in Nat /\ orphans' \in Nat
<1>1. open \in Nat /\ queued \in Nat /\ orphans \in Nat
  BY WebAssumption DEF TypeOK
<1>2. open' \in Nat /\ queued' \in Nat /\ orphans' \in Nat
  BY WebAssumption DEF TypeOK
<1>3. PICK k \in Nat : k = IF wedged THEN 1 ELSE 0
  OBVIOUS
<1>4. PICK l \in Nat : l = IF wedged' THEN 1 ELSE 0
  OBVIOUS
<1>5. Due = open + queued + k /\ Due' = open' + queued' + l
  BY <1>3, <1>4 DEF Due
<1> QED BY <1>1, <1>2, <1>5, AddUp

\* Answers and questions balance when a run moves as the count says.
LEMMA Balanced ==
  ASSUME TypeOK, TypeOK', Counted, NEW r \in scene.runs, scene' = scene,
         NEW w, pc' = [pc EXCEPT ![r] = w],
         Due' + orphans + (IF WaitsAt(r, pc[r]) THEN 1 ELSE 0)
           = Due + orphans' + (IF WaitsAt(r, w) THEN 1 ELSE 0)
  PROVE  Counted'
<1>1. Due \in Nat /\ Due' \in Nat /\ orphans \in Nat /\ orphans' \in Nat
  BY DueTyped
<1>2. /\ Cardinality(Askers) \in Nat /\ Cardinality(Askers') \in Nat
      /\ Cardinality(Askers') + (IF WaitsAt(r, pc[r]) THEN 1 ELSE 0)
         = Cardinality(Askers) + (IF WaitsAt(r, w) THEN 1 ELSE 0)
  BY OneAsker
<1>3. Due = Cardinality(Askers) + orphans
  BY DEF Counted
<1>4. Due' = Cardinality(Askers') + orphans'
  BY <1>1, <1>2, <1>3
<1> QED BY <1>4 DEF Counted

\* A question opened, one answered, and one of an asker that has gone.
LEMMA DueOf ==
  ASSUME TypeOK
  PROVE  /\ Due \in Nat /\ orphans \in Nat
         /\ MarkOpen => Due' = Due + 1 /\ orphans' = orphans
         /\ Receive => Due' + 1 = Due /\ orphans' = orphans
         /\ Abandon => Due' = Due /\ orphans' = orphans + 1
         /\ UNCHANGED questions => Due' = Due /\ orphans' = orphans
<1>1. open \in Nat /\ queued \in 0..AnswersCap /\ orphans \in Nat /\ AnswersCap \in Nat
  BY WebAssumption DEF TypeOK
<1>2. PICK k \in Nat : k = IF wedged THEN 1 ELSE 0
  OBVIOUS
<1>3. Due = open + queued + k
  BY <1>2 DEF Due
<1>4. MarkOpen => Due' = Due + 1 /\ orphans' = orphans
  <2> SUFFICES ASSUME MarkOpen PROVE Due' = Due + 1 /\ orphans' = orphans
    OBVIOUS
  <2>1. open' = open + 1 /\ queued' = queued /\ wedged' = wedged /\ orphans' = orphans
    BY DEF MarkOpen
  <2>2. Due' = (open + 1) + queued + k
    BY <1>2, <2>1 DEF Due
  <2> QED BY <1>1, <1>3, <2>1, <2>2
<1>5. Receive => Due' + 1 = Due /\ orphans' = orphans
  <2> SUFFICES ASSUME Receive PROVE Due' + 1 = Due /\ orphans' = orphans
    OBVIOUS
  <2>1. /\ queued' \in 0..AnswersCap /\ wedged' = FALSE /\ open' = open /\ orphans' = orphans
        /\ queued' + 1 = queued + k
    BY <1>2, Received
  <2>2. Due' = open + queued' + 0
    BY <2>1 DEF Due
  <2>3. queued' + 1 = queued + k /\ queued' \in 0..AnswersCap
    BY <2>1
  <2>4. Due' + 1 = Due
    <3>1. queued \in Nat /\ queued' \in Nat
      BY <1>1, <2>3
    <3>2. (open + queued' + 0) + 1 = open + queued + k
      <4>1. PICK c \in Nat : c = queued'
        BY <3>1
      <4>2. c + 1 = queued + k
        BY <2>3, <4>1
      <4>3. (open + c + 0) + 1 = open + queued + k
        BY <1>1, <3>1, <4>2, OneLess
      <4> QED BY <4>1, <4>3
    <3> QED BY <1>3, <2>2, <3>2
  <2> QED BY <2>1, <2>4
<1>6. Abandon => Due' = Due /\ orphans' = orphans + 1
  BY DEF Abandon, Due
<1>7. UNCHANGED questions => Due' = Due /\ orphans' = orphans
  BY DEF questions, Due
<1> QED BY <1>1, <1>3, <1>4, <1>5, <1>6, <1>7

\* A run that pauses without observer finds no question open: it is alone.
LEMMA NoneOpen ==
  ASSUME TypeOK, Counted, AloneOK, Surfaced(scene),
         NEW r \in scene.runs, r \notin Observed, pc[r] = "paused"
  PROVE  open = 0
<1>1. r \in Runs /\ scene.runs = {r}
  <2>1. r \in Runs
    BY WebAssumption DEF TypeOK
  <2> QED BY <2>1 DEF Surfaced
<1>2. Askers = {} /\ orphans = 0
  BY <1>1 DEF Askers, Asking, AloneOK
<1>3. Cardinality(Askers) + orphans = 0
  BY <1>2, FS_EmptySet
<1>4. open \in Nat /\ queued \in Nat
  BY WebAssumption DEF TypeOK
<1>5. PICK k \in Nat : k = IF wedged THEN 1 ELSE 0
  OBVIOUS
<1>6. open + queued + k = 0
  BY <1>3, <1>5 DEF Counted, Due
<1> QED BY <1>4, <1>6

LEMMA CountedRun ==
  ASSUME Base, Base', Questions, Surfaced(scene), NEW r \in Runs, RunStep(r)
  PROVE  Counted'
<1>1. /\ TypeOK /\ TypeOK' /\ Counted /\ AloneOK /\ StepsOK
      /\ scene' = scene /\ r \in scene.runs
  BY RunEmits, RunMoves DEF Base, Questions
<1>2. /\ Due \in Nat /\ orphans \in Nat
      /\ MarkOpen => Due' = Due + 1 /\ orphans' = orphans
      /\ Receive => Due' + 1 = Due /\ orphans' = orphans
      /\ Abandon => Due' = Due /\ orphans' = orphans + 1
      /\ UNCHANGED questions => Due' = Due /\ orphans' = orphans
  BY <1>1, DueOf
\* What the count needs to know of each step.
<1> DEFINE Kept(w) == pc' = [pc EXCEPT ![r] = w] /\ Due' = Due /\ orphans' = orphans
                      /\ (WaitsAt(r, w) <=> WaitsAt(r, pc[r]))
<1>3. ASSUME NEW w, Kept(w) PROVE Counted'
  BY <1>1, <1>2, <1>3, Balanced
<1>4. ASSUME NEW w, pc' = [pc EXCEPT ![r] = w], Due' = Due + 1, orphans' = orphans,
             WaitsAt(r, w), ~WaitsAt(r, pc[r])
      PROVE  Counted'
  <2>1. (IF WaitsAt(r, w) THEN 1 ELSE 0) = 1 /\ (IF WaitsAt(r, pc[r]) THEN 1 ELSE 0) = 0
    BY <1>4
  <2>2. Due' + orphans + 0 = Due + orphans' + 1
    BY <1>2, <1>4
  <2> QED BY <1>1, <1>4, <2>1, <2>2, Balanced
<1>5. ASSUME NEW w, pc' = [pc EXCEPT ![r] = w], Due' + 1 = Due, orphans' = orphans,
             ~WaitsAt(r, w), WaitsAt(r, pc[r])
      PROVE  Counted'
  <2>1. (IF WaitsAt(r, w) THEN 1 ELSE 0) = 0 /\ (IF WaitsAt(r, pc[r]) THEN 1 ELSE 0) = 1
    BY <1>5
  <2>2. Due' \in Nat
    BY <1>1, DueTyped
  <2>3. Due' + orphans + 1 = Due + orphans' + 0
    <3>1. PICK d \in Nat : d = Due'
      BY <2>2
    <3>2. d + 1 = Due
      BY <1>5, <3>1
    <3>3. d + orphans + 1 = Due + orphans + 0
      BY <1>2, <3>2
    <3> QED BY <1>5, <3>1, <3>3
  <2> QED BY <1>1, <1>5, <2>1, <2>3, Balanced
<1>6. ASSUME NEW w, pc' = [pc EXCEPT ![r] = w], Due' = Due, orphans' = orphans + 1,
             ~WaitsAt(r, w), WaitsAt(r, pc[r])
      PROVE  Counted'
  <2>1. (IF WaitsAt(r, w) THEN 1 ELSE 0) = 0 /\ (IF WaitsAt(r, pc[r]) THEN 1 ELSE 0) = 1
    BY <1>6
  <2>2. Due' + orphans + 1 = Due + orphans' + 0
    BY <1>2, <1>6
  <2> QED BY <1>1, <1>6, <2>1, <2>2, Balanced
<1>7. CASE \E n \in Nodes : RunStart(r, n)
  <2>1. Kept("edge")
    BY <1>2, <1>7 DEF RunStart, At, Go, WaitsAt
  <2> QED BY <1>3, <2>1
<1>8. CASE StartRouteFails(r) \/ EdgeTaken(r) \/ ReachEnd(r) \/ RunEnd(r) \/ Pass(r)
  <2>1. PICK w \in {"top", "finish", "over", "resume", "start"} : pc' = [pc EXCEPT ![r] = w]
    BY <1>8 DEF StartRouteFails, EdgeTaken, ReachEnd, EndWith, RunEnd, Pass, Go
  <2>2. UNCHANGED questions /\ pc[r] \in {"new", "edge", "top", "finish"}
    BY <1>8 DEF StartRouteFails, EdgeTaken, ReachEnd, RunEnd, Pass, At
  <2>3. Kept(w)
    BY <1>2, <2>1, <2>2 DEF WaitsAt
  <2> QED BY <1>3, <2>3
<1>9. CASE Before(r) \/ BreakpointHit(r) \/ Released(r) \/ Resumed(r) \/ NodeStart(r)
  <2>1. PICK w \in {"hit", "gated", "start", "node"} : pc' = [pc EXCEPT ![r] = w]
    BY <1>9 DEF Before, BreakpointHit, Released, Resumed, NodeStart, Go
  <2>2. UNCHANGED questions /\ pc[r] \in {"top", "hit", "gated", "resume", "start"}
    BY <1>9 DEF Before, Gated, BreakpointHit, Released, Resumed, NodeStart, At
  <2>3. Kept(w)
    BY <1>2, <2>1, <2>2 DEF WaitsAt
  <2> QED BY <1>3, <2>3
<1>10. CASE RouteFails(r) \/ NodeFails(r) \/ \E n \in Nodes \cup {End} : NodeEnd(r, n)
  <2>1. PICK w \in {"edge", "finish"} : pc' = [pc EXCEPT ![r] = w]
    BY <1>10 DEF RouteFails, NodeFails, NodeEnd, EndWith, Go
  <2>2. UNCHANGED questions /\ pc[r] = "node"
    BY <1>10 DEF RouteFails, NodeFails, NodeEnd, At
  <2>3. Kept(w)
    BY <1>2, <2>1, <2>2 DEF WaitsAt
  <2> QED BY <1>3, <2>3
<1>11. CASE AskShow(r) \/ AskEnd(r) \/ Reshow(r)
  <2>1. PICK w \in {"askwait", "node", "wait"} :
          /\ pc' = [pc EXCEPT ![r] = w] /\ UNCHANGED questions
          /\ \/ pc[r] = "askshow" /\ w = "askwait"
             \/ pc[r] = "askend" /\ w = "node"
             \/ pc[r] = "reshow" /\ w = "wait"
    BY <1>11 DEF AskShow, AskEnd, Reshow, At, Go
  <2>2. Kept(w)
    BY <1>2, <2>1 DEF WaitsAt
  <2> QED BY <1>3, <2>2
<1>12. CASE Show(r)
  <2>1. Kept("paused")
    BY <1>2, <1>12 DEF Show, At, Go, WaitsAt
  <2> QED BY <1>3, <2>1
<1>13. CASE Interrupt(r)
  <2>1. PICK w : /\ pc' = [pc EXCEPT ![r] = w] /\ UNCHANGED questions /\ pc[r] = "node"
                 /\ w = IF r \in Observed THEN "mark" ELSE "show"
    BY <1>13 DEF Interrupt, At, Go
  <2>2. ~WaitsAt(r, w) /\ ~WaitsAt(r, pc[r])
    BY <2>1 DEF WaitsAt
  <2>3. Kept(w)
    BY <1>2, <2>1, <2>2
  <2> QED BY <1>3, <2>3
<1>14. CASE Ask(r)
  <2>1. pc' = [pc EXCEPT ![r] = "askshow"] /\ MarkOpen /\ pc[r] = "node"
    BY <1>14 DEF Ask, At, Go
  <2> QED BY <1>2, <1>4, <2>1 DEF WaitsAt
<1>15. CASE Mark(r)
  <2>1. pc' = [pc EXCEPT ![r] = "show"] /\ MarkOpen /\ pc[r] = "mark" /\ r \in Observed
    BY <1>1, <1>15 DEF Mark, At, Go, StepsOK
  <2> QED BY <1>2, <1>4, <2>1 DEF WaitsAt
<1>16. CASE AskAnswered(r)
  <2>1. pc' = [pc EXCEPT ![r] = "askend"] /\ Receive /\ pc[r] = "askwait"
    BY <1>16 DEF AskAnswered, At, Go
  <2> QED BY <1>2, <1>5, <2>1 DEF WaitsAt
<1>17. CASE Resume(r)
  <2>1. pc' = [pc EXCEPT ![r] = "top"] /\ Receive /\ pc[r] = "wait"
    BY <1>17 DEF Resume, At, Go
  <2> QED BY <1>2, <1>5, <2>1 DEF WaitsAt
<1>18. CASE TopCancelled(r) \/ GateCancelled(r)
  <2>1. pc' = [pc EXCEPT ![r] = "finish"] /\ pc[r] \in {"top", "gated"}
    BY <1>18 DEF TopCancelled, GateCancelled, EndWith, At, Go
  <2>2. Due' = Due /\ orphans' = orphans
    BY <1>18 DEF TopCancelled, GateCancelled, Due
  <2>3. Kept("finish")
    BY <2>1, <2>2 DEF WaitsAt
  <2> QED BY <1>3, <2>3
<1>19. CASE AskCancelled(r)
  <2>1. pc' = [pc EXCEPT ![r] = "finish"] /\ Abandon /\ pc[r] = "askwait"
    BY <1>19 DEF AskCancelled, EndWith, At, Go
  <2> QED BY <1>2, <1>6, <2>1 DEF WaitsAt
<1>20. CASE WaitCancelled(r)
  <2>1. pc' = [pc EXCEPT ![r] = "over"] /\ Abandon /\ pc[r] = "wait"
    BY <1>20 DEF WaitCancelled, At, Go
  <2> QED BY <1>2, <1>6, <2>1 DEF WaitsAt
<1>21. CASE EnsureOpen(r)
  <2>1. pc[r] = "paused"
    BY <1>21 DEF EnsureOpen, At
  <2>2. CASE open > 0
    <3>1. pc' = [pc EXCEPT ![r] = "wait"] /\ UNCHANGED questions
      BY <1>21, <2>2 DEF EnsureOpen, Go
    <3>2. r \in Observed
      BY <1>1, <2>1, <2>2, NoneOpen
    <3>3. Kept("wait")
      BY <1>2, <2>1, <3>1, <3>2 DEF WaitsAt
    <3> QED BY <1>3, <3>3
  <2>3. CASE ~(open > 0)
    <3>1. /\ pc' = [pc EXCEPT ![r] = "reshow"] /\ open' = 1 /\ queued' = queued /\ wedged' = wedged
          /\ orphans' = orphans + (IF r \in Observed THEN 1 ELSE 0)
      BY <1>21, <2>3 DEF EnsureOpen, Go
    <3>2. open = 0 /\ queued \in Nat
      BY <1>1, <2>3, WebAssumption DEF TypeOK
    <3>3. PICK k \in Nat : k = IF wedged THEN 1 ELSE 0
      OBVIOUS
    <3>4. Due = 0 + queued + k /\ Due' = 1 + queued + k
      BY <3>1, <3>2, <3>3 DEF Due
    <3>5. Due' = Due + 1
      BY <3>2, <3>4
    <3>6. CASE r \in Observed
      <4>1. WaitsAt(r, "reshow") /\ WaitsAt(r, pc[r])
        BY <2>1, <3>6 DEF WaitsAt
      <4>2. /\ (IF WaitsAt(r, "reshow") THEN 1 ELSE 0) = 1
            /\ (IF WaitsAt(r, pc[r]) THEN 1 ELSE 0) = 1
        BY <4>1
      <4>3. orphans' = orphans + 1
        BY <3>1, <3>6
      <4>4. Due' + orphans + 1 = Due + orphans' + 1
        BY <1>2, <3>5, <4>3
      <4> QED BY <1>1, <3>1, <4>2, <4>4, Balanced
    <3>7. CASE r \notin Observed
      <4>1. WaitsAt(r, "reshow") /\ ~WaitsAt(r, pc[r])
        BY <2>1, <3>7 DEF WaitsAt
      <4>2. orphans' = orphans
        BY <1>2, <3>1, <3>7
      <4> QED BY <1>4, <3>1, <3>5, <4>1, <4>2
    <3> QED BY <3>6, <3>7
  <2> QED BY <2>2, <2>3
<1>22. CASE BranchStep(r)
  <2>1. pc' = [pc EXCEPT ![r] = pc[r]] /\ UNCHANGED questions
    BY <1>1, <1>22, BranchKeeps DEF TypeOK
  <2>2. Kept(pc[r])
    BY <1>2, <2>1
  <2> QED BY <1>3, <2>2
<1> QED BY <1>22, <1>7, <1>8, <1>9, <1>10, <1>11, <1>12, <1>13, <1>14, <1>15, <1>16, <1>17, <1>18, <1>19,
           <1>20, <1>21 DEF RunStep, Run, Cancelled

\* An interrupt that reaches the journal is the last word on its run's questions.
LEMMA ShowsQuestion ==
  ASSUME JournalOK, NEW r \in Runs, NEW ev, Emit(r, ev), ev.type = "interrupt",
         r \in Observed \/ ev.by # "observer"
  PROVE  Shown(r)'
<1>1. ASequence(events[r]) /\ events'[r] = Append(events[r], ev)
  BY Emitted DEF JournalOK
<1>2. PICK n \in Nat : n = Len(events[r])
  BY <1>1 DEF ASequence
<1>3. Len(events'[r]) = n + 1 /\ events'[r][n + 1] = ev
  BY <1>1, <1>2, Appended
<1>4. n + 1 \in 1..Len(events'[r]) /\ ((n + 1) + 1)..Len(events'[r]) = {}
  BY <1>3
<1> QED BY <1>3, <1>4 DEF Shown

LEMMA ShownRun ==
  ASSUME Base, Questions, Surfaced(scene), NEW r \in Runs, RunStep(r)
  PROVE  ShownOK'
<1>1. /\ TypeOK /\ JournalOK /\ Counted /\ AloneOK /\ ShownOK
      /\ scene' = scene /\ r \in scene.runs
  BY RunEmits, RunMoves DEF Base, Questions
<1>2. PICK w : pc' = [pc EXCEPT ![r] = w]
  BY <1>1, RunMoves
<1>3. pc'[r] = w /\ \A d \in Runs \ {r} : pc'[d] = pc[d]
  BY <1>1, <1>2 DEF TypeOK
<1>4. events' = events \/ \A d \in Runs \ {r} : events'[d] = events[d]
  BY <1>1, RunEmits, Emitted
<1>5. ASSUME w \in {"askwait", "wait"} \/ (w = "paused" /\ r \in Observed) => Shown(r)'
      PROVE  ShownOK'
  <2>1. scene.runs \subseteq Runs
    BY <1>1, WebAssumption DEF TypeOK
  <2>2. ASSUME NEW d \in scene.runs \ {r},
               pc'[d] \in {"askwait", "wait"} \/ (pc'[d] = "paused" /\ d \in Observed)
        PROVE  Shown(d)'
    <3>1. Shown(d)
      BY <1>1, <1>3, <2>1, <2>2 DEF ShownOK
    <3>2. events'[d] = events[d]
      BY <1>4, <2>1
    <3> QED BY <3>1, <3>2 DEF Shown
  <2> QED BY <1>1, <1>3, <1>5, <2>2 DEF ShownOK
<1>6. ASSUME w \notin {"askwait", "wait", "paused"} PROVE ShownOK'
  BY <1>5, <1>6
<1>7. CASE (\E n \in Nodes : RunStart(r, n)) \/ (\E n \in Nodes \cup {End} : NodeEnd(r, n))
  <2>1. pc' = [pc EXCEPT ![r] = "edge"]
    BY <1>7 DEF RunStart, NodeEnd, Go
  <2>2. w = "edge"
    BY <1>1, <1>3, <2>1 DEF TypeOK
  <2> QED BY <1>6, <2>2
<1>8. CASE StartRouteFails(r) \/ EdgeTaken(r) \/ ReachEnd(r) \/ RunEnd(r) \/ Pass(r) \/ Before(r) \/ BreakpointHit(r)
  <2>1. \E v \in {"top", "finish", "over", "resume", "start", "hit", "gated"} :
          pc' = [pc EXCEPT ![r] = v]
    BY <1>8 DEF StartRouteFails, EdgeTaken, ReachEnd, EndWith, RunEnd, Pass, Before, BreakpointHit, Go
  <2>2. w \in {"top", "finish", "over", "resume", "start", "hit", "gated"}
    BY <1>1, <1>3, <2>1 DEF TypeOK
  <2> QED BY <1>6, <2>2
<1>9. CASE Released(r) \/ RouteFails(r) \/ Resumed(r) \/ NodeStart(r) \/ NodeFails(r) \/ Ask(r) \/ AskAnswered(r)
  <2>1. \E v \in {"start", "node", "finish", "askshow", "askend"} : pc' = [pc EXCEPT ![r] = v]
    BY <1>9 DEF Released, RouteFails, Resumed, NodeStart, NodeFails, EndWith, Ask, AskAnswered, Go
  <2>2. w \in {"start", "node", "finish", "askshow", "askend"}
    BY <1>1, <1>3, <2>1 DEF TypeOK
  <2> QED BY <1>6, <2>2
<1>10. CASE AskEnd(r) \/ Interrupt(r) \/ Mark(r) \/ Resume(r)
  <2>1. \E v \in {"node", "mark", "show", "top"} : pc' = [pc EXCEPT ![r] = v]
    BY <1>10 DEF AskEnd, Interrupt, Mark, Resume, Go
  <2>2. w \in {"node", "mark", "show", "top"}
    BY <1>1, <1>3, <2>1 DEF TypeOK
  <2> QED BY <1>6, <2>2
<1>11. CASE TopCancelled(r) \/ GateCancelled(r) \/ AskCancelled(r) \/ WaitCancelled(r)
  <2>1. \E v \in {"finish", "over"} : pc' = [pc EXCEPT ![r] = v]
    BY <1>11 DEF TopCancelled, GateCancelled, AskCancelled, WaitCancelled, EndWith, Go
  <2>2. w \in {"finish", "over"}
    BY <1>1, <1>3, <2>1 DEF TypeOK
  <2> QED BY <1>6, <2>2
<1>12. CASE AskShow(r) \/ Reshow(r)
  <2>1. PICK ev : /\ Emit(r, ev) /\ ev = [Event("interrupt", cur[r], step[r]) EXCEPT !.by = "caller"]
    BY <1>12 DEF AskShow, Reshow
  <2>2. ev.type = "interrupt" /\ ev.by # "observer"
    BY <2>1 DEF Event
  <2>3. Shown(r)'
    BY <1>1, <2>1, <2>2, ShowsQuestion
  <2> QED BY <1>5, <2>3
<1>13. CASE Show(r)
  <2>1. w = "paused"
    BY <1>1, <1>3, <1>13 DEF Show, Go, TypeOK
  <2>2. PICK ev : Emit(r, ev) /\ ev = Event("interrupt", cur[r], step[r])
    BY <1>13 DEF Show
  <2>3. ev.type = "interrupt"
    BY <2>2 DEF Event
  <2>4. r \in Observed => Shown(r)'
    BY <1>1, <2>2, <2>3, ShowsQuestion
  <2> QED BY <1>5, <2>1, <2>4
<1>14. CASE EnsureOpen(r)
  <2>1. pc[r] = "paused" /\ events' = events
    BY <1>14 DEF EnsureOpen, At, journal
  <2>2. CASE open > 0
    <3>1. r \in Observed
      BY <1>1, <2>1, <2>2, NoneOpen
    <3>2. Shown(r)
      BY <1>1, <2>1, <3>1 DEF ShownOK
    <3>3. Shown(r)'
      BY <2>1, <3>2 DEF Shown
    <3> QED BY <1>5, <3>3
  <2>3. CASE ~(open > 0)
    <3>1. pc' = [pc EXCEPT ![r] = "reshow"]
      BY <1>14, <2>3 DEF EnsureOpen, Go
    <3>2. w = "reshow"
      BY <1>1, <1>3, <3>1 DEF TypeOK
    <3> QED BY <1>6, <3>2
  <2> QED BY <2>2, <2>3
<1>15. CASE BranchStep(r)
  <2>1. pc[r] = "node" /\ pc' = pc
    BY <1>15, BranchKeeps DEF At
  <2> QED BY <1>3, <1>6, <2>1
<1> QED BY <1>15, <1>7, <1>8, <1>9, <1>10, <1>11, <1>12, <1>13, <1>14 DEF RunStep, Run, Cancelled

LEMMA AloneRun ==
  ASSUME Base, Questions, NEW r \in Runs, RunStep(r)
  PROVE  AloneOK'
<1>1. TypeOK /\ AloneOK /\ scene' = scene /\ r \in scene.runs
  BY RunEmits, RunMoves DEF Base, Questions
<1>2. r \notin Observed
      => pc'[r] \in {"finish", "over"} \/ (orphans' = orphans /\ pc[r] \notin {"finish", "over"})
  <2> SUFFICES ASSUME r \notin Observed
               PROVE  \/ pc'[r] \in {"finish", "over"}
                      \/ orphans' = orphans /\ pc[r] \notin {"finish", "over"}
    OBVIOUS
  <2>1. CASE (\E n \in Nodes : RunStart(r, n)) \/ (\E n \in Nodes \cup {End} : NodeEnd(r, n))
    BY <2>1 DEF RunStart, NodeEnd, At, questions
  <2>2. CASE EdgeTaken(r) \/ Pass(r) \/ Before(r) \/ BreakpointHit(r) \/ Released(r)
    BY <2>2 DEF EdgeTaken, Pass, Before, Gated, BreakpointHit, Released, At, questions
  <2>3. CASE Resumed(r) \/ NodeStart(r) \/ Ask(r) \/ AskShow(r) \/ AskAnswered(r) \/ AskEnd(r)
    BY <2>3 DEF Resumed, NodeStart, Ask, MarkOpen, AskShow, AskAnswered, Receive, AskEnd, At, questions
  <2>4. CASE Interrupt(r) \/ Mark(r) \/ Show(r) \/ Reshow(r) \/ Resume(r)
    BY <2>4 DEF Interrupt, Mark, MarkOpen, Show, Reshow, Resume, Receive, At, questions
  <2>5. CASE EnsureOpen(r)
    <3>1. orphans \in Nat /\ pc[r] = "paused"
      BY <1>1, <2>5 DEF TypeOK, EnsureOpen, At
    <3>2. orphans' = orphans \/ orphans' = orphans + 0
      BY <2>5 DEF EnsureOpen, questions
    <3> QED BY <3>1, <3>2
  <2>6. CASE \/ StartRouteFails(r) \/ ReachEnd(r) \/ RouteFails(r) \/ NodeFails(r)
             \/ TopCancelled(r) \/ GateCancelled(r) \/ AskCancelled(r)
    <3>1. pc' = [pc EXCEPT ![r] = "finish"]
      BY <2>6 DEF StartRouteFails, ReachEnd, RouteFails, NodeFails, TopCancelled, GateCancelled,
                    AskCancelled, EndWith, Go
    <3> QED BY <1>1, <3>1 DEF TypeOK
  <2>7. CASE RunEnd(r) \/ WaitCancelled(r)
    <3>1. pc' = [pc EXCEPT ![r] = "over"]
      BY <2>7 DEF RunEnd, WaitCancelled, Go
    <3> QED BY <1>1, <3>1 DEF TypeOK
  <2>8. CASE BranchStep(r)
    BY <2>8, BranchKeeps DEF At, questions
  <2> QED BY <2>8, <2>1, <2>2, <2>3, <2>4, <2>5, <2>6, <2>7 DEF RunStep, Run, Cancelled
<1> QED BY <1>1, <1>2 DEF AloneOK

LEMMA QuestionsInit ==
  ASSUME Init
  PROVE  Questions
<1>1. \A r \in Runs : pc[r] = "new"
  BY DEF Init
<1>2. scene.runs \subseteq Runs
  BY WebAssumption DEF Init
<1>3. Askers = {}
  BY <1>1, <1>2 DEF Askers, Asking
<1>4. Counted
  <2>1. Cardinality(Askers) = 0
    BY <1>3, FS_EmptySet
  <2>2. open = 0 /\ queued = 0 /\ ~wedged /\ orphans = 0
    BY DEF Init
  <2>3. Due = 0
    BY <2>2 DEF Due
  <2> QED BY <2>1, <2>2, <2>3 DEF Counted
<1> QED BY <1>1, <1>2, <1>4 DEF Questions, ShownOK, AloneOK, Init

\* What is unchanged where no run moves.
LEMMA QuestionsStay ==
  ASSUME Questions, scene' = scene, pc' = pc, events' = events, Due' = Due, orphans' = orphans
  PROVE  Questions'
<1>1. Askers' = Askers
  BY DEF Askers, Asking
<1>2. Counted'
  BY <1>1 DEF Questions, Counted
<1>3. ShownOK'
  BY DEF Questions, ShownOK, Shown
<1>4. AloneOK'
  BY DEF Questions, AloneOK
<1> QED BY <1>2, <1>3, <1>4 DEF Questions

\* Answer moves a question from the open ones to the answers under way.
LEMMA HumanCounts ==
  ASSUME TypeOK, Human
  PROVE  Due' = Due /\ orphans' = orphans
<1>1. CASE Answer
  <2>1. open \in Nat /\ queued \in Nat /\ open > 0 /\ open' = open - 1 /\ orphans' = orphans
    BY <1>1, WebAssumption DEF TypeOK, Answer
  <2>2. CASE queued < AnswersCap
    <3>1. queued' = queued + 1 /\ wedged' = wedged
      BY <1>1, <2>2 DEF Answer
    <3>2. PICK k \in Nat : k = IF wedged THEN 1 ELSE 0
      OBVIOUS
    <3>3. Due = open + queued + k /\ Due' = (open - 1) + (queued + 1) + k
      BY <2>1, <3>1, <3>2 DEF Due
    <3> QED BY <2>1, <3>3
  <2>3. CASE ~(queued < AnswersCap)
    <3>1. queued' = queued /\ wedged' = TRUE /\ ~wedged
      BY <1>1, <2>3 DEF Answer
    <3>2. Due = open + queued + 0 /\ Due' = (open - 1) + queued + 1
      BY <2>1, <3>1 DEF Due
    <3> QED BY <2>1, <3>2
  <2> QED BY <2>2, <2>3
<1>2. CASE Pause
  BY <1>2 DEF Pause, questions, Due
<1>3. ASSUME NEW action, Release(action) PROVE Due' = Due /\ orphans' = orphans
  BY <1>3 DEF Release, questions, Due
<1>4. ASSUME NEW nodes \in SUBSET Nodes, SetBreakpoints(nodes)
      PROVE  Due' = Due /\ orphans' = orphans
  BY <1>4 DEF SetBreakpoints, questions, Due
<1> QED BY <1>1, <1>2, <1>3, <1>4 DEF Human

LEMMA QuestionsNext ==
  ASSUME \A s \in Scenes : Surfaced(s), Base, Questions, [Next]_vars
  PROVE  Questions'
<1>1. TypeOK /\ Base' /\ Surfaced(scene)
  BY BaseNext DEF Base, TypeOK
<1>2. ASSUME NEW r \in Runs, RunStep(r) PROVE Questions'
  BY <1>1, <1>2, CountedRun, ShownRun, AloneRun DEF Questions
<1>3. CASE Human
  BY <1>1, <1>3, HumanTyped, HumanCounts, QuestionsStay
<1>4. ASSUME NEW c \in Readers, StreamStep(c) PROVE Questions'
  <2>1. scene' = scene /\ UNCHANGED <<graph, journal, gate, questions>>
    BY <1>4, StreamKeeps DEF Base
  <2> QED BY <2>1, QuestionsStay DEF graph, journal, questions, Due
<1>5. CASE UNCHANGED vars
  <2>1. scene' = scene /\ UNCHANGED graph /\ UNCHANGED journal /\ UNCHANGED questions
    BY <1>5 DEF vars
  <2> QED BY <2>1, QuestionsStay DEF graph, journal, questions, Due
<1> QED BY <1>2, <1>3, <1>4, <1>5 DEF Next, RunStep, StreamStep

\* The index the property looks up.
LEMMA LastQuestion ==
  ASSUME NEW r, Len(events[r]) \in Nat, Shown(r)
  PROVE  LET i == SelectLastInSeq(events[r], LAMBDA e : e.type \in {"interrupt", "resume"})
         IN  i > 0 /\ events[r][i].type = "interrupt"
<1>1. PICK I : I = {i \in 1..Len(events[r]) : events[r][i].type \in {"interrupt", "resume"}}
  OBVIOUS
<1>2. PICK i \in 1..Len(events[r]) :
        /\ events[r][i].type = "interrupt"
        /\ \A j \in (i + 1)..Len(events[r]) : events[r][j].type \notin {"interrupt", "resume"}
  BY DEF Shown
<1>3. i \in I /\ i > 0
  BY <1>1, <1>2
<1>4. \A j \in I : j \in Int /\ i >= j
  <2> SUFFICES ASSUME NEW j \in I PROVE j \in Int /\ i >= j
    OBVIOUS
  <2>1. j \in 1..Len(events[r]) /\ events[r][j].type \in {"interrupt", "resume"}
    BY <1>1
  <2>2. j \notin (i + 1)..Len(events[r])
    BY <1>2, <2>1
  <2> QED BY <1>2, <2>1, <2>2
<1>5. Max(I) = i
  <2>1. \A x \in I : (\A y \in I : x >= y) => x = i
    BY <1>3, <1>4
  <2> QED BY <1>3, <1>4, <2>1 DEF Max
<1>6. SelectLastInSeq(events[r], LAMBDA e : e.type \in {"interrupt", "resume"}) = i
  BY <1>1, <1>3, <1>5 DEF SelectLastInSeq
<1> QED BY <1>2, <1>3, <1>6

\* Whoever waits for a human can be answered and is shown, on a server whose runs
\* it observes or that serves one run: for every question somebody waits for
\* there is one that Answer accepts or an answer on its way, and the last the
\* journal says of a waiting run is its question (markOpen, Answer, ensureOpen
\* and waitAnswer in graphweb/server.go).  Of several runs without observer, or
\* one beside an observed run, ensureOpen surfaces no question while another is
\* open: there it does not hold.
THEOREM EveryQuestionCanBeAnsweredAlways ==
  (\A s \in Scenes : Surfaced(s)) => (Spec => []EveryQuestionCanBeAnswered)
<1> SUFFICES ASSUME \A s \in Scenes : Surfaced(s)
             PROVE  Spec => []EveryQuestionCanBeAnswered
  OBVIOUS
<1>1. Init => Base /\ Questions
  BY BaseInit, QuestionsInit
<1>2. (Base /\ Questions) /\ [Next]_vars => (Base /\ Questions)'
  BY BaseNext, QuestionsNext
<1>3. Base /\ Questions => EveryQuestionCanBeAnswered
  <2> SUFFICES ASSUME Base, Questions PROVE EveryQuestionCanBeAnswered
    OBVIOUS
  <2>1. open + queued + (IF wedged THEN 1 ELSE 0) = Cardinality(Askers) + orphans
    BY DEF Questions, Counted, Due
  <2>2. ASSUME NEW r \in scene.runs, pc[r] \in {"askwait", "wait"}
        PROVE  LET i == SelectLastInSeq(events[r], LAMBDA e : e.type \in {"interrupt", "resume"})
               IN  i > 0 /\ events[r][i].type = "interrupt"
    <3>1. r \in Runs
      BY WebAssumption DEF Base, TypeOK
    <3>2. Len(events[r]) \in Nat /\ Shown(r)
      BY <2>2, <3>1 DEF Base, JournalOK, ASequence, Questions, ShownOK
    <3> QED BY <3>2, LastQuestion
  <2> QED BY <2>1, <2>2 DEF EveryQuestionCanBeAnswered, Base
<1> QED BY <1>1, <1>2, <1>3, PTL DEF Spec

(***************************************************************************)
(* A log and a journal, record by record and event by event                *)
(***************************************************************************)
\* A set of naturals has a least member.
LEMMA Least ==
  ASSUME NEW S, S \subseteq Nat, S # {}
  PROVE  \E m \in S : \A n \in S : m <= n
<1>1. PICK m \in S : \A n \in S : ~(<<n, m>> \in OpToRel(<, Nat))
  BY NatLessThanWellFounded, WFMin
<1>2. ASSUME NEW n \in S PROVE m <= n
  <2>1. <<n, m>> \notin OpToRel(<, Nat)
    BY <1>1
  <2> QED BY <2>1 DEF OpToRel
<1> QED BY <1>2

\* Two recursions that start and go on alike end alike.
LEMMA Alike ==
  ASSUME NEW n \in Nat, NEW f, NEW g, f[0] = g[0],
         \A i \in 1..n : f[i - 1] = g[i - 1] => f[i] = g[i]
  PROVE  f[n] = g[n]
<1> DEFINE S == {i \in 0..n : f[i] # g[i]}
<1>1. SUFFICES ASSUME S # {} PROVE FALSE
  OBVIOUS
<1>2. PICK m \in S : \A i \in S : m <= i
  <2>1. S \subseteq Nat
    OBVIOUS
  <2> HIDE DEF S
  <2> QED BY <1>1, <2>1, Least
<1>3. m \in 1..n /\ m - 1 \in 0..n
  BY <1>2
<1>4. f[m - 1] = g[m - 1]
  BY <1>2, <1>3
<1> QED BY <1>2, <1>3, <1>4

Nothing == [shown |-> <<>>, iters |-> [e \in Edges |-> 0]]

\* What the loop over the records and the journal has come to at i.
ReadTo(recs, f, i) == IF i = 0 THEN Nothing ELSE Translate(f[i - 1], recs[i])
SeenTo(evs, f, i) ==
  IF i = 0 THEN <<>>
  ELSE IF Durable(evs[i]) THEN Append(f[i - 1], Blurred(evs[i])) ELSE f[i - 1]

LEMMA ReadExists ==
  ASSUME NEW recs
  PROVE  \A n \in Nat : \E f : f = [i \in 0..n |-> ReadTo(recs, f, i)]
<1> DEFINE S == {n \in Nat : ~\E f : f = [i \in 0..n |-> ReadTo(recs, f, i)]}
<1>1. SUFFICES ASSUME S # {} PROVE FALSE
  OBVIOUS
<1>2. PICK n \in S : \A k \in S : n <= k
  BY <1>1, Least
<1>3. n # 0
  <2> DEFINE f == [i \in 0..0 |-> Nothing]
  <2>1. f = [i \in 0..0 |-> ReadTo(recs, f, i)]
    BY DEF ReadTo
  <2> QED BY <1>2, <2>1
<1>4. n - 1 \in Nat /\ n - 1 \notin S
  BY <1>2, <1>3
<1>5. PICK f : f = [i \in 0..(n - 1) |-> ReadTo(recs, f, i)]
  BY <1>4
<1> DEFINE g == [i \in 0..n |-> IF i = n THEN ReadTo(recs, f, n) ELSE f[i]]
<1>6. ASSUME NEW i \in 0..n PROVE g[i] = ReadTo(recs, g, i)
  <2>1. i # 0 => g[i - 1] = f[i - 1]
    BY <1>4
  <2>2. i # n => f[i] = ReadTo(recs, f, i)
    BY <1>4, <1>5
  <2>3. ReadTo(recs, g, i) = ReadTo(recs, f, i)
    BY <2>1 DEF ReadTo
  <2> QED BY <2>2, <2>3
<1>7. g = [i \in 0..n |-> g[i]]
  OBVIOUS
<1> HIDE DEF g
<1>8. g = [i \in 0..n |-> ReadTo(recs, g, i)]
  BY <1>6, <1>7
<1> QED BY <1>2, <1>8

LEMMA SeenExists ==
  ASSUME NEW evs
  PROVE  \A n \in Nat : \E f : f = [i \in 0..n |-> SeenTo(evs, f, i)]
<1> DEFINE S == {n \in Nat : ~\E f : f = [i \in 0..n |-> SeenTo(evs, f, i)]}
<1>1. SUFFICES ASSUME S # {} PROVE FALSE
  OBVIOUS
<1>2. PICK n \in S : \A k \in S : n <= k
  BY <1>1, Least
<1>3. n # 0
  <2> DEFINE f == [i \in 0..0 |-> <<>>]
  <2>1. f = [i \in 0..0 |-> SeenTo(evs, f, i)]
    BY DEF SeenTo
  <2> QED BY <1>2, <2>1
<1>4. n - 1 \in Nat /\ n - 1 \notin S
  BY <1>2, <1>3
<1>5. PICK f : f = [i \in 0..(n - 1) |-> SeenTo(evs, f, i)]
  BY <1>4
<1> DEFINE g == [i \in 0..n |-> IF i = n THEN SeenTo(evs, f, n) ELSE f[i]]
<1>6. ASSUME NEW i \in 0..n PROVE g[i] = SeenTo(evs, g, i)
  <2>1. i # 0 => g[i - 1] = f[i - 1]
    BY <1>4
  <2>2. i # n => f[i] = SeenTo(evs, f, i)
    BY <1>4, <1>5
  <2>3. SeenTo(evs, g, i) = SeenTo(evs, f, i)
    BY <2>1 DEF SeenTo
  <2> QED BY <2>2, <2>3
<1>7. g = [i \in 0..n |-> g[i]]
  OBVIOUS
<1> HIDE DEF g
<1>8. g = [i \in 0..n |-> SeenTo(evs, g, i)]
  BY <1>6, <1>7
<1> QED BY <1>2, <1>8

LEMMA ReadIs ==
  ASSUME NEW recs, Len(recs) \in Nat
  PROVE  \E f : f = [i \in 0..Len(recs) |-> ReadTo(recs, f, i)] /\ ReadLog(recs) = f[Len(recs)]
<1> DEFINE f == CHOOSE f : f = [i \in 0..Len(recs) |->
                  IF i = 0 THEN Nothing ELSE Translate(f[i - 1], recs[i])]
<1>1. ReadLog(recs) = f[Len(recs)]
  BY DEF ReadLog, Nothing
<1>2. \E h : h = [i \in 0..Len(recs) |-> ReadTo(recs, h, i)]
  BY ReadExists
<1>3. f = [i \in 0..Len(recs) |-> ReadTo(recs, f, i)]
  BY <1>2 DEF ReadTo
<1> QED BY <1>1, <1>3

LEMMA SeenIs ==
  ASSUME NEW evs, Len(evs) \in Nat
  PROVE  \E f : f = [i \in 0..Len(evs) |-> SeenTo(evs, f, i)] /\ Live(evs) = f[Len(evs)]
<1> DEFINE f == CHOOSE f : f = [i \in 0..Len(evs) |->
                  IF i = 0 THEN <<>>
                  ELSE IF Durable(evs[i]) THEN Append(f[i - 1], Blurred(evs[i])) ELSE f[i - 1]]
<1>1. Live(evs) = f[Len(evs)]
  BY DEF Live
<1>2. \E h : h = [i \in 0..Len(evs) |-> SeenTo(evs, h, i)]
  BY SeenExists
<1>3. f = [i \in 0..Len(evs) |-> SeenTo(evs, f, i)]
  BY <1>2 DEF SeenTo
<1> QED BY <1>1, <1>3

\* A record is translated after those before it, whatever comes later.
LEMMA ReadMore ==
  ASSUME NEW recs, ASequence(recs), NEW rec
  PROVE  ReadLog(Append(recs, rec)) = Translate(ReadLog(recs), rec)
<1> DEFINE more == Append(recs, rec)
<1>1. /\ Len(recs) \in Nat /\ Len(more) = Len(recs) + 1 /\ more[Len(recs) + 1] = rec
      /\ \A i \in 1..Len(recs) : more[i] = recs[i]
  BY Appended DEF ASequence
<1> HIDE DEF more
<1>2. PICK f : f = [i \in 0..Len(recs) |-> ReadTo(recs, f, i)] /\ ReadLog(recs) = f[Len(recs)]
  BY <1>1, ReadIs
<1>3. PICK g : g = [i \in 0..Len(more) |-> ReadTo(more, g, i)] /\ ReadLog(more) = g[Len(more)]
  <2>1. Len(more) \in Nat
    BY <1>1
  <2> QED BY <2>1, ReadIs
<1>4. f[0] = g[0]
  <2>1. 0 \in 0..Len(recs) /\ 0 \in 0..Len(more)
    BY <1>1
  <2>2. f[0] = ReadTo(recs, f, 0) /\ g[0] = ReadTo(more, g, 0)
    BY <1>2, <1>3, <2>1
  <2> QED BY <2>2 DEF ReadTo
<1>5. ASSUME NEW i \in 1..Len(recs), f[i - 1] = g[i - 1] PROVE f[i] = g[i]
  <2>1. i \in 0..Len(recs) /\ i \in 0..Len(more) /\ i # 0
    BY <1>1
  <2>2. f[i] = ReadTo(recs, f, i) /\ g[i] = ReadTo(more, g, i)
    BY <1>2, <1>3, <2>1
  <2> QED BY <1>1, <1>5, <2>1, <2>2 DEF ReadTo
<1>6. f[Len(recs)] = g[Len(recs)]
  BY <1>1, <1>4, <1>5, Alike
<1>7. g[Len(recs) + 1] = Translate(g[Len(recs)], rec)
  <2>1. Len(recs) + 1 \in 0..Len(more) /\ Len(recs) + 1 # 0 /\ (Len(recs) + 1) - 1 = Len(recs)
    BY <1>1
  <2>2. g[Len(recs) + 1] = ReadTo(more, g, Len(recs) + 1)
    BY <1>3, <2>1
  <2> QED BY <1>1, <2>1, <2>2 DEF ReadTo
<1> QED BY <1>1, <1>2, <1>3, <1>6, <1>7 DEF more

LEMMA SeenMore ==
  ASSUME NEW evs, ASequence(evs), NEW ev
  PROVE  Live(Append(evs, ev)) =
           IF Durable(ev) THEN Append(Live(evs), Blurred(ev)) ELSE Live(evs)
<1> DEFINE more == Append(evs, ev)
<1>1. /\ Len(evs) \in Nat /\ Len(more) = Len(evs) + 1 /\ more[Len(evs) + 1] = ev
      /\ \A i \in 1..Len(evs) : more[i] = evs[i]
  BY Appended DEF ASequence
<1> HIDE DEF more
<1>2. PICK f : f = [i \in 0..Len(evs) |-> SeenTo(evs, f, i)] /\ Live(evs) = f[Len(evs)]
  BY <1>1, SeenIs
<1>3. PICK g : g = [i \in 0..Len(more) |-> SeenTo(more, g, i)] /\ Live(more) = g[Len(more)]
  <2>1. Len(more) \in Nat
    BY <1>1
  <2> QED BY <2>1, SeenIs
<1>4. f[0] = g[0]
  <2>1. 0 \in 0..Len(evs) /\ 0 \in 0..Len(more)
    BY <1>1
  <2>2. f[0] = SeenTo(evs, f, 0) /\ g[0] = SeenTo(more, g, 0)
    BY <1>2, <1>3, <2>1
  <2> QED BY <2>2 DEF SeenTo
<1>5. ASSUME NEW i \in 1..Len(evs), f[i - 1] = g[i - 1] PROVE f[i] = g[i]
  <2>1. i \in 0..Len(evs) /\ i \in 0..Len(more) /\ i # 0
    BY <1>1
  <2>2. f[i] = SeenTo(evs, f, i) /\ g[i] = SeenTo(more, g, i)
    BY <1>2, <1>3, <2>1
  <2> QED BY <1>1, <1>5, <2>1, <2>2 DEF SeenTo
<1>6. f[Len(evs)] = g[Len(evs)]
  BY <1>1, <1>4, <1>5, Alike
<1>7. g[Len(evs) + 1] = IF Durable(ev) THEN Append(g[Len(evs)], Blurred(ev)) ELSE g[Len(evs)]
  <2>1. Len(evs) + 1 \in 0..Len(more) /\ Len(evs) + 1 # 0 /\ (Len(evs) + 1) - 1 = Len(evs)
    BY <1>1
  <2>2. g[Len(evs) + 1] = SeenTo(more, g, Len(evs) + 1)
    BY <1>3, <2>1
  <2> QED BY <1>1, <2>1, <2>2 DEF SeenTo
<1> QED BY <1>1, <1>2, <1>3, <1>6, <1>7 DEF more

\* Of an empty log nothing is read, in an empty journal nothing is seen.
LEMMA ReadNone == ReadLog(<<>>) = Nothing /\ Live(<<>>) = <<>>
<1>1. Len(<<>>) = 0
  OBVIOUS
<1>2. PICK f : f = [i \in 0..0 |-> ReadTo(<<>>, f, i)] /\ ReadLog(<<>>) = f[0]
  BY <1>1, ReadIs
<1>3. PICK g : g = [i \in 0..0 |-> SeenTo(<<>>, g, i)] /\ Live(<<>>) = g[0]
  BY <1>1, SeenIs
<1>4. f[0] = ReadTo(<<>>, f, 0) /\ g[0] = SeenTo(<<>>, g, 0)
  BY <1>2, <1>3
<1> QED BY <1>2, <1>3, <1>4 DEF ReadTo, SeenTo

(***************************************************************************)
(* What a log would be shown as is what was shown                          *)
(***************************************************************************)
\* The step a run was at when it took its last edge came from here.
CameFrom(r) == IF step[r] = 0 THEN Start ELSE log[r][Len(log[r])].node

\* A run that was given an answer and has not shown so.
Resuming(r) == pc[r] = "resume" \/ (pc[r] = "top" /\ answered[r])

\* How often a run took the edges between its nodes.
Counts(r) == [e \in Edges |-> taken[r][e]]

\* The counts and the event of the edge a run is about to take.
Taking(r) == [Counts(r) EXCEPT ![<<CameFrom(r), cur[r]>>] = @ + 1]
Crossing(r) == EdgeEvent(CameFrom(r), cur[r], step[r], Taking(r)[<<CameFrom(r), cur[r]>>])

\* A sequence whose last is of a type.
EndsIn(s, type) == ASequence(s) /\ Len(s) > 0 /\ s[Len(s)].type = type

\* What is shown of a log and what was shown live may differ in one event as a
\* run finishes: the end of a node it did not leave, an answer it did not use.
Finishing(shown, live) ==
  \/ shown = live
  \/ \E e : e.type = "node_end" /\ live = Append(shown, e) /\ EndsIn(shown, "node_start")
  \/ \E e : e.type = "resume" /\ shown = Append(live, e) /\ EndsIn(live, "interrupt")

Apart == {"edge", "mark", "show", "finish", "over"}

\* How far the log and the journal of a run are apart, by where the run is
\* between its two writes.
Abreast(r) ==
  LET shown == ReadLog(log[r]).shown
      live == Live(events[r])
  IN  /\ ReadLog(log[r]).iters = IF pc[r] = "edge" THEN Taking(r) ELSE Counts(r)
      /\ pc[r] = "edge" => shown = Append(live, Crossing(r))
      /\ Resuming(r) => shown = Append(live, Event("resume", cur[r], step[r] + 1))
      /\ pc[r] \in {"mark", "show"} => live = Append(shown, Halted(cur[r], step[r]))
      /\ pc[r] \notin Apart /\ ~Resuming(r) => shown = live
      /\ pc[r] = "finish" => log[r] = <<>> \/ Finishing(shown, live)
      /\ pc[r] = "over" => log[r] = <<>> \/ Settled(shown) = Settled(live)

\* What the journal of a run ends in, by where the run is.
Ends(r) ==
  /\ ASequence(Live(events[r]))
  /\ pc[r] \in {"node", "askshow", "askwait", "askend"} => EndsIn(Live(events[r]), "node_start")
  /\ pc[r] \in {"paused", "reshow", "wait"} \/ Resuming(r) => EndsIn(Live(events[r]), "interrupt")

\* Where a run is about to enter a node, and where it is in its step limit.
AtNode == {"hit", "gated", "resume", "start"}

Placed(r) ==
  /\ pc[r] = "new" => step[r] = 0 /\ log[r] = <<>> /\ events[r] = <<>>
  /\ pc[r] \in {"new", "edge"} => ~answered[r]
  /\ pc[r] = "edge" => Len(log[r]) > 0
  /\ pc[r] \in InNode => cur[r] # End /\ step[r] <= MaxSteps[r]
  /\ pc[r] \in AtNode \/ Resuming(r) => cur[r] # End /\ step[r] < MaxSteps[r]
  /\ ASequence(log[r])

\* What a run goes to is a node or the end, what it comes from a node or the start.
Leads(r) ==
  /\ pc[r] \notin {"new", "finish", "over"} => cur[r] \in Nodes \cup {End}
  /\ pc[r] = "edge" => CameFrom(r) \in Nodes \cup {Start}

LogsOK == log = [r \in Runs |-> log[r]]

\* A record of a run joins what its log is read as.
LEMMA Logged ==
  ASSUME LogsOK, NEW r \in Runs, ASequence(log[r]), NEW rec, Log(r, rec)
  PROVE  /\ LogsOK' /\ ASequence(log'[r])
         /\ ReadLog(log'[r]) = Translate(ReadLog(log[r]), rec)
         /\ Len(log'[r]) > 0 /\ log'[r][Len(log'[r])] = rec
         /\ \A d \in Runs \ {r} : log'[d] = log[d]
<1>1. log' = [log EXCEPT ![r] = Append(@, rec)] /\ log = [d \in Runs |-> log[d]]
  BY DEF Log, LogsOK
<1>2. log'[r] = Append(log[r], rec) /\ \A d \in Runs \ {r} : log'[d] = log[d]
  BY <1>1
<1>3. LogsOK'
  BY <1>1 DEF LogsOK
<1>4. ASequence(log'[r]) /\ ReadLog(log'[r]) = Translate(ReadLog(log[r]), rec)
  BY <1>2, Appended, ReadMore
<1>5. Len(log'[r]) > 0 /\ log'[r][Len(log'[r])] = rec
  <2>1. /\ Len(log[r]) \in Nat /\ Len(log'[r]) = Len(log[r]) + 1
        /\ log'[r][Len(log[r]) + 1] = rec
    BY <1>2, Appended DEF ASequence
  <2> QED BY <2>1
<1> QED BY <1>2, <1>3, <1>4, <1>5

\* An event of an observed run joins what a log can tell of its journal, or is
\* none of it.
LEMMA Witnessed ==
  ASSUME JournalOK, NEW r \in Runs, r \in Observed, NEW ev, Emit(r, ev)
  PROVE  /\ Durable(ev) => Live(events'[r]) = Append(Live(events[r]), Blurred(ev))
         /\ ~Durable(ev) => Live(events'[r]) = Live(events[r])
<1>1. events'[r] = Append(events[r], ev)
  BY Emitted
<1>2. ASequence(events[r])
  BY DEF JournalOK
<1> QED BY <1>1, <1>2, SeenMore

\* Which events a log can tell, and how.
LEMMA Tellable ==
  /\ \A type, node, at : type # "graph_end" =>
       Durable(Event(type, node, at)) /\ Blurred(Event(type, node, at)) = Event(type, node, at)
  /\ \A from, to, at, iter : to \notin Branches =>
       /\ Durable(EdgeEvent(from, to, at, iter))
       /\ Blurred(EdgeEvent(from, to, at, iter)) = EdgeEvent(from, to, at, iter)
  /\ \A node, at : Durable(Halted(node, at)) /\ Blurred(Halted(node, at)) = Halted(node, at)
  /\ \A how : /\ Durable(Ended(how))
              /\ Blurred(Ended(how)) = Ended(IF how # "ok" THEN "error" ELSE "ok")
  /\ \A type, node, at : /\ ~Durable([Event(type, node, at) EXCEPT !.by = "gate"])
                         /\ ~Durable([Event(type, node, at) EXCEPT !.by = "caller"])
  /\ \A r : /\ Durable(EndFailed(r)) /\ Blurred(EndFailed(r)) = EndFailed(r)
            /\ EndFailed(r).type = "node_end"
<1>1. NoNode \notin Branches
  BY WebAssumption
<1>2. \A type, node, at : type # "graph_end" =>
       Durable(Event(type, node, at)) /\ Blurred(Event(type, node, at)) = Event(type, node, at)
  BY <1>1 DEF Event, Durable, Blurred
<1>3. \A from, to, at, iter : to \notin Branches =>
        /\ Durable(EdgeEvent(from, to, at, iter))
        /\ Blurred(EdgeEvent(from, to, at, iter)) = EdgeEvent(from, to, at, iter)
  BY DEF EdgeEvent, Event, Durable, Blurred
<1>4. \A node, at : Durable(Halted(node, at)) /\ Blurred(Halted(node, at)) = Halted(node, at)
  BY <1>1 DEF Halted, Event, Durable, Blurred
<1>5. \A how : /\ Durable(Ended(how))
               /\ Blurred(Ended(how)) = Ended(IF how # "ok" THEN "error" ELSE "ok")
  BY <1>1 DEF Ended, Event, Durable, Blurred
<1>6. \A type, node, at : /\ ~Durable([Event(type, node, at) EXCEPT !.by = "gate"])
                          /\ ~Durable([Event(type, node, at) EXCEPT !.by = "caller"])
  BY DEF Event, Durable
<1>7. \A r : /\ Durable(EndFailed(r)) /\ Blurred(EndFailed(r)) = EndFailed(r)
             /\ EndFailed(r).type = "node_end"
  BY <1>1 DEF EndFailed, Event, Durable, Blurred
<1> QED BY <1>2, <1>3, <1>4, <1>5, <1>6, <1>7

\* What reading one record adds, kind by kind.
LEMMA Translated ==
  ASSUME NEW read, NEW node, NEW at, NEW next
  PROVE  /\ Translate(read, Record("run_start", NoNode, 0, next)) =
              Crossed(Showing(read, Event("graph_start", NoNode, 0)), Start, next, 0)
         /\ Translate(read, Record("node_start", node, at, next)) =
              Showing(read, Event("node_start", node, at))
         /\ Translate(read, Record("node_commit", node, at, next)) =
              Crossed(Showing(read, Event("node_end", node, at)), node, next, at)
         /\ Translate(read, Record("interrupt", node, at, next)) =
              Showing(Showing(read, Halted(node, at)), Event("interrupt", node, at))
         /\ Translate(read, Record("resume", node, at, next)) =
              Showing(read, Event("resume", node, at))
<1>1. Translate(read, Record("run_start", NoNode, 0, next)) =
        Crossed(Showing(read, Event("graph_start", NoNode, 0)), Start, next, 0)
  BY DEF Translate, Record
<1>2. Translate(read, Record("node_start", node, at, next)) =
        Showing(read, Event("node_start", node, at))
  BY DEF Translate, Record
<1>3. Translate(read, Record("node_commit", node, at, next)) =
        Crossed(Showing(read, Event("node_end", node, at)), node, next, at)
  BY DEF Translate, Record
<1>4. Translate(read, Record("interrupt", node, at, next)) =
        Showing(Showing(read, Halted(node, at)), Event("interrupt", node, at))
  BY DEF Translate, Record
<1>5. Translate(read, Record("resume", node, at, next)) =
        Showing(read, Event("resume", node, at))
  BY DEF Translate, Record
<1> QED BY <1>1, <1>2, <1>3, <1>4, <1>5

LEMMA TranslatedEnd ==
  ASSUME NEW read, NEW bad \in BOOLEAN
  PROVE  Translate(read, [Record("run_end", NoNode, 0, NoNode) EXCEPT !.failed = bad]) =
           Showing(read, Ended(IF bad THEN "error" ELSE "ok"))
BY DEF Translate, Record

LEMMA AddedEvent ==
  ASSUME NEW read, NEW ev
  PROVE  /\ Showing(read, ev).shown = Append(read.shown, ev)
         /\ Showing(read, ev).iters = read.iters
BY DEF Showing

\* A run nobody touches stands where it stood.
LEMMA Untouched ==
  ASSUME NEW d, pc'[d] = pc[d], cur'[d] = cur[d], step'[d] = step[d],
         answered'[d] = answered[d], log'[d] = log[d], events'[d] = events[d],
         taken'[d] = taken[d], Placed(d), Leads(d), Abreast(d), Ends(d)
  PROVE  Placed(d)' /\ Leads(d)' /\ Abreast(d)' /\ Ends(d)'
<1>1. CameFrom(d)' = CameFrom(d) /\ Resuming(d)' = Resuming(d) /\ Counts(d)' = Counts(d)
  BY DEF CameFrom, Resuming, Counts
<1>2. Placed(d)' /\ Leads(d)'
  BY <1>1 DEF Placed, Leads
<1>3. Abreast(d)'
  <2>1. Taking(d)' = Taking(d)
    BY <1>1 DEF Taking
  <2>2. Crossing(d)' = Crossing(d)
    BY <1>1, <2>1 DEF Crossing
  <2> QED BY <1>1, <2>1, <2>2 DEF Abreast
<1>4. Ends(d)'
  BY <1>1 DEF Ends
<1> QED BY <1>2, <1>3, <1>4

\* The steps of one run leave the other runs alone.
LEMMA OwnStep ==
  ASSUME TypeOK, JournalOK, LogsOK, NEW r \in Runs, RunStep(r)
  PROVE  /\ LogsOK'
         /\ \A d \in Runs \ {r} :
              /\ pc'[d] = pc[d] /\ cur'[d] = cur[d] /\ step'[d] = step[d]
              /\ answered'[d] = answered[d] /\ log'[d] = log[d] /\ events'[d] = events[d]
              /\ taken'[d] = taken[d]
<1>1. \A d \in Runs \ {r} : events'[d] = events[d]
  <2>1. events' = events \/ \E ev : Emit(r, ev)
    BY RunEmits
  <2> QED BY <2>1, Emitted
<1>2. LogsOK' /\ \A d \in Runs \ {r} : log'[d] = log[d]
  <2>1. log' = log \/ \E rec : Log(r, rec)
    <3>1. CASE \E n \in Nodes : RunStart(r, n)
      BY <3>1 DEF RunStart
    <3>2. CASE \E n \in Nodes \cup {End} : NodeEnd(r, n)
      BY <3>2 DEF NodeEnd
    <3>0. CASE BranchStep(r)
      BY <3>0, BranchKeeps
    <3>7. CASE StartRouteFails(r) \/ RouteFails(r) \/ TopCancelled(r)
      BY <3>7 DEF StartRouteFails, RouteFails, TopCancelled
    <3>3. CASE EdgeTaken(r) \/ ReachEnd(r) \/ RunEnd(r) \/ Pass(r) \/ Before(r) \/ BreakpointHit(r)
      BY <3>3 DEF EdgeTaken, ReachEnd, RunEnd, Pass, Before, BreakpointHit
    <3>4. CASE Released(r) \/ Resumed(r) \/ NodeStart(r) \/ NodeFails(r) \/ Ask(r) \/ AskShow(r)
      BY <3>4 DEF Released, Resumed, NodeStart, NodeFails, Ask, AskShow
    <3>5. CASE AskAnswered(r) \/ AskEnd(r) \/ Interrupt(r) \/ Mark(r) \/ Show(r) \/ EnsureOpen(r)
      BY <3>5 DEF AskAnswered, AskEnd, Interrupt, Mark, Show, EnsureOpen
    <3>6. CASE Reshow(r) \/ Resume(r) \/ GateCancelled(r) \/ AskCancelled(r) \/ WaitCancelled(r)
      BY <3>6 DEF Reshow, Resume, GateCancelled, AskCancelled, WaitCancelled
    <3> QED BY <3>0, <3>7, <3>1, <3>2, <3>3, <3>4, <3>5, <3>6 DEF RunStep, Run, Cancelled
  <2>2. CASE log' = log
    BY <2>2 DEF LogsOK
  <2>3. ASSUME NEW rec, Log(r, rec)
        PROVE  LogsOK' /\ \A d \in Runs \ {r} : log'[d] = log[d]
    BY <2>3 DEF LogsOK, Log
  <2> QED BY <2>1, <2>2, <2>3
<1>3. \A d \in Runs \ {r} :
        /\ pc'[d] = pc[d] /\ cur'[d] = cur[d] /\ step'[d] = step[d]
        /\ answered'[d] = answered[d] /\ taken'[d] = taken[d]
  <2>1. /\ pc = [d \in Runs |-> pc[d]] /\ cur = [d \in Runs |-> cur[d]]
        /\ step = [d \in Runs |-> step[d]] /\ answered = [d \in Runs |-> answered[d]]
        /\ taken = [d \in Runs |-> taken[d]]
    BY DEF TypeOK
  <2>2. CASE \E n \in Nodes : RunStart(r, n)
    BY <2>1, <2>2 DEF RunStart, Go
  <2>3. CASE \E n \in Nodes \cup {End} : NodeEnd(r, n)
    BY <2>1, <2>3 DEF NodeEnd, Go
  <2>0. CASE BranchStep(r)
    BY <2>0, <2>1, BranchKeeps
  <2>9. CASE StartRouteFails(r) \/ RouteFails(r) \/ TopCancelled(r)
    BY <2>1, <2>9 DEF StartRouteFails, RouteFails, TopCancelled, Go, EndWith, journal
  <2>4. CASE EdgeTaken(r)
    BY <2>1, <2>4 DEF EdgeTaken, Go
  <2>5. CASE ReachEnd(r) \/ RunEnd(r) \/ Pass(r) \/ Before(r) \/ BreakpointHit(r) \/ Released(r)
    BY <2>1, <2>5 DEF ReachEnd, RunEnd, Pass, Before, BreakpointHit, Released, Go, EndWith, journal
  <2>6. CASE Resumed(r) \/ NodeStart(r) \/ NodeFails(r) \/ Ask(r) \/ AskShow(r) \/ AskAnswered(r)
    BY <2>1, <2>6 DEF Resumed, NodeStart, NodeFails, Ask, AskShow, AskAnswered, Go, EndWith, journal
  <2>7. CASE AskEnd(r) \/ Interrupt(r) \/ Mark(r) \/ Show(r) \/ EnsureOpen(r) \/ Reshow(r)
    BY <2>1, <2>7 DEF AskEnd, Interrupt, Mark, Show, EnsureOpen, Reshow, Go, journal
  <2>8. CASE Resume(r) \/ GateCancelled(r) \/ AskCancelled(r) \/ WaitCancelled(r)
    BY <2>1, <2>8 DEF Resume, GateCancelled, AskCancelled, WaitCancelled, Go, EndWith, journal
  <2> QED BY <2>0, <2>9, <2>2, <2>3, <2>4, <2>5, <2>6, <2>7, <2>8 DEF RunStep, Run, Cancelled
<1> QED BY <1>1, <1>2, <1>3

\* What decides where a run is, all but what it wrote.
LEMMA Here ==
  ASSUME TypeOK, NEW r \in Runs
  PROVE  /\ pc = [d \in Runs |-> pc[d]] /\ cur = [d \in Runs |-> cur[d]]
         /\ step \in [Runs -> Nat] /\ step[r] \in Nat /\ MaxSteps[r] \in Nat
         /\ answered = [d \in Runs |-> answered[d]] /\ answered[r] \in BOOLEAN
         /\ taken = [d \in Runs |-> taken[d]] /\ out = [d \in Runs |-> out[d]]
BY WebAssumption DEF TypeOK

\* Where a step leaves a run, in its graph and its step limit.
LEMMA PlacedNext ==
  ASSUME TypeOK, StepsOK, LogsOK, NEW r \in Runs, Placed(r), RunStep(r)
  PROVE  Placed(r)'
<1>1. /\ pc = [d \in Runs |-> pc[d]] /\ cur = [d \in Runs |-> cur[d]]
      /\ step \in [Runs -> Nat] /\ step[r] \in Nat /\ MaxSteps[r] \in Nat
      /\ answered = [d \in Runs |-> answered[d]] /\ answered[r] \in BOOLEAN
  BY Here
<1>2. /\ ASequence(log[r]) /\ (pc[r] = "edge" => Len(log[r]) > 0)
      /\ (pc[r] \in InNode => cur[r] # End /\ step[r] <= MaxSteps[r])
      /\ (pc[r] \in AtNode \/ Resuming(r) => cur[r] # End /\ step[r] < MaxSteps[r])
      /\ (pc[r] \in {"new", "edge"} => ~answered[r])
  BY DEF Placed
<1>3. CASE \E n \in Nodes : RunStart(r, n)
  <2>1. pc'[r] = "edge" /\ answered' = answered /\ pc[r] = "new"
    BY <1>1, <1>3 DEF RunStart, Go, At
  <2>2. ASequence(log'[r]) /\ Len(log'[r]) > 0
    BY <1>2, <1>3, Logged DEF RunStart
  <2> QED BY <1>2, <2>1, <2>2 DEF Placed, InNode, AtNode, Resuming
<1>4. CASE EdgeTaken(r)
  <2>1. pc'[r] = "top" /\ answered' = answered /\ pc[r] = "edge" /\ log' = log
    BY <1>1, <1>4 DEF EdgeTaken, Go, At
  <2> QED BY <1>2, <2>1 DEF Placed, InNode, AtNode, Resuming
<1>5. CASE \/ ReachEnd(r) \/ NodeFails(r) \/ RouteFails(r) \/ StartRouteFails(r)
           \/ TopCancelled(r) \/ GateCancelled(r) \/ AskCancelled(r)
  <2>1. pc'[r] = "finish" /\ log' = log
    BY <1>1, <1>5 DEF ReachEnd, NodeFails, RouteFails, StartRouteFails, TopCancelled, GateCancelled,
                      AskCancelled, EndWith, Go
  <2> QED BY <1>2, <2>1 DEF Placed, InNode, AtNode, Resuming
<1>6. CASE RunEnd(r)
  <2>1. pc'[r] = "over"
    BY <1>1, <1>6 DEF RunEnd, Go
  <2>2. ASequence(log'[r])
    <3>1. log' = log \/ \E rec : Log(r, rec)
      BY <1>6 DEF RunEnd
    <3> QED BY <1>2, <3>1, Logged
  <2> QED BY <2>1, <2>2 DEF Placed, InNode, AtNode, Resuming
<1>7. CASE Pass(r) \/ Before(r) \/ BreakpointHit(r) \/ Released(r) \/ Resumed(r)
  <2>1. cur' = cur /\ step' = step /\ log' = log /\ answered' = answered
    BY <1>7 DEF Pass, Before, BreakpointHit, Released, Resumed
  <2>2. pc'[r] \in AtNode
    BY <1>1, <1>7 DEF Pass, Before, BreakpointHit, Released, Resumed, Go, AtNode
  <2>3. cur[r] # End /\ step[r] < MaxSteps[r]
    BY <1>2, <1>7 DEF Pass, Before, Gated, BreakpointHit, Released, Resumed, At, AtNode
  <2> QED BY <1>2, <2>1, <2>2, <2>3 DEF Placed, InNode, AtNode
<1>8. CASE NodeStart(r)
  <2>1. pc'[r] = "node" /\ cur' = cur /\ step'[r] = step[r] + 1 /\ pc[r] = "start"
    BY <1>1, <1>8 DEF NodeStart, Go, At
  <2>2. ASequence(log'[r])
    BY <1>2, <1>8, Logged DEF NodeStart
  <2>3. cur[r] # End /\ step[r] < MaxSteps[r]
    BY <1>2, <2>1 DEF AtNode
  <2>4. step'[r] <= MaxSteps[r]
    BY <1>1, <2>1, <2>3
  <2> QED BY <2>1, <2>2, <2>3, <2>4 DEF Placed, InNode, AtNode, Resuming
<1>9. CASE \E n \in Nodes \cup {End} : NodeEnd(r, n)
  <2>1. pc'[r] = "edge" /\ ~answered'[r]
    BY <1>1, <1>9 DEF NodeEnd, Go
  <2>2. ASequence(log'[r]) /\ Len(log'[r]) > 0
    BY <1>2, <1>9, Logged DEF NodeEnd
  <2> QED BY <2>1, <2>2 DEF Placed, InNode, AtNode, Resuming
<1>10. CASE \/ Ask(r) \/ AskShow(r) \/ AskAnswered(r) \/ AskEnd(r) \/ Interrupt(r) \/ Mark(r)
            \/ EnsureOpen(r) \/ Reshow(r)
  <2>1. cur' = cur /\ step' = step /\ log' = log /\ pc[r] \in InNode
    BY <1>10 DEF Ask, AskShow, AskAnswered, AskEnd, Interrupt, Mark, EnsureOpen, Reshow, At, InNode
  <2>2. pc'[r] \in InNode
    BY <1>1, <1>10 DEF Ask, AskShow, AskAnswered, AskEnd, Interrupt, Mark, EnsureOpen, Reshow, Go, InNode
  <2> QED BY <1>2, <2>1, <2>2 DEF Placed, InNode, AtNode, Resuming
<1>11. CASE Show(r)
  <2>1. cur' = cur /\ step' = step /\ pc[r] \in InNode /\ pc'[r] = "paused"
    BY <1>1, <1>11 DEF Show, At, Go, InNode
  <2>2. ASequence(log'[r])
    BY <1>2, <1>11, Logged DEF Show
  <2> QED BY <1>2, <2>1, <2>2 DEF Placed, InNode, AtNode, Resuming
<1>12. CASE Resume(r)
  <2>1. cur' = cur /\ step'[r] = step[r] - 1 /\ pc[r] = "wait" /\ pc'[r] = "top"
    BY <1>1, <1>12 DEF Resume, At, Go
  <2>2. ASequence(log'[r])
    BY <1>2, <1>12, Logged DEF Resume
  <2>3. cur[r] # End /\ step'[r] < MaxSteps[r]
    BY <1>1, <1>2, <2>1 DEF InNode
  <2> QED BY <2>1, <2>2, <2>3 DEF Placed, InNode, AtNode
<1>13. CASE WaitCancelled(r)
  <2>1. pc'[r] = "over" /\ log' = log
    BY <1>1, <1>13 DEF WaitCancelled, Go
  <2> QED BY <1>2, <2>1 DEF Placed, InNode, AtNode, Resuming
<1>14. CASE BranchStep(r)
  <2>1. /\ pc' = pc /\ cur' = cur /\ step' = step /\ log' = log /\ answered' = answered
        /\ pc[r] = "node"
    BY <1>14, BranchKeeps DEF At
  <2> QED BY <1>2, <2>1 DEF Placed, InNode, AtNode, Resuming
<1> QED BY <1>3, <1>4, <1>5, <1>6, <1>7, <1>8, <1>9, <1>10, <1>11, <1>12, <1>13, <1>14 DEF RunStep, Run, Cancelled

LEMMA LeadsNext ==
  ASSUME TypeOK, StepsOK, LogsOK, NEW r \in Runs, Placed(r), Leads(r), RunStep(r)
  PROVE  Leads(r)'
<1>1. /\ pc = [d \in Runs |-> pc[d]] /\ cur = [d \in Runs |-> cur[d]]
      /\ step \in [Runs -> Nat] /\ step[r] \in Nat
  BY Here
<1>2. CASE \E n \in Nodes : RunStart(r, n)
  <2>1. cur'[r] \in Nodes /\ step' = step /\ step[r] = 0
    BY <1>1, <1>2 DEF RunStart, At, Placed
  <2> QED BY <2>1 DEF Leads, CameFrom
<1>3. CASE \E n \in Nodes \cup {End} : NodeEnd(r, n)
  <2>1. PICK n \in Nodes \cup {End} : NodeEnd(r, n)
    BY <1>3
  <2>2. /\ pc[r] = "node" /\ cur'[r] = n /\ step' = step /\ step[r] # 0
        /\ Log(r, Record("node_commit", cur[r], step[r], n))
    BY <1>1, <2>1 DEF NodeEnd, At, StepsOK, InNode
  <2>3. cur[r] \in Nodes
    BY <2>2 DEF Leads, Placed, InNode
  <2>4. CameFrom(r)' = cur[r]
    <3>1. log'[r][Len(log'[r])] = Record("node_commit", cur[r], step[r], n)
      BY <2>2, Logged DEF Placed
    <3> QED BY <2>2, <3>1 DEF CameFrom, Record
  <2> QED BY <2>2, <2>3, <2>4 DEF Leads
<1>4. CASE \/ ReachEnd(r) \/ NodeFails(r) \/ RouteFails(r) \/ StartRouteFails(r) \/ RunEnd(r)
           \/ TopCancelled(r) \/ GateCancelled(r) \/ AskCancelled(r) \/ WaitCancelled(r)
  <2>1. pc'[r] \in {"finish", "over"}
    BY <1>1, <1>4 DEF ReachEnd, NodeFails, RouteFails, StartRouteFails, RunEnd, TopCancelled,
                      GateCancelled, AskCancelled, WaitCancelled, EndWith, Go
  <2> QED BY <2>1 DEF Leads
<1>5. ASSUME cur' = cur, pc[r] \notin {"new", "finish", "over"}, pc'[r] # "edge" PROVE Leads(r)'
  BY <1>5 DEF Leads
<1>6. CASE EdgeTaken(r) \/ Pass(r) \/ Before(r) \/ BreakpointHit(r) \/ Released(r) \/ Resumed(r)
  <2>1. cur' = cur /\ pc[r] \notin {"new", "finish", "over"} /\ pc'[r] # "edge"
    BY <1>1, <1>6 DEF EdgeTaken, Pass, Before, Gated, BreakpointHit, Released, Resumed, At, Go
  <2> QED BY <1>5, <2>1
<1>7. CASE NodeStart(r) \/ Ask(r) \/ AskShow(r) \/ AskAnswered(r) \/ AskEnd(r) \/ Interrupt(r)
  <2>1. cur' = cur /\ pc[r] \notin {"new", "finish", "over"} /\ pc'[r] # "edge"
    BY <1>1, <1>7 DEF NodeStart, Ask, AskShow, AskAnswered, AskEnd, Interrupt, At, Go
  <2> QED BY <1>5, <2>1
<1>8. CASE Mark(r) \/ Show(r) \/ EnsureOpen(r) \/ Reshow(r) \/ Resume(r)
  <2>1. cur' = cur /\ pc[r] \notin {"new", "finish", "over"} /\ pc'[r] # "edge"
    BY <1>1, <1>8 DEF Mark, Show, EnsureOpen, Reshow, Resume, At, Go
  <2> QED BY <1>5, <2>1
<1>9. CASE BranchStep(r)
  <2>1. cur' = cur /\ pc[r] = "node" /\ pc' = pc
    BY <1>9, BranchKeeps DEF At
  <2> QED BY <1>5, <2>1
<1> QED BY <1>2, <1>3, <1>4, <1>6, <1>7, <1>8, <1>9 DEF RunStep, Run, Cancelled

\* What ends one side and not the other is settled when the run has ended.
LEMMA Unused ==
  ASSUME NEW s, ASequence(s), Len(s) > 0, s[Len(s)].type \notin {"node_end", "resume"},
         NEW e, e.type \in {"node_end", "resume"}, NEW g, g.type = "graph_end"
  PROVE  Settled(Append(Append(s, e), g)) = Settled(Append(s, g))
<1>1. PICK t : t = Append(s, e)
  OBVIOUS
<1>2. ASequence(t) /\ Len(t) = Len(s) + 1 /\ t[Len(t)] = e /\ \A i \in 1..Len(s) : t[i] = s[i]
  BY <1>1, Appended DEF ASequence
<1>3. PICK u : u = Append(t, g)
  OBVIOUS
<1>4. /\ ASequence(u) /\ Len(u) = Len(t) + 1 /\ u[Len(u)] = g
      /\ \A i \in 1..Len(t) : u[i] = t[i]
  BY <1>2, <1>3, Appended DEF ASequence
<1>5. PICK v : v = Append(s, g)
  OBVIOUS
<1>6. ASequence(v) /\ Len(v) = Len(s) + 1 /\ v[Len(v)] = g /\ \A i \in 1..Len(s) : v[i] = s[i]
  BY <1>5, Appended DEF ASequence
<1>7. Len(s) \in Nat /\ Len(t) \in Nat /\ Len(u) \in Nat
  BY <1>2, <1>4 DEF ASequence
<1>8. ~Loose(v) /\ Settled(v) = v
  <2>1. Len(v) - 1 = Len(s) /\ v[Len(s)] = s[Len(s)]
    BY <1>6, <1>7
  <2> QED BY <2>1 DEF Loose, Settled
<1>9. Loose(u)
  <2>1. Len(u) > 1 /\ Len(u) - 1 = Len(t) /\ Len(t) \in 1..Len(t)
    BY <1>2, <1>4, <1>7
  <2>2. u[Len(u) - 1] = e
    BY <1>2, <1>4, <2>1
  <2> QED BY <1>4, <2>1, <2>2 DEF Loose
<1>10. Front(Front(u)) = s
  <2>1. Front(u) = t
    <3>1. Front(u) = [i \in 1..Len(t) |-> u[i]]
      <4>1. Front(u) = [i \in 1..(1 + (Len(u) - 1) - 1) |-> u[i + 1 - 1]]
        BY DEF Front
      <4> QED BY <1>4, <1>7, <4>1
    <3> QED BY <1>2, <1>4, <3>1 DEF ASequence
  <2>2. Front(t) = s
    <3>1. Front(t) = [i \in 1..Len(s) |-> t[i]]
      <4>1. Front(t) = [i \in 1..(1 + (Len(t) - 1) - 1) |-> t[i + 1 - 1]]
        BY DEF Front
      <4> QED BY <1>2, <1>7, <4>1
    <3> QED BY <1>2, <3>1 DEF ASequence
  <2> QED BY <2>1, <2>2
<1>11. Last(u) = g
  BY <1>4 DEF Last
<1> QED BY <1>1, <1>3, <1>5, <1>8, <1>9, <1>10, <1>11 DEF Settled

LEMMA SettledAlike ==
  ASSUME NEW shown, NEW live, Finishing(shown, live), NEW g, g.type = "graph_end"
  PROVE  Settled(Append(shown, g)) = Settled(Append(live, g))
<1>1. CASE shown = live
  BY <1>1
<1>2. ASSUME NEW e, e.type = "node_end", live = Append(shown, e), EndsIn(shown, "node_start")
      PROVE  Settled(Append(shown, g)) = Settled(Append(live, g))
  BY <1>2, Unused DEF EndsIn
<1>3. ASSUME NEW e, e.type = "resume", shown = Append(live, e), EndsIn(live, "interrupt")
      PROVE  Settled(Append(shown, g)) = Settled(Append(live, g))
  BY <1>3, Unused DEF EndsIn
<1> QED BY <1>1, <1>2, <1>3 DEF Finishing

\* A sequence ends in what it was given last.
LEMMA EndsInLast ==
  ASSUME NEW s, ASequence(s), NEW e
  PROVE  EndsIn(Append(s, e), e.type)
<1>1. PICK t : t = Append(s, e)
  OBVIOUS
<1>2. ASequence(t) /\ Len(t) = Len(s) + 1 /\ t[Len(s) + 1] = e /\ Len(s) \in Nat
  BY <1>1, Appended DEF ASequence
<1> QED BY <1>1, <1>2 DEF EndsIn

\* A step that writes nothing a log could tell, and moves the run between two
\* points at which log and journal are as far apart.
LEMMA AbreastStill ==
  ASSUME NEW r, Abreast(r), log'[r] = log[r], Live(events'[r]) = Live(events[r]),
         Counts(r)' = Counts(r), cur'[r] = cur[r], step'[r] = step[r],
         pc[r] \notin {"edge", "finish", "over"}, pc'[r] \notin {"edge", "finish", "over"},
         Resuming(r)' <=> Resuming(r),
         pc'[r] \in {"mark", "show"} <=> pc[r] \in {"mark", "show"}
  PROVE  Abreast(r)'
<1>1. CameFrom(r)' = CameFrom(r)
  BY DEF CameFrom
<1> QED BY <1>1 DEF Abreast, Apart

\* Log and journal side by side.
LEMMA AbreastEven ==
  ASSUME NEW r, pc'[r] \notin Apart, ~Resuming(r)',
         ReadLog(log'[r]).shown = Live(events'[r]), ReadLog(log'[r]).iters = Counts(r)'
  PROVE  Abreast(r)'
BY DEF Abreast, Apart

\* A run whose outcome is known.
LEMMA AbreastDone ==
  ASSUME NEW r, pc'[r] = "finish", log'[r] = log[r], Counts(r)' = Counts(r),
         ReadLog(log[r]).iters = Counts(r),
         log[r] = <<>> \/ Finishing(ReadLog(log[r]).shown, Live(events'[r]))
  PROVE  Abreast(r)'
<1>1. ~Resuming(r)'
  BY DEF Resuming
<1> QED BY <1>1 DEF Abreast, Apart

\* What a step does to the counts of a run: only EdgeTaken changes them.
LEMMA CountsNext ==
  ASSUME TypeOK, NEW r \in Runs
  PROVE  /\ taken' = taken => Counts(r)' = Counts(r)
         /\ BranchStep(r) => Counts(r)' = Counts(r)
         /\ \A e \in Edges : taken' = [taken EXCEPT ![r][e] = @ + 1] =>
              Counts(r)' = [Counts(r) EXCEPT ![e] = @ + 1] /\ taken'[r][e] = Counts(r)'[e]
<1>1. taken' = taken => Counts(r)' = Counts(r)
  BY DEF Counts
<1>2. ASSUME BranchStep(r) PROVE Counts(r)' = Counts(r)
  <2>1. taken' = taken \/ \E b \in Branches : taken' = [taken EXCEPT ![r][<<cur[r], b>>] = @ + 1]
    BY <1>2, BranchKeeps
  <2>2. ASSUME NEW b \in Branches, taken' = [taken EXCEPT ![r][<<cur[r], b>>] = @ + 1]
        PROVE  Counts(r)' = Counts(r)
    <3>1. \A e \in Edges : e # <<cur[r], b>>
      BY WebAssumption DEF Edges
    <3>2. taken[r] \in [Edges \cup Fans -> Nat] /\ taken = [d \in Runs |-> taken[d]]
      BY DEF TypeOK
    <3>3. \A e \in Edges : taken'[r][e] = taken[r][e]
      BY <2>2, <3>1, <3>2
    <3> QED BY <3>3 DEF Counts
  <2> QED BY <1>1, <2>1, <2>2
<1>3. ASSUME NEW e \in Edges, taken' = [taken EXCEPT ![r][e] = @ + 1]
      PROVE  Counts(r)' = [Counts(r) EXCEPT ![e] = @ + 1] /\ taken'[r][e] = Counts(r)'[e]
  <2>1. taken[r] \in [Edges \cup Fans -> Nat] /\ taken = [d \in Runs |-> taken[d]]
    BY DEF TypeOK
  <2>2. \A f \in Edges : taken'[r][f] = IF f = e THEN taken[r][e] + 1 ELSE taken[r][f]
    BY <1>3, <2>1
  <2> QED BY <2>2 DEF Counts
<1> QED BY <1>1, <1>2, <1>3

\* A step shows at most one event, and the journal stays a sequence.
LEMMA LiveNext ==
  ASSUME TypeOK, JournalOK, NEW r \in Runs, r \in Observed, ASequence(Live(events[r])), RunStep(r)
  PROVE  ASequence(Live(events'[r]))
<1>1. CASE events' = events
  BY <1>1
<1>2. ASSUME NEW ev, Emit(r, ev) PROVE ASequence(Live(events'[r]))
  <2>1. CASE Durable(ev)
    <3>1. Live(events'[r]) = Append(Live(events[r]), Blurred(ev))
      BY <1>2, <2>1, Witnessed
    <3> QED BY <3>1, Appended
  <2>2. CASE ~Durable(ev)
    BY <1>2, <2>2, Witnessed
  <2> QED BY <2>1, <2>2
<1> QED BY <1>1, <1>2, RunEmits

\* A step shows what a log cannot tell.
LEMMA Unseen ==
  ASSUME TypeOK, JournalOK, NEW r \in Runs, r \in Observed,
         \/ BranchStep(r)
         \/ BreakpointHit(r) \/ AskShow(r) \/ AskEnd(r) \/ Reshow(r)
  PROVE  Live(events'[r]) = Live(events[r])
<1>1. \E ev : Emit(r, ev) /\ ~Durable(ev)
  <2>1. CASE BranchStep(r)
    BY <2>1, BranchEmits
  <2>2. CASE BreakpointHit(r)
    BY <2>2, Tellable DEF BreakpointHit
  <2>3. CASE AskShow(r)
    BY <2>3, Tellable DEF AskShow
  <2>4. CASE AskEnd(r)
    BY <2>4, Tellable DEF AskEnd
  <2>5. CASE Reshow(r)
    BY <2>5, Tellable DEF Reshow
  <2> QED BY <2>1, <2>2, <2>3, <2>4, <2>5
<1> QED BY <1>1, Witnessed

\* Where a run is tells what its journal ends in.
LEMMA EndsNext ==
  ASSUME TypeOK, JournalOK, NEW r \in Runs, r \in Observed, Placed(r), Ends(r), RunStep(r)
  PROVE  Ends(r)'
<1> DEFINE live == Live(events[r])
<1>1. /\ pc = [d \in Runs |-> pc[d]] /\ answered = [d \in Runs |-> answered[d]]
      /\ answered[r] \in BOOLEAN
  BY Here
<1>2. ASequence(live) /\ ASequence(Live(events'[r]))
  BY LiveNext DEF Ends
<1>3. ASSUME ~(pc'[r] \in {"node", "askshow", "askwait", "askend", "paused", "reshow", "wait"}),
             ~Resuming(r)'
      PROVE  Ends(r)'
  BY <1>2, <1>3 DEF Ends
<1>4. CASE (\E n \in Nodes : RunStart(r, n)) \/ (\E n \in Nodes \cup {End} : NodeEnd(r, n))
  <2>1. pc'[r] = "edge"
    BY <1>1, <1>4 DEF RunStart, NodeEnd, Go
  <2> QED BY <1>3, <2>1 DEF Resuming
<1>5. CASE EdgeTaken(r)
  <2>1. pc'[r] = "top" /\ ~answered'[r]
    BY <1>1, <1>5 DEF EdgeTaken, Go, At, Placed
  <2> QED BY <1>3, <2>1 DEF Resuming
<1>6. CASE \/ ReachEnd(r) \/ NodeFails(r) \/ RouteFails(r) \/ StartRouteFails(r) \/ RunEnd(r)
           \/ TopCancelled(r) \/ GateCancelled(r) \/ AskCancelled(r) \/ WaitCancelled(r)
  <2>1. pc'[r] \in {"finish", "over"}
    BY <1>1, <1>6 DEF ReachEnd, NodeFails, RouteFails, StartRouteFails, RunEnd, TopCancelled,
                      GateCancelled, AskCancelled, WaitCancelled, EndWith, Go
  <2> QED BY <1>3, <2>1 DEF Resuming
<1>7. CASE Pass(r)
  <2>1. /\ pc[r] = "top" /\ pc'[r] = (IF answered[r] THEN "resume" ELSE "start")
        /\ events' = events
    BY <1>1, <1>7 DEF Pass, Go, At, journal
  <2> QED BY <1>2, <2>1 DEF Ends, Resuming
<1>8. CASE Before(r) \/ BreakpointHit(r) \/ Released(r) \/ Resumed(r) \/ Interrupt(r) \/ Mark(r)
  <2>1. pc'[r] \in {"hit", "gated", "start", "mark", "show"}
    BY <1>1, <1>8 DEF Before, BreakpointHit, Released, Resumed, Interrupt, Mark, Go
  <2> QED BY <1>3, <2>1 DEF Resuming
<1>9. CASE NodeStart(r)
  <2>1. pc'[r] = "node"
    BY <1>1, <1>9 DEF NodeStart, Go
  <2>2. EndsIn(Live(events'[r]), "node_start")
    <3>1. PICK ev : ev = Event("node_start", cur[r], step'[r]) /\ Emit(r, ev)
      BY <1>9 DEF NodeStart
    <3>2. Durable(ev) /\ Blurred(ev) = ev /\ ev.type = "node_start"
      BY <3>1, Tellable DEF Event
    <3> QED BY <1>2, <3>1, <3>2, Witnessed, EndsInLast
  <2> QED BY <1>2, <2>1, <2>2 DEF Ends, Resuming
<1>10. CASE Ask(r) \/ AskShow(r) \/ AskAnswered(r) \/ AskEnd(r)
  <2>1. /\ pc[r] \in {"node", "askshow", "askwait", "askend"}
        /\ pc'[r] \in {"node", "askshow", "askwait", "askend"}
    BY <1>1, <1>10 DEF Ask, AskShow, AskAnswered, AskEnd, At, Go
  <2>2. Live(events'[r]) = live
    <3>1. CASE Ask(r) \/ AskAnswered(r)
      BY <3>1 DEF Ask, AskAnswered, journal
    <3> QED BY <1>10, <3>1, Unseen
  <2> QED BY <1>2, <2>1, <2>2 DEF Ends, Resuming
<1>11. CASE Show(r)
  <2>1. pc'[r] = "paused"
    BY <1>1, <1>11 DEF Show, Go
  <2>2. EndsIn(Live(events'[r]), "interrupt")
    <3>1. PICK ev : ev = Event("interrupt", cur[r], step[r]) /\ Emit(r, ev)
      BY <1>11 DEF Show
    <3>2. Durable(ev) /\ Blurred(ev) = ev /\ ev.type = "interrupt"
      BY <3>1, Tellable DEF Event
    <3> QED BY <1>2, <3>1, <3>2, Witnessed, EndsInLast
  <2> QED BY <1>2, <2>1, <2>2 DEF Ends, Resuming
<1>12. CASE EnsureOpen(r) \/ Reshow(r) \/ Resume(r)
  <2>1. /\ pc[r] \in {"paused", "reshow", "wait"} /\ pc'[r] \in {"reshow", "wait", "top"}
    BY <1>1, <1>12 DEF EnsureOpen, Reshow, Resume, At, Go
  <2>2. Live(events'[r]) = live
    <3>1. CASE EnsureOpen(r) \/ Resume(r)
      BY <3>1 DEF EnsureOpen, Resume, journal
    <3> QED BY <1>12, <3>1, Unseen
  <2> QED BY <1>2, <2>1, <2>2 DEF Ends, Resuming
<1>13. CASE BranchStep(r)
  <2>1. pc[r] = "node" /\ pc' = pc
    BY <1>13, BranchKeeps DEF At
  <2>2. Live(events'[r]) = live
    BY <1>13, Unseen
  <2> QED BY <1>2, <2>1, <2>2 DEF Ends, Resuming
<1> QED BY <1>4, <1>5, <1>6, <1>7, <1>8, <1>9, <1>10, <1>11, <1>12, <1>13 DEF RunStep, Run, Cancelled

\* A step of a run leaves its log and its journal as far apart as the next
\* point of the run has them.
LEMMA AbreastNext ==
  ASSUME TypeOK, StepsOK, JournalOK, LogsOK, NEW r \in Runs, r \in Observed,
         Placed(r), Leads(r), Ends(r), Abreast(r), RunStep(r)
  PROVE  Abreast(r)'
<1> DEFINE read == ReadLog(log[r])
           live == Live(events[r])
<1>1. /\ pc = [d \in Runs |-> pc[d]] /\ cur = [d \in Runs |-> cur[d]]
      /\ step \in [Runs -> Nat] /\ step[r] \in Nat /\ MaxSteps[r] \in Nat
      /\ answered = [d \in Runs |-> answered[d]] /\ answered[r] \in BOOLEAN
      /\ taken = [d \in Runs |-> taken[d]] /\ out = [d \in Runs |-> out[d]]
  BY Here
<1>2. ASequence(log[r])
  BY DEF Placed
<1>3. /\ pc[r] \notin Apart /\ ~Resuming(r) => read.shown = live
      /\ pc[r] # "edge" => read.iters = Counts(r)
      /\ taken' = taken => Counts(r)' = Counts(r)
  BY CountsNext DEF Abreast
<1>0. Counts(r) = [e \in Edges |-> Counts(r)[e]]
  BY DEF Counts
<1>4. CASE \E n \in Nodes : RunStart(r, n)
  <2>1. PICK n \in Nodes : RunStart(r, n)
    BY <1>4
  <2>2. /\ pc'[r] = "edge" /\ cur'[r] = n /\ step' = step /\ answered' = answered
        /\ taken' = taken /\ step[r] = 0 /\ ~answered[r] /\ log[r] = <<>> /\ events[r] = <<>>
    BY <1>1, <2>1 DEF RunStart, Go, At, Placed
  <2>3. ReadLog(log'[r]) = Crossed(Showing(Nothing, Event("graph_start", NoNode, 0)), Start, n, 0)
    <3>1. ReadLog(log'[r]) = Translate(Nothing, Record("run_start", NoNode, 0, n))
      BY <1>2, <2>1, <2>2, Logged, ReadNone DEF RunStart
    <3> QED BY <3>1, Translated
  <2>4. Live(events'[r]) = Append(<<>>, Event("graph_start", NoNode, 0))
    <3> DEFINE ev == Event("graph_start", NoNode, 0)
    <3>1. Emit(r, ev) /\ Durable(ev) /\ Blurred(ev) = ev
      BY <2>1, Tellable DEF RunStart
    <3> HIDE DEF ev
    <3>2. Live(events'[r]) = Append(Live(events[r]), ev)
      BY <3>1, Witnessed
    <3> QED BY <2>2, <3>2, ReadNone DEF ev
  <2>5. /\ ReadLog(log'[r]).iters = [Counts(r) EXCEPT ![<<Start, n>>] = @ + 1]
        /\ ReadLog(log'[r]).shown = Append(Live(events'[r]),
             EdgeEvent(Start, n, 0, [Counts(r) EXCEPT ![<<Start, n>>] = @ + 1][<<Start, n>>]))
    <3>1. Counts(r) = Nothing.iters /\ Nothing.shown = <<>>
      BY <1>3, <2>1, <2>2, ReadNone DEF RunStart, At, Nothing
    <3>2. PICK iters : iters = [Counts(r) EXCEPT ![<<Start, n>>] = @ + 1]
      OBVIOUS
    <3>3. PICK first : first = Showing(Nothing, Event("graph_start", NoNode, 0))
      OBVIOUS
    <3>4. first.shown = Live(events'[r]) /\ first.iters = Counts(r)
      BY <2>4, <3>1, <3>3, AddedEvent
    <3>5. iters = [first.iters EXCEPT ![<<Start, n>>] = @ + 1]
      BY <3>2, <3>4
    <3>6. /\ Crossed(first, Start, n, 0).iters = iters
          /\ Crossed(first, Start, n, 0).shown =
               Append(first.shown, EdgeEvent(Start, n, 0, iters[<<Start, n>>]))
      BY <3>5 DEF Crossed
    <3> QED BY <2>3, <3>2, <3>3, <3>4, <3>6
  <2>6. CameFrom(r)' = Start /\ Counts(r)' = Counts(r)
    BY <1>3, <2>2 DEF CameFrom
  <2>7. Taking(r)' = ReadLog(log'[r]).iters /\ ReadLog(log'[r]).shown = Append(Live(events'[r]), Crossing(r)')
    BY <2>2, <2>5, <2>6 DEF Taking, Crossing
  <2> QED BY <2>2, <2>7 DEF Abreast, Resuming, Apart
<1>5. CASE EdgeTaken(r)
  <2> DEFINE edge == <<CameFrom(r), cur[r]>>
  <2>1. /\ pc[r] = "edge" /\ pc'[r] = "top" /\ log' = log /\ answered' = answered /\ ~answered[r]
        /\ taken' = [taken EXCEPT ![r][edge] = @ + 1]
        /\ Emit(r, EdgeEvent(CameFrom(r), cur[r], step[r], taken'[r][edge]))
    BY <1>1, <1>5 DEF EdgeTaken, Go, At, CameFrom, Placed
  <2>2. edge \in Edges /\ cur[r] \notin Branches
    BY <2>1, WebAssumption DEF Leads, Edges
  <2> HIDE DEF edge
  <2>3. Counts(r)' = [Counts(r) EXCEPT ![edge] = @ + 1] /\ taken'[r][edge] = Counts(r)'[edge]
    BY <2>1, <2>2, CountsNext
  <2>4. Live(events'[r]) = Append(live, EdgeEvent(CameFrom(r), cur[r], step[r], taken'[r][edge]))
    <3> DEFINE ev == EdgeEvent(CameFrom(r), cur[r], step[r], taken'[r][edge])
    <3>1. Emit(r, ev) /\ Durable(ev) /\ Blurred(ev) = ev
      BY <2>1, <2>2, Tellable
    <3> HIDE DEF ev
    <3>2. Live(events'[r]) = Append(live, ev)
      BY <3>1, Witnessed
    <3> QED BY <3>2 DEF ev
  <2>5. /\ read.iters = [Counts(r) EXCEPT ![edge] = @ + 1]
        /\ read.shown = Append(live, EdgeEvent(CameFrom(r), cur[r], step[r],
                                               [Counts(r) EXCEPT ![edge] = @ + 1][edge]))
    BY <2>1 DEF Abreast, Taking, Crossing, edge
  <2>6. read.shown = Live(events'[r]) /\ read.iters = Counts(r)'
    BY <2>3, <2>4, <2>5
  <2>7. ~Resuming(r)' /\ ReadLog(log'[r]) = read
    BY <2>1 DEF Resuming
  <2> QED BY <2>1, <2>6, <2>7, AbreastEven DEF Apart
<1>6. CASE ReachEnd(r)
  <2>1. /\ pc[r] = "top" /\ pc'[r] = "finish" /\ log' = log /\ events' = events /\ taken' = taken
        /\ (cur[r] = End \/ step[r] = MaxSteps[r])
    BY <1>1, <1>6 DEF ReachEnd, EndWith, Go, At, journal
  <2>2. ~Resuming(r)
    BY <1>1, <2>1 DEF Placed
  <2>3. Finishing(read.shown, Live(events'[r]))
    BY <1>3, <2>1, <2>2 DEF Apart, Finishing
  <2> QED BY <1>3, <2>1, <2>3, AbreastDone
<1>20. CASE StartRouteFails(r)
  <2>1. /\ pc[r] = "new" /\ pc'[r] = "finish" /\ log' = log /\ taken' = taken /\ log[r] = <<>>
    BY <1>1, <1>20 DEF StartRouteFails, EndWith, Go, At, Placed
  <2> QED BY <1>3, <2>1, AbreastDone
<1>21. CASE TopCancelled(r)
  <2>1. /\ pc[r] = "top" /\ pc'[r] = "finish" /\ log' = log /\ events' = events /\ taken' = taken
    BY <1>1, <1>21 DEF TopCancelled, EndWith, Go, At, journal
  <2>2. Finishing(read.shown, Live(events'[r]))
    <3>1. CASE Resuming(r)
      <4>1. PICK e : e = Event("resume", cur[r], step[r] + 1)
        OBVIOUS
      <4>2. e.type = "resume" /\ read.shown = Append(live, e) /\ EndsIn(live, "interrupt")
        BY <3>1, <4>1 DEF Abreast, Ends, Event
      <4> QED BY <2>1, <4>2 DEF Finishing
    <3>2. CASE ~Resuming(r)
      BY <1>3, <2>1, <3>2 DEF Apart, Finishing
    <3> QED BY <3>1, <3>2
  <2> QED BY <1>3, <2>1, <2>2, AbreastDone
<1>7. CASE RunEnd(r)
  <2>1. pc[r] = "finish" /\ pc'[r] = "over" /\ taken' = taken
    BY <1>1, <1>7 DEF RunEnd, Go, At
  <2>2. CASE log[r] = <<>>
    <3>1. log' = log
      BY <1>7, <2>2 DEF RunEnd
    <3>2. log'[r] = <<>> /\ ReadLog(log'[r]).iters = Counts(r)' /\ pc'[r] = "over"
      BY <1>3, <2>1, <2>2, <3>1
    <3> QED BY <3>2 DEF Abreast, Resuming, Apart
  <2>3. CASE log[r] # <<>>
    <3>1. PICK g : g = Ended(IF out[r] # "ok" THEN "error" ELSE "ok")
      OBVIOUS
    <3>2. g.type = "graph_end"
      BY <3>1 DEF Ended, Event
    <3>3. ReadLog(log'[r]) = Showing(read, g)
      <4>1. PICK bad \in BOOLEAN : bad = (out[r] # "ok")
        OBVIOUS
      <4>2. Log(r, [Record("run_end", NoNode, 0, NoNode) EXCEPT !.failed = bad])
        BY <1>7, <2>3, <4>1 DEF RunEnd
      <4>3. ReadLog(log'[r]) =
              Translate(read, [Record("run_end", NoNode, 0, NoNode) EXCEPT !.failed = bad])
        BY <1>2, <4>2, Logged
      <4> QED BY <3>1, <4>1, <4>3, TranslatedEnd
    <3>4. Live(events'[r]) = Append(live, g)
      <4> DEFINE ev == Ended(out[r])
      <4>1. Emit(r, ev) /\ Durable(ev) /\ Blurred(ev) = g
        BY <1>7, <3>1, Tellable DEF RunEnd
      <4> HIDE DEF ev
      <4> QED BY <4>1, Witnessed
    <3>5. Finishing(read.shown, live)
      BY <2>1, <2>3 DEF Abreast
    <3>6. ReadLog(log'[r]).shown = Append(read.shown, g) /\ ReadLog(log'[r]).iters = Counts(r)'
      BY <1>3, <2>1, <3>3, AddedEvent
    <3>7. Settled(ReadLog(log'[r]).shown) = Settled(Live(events'[r]))
      BY <3>2, <3>4, <3>5, <3>6, SettledAlike
    <3> QED BY <2>1, <3>6, <3>7 DEF Abreast, Resuming, Apart
  <2> QED BY <2>2, <2>3
<1>8. CASE Pass(r)
  <2>1. /\ pc[r] = "top" /\ pc'[r] = (IF answered[r] THEN "resume" ELSE "start")
        /\ log' = log /\ events' = events /\ taken' = taken /\ cur' = cur /\ step' = step
        /\ answered' = answered
    BY <1>1, <1>8 DEF Pass, Go, At, journal
  <2>2. Resuming(r)' <=> Resuming(r)
    BY <1>1, <2>1 DEF Resuming
  <2> QED BY <1>3, <2>1, <2>2, AbreastStill
<1>9. CASE Before(r)
  <2>1. /\ pc[r] = "top" /\ pc'[r] = "hit" /\ ~answered[r]
        /\ log' = log /\ events' = events /\ taken' = taken /\ cur' = cur /\ step' = step
    BY <1>1, <1>9 DEF Before, Gated, Go, At, journal
  <2>2. Resuming(r)' <=> Resuming(r)
    BY <2>1 DEF Resuming
  <2> QED BY <1>3, <2>1, <2>2, AbreastStill
<1>10. CASE BreakpointHit(r) \/ AskShow(r) \/ AskEnd(r) \/ Reshow(r)
  <2>1. /\ pc[r] \in {"hit", "askshow", "askend", "reshow"}
        /\ pc'[r] \in {"gated", "askwait", "node", "wait"}
        /\ log' = log /\ taken' = taken /\ cur' = cur /\ step' = step
    BY <1>1, <1>10 DEF BreakpointHit, AskShow, AskEnd, Reshow, Go, At
  <2>2. Live(events'[r]) = live
    BY <1>10, Unseen
  <2>3. Resuming(r)' <=> Resuming(r)
    BY <2>1 DEF Resuming
  <2> QED BY <1>3, <2>1, <2>2, <2>3, AbreastStill
<1>22. CASE BranchStep(r)
  <2>1. /\ pc[r] = "node" /\ pc' = pc /\ log' = log /\ cur' = cur /\ step' = step
        /\ answered' = answered
    BY <1>22, BranchKeeps DEF At
  <2>2. Live(events'[r]) = live /\ Counts(r)' = Counts(r)
    BY <1>22, Unseen, CountsNext
  <2>3. Resuming(r)' <=> Resuming(r)
    BY <2>1 DEF Resuming
  <2> QED BY <2>1, <2>2, <2>3, AbreastStill
<1>11. CASE Released(r) \/ Ask(r) \/ AskAnswered(r) \/ EnsureOpen(r)
  <2>1. /\ pc[r] \in {"gated", "node", "askwait", "paused"}
        /\ pc'[r] \in {"start", "askshow", "askend", "wait", "reshow"}
        /\ log' = log /\ events' = events /\ taken' = taken /\ cur' = cur /\ step' = step
    BY <1>1, <1>11 DEF Released, Ask, AskAnswered, EnsureOpen, Go, At, journal
  <2>2. Resuming(r)' <=> Resuming(r)
    BY <2>1 DEF Resuming
  <2> QED BY <1>3, <2>1, <2>2, AbreastStill
<1>23. CASE GateCancelled(r)
  <2>1. /\ pc[r] = "gated" /\ pc'[r] = "finish" /\ log' = log /\ events' = events /\ taken' = taken
    BY <1>1, <1>23 DEF GateCancelled, EndWith, Go, At, journal
  <2>2. Finishing(read.shown, Live(events'[r]))
    BY <1>3, <2>1 DEF Apart, Finishing, Resuming
  <2> QED BY <1>3, <2>1, <2>2, AbreastDone
<1>24. CASE WaitCancelled(r)
  <2>1. /\ pc[r] = "wait" /\ pc'[r] = "over" /\ log' = log /\ events' = events /\ taken' = taken
    BY <1>1, <1>24 DEF WaitCancelled, Go, At, journal
  <2>2. read.shown = live
    BY <1>3, <2>1 DEF Apart, Resuming
  <2> QED BY <1>3, <2>1, <2>2 DEF Abreast, Resuming
<1>12. CASE Resumed(r)
  <2>1. /\ pc[r] = "resume" /\ pc'[r] = "start" /\ log' = log /\ taken' = taken
        /\ Emit(r, Event("resume", cur[r], step[r] + 1))
    BY <1>1, <1>12 DEF Resumed, Go, At
  <2>2. Live(events'[r]) = Append(live, Event("resume", cur[r], step[r] + 1))
    <3> DEFINE ev == Event("resume", cur[r], step[r] + 1)
    <3>1. Emit(r, ev) /\ Durable(ev) /\ Blurred(ev) = ev
      BY <2>1, Tellable
    <3> HIDE DEF ev
    <3>2. Live(events'[r]) = Append(live, ev)
      BY <3>1, Witnessed
    <3> QED BY <3>2 DEF ev
  <2>3. read.shown = Live(events'[r]) /\ read.iters = Counts(r)
    BY <2>1, <2>2 DEF Abreast, Resuming
  <2>4. ReadLog(log'[r]).iters = Counts(r)'
    BY <1>3, <2>1, <2>3
  <2> QED BY <2>1, <2>3, <2>4, AbreastEven DEF Resuming, Apart
<1>13. CASE NodeStart(r)
  <2>1. /\ pc[r] = "start" /\ pc'[r] = "node" /\ taken' = taken
        /\ Log(r, Record("node_start", cur[r], step'[r], NoNode))
        /\ Emit(r, Event("node_start", cur[r], step'[r]))
    BY <1>1, <1>13 DEF NodeStart, Go, At
  <2>2. ReadLog(log'[r]) = Showing(read, Event("node_start", cur[r], step'[r]))
    <3>1. ReadLog(log'[r]) = Translate(read, Record("node_start", cur[r], step'[r], NoNode))
      BY <1>2, <2>1, Logged
    <3> QED BY <3>1, Translated
  <2>3. Live(events'[r]) = Append(live, Event("node_start", cur[r], step'[r]))
    <3> DEFINE ev == Event("node_start", cur[r], step'[r])
    <3>1. Emit(r, ev) /\ Durable(ev) /\ Blurred(ev) = ev
      BY <2>1, Tellable
    <3> HIDE DEF ev
    <3>2. Live(events'[r]) = Append(live, ev)
      BY <3>1, Witnessed
    <3> QED BY <3>2 DEF ev
  <2>4. ReadLog(log'[r]).shown = Live(events'[r]) /\ ReadLog(log'[r]).iters = Counts(r)'
    BY <1>3, <2>1, <2>2, <2>3, AddedEvent DEF Resuming, Apart
  <2> QED BY <2>1, <2>4, AbreastEven DEF Resuming, Apart
<1>14. CASE \E n \in Nodes \cup {End} : NodeEnd(r, n)
  <2>1. PICK n \in Nodes \cup {End} : NodeEnd(r, n)
    BY <1>14
  <2>2. /\ pc[r] = "node" /\ pc'[r] = "edge" /\ cur'[r] = n /\ step' = step /\ taken' = taken
        /\ ~answered'[r] /\ step[r] # 0
        /\ Emit(r, Event("node_end", cur[r], step[r]))
        /\ Log(r, Record("node_commit", cur[r], step[r], n))
    BY <1>1, <2>1 DEF NodeEnd, Go, At, StepsOK, InNode
  <2>3. ReadLog(log'[r]) =
          Crossed(Showing(read, Event("node_end", cur[r], step[r])), cur[r], n, step[r])
    <3>1. ReadLog(log'[r]) = Translate(read, Record("node_commit", cur[r], step[r], n))
      BY <1>2, <2>2, Logged
    <3> QED BY <3>1, Translated
  <2>4. Live(events'[r]) = Append(live, Event("node_end", cur[r], step[r]))
    <3> DEFINE ev == Event("node_end", cur[r], step[r])
    <3>1. Emit(r, ev) /\ Durable(ev) /\ Blurred(ev) = ev
      BY <2>2, Tellable
    <3> HIDE DEF ev
    <3>2. Live(events'[r]) = Append(live, ev)
      BY <3>1, Witnessed
    <3> QED BY <3>2 DEF ev
  <2>5. CameFrom(r)' = cur[r]
    <3>1. log'[r][Len(log'[r])] = Record("node_commit", cur[r], step[r], n)
      BY <1>2, <2>2, Logged
    <3> QED BY <2>2, <3>1 DEF CameFrom, Record
  <2>6. read.shown = live /\ read.iters = Counts(r)
    BY <1>3, <2>2 DEF Resuming, Apart
  <2>7. /\ ReadLog(log'[r]).iters = [Counts(r) EXCEPT ![<<cur[r], n>>] = @ + 1]
        /\ ReadLog(log'[r]).shown = Append(Live(events'[r]),
             EdgeEvent(cur[r], n, step[r], [Counts(r) EXCEPT ![<<cur[r], n>>] = @ + 1][<<cur[r], n>>]))
    <3>1. PICK iters : iters = [Counts(r) EXCEPT ![<<cur[r], n>>] = @ + 1]
      OBVIOUS
    <3>2. PICK first : first = Showing(read, Event("node_end", cur[r], step[r]))
      OBVIOUS
    <3>3. first.shown = Live(events'[r]) /\ first.iters = Counts(r)
      BY <2>4, <2>6, <3>2, AddedEvent
    <3>4. iters = [first.iters EXCEPT ![<<cur[r], n>>] = @ + 1]
      BY <3>1, <3>3
    <3>5. /\ Crossed(first, cur[r], n, step[r]).iters = iters
          /\ Crossed(first, cur[r], n, step[r]).shown =
               Append(first.shown, EdgeEvent(cur[r], n, step[r], iters[<<cur[r], n>>]))
      BY <3>4 DEF Crossed
    <3> QED BY <2>3, <3>1, <3>2, <3>3, <3>5
  <2>8. Counts(r)' = Counts(r)
    BY <1>3, <2>2
  <2>9. Taking(r)' = ReadLog(log'[r]).iters /\ ReadLog(log'[r]).shown = Append(Live(events'[r]), Crossing(r)')
    BY <2>2, <2>5, <2>7, <2>8 DEF Taking, Crossing
  <2> QED BY <2>2, <2>9 DEF Abreast, Resuming, Apart
<1>15. CASE NodeFails(r) \/ RouteFails(r) \/ AskCancelled(r)
  <2>1. /\ pc[r] \in {"node", "askwait"} /\ pc'[r] = "finish" /\ log' = log /\ taken' = taken
    BY <1>1, <1>15 DEF NodeFails, RouteFails, AskCancelled, EndWith, Go, At
  <2>2. PICK ev : Emit(r, ev) /\ Durable(ev) /\ Blurred(ev) = ev /\ ev.type = "node_end"
    <3>1. CASE NodeFails(r) \/ AskCancelled(r)
      BY <3>1, Tellable DEF NodeFails, AskCancelled
    <3>2. CASE RouteFails(r)
      <4>1. PICK e : e = Event("node_end", cur[r], step[r]) /\ Emit(r, e)
        BY <3>2 DEF RouteFails
      <4>2. Durable(e) /\ Blurred(e) = e /\ e.type = "node_end"
        BY <4>1, Tellable DEF Event
      <4> QED BY <4>1, <4>2
    <3> QED BY <1>15, <3>1, <3>2
  <2>3. Live(events'[r]) = Append(live, ev)
    BY <2>2, Witnessed
  <2>4. read.shown = live /\ EndsIn(live, "node_start")
    BY <1>3, <2>1 DEF Apart, Resuming, Ends
  <2>5. Finishing(read.shown, Live(events'[r]))
    BY <2>2, <2>3, <2>4 DEF Finishing
  <2> QED BY <1>3, <2>1, <2>5, AbreastDone
<1>16. CASE Interrupt(r)
  <2>1. /\ pc[r] = "node" /\ pc'[r] = "mark" /\ Emit(r, Halted(cur[r], step[r]))
        /\ log' = log /\ taken' = taken /\ cur' = cur /\ step' = step
    BY <1>1, <1>16 DEF Interrupt, Go, At
  <2>2. Live(events'[r]) = Append(live, Halted(cur[r], step[r]))
    <3> DEFINE ev == Halted(cur[r], step[r])
    <3>1. Emit(r, ev) /\ Durable(ev) /\ Blurred(ev) = ev
      BY <2>1, Tellable
    <3> HIDE DEF ev
    <3>2. Live(events'[r]) = Append(live, ev)
      BY <3>1, Witnessed
    <3> QED BY <3>2 DEF ev
  <2>3. read.shown = live /\ read.iters = Counts(r)
    BY <1>3, <2>1 DEF Resuming, Apart
  <2> QED BY <1>3, <2>1, <2>2, <2>3 DEF Abreast, Resuming, Apart
<1>17. CASE Mark(r)
  <2>1. /\ pc[r] = "mark" /\ pc'[r] = "show" /\ log' = log /\ events' = events /\ taken' = taken
        /\ cur' = cur /\ step' = step
    BY <1>1, <1>17 DEF Mark, Go, At, journal
  <2>2. Resuming(r)' <=> Resuming(r)
    BY <2>1 DEF Resuming
  <2> QED BY <1>3, <2>1, <2>2, AbreastStill
<1>18. CASE Show(r)
  <2>1. /\ pc[r] = "show" /\ pc'[r] = "paused" /\ taken' = taken
        /\ Emit(r, Event("interrupt", cur[r], step[r]))
        /\ Log(r, Record("interrupt", cur[r], step[r], NoNode))
    BY <1>1, <1>18 DEF Show, Go, At
  <2>2. ReadLog(log'[r]) =
          Showing(Showing(read, Halted(cur[r], step[r])), Event("interrupt", cur[r], step[r]))
    <3>1. ReadLog(log'[r]) = Translate(read, Record("interrupt", cur[r], step[r], NoNode))
      BY <1>2, <2>1, Logged
    <3> QED BY <3>1, Translated
  <2>3. Live(events'[r]) = Append(live, Event("interrupt", cur[r], step[r]))
    <3> DEFINE ev == Event("interrupt", cur[r], step[r])
    <3>1. Emit(r, ev) /\ Durable(ev) /\ Blurred(ev) = ev
      BY <2>1, Tellable
    <3> HIDE DEF ev
    <3>2. Live(events'[r]) = Append(live, ev)
      BY <3>1, Witnessed
    <3> QED BY <3>2 DEF ev
  <2>4. live = Append(read.shown, Halted(cur[r], step[r])) /\ read.iters = Counts(r)
    BY <2>1 DEF Abreast
  <2>5. ReadLog(log'[r]).shown = Live(events'[r]) /\ ReadLog(log'[r]).iters = Counts(r)'
    BY <1>3, <2>1, <2>2, <2>3, <2>4, AddedEvent
  <2> QED BY <2>1, <2>5, AbreastEven DEF Resuming, Apart
<1>19. CASE Resume(r)
  <2>1. /\ pc[r] = "wait" /\ pc'[r] = "top" /\ answered'[r] = TRUE /\ cur' = cur
        /\ step'[r] = step[r] - 1 /\ events' = events /\ taken' = taken
        /\ Log(r, Record("resume", cur[r], step[r], NoNode))
    BY <1>1, <1>19 DEF Resume, Go, At, journal
  <2>2. ReadLog(log'[r]) = Showing(read, Event("resume", cur[r], step[r]))
    <3>1. ReadLog(log'[r]) = Translate(read, Record("resume", cur[r], step[r], NoNode))
      BY <1>2, <2>1, Logged
    <3> QED BY <3>1, Translated
  <2>3. step'[r] + 1 = step[r]
    BY <1>1, <2>1
  <2>4. read.shown = live /\ read.iters = Counts(r)
    BY <1>3, <2>1 DEF Resuming, Apart
  <2>5. /\ ReadLog(log'[r]).shown = Append(live, Event("resume", cur[r], step'[r] + 1))
        /\ ReadLog(log'[r]).iters = Counts(r)'
    BY <1>3, <2>1, <2>2, <2>3, <2>4, AddedEvent
  <2>6. Resuming(r)' /\ Live(events'[r]) = live
    BY <2>1 DEF Resuming
  <2> QED BY <2>1, <2>5, <2>6 DEF Abreast, Apart
<1> QED BY <1>4, <1>5, <1>6, <1>7, <1>8, <1>9, <1>10, <1>11, <1>12, <1>13, <1>14, <1>15, <1>16,
           <1>17, <1>18, <1>19, <1>20, <1>21, <1>22, <1>23, <1>24 DEF RunStep, Run, Cancelled

Told == LogsOK /\ \A r \in Observed : Placed(r) /\ Leads(r) /\ Abreast(r) /\ Ends(r)

LEMMA ToldInit ==
  ASSUME Init
  PROVE  Told
<1>1. LogsOK
  BY DEF Init, LogsOK
<1>2. ASSUME NEW r \in Observed PROVE Placed(r) /\ Leads(r) /\ Abreast(r) /\ Ends(r)
  <2>1. /\ pc[r] = "new" /\ step[r] = 0 /\ log[r] = <<>> /\ events[r] = <<>>
        /\ answered[r] = FALSE /\ taken[r] = [e \in Edges \cup Fans |-> 0]
    BY <1>2, WebAssumption DEF Init
  <2>2. ASequence(<<>>)
    BY DEF ASequence
  <2>3. /\ ReadLog(log[r]).iters = Counts(r) /\ ReadLog(log[r]).shown = <<>>
        /\ Live(events[r]) = <<>>
    <3>1. Counts(r) = [e \in Edges |-> 0]
      BY <2>1 DEF Counts
    <3> QED BY <2>1, <3>1, ReadNone DEF Nothing
  <2>4. Placed(r) /\ Leads(r)
    BY <2>1, <2>2 DEF Placed, Leads, InNode, AtNode, Resuming
  <2>6. Ends(r)
    BY <2>1, <2>2, <2>3 DEF Ends, Resuming
  <2>5. Abreast(r)
    BY <2>1, <2>3 DEF Abreast, Resuming
  <2> QED BY <2>4, <2>5, <2>6
<1> QED BY <1>1, <1>2 DEF Told

LEMMA ToldNext ==
  ASSUME Base, Told, [Next]_vars
  PROVE  Told'
<1>1. TypeOK /\ JournalOK /\ StepsOK /\ LogsOK /\ Observed \subseteq Runs
  BY WebAssumption DEF Base, Told
<1>2. ASSUME NEW r \in Runs, RunStep(r) PROVE Told'
  <2>1. LogsOK'
    BY <1>1, <1>2, OwnStep
  <2>2. ASSUME NEW d \in Observed, d # r PROVE Placed(d)' /\ Leads(d)' /\ Abreast(d)' /\ Ends(d)'
    <3>1. d \in Runs \ {r} /\ Placed(d) /\ Leads(d) /\ Abreast(d) /\ Ends(d)
      BY <1>1, <2>2 DEF Told
    <3>2. /\ pc'[d] = pc[d] /\ cur'[d] = cur[d] /\ step'[d] = step[d]
          /\ answered'[d] = answered[d] /\ log'[d] = log[d] /\ events'[d] = events[d]
          /\ taken'[d] = taken[d]
      BY <1>1, <1>2, <3>1, OwnStep
    <3> QED BY <3>1, <3>2, Untouched
  <2>3. ASSUME r \in Observed PROVE Placed(r)' /\ Leads(r)' /\ Abreast(r)' /\ Ends(r)'
    <3>1. Placed(r) /\ Leads(r) /\ Abreast(r) /\ Ends(r)
      BY <2>3 DEF Told
    <3>2. Placed(r)' /\ Leads(r)'
      BY <1>1, <1>2, <3>1, PlacedNext, LeadsNext
    <3>4. Ends(r)'
      BY <1>1, <1>2, <2>3, <3>1, EndsNext
    <3>3. Abreast(r)'
      BY <1>1, <1>2, <2>3, <3>1, AbreastNext
    <3> QED BY <3>2, <3>3, <3>4
  <2> QED BY <2>1, <2>2, <2>3 DEF Told
<1>3. ASSUME UNCHANGED <<graph, journal>> PROVE Told'
  <2>1. /\ pc' = pc /\ cur' = cur /\ step' = step /\ answered' = answered /\ log' = log
        /\ events' = events /\ taken' = taken
    BY <1>3 DEF graph, journal
  <2>2. ASSUME NEW d \in Observed PROVE Placed(d)' /\ Leads(d)' /\ Abreast(d)' /\ Ends(d)'
    <3>1. Placed(d) /\ Leads(d) /\ Abreast(d) /\ Ends(d)
      BY DEF Told
    <3> QED BY <2>1, <3>1, Untouched
  <2> QED BY <1>1, <2>1, <2>2 DEF Told, LogsOK
<1>4. CASE Human
  BY <1>3, <1>4 DEF Human, Answer, Pause, Release, SetBreakpoints
<1>5. ASSUME NEW c \in Readers, StreamStep(c) PROVE Told'
  <2>1. UNCHANGED <<graph, journal>>
    BY <1>1, <1>5, StreamKeeps DEF Base
  <2> QED BY <1>3, <2>1
<1>6. CASE UNCHANGED vars
  BY <1>3, <1>6 DEF vars
<1> QED BY <1>2, <1>4, <1>5, <1>6 DEF Next, RunStep, StreamStep

\* What the durable log of a run at rest would be shown as is what the observer
\* showed live, as far as a log can tell, but for one event of a run that failed:
\* the end of the node it failed in or could not leave, or the answer it was
\* cancelled with (EventsFromRecords in graphweb/store.go).  Between its two
\* writes a run's log and its journal are apart by a single event, the same for
\* every way to that point; a run at rest is between no two writes.
THEOREM ReplayShowsTheRunAlways == Spec => []ReplayShowsTheRun
<1>1. Init => Base /\ Told
  BY BaseInit, ToldInit
<1>2. Base /\ Told /\ [Next]_vars => Base' /\ Told'
  BY BaseNext, ToldNext
<1>3. Told => ReplayShowsTheRun
  <2> SUFFICES ASSUME Told, NEW r \in scene.runs \cap Observed, pc[r] \in {"wait", "over"},
                      log[r] # <<>>
               PROVE  Settled(EventsFromRecords(log[r])) = Settled(Live(events[r]))
    BY DEF ReplayShowsTheRun
  <2>1. Abreast(r)
    BY DEF Told
  <2>2. CASE pc[r] = "wait"
    BY <2>1, <2>2 DEF Abreast, Apart, Resuming, EventsFromRecords
  <2>3. CASE pc[r] = "over"
    BY <2>1, <2>3 DEF Abreast, EventsFromRecords
  <2> QED BY <2>2, <2>3
<1> QED BY <1>1, <1>2, <1>3, PTL DEF Spec
=============================================================================
