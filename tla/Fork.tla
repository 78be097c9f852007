-------------------------------- MODULE Fork --------------------------------
(***************************************************************************)
(* Fork (src/graph/durable.go): a run's log up to a commit is copied under *)
(* a new id, record by record, and a fork record with an edited state ends *)
(* the copy; while the source run goes on, and the process that forks may  *)
(* die at any moment.                                                      *)
(*                                                                         *)
(* The source run is any that its log allows, by what Recover would do     *)
(* next (GraphLog.tla; DurableRun.tla has the run itself).                 *)
(*                                                                         *)
(* An operator introduced as a "faulty variant" is no part of Next: it is  *)
(* the definition after it with a plausible bug.                           *)
(***************************************************************************)
EXTENDS GraphLog

CONSTANTS
  Edit,        \* the mark an edit of the state leaves
  MaxRecords   \* bound: records of the source run

VARIABLES
  source, target,  \* the logs under the old and the new id
  fork,            \* the fork in progress: the prefix to copy and a position, or NoFork
  seen             \* history: the prefix of the fork that reached its fork record

vars == <<source, target, fork, seen>>

NoFork == <<>>

Init == source = <<>> /\ target = <<>> /\ fork = NoFork /\ seen = <<>>

-----------------------------------------------------------------------------
(* The source run *)

Put(kind, node, step) == Entry(kind, LastSeq(source) + 1, node, step)
Last1 == IF source = <<>> THEN NoNode ELSE source[Len(source)].kind
After(how) == Append(StateOf(source), Mark(ResumeNode(source), ResumeReply(source), how))

NextRecords ==
  LET node == ResumeNode(source)
      step == ResumeStep(source) + 1
  IN  CASE source = <<>> -> {[Put("run_start", NoNode, 0) EXCEPT !.next = n] : n \in Nodes}
        [] Last1 \in {"run_start", "edge", "recover", "resume"} ->
             IF node = End THEN {[Put("run_end", NoNode, 0) EXCEPT !.state = StateOf(source)]}
             ELSE {Put("node_start", node, step), Put("recover", node, step)}
        [] Last1 \in {"node_start", "session"} ->
             {[Put("session", node, step) EXCEPT !.session = s] : s \in Sessions}
             \cup {[Put("node_commit", node, step) EXCEPT !.state = After("done"), !.next = n] :
                     n \in Nodes \cup {End}}
             \cup {[Put("interrupt", node, step) EXCEPT !.state = After("asked")],
                   [Put("run_end", NoNode, 0) EXCEPT !.state = After("partial"), !.failed = TRUE],
                   Put("recover", node, step)}
        [] Last1 = "node_commit" ->
             {[Put("edge", source[Len(source)].node, step - 1) EXCEPT !.next = NextOf(source)],
              Put("recover", node, step)}
        [] Last1 = "interrupt" ->
             {[Put("resume", source[Asked(source)].node, source[Asked(source)].step)
                 EXCEPT !.reply = a] : a \in Answers}
        [] Last1 = "run_end" /\ ~EndedWell(source) -> {Put("recover", node, step)}
        [] OTHER -> {}

SourceRuns ==
  /\ Len(source) < MaxRecords
  /\ \E r \in NextRecords : source' = Append(source, r)
  /\ UNCHANGED <<target, fork, seen>>

-----------------------------------------------------------------------------
(* Fork *)

\* Load, the checks, and replayLog of the prefix.
ForkBegins ==
  /\ fork = NoFork /\ target = <<>>
  /\ \E at \in {i \in DOMAIN source : source[i].kind \in {"node_commit", "run_start", "fork"}} :
       fork' = SubSeq(source, 1, at)
  /\ UNCHANGED <<source, target, seen>>

ForkCopies ==
  /\ Len(target) < Len(fork)
  /\ target' = Append(target, fork[Len(target) + 1])
  /\ UNCHANGED <<source, fork, seen>>

\* Faulty variant: the copy goes on from the source's log as it is now.
ForkRecordOf(at) ==
  [Entry("fork", LastSeq(fork) + 1, NoNode, StepOf(source))
     EXCEPT !.state = Append(StateOf(source), Edit), !.next = NextOf(source)]

\* The edited state, and the route and step of the commit.
ForkRecord(at) ==
  [Entry("fork", LastSeq(at) + 1, NoNode, StepOf(at))
     EXCEPT !.state = Append(StateOf(at), Edit), !.next = NextOf(at)]

\* The fork record; Recover of the new run is what the logs of DurableRun say.
ForkEnds ==
  /\ fork # NoFork /\ Len(target) = Len(fork)
  /\ target' = Append(target, ForkRecord(fork))
  /\ seen' = fork /\ fork' = NoFork
  /\ UNCHANGED source

\* A crash, or a store that fails.  A later Fork finds the new id in use.
ForkDies == fork # NoFork /\ fork' = NoFork /\ UNCHANGED <<source, target, seen>>

Next == SourceRuns \/ ForkBegins \/ ForkCopies \/ ForkEnds \/ ForkDies

Spec == Init /\ [][Next]_vars

-----------------------------------------------------------------------------
(* Properties *)

\* A fork "continues from the node that commit routed to" with the edited state and
\* no question, answer or session of the source (durable.go:375-380), whatever the
\* source did between the copies, and executed what the source had; and what a fork
\* that died leaves behind is a log the source had, as it was, not the edited run.
ForkIsExact ==
  /\ seen # <<>> =>
       /\ IsPrefix(seen, source) /\ Len(target) = Len(seen) + 1
       /\ StateOf(target) = Append(StateOf(seen), Edit)
       /\ ResumeNode(target) = NextOf(seen) /\ ResumeStep(target) = StepOf(seen)
       /\ ResumeReply(target) = NoAnswer /\ ResumeSession(target) = NoSession
       /\ PathOf(target) = PathOf(seen) /\ StatusOf(target) = "unfinished"
       /\ target[Len(target)].seq = Len(target)
  /\ seen = <<>> => IsPrefix(target, source)
=============================================================================
