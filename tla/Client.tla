------------------------------- MODULE Client -------------------------------
(***************************************************************************)
(* An interactive session (src/client/client.go, control.go, callbacks.go):*)
(* the read loop, Query, sendControl, the handlers of what the CLI asks,   *)
(* and Close, over two pipes to a CLI process that may die at any moment.  *)
(*                                                                         *)
(* A line is its kind and the turn, control request or CLI request it is   *)
(* about.  The CLI is external: it reads a turn, emits events, may ask the *)
(* client for a decision and wait for it, and ends the turn with a result. *)
(*                                                                         *)
(* An operator introduced as a "faulty variant" is no part of Next: it is  *)
(* the definition after it with a plausible bug.                           *)
(***************************************************************************)
EXTENDS Integers, Sequences

CONSTANTS
  Turns,     \* Query calls
  Controls,  \* sendControl calls (Initialize, Interrupt)
  Requests,  \* permission and hook requests the CLI may send
  None,      \* no turn yet
  Capacity,  \* of the events channel
  MaxEvents  \* bound: events the CLI emits in a turn before its result

ASSUME ClientAssumption ==
  /\ None \notin Turns
  /\ Capacity \in Nat \ {0} /\ MaxEvents \in Nat

VARIABLES
  stdin, stdout,  \* the pipes
  stdinOpen,
  cli,            \* the process: "up" or "gone"
  work, emitted,  \* the turns it has read, and the events it has emitted in the first
  waiting,        \* the requests it waits for a reply to
  asked,          \* the requests it has sent
  reader,         \* the read loop: "scan", "deaf" before cmd.Wait's return, "exited", "done"
  events,         \* the channel to Query
  eventsOpen,
  query,          \* the Query calls
  got,            \* the turn whose result a Query returned
  control,        \* the sendControl calls
  pending,        \* the control requests with a registered channel
  mailbox,        \* what was sent on that channel
  handler,        \* the goroutine of each CLI request
  close           \* Close: "open", "closed" (flag set), "waiting", "killing", "returned"

process == <<cli, work, emitted, waiting, asked>>
reading == <<reader, events, eventsOpen>>
querying == <<query, got>>
controlling == <<control, pending, mailbox>>
vars == <<stdin, stdout, stdinOpen, process, reading, querying, controlling, handler, close>>

Lines == [kind : {"turn", "event", "result"}, of : Turns] \cup
         [kind : {"control", "response"}, of : Controls] \cup
         [kind : {"request", "reply"}, of : Requests]
Line(kind, of) == [kind |-> kind, of |-> of]

TypeOK ==
  /\ stdin \in Seq(Lines) /\ stdout \in Seq(Lines)
  /\ stdinOpen \in BOOLEAN /\ eventsOpen \in BOOLEAN
  /\ cli \in {"up", "gone"} /\ work \in Seq(Turns) /\ emitted \in 0..MaxEvents
  /\ waiting \subseteq asked /\ asked \subseteq Requests
  /\ reader \in {"scan", "deaf", "exited", "done"}
  /\ events \in Seq([kind : {"event", "result"}, of : Turns]) /\ Len(events) <= Capacity
  /\ query \in [Turns -> {"idle", "begun", "reading", "result", "error", "cancelled"}]
  /\ got \in [Turns -> Turns \cup {None}]
  /\ control \in [Controls -> {"idle", "registered", "waiting", "answered", "error", "gave up"}]
  /\ pending \subseteq Controls
  /\ mailbox \in [Controls -> {"empty", "response", "failure"}]
  /\ handler \in [Requests -> {"idle", "running", "done", "dropped"}]
  /\ close \in {"open", "closed", "waiting", "killing", "returned"}

Init ==
  /\ stdin = <<>> /\ stdout = <<>> /\ stdinOpen = TRUE
  /\ cli = "up" /\ work = <<>> /\ emitted = 0 /\ waiting = {} /\ asked = {}
  /\ reader = "scan" /\ events = <<>> /\ eventsOpen = TRUE
  /\ query = [t \in Turns |-> "idle"] /\ got = [t \in Turns |-> None]
  /\ control = [c \in Controls |-> "idle"] /\ pending = {}
  /\ mailbox = [c \in Controls |-> "empty"]
  /\ handler = [r \in Requests |-> "idle"]
  /\ close = "open"

Closed == close # "open"

\* writeLine: the write fails on a closed pipe.
Writable == stdinOpen /\ cli = "up"
Write(line) == stdin' = IF Writable THEN Append(stdin, line) ELSE stdin

-----------------------------------------------------------------------------
(* The CLI process *)

CliReads ==
  /\ cli = "up" /\ stdin # <<>>
  /\ LET line == Head(stdin) IN
       \/ /\ line.kind = "turn"
          /\ work' = Append(work, line.of)
          /\ UNCHANGED <<stdout, waiting>>
       \/ /\ line.kind = "control"
          /\ stdout' = Append(stdout, Line("response", line.of))
          /\ UNCHANGED <<work, waiting>>
       \/ /\ line.kind = "reply"
          /\ waiting' = waiting \ {line.of}
          /\ UNCHANGED <<stdout, work>>
  /\ stdin' = Tail(stdin)
  /\ UNCHANGED <<stdinOpen, cli, emitted, asked, reading, querying, controlling, handler, close>>

CliWorks ==
  /\ cli = "up" /\ work # <<>> /\ waiting = {}
  /\ \/ /\ emitted < MaxEvents
        /\ stdout' = Append(stdout, Line("event", Head(work)))
        /\ emitted' = emitted + 1
        /\ UNCHANGED <<work, waiting, asked>>
     \/ /\ stdout' = Append(stdout, Line("result", Head(work)))
        /\ work' = Tail(work) /\ emitted' = 0
        /\ UNCHANGED <<waiting, asked>>
     \/ \E r \in Requests \ asked :
          /\ stdout' = Append(stdout, Line("request", r))
          /\ waiting' = {r} /\ asked' = asked \cup {r}
          /\ UNCHANGED <<work, emitted>>
  /\ UNCHANGED <<stdin, stdinOpen, cli, reading, querying, controlling, handler, close>>

Dies ==
  /\ cli = "up" /\ cli' = "gone"
  /\ stdin' = <<>>
  /\ UNCHANGED <<stdout, stdinOpen, work, emitted, waiting, asked, reading, querying,
                 controlling, handler, close>>

\* A CLI that waits for a reply which can no longer come does not exit.
CliExitsAtEOF == ~stdinOpen /\ stdin = <<>> /\ work = <<>> /\ Dies

-----------------------------------------------------------------------------
(* readLoop *)

NextLine == Head(stdout)

\* Blocks while the channel is full.
ReadEvent ==
  /\ reader = "scan" /\ stdout # <<>>
  /\ NextLine.kind \in {"event", "result"} /\ Len(events) < Capacity
  /\ events' = Append(events, NextLine)
  /\ stdout' = Tail(stdout)
  /\ UNCHANGED <<stdin, stdinOpen, process, reader, eventsOpen, querying, controlling,
                 handler, close>>

\* routeControlResponse: a response nobody waits for any more is dropped.
ReadResponse ==
  /\ reader = "scan" /\ stdout # <<>> /\ NextLine.kind = "response"
  /\ pending' = pending \ {NextLine.of}
  /\ mailbox' = IF NextLine.of \in pending
                THEN [mailbox EXCEPT ![NextLine.of] = "response"] ELSE mailbox
  /\ stdout' = Tail(stdout)
  /\ UNCHANGED <<stdin, stdinOpen, process, reading, querying, control, handler, close>>

\* A request of the CLI gets a goroutine.
ReadRequest ==
  /\ reader = "scan" /\ stdout # <<>> /\ NextLine.kind = "request"
  /\ handler' = [handler EXCEPT ![NextLine.of] = "running"]
  /\ stdout' = Tail(stdout)
  /\ UNCHANGED <<stdin, stdinOpen, process, reading, querying, controlling, close>>

\* EOF, then cmd.Wait, which closes our end of the pipe.
ReadEOF ==
  /\ reader = "scan" /\ stdout = <<>> /\ cli = "gone"
  /\ reader' = "exited" /\ stdinOpen' = FALSE
  /\ UNCHANGED <<stdin, stdout, process, events, eventsOpen, querying, controlling,
                 handler, close>>

\* The scanner gives up on a line longer than its buffer; the loop then waits for
\* a process that may run on.
ReadTooLong ==
  /\ reader = "scan" /\ stdout # <<>>
  /\ reader' = "deaf"
  /\ UNCHANGED <<stdin, stdout, stdinOpen, process, events, eventsOpen, querying, controlling,
                 handler, close>>

\* cmd.Wait returns, with output left unread.
ReadNoMore ==
  /\ reader = "deaf" /\ cli = "gone"
  /\ reader' = "exited" /\ stdinOpen' = FALSE
  /\ UNCHANGED <<stdin, stdout, process, events, eventsOpen, querying, controlling,
                 handler, close>>

\* Faulty variant: the control requests in flight are forgotten.
FailPendingNever ==
  /\ UNCHANGED <<pending, mailbox>>

FailPending ==
  /\ mailbox' = [c \in Controls |-> IF c \in pending THEN "failure" ELSE mailbox[c]]
  /\ pending' = {}

\* Faulty variant: the events channel is left open.
ReaderEndsOpen ==
  /\ reader = "exited" /\ reader' = "done"
  /\ FailPending
  /\ UNCHANGED <<stdin, stdout, stdinOpen, process, events, eventsOpen, querying, control,
                 handler, close>>

\* failPending, and both channels are closed.
ReaderEnds ==
  /\ reader = "exited" /\ reader' = "done"
  /\ FailPending
  /\ eventsOpen' = FALSE
  /\ UNCHANGED <<stdin, stdout, stdinOpen, process, events, querying, control, handler, close>>

-----------------------------------------------------------------------------
(* Query *)

\* Faulty variant: Query does not take queryMu.
QueryBeginsUnlocked(t) ==
  /\ query[t] = "idle"
  /\ query' = [query EXCEPT ![t] = IF Closed THEN "error" ELSE "begun"]
  /\ UNCHANGED <<stdin, stdout, stdinOpen, process, reading, got, controlling, handler, close>>

\* Takes queryMu, which makes Query single-flight.
QueryBegins(t) ==
  /\ query[t] = "idle"
  /\ \A u \in Turns : query[u] \notin {"begun", "reading"}
  /\ query' = [query EXCEPT ![t] = IF Closed THEN "error" ELSE "begun"]
  /\ UNCHANGED <<stdin, stdout, stdinOpen, process, reading, got, controlling, handler, close>>

QueryWrites(t) ==
  /\ query[t] = "begun"
  /\ Write(Line("turn", t))
  /\ query' = [query EXCEPT ![t] = IF Writable THEN "reading" ELSE "error"]
  /\ UNCHANGED <<stdout, stdinOpen, process, reading, got, controlling, handler, close>>

\* Any result ends the call.
QueryReads(t) ==
  /\ query[t] = "reading" /\ events # <<>>
  /\ events' = Tail(events)
  /\ IF Head(events).kind = "result"
     THEN /\ query' = [query EXCEPT ![t] = "result"]
          /\ got' = [got EXCEPT ![t] = Head(events).of]
     ELSE UNCHANGED querying
  /\ UNCHANGED <<stdin, stdout, stdinOpen, process, reader, eventsOpen, controlling,
                 handler, close>>

QueryMeetsEnd(t) ==
  /\ query[t] = "reading" /\ events = <<>> /\ ~eventsOpen
  /\ query' = [query EXCEPT ![t] = "error"]
  /\ UNCHANGED <<stdin, stdout, stdinOpen, process, reading, got, controlling, handler, close>>

QueryCancelled(t) ==
  /\ query[t] = "reading"
  /\ query' = [query EXCEPT ![t] = "cancelled"]
  /\ UNCHANGED <<stdin, stdout, stdinOpen, process, reading, got, controlling, handler, close>>

-----------------------------------------------------------------------------
(* sendControl *)

\* Faulty variant: the channel is registered only once the request is written.
ControlRegistersLate(c) ==
  /\ control[c] = "idle"
  /\ control' = [control EXCEPT ![c] = IF Closed THEN "error" ELSE "registered"]
  /\ UNCHANGED <<stdin, stdout, stdinOpen, process, reading, querying, pending, mailbox,
                 handler, close>>

ControlRegisters(c) ==
  /\ control[c] = "idle"
  /\ control' = [control EXCEPT ![c] = IF Closed THEN "error" ELSE "registered"]
  /\ pending' = IF Closed THEN pending ELSE pending \cup {c}
  /\ UNCHANGED <<stdin, stdout, stdinOpen, process, reading, querying, mailbox, handler, close>>

ControlWrites(c) ==
  /\ control[c] = "registered"
  /\ Write(Line("control", c))
  /\ IF Writable
     THEN control' = [control EXCEPT ![c] = "waiting"] /\ UNCHANGED pending
     ELSE control' = [control EXCEPT ![c] = "error"] /\ pending' = pending \ {c}
  /\ UNCHANGED <<stdout, stdinOpen, process, reading, querying, mailbox, handler, close>>

ControlReceives(c) ==
  /\ control[c] = "waiting" /\ mailbox[c] # "empty"
  /\ control' = [control EXCEPT ![c] = IF mailbox[c] = "response" THEN "answered" ELSE "error"]
  /\ mailbox' = [mailbox EXCEPT ![c] = "empty"]
  /\ UNCHANGED <<stdin, stdout, stdinOpen, process, reading, querying, pending, handler, close>>

\* The control timeout, or the caller's context: clearPending.
ControlGivesUp(c) ==
  /\ control[c] = "waiting"
  /\ control' = [control EXCEPT ![c] = "gave up"]
  /\ pending' = pending \ {c}
  /\ UNCHANGED <<stdin, stdout, stdinOpen, process, reading, querying, mailbox, handler, close>>

-----------------------------------------------------------------------------
(* handleControlRequest *)

\* Faulty variant: a callback that fails or times out gets no reply written.
HandlerGivesUp(r) ==
  /\ handler[r] = "running"
  /\ handler' = [handler EXCEPT ![r] = "done"]
  /\ UNCHANGED stdin \/ Write(Line("reply", r))
  /\ UNCHANGED <<stdout, stdinOpen, process, reading, querying, controlling, close>>

\* A reply that cannot be marshalled (an updated input that is no JSON), or a
\* request that cannot be parsed: nothing is written, and nobody is told.
HandlerDrops(r) ==
  /\ handler[r] = "running"
  /\ handler' = [handler EXCEPT ![r] = "dropped"]
  /\ UNCHANGED <<stdin, stdout, stdinOpen, process, reading, querying, controlling, close>>

\* The callback's decision, its error or panic, or its timeout: one reply each.
HandlerReplies(r) ==
  /\ handler[r] = "running"
  /\ handler' = [handler EXCEPT ![r] = "done"]
  /\ Write(Line("reply", r))
  /\ UNCHANGED <<stdout, stdinOpen, process, reading, querying, controlling, close>>

-----------------------------------------------------------------------------
(* Close *)

CloseBegins ==
  /\ close = "open" /\ close' = "closed"
  /\ UNCHANGED <<stdin, stdout, stdinOpen, process, reading, querying, controlling, handler>>

CloseStdin ==
  /\ close = "closed" /\ close' = "waiting"
  /\ stdinOpen' = FALSE
  /\ UNCHANGED <<stdin, stdout, process, reading, querying, controlling, handler>>

\* Five seconds have passed.
CloseKills ==
  /\ close = "waiting" /\ reader # "done" /\ close' = "killing"
  /\ UNCHANGED <<stdin, stdout, stdinOpen, process, reading, querying, controlling, handler>>

\* Faulty variant: SIGTERM only, which a CLI in the middle of a question ignores.
KilledSoftly == close = "killing" /\ waiting = {} /\ Dies

\* SIGTERM, then SIGKILL, to the process group.
Killed == close = "killing" /\ Dies

\* Faulty variant: a Close that had to kill does not wait for the read loop.
CloseReturnsEarly ==
  /\ close = "killing" \/ (close = "waiting" /\ reader = "done")
  /\ close' = "returned"
  /\ UNCHANGED <<stdin, stdout, stdinOpen, process, reading, querying, controlling, handler>>

CloseReturns ==
  /\ close \in {"waiting", "killing"} /\ reader = "done" /\ close' = "returned"
  /\ UNCHANGED <<stdin, stdout, stdinOpen, process, reading, querying, controlling, handler>>

-----------------------------------------------------------------------------
Cli == CliReads \/ CliWorks \/ CliExitsAtEOF
Reader == ReadEvent \/ ReadResponse \/ ReadRequest \/ ReadEOF \/ ReadNoMore \/ ReaderEnds
Query(t) == QueryWrites(t) \/ QueryReads(t) \/ QueryMeetsEnd(t)
Handler(r) == HandlerReplies(r) \/ HandlerDrops(r)
Control(c) == ControlWrites(c) \/ ControlReceives(c) \/ ControlGivesUp(c)
Closing == CloseStdin \/ CloseKills \/ Killed \/ CloseReturns

Next ==
  \/ Cli \/ Dies \/ Reader \/ ReadTooLong
  \/ \E t \in Turns : QueryBegins(t) \/ Query(t) \/ QueryCancelled(t)
  \/ \E c \in Controls : ControlRegisters(c) \/ Control(c)
  \/ \E r \in Requests : Handler(r)
  \/ CloseBegins \/ Closing

Spec == Init /\ [][Next]_vars

\* Goroutines that can go on do; callbacks end at their timeout; and the CLI ends
\* a turn it can go on with.  No one is obliged to call, to cancel or to die.
FairSpec ==
  /\ Spec
  /\ WF_vars(Cli) /\ WF_vars(Reader) /\ WF_vars(Closing)
  /\ \A t \in Turns : WF_vars(Query(t))
  /\ \A c \in Controls : WF_vars(Control(c))
  /\ \A r \in Requests : WF_vars(Handler(r))

-----------------------------------------------------------------------------
(* Properties *)

\* Query returns "the accumulated Turn" of its own prompt (client.go:401-404), as
\* long as no Query was cancelled, whatever dies or is asked in between.
OwnTurn ==
  (\A t \in Turns : query[t] # "cancelled") =>
    \A t \in Turns : query[t] = "result" => got[t] = t

\* sendControl is unblocked when "the process exits" (control.go:77-79): once the
\* read loop has ended, a call in its select has something to receive.
WaitersAreUnblocked ==
  reader = "done" =>
    \A c \in Controls : control[c] = "waiting" => mailbox[c] # "empty"

\* When Close has returned, the process is gone and its exit status settled, and
\* no request is left registered but one whose write is about to fail.
ClosedIsClean ==
  close = "returned" =>
    /\ cli = "gone" /\ ~eventsOpen
    /\ \A c \in pending : control[c] = "registered"

\* At any point of a session a Query has its own turn, nobody waits for what can
\* no longer come, and what Close leaves behind is settled.
SessionIsSound == TypeOK /\ OwnTurn /\ WaitersAreUnblocked /\ ClosedIsClean

\* The CLI waits for a reply that was dropped.
Unanswered == \E r \in waiting : handler[r] = "dropped"

\* A Query ends: its turn does, even if a callback hangs, or the process does; but
\* not if the CLI waits for a dropped reply or the loop no longer reads.
QueryEnds ==
  \A t \in Turns :
    (query[t] = "reading") ~> (query[t] # "reading" \/ Unanswered \/ reader = "deaf")

\* The read loop is stuck: the channel is full and no Query drains it.
Stuck ==
  /\ reader = "scan" /\ Len(events) = Capacity
  /\ stdout # <<>> /\ NextLine.kind \in {"event", "result"}
  /\ \A t \in Turns : query[t] # "reading"

\* Close returns, unless the read loop is stuck.
CloseEndsUnlessStuck == Closed ~> (close = "returned" \/ Stuck)

\* Close "closes stdin, waits briefly for graceful exit, then kills the process
\* group" (client.go:448-449), and so it returns.
CloseEnds == Closed ~> (close = "returned")
=============================================================================
