----------------------------- MODULE Trajectory -----------------------------
(***************************************************************************)
(* Three readers of one stream of CLI events: the builder of a run to be   *)
(* evaluated (src/eval/run.go), the model of the trace page                *)
(* (src/internal/trace/trace.go) and the checker of stream invariants      *)
(* (src/claudecli/invariants.go), with ExtractTextFromStream               *)
(* (src/claudecli/stream.go).  Tokens, costs and layout are left out.      *)
(*                                                                         *)
(* An event is [type, id, parent, at]: a "use" of a tool or its "result"   *)
(* by id, a "text", or the "final" result event, whose id is its text.     *)
(*                                                                         *)
(* An operator introduced as a "faulty variant" is no part of Next: it is  *)
(* the definition after it with a plausible bug.                           *)
(***************************************************************************)
EXTENDS Integers, Sequences, SequencesExt, FiniteSets, FiniteSetsExt

CONSTANTS
  Alphabet,    \* the events, [type, id, parent]
  Steps,       \* how much time may pass before an event
  MaxEvents    \* bound: events

NoId == ""

VARIABLES
  stream,    \* the events so far, each with its offset
  calls,     \* builder: the calls, [id, result]: the index of its result, or 0
  useAt,     \* builder: when a call with an id was made
  spans,     \* builder: [from, to] of every result that has a call
  lastText,  \* builder: the index of the last text of the agent itself
  final,     \* builder: the index of the last result event
  page,      \* trace: the calls shown, [id, at, took], took = -1 when open
  open,      \* trace: for an id the call that is open
  uses,      \* checker: the ids used
  answered,  \* checker: the ids with a result
  broken     \* checker: the rules violated so far

builder == <<calls, useAt, spans, lastText, final>>
trace == <<page, open>>
checker == <<uses, answered, broken>>
vars == <<stream, builder, trace, checker>>

Init ==
  /\ stream = <<>>
  /\ calls = <<>> /\ useAt = <<>> /\ spans = {} /\ lastText = 0 /\ final = 0
  /\ page = <<>> /\ open = <<>>
  /\ uses = {} /\ answered = {} /\ broken = {}

Known(id) == \E i \in DOMAIN calls : calls[i].id = id
With(f, k, v) == [x \in DOMAIN f \cup {k} |-> IF x = k THEN v ELSE f[x]]

-----------------------------------------------------------------------------
(* builder.add                                                               *)

\* addAssistant: a repeated id is the same call.
AddUse(ev) ==
  IF ev.id # NoId /\ Known(ev.id) THEN UNCHANGED builder
  ELSE /\ calls' = Append(calls, [id |-> ev.id, result |-> 0])
       /\ useAt' = IF ev.id = NoId THEN useAt ELSE With(useAt, ev.id, ev.at)
       /\ UNCHANGED <<spans, lastText, final>>

\* addResult: the last result of a call counts.
AddResult(ev, n) ==
  IF ev.id = NoId \/ ~Known(ev.id) THEN UNCHANGED builder
  ELSE /\ calls' = [i \in DOMAIN calls |-> IF calls[i].id = ev.id
                                           THEN [calls[i] EXCEPT !.result = n] ELSE calls[i]]
       /\ spans' = spans \cup {[from |-> useAt[ev.id], to |-> ev.at]}
       /\ UNCHANGED <<useAt, lastText, final>>

Build(ev, n) ==
  CASE ev.type = "use" -> AddUse(ev)
    [] ev.type = "result" -> AddResult(ev, n)
    [] ev.type = "text" -> /\ lastText' = IF ev.parent = NoId THEN n ELSE lastText
                           /\ UNCHANGED <<calls, useAt, spans, final>>
    [] OTHER -> final' = n /\ UNCHANGED <<calls, useAt, spans, lastText>>

Duration == IF stream = <<>> THEN 0 ELSE Last(stream).at

\* Faulty variant: the merged span ends where the last one does.
UnionLenLast ==
  LET s == SetToSortSeq(spans, LAMBDA a, b : a.from < b.from \/ (a.from = b.from /\ a.to > b.to))
      f == FoldLeft(LAMBDA acc, iv :
                      IF iv.from <= acc.cur.to
                      THEN [acc EXCEPT !.cur.to = iv.to]
                      ELSE [total |-> acc.total + acc.cur.to - acc.cur.from, cur |-> iv],
                    [total |-> 0, cur |-> s[1]], Tail(s))
  IN  IF spans = {} THEN 0 ELSE f.total + f.cur.to - f.cur.from

\* unionLen: the spans by their start, each merged into the current one if it
\* starts before that ends.
UnionLen ==
  LET s == SetToSortSeq(spans, LAMBDA a, b : a.from < b.from \/ (a.from = b.from /\ a.to > b.to))
      f == FoldLeft(LAMBDA acc, iv :
                      IF iv.from <= acc.cur.to
                      THEN [acc EXCEPT !.cur.to = Max({@, iv.to})]
                      ELSE [total |-> acc.total + acc.cur.to - acc.cur.from, cur |-> iv],
                    [total |-> 0, cur |-> s[1]], Tail(s))
  IN  IF spans = {} THEN 0 ELSE f.total + f.cur.to - f.cur.from

\* finish: the text of the result event, or else the last one of the agent.
Response == IF final # 0 /\ stream[final].id # NoId THEN final ELSE lastText

-----------------------------------------------------------------------------
(* trace.Build: every use is a call, the first result closes the open one    *)

\* Faulty variant: a result is taken for that of the latest call.
ShowLatest(ev) ==
  CASE ev.type = "use" ->
         /\ page' = Append(page, [id |-> ev.id, at |-> ev.at, took |-> -1])
         /\ UNCHANGED open
    [] ev.type = "result" /\ page # <<>> ->
         page' = [page EXCEPT ![Len(page)] = [@ EXCEPT !.took = ev.at - Last(page).at]]
         /\ UNCHANGED open
    [] OTHER -> UNCHANGED trace

Show(ev) ==
  CASE ev.type = "use" ->
         /\ page' = Append(page, [id |-> ev.id, at |-> ev.at, took |-> -1])
         /\ open' = With(open, ev.id, Len(page) + 1)
    [] ev.type = "result" /\ ev.id \in DOMAIN open ->
         /\ page' = [page EXCEPT ![open[ev.id]] = [@ EXCEPT !.took = ev.at - page[open[ev.id]].at]]
         /\ open' = [x \in DOMAIN open \ {ev.id} |-> open[x]]
    [] OTHER -> UNCHANGED trace

-----------------------------------------------------------------------------
(* CheckInvariants                                                           *)

Rules(ev) ==
  {r \in {"after_result", "unknown_parent", "duplicate_use", "orphan_result", "duplicate_result"} :
     CASE r = "after_result" -> final # 0
       [] r = "unknown_parent" -> ev.parent # NoId /\ ev.parent \notin uses
       [] r = "duplicate_use" -> ev.type = "use" /\ ev.id \in uses
       [] r = "orphan_result" -> ev.type = "result" /\ ev.id \notin uses
       [] r = "duplicate_result" -> ev.type = "result" /\ ev.id \in answered}

\* Faulty variant: a use that was seen before is not noticed.
CheckNoDuplicates(ev) ==
  /\ broken' = broken \cup (Rules(ev) \ {"duplicate_use"})
  /\ uses' = IF ev.type = "use" THEN uses \cup {ev.id} ELSE uses
  /\ answered' = IF ev.type = "result" /\ ev.id \in uses THEN answered \cup {ev.id} ELSE answered

Check(ev) ==
  /\ broken' = broken \cup Rules(ev)
  /\ uses' = IF ev.type = "use" THEN uses \cup {ev.id} ELSE uses
  /\ answered' = IF ev.type = "result" /\ ev.id \in uses THEN answered \cup {ev.id} ELSE answered

\* What is unmatched is only known at the end of the stream.
Clean == broken = {} /\ uses = answered

-----------------------------------------------------------------------------

Read(kind, step) ==
  LET ev == [type |-> kind.type, id |-> kind.id, parent |-> kind.parent,
             at |-> Duration + step]
  IN  /\ Len(stream) < MaxEvents
      /\ stream' = Append(stream, ev)
      /\ Build(ev, Len(stream) + 1) /\ Show(ev) /\ Check(ev)

Next == \E kind \in Alphabet, step \in Steps : Read(kind, step)

Spec == Init /\ [][Next]_vars

-----------------------------------------------------------------------------
(* Properties *)

Uses(id) == {i \in DOMAIN stream : stream[i].type = "use" /\ stream[i].id = id}
Results(id) == {i \in DOMAIN stream : stream[i].type = "result" /\ stream[i].id = id
                                      /\ \E j \in Uses(id) : j < i}
Ids == {stream[i].id : i \in {i \in DOMAIN stream : stream[i].type = "use"}} \ {NoId}
Busy(t) == \E id \in Ids : Results(id) # {} /\ stream[Min(Uses(id))].at < t
                                            /\ t <= stream[Max(Results(id))].at
Spoken == {i \in DOMAIN stream : stream[i].type = "text" /\ stream[i].parent = NoId}

\* At any point of any stream the run is what the stream shows (builder.add,
\* addAssistant, addResult, finish, unionLen): one call per tool-use id, in the
\* order of first use, with the last result that came for it; the tool time is
\* the time during which some answered call was under way, so never longer than
\* the run; the answer is that of the result event or the last of the agent's
\* own.  And the readers agree: of a stream that CheckInvariants finds nothing
\* wrong with, the trace page shows the very calls of the run, each as long as
\* it took, and the result event is the last event.
ReadersAgree ==
  /\ Len(calls) = Cardinality(Ids) + Cardinality(Uses(NoId))
  /\ \A i, j \in DOMAIN calls : i < j /\ calls[i].id # NoId /\ calls[j].id # NoId =>
       Min(Uses(calls[i].id)) < Min(Uses(calls[j].id))
  /\ \A i \in DOMAIN calls : calls[i].id # NoId =>
       calls[i].result = IF Results(calls[i].id) = {} THEN 0 ELSE Max(Results(calls[i].id))
  /\ UnionLen = Cardinality({t \in 1..Duration : Busy(t)})
  /\ Response = IF \E i \in DOMAIN stream : i = final /\ stream[i].id # NoId THEN final
                ELSE IF Spoken = {} THEN 0 ELSE Max(Spoken)
  /\ Clean =>
       /\ Len(page) = Len(calls)
       /\ \A i \in DOMAIN page : page[i].id = calls[i].id /\ page[i].took >= 0
       /\ \A i \in DOMAIN page : page[i].id # NoId =>
            [from |-> page[i].at, to |-> page[i].at + page[i].took] \in spans
       /\ final \in {0, Len(stream)}
=============================================================================
