---------------------------- MODULE ClientProofs ----------------------------
(***************************************************************************)
(* Proofs about Client, for any turns, control requests and CLI requests,  *)
(* any capacity of the events channel and any number of events: a Query    *)
(* gets its own turn, nobody waits for what can no longer come, and Close  *)
(* leaves nothing unsettled.                                               *)
(***************************************************************************)
EXTENDS Client, SequenceTheorems, TLAPS

(***************************************************************************)
(* The inductive invariant                                                 *)
(***************************************************************************)
\* The lines of a pipe that belong to turns.
Prompts(in) == {i \in DOMAIN in : in[i].kind = "turn"}
Output(out) == {i \in DOMAIN out : out[i].kind \in {"event", "result"}}

\* What is under way, from stdin over the CLI and stdout to the events channel, is
\* of turn q alone: one prompt, then the turn at work, then its result, which
\* nothing follows.
Carries(q, in, w, out, ev) ==
  /\ \A i \in Prompts(in) : in[i].of = q /\ w = <<>> /\ \A j \in Prompts(in) : j = i
  /\ \A i \in DOMAIN w : w[i] = q /\ Len(w) = 1
  /\ \A i \in Output(out) : out[i].of = q
  /\ \A i \in DOMAIN ev : ev[i].of = q
  /\ \A i \in Output(out) : out[i].kind = "result" =>
       Prompts(in) = {} /\ w = <<>> /\ \A j \in Output(out) : j <= i
  /\ \A i \in DOMAIN ev : ev[i].kind = "result" =>
       Prompts(in) = {} /\ w = <<>> /\ Output(out) = {} /\ i = Len(ev)

\* The turn that a Query is reading, or None.
Current(q) ==
  \/ q \in Turns /\ query[q] = "reading"
  \/ q = None /\ \A t \in Turns : query[t] # "reading"

\* As long as no Query was cancelled: what is under way is the current turn's, or
\* nothing if there is none, until the read loop has ended.
Orderly ==
  (\A t \in Turns : query[t] # "cancelled") =>
    /\ \A t \in Turns : query[t] = "result" => got[t] = t
    /\ \A q \in Turns \cup {None} : Current(q) =>
         Carries(q, stdin, work, stdout, events) \/ (q = None /\ reader = "done")

SingleFlight ==
  \A t, u \in Turns :
    query[t] \in {"begun", "reading"} /\ query[u] \in {"begun", "reading"} => t = u

\* The read loop's end comes after the process's and settles everything.
Ending ==
  /\ reader \in {"exited", "done"} => cli = "gone" /\ ~stdinOpen
  /\ reader = "done" <=> ~eventsOpen
  /\ close = "returned" => reader = "done"

\* A call that waits is registered, or was sent something; and no call that waits
\* is registered for ever.
Registered ==
  /\ \A c \in Controls :
       control[c] \in {"registered", "waiting"} => c \in pending \/ mailbox[c] # "empty"
  /\ reader = "done" => \A c \in pending : control[c] = "registered"

IInv == TypeOK /\ Ending /\ Registered /\ SingleFlight /\ Orderly

(***************************************************************************)
(* Lines and pipes                                                         *)
(***************************************************************************)
LEMMA TailOf ==
  ASSUME NEW S, NEW s \in Seq(S), s # <<>>
  PROVE  /\ Tail(s) \in Seq(S) /\ Len(s) \in Nat /\ Len(s) > 0
         /\ Len(Tail(s)) = Len(s) - 1
         /\ DOMAIN s = 1..Len(s) /\ DOMAIN Tail(s) = 1..(Len(s) - 1)
         /\ \A i \in 1..(Len(s) - 1) : Tail(s)[i] = s[i + 1] /\ i + 1 \in 1..Len(s)
         /\ Head(s) = s[1] /\ Head(s) \in S
OBVIOUS

LEMMA TailOfOne ==
  ASSUME NEW S, NEW s \in Seq(S), Len(s) = 1
  PROVE  Tail(s) = <<>>
<1>1. s # <<>>
  OBVIOUS
<1>2. Tail(s) \in Seq(S) /\ Len(Tail(s)) = 0
  BY <1>1, TailOf
<1> QED BY <1>2, EmptySeq

LEMMA AppendOf ==
  ASSUME NEW S, NEW s \in Seq(S), NEW e \in S
  PROVE  /\ Append(s, e) \in Seq(S) /\ Len(s) \in Nat
         /\ Len(Append(s, e)) = Len(s) + 1
         /\ DOMAIN s = 1..Len(s) /\ DOMAIN Append(s, e) = 1..(Len(s) + 1)
         /\ \A i \in 1..Len(s) : Append(s, e)[i] = s[i]
         /\ Append(s, e)[Len(s) + 1] = e
<1>1. /\ Append(s, e) \in Seq(S) /\ Len(s) \in Nat /\ DOMAIN s = 1..Len(s)
      /\ Len(Append(s, e)) = Len(s) + 1
  BY AppendProperties
<1>2. DOMAIN Append(s, e) = 1..(Len(s) + 1)
  BY <1>1
<1> QED BY <1>1, <1>2, AppendProperties

LEMMA LineKinds ==
  /\ \A t \in Turns : Line("turn", t) \in Lines /\ Line("event", t) \in Lines
                      /\ Line("result", t) \in Lines
  /\ \A c \in Controls : Line("control", c) \in Lines /\ Line("response", c) \in Lines
  /\ \A r \in Requests : Line("request", r) \in Lines /\ Line("reply", r) \in Lines
  /\ \A line \in Lines :
       /\ line.kind \in {"turn", "event", "result"} => line.of \in Turns
       /\ line.kind \in {"control", "response"} => line.of \in Controls
       /\ line.kind \in {"request", "reply"} => line.of \in Requests
       /\ line.kind \in {"event", "result"} =>
            line \in [kind : {"event", "result"}, of : Turns]
BY DEF Lines, Line

Events == [kind : {"event", "result"}, of : Turns]

(***************************************************************************)
(* What the pipeline carries                                               *)
(***************************************************************************)
\* The CLI reads a prompt.
LEMMA CarriesRead ==
  ASSUME NEW q, NEW in \in Seq(Lines), NEW w \in Seq(Turns), NEW out, NEW ev,
         Carries(q, in, w, out, ev), in # <<>>, Head(in).kind = "turn"
  PROVE  Carries(q, Tail(in), Append(w, Head(in).of), out, ev)
<1>1. 1 \in Prompts(in) /\ Head(in) = in[1]
  BY TailOf DEF Prompts
<1>2. w = <<>> /\ Head(in).of = q /\ \A j \in Prompts(in) : j = 1
  BY <1>1 DEF Carries
<1>3. Prompts(Tail(in)) = {}
  <2> SUFFICES ASSUME NEW i \in DOMAIN Tail(in), Tail(in)[i].kind = "turn"
               PROVE  FALSE
    BY DEF Prompts
  <2>1. i \in 1..(Len(in) - 1) /\ Len(in) \in Nat
    BY TailOf
  <2>2. i + 1 \in DOMAIN in /\ in[i + 1].kind = "turn" /\ i + 1 # 1
    BY <2>1, TailOf
  <2> QED BY <2>2, <1>2 DEF Prompts
<1>4. Append(w, Head(in).of) = <<q>>
  BY <1>2
<1>5. \A i \in Output(out) : out[i].kind # "result"
  BY <1>1 DEF Carries
<1>6. \A i \in DOMAIN ev : ev[i].kind # "result"
  BY <1>1 DEF Carries
<1>7. DOMAIN <<q>> = {1} /\ <<q>>[1] = q /\ Len(<<q>>) = 1
  OBVIOUS
<1> QED BY <1>3, <1>4, <1>5, <1>6, <1>7 DEF Carries

\* stdin loses its first line, a prompt or not.
LEMMA CarriesLess ==
  ASSUME NEW q, NEW in \in Seq(Lines), NEW w, NEW out, NEW ev,
         Carries(q, in, w, out, ev), in # <<>>
  PROVE  Carries(q, Tail(in), w, out, ev)
<1>1. \A i \in Prompts(Tail(in)) : i \in Int /\ i + 1 \in Prompts(in) /\ Tail(in)[i] = in[i + 1]
  BY TailOf DEF Prompts
<1>2. Prompts(in) = {} => Prompts(Tail(in)) = {}
  BY <1>1
<1>3. ASSUME NEW i \in Prompts(Tail(in))
      PROVE  Tail(in)[i].of = q /\ w = <<>> /\ \A j \in Prompts(Tail(in)) : j = i
  <2>1. i + 1 \in Prompts(in) /\ Tail(in)[i] = in[i + 1]
    BY <1>1
  <2>2. in[i + 1].of = q /\ w = <<>> /\ \A j \in Prompts(in) : j = i + 1
    BY <2>1 DEF Carries
  <2>3. ASSUME NEW j \in Prompts(Tail(in)) PROVE j = i
    <3>1. i + 1 = j + 1
      BY <1>1, <2>2
    <3> QED BY <3>1, <1>1
  <2> QED BY <2>1, <2>2, <2>3
<1> QED BY <1>2, <1>3 DEF Carries

\* A line that is no prompt is written to stdin.
LEMMA CarriesMore ==
  ASSUME NEW q, NEW in \in Seq(Lines), NEW w, NEW out, NEW ev,
         Carries(q, in, w, out, ev), NEW e \in Lines, e.kind # "turn"
  PROVE  Carries(q, Append(in, e), w, out, ev)
<1>1. Prompts(Append(in, e)) = Prompts(in)
  BY AppendOf DEF Prompts
<1>2. \A i \in Prompts(in) : Append(in, e)[i] = in[i]
  BY AppendOf DEF Prompts
<1> QED BY <1>1, <1>2 DEF Carries

\* A prompt is written while nothing is under way.
LEMMA CarriesPrompt ==
  ASSUME NEW q \in Turns, NEW in \in Seq(Lines), NEW w \in Seq(Turns),
         NEW out \in Seq(Lines), NEW ev \in Seq(Events), Carries(None, in, w, out, ev)
  PROVE  Carries(q, Append(in, Line("turn", q)), w, out, ev)
<1> DEFINE e == Line("turn", q)
<1>1. Prompts(in) = {}
  BY LineKinds, ClientAssumption DEF Carries, Prompts
<1>2. w = <<>>
  <2> SUFFICES ASSUME w # <<>> PROVE FALSE
    OBVIOUS
  <2>1. 1 \in DOMAIN w /\ w[1] \in Turns
    BY TailOf
  <2> QED BY <2>1, ClientAssumption DEF Carries
<1>3. Output(out) = {}
  BY LineKinds, ClientAssumption DEF Carries, Output
<1>4. ev = <<>>
  <2> SUFFICES ASSUME ev # <<>> PROVE FALSE
    OBVIOUS
  <2>1. 1 \in DOMAIN ev /\ ev[1] \in Events
    BY TailOf
  <2>2. ev[1].of \in Turns
    BY <2>1 DEF Events
  <2> QED BY <2>1, <2>2, ClientAssumption DEF Carries
<1>5. e \in Lines /\ e.kind = "turn" /\ e.of = q
  BY LineKinds DEF Line
<1> HIDE DEF e
<1>6. Prompts(Append(in, e)) = {Len(in) + 1} /\ Append(in, e)[Len(in) + 1] = e
  BY <1>1, <1>5, AppendOf DEF Prompts
<1>7. Carries(q, Append(in, e), w, out, ev)
  BY <1>2, <1>3, <1>4, <1>5, <1>6 DEF Carries
<1> QED BY <1>7 DEF e

\* The CLI emits an event of the turn at work, or a line that is no turn's.
LEMMA CarriesEvent ==
  ASSUME NEW q, NEW in, NEW w, NEW out \in Seq(Lines), NEW ev,
         Carries(q, in, w, out, ev), NEW e \in Lines, e.kind # "result",
         e.kind = "event" => w # <<>> /\ e.of = q
  PROVE  Carries(q, in, w, Append(out, e), ev)
<1> DEFINE o == Append(out, e)
<1>1. /\ o \in Seq(Lines) /\ Len(out) \in Nat /\ DOMAIN o = 1..(Len(out) + 1)
      /\ DOMAIN out = 1..Len(out) /\ o[Len(out) + 1] = e
      /\ \A i \in 1..Len(out) : o[i] = out[i]
  BY AppendOf
<1> HIDE DEF o
<1>2. \A i \in Output(o) :
        (i \in Output(out) /\ o[i] = out[i]) \/ (i = Len(out) + 1 /\ e.kind = "event")
  BY <1>1 DEF Output
<1>3. \A i \in Output(o) : o[i].of = q
  BY <1>1, <1>2 DEF Carries
<1>4. e.kind = "event" =>
        /\ \A i \in Output(out) : out[i].kind # "result"
        /\ \A i \in DOMAIN ev : ev[i].kind # "result"
  BY DEF Carries
<1>5. ASSUME NEW i \in Output(o), o[i].kind = "result"
      PROVE  Prompts(in) = {} /\ w = <<>> /\ \A j \in Output(o) : j <= i
  <2>1. i \in Output(out) /\ out[i].kind = "result"
    BY <1>1, <1>2, <1>5
  <2> QED BY <2>1, <1>2, <1>4 DEF Carries
<1>6. ASSUME NEW i \in DOMAIN ev, ev[i].kind = "result"
      PROVE  Prompts(in) = {} /\ w = <<>> /\ Output(o) = {} /\ i = Len(ev)
  BY <1>2, <1>4, <1>6 DEF Carries
<1>7. Carries(q, in, w, o, ev)
  BY <1>3, <1>5, <1>6 DEF Carries
<1> QED BY <1>7 DEF o

\* The CLI ends the turn at work.
LEMMA CarriesResult ==
  ASSUME NEW q, NEW in, NEW w \in Seq(Turns), NEW out \in Seq(Lines), NEW ev,
         Carries(q, in, w, out, ev), w # <<>>
  PROVE  Carries(q, in, Tail(w), Append(out, Line("result", Head(w))), ev)
<1> DEFINE e == Line("result", Head(w))
           o == Append(out, e)
<1>1. Head(w) = q /\ Head(w) \in Turns /\ Len(w) = 1 /\ Tail(w) = <<>>
  <2>1. 1 \in DOMAIN w /\ Head(w) = w[1] /\ Head(w) \in Turns /\ Len(Tail(w)) = Len(w) - 1
        /\ Tail(w) \in Seq(Turns)
    BY TailOf
  <2>2. w[1] = q /\ Len(w) = 1
    BY <2>1 DEF Carries
  <2> QED BY <2>1, <2>2, TailOfOne
<1>2. e \in Lines /\ e.kind = "result" /\ e.of = q
  BY <1>1, LineKinds DEF Line
<1> HIDE DEF e
<1>3. /\ o \in Seq(Lines) /\ Len(out) \in Nat /\ DOMAIN o = 1..(Len(out) + 1)
      /\ DOMAIN out = 1..Len(out) /\ o[Len(out) + 1] = e
      /\ \A i \in 1..Len(out) : o[i] = out[i]
  BY <1>2, AppendOf
<1> HIDE DEF o
<1>4. \A i \in Output(o) : (i \in Output(out) /\ o[i] = out[i]) \/ i = Len(out) + 1
  BY <1>3 DEF Output
<1>5. /\ Prompts(in) = {}
      /\ \A i \in Output(out) : out[i].kind # "result"
      /\ \A i \in DOMAIN ev : ev[i].kind # "result"
  BY DEF Carries
<1>6. \A i \in Output(o) : o[i].of = q
  BY <1>2, <1>3, <1>4 DEF Carries
<1>7. \A i \in Output(o) : o[i].kind = "result" => i = Len(out) + 1
  BY <1>4, <1>5
<1>8. \A j \in Output(o) : j <= Len(out) + 1
  BY <1>3 DEF Output
<1>9. Carries(q, in, <<>>, o, ev)
  BY <1>5, <1>6, <1>7, <1>8 DEF Carries
<1> QED BY <1>1, <1>9 DEF o, e

\* The read loop takes a line from stdout that is no turn's.
LEMMA CarriesOther ==
  ASSUME NEW q, NEW in, NEW w, NEW out \in Seq(Lines), NEW ev,
         Carries(q, in, w, out, ev), out # <<>>
  PROVE  Carries(q, in, w, Tail(out), ev)
<1>1. \A i \in Output(Tail(out)) :
        i \in Int /\ i + 1 \in Int /\ i + 1 \in Output(out) /\ Tail(out)[i] = out[i + 1]
  BY TailOf DEF Output
<1>2. ASSUME NEW i \in Output(Tail(out)), Tail(out)[i].kind = "result"
      PROVE  Prompts(in) = {} /\ w = <<>> /\ \A j \in Output(Tail(out)) : j <= i
  <2>1. Prompts(in) = {} /\ w = <<>> /\ \A j \in Output(out) : j <= i + 1
    BY <1>1, <1>2 DEF Carries
  <2>2. ASSUME NEW j \in Output(Tail(out)) PROVE j <= i
    <3>1. j + 1 <= i + 1
      BY <1>1, <2>1
    <3> QED BY <3>1, <1>1
  <2> QED BY <2>1, <2>2
<1>3. Output(out) = {} => Output(Tail(out)) = {}
  BY <1>1
<1>4. \A i \in Output(Tail(out)) : Tail(out)[i].of = q
  <2>1. \A i \in Output(out) : out[i].of = q
    BY DEF Carries
  <2> QED BY <1>1, <2>1
<1> QED BY <1>2, <1>3, <1>4 DEF Carries

\* The read loop moves an event from stdout to the channel.
LEMMA CarriesOver ==
  ASSUME NEW q, NEW in, NEW w, NEW out \in Seq(Lines), NEW ev \in Seq(Events),
         Carries(q, in, w, out, ev), out # <<>>, Head(out).kind \in {"event", "result"}
  PROVE  Carries(q, in, w, Tail(out), Append(ev, Head(out)))
<1> DEFINE e == Head(out)
           v == Append(ev, e)
<1>1. 1 \in Output(out) /\ e = out[1] /\ e \in Lines
  BY TailOf DEF Output
<1>2. e \in Events /\ e.of = q
  BY <1>1, LineKinds DEF Carries, Events
<1>3. \A i \in DOMAIN ev : ev[i].kind # "result"
  BY <1>1 DEF Carries
<1>4. e.kind = "result" => Prompts(in) = {} /\ w = <<>> /\ Output(Tail(out)) = {}
  <2> SUFFICES ASSUME e.kind = "result"
               PROVE  Prompts(in) = {} /\ w = <<>> /\ Output(Tail(out)) = {}
    OBVIOUS
  <2>1. Prompts(in) = {} /\ w = <<>> /\ \A j \in Output(out) : j <= 1
    BY <1>1 DEF Carries
  <2>2. \A i \in Output(Tail(out)) : i >= 1 /\ i \in Int /\ i + 1 \in Output(out)
    BY TailOf DEF Output
  <2>3. ASSUME NEW i \in Output(Tail(out)) PROVE FALSE
    <3>1. i + 1 <= 1 /\ i >= 1 /\ i \in Int
      BY <2>1, <2>2
    <3> QED BY <3>1
  <2> QED BY <2>1, <2>3
<1>5. Carries(q, in, w, Tail(out), ev)
  BY CarriesOther
<1> HIDE DEF e
<1>6. /\ Len(ev) \in Nat /\ Len(v) = Len(ev) + 1 /\ DOMAIN v = 1..(Len(ev) + 1)
      /\ DOMAIN ev = 1..Len(ev) /\ v[Len(ev) + 1] = e
      /\ \A i \in 1..Len(ev) : v[i] = ev[i]
  BY <1>2, AppendOf
<1> HIDE DEF v
<1>7. \A i \in DOMAIN v : (i \in DOMAIN ev /\ v[i] = ev[i]) \/ (i = Len(v) /\ v[i] = e)
  BY <1>6
<1>8. Carries(q, in, w, Tail(out), v)
  BY <1>2, <1>3, <1>4, <1>5, <1>7 DEF Carries
<1> QED BY <1>8 DEF v, e

\* A Query takes an event.
LEMMA CarriesTaken ==
  ASSUME NEW q, NEW in, NEW w, NEW out, NEW ev \in Seq(Events),
         Carries(q, in, w, out, ev), ev # <<>>
  PROVE  Carries(q, in, w, out, Tail(ev))
<1>1. /\ Len(ev) \in Nat /\ Len(Tail(ev)) = Len(ev) - 1 /\ DOMAIN Tail(ev) = 1..(Len(ev) - 1)
      /\ \A i \in DOMAIN Tail(ev) : i \in Int /\ i + 1 \in DOMAIN ev /\ Tail(ev)[i] = ev[i + 1]
  BY TailOf
<1>2. \A i \in DOMAIN Tail(ev) : Tail(ev)[i].of = q
  BY <1>1 DEF Carries
<1>3. ASSUME NEW i \in DOMAIN Tail(ev), Tail(ev)[i].kind = "result"
      PROVE  Prompts(in) = {} /\ w = <<>> /\ Output(out) = {} /\ i = Len(Tail(ev))
  <2>1. Prompts(in) = {} /\ w = <<>> /\ Output(out) = {} /\ i + 1 = Len(ev)
    BY <1>1, <1>3 DEF Carries
  <2> QED BY <2>1, <1>1
<1> QED BY <1>2, <1>3 DEF Carries

\* A Query takes the result, and nothing is left.
LEMMA CarriesNothing ==
  ASSUME NEW q, NEW p, NEW in, NEW w, NEW out, NEW ev \in Seq(Events),
         Carries(q, in, w, out, ev), ev # <<>>, Head(ev).kind = "result"
  PROVE  Carries(p, in, w, out, Tail(ev)) /\ Head(ev).of = q
<1>1. 1 \in DOMAIN ev /\ Head(ev) = ev[1]
  BY TailOf
<1>2. Prompts(in) = {} /\ w = <<>> /\ Output(out) = {} /\ 1 = Len(ev) /\ Head(ev).of = q
  BY <1>1 DEF Carries
<1>3. Tail(ev) = <<>>
  BY <1>2, TailOfOne
<1> QED BY <1>2, <1>3 DEF Carries

\* The process is gone, and with it what it had not read.
LEMMA CarriesGone ==
  ASSUME NEW q, NEW in, NEW w, NEW out, NEW ev, Carries(q, in, w, out, ev)
  PROVE  Carries(q, <<>>, w, out, ev)
<1>1. Prompts(<<>>) = {}
  BY DEF Prompts
<1> QED BY <1>1 DEF Carries

(***************************************************************************)
(* The end of the session                                                  *)
(***************************************************************************)
\* The read loop ends after the process, and Close after both.
LEMMA EndingKeeps ==
  ASSUME IInv, [Next]_vars
  PROVE  Ending'
<1> USE DEF process, reading, querying, controlling
<1>1. CASE CliReads
  BY <1>1 DEF IInv, Ending, CliReads
<1>2. CASE CliWorks
  BY <1>2 DEF IInv, Ending, CliWorks
<1>3. CASE Dies
  BY <1>3 DEF IInv, Ending, Dies
<1>4. CASE ReadEvent
  BY <1>4 DEF IInv, Ending, ReadEvent
<1>5. CASE ReadResponse
  BY <1>5 DEF IInv, Ending, ReadResponse
<1>6. CASE ReadRequest
  BY <1>6 DEF IInv, Ending, ReadRequest
<1>7. CASE ReadEOF
  BY <1>7 DEF IInv, Ending, ReadEOF
<1>8. CASE ReaderEnds
  BY <1>8 DEF IInv, Ending, ReaderEnds
<1>9. ASSUME NEW t \in Turns, QueryBegins(t)
      PROVE  Ending'
  BY <1>9 DEF IInv, Ending, QueryBegins
<1>10. ASSUME NEW t \in Turns, QueryWrites(t)
       PROVE  Ending'
  BY <1>10 DEF IInv, Ending, QueryWrites
<1>11. ASSUME NEW t \in Turns, QueryReads(t)
       PROVE  Ending'
  BY <1>11 DEF IInv, Ending, QueryReads
<1>12. ASSUME NEW t \in Turns, QueryMeetsEnd(t)
       PROVE  Ending'
  BY <1>12 DEF IInv, Ending, QueryMeetsEnd
<1>13. ASSUME NEW t \in Turns, QueryCancelled(t)
       PROVE  Ending'
  BY <1>13 DEF IInv, Ending, QueryCancelled
<1>14. ASSUME NEW c \in Controls, ControlRegisters(c)
       PROVE  Ending'
  BY <1>14 DEF IInv, Ending, ControlRegisters
<1>15. ASSUME NEW c \in Controls, ControlWrites(c)
       PROVE  Ending'
  BY <1>15 DEF IInv, Ending, ControlWrites
<1>16. ASSUME NEW c \in Controls, ControlReceives(c)
       PROVE  Ending'
  BY <1>16 DEF IInv, Ending, ControlReceives
<1>17. ASSUME NEW c \in Controls, ControlGivesUp(c)
       PROVE  Ending'
  BY <1>17 DEF IInv, Ending, ControlGivesUp
<1>18. ASSUME NEW r \in Requests, HandlerReplies(r)
       PROVE  Ending'
  BY <1>18 DEF IInv, Ending, HandlerReplies
<1>19. CASE CloseBegins
  BY <1>19 DEF IInv, Ending, CloseBegins
<1>20. CASE CloseStdin
  BY <1>20 DEF IInv, Ending, CloseStdin
<1>21. CASE CloseKills
  BY <1>21 DEF IInv, Ending, CloseKills
<1>22. CASE CloseReturns
  BY <1>22 DEF IInv, Ending, CloseReturns
<1>24. CASE ReadTooLong
  BY <1>24 DEF IInv, Ending, ReadTooLong
<1>25. CASE ReadNoMore
  BY <1>25 DEF IInv, Ending, ReadNoMore
<1>26. ASSUME NEW r \in Requests, HandlerDrops(r)
       PROVE  Ending'
  BY <1>26 DEF IInv, Ending, HandlerDrops
<1>23. CASE UNCHANGED vars
  BY <1>23 DEF IInv, Ending, vars
<1> QED
  BY <1>1, <1>2, <1>3, <1>4, <1>5, <1>6, <1>7, <1>8, <1>9, <1>10, <1>11, <1>12, <1>13,
     <1>14, <1>15, <1>16, <1>17, <1>18, <1>19, <1>20, <1>21, <1>22, <1>23,
     <1>24, <1>25, <1>26
  DEF Next, Cli, Reader, Query, Control, Handler, Closing, CliExitsAtEOF, Killed

\* queryMu lets one Query in at a time.
LEMMA SingleFlightKeeps ==
  ASSUME IInv, [Next]_vars
  PROVE  SingleFlight'
<1> USE DEF process, reading, querying, controlling
<1>1. CASE CliReads
  BY <1>1 DEF IInv, SingleFlight, CliReads
<1>2. CASE CliWorks
  BY <1>2 DEF IInv, SingleFlight, CliWorks
<1>3. CASE Dies
  BY <1>3 DEF IInv, SingleFlight, Dies
<1>4. CASE ReadEvent
  BY <1>4 DEF IInv, SingleFlight, ReadEvent
<1>5. CASE ReadResponse
  BY <1>5 DEF IInv, SingleFlight, ReadResponse
<1>6. CASE ReadRequest
  BY <1>6 DEF IInv, SingleFlight, ReadRequest
<1>7. CASE ReadEOF
  BY <1>7 DEF IInv, SingleFlight, ReadEOF
<1>8. CASE ReaderEnds
  BY <1>8 DEF IInv, SingleFlight, ReaderEnds
<1>9. ASSUME NEW t \in Turns, QueryBegins(t)
      PROVE  SingleFlight'
  BY <1>9 DEF IInv, SingleFlight, TypeOK, QueryBegins
<1>10. ASSUME NEW t \in Turns, QueryWrites(t)
       PROVE  SingleFlight'
  <2>1. query[t] = "begun" /\ \A u \in Turns : u # t => query'[u] = query[u]
    BY <1>10 DEF IInv, TypeOK, QueryWrites
  <2>2. \A u \in Turns : query'[u] \in {"begun", "reading"} => query[u] \in {"begun", "reading"}
    BY <2>1
  <2> QED BY <2>2 DEF IInv, SingleFlight
<1>11. ASSUME NEW t \in Turns, QueryReads(t)
       PROVE  SingleFlight'
  <2>1. query[t] = "reading" /\ \A u \in Turns : u # t => query'[u] = query[u]
    BY <1>11 DEF IInv, TypeOK, QueryReads
  <2>2. \A u \in Turns : query'[u] \in {"begun", "reading"} => query[u] \in {"begun", "reading"}
    BY <2>1
  <2> QED BY <2>2 DEF IInv, SingleFlight
<1>12. ASSUME NEW t \in Turns, QueryMeetsEnd(t)
       PROVE  SingleFlight'
  BY <1>12 DEF IInv, SingleFlight, TypeOK, QueryMeetsEnd
<1>13. ASSUME NEW t \in Turns, QueryCancelled(t)
       PROVE  SingleFlight'
  BY <1>13 DEF IInv, SingleFlight, TypeOK, QueryCancelled
<1>14. ASSUME NEW c \in Controls, ControlRegisters(c)
       PROVE  SingleFlight'
  BY <1>14 DEF IInv, SingleFlight, ControlRegisters
<1>15. ASSUME NEW c \in Controls, ControlWrites(c)
       PROVE  SingleFlight'
  BY <1>15 DEF IInv, SingleFlight, ControlWrites
<1>16. ASSUME NEW c \in Controls, ControlReceives(c)
       PROVE  SingleFlight'
  BY <1>16 DEF IInv, SingleFlight, ControlReceives
<1>17. ASSUME NEW c \in Controls, ControlGivesUp(c)
       PROVE  SingleFlight'
  BY <1>17 DEF IInv, SingleFlight, ControlGivesUp
<1>18. ASSUME NEW r \in Requests, HandlerReplies(r)
       PROVE  SingleFlight'
  BY <1>18 DEF IInv, SingleFlight, HandlerReplies
<1>19. CASE CloseBegins
  BY <1>19 DEF IInv, SingleFlight, CloseBegins
<1>20. CASE CloseStdin
  BY <1>20 DEF IInv, SingleFlight, CloseStdin
<1>21. CASE CloseKills
  BY <1>21 DEF IInv, SingleFlight, CloseKills
<1>22. CASE CloseReturns
  BY <1>22 DEF IInv, SingleFlight, CloseReturns
<1>24. CASE ReadTooLong
  BY <1>24 DEF IInv, SingleFlight, ReadTooLong
<1>25. CASE ReadNoMore
  BY <1>25 DEF IInv, SingleFlight, ReadNoMore
<1>26. ASSUME NEW r \in Requests, HandlerDrops(r)
       PROVE  SingleFlight'
  BY <1>26 DEF IInv, SingleFlight, HandlerDrops
<1>23. CASE UNCHANGED vars
  BY <1>23 DEF IInv, SingleFlight, vars
<1> QED
  BY <1>1, <1>2, <1>3, <1>4, <1>5, <1>6, <1>7, <1>8, <1>9, <1>10, <1>11, <1>12, <1>13,
     <1>14, <1>15, <1>16, <1>17, <1>18, <1>19, <1>20, <1>21, <1>22, <1>23,
     <1>24, <1>25, <1>26
  DEF Next, Cli, Reader, Query, Control, Handler, Closing, CliExitsAtEOF, Killed

\* What is registered is sent something or taken off by the caller.
LEMMA RegisteredKeeps ==
  ASSUME IInv, [Next]_vars
  PROVE  Registered'
<1> USE DEF process, reading, querying, controlling
<1>1. CASE CliReads
  BY <1>1 DEF IInv, Registered, CliReads
<1>2. CASE CliWorks
  BY <1>2 DEF IInv, Registered, CliWorks
<1>3. CASE Dies
  BY <1>3 DEF IInv, Registered, Dies
<1>4. CASE ReadEvent
  BY <1>4 DEF IInv, Registered, ReadEvent
<1>5. CASE ReadResponse
  BY <1>5 DEF IInv, Registered, Ending, TypeOK, ReadResponse, NextLine
<1>6. CASE ReadRequest
  BY <1>6 DEF IInv, Registered, ReadRequest
<1>7. CASE ReadEOF
  BY <1>7 DEF IInv, Registered, ReadEOF
<1>8. CASE ReaderEnds
  BY <1>8 DEF IInv, Registered, Ending, TypeOK, ReaderEnds, FailPending
<1>9. ASSUME NEW t \in Turns, QueryBegins(t)
      PROVE  Registered'
  BY <1>9 DEF IInv, Registered, QueryBegins
<1>10. ASSUME NEW t \in Turns, QueryWrites(t)
       PROVE  Registered'
  BY <1>10 DEF IInv, Registered, QueryWrites
<1>11. ASSUME NEW t \in Turns, QueryReads(t)
       PROVE  Registered'
  BY <1>11 DEF IInv, Registered, QueryReads
<1>12. ASSUME NEW t \in Turns, QueryMeetsEnd(t)
       PROVE  Registered'
  BY <1>12 DEF IInv, Registered, QueryMeetsEnd
<1>13. ASSUME NEW t \in Turns, QueryCancelled(t)
       PROVE  Registered'
  BY <1>13 DEF IInv, Registered, QueryCancelled
<1>14. ASSUME NEW c \in Controls, ControlRegisters(c)
       PROVE  Registered'
  BY <1>14 DEF IInv, Registered, Ending, TypeOK, ControlRegisters
<1>15. ASSUME NEW c \in Controls, ControlWrites(c)
       PROVE  Registered'
  <2>1. CASE Writable
    <3>1. reader # "done" /\ reader' = reader
      BY <2>1, <1>15 DEF IInv, Ending, Writable, ControlWrites
    <3> QED BY <2>1, <3>1, <1>15 DEF IInv, Registered, TypeOK, ControlWrites
  <2>2. CASE ~Writable
    <3>1. /\ control' = [control EXCEPT ![c] = "error"] /\ pending' = pending \ {c}
          /\ UNCHANGED <<mailbox, reader>>
      BY <2>2, <1>15 DEF ControlWrites
    <3>2. \A d \in Controls : control'[d] = IF d = c THEN "error" ELSE control[d]
      BY <3>1 DEF IInv, TypeOK
    <3> QED BY <3>1, <3>2 DEF IInv, Registered, TypeOK
  <2> QED BY <2>1, <2>2
<1>16. ASSUME NEW c \in Controls, ControlReceives(c)
       PROVE  Registered'
  BY <1>16 DEF IInv, Registered, Ending, TypeOK, ControlReceives
<1>17. ASSUME NEW c \in Controls, ControlGivesUp(c)
       PROVE  Registered'
  BY <1>17 DEF IInv, Registered, Ending, TypeOK, ControlGivesUp
<1>18. ASSUME NEW r \in Requests, HandlerReplies(r)
       PROVE  Registered'
  BY <1>18 DEF IInv, Registered, HandlerReplies
<1>19. CASE CloseBegins
  BY <1>19 DEF IInv, Registered, CloseBegins
<1>20. CASE CloseStdin
  BY <1>20 DEF IInv, Registered, CloseStdin
<1>21. CASE CloseKills
  BY <1>21 DEF IInv, Registered, CloseKills
<1>22. CASE CloseReturns
  BY <1>22 DEF IInv, Registered, CloseReturns
<1>24. CASE ReadTooLong
  BY <1>24 DEF IInv, Registered, ReadTooLong
<1>25. CASE ReadNoMore
  BY <1>25 DEF IInv, Registered, ReadNoMore
<1>26. ASSUME NEW r \in Requests, HandlerDrops(r)
       PROVE  Registered'
  BY <1>26 DEF IInv, Registered, HandlerDrops
<1>23. CASE UNCHANGED vars
  BY <1>23 DEF IInv, Registered, vars
<1> QED
  BY <1>1, <1>2, <1>3, <1>4, <1>5, <1>6, <1>7, <1>8, <1>9, <1>10, <1>11, <1>12, <1>13,
     <1>14, <1>15, <1>16, <1>17, <1>18, <1>19, <1>20, <1>21, <1>22, <1>23,
     <1>24, <1>25, <1>26
  DEF Next, Cli, Reader, Query, Control, Handler, Closing, CliExitsAtEOF, Killed

(***************************************************************************)
(* Types                                                                   *)
(***************************************************************************)


\* What the pipes carry is lines, and what is read from them of their kinds.
LEMMA TypeOKKeeps ==
  ASSUME IInv, [Next]_vars
  PROVE  TypeOK'
<1> USE DEF process, reading, querying, controlling
<1>1. CASE CliReads
  <2>1. /\ stdin \in Seq(Lines) /\ stdin # <<>> /\ Head(stdin) \in Lines
        /\ Tail(stdin) \in Seq(Lines)
    BY <1>1, TailOf DEF IInv, TypeOK, CliReads
  <2>2. /\ stdin' \in Seq(Lines) /\ work' \in Seq(Turns) /\ stdout' \in Seq(Lines)
        /\ waiting' \subseteq waiting
    <3>1. stdin' \in Seq(Lines) /\ work \in Seq(Turns) /\ stdout \in Seq(Lines)
      BY <1>1, <2>1 DEF IInv, TypeOK, CliReads
    <3>2. CASE /\ Head(stdin).kind = "turn" /\ UNCHANGED <<stdout, waiting>>
               /\ work' = Append(work, Head(stdin).of)
      <4>1. Head(stdin).of \in Turns
        BY <3>2, <2>1, LineKinds
      <4> QED BY <3>1, <3>2, <4>1, AppendOf
    <3>3. CASE /\ Head(stdin).kind = "control" /\ UNCHANGED <<work, waiting>>
               /\ stdout' = Append(stdout, Line("response", Head(stdin).of))
      <4>1. Line("response", Head(stdin).of) \in Lines
        BY <3>3, <2>1, LineKinds
      <4> QED BY <3>1, <3>3, <4>1, AppendOf
    <3>4. CASE UNCHANGED <<stdout, work>> /\ waiting' = waiting \ {Head(stdin).of}
      BY <3>1, <3>4
    <3> QED BY <3>2, <3>3, <3>4, <1>1 DEF CliReads
  <2> QED BY <1>1, <2>2 DEF IInv, TypeOK, CliReads
<1>2. CASE CliWorks
  <2>1. work # <<>> /\ Head(work) \in Turns /\ Tail(work) \in Seq(Turns)
    BY <1>2, TailOf DEF IInv, TypeOK, CliWorks
  <2>2. stdout' \in Seq(Lines) /\ work' \in Seq(Turns)
    <3>1. work \in Seq(Turns) /\ stdout \in Seq(Lines)
      BY DEF IInv, TypeOK
    <3>2. ASSUME NEW line \in Lines
          PROVE  Append(stdout, line) \in Seq(Lines)
      BY <3>1, AppendOf
    <3>3. work' = work \/ work' = Tail(work)
      BY <1>2 DEF CliWorks
    <3>4. \E line \in Lines : stdout' = Append(stdout, line)
      BY <1>2, <2>1, LineKinds DEF CliWorks
    <3> QED BY <2>1, <3>1, <3>2, <3>3, <3>4
  <2>3. emitted' \in 0..MaxEvents
    <3>1. emitted \in 0..MaxEvents /\ MaxEvents \in Nat
      BY ClientAssumption DEF IInv, TypeOK
    <3>2. \/ emitted < MaxEvents /\ emitted' = emitted + 1
          \/ emitted' = 0 \/ emitted' = emitted
      BY <1>2 DEF CliWorks
    <3> QED BY <3>1, <3>2
  <2>4. waiting' \subseteq asked' /\ asked' \subseteq Requests
    BY <1>2 DEF IInv, TypeOK, CliWorks
  <2> QED BY <1>2, <2>2, <2>3, <2>4 DEF IInv, TypeOK, CliWorks
<1>3. CASE Dies
  <2>1. stdin' \in Seq(Lines)
    BY <1>3 DEF Dies
  <2> QED BY <1>3, <2>1 DEF IInv, TypeOK, Dies
<1>4. CASE ReadEvent
  <2>1. /\ stdout # <<>> /\ Head(stdout) \in Lines /\ stdout' \in Seq(Lines)
        /\ Head(stdout).kind \in {"event", "result"}
    BY <1>4, TailOf DEF IInv, TypeOK, ReadEvent, NextLine
  <2>2. Head(stdout) \in Events /\ events \in Seq(Events)
    BY <2>1, LineKinds DEF IInv, TypeOK, Events
  <2>3. events' \in Seq(Events) /\ Len(events') = Len(events) + 1 /\ Len(events) \in Nat
    BY <1>4, <2>2, AppendOf DEF ReadEvent, NextLine
  <2>4. Len(events') <= Capacity
    <3>1. Len(events) < Capacity
      BY <1>4 DEF ReadEvent
    <3>2. Capacity \in Nat
      BY ClientAssumption
    <3> QED BY <3>1, <3>2, <2>3
  <2> QED BY <1>4, <2>1, <2>3, <2>4 DEF IInv, TypeOK, ReadEvent, Events
<1>5. CASE ReadResponse
  <2>1. stdout' \in Seq(Lines) /\ NextLine.of \in Controls
    BY <1>5, TailOf, LineKinds DEF IInv, TypeOK, ReadResponse, NextLine
  <2> QED BY <1>5, <2>1 DEF IInv, TypeOK, ReadResponse
<1>6. CASE ReadRequest
  <2>1. stdout' \in Seq(Lines) /\ NextLine.of \in Requests
    BY <1>6, TailOf, LineKinds DEF IInv, TypeOK, ReadRequest, NextLine
  <2> QED BY <1>6, <2>1 DEF IInv, TypeOK, ReadRequest
<1>7. CASE ReadEOF
  BY <1>7 DEF IInv, TypeOK, ReadEOF
<1>8. CASE ReaderEnds
  BY <1>8 DEF IInv, TypeOK, ReaderEnds, FailPending
<1>9. ASSUME NEW t \in Turns, QueryBegins(t)
      PROVE  TypeOK'
  BY <1>9 DEF IInv, TypeOK, QueryBegins
<1>10. ASSUME NEW t \in Turns, QueryWrites(t)
       PROVE  TypeOK'
  <2>1. stdin' \in Seq(Lines)
    BY <1>10, LineKinds, AppendOf DEF IInv, TypeOK, QueryWrites, Write
  <2> QED BY <1>10, <2>1 DEF IInv, TypeOK, QueryWrites
<1>11. ASSUME NEW t \in Turns, QueryReads(t)
       PROVE  TypeOK'
  <2>1. events \in Seq(Events) /\ events # <<>>
    BY <1>11 DEF IInv, TypeOK, QueryReads, Events
  <2>2. /\ events' \in Seq(Events) /\ Len(events') = Len(events) - 1 /\ Len(events) \in Nat
        /\ Head(events) \in Events
    BY <1>11, <2>1, TailOf DEF QueryReads
  <2>3. Len(events') <= Capacity
    <3>1. Len(events) <= Capacity /\ Capacity \in Nat
      BY ClientAssumption DEF IInv, TypeOK
    <3> QED BY <3>1, <2>2
  <2>4. Head(events).of \in Turns
    BY <2>2 DEF Events
  <2>5. query' \in [Turns -> {"idle", "begun", "reading", "result", "error", "cancelled"}]
        /\ got' \in [Turns -> Turns \cup {None}]
    BY <1>11, <2>4 DEF IInv, TypeOK, QueryReads
  <2> QED BY <1>11, <2>2, <2>3, <2>5 DEF IInv, TypeOK, QueryReads, Events
<1>12. ASSUME NEW t \in Turns, QueryMeetsEnd(t)
       PROVE  TypeOK'
  BY <1>12 DEF IInv, TypeOK, QueryMeetsEnd
<1>13. ASSUME NEW t \in Turns, QueryCancelled(t)
       PROVE  TypeOK'
  BY <1>13 DEF IInv, TypeOK, QueryCancelled
<1>14. ASSUME NEW c \in Controls, ControlRegisters(c)
       PROVE  TypeOK'
  BY <1>14 DEF IInv, TypeOK, ControlRegisters
<1>15. ASSUME NEW c \in Controls, ControlWrites(c)
       PROVE  TypeOK'
  <2>1. stdin' \in Seq(Lines)
    BY <1>15, LineKinds, AppendOf DEF IInv, TypeOK, ControlWrites, Write
  <2> QED BY <1>15, <2>1 DEF IInv, TypeOK, ControlWrites
<1>16. ASSUME NEW c \in Controls, ControlReceives(c)
       PROVE  TypeOK'
  BY <1>16 DEF IInv, TypeOK, ControlReceives
<1>17. ASSUME NEW c \in Controls, ControlGivesUp(c)
       PROVE  TypeOK'
  BY <1>17 DEF IInv, TypeOK, ControlGivesUp
<1>18. ASSUME NEW r \in Requests, HandlerReplies(r)
       PROVE  TypeOK'
  <2>1. stdin' \in Seq(Lines)
    BY <1>18, LineKinds, AppendOf DEF IInv, TypeOK, HandlerReplies, Write
  <2> QED BY <1>18, <2>1 DEF IInv, TypeOK, HandlerReplies
<1>19. CASE CloseBegins
  BY <1>19 DEF IInv, TypeOK, CloseBegins
<1>20. CASE CloseStdin
  BY <1>20 DEF IInv, TypeOK, CloseStdin
<1>21. CASE CloseKills
  BY <1>21 DEF IInv, TypeOK, CloseKills
<1>22. CASE CloseReturns
  BY <1>22 DEF IInv, TypeOK, CloseReturns
<1>24. CASE ReadTooLong
  BY <1>24 DEF IInv, TypeOK, ReadTooLong
<1>25. CASE ReadNoMore
  BY <1>25 DEF IInv, TypeOK, ReadNoMore
<1>26. ASSUME NEW r \in Requests, HandlerDrops(r)
       PROVE  TypeOK'
  BY <1>26 DEF IInv, TypeOK, HandlerDrops
<1>23. CASE UNCHANGED vars
  BY <1>23 DEF IInv, TypeOK, vars
<1> QED
  BY <1>1, <1>2, <1>3, <1>4, <1>5, <1>6, <1>7, <1>8, <1>9, <1>10, <1>11, <1>12, <1>13,
     <1>14, <1>15, <1>16, <1>17, <1>18, <1>19, <1>20, <1>21, <1>22, <1>23,
     <1>24, <1>25, <1>26
  DEF Next, Cli, Reader, Query, Control, Handler, Closing, CliExitsAtEOF, Killed

(***************************************************************************)
(* A Query's turn                                                          *)
(***************************************************************************)
\* A step that no Query takes, and after which the pipeline carries what it did.
LEMMA Undisturbed ==
  ASSUME IInv, query' = query, got' = got, reader = "done" => reader' = "done",
         \A q \in Turns \cup {None} :
           Carries(q, stdin, work, stdout, events) => Carries(q, stdin', work', stdout', events')
  PROVE  Orderly'
BY DEF IInv, Orderly, Current


\* Each step carries the current turn on, and only it.
LEMMA OrderlyKeeps ==
  ASSUME IInv, [Next]_vars
  PROVE  Orderly'
<1> USE DEF process, reading, querying, controlling
<1>1. CASE CliReads
  <2>1. /\ stdin \in Seq(Lines) /\ stdin # <<>> /\ work \in Seq(Turns) /\ stdout \in Seq(Lines)
        /\ Head(stdin) \in Lines
    BY <1>1, TailOf DEF IInv, TypeOK, CliReads
  <2>2. ASSUME NEW q \in Turns \cup {None}, Carries(q, stdin, work, stdout, events)
        PROVE  Carries(q, stdin', work', stdout', events')
    <3>1. stdin' = Tail(stdin) /\ events' = events
      BY <1>1 DEF CliReads
    <3>2. CASE Head(stdin).kind = "turn"
      <4>1. work' = Append(work, Head(stdin).of) /\ stdout' = stdout
        BY <3>2, <1>1 DEF CliReads
      <4> QED BY <3>1, <3>2, <4>1, <2>1, <2>2, CarriesRead
    <3>3. CASE Head(stdin).kind = "control"
      <4>1. work' = work /\ stdout' = Append(stdout, Line("response", Head(stdin).of))
        BY <3>3, <1>1 DEF CliReads
      <4>2. Carries(q, stdin', work, stdout, events)
        BY <3>1, <2>1, <2>2, CarriesLess
      <4>3. /\ Line("response", Head(stdin).of) \in Lines
            /\ Line("response", Head(stdin).of).kind = "response"
        BY <2>1, <3>3, LineKinds DEF Line
      <4> QED BY <3>1, <4>1, <4>2, <4>3, <2>1, CarriesEvent
    <3>4. CASE Head(stdin).kind = "reply"
      <4>1. work' = work /\ stdout' = stdout
        BY <3>4, <1>1 DEF CliReads
      <4> QED BY <3>1, <4>1, <2>1, <2>2, CarriesLess
    <3> QED BY <3>2, <3>3, <3>4, <1>1 DEF CliReads
  <2> QED BY <1>1, <2>2, Undisturbed DEF CliReads
<1>2. CASE CliWorks
  <2>1. /\ work \in Seq(Turns) /\ work # <<>> /\ stdout \in Seq(Lines) /\ Head(work) \in Turns
        /\ 1 \in DOMAIN work /\ Head(work) = work[1]
    <3>1. work \in Seq(Turns) /\ work # <<>> /\ stdout \in Seq(Lines)
      BY <1>2 DEF IInv, TypeOK, CliWorks
    <3> QED BY <3>1, TailOf
  <2>2. ASSUME NEW q \in Turns \cup {None}, Carries(q, stdin, work, stdout, events)
        PROVE  Carries(q, stdin', work', stdout', events')
    <3>1. Head(work) = q /\ stdin' = stdin /\ events' = events
      BY <2>1, <2>2, <1>2 DEF Carries, CliWorks
    <3>2. CASE stdout' = Append(stdout, Line("event", Head(work))) /\ work' = work
      <4>1. /\ Line("event", Head(work)) \in Lines /\ Line("event", Head(work)).kind = "event"
            /\ Line("event", Head(work)).of = q
        BY <2>1, <3>1, LineKinds DEF Line
      <4> QED BY <3>1, <3>2, <4>1, <2>1, <2>2, CarriesEvent
    <3>3. CASE stdout' = Append(stdout, Line("result", Head(work))) /\ work' = Tail(work)
      BY <3>1, <3>3, <2>1, <2>2, CarriesResult
    <3>4. ASSUME NEW r \in Requests, stdout' = Append(stdout, Line("request", r)), work' = work
          PROVE  Carries(q, stdin', work', stdout', events')
      <4>1. Line("request", r) \in Lines /\ Line("request", r).kind = "request"
        BY LineKinds DEF Line
      <4> QED BY <3>1, <3>4, <4>1, <2>1, <2>2, CarriesEvent
    <3> QED BY <3>2, <3>3, <3>4, <1>2 DEF CliWorks
  <2> QED BY <1>2, <2>2, Undisturbed DEF CliWorks
<1>3. CASE Dies
  <2>1. /\ stdin' = <<>> /\ UNCHANGED <<work, stdout, events, query, got, reader>>
    BY <1>3 DEF Dies
  <2> QED BY <2>1, CarriesGone, Undisturbed
<1>4. CASE ReadEvent
  <2>1. /\ stdout \in Seq(Lines) /\ stdout # <<>> /\ events \in Seq(Events)
        /\ Head(stdout).kind \in {"event", "result"}
    BY <1>4 DEF IInv, TypeOK, ReadEvent, NextLine, Events
  <2>2. /\ stdout' = Tail(stdout) /\ events' = Append(events, Head(stdout))
        /\ UNCHANGED <<stdin, work, query, got, reader>>
    BY <1>4 DEF ReadEvent, NextLine
  <2> QED BY <2>1, <2>2, CarriesOver, Undisturbed
<1>5. CASE ReadResponse
  <2>1. /\ stdout \in Seq(Lines) /\ stdout # <<>> /\ stdout' = Tail(stdout)
        /\ UNCHANGED <<stdin, work, events, query, got, reader>>
    BY <1>5 DEF IInv, TypeOK, ReadResponse
  <2> QED BY <2>1, CarriesOther, Undisturbed
<1>6. CASE ReadRequest
  <2>1. /\ stdout \in Seq(Lines) /\ stdout # <<>> /\ stdout' = Tail(stdout)
        /\ UNCHANGED <<stdin, work, events, query, got, reader>>
    BY <1>6 DEF IInv, TypeOK, ReadRequest
  <2> QED BY <2>1, CarriesOther, Undisturbed
<1>7. CASE ReadEOF
  BY <1>7, Undisturbed DEF ReadEOF
<1>8. CASE ReaderEnds
  BY <1>8, Undisturbed DEF ReaderEnds
<1>9. ASSUME NEW t \in Turns, QueryBegins(t)
      PROVE  Orderly'
  <2>1. /\ UNCHANGED <<stdin, work, stdout, events, got, reader>>
        /\ \A u \in Turns : /\ query'[u] = "reading" <=> query[u] = "reading"
                            /\ query'[u] = "result" <=> query[u] = "result"
                            /\ query'[u] = "cancelled" <=> query[u] = "cancelled"
    BY <1>9 DEF IInv, TypeOK, QueryBegins
  <2> QED BY <2>1 DEF IInv, Orderly, Current
<1>10. ASSUME NEW t \in Turns, QueryWrites(t)
       PROVE  Orderly'
  <2>1. /\ UNCHANGED <<work, stdout, events, got, reader>>
        /\ query' = [query EXCEPT ![t] = IF Writable THEN "reading" ELSE "error"]
        /\ query[t] = "begun"
        /\ query \in [Turns -> {"idle", "begun", "reading", "result", "error", "cancelled"}]
    BY <1>10 DEF IInv, TypeOK, QueryWrites
  <2>2. \A u \in Turns : query[u] # "reading"
    BY <2>1 DEF IInv, SingleFlight
  <2>3. CASE ~Writable
    <3>1. stdin' = stdin
      BY <2>3, <1>10 DEF QueryWrites, Write
    <3>2. \A u \in Turns : /\ query'[u] # "reading"
                           /\ query'[u] = "result" <=> query[u] = "result"
                           /\ query'[u] = "cancelled" <=> query[u] = "cancelled"
      BY <2>1, <2>2, <2>3
    <3> QED BY <2>1, <2>2, <3>1, <3>2 DEF IInv, Orderly, Current
  <2>4. CASE Writable
    <3>1. stdin' = Append(stdin, Line("turn", t)) /\ reader # "done"
      BY <2>4, <1>10 DEF QueryWrites, Write, Writable, IInv, Ending
    <3>2. \A u \in Turns : /\ query'[u] = "reading" <=> u = t
                           /\ query'[u] = "result" <=> query[u] = "result"
                           /\ query'[u] = "cancelled" <=> query[u] = "cancelled"
      BY <2>1, <2>2, <2>4
    <3>3. ASSUME \A u \in Turns : query'[u] # "cancelled"
          PROVE  Carries(t, stdin', work', stdout', events')
      <4>1. Carries(None, stdin, work, stdout, events)
        BY <2>2, <3>1, <3>2, <3>3 DEF IInv, Orderly, Current
      <4>2. /\ stdin \in Seq(Lines) /\ work \in Seq(Turns) /\ stdout \in Seq(Lines)
            /\ events \in Seq(Events)
        BY DEF IInv, TypeOK, Events
      <4> QED BY <2>1, <3>1, <4>1, <4>2, CarriesPrompt
    <3>4. \A q \in Turns \cup {None} : Current(q)' => q = t
      BY <3>2 DEF Current
    <3> QED BY <2>1, <3>2, <3>3, <3>4 DEF IInv, Orderly
  <2> QED BY <2>3, <2>4
<1>11. ASSUME NEW t \in Turns, QueryReads(t)
       PROVE  Orderly'
  <2>1. /\ query[t] = "reading" /\ events # <<>> /\ events' = Tail(events)
        /\ UNCHANGED <<stdin, work, stdout, reader>> /\ events \in Seq(Events)
        /\ query \in [Turns -> {"idle", "begun", "reading", "result", "error", "cancelled"}]
        /\ got \in [Turns -> Turns \cup {None}]
    BY <1>11 DEF IInv, TypeOK, QueryReads, Events
  <2>2. CASE Head(events).kind # "result"
    <3>1. query' = query /\ got' = got
      BY <2>2, <1>11 DEF QueryReads
    <3> QED BY <2>1, <3>1, CarriesTaken, Undisturbed
  <2>3. CASE Head(events).kind = "result"
    <3>1. query' = [query EXCEPT ![t] = "result"] /\ got' = [got EXCEPT ![t] = Head(events).of]
      BY <2>3, <1>11 DEF QueryReads
    <3>2. \A u \in Turns : /\ query'[u] # "reading"
                           /\ u # t => query'[u] = query[u] /\ got'[u] = got[u]
                           /\ query'[u] = "cancelled" <=> query[u] = "cancelled"
      BY <2>1, <3>1 DEF IInv, SingleFlight
    <3>3. ASSUME \A u \in Turns : query'[u] # "cancelled"
          PROVE  got'[t] = t /\ Carries(None, stdin', work', stdout', events')
      <4>1. Carries(t, stdin, work, stdout, events)
        BY <2>1, <3>2, <3>3, ClientAssumption DEF IInv, Orderly, Current
      <4>2. Head(events).of = t /\ Carries(None, stdin, work, stdout, Tail(events))
        BY <2>1, <2>3, <4>1, CarriesNothing
      <4> QED BY <2>1, <3>1, <4>2
    <3>4. \A q \in Turns \cup {None} : Current(q)' => q = None
      BY <3>2 DEF Current
    <3> QED BY <2>1, <3>2, <3>3, <3>4 DEF IInv, Orderly
  <2> QED BY <2>2, <2>3
<1>12. ASSUME NEW t \in Turns, QueryMeetsEnd(t)
       PROVE  Orderly'
  <2>1. /\ query[t] = "reading" /\ reader' = "done" /\ got' = got
        /\ query' = [query EXCEPT ![t] = "error"]
        /\ query \in [Turns -> {"idle", "begun", "reading", "result", "error", "cancelled"}]
    BY <1>12 DEF IInv, TypeOK, Ending, QueryMeetsEnd
  <2>2. \A u \in Turns : /\ query'[u] # "reading"
                         /\ query'[u] = "result" <=> query[u] = "result"
                         /\ query'[u] = "cancelled" <=> query[u] = "cancelled"
    BY <2>1 DEF IInv, SingleFlight
  <2> QED BY <2>1, <2>2 DEF IInv, Orderly, Current
<1>13. ASSUME NEW t \in Turns, QueryCancelled(t)
       PROVE  Orderly'
  <2>1. query'[t] = "cancelled"
    BY <1>13 DEF IInv, TypeOK, QueryCancelled
  <2> QED BY <2>1 DEF Orderly
<1>14. ASSUME NEW c \in Controls, ControlRegisters(c)
       PROVE  Orderly'
  BY <1>14, Undisturbed DEF ControlRegisters
<1>15. ASSUME NEW c \in Controls, ControlWrites(c)
       PROVE  Orderly'
  <2>1. UNCHANGED <<work, stdout, events, query, got, reader>> /\ stdin \in Seq(Lines)
    BY <1>15 DEF IInv, TypeOK, ControlWrites
  <2>2. Line("control", c) \in Lines /\ Line("control", c).kind = "control"
    BY LineKinds DEF Line
  <2>3. stdin' = stdin \/ stdin' = Append(stdin, Line("control", c))
    BY <1>15 DEF ControlWrites, Write
  <2> QED BY <2>1, <2>2, <2>3, CarriesMore, Undisturbed
<1>16. ASSUME NEW c \in Controls, ControlReceives(c)
       PROVE  Orderly'
  BY <1>16, Undisturbed DEF ControlReceives
<1>17. ASSUME NEW c \in Controls, ControlGivesUp(c)
       PROVE  Orderly'
  BY <1>17, Undisturbed DEF ControlGivesUp
<1>18. ASSUME NEW r \in Requests, HandlerReplies(r)
       PROVE  Orderly'
  <2>1. UNCHANGED <<work, stdout, events, query, got, reader>> /\ stdin \in Seq(Lines)
    BY <1>18 DEF IInv, TypeOK, HandlerReplies
  <2>2. Line("reply", r) \in Lines /\ Line("reply", r).kind = "reply"
    BY LineKinds DEF Line
  <2>3. stdin' = stdin \/ stdin' = Append(stdin, Line("reply", r))
    BY <1>18 DEF HandlerReplies, Write
  <2> QED BY <2>1, <2>2, <2>3, CarriesMore, Undisturbed
<1>19. CASE CloseBegins
  BY <1>19, Undisturbed DEF CloseBegins
<1>20. CASE CloseStdin
  BY <1>20, Undisturbed DEF CloseStdin
<1>21. CASE CloseKills
  BY <1>21, Undisturbed DEF CloseKills
<1>22. CASE CloseReturns
  BY <1>22, Undisturbed DEF CloseReturns
<1>24. CASE ReadTooLong
  <2>1. UNCHANGED <<stdin, work, stdout, events, query, got>> /\ reader = "scan"
    BY <1>24 DEF ReadTooLong
  <2> QED BY <2>1, Undisturbed
<1>25. CASE ReadNoMore
  <2>1. UNCHANGED <<stdin, work, stdout, events, query, got>> /\ reader = "deaf"
    BY <1>25 DEF ReadNoMore
  <2> QED BY <2>1, Undisturbed
<1>26. ASSUME NEW r \in Requests, HandlerDrops(r)
       PROVE  Orderly'
  BY <1>26, Undisturbed DEF HandlerDrops
<1>23. CASE UNCHANGED vars
  BY <1>23, Undisturbed DEF vars
<1> QED
  BY <1>1, <1>2, <1>3, <1>4, <1>5, <1>6, <1>7, <1>8, <1>9, <1>10, <1>11, <1>12, <1>13,
     <1>14, <1>15, <1>16, <1>17, <1>18, <1>19, <1>20, <1>21, <1>22, <1>23,
     <1>24, <1>25, <1>26
  DEF Next, Cli, Reader, Query, Control, Handler, Closing, CliExitsAtEOF, Killed

(***************************************************************************)
(* The theorems                                                            *)
(***************************************************************************)
LEMMA Starts ==
  ASSUME Init
  PROVE  IInv
<1>1. \A S : <<>> \in Seq(S)
  OBVIOUS
<1>2. Len(<<>>) <= Capacity /\ 0 \in 0..MaxEvents
  BY ClientAssumption
<1>3. TypeOK
  BY <1>1, <1>2 DEF Init, TypeOK
<1>4. Ending /\ Registered /\ SingleFlight
  BY DEF Init, Ending, Registered, SingleFlight
<1>5. \A q : Carries(q, <<>>, <<>>, <<>>, <<>>)
  BY DEF Carries, Prompts, Output
<1>6. Orderly
  BY <1>5 DEF Init, Orderly
<1> QED BY <1>3, <1>4, <1>5, <1>6 DEF IInv

\* What every step of the CLI, the read loop and the callers preserves.
THEOREM SessionInvariant == Spec => []IInv
<1>1. Init => IInv
  BY Starts
<1>2. IInv /\ [Next]_vars => IInv'
  BY TypeOKKeeps, EndingKeeps, RegisteredKeeps, SingleFlightKeeps, OrderlyKeeps DEF IInv
<1> QED BY <1>1, <1>2, PTL DEF Spec

\* In every session: a Query gets its own turn as long as none was cancelled, a
\* control request that waits after the end has its answer or failure, and after
\* Close the process is gone and nothing waits.
THEOREM SessionStaysSound == Spec => []SessionIsSound
<1>1. IInv => OwnTurn
  BY DEF IInv, Orderly, OwnTurn
<1>2. IInv => WaitersAreUnblocked
  BY DEF IInv, Registered, WaitersAreUnblocked
<1>3. IInv => ClosedIsClean
  BY DEF IInv, Ending, Registered, ClosedIsClean
<1>4. IInv => SessionIsSound
  BY <1>1, <1>2, <1>3 DEF IInv, SessionIsSound
<1> QED BY <1>4, SessionInvariant, PTL
=============================================================================
