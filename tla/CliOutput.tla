------------------------------ MODULE CliOutput ------------------------------
(***************************************************************************)
(* What is read out of the output of a CLI run: its JSON array             *)
(* (ParseOutput, GetSessionID and IsErrorResult, src/claudecli/parser.go), *)
(* its lines (ExtractTextFromStream, stream.go), the summary of the trace  *)
(* page (src/internal/trace/trace.go), and the JSON a model wraps in prose *)
(* (src/claudecli/json_extractor.go).  Pure functions.                     *)
(*                                                                         *)
(* A message is [type, session, text, sub, error]: an "init", "assistant"  *)
(* or "result" message; Empty stands for an empty session or text.         *)
(*                                                                         *)
(* An operator introduced as a "faulty variant" is no part of Next: it is  *)
(* the definition after it with a plausible bug.                           *)
(***************************************************************************)
EXTENDS Integers, Sequences, SequencesExt

CONSTANTS
  Empty,
  Outputs,  \* sequences of messages
  Prose     \* sequences of characters "[", "]", "x" (prose), "1" and "q" (a quote)

VARIABLE read    \* what was read, and what the readers made of it

-----------------------------------------------------------------------------
(* The readers of an output *)

Of(ms, type) == SelectSeq(ms, LAMBDA m : m.type = type)
Texts(ms) == LET said == SelectSeq(Of(ms, "assistant"), LAMBDA m : m.text # Empty)
             IN  [i \in DOMAIN said |-> said[i].text]
LastNonEmpty(ss) == LET i == SelectLastInSeq(ss, LAMBDA s : s # Empty)
                    IN  IF i = 0 THEN Empty ELSE ss[i]
Sessions(ms) == [i \in DOMAIN ms |-> ms[i].session]

\* Faulty variant: an empty result leaves no text.
ResultTextOnly(ms) ==
  LET results == Of(ms, "result")
  IN  IF results = <<>> THEN Texts(ms) ELSE <<Last(results).text>>

\* The text of the last result, or what the assistant said.
ResultText(ms) ==
  LET results == Of(ms, "result")
  IN  IF results # <<>> /\ Last(results).text # Empty THEN <<Last(results).text>>
      ELSE Texts(ms)

\* A sub-agent's messages are assistant messages like any other.
ParseOutput(ms) ==
  LET results == Of(ms, "result")
      session == LastNonEmpty(Sessions(SelectSeq(ms, LAMBDA m : m.type # "assistant")))
  IN  [text |-> ResultText(ms), session |-> session,
       error |-> results # <<>> /\ Last(results).error,
       ok |-> ms # <<>> /\ session # Empty]

\* Faulty variant: a sub-agent's text is the agent's.
ExtractTextWithSubagents(ms) == ResultText(ms)

ExtractTextFromStream(ms) ==
  ResultText(SelectSeq(ms, LAMBDA m : m.type = "assistant" => ~m.sub))

First(ms, type) == Of(ms, type)[1]

\* Faulty variant: only the result is looked at.
GetSessionIDOfResult(ms) ==
  IF Of(ms, "result") = <<>> THEN Empty ELSE First(ms, "result").session

GetSessionID(ms) ==
  IF Of(ms, "result") # <<>> /\ First(ms, "result").session # Empty
  THEN First(ms, "result").session
  ELSE IF Of(ms, "init") # <<>> THEN First(ms, "init").session ELSE Empty

\* No result is an error.
IsErrorResult(ms) == Of(ms, "result") = <<>> \/ First(ms, "result").error

\* Build: the first init that names a session, unless a result names another.
TraceSession(ms) ==
  FoldLeft(LAMBDA s, m : IF m.type = "result" /\ m.session # Empty THEN m.session
                         ELSE IF m.type = "init" /\ s = Empty THEN m.session ELSE s,
           Empty, ms)
TraceError(ms) == Of(ms, "result") # <<>> /\ Last(Of(ms, "result")).error

-----------------------------------------------------------------------------
(* ExtractJSONFromText; ExtractJSONObjectFromText is the same for braces. *)

\* json.Valid on what starts with a bracket: arrays of at most one value, which is
\* 1, an array, or a string that holds a bracket.
RECURSIVE IsValue(_)
IsValue(s) ==
  \/ s = <<"1">> \/ s = <<"q", "]", "q">>
  \/ /\ Len(s) >= 2 /\ Head(s) = "[" /\ Last(s) = "]"
     /\ Len(s) = 2 \/ IsValue(SubSeq(s, 2, Len(s) - 1))
IsArray(s) == s # <<>> /\ Head(s) = "[" /\ IsValue(s)

\* The count of brackets after i characters; a closing bracket of the prose
\* counts, and so does one in a string.
Depth(s, i) == Len(SelectSeq(SubSeq(s, 1, i), LAMBDA c : c = "["))
               - Len(SelectSeq(SubSeq(s, 1, i), LAMBDA c : c = "]"))

NotFound == <<"not found">>

\* Faulty variant: the array ends at the last closing bracket of the text.
ExtractGreedy(s) ==
  LET start == SelectInSeq(s, LAMBDA c : c = "[")
      end == SelectLastInSeq(s, LAMBDA c : c = "]")
  IN  IF start # 0 /\ end > start /\ IsArray(SubSeq(s, start, end))
      THEN SubSeq(s, start, end) ELSE NotFound

\* From the first bracket to the closing one that brings the count to zero.
ExtractJSONFromText(s) ==
  LET start == SelectInSeq(s, LAMBDA c : c = "[")
      Ends == {i \in DOMAIN s : start # 0 /\ i > start /\ s[i] = "]" /\ Depth(s, i) = 0}
      end == CHOOSE i \in Ends : \A j \in Ends : i <= j
  IN  IF Ends # {} /\ IsArray(SubSeq(s, start, end)) THEN SubSeq(s, start, end)
      ELSE NotFound

-----------------------------------------------------------------------------
Init == read = <<>>

ReadOutput(ms) ==
  read' = [output |-> ms, parsed |-> ParseOutput(ms), said |-> ExtractTextFromStream(ms),
           session |-> GetSessionID(ms), error |-> IsErrorResult(ms),
           page |-> [session |-> TraceSession(ms), error |-> TraceError(ms)]]

ReadProse(s) == read' = [prose |-> s, found |-> ExtractJSONFromText(s)]

Next ==
  /\ read = <<>>
  /\ \/ \E ms \in Outputs : ReadOutput(ms)
     \/ \E s \in Prose : ReadProse(s)

Spec == Init /\ [][Next]_read

-----------------------------------------------------------------------------
(* Properties *)

\* The readers of one output agree, however it is cut off: on the session, if it is
\* of one session; on failure, once there is one result; and the text of its lines
\* is the last result's, or else all that the agent itself has said and nothing a
\* sub-agent has.
ReadersOfOutputAgree ==
  "output" \in DOMAIN read =>
    LET ms == read.output
        count == Len(Of(ms, "result"))
        own == SelectSeq(ms, LAMBDA m : m.type # "init" /\ ~m.sub /\ m.text # Empty)
    IN  /\ read.parsed.ok /\ (\A i, j \in DOMAIN ms :
               Empty \in {ms[i].session, ms[j].session} \/ ms[i].session = ms[j].session) =>
             /\ read.page.session = read.parsed.session
             /\ Len(Of(ms, "init")) <= 1 /\ count <= 1 => read.session = read.parsed.session
        /\ count = 1 => read.error = read.parsed.error /\ read.error = read.page.error
        /\ \A i \in DOMAIN read.said : read.said[i] \in {own[j].text : j \in DOMAIN own}
        /\ Of(own, "result") # <<>> /\ count = 1 => read.said = <<Of(own, "result")[1].text>>
        /\ Of(own, "result") = <<>> => Len(read.said) = Len(own)

\* "finds and extracts the first JSON array from text" (json_extractor.go:8): what
\* it returns is an array that starts at the first bracket, and an array there is
\* found if no closing bracket comes before it or stands in one of its strings.
ExtractFindsFirst ==
  "prose" \in DOMAIN read =>
    LET text == read.prose
        start == SelectInSeq(text, LAMBDA c : c = "[")
        there == {SubSeq(text, start, i) : i \in {i \in DOMAIN text : start # 0 /\ i > start}}
    IN  /\ read.found # NotFound => IsArray(read.found) /\ read.found \in there
        /\ \A a \in there :
             IsArray(a) /\ "q" \notin ToSet(a) /\ "]" \notin ToSet(SubSeq(text, 1, start)) =>
               read.found = a

\* Both.
OutputIsReadRight == ReadersOfOutputAgree /\ ExtractFindsFirst
=============================================================================
