---------------------------- MODULE ToolDecision ----------------------------
(***************************************************************************)
(* What an interactive client answers when the CLI asks it to decide       *)
(* (src/client/callbacks.go, askuser.go), from the way New fills in the    *)
(* configuration (client.go) to the reply; with AnswerFromStdin as the     *)
(* OnAskUser callback, whose calls share one reader.                       *)
(*                                                                         *)
(* The callbacks, the person at the terminal and the CLI are the caller's: *)
(* they do anything their types allow, and may never return.               *)
(*                                                                         *)
(* An operator introduced as a "faulty variant" is no part of Next: it is  *)
(* the definition after it with a plausible bug.                           *)
(***************************************************************************)
EXTENDS Naturals, Sequences

CONSTANTS
  Requests,     \* the control requests of the CLI
  Questions     \* bound: questions in one AskUserQuestion

VARIABLES
  config,     \* what the caller set, [canUse, askUser, skip, mode], a mode or "unset"
  kind,       \* what a request asks for
  phase,      \* "idle", "running", "abandoned" by the SDK, "returned", "done"
  said,       \* what the callback returned
  reply,      \* what was written to the CLI
  prompted,   \* the question shown last that nobody has typed a line for
  input,      \* lines typed and not yet read, each the question it is meant for
  read,       \* the lines a request's AnswerFromStdin has read
  ended,      \* the input has ended
  shared      \* history: two calls of AnswerFromStdin were in progress at once

terminal == <<prompted, input, read, ended, shared>>
vars == <<config, kind, phase, said, reply, terminal>>

Nothing == "nothing"
Kinds == {"question", "malformed question", "tool", "hook", "unknown hook", "other"}
Asking == {"question", "malformed question"}   \* the tool is AskUserQuestion

Init ==
  /\ config \in [canUse : BOOLEAN, askUser : BOOLEAN, skip : BOOLEAN,
                 mode : {"unset", "plan", "bypassPermissions"}]
  /\ kind \in [Requests -> Kinds]
  /\ phase = [r \in Requests |-> "idle"] /\ said = [r \in Requests |-> Nothing]
  /\ reply = [r \in Requests |-> Nothing]
  /\ prompted = Nothing /\ input = <<>> /\ read = [r \in Requests |-> <<>>]
  /\ ended = FALSE /\ shared = FALSE

-----------------------------------------------------------------------------
(* applyClientDefaults and buildClientArgs *)

Routes == config.canUse \/ config.askUser

\* Permission routing takes the place of skipping permissions.
SkipFlag == ~Routes /\ (config.skip \/ config.mode = "unset")
ModeFlag == IF Routes /\ config.mode = "unset" THEN "default" ELSE config.mode
PromptToolFlag == Routes

\* Faulty variant: looked at after SkipPermissions was cleared.
DenyOtherToolsUnset ==
  /\ config.askUser /\ ~config.canUse /\ ModeFlag # "bypassPermissions"

DenyOtherTools ==
  /\ config.askUser /\ ~config.canUse
  /\ ~config.skip /\ ModeFlag # "bypassPermissions"

-----------------------------------------------------------------------------
(* dispatchControl *)

\* The callback that decides on a request.
Callback(r) ==
  CASE kind[r] \in Asking /\ config.askUser -> "OnAskUser"
    [] kind[r] \in {"tool"} \cup Asking /\ config.canUse
         /\ ~(kind[r] \in Asking /\ config.askUser) -> "CanUseTool"
    [] kind[r] = "hook" -> "hook"
    [] OTHER -> Nothing

Permission(r) == kind[r] \in {"tool"} \cup Asking

\* Without a callback the SDK decides by itself.
DecideAlone(r) ==
  /\ phase[r] = "idle" /\ Callback(r) = Nothing
  /\ phase' = [phase EXCEPT ![r] = "done"]
  /\ reply' = [reply EXCEPT ![r] =
       IF Permission(r) /\ config.askUser
       THEN IF DenyOtherTools THEN "deny" ELSE "allow"
       ELSE "error"]
  /\ UNCHANGED <<config, kind, said, terminal>>

Reading(r) == Callback(r) = "OnAskUser" /\ phase[r] \in {"running", "abandoned"}

\* answerAskUser calls OnAskUser only with questions it can decode.
StartCallback(r) ==
  /\ phase[r] = "idle" /\ Callback(r) # Nothing
  /\ IF Callback(r) = "OnAskUser" /\ kind[r] = "malformed question"
     THEN /\ phase' = [phase EXCEPT ![r] = "returned"]
          /\ said' = [said EXCEPT ![r] = "deny"]
          /\ UNCHANGED terminal
     ELSE /\ phase' = [phase EXCEPT ![r] = "running"]
          /\ IF Callback(r) = "OnAskUser"
             THEN /\ prompted' = <<r, 1>>
                  /\ shared' = (shared \/ \E s \in Requests : Reading(s))
             ELSE UNCHANGED <<prompted, shared>>
          /\ UNCHANGED <<said, input, read, ended>>
  /\ UNCHANGED <<config, kind, reply>>

\* Faulty variant: questions left unanswered at the end of the input are allowed.
OutcomesUnanswered(c) ==
  CASE c = "CanUseTool" -> {"allow", "allow replaced", "deny", "error"}
    [] c = "OnAskUser" -> {"allow answers", "deny"}
    [] c = "hook" -> {"data", "error"}

\* What a callback comes to.  A panic of CanUseTool or OnAskUser, and an error of
\* OnAskUser, is a deny; other panics and errors are errors.
Outcomes(c) ==
  CASE c = "CanUseTool" -> {"allow", "allow replaced", "deny", "error"}
    [] c = "OnAskUser" -> {"deny"}
    [] c = "hook" -> {"data", "error"}

\* AnswerFromStdin fails only at the end of the input.
Return(r) ==
  /\ phase[r] = "running"
  /\ Callback(r) = "OnAskUser" => ended /\ input = <<>>
  /\ \E o \in Outcomes(Callback(r)) : said' = [said EXCEPT ![r] = o]
  /\ phase' = [phase EXCEPT ![r] = "returned"]
  /\ UNCHANGED <<config, kind, reply, terminal>>

\* runCallback: the callback is abandoned, not stopped.
TimeOut(r) ==
  /\ phase[r] = "running"
  /\ phase' = [phase EXCEPT ![r] = "abandoned"]
  /\ reply' = [reply EXCEPT ![r] = "error"]
  /\ UNCHANGED <<config, kind, said, terminal>>

\* toResponseData; a timeout that fires at the same moment may win.
Reply(r) ==
  /\ phase[r] = "returned"
  /\ phase' = [phase EXCEPT ![r] = "done"]
  /\ \E o \in {said[r], "error"} : reply' = [reply EXCEPT ![r] = o]
  /\ UNCHANGED <<config, kind, said, terminal>>

-----------------------------------------------------------------------------
(* AnswerFromStdin *)

Type ==
  /\ prompted # Nothing /\ ~ended
  /\ input' = Append(input, prompted) /\ prompted' = Nothing
  /\ UNCHANGED <<config, kind, phase, said, reply, read, ended, shared>>

\* Faulty variant: the second question takes the same line.
ReadLineTwice(r) ==
  /\ Reading(r) /\ input # <<>>
  /\ read' = [read EXCEPT ![r] = [i \in 1..Questions |-> Head(input)]]
  /\ input' = Tail(input)
  /\ phase' = IF phase[r] = "running" THEN [phase EXCEPT ![r] = "returned"] ELSE phase
  /\ said' = IF phase[r] = "running" THEN [said EXCEPT ![r] = "allow answers"] ELSE said
  /\ UNCHANGED <<config, kind, reply, prompted, ended, shared>>

\* One line per question, read by whichever call gets to it.
ReadLine(r) ==
  /\ Reading(r) /\ Len(read[r]) < Questions /\ input # <<>>
  /\ read' = [read EXCEPT ![r] = Append(@, Head(input))]
  /\ input' = Tail(input)
  /\ IF Len(read'[r]) < Questions
     THEN prompted' = <<r, Len(read'[r]) + 1>> /\ UNCHANGED <<phase, said>>
     ELSE /\ phase' = IF phase[r] = "running" THEN [phase EXCEPT ![r] = "returned"]
                      ELSE [phase EXCEPT ![r] = "done"]
          /\ said' = IF phase[r] = "running" THEN [said EXCEPT ![r] = "allow answers"]
                     ELSE said
          /\ UNCHANGED prompted
  /\ UNCHANGED <<config, kind, reply, ended, shared>>

EndOfInput ==
  /\ ~ended /\ ended' = TRUE
  /\ UNCHANGED <<config, kind, phase, said, reply, prompted, input, read, shared>>

-----------------------------------------------------------------------------
Next ==
  \/ \E r \in Requests :
       DecideAlone(r) \/ StartCallback(r) \/ Return(r) \/ TimeOut(r) \/ Reply(r) \/ ReadLine(r)
  \/ Type \/ EndOfInput

Spec == Init /\ [][Next]_vars

-----------------------------------------------------------------------------
(* Properties *)

\* A tool call is permitted only if the caller said so, by a callback that
\* returned in time or by a permissive configuration ("OnAskUser alone does NOT
\* approve them", client.go:21-25), whatever panics, fails or hangs; a session
\* that routes permissions can decide on every one of them; and the answers given
\* to the questions are the lines typed for them, one for each, as long as one call
\* reads at a time.
DecisionsAreTheCallers ==
  \A r \in Requests :
    /\ reply[r] \in {"allow", "allow replaced", "allow answers"} =>
         \/ said[r] = reply[r] /\ Callback(r) # Nothing
         \/ /\ kind[r] = "tool" /\ Callback(r) = Nothing
            /\ config.skip \/ config.mode = "bypassPermissions"
    /\ reply[r] = "allow answers" => Len(read[r]) = Questions
    /\ reply[r] = "deny" =>
         \/ said[r] = "deny"
         \/ Callback(r) = Nothing /\ ~config.skip /\ config.mode # "bypassPermissions"
    /\ reply[r] = "error" /\ PromptToolFlag /\ Permission(r) => Callback(r) # Nothing
    /\ SkipFlag => ~PromptToolFlag
    /\ ~shared => \A i \in DOMAIN read[r] : read[r][i] = <<r, i>>
=============================================================================
