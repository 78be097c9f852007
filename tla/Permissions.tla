----------------------------- MODULE Permissions -----------------------------
(***************************************************************************)
(* Ask rules with Remember (src/permissions/permissions.go) behind the     *)
(* client's can_use_tool callback (src/client/callbacks.go): tool calls    *)
(* are decided concurrently, a person's answer is remembered for the same  *)
(* request until Reset, and a callback that takes too long is abandoned:   *)
(* the CLI is told of a timeout while the person's answer may still come.  *)
(*                                                                         *)
(* Which rule a request matches is PermissionRules.  An operator           *)
(* introduced as a "faulty variant" is no part of Next: it is the          *)
(* definition after it with a plausible bug.                               *)
(***************************************************************************)
EXTENDS Naturals, FiniteSets

CONSTANTS
  Calls,       \* the tool calls the CLI asks about
  Requests,    \* distinct tool and input
  NoCall,
  MaxResets    \* bound: resets

VARIABLES
  request,   \* the request of a call
  decide,    \* Decide: "idle", "asking", "storing", "done"
  answer,    \* the person's answer
  decision,  \* what Decide returned: [effect, message]
  told,      \* the control response: "none", "allow", "deny", "error"
  memo,      \* the remembered answers: [allow, message, by]
  resets,    \* number of resets
  settled    \* history: requests answered, returned and not reset since

vars == <<request, decide, answer, decision, told, memo, resets, settled>>

NoDecision == [effect |-> "none", message |-> "", by |-> NoCall]

Init ==
  /\ request \in [Calls -> Requests]
  /\ decide = [c \in Calls |-> "idle"] /\ answer = [c \in Calls |-> "none"]
  /\ decision = [c \in Calls |-> NoDecision] /\ told = [c \in Calls |-> "none"]
  /\ memo = <<>> /\ resets = 0 /\ settled = {}

\* Decision.Allowed.
Allowed(d) ==
  \/ d.effect \in {"allow", "ask_allow"}
  \/ d.effect = "remembered" /\ d.message = ""

\* CanUseTool and runCallback: the first of the decision and the timeout is
\* what the CLI is told.
Tell(c, d) ==
  told' = [told EXCEPT ![c] =
             IF @ # "none" THEN @ ELSE IF Allowed(d) THEN "allow" ELSE "deny"]

Return(c, d) ==
  /\ decision' = [decision EXCEPT ![c] = d]
  /\ decide' = [decide EXCEPT ![c] = "done"]
  /\ Tell(c, d)

\* ask: a remembered answer is returned, any other request goes to the person.
\* The look is not repeated when the answer comes.
Ask(c) ==
  LET q == request[c] IN
  /\ decide[c] = "idle"
  /\ IF q \in DOMAIN memo
     THEN /\ Return(c, [effect |-> "remembered", by |-> memo[q].by,
                        message |-> IF memo[q].allow THEN "" ELSE memo[q].message])
          /\ UNCHANGED answer
     ELSE /\ decide' = [decide EXCEPT ![c] = "asking"]
          /\ UNCHANGED <<answer, decision, told>>
  /\ UNCHANGED <<request, memo, resets, settled>>

\* The person allows, declines with or without a message, or the question fails.
Answer(c) ==
  /\ decide[c] = "asking"
  /\ \E a \in {"allow", "decline", "decline silently", "error"} :
       /\ answer' = [answer EXCEPT ![c] = a]
       /\ IF a = "error"
          THEN Return(c, [effect |-> "ask_deny", message |-> "failed", by |-> c])
          ELSE decide' = [decide EXCEPT ![c] = "storing"] /\ UNCHANGED <<decision, told>>
  /\ UNCHANGED <<request, memo, resets, settled>>

\* Faulty variant: no message stays no message.
MessageAsGiven(a) == IF a = "decline" THEN "message" ELSE ""

Message(a) == CASE a = "allow" -> "" [] a = "decline" -> "message"
                [] OTHER -> "the user declined"

\* Faulty variant: only a permission is remembered.
RememberAllowed(c) ==
  IF answer[c] # "allow" THEN memo ELSE
  [q \in DOMAIN memo \cup {request[c]} |->
     IF q = request[c] THEN [allow |-> TRUE, message |-> "", by |-> c] ELSE memo[q]]

Remember(c) ==
  [q \in DOMAIN memo \cup {request[c]} |->
     IF q # request[c] THEN memo[q]
     ELSE [allow |-> answer[c] = "allow", message |-> Message(answer[c]), by |-> c]]

\* The answer is stored, in the order the answers come, and then returned.
Store(c) ==
  /\ decide[c] = "storing"
  /\ memo' = Remember(c)
  /\ Return(c, [effect |-> IF answer[c] = "allow" THEN "ask_allow" ELSE "ask_deny",
                message |-> Message(answer[c]), by |-> c])
  /\ settled' = settled \cup {request[c]}
  /\ UNCHANGED <<request, answer, resets>>

\* runCallback gives up; Decide goes on in its goroutine.
CallbackTimeout(c) ==
  /\ decide[c] \in {"asking", "storing"} /\ told[c] = "none"
  /\ told' = [told EXCEPT ![c] = "error"]
  /\ UNCHANGED <<request, decide, answer, decision, memo, resets, settled>>

\* Faulty variant: Reset keeps what was declined.
AfterResetDeclined ==
  [q \in {q \in DOMAIN memo : ~memo[q].allow} |-> memo[q]]

AfterReset == <<>>

Reset ==
  /\ resets < MaxResets /\ resets' = resets + 1
  /\ memo' = AfterReset /\ settled' = {}
  /\ UNCHANGED <<request, decide, answer, decision, told>>

Next ==
  \/ \E c \in Calls : Ask(c) \/ Answer(c) \/ Store(c) \/ CallbackTimeout(c)
  \/ Reset

Spec == Init /\ [][Next]_vars

-----------------------------------------------------------------------------
(* Properties *)

SaidYes(c) == answer[c] = "allow"

\* What the CLI is told is what a person said to that very request (ask,
\* Decision.Allowed, runCallback): a call is allowed exactly if the answer it
\* goes back to is a permission, given for the same tool and input, whether to
\* this call or remembered from another, even from one that the CLI was told
\* had timed out; a failed question is never remembered; and once an answer has
\* been returned the request is not asked again until Reset, only calls already
\* asking may ask on, and what Reset forgot is asked.
RememberedIsAnswered ==
  /\ \A c \in Calls : told[c] \in {"allow", "deny"} =>
       LET by == decision[c].by IN
         /\ request[by] = request[c]
         /\ told[c] = "allow" <=> SaidYes(by)
  /\ \A q \in DOMAIN memo : answer[memo[q].by] \in {"allow", "decline", "decline silently"}
  /\ settled = DOMAIN memo
=============================================================================
