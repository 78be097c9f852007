---------------------------- MODULE LibraryParts ----------------------------
(***************************************************************************)
(* The parts of the library that work on their own and are proved for any  *)
(* constants: each is its module as it stands, on variables of its own;    *)
(* ParallelNode's are those of this module.  LibraryProofs has the proofs, *)
(* MCLibrary checks these parts and the remaining ones in one run.         *)
(***************************************************************************)
EXTENDS ParallelNode, Sequences, FiniteSets

CONSTANTS
  AgentCalls, Recovered, MaxEvents,                  \* AgentNode
  ToolCalls, AskRequests, NoCall, MaxResets,         \* Permissions
  ControlRequests, Questions,                        \* ToolDecision
  Workers, SpendSessions, SpendLimit, WarnAt, Estimate, Costs, MaxAdds, \* Budget
  Tasks, Slugs, InvalidSlugs, KeptBranches, MaxBatches, \* Worktrees
  Starters, CheckedTargets, Unparsable, MinCLIVersion, \* Preflight
  ReportRuns, FanBranches, StepBudget, MaxReportPauses, \* Telemetry
  LogNodes, LogAnswers, LogSessions, EditMark, MaxSourceRecords \* Fork

\* Session ids are not "none"; no call is the recovered session.
ASSUME AgentAssumption ==
  /\ IsFiniteSet(AgentCalls)
  /\ "none" \notin AgentCalls \cup {Recovered} /\ Recovered \notin AgentCalls

\* A question of AskUserQuestion is at least one.
ASSUME QuestionsAssumption == Questions \in Nat \ {0}

\* Amounts are not negative; a limit or a threshold of 0 is none; "none" is no session.
ASSUME MoneyAssumption ==
  /\ IsFiniteSet(Workers) /\ Workers # {}
  /\ IsFiniteSet(SpendSessions) /\ "none" \notin SpendSessions
  /\ SpendLimit \in Nat /\ WarnAt \in Nat /\ Estimate \in Nat /\ Costs \subseteq Nat

\* A slug is a path of one name or more.
ASSUME SlugsAssumption == Slugs \subseteq Seq(STRING) \ {<<>>}

\* A version is three numbers.
ASSUME VersionsAssumption ==
  /\ MinCLIVersion \in Nat \X Nat \X Nat
  /\ \A t \in CheckedTargets : t.version \in (Nat \X Nat \X Nat) \cup {Unparsable}

\* The branches of a parallel node are nodes of their own.
ASSUME FanAssumption == {"top", "fan"} \cap FanBranches = {}

VARIABLES
  aSetup, aGiven, aPc, aResumed, aEvents, aSess, aRecord, aHeard, aResult, aCost, aNode,
  pRequest, pDecide, pAnswer, pDecision, pTold, pMemo, pResets, pSettled,
  tConfig, tKind, tPhase, tSaid, tReply, tPrompted, tInput, tRead, tEnded, tShared,
  bSpent, bPerSession, bWarned, bWorker, bPending, bAdds, bWarnings, bExceeded, bTold, bOther,
  wSlug, wPc, wTrees, wBranches, wOwner, wCancelled, wClean, wBatch,
  qTarget, qOnce, qFirst, qChecked, qFailure, qRun, qCancelled,
  mRun, mDone, mReports, mOpen, mSpans,
  fSource, fTarget, fFork, fSeen

Agent == INSTANCE AgentNode WITH
  Calls <- AgentCalls,
  setup <- aSetup, given <- aGiven, pc <- aPc, resumed <- aResumed, events <- aEvents,
  sess <- aSess, record <- aRecord, heard <- aHeard, result <- aResult, cost <- aCost,
  node <- aNode

Permission == INSTANCE Permissions WITH
  Calls <- ToolCalls, Requests <- AskRequests,
  request <- pRequest, decide <- pDecide, answer <- pAnswer, decision <- pDecision,
  told <- pTold, memo <- pMemo, resets <- pResets, settled <- pSettled

Tools == INSTANCE ToolDecision WITH
  Requests <- ControlRequests,
  config <- tConfig, kind <- tKind, phase <- tPhase, said <- tSaid, reply <- tReply,
  prompted <- tPrompted, input <- tInput, read <- tRead, ended <- tEnded, shared <- tShared

Money == INSTANCE Budget WITH
  Limit <- SpendLimit, Sessions <- SpendSessions, NoSession <- "none",
  spent <- bSpent, perSession <- bPerSession, warned <- bWarned, worker <- bWorker,
  pending <- bPending, adds <- bAdds, warnings <- bWarnings, exceeded <- bExceeded, told <- bTold,
  other <- bOther

Trees == INSTANCE Worktrees WITH
  Invalid <- InvalidSlugs, Kept <- KeptBranches, MaxRuns <- MaxBatches,
  slug <- wSlug, pc <- wPc, trees <- wTrees, branches <- wBranches, owner <- wOwner,
  cancelled <- wCancelled, clean <- wClean, batch <- wBatch

Target == INSTANCE Preflight WITH
  Runs <- Starters, Targets <- CheckedTargets,
  target <- qTarget, once <- qOnce, first <- qFirst, checked <- qChecked,
  failure <- qFailure, run <- qRun, cancelled <- qCancelled

Told == INSTANCE Telemetry WITH
  Runs <- ReportRuns, Branches <- FanBranches, MaxSteps <- StepBudget,
  MaxPauses <- MaxReportPauses,
  run <- mRun, done <- mDone, reports <- mReports, open <- mOpen, spans <- mSpans

Forked == INSTANCE Fork WITH
  Nodes <- LogNodes, Start <- "Start", End <- "End", NoNode <- "none",
  Answers <- LogAnswers, NoAnswer <- "-", Sessions <- LogSessions, NoSession <- "none",
  Edit <- EditMark, MaxRecords <- MaxSourceRecords,
  source <- fSource, target <- fTarget, fork <- fFork, seen <- fSeen

-----------------------------------------------------------------------------
(* Properties: each is stated and explained in its module *)

\* A node of branches merges all of them or none (run.go); a node of agents logs, bills
\* and resumes what its calls did (agent.go).
NodesAreHonest == ParallelIsAllOrNothing /\ Agent!AgentNodeIsHonest

\* The CLI is told what the person or the callback decided (permissions.go, callbacks.go).
DecisionsAreKept == Permission!RememberedIsAnswered /\ Tools!DecisionsAreTheCallers

\* The budget's threshold callbacks fire as documented, however Adds interleave
\* (budget.go).
BudgetIsKept == Money!BudgetIsKept

\* A task is given a checkout of its own, as long as it runs (workspace.go, fleet.go), and
\* a run a target that was verified (preflight.go, plugin.go).
RunsAreSetUp == Trees!WorktreesAreKept /\ Target!OnlyVerifiedTargetsRun

\* What a run and its spans tell of its executions is what happened (report.go,
\* otel.go).
ReportsAreTrue == Told!ReportIsCumulative /\ Told!SpansAreExecutions

\* A fork is the run its commit made of the source, with the edited state, however long
\* the source goes on (durable.go).
ForksAreExact == Forked!ForkIsExact
=============================================================================
