------------------------------ MODULE MCLibrary ------------------------------
(***************************************************************************)
(* The parts of the library that work on their own, checked in one run: a  *)
(* behaviour is one of one part, "part", while the others keep a state     *)
(* they may start in.  LibraryParts has some of them, and the others are   *)
(* here: each is its module as it stands, on variables of its own.         *)
(***************************************************************************)
EXTENDS LibraryParts, Sequences, SequencesExt

CONSTANTS r1, r2, k1, k2, k3, w1, w2, w3, f1, f2   \* model values

VARIABLES
  part,
  gNodes, gStatic, gCond, gGroups, gFailed, gMade, gCompiled, gAt,
  jDir, jServer, jStarting, jReplay, jSessions, jLossy, jBounds,
  xFactory, xSeq, xWant, xWriter, xFailed, xDisk, xHeaded, xGiven,
  verdict,
  eConfig, eMain, eNext, eCase, eRuns, eKept, eReached, eFailed, eStopped, eReport,
  scored,
  cMaxTurns, cScript, cCumulative, cPc, cMessage, cHistory, cMerged, cRuns,
  yStream, yCalls, yUseAt, ySpans, yLastText, yFinal, yPage, yOpen, yUses, yAnswered, yBroken,
  oRead

GraphVars == <<gNodes, gStatic, gCond, gGroups, gFailed, gMade, gCompiled, gAt>>
AgentVars ==
  <<aSetup, aGiven, aPc, aResumed, aEvents, aSess, aRecord, aHeard, aResult, aCost,
    aNode>>
ForkedVars == <<fSource, fTarget, fFork, fSeen>>
JournalledVars == <<jDir, jServer, jStarting, jReplay, jSessions, jLossy, jBounds>>
RecordedVars == <<xFactory, xSeq, xWant, xWriter, xFailed, xDisk, xHeaded, xGiven>>
PermissionVars == <<pRequest, pDecide, pAnswer, pDecision, pTold, pMemo, pResets, pSettled>>
ToolsVars ==
  <<tConfig, tKind, tPhase, tSaid, tReply, tPrompted, tInput, tRead, tEnded, tShared>>
EvaluatedVars ==
  <<eConfig, eMain, eNext, eCase, eRuns, eKept, eReached, eFailed, eStopped, eReport>>
TalkVars == <<cMaxTurns, cScript, cCumulative, cPc, cMessage, cHistory, cMerged, cRuns>>
ReadersVars ==
  <<yStream, yCalls, yUseAt, ySpans, yLastText, yFinal, yPage, yOpen, yUses, yAnswered,
    yBroken>>
MoneyVars ==
  <<bSpent, bPerSession, bWarned, bWorker, bPending, bAdds, bWarnings, bExceeded, bTold, bOther>>
TreesVars == <<wSlug, wPc, wTrees, wBranches, wOwner, wCancelled, wClean, wBatch>>
TelemetryVars == <<mRun, mDone, mReports, mOpen, mSpans>>
TargetVars == <<qTarget, qOnce, qFirst, qChecked, qFailure, qRun, qCancelled>>

-----------------------------------------------------------------------------
(* The instances, and the small inputs each is checked for *)

Graph == INSTANCE GraphBuild WITH
  Start <- "Start", End <- "End", MaxCalls <- 5,
  BuilderCalls <-
    {<<"node", n, <<>>>> : n \in {"a", "b"}}
    \cup {<<"parallel", "a", b>> : b \in {<<>>, <<"b">>, <<"b", "b">>}}
    \cup {<<"edge", f, <<t>>>> : f \in {"Start", "a", "b"}, t \in {"a", "b", "End"}}
    \cup {<<"conditional", f, t>> :
            f \in {"Start", "a", "b"}, t \in {<<>>, <<"a", "b">>, <<"a", "End">>}}
    \cup {<<"group", g, <<"b">>>> : g \in {"g", "h"}},
  nodes <- gNodes, static <- gStatic, cond <- gCond, groups <- gGroups,
  failed <- gFailed, made <- gMade, compiled <- gCompiled, at <- gAt

Journalled == INSTANCE Journal WITH
  Runs <- {"r1", "r2"}, DefaultJournal <- "graphweb.jsonl", OldJournal <- "journal.jsonl",
  MaxEvents <- 3, MaxServers <- 2, MaxFailures <- 1,
  dir <- jDir, server <- jServer, starting <- jStarting, replay <- jReplay,
  sessions <- jSessions, lossy <- jLossy, bounds <- jBounds

Recorded == INSTANCE Recording WITH
  Writers <- {w1, w2}, Factories <- {f1, f2}, MaxLines <- 2,
  Lines <- {<<" ">>, <<"{", "f", "}">>, <<"{", " ", "}">>, <<"{", "T", ",", "f", "}">>, <<"{">>},
  factory <- xFactory, seq <- xSeq, want <- xWant, writer <- xWriter, failed <- xFailed,
  disk <- xDisk, headed <- xHeaded, given <- xGiven

\* Every short pattern and input of any tool; compound commands; paths that climb.
Rules == INSTANCE PermissionRules WITH
  Requests <-
    {<<"Any", p, s>> : p \in BoundedSeq({"a", "*", "?"}, 4), s \in BoundedSeq({"a", "b"}, 4)}
    \cup {<<"Bash", p, s>> : p \in {<<"a">>, <<"a", "*">>, <<"*", "a">>, <<"a", ":", "*">>},
                             s \in BoundedSeq({"a", " ", "&", "(", "$"}, 4)}
    \cup {<<"Read", p, s>> : p \in {<<"d", "/", "*">>, <<"*", "d">>},
                             s \in BoundedSeq({"d", ".", "/", "\\"}, 5)}

\* Three cases two of which run at once; two, each run twice; one run three times.
\* Values far below, just below, at and far above the threshold.
Config(c, n, p, rate) == [cases |-> c, repeats |-> n, parallel |-> p, rate |-> rate]
Repeated(rate) == Config(1, 3, 1, rate)
Result(v, passed, u) == [value |-> v, verdict |-> passed, used |-> u]
Evaluated == INSTANCE Evaluation WITH
  Configs <-
    {Config(3, 1, 2, r) : r \in {<<0, 1, 0>>, <<1, 1, 0>>}}
    \cup {Config(2, 2, 2, r) : r \in {<<0, 1, 0>>, <<1, 2, 1>>, <<1, 1, 0>>}}
    \cup {Repeated(r) : r \in {<<0, 1, 0>>, <<1, 3, 0>>, <<1, 3, 3>>, <<2, 3, 1>>, <<1, 1, 1>>}},
  Passing <- 4, Partial <- {0, 2},
  RunResults <- {Result(0, TRUE, 1), Result(3, TRUE, 2), Result(4, TRUE, 2), Result(8, FALSE, 1)},
  config <- eConfig, main <- eMain, next <- eNext, case <- eCase, runs <- eRuns,
  kept <- eKept, reached <- eReached, failed <- eFailed, stopped <- eStopped, report <- eReport

NoArguments == <<"null">>
One == <<"value", 1>>
Scores == INSTANCE Scoring WITH
  Lengths <- 0..3, Failed <- 9, Threshold <- 1,
  Calls <- [server : {"", "s"}, tool : {"t", "u"},
            args : {NoArguments, <<"object", <<>>>>, <<"object", [k |-> One]>>,
                    <<"object", [k |-> One, l |-> <<"list", <<NoArguments>>>>]>>,
                    <<"object", [k |-> NoArguments]>>, <<"list", <<One>>>>,
                    <<"list", <<NoArguments>>>>}],
  Texts <- BoundedSeq({"a", "b"}, 4), Samples <- BoundedSeq({0, 1, 2, 9}, 4) \ {<<>>}

Talk == INSTANCE Conversation WITH
  Limits <- 0..4, Scripts <- BoundedSeq({"text", "blank"}, 3), Played <- <<"Claude">>,
  maxTurns <- cMaxTurns, script <- cScript, cumulative <- cCumulative, pc <- cPc,
  message <- cMessage, history <- cHistory, merged <- cMerged, runs <- cRuns

Readers == INSTANCE Trajectory WITH
  Alphabet <-
    [type : {"use"}, id : {"t1", ""}, parent : {""}]
    \cup {[type |-> "use", id |-> "t2", parent |-> "t1"]}
    \cup [type : {"result"}, id : {"t1", "t2", ""}, parent : {""}]
    \cup [type : {"text"}, id : {""}, parent : {"", "t1"}]
    \cup [type : {"final"}, id : {"", "text"}, parent : {""}],
  Steps <- {1}, MaxEvents <- 4,
  stream <- yStream, calls <- yCalls, useAt <- yUseAt, spans <- ySpans,
  lastText <- yLastText, final <- yFinal, page <- yPage, open <- yOpen, uses <- yUses,
  answered <- yAnswered, broken <- yBroken

Outputs == INSTANCE CliOutput WITH
  Empty <- "",
  Outputs <- BoundedSeq(
    [type : {"init"}, session : {"", "s"}, text : {""}, sub : {FALSE}, error : {FALSE}]
    \cup [type : {"assistant"}, session : {"s"}, text : {"", "a", "b"}, sub : BOOLEAN,
          error : {FALSE}]
    \cup [type : {"result"}, session : {"", "s", "t"}, text : {"", "r"}, sub : {FALSE},
          error : BOOLEAN], 3),
  Prose <- BoundedSeq({"[", "]", "x", "1", "q"}, 6), read <- oRead

-----------------------------------------------------------------------------
(* The inputs LibraryParts is checked for *)

\* Slugs git refuses, nests in one another, or has rebuilt as another's: " ", "a/b",
\* "b/wt-a"; and "x/k", rebuilt as a branch of the repository's own.
MCSlugs == {<<"wt-a">>, <<"wt-a", "b">>, <<"wt-b", "wt-a">>, <<"wt-x", "k">>, <<"wt- ">>}
MCInvalidSlugs == {<<"wt- ">>}
MCKeptBranches == {<<"k">>}
Shared == [t1 |-> <<"wt-a">>, t2 |-> <<"wt-a">>, t3 |-> <<"wt-b", "wt-a">>]
MCBatches ==
  {Shared,
   [t1 |-> <<"wt-a">>, t2 |-> <<"wt-a", "b">>, t3 |-> <<"wt-b", "wt-a">>],
   [t1 |-> <<"wt-x", "k">>, t2 |-> <<"wt-x", "k">>, t3 |-> <<"wt- ">>]}

\* Every version of three binary digits, around the minimum.
MCMinCLIVersion == <<1, 0, 1>>
MCTargets ==
  [binary : {"ok"}, auth : {"in", "out", "unknown"}, env : BOOLEAN, slow : BOOLEAN,
   version : {Unparsable} \cup ({0, 1} \X {0, 1} \X {0, 1})]
  \cup [binary : {"absent", "fails"}, auth : {"in"}, env : BOOLEAN, slow : BOOLEAN,
        version : {<<1, 1, 1>>}]

-----------------------------------------------------------------------------
Parts == {"graph", "parallel", "agent", "fork", "journal", "recording", "permissions", "rules",
          "tools", "evaluation", "scoring", "conversation", "trajectory", "output", "budget",
          "worktrees", "telemetry", "preflight"}

\* A part that stands still is in one of its initial states.
LibraryInit ==
  /\ part \in Parts /\ Init
  /\ Graph!Init /\ Forked!Init /\ Journalled!Init /\ Rules!Init /\ Scores!Init
  /\ Readers!Init /\ Outputs!Init /\ Money!Init
  /\ Agent!Init /\ (part = "agent" \/ <<aSetup, aGiven>> =
       <<[logged |-> TRUE, observer |-> FALSE, recovered |-> FALSE, allow |-> FALSE], {}>>)
  /\ Recorded!Init /\ (part = "recording" \/ xFactory = [w \in {w1, w2} |-> f1])
  /\ Permission!Init /\ (part = "permissions" \/ pRequest = [k \in {k1, k2, k3} |-> r1])
  /\ Evaluated!Init /\ (part = "evaluation" \/ eConfig = Repeated(<<1, 1, 1>>))
  /\ Talk!Init /\ (part = "conversation" \/ <<cMaxTurns, cScript, cCumulative>> = <<1, <<>>, FALSE>>)
  /\ Tools!Init /\ (part = "tools" \/ <<tConfig, tKind>> =
       <<[canUse |-> FALSE, askUser |-> FALSE, skip |-> TRUE, mode |-> "unset"],
         [r \in {"r1", "r2"} |-> "other"]>>)
  /\ Told!Init
  /\ Trees!Init /\ wSlug \in IF part = "worktrees" THEN MCBatches ELSE {Shared}
  /\ Target!Init /\ (part = "preflight" \/ qTarget =
       [binary |-> "absent", auth |-> "in", env |-> TRUE, slow |-> TRUE, version |-> <<1, 1, 1>>])

\* The chosen part moves.
LibraryNext ==
  /\ UNCHANGED part
  /\ IF part = "parallel" THEN Next ELSE UNCHANGED vars
  /\ IF part = "graph" THEN Graph!Next ELSE UNCHANGED GraphVars
  /\ IF part = "agent" THEN Agent!Next ELSE UNCHANGED AgentVars
  /\ IF part = "fork" THEN Forked!Next ELSE UNCHANGED ForkedVars
  /\ IF part = "journal" THEN Journalled!Next ELSE UNCHANGED JournalledVars
  /\ IF part = "recording" THEN Recorded!Next ELSE UNCHANGED RecordedVars
  /\ IF part = "permissions" THEN Permission!Next ELSE UNCHANGED PermissionVars
  /\ IF part = "rules" THEN Rules!Next ELSE UNCHANGED verdict
  /\ IF part = "tools" THEN Tools!Next ELSE UNCHANGED ToolsVars
  /\ IF part = "evaluation" THEN Evaluated!Next ELSE UNCHANGED EvaluatedVars
  /\ IF part = "scoring" THEN Scores!Next ELSE UNCHANGED scored
  /\ IF part = "conversation" THEN Talk!Next ELSE UNCHANGED TalkVars
  /\ IF part = "trajectory" THEN Readers!Next ELSE UNCHANGED ReadersVars
  /\ IF part = "output" THEN Outputs!Next ELSE UNCHANGED oRead
  /\ IF part = "budget" THEN Money!Next ELSE UNCHANGED MoneyVars
  /\ IF part = "worktrees" THEN Trees!Next ELSE UNCHANGED TreesVars
  /\ IF part = "telemetry" THEN Told!Next ELSE UNCHANGED TelemetryVars
  /\ IF part = "preflight" THEN Target!Next ELSE UNCHANGED TargetVars

LibraryVars ==
  <<part, vars, GraphVars, AgentVars, ForkedVars, JournalledVars, RecordedVars,
    PermissionVars, verdict, ToolsVars, EvaluatedVars, scored, TalkVars, ReadersVars,
    oRead, MoneyVars, TreesVars, TelemetryVars, TargetVars>>

LibrarySpec == LibraryInit /\ [][LibraryNext]_LibraryVars

-----------------------------------------------------------------------------
(* Properties, with LibraryParts': each is stated and explained in its module *)

\* What Compile accepts runs and what it refuses could not; the edges that Topology
\* marks as back edges are those that close loops (graph.go, events.go).
GraphIsRight == Graph!GraphIsRight

\* A rule matches what its pattern means, and no more (permissions.go).
RulesMeanTheirPatterns == Rules!RulesMeanTheirPatterns

\* An evaluation's report holds the runs made, scored and counted as the criteria say
\* (evaluate.go), the scorers compute what their definitions say (match.go, text.go,
\* rubric.go), and the merged run of a conversation has all its turns (conversation.go).
EvaluationIsSound ==
  /\ Evaluated!EvaluationIsSound /\ Talk!ConversationIsComplete
  /\ Scores!ScoresAreRight

\* What was written is what is read back: a replay of the web journal, a replayed
\* recording (http.go, recording.go); and the readers of one stream agree on it (run.go,
\* trace.go, invariants.go, parser.go).
ReadersAgree ==
  /\ Journalled!JournalIsFaithful /\ Recorded!RecordingIsFaithful
  /\ Readers!ReadersAgree /\ Outputs!OutputIsReadRight
=============================================================================
