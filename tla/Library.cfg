SPECIFICATION LibrarySpec
CONSTANTS
  BranchCount = 3
  r1 = r1
  r2 = r2
  k1 = k1
  k2 = k2
  k3 = k3
  w1 = w1
  w2 = w2
  w3 = w3
  f1 = f1
  f2 = f2
  AgentCalls = {"c1", "c2"}
  Recovered = "s"
  MaxEvents = 2
  ToolCalls = {k1, k2, k3}
  AskRequests = {r1, r2}
  NoCall = NoCall
  MaxResets = 1
  ControlRequests = {"r1", "r2"}
  Questions = 2
  Workers = {w1, w2, w3}
  SpendSessions = {"s", "t"}
  SpendLimit = 6
  WarnAt = 4
  Estimate = 2
  Costs = {1, 2}
  MaxAdds = 2
  Tasks = {"t1", "t2", "t3"}
  Slugs <- MCSlugs
  InvalidSlugs <- MCInvalidSlugs
  KeptBranches <- MCKeptBranches
  MaxBatches = 2
  Starters = {"r", "q"}
  ReportRuns = {"r"}
  FanBranches = {"x", "y"}
  StepBudget = 3
  MaxReportPauses = 2
  LogNodes = {"a", "b"}
  LogAnswers = {"y"}
  LogSessions = {"s"}
  EditMark = "edited"
  MaxSourceRecords = 6
  Unparsable = Unparsable
  CheckedTargets <- MCTargets
  MinCLIVersion <- MCMinCLIVersion
INVARIANTS
  GraphIsRight
  NodesAreHonest
  ReportsAreTrue
  ForksAreExact
  DecisionsAreKept
  RulesMeanTheirPatterns
  EvaluationIsSound
  ReadersAgree
  BudgetIsKept
  RunsAreSetUp
CHECK_DEADLOCK FALSE
