SPECIFICATION FairSpec
CONSTANTS
  Nodes <- MCNodes
  Start = Start
  End = End
  NoNode = NoNode
  Answers = {yes}
  NoAnswer = NoAnswer
  Targets <- MCTargets
  MaxSteps = 2
  MaxAttempts = 3
  MaxFaults = 3
  MaxAsks = 2
  MaxSignals = 2
  MaxSessions = 1
INVARIANT
  TypedAndAnswered
PROPERTIES
  RunsAsIfUninterrupted
  SessionIsNeverForgotten
  OnlyAQuestionWaits
CHECK_DEADLOCK FALSE
