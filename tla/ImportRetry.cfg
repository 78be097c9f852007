SPECIFICATION FairSpec
CONSTANTS
  Nodes <- MCNodes
  Start = Start
  End = End
  NoNode = NoNode
  Answers = {yes, no}
  NoAnswer = NoAnswer
  Sessions = {s1}
  NoSession = NoSession
  Targets <- MCTargets
  Imported <- PausedElsewhere
  MaxSteps = 3
  MaxFaults = 2
  MaxRecoveries = 2
  MaxAsks = 1
  MaxNotes = 1
INVARIANTS
  ResumeAnswersQuestion
CHECK_DEADLOCK FALSE
