SPECIFICATION FairSpec
CONSTANTS
  Nodes <- MCNodes
  Start = Start
  End = End
  NoNode = NoNode
  Answers = {yes, no}
  NoAnswer = NoAnswer
  Sessions = {s1}
  NoSession = NoSession
  Targets <- MCTargets
  Imported <- PausedElsewhere
  MaxSteps = 2
  MaxFaults = 1
  MaxRecoveries = 1
  MaxAsks = 2
  MaxNotes = 1
INVARIANTS
  ImportReadsAsOwn
PROPERTIES
  SegmentEnds
CHECK_DEADLOCK FALSE
