SPECIFICATION Spec
CONSTANTS
  Nodes <- MCNodes
  Start = Start
  End = End
  NoNode = NoNode
  Answers = {yes, no}
  NoAnswer = NoAnswer
  Sessions = {s1}
  NoSession = NoSession
  Targets <- MCTargets
  Imported <- NoImports
  MaxSteps = 2
  MaxFaults = 2
  MaxRecoveries = 2
  MaxAsks = 1
  MaxNotes = 1
INVARIANTS
  TypeOK
  RecoveryContinues
  OneHistory
  CallerIsToldTheTruth
PROPERTIES
  KeyNamesOneNode
  NoCommitRunsAgain
  FinishedIsFinal
  RunsAsIfUninterrupted
CHECK_DEADLOCK FALSE
