SPECIFICATION FairSpec
CONSTANTS
  a = a
  b = b
  j = j
  s = s
  Calls = {a, b, j, s}
  Remote = {s}
  Json = {j}
  Scenes <- MCScenes
  MaxSpend = 2
  Unknown = 1
  CapMax = 2
  PipeCap = 1
INVARIANTS
  AttemptsAreSound
  CapIsPassedByOneEventPerRun
  RetryResumesLatestSession
PROPERTIES
  CallEnds
CHECK_DEADLOCK FALSE
