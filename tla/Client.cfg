SPECIFICATION FairSpec
CONSTANTS
  Turns = {t1, t2}
  Controls = {c1}
  Requests = {r1}
  None = None
  Capacity = 1
  MaxEvents = 1
INVARIANTS
  SessionIsSound
PROPERTIES
  QueryEnds
  CloseEndsUnlessStuck
CHECK_DEADLOCK FALSE
