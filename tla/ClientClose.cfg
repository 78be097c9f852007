SPECIFICATION FairSpec
CONSTANTS
  Turns = {t1}
  Controls = {c1}
  Requests = {}
  None = None
  Capacity = 1
  MaxEvents = 1
PROPERTIES
  CloseEnds
CHECK_DEADLOCK FALSE
