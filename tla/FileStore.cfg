SPECIFICATION Spec
CONSTANTS
  MaxRecords = 5
  MaxFaults = 4
INVARIANTS
  LogIsSound
  RecordsStay
CHECK_DEADLOCK FALSE
