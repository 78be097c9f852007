SPECIFICATION FairSpec
CONSTANTS
  Workers = {w1, w2}
  a = a
  b = b
  c = c
  Tasks <- MCTasks
  Batches <- MCBatches
  Caps = {0, 1}
  MaxCost = 1
INVARIANTS
  BoardIsSound
PROPERTIES
  RunReturns
CHECK_DEADLOCK FALSE
