SPECIFICATION Spec
CONSTANTS
  r1 = r1
  r2 = r2
  s1 = s1
  u1 = u1
  p1 = p1
  c1 = c1
  b1 = b1
  b2 = b2
  Runs = {r1, r2, s1, u1, p1}
  Readers = {c1}
  Nodes = {n1}
  Start = Start
  End = End
  NoNode = NoNode
  Branches = {b1, b2}
  BranchesOf <- MCBranchesOf
  Observed = {r1, r2, s1, p1}
  Scenes <- OneRun
  MaxSteps <- MCMaxSteps
  AnswersCap = 2
  MaxCancels = 0
  MaxDrops = 1
INVARIANTS
  EveryAnswerHasAQuestion
CHECK_DEADLOCK FALSE
