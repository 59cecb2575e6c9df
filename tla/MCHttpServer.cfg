CONSTANTS
  c1 = c1
  c2 = c2
  v1 = v1
  v2 = v2
  Wrong = Wrong
  Clients = {c1, c2}
  Vectors = {v1, v2, Wrong}
  Requests <- MCRequests
  DefaultK = 10
  MAX_K = 256
  MaxRequests = 2
  MaxRuns = 2
  MaxStops = 1
SPECIFICATION FairSpec
INVARIANTS
  ContextAlive
  AnswersHold
PROPERTIES
  LoopServes
CHECK_DEADLOCK FALSE
