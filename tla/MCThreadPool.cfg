CONSTANTS
  c1 = c1
  c2 = c2
  k1 = k1
  k2 = k2
  k3 = k3
  Callers = {c1, c2}
  NumWorkers = 2
  NoWorker = NoWorker
  Tasks = {k1, k2, k3}
  Panicking = {k3}
  NoTask = NoTask
  MaxWaits = 3
SPECIFICATION FairSpec
INVARIANTS
  PoolInv
  JoinMeansDone
PROPERTIES
  WaitMeansDone
  CallersReturn
CHECK_DEADLOCK FALSE
