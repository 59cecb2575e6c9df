CONSTANTS
  Threads = {t1, t2, t3}
  NoThread = none
  FileLen = 9
  ChunkSize = 2
  MaxTotal = 3
  Requests <- MCRequests
  MaxReads = 3
  MaxFaults = 1
SPECIFICATION FairSpec
INVARIANTS
  CacheInv
  ReadsExact
  BudgetBound
PROPERTIES
  ReadsEnd
CHECK_DEADLOCK FALSE
