CONSTANTS
  Threads = {t1, t2}
  NoThread = none
  FileLen = 9
  ChunkSize = 2
  MaxTotal = 2
  Requests <- MCChunkRequests
  MaxReads = 3
  MaxFaults = 0
SPECIFICATION Spec
PROPERTIES
  OverBudgetOnlyWhenInUse
CHECK_DEADLOCK FALSE
