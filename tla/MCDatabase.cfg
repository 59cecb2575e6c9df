CONSTANTS
  a = a
  b = b
  bad = bad
  Threads = {t1, t2, t3}
  Readers = {r1}
  NoThread = NoThread
  Vectors = {a, b}
  Malformed = bad
  Batches <- MCBatches
  MaxCalls = 3
  MaxFaults = 1
  MaxCrashes = 2
SPECIFICATION FairSpec
INVARIANTS
  DiskInv
  Recoverable
  AckedDurable
  PartialBatchHidden
  ViewsStable
  NoDeadlock
PROPERTIES
  StoreSpec
  CommittedFilesKept
  AcksInIdOrder
  CallsReturn
CHECK_DEADLOCK FALSE
