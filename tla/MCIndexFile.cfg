CONSTANTS
  Vectors = {0, 1}
  Indexes <- MCIndexes
  CrcBufs = {1, 2, 3, 4, 5, 100}
  SumCells = 3
SPECIFICATION Spec
INVARIANTS
  TornIsError
  SavedIsLoaded
  CorruptIsRefused
CHECK_DEADLOCK FALSE
