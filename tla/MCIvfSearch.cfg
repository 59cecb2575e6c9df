CONSTANTS
  Points <- MCPoints
  Payloads <- MCSearchPayloads
  Builds <- MCBuilds
  MinPartitions = 2
  StringCap = 2
  MaxVectors = 4
  Trees <- MCTrees
  Height <- MCHeight
  Pushdowns <- MCFilters
  Filters <- MCSearchFilters
  Ks = {1, 2}
  RefineKs = {1}
SPECIFICATION Spec
INVARIANTS
  ExhaustiveIsExact
  IndexInv
  PushdownSound
  ProbeNotWasted
  SelfFound
PROPERTIES
  ReloadKeepsAnswers
CHECK_DEADLOCK FALSE
