CONSTANTS
  Points <- MCPoints
  Payloads <- MCStrings
  Builds <- MCBuilds
  MinPartitions = 2
  StringCap = 1
  MaxVectors = 3
  Trees <- MCTrees
  Height <- MCHeight
  Pushdowns <- MCFilters
  Filters = {}
  Ks = {1}
  RefineKs = {1}
SPECIFICATION Spec
INVARIANTS
  PushdownSafe
CHECK_DEADLOCK FALSE
