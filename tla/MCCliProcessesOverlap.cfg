CONSTANTS
  p1 = p1
  p2 = p2
  v1 = v1
  v2 = v2
  Malformed = Malformed
  Wrong = Wrong
  Vectors = {v1, v2, Wrong}
  Procs = {p1, p2}
  Commands <- MCCommands
  MaxCommands = 3
  MaxDeaths = 0
SPECIFICATION Spec
INVARIANTS
  ManifestNamesAFile
CHECK_DEADLOCK FALSE
