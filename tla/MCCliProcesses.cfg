CONSTANTS
  p1 = p1
  p2 = p2
  v1 = v1
  v2 = v2
  Malformed = Malformed
  Wrong = Wrong
  Vectors = {v1, v2, Wrong}
  Procs = {p1, p2}
  Commands <- MCCommands
  MaxCommands = 5
  MaxDeaths = 2
SPECIFICATION Spec
SYMMETRY Symmetry
INVARIANTS
  SearchSeesAcked
  OpenFailsOnlyWhen
CHECK_DEADLOCK FALSE
