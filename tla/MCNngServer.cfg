CONSTANTS
  c1 = c1
  c2 = c2
  c3 = c3
  v1 = v1
  v2 = v2
  Wrong = Wrong
  NoClient = NoClient
  Clients = {c1, c2, c3}
  Fds = {1, 2}
  Vectors = {v1, v2, Wrong}
  Frames <- MCFrames
  Builds = {"unwind", "abort"}
  Workloads <- MCWorkloads
SPECIFICATION FairSpec
INVARIANTS
  InsertIdsHold
  ImportsAreWhole
  BatchSeesOneState
PROPERTIES
  LockIsPassedOn
  LeftIsClosed
CHECK_DEADLOCK FALSE
