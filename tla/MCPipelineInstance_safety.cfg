CONSTANTS
  h1 = h1
  h2 = h2
  Heartbeats = {h1, h2}
  N = 4
  MaxBatches = 2
  Batched = {2, 3}
  Refused = {3}
  Continue = {1, 2}
  MaxTouches = 2
  MaxFaults = 1
SYMMETRY HeartbeatSymmetry
SPECIFICATION Spec
CHECK_DEADLOCK FALSE
INVARIANTS
  TypeOK
  LinesInOrder
  SuccessIsComplete
  RunOnce
