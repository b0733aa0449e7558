CONSTANTS
  h1 = h1
  h2 = h2
  Heartbeats = {h1, h2}
  N = 3
  MaxBatches = 1
  Batched = {}
  Refused = {}
  Continue = {}
  MaxTouches = 1
  MaxFaults = 0
SYMMETRY HeartbeatSymmetry
SPECIFICATION Spec
CHECK_DEADLOCK FALSE
PROPERTIES
  PassedLinesDone
