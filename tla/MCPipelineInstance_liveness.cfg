CONSTANTS
  h1 = h1
  h2 = h2
  Heartbeats = {h1, h2}
  N = 3
  MaxBatches = 2
  Batched = {2}
  Refused = {}
  Continue = {1}
  MaxTouches = 0
  MaxFaults = 1
SPECIFICATION FairSpec
CHECK_DEADLOCK FALSE
PROPERTIES
  ReachesEnd
  FailureReported
