CONSTANTS
  j1 = j1
  j2 = j2
  j3 = j3
  r1 = r1
  r2 = r2
  r3 = r3
  NoJob = NoJob
  Jobs = {j1, j2, j3}
  Requests = {r1, r2}
  Depends <- JoinDepends
  Capacity = 1
  Sequential = FALSE
  MaxRetries <- ChildTwoTries
  MaxFaults = 1
  RetryBound = 1
  MaxTouches = 0
SPECIFICATION FairSpec
CHECK_DEADLOCK FALSE
PROPERTIES
  PendingSettles
  ChildrenReleased
