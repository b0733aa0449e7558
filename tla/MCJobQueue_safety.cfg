CONSTANTS
  j1 = j1
  j2 = j2
  j3 = j3
  r1 = r1
  r2 = r2
  r3 = r3
  NoJob = NoJob
  Jobs = {j1, j2}
  Requests = {r1, r2}
  Depends <- ChainDepends
  Capacity = 1
  Sequential = FALSE
  MaxRetries <- ParentTwoTries
  MaxFaults = 1
  RetryBound = 1
  MaxTouches = 1
CONSTRAINT FewDisturbances
SYMMETRY RequestSymmetry
SPECIFICATION Spec
CHECK_DEADLOCK FALSE
INVARIANTS
  TypeOK
  ParentsFirst
  RunnerInSync
  WithinCapacity
  AtMostOneExecution
  EffectsBounded
  FullChannelWakesUp
PROPERTIES
  ContractKept
