CONSTANTS
  p1 = p1
  p2 = p2
  c1 = c1
  c2 = c2
  NoJob = NoJob
  Jobs = {p1, p2, c1, c2}
  Depends <- JoinDepends
  Workers = {w1, w2}
  Runners = {"http", "cron"}
  MaxFaults = 1
  MaxTouches = 1
SPECIFICATION Spec
CHECK_DEADLOCK FALSE
INVARIANTS
  TypeOK
  OneWorkerPerJob
  ParentsFirst
PROPERTIES
  ContractKept
  JoinReleased
  PendingEnds
