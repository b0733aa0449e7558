CONSTANTS
  p1 = p1
  p2 = p2
  c1 = c1
  c2 = c2
  NoJob = NoJob
  Jobs = {p1, p2, c1, c2}
  Depends <- UnevenDepends
  Workers = {w1, w2}
  Runners = {"http"}
  MaxFaults = 0
  MaxTouches = 0
SPECIFICATION Spec
CHECK_DEADLOCK FALSE
PROPERTIES
  JoinReleased
