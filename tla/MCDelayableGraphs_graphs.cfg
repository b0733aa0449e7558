CONSTANTS
  a = a
  b = b
  c = c
  d = d
  inner = inner
  outer = outer
  Jobs = {a, b, c, d}
  Containers = {inner, outer}
  Shapes <- PlainNestings
  Keyed <- KeyedJobs
  Callers = {1, 2}
  MaxLinks = 1
SPECIFICATION Spec
CHECK_DEADLOCK FALSE
INVARIANTS
  TypeOK
  OrderRespected
  WaitsForReason
  WholeOrKnown
PROPERTIES
  GraphCompletes
