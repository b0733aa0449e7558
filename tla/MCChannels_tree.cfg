CONSTANTS
  j1 = j1
  j2 = j2
  j3 = j3
  root = root
  A = A
  S = S
  rootCapacity = 2
  throttle = 1
  Jobs = {j1, j2, j3}
  Channels = {root, A, S}
  Root = root
  Parent <- TreeParent
  Path <- TreePath
  Order <- TreeOrder
  Home <- MixedHome
  Key <- JobKey
  Capacity <- TreeCapacity
  Sequential = {S}
  Throttle <- TreeThrottle
  SelectTimeout = 3
  Etas = {0, 2}
  MaxTime = 3
  MaxWrites = 2
  MaxFaults = 1
SPECIFICATION Spec
CHECK_DEADLOCK FALSE
INVARIANTS
  TypeOK
  CapacityKept
  OnePlace
  NoMissedWakeup
  NoPerpetualWakeup
PROPERTIES
  SequentialOrder
