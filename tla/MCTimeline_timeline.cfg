CONSTANTS
  r1 = r1
  r2 = r2
  new = new
  Records = {r1, r2, new}
  Stored = {r1, r2}
  NoRecord = NoRecord
  Places = {1, 2}
  NoPlace = 0
  Home = 1
  MaxUses = 3
SYMMETRY StoredSymmetry
SPECIFICATION Spec
CHECK_DEADLOCK FALSE
INVARIANTS
  TypeOK
  ViewSettles
  MovesKept
PROPERTIES
  NoFlicker
