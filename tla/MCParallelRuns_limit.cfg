CONSTANTS
  Last = 3
  Limit = 1
  Lines <- ShorterLater
  MaxEvents = 1
SPECIFICATION Spec
CHECK_DEADLOCK FALSE
INVARIANTS
  TypeOK
  WithinLimit
PROPERTIES
  RunsEnd
