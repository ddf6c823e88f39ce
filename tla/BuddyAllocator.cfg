CONSTANTS
  MaxOrder = 3
  Size <- Size3
  PoolStart = 8
  TotalPages = 16
  Request = {0, 1, 2, 3}
SPECIFICATION Spec
INVARIANTS
  Partition FlagsExact
PROPERTY Implements
CHECK_DEADLOCK FALSE
