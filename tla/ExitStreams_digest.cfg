CONSTANTS
  p1 = p1
  Opens <- MCOpens
  Credit = 1
  BwCells = 1
  MaxCells = 2
SPECIFICATION ExitSpec
INVARIANTS DigestOrderIsQueueOrder
CHECK_DEADLOCK FALSE
