SPECIFICATION HandoffSpec
CONSTANTS
  MaxConns = 3
INVARIANTS
  OneServes
CHECK_DEADLOCK FALSE
