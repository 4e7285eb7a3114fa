SPECIFICATION ServiceSpec
CONSTANTS
  MaxStarts = 2
  Nobody = Nobody
INVARIANTS KillNeedsOperator
CHECK_DEADLOCK FALSE
