SPECIFICATION PunctualSpec
CONSTANTS
  n1 = n1
  Agents = {a1, a2}
  Nodes = {n1}
  NodeOf <- MCNodeOf
  TTL = 5
  HeartbeatInterval = 2
  WatchdogThreshold = 0
  MaxLag = 5
  None = None
  Slots = {s1}
  MaxRestarts = 1
  Window = 2
  WakeSlack = 0
  ReportSlack = 1
SYMMETRY MCSymmetry
INVARIANTS NoFalseAbort RestartBudget
CHECK_DEADLOCK FALSE
