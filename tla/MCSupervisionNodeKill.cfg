SPECIFICATION SupFairSpec
CONSTANTS
  n1 = n1
  Agents = {a1, a2}
  Nodes = {n1}
  NodeOf <- MCNodeOf
  TTL = 2
  HeartbeatInterval = 1
  WatchdogThreshold = 0
  MaxLag = 3
  None = None
  Slots = {s1, s2}
  MaxRestarts = 1
  Window = 1
  WakeSlack = 1
  ReportSlack = 0

INVARIANTS NodeKillSucceeds
CHECK_DEADLOCK FALSE
