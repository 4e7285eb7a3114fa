SPECIFICATION FairSpec
CONSTANTS
  a1 = a1
  a2 = a2
  n1 = n1
  n2 = n2
  Agents = {a1}
  Nodes = {n1, n2}
  NodeOf <- MCNodeOf
  TTL = 2
  HeartbeatInterval = 1
  WatchdogThreshold = 1
  MaxLag = 1
  None = None
INVARIANTS TypeOK ColonyKillReachesAll OneTickAtATime
PROPERTIES TicksResume OverdueIsAborted HaltQuiesces
