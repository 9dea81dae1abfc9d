SPECIFICATION FairSpec
CONSTANTS
  d1 = d1
  d2 = d2
  k1 = k1
  k2 = k2
  Pids <- MCPids
  Ctls <- MCCtls
  None = None
  Empty = Empty
PROPERTY InvalidConfigPauses
CHECK_DEADLOCK FALSE
