SPECIFICATION Spec
CONSTANTS
  m1 = m1
  p1 = p1
  p2 = p2
  Daemon = Daemon
  c1 = c1
  c2 = c2
  Children <- MCChildren
  Manual <- MCManual
  Profiles <- MCProfiles
  Standard = p1
  Stamping <- MCStamping
  Last = 3
  MarketDays <- MCMarketDays
  MaxDay = 3
  MaxFaults = 1
  None = None
PROPERTY DaemonStampHasItsBars
CHECK_DEADLOCK FALSE
