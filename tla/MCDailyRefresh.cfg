SPECIFICATION FairSpec
CONSTANTS
  m1 = m1
  p1 = p1
  p2 = p2
  Daemon = Daemon
  c1 = c1
  c2 = c2
  Children <- MCChildren
  Manual <- MCManual
  Profiles <- MCProfiles
  Standard = p1
  Stamping <- MCStamping
  Last = 2
  MarketDays <- MCMarketDays
  MaxDay = 3
  MaxFaults = 2
  None = None
INVARIANT RefreshIsTrue
PROPERTIES StampBacksWholePipeline StampIsFreshUnlessResumed LastDateGetsStamped
CHECK_DEADLOCK FALSE
