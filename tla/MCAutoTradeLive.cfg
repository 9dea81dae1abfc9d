SPECIFICATION FairSpec
CONSTANTS
  a = a
  b = b
  t1 = t1
  Symbols <- MCSymbols
  Traders <- MCTrader
  Cash = 5
  MaxOrders = 3
  MayShort = FALSE
  MaxPositions = 1
  Lot = 2
  MaxFaults = 1
  MaxUser = 1
  MaxTroubles = 1
  None = None
PROPERTIES PositionLimit SharesAreWatched RowsWithoutSharesGo
