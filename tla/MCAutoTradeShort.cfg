SPECIFICATION Spec
CONSTANTS
  a = a
  b = b
  t1 = t1
  Symbols <- MCSymbols
  Traders <- MCTrader
  Cash = 3
  MaxOrders = 3
  MayShort = TRUE
  MaxPositions = 1
  Lot = 2
  MaxFaults = 0
  MaxUser = 0
  MaxTroubles = 0
  None = None
PROPERTY ExitsMatchSnapshot
