SPECIFICATION Spec
CHECK_DEADLOCK FALSE
CONSTANTS
  Day = 2  Page = 1  MaxRecs = 2  MaxTime = 3  MaxRenames = 1  MaxFailed = 1
  Levels <- MCLevels  Stop <- MCStop  Target = 2  ExitRules <- MCExitRules  MaxSeen = 4
  MaxMinutes = 3  MaxHold = 3  RealAccounts = {"r1", "r2"}  PaperAccounts = {"p1"}  Profiles <- MCProfiles
  Window = 1  Prices = {1, 2}  Quantities = {1}  MaxFills = 3  MaxDay = 1
  Symbols = {"a", "b"}  Limit = 1  Back = 1  BuyLot = 2  LastSession = 2  MaxBought = 4  MaxRows = 1  Later = 1
  Amounts = {1, 2}  MaxTrades = 4  LastDay = 3  Slots = {1, 2, 3}
  Commands = {"get", "long", "now"}  DirectCommands = {"now"}  LongCommands = {"long"}
  CachedCommands = {"get"}  MaxActive = 2  MaxLong = 1  RateLimit = 2  RateWindow = 2
  Ttl = 1  Timeout = 1  MaxEntries = 1  MaxTick = 3  Buckets <- MCBuckets  ExemptSales = 1
  Months = 6  Shells = {"s", "t"}  Asked <- MCAsked  MaxAsked = 2  MaxServers = 3
  MaxKilled = 1  MaxEdits = 1  Clients = {"c1", "c2", "c3"}  Handlers = {"h1", "h2"}  Stacks = {"v4", "v6"}  MaxOpen = 2
  MaxStreams = 1  MaxBeats = 1
INVARIANTS
  TypesOK HistoryIsKept DecidedByHistory TripsAreCounted SharesAreIdentified
  LossesOffsetOnce CountersAreExact AnswersAreRecent ServersAreFound PlacesAreExact
PROPERTY NoReplacementBuy
