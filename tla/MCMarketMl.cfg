SPECIFICATION Spec
CHECK_DEADLOCK FALSE
CONSTANTS
  Tickers = {"a", "n"}  Benchmarks = {"a"}  Since <- MCSince  FredFirst = 2  Starts = {1}
  Gap = 1  Wave = 1  MaxDate = 3  MaxLate = 1  MaxBroken = 1  Stocks = {"a", "b"}
  Horizon = 1  LongHorizon = 2  Recent = 2  MinBars = 2  LastMarket <- MCLastMarket
  MaxMishaps = 1  Shares = {"a", "n"}  Mixes = {{"lgb", "lstm"}, {"lgb", "lstm", "xgb"}}
  Skips = {{}, {"xgb"}}  LastFeature = 2  Exporters = {"x", "y"}  MaxTrained = 2
  MaxExports = 3  Trainers = {1, 2}  Losses = {1, 3}  MinDelta = 1  Patience = 1  Epochs = 2
  MaxAttempts = 2  Years <- MCYears  SkipSets <- MCSkipSets  ByHand = {"walk"}  MaxRuns = 2
  MaxHands = 1  Companies = {"a", "b"}  Correlators = {1, 2}  Unpriced = 0  MaxBar = 1
  MaxChanges = 3  MaxComputed = 2  Urls = {"u", "v"}
  Mentions = {{"a", "b"}, {"a", "b", "c"}}  MaxMention = 2  Syncers = {"f", "g"}
  Subscribers = 3  Sources = 1  MaxWidth = 2  CleanWaves = 1  MaxRetries = 1
  MaxSightings = 2  MaxMissed = 1  Charted = {"a", "b"}  ChartCommands <- MCChartCommands
  WarmSpecs <- MCWarmSpecs  Interval = 1  MostSymbols = 2  MostBars = 4  Feeds = 1
  Charts = {1, 2}  MaxCharts = 3  MaxTroubles = 1  LastMoment = 2
INVARIANTS
  TypesOK ExpectedAreFetched ChartsAreCurrent FeedsAreTrue RowsAreInTime
  RankMatchesQuintile FoldsDoNotPredict ReportTellsOfModel NeuralEngineRunsTheModel
