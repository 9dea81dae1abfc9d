---------------------------- MODULE MCMarketMl ----------------------------
(* Small instances of what is kept of the market and of the ML pipeline.     *)
(* As in MCTradingApi they share no state, and `part` says which of them a   *)
(* behaviour is of.                                                          *)
EXTENDS BarScan, BarCache, FeedRecords, MlDatasets, MlPredictions,
        ModelTraining, LstmTraining, NeuralArtifact

VARIABLE part

Parts == {"scan", "bars", "universe", "articles", "datasets", "predictions", "models",
          "training", "neural"}

-----------------------------------------------------------------------------
(* Values of the constants that a configuration file cannot write.          *)
MCSince == [a |-> 1, n |-> 2]
MCLastMarket == [labels |-> 4, features |-> 3]

\* One fold; the configuration skips nothing, the training and the baselines, or the
\* folds.
MCYears == <<"y1">>
MCSkipSets == {{}, {"train", "baselines"}, {"walk"}}

\* A chart of all bars, a batch of the last bar, a batch that is refused, and the
\* daemon's window, the last bar up to the second one, with a symbol and without any.
MCChartCommands ==
  LET Chart(verb, symbols, from, to, limit) ==
        [verb |-> verb, symbols |-> symbols, timeframe |-> "5m", from |-> from, to |-> to,
         limit |-> limit]
  IN  {Chart("bars", <<"a">>, 0, 2, 3), Chart("bars", <<"b", "a">>, 1, 2, 1),
       Chart("bars", <<"a", "b">>, 0, 2, 3), Chart("warm", <<"a">>, 0, 1, 1),
       Chart("warm", << >>, 0, 1, 1)}
MCWarmSpecs == <<[timeframe |-> "5m", back |-> 1, limit |-> 1, fresh |-> 2]>>

-----------------------------------------------------------------------------
(* One part at a time.  A part with several initial states keeps one of     *)
(* them while another part steps.                                           *)
PartInit ==
  /\ part \in Parts
  /\ ScanInit /\ (part = "scan" \/ assets = {})
  /\ ChartInit
  /\ UniverseInit
  /\ FeedInit
  /\ MlInit /\ (part = "datasets" \/ job = "labels")
  /\ PredInit
  /\ ModelInit
  /\ TrainInit /\ (part = "training" \/ built = "mlx")
  /\ NeuralInit

KeepsScan == UNCHANGED scanVars
KeepsBars == UNCHANGED chartVars
KeepsUniverse == UNCHANGED universeVars
KeepsArticles == UNCHANGED feedVars
KeepsDatasets == UNCHANGED mlVars
KeepsPredictions == UNCHANGED predVars
KeepsModels == UNCHANGED modelVars
KeepsTraining == UNCHANGED trainVars
KeepsNeural == UNCHANGED neuralVars

PartNext ==
  /\ UNCHANGED part
  /\ IF part = "scan" THEN ScanNext ELSE KeepsScan
  /\ IF part = "bars" THEN ChartNext ELSE KeepsBars
  /\ IF part = "universe" THEN UniverseNext ELSE KeepsUniverse
  /\ IF part = "articles" THEN FeedNext ELSE KeepsArticles
  /\ IF part = "datasets" THEN MlNext ELSE KeepsDatasets
  /\ IF part = "predictions" THEN PredNext ELSE KeepsPredictions
  /\ IF part = "models" THEN ModelNext ELSE KeepsModels
  /\ IF part = "training" THEN TrainNext ELSE KeepsTraining
  /\ IF part = "neural" THEN NeuralNext ELSE KeepsNeural

allVars == <<part, scanVars, chartVars, universeVars, feedVars, mlVars, predVars,
             modelVars, trainVars, neuralVars>>

Spec == PartInit /\ [][PartNext]_allVars

-----------------------------------------------------------------------------
\* Every component's state keeps its type: its tables, caches, models and jobs
\* have the forms that the code's structures and tables give them.
TypesOK ==
  /\ part = "scan" => ScanTypeOK
  /\ part = "bars" => ChartTypeOK
  /\ part = "universe" => UniverseTypeOK
  /\ part = "articles" => FeedTypeOK
  /\ part = "datasets" => MlTypeOK
  /\ part = "predictions" => PredTypeOK
  /\ part = "models" => ModelTypeOK
  /\ part = "training" => TrainTypeOK
  /\ part = "neural" => NeuralTypeOK
=============================================================================
