--------------------------- MODULE MlPredictions ---------------------------
(***************************************************************************)
(* The rankings that the auto-trade cycle buys by: the table               *)
(* ml_predictions and the commands that write it, src/ml.rs                *)
(* (cmd_ml_predict, cmd_ml_xgboost_predict, cmd_ml_ensemble_default and    *)
(* what it calls, the choice of the weights), src/lstm.rs                  *)
(* (cmd_ml_lstm_predict) and the readers in src/auto.rs.                   *)
(*                                                                         *)
(* Each command is one transaction.  The pipeline runs them one after the  *)
(* other and lets some fail; the command line runs any of them at any      *)
(* time, and takes no lock.  A score is known here by what it was computed *)
(* from.                                                                   *)
(***************************************************************************)
EXTENDS Integers, FiniteSets, FiniteSetsExt

CONSTANTS
  Shares,     \* eligible symbols that are not blocked
  Mixes,      \* sets of models that an ensemble may mix
  Skips,      \* sets of models whose training the configuration may skip
  LastFeature \* bound on the dates that have features

Models == {"lgb", "lstm", "xgb"}

ASSUME PredictionsAssumption ==
  /\ IsFiniteSet(Shares) /\ LastFeature \in Nat \ {0}
  /\ Mixes \subseteq SUBSET Models /\ Skips \subseteq SUBSET Models

Variants == {"full_features", "without_sp500"}
Files == Models \X Variants
FeatureDays == 1 .. LastFeature

VARIABLES
  trained,     \* the model files that there are
  latest,      \* the latest date of ml_features
  seasoned,    \* the symbols with enough dates for the LSTM
  choice,      \* ml_default_ensemble_config.json: variant and positive weights
  skipped,     \* the models whose training ml.skip_steps leaves out
  lstmRows,    \* the two tables of LSTM predictions
  predictions  \* ml_predictions: a row or none for each symbol and date

predVars == <<trained, latest, seasoned, choice, skipped, lstmRows, predictions>>

Unset == "unset"
Mix == "mix"              \* of predictions of the models
MixOfMix == "mix of mix"  \* of another mix
Value == {Unset, Mix, MixOfMix} \cup Models

\* A row: predicted_score, what predicted_quintile ranks, and the four scores.
Blank == [score |-> Unset, quintile |-> Unset, lgb |-> Unset, lstm |-> Unset, xgb |-> Unset, ens |-> Unset]
HasRow(s, d) == predictions[<<s, d>>] # Blank

PredInit ==
  /\ trained = {} /\ latest = 1 /\ seasoned = {}
  /\ choice = [variant |-> "full_features", weights |-> {"lgb", "lstm"}]
  /\ skipped = {} /\ lstmRows = {}
  /\ predictions = [x \in Shares \X FeatureDays |-> Blank]

----------------------------------------------------------------------------
(* What the predictions are computed from *)

Train(file) ==
  /\ file \notin trained
  /\ trained' = trained \cup {file}
  /\ UNCHANGED <<latest, seasoned, choice, skipped, lstmRows, predictions>>

\* The features of another date.
FeaturesOfNextDay(old) ==
  /\ latest < LastFeature
  /\ latest' = latest + 1
  /\ seasoned \subseteq old /\ seasoned' = old
  /\ UNCHANGED <<trained, choice, skipped, lstmRows, predictions>>

\* The models whose weights a search for an ensemble may vary.  An XGBoost model
\* that there is may be left out all the same, when it cannot be evaluated here.
Components(variant) == {m \in Models : <<m, variant>> \in trained}

\* The file of the choice: the positive weights of the best combination.
Chooses(variant, weights) ==
  /\ weights # {} /\ weights \subseteq Components(variant)
  /\ choice # [variant |-> variant, weights |-> weights]
  /\ choice' = [variant |-> variant, weights |-> weights]
  /\ UNCHANGED <<trained, latest, seasoned, skipped, lstmRows, predictions>>

\* cmd_ml_select_default_ensemble() knows the full features only.  Its rows are those
\* that the LSTM validates.
SelectsDefault(weights) ==
  /\ "lstm" \in Components("full_features")
  /\ Chooses("full_features", weights)

\* cmd_ml_ensemble_robust_sweep() compares both variants, and leaves the one without
\* the index out when it is of one model only.
SweepsRobustly(variant, weights) ==
  /\ {"lgb", "lstm"} \subseteq Components("full_features")
  /\ variant = "without_sp500" => Cardinality(Components(variant)) >= 2
  /\ Chooses(variant, weights)

SkipTraining(models) ==
  /\ skipped # models
  /\ skipped' = models
  /\ UNCHANGED <<trained, latest, seasoned, choice, lstmRows, predictions>>

----------------------------------------------------------------------------
(* Single models *)

\* Mutant of LgbRow: the row of a symbol is brought up to date.
LgbRowKept(old) == [old EXCEPT !.score = "lgb", !.quintile = "lgb"]

LgbRow(old) == [Blank EXCEPT !.score = "lgb", !.quintile = "lgb"]

\* cmd_ml_predict(): the rows of the latest date are deleted and written anew.
LgbPredict ==
  /\ <<"lgb", "full_features">> \in trained
  /\ predictions' = [x \in DOMAIN predictions |->
                       IF x[2] = latest THEN LgbRow(predictions[x]) ELSE predictions[x]]
  /\ UNCHANGED <<trained, latest, seasoned, choice, skipped, lstmRows>>

\* cmd_ml_xgboost_predict() updates the rows that there are.
XgbPredict ==
  /\ <<"xgb", "full_features">> \in trained
  /\ predictions' = [x \in DOMAIN predictions |->
                       IF x[2] = latest /\ HasRow(x[1], x[2])
                       THEN [predictions[x] EXCEPT !.xgb = "xgb"] ELSE predictions[x]]
  /\ UNCHANGED <<trained, latest, seasoned, choice, skipped, lstmRows>>

LstmRowsAfter(variant) ==
  {r \in lstmRows : ~(r.variant = variant /\ r.date = latest)}
    \cup {[variant |-> variant, share |-> s, date |-> latest] : s \in seasoned}

\* cmd_ml_lstm_predict()
LstmPredict(variant) ==
  /\ <<"lstm", variant>> \in trained
  /\ lstmRows' = LstmRowsAfter(variant)
  /\ UNCHANGED <<trained, latest, seasoned, choice, skipped, predictions>>

----------------------------------------------------------------------------
(* Ensembles *)

LstmDates(rows, variant) == {r.date : r \in {q \in rows : q.variant = variant}}
HasLstm(rows, variant, s, d) == [variant |-> variant, share |-> s, date |-> d] \in rows

EnsembleOf(weights, lgb) ==
  IF "lgb" \in weights /\ lgb # "lgb" THEN MixOfMix ELSE Mix

\* cmd_ml_ensemble_weighted(): of the latest date that both tables have, the
\* symbols that have every score that counts.  The score of LightGBM is read
\* from predicted_score, which the ensemble then replaces; the quintiles are
\* those of the symbols that have an ensemble score.
EnsembleWeighted(weights) ==
  LET days   == {d \in FeatureDays : \E s \in Shares : HasRow(s, d)}
      target == Min({Max(days), Max(LstmDates(lstmRows, "full_features"))})
      all(s) == /\ HasRow(s, target) /\ HasLstm(lstmRows, "full_features", s, target)
                /\ "xgb" \in weights => predictions[<<s, target>>].xgb # Unset
      mixed(row) == [row EXCEPT !.lgb = row.score, !.lstm = "lstm", !.ens = EnsembleOf(weights, row.score),
                                !.score = EnsembleOf(weights, row.score),
                                !.quintile = EnsembleOf(weights, row.score)]
  IN  /\ days # {} /\ LstmDates(lstmRows, "full_features") # {}
      /\ \E s \in Shares : all(s)
      /\ predictions' = [x \in DOMAIN predictions |->
                           IF x[2] = target /\ all(x[1]) THEN mixed(predictions[x]) ELSE predictions[x]]
      /\ UNCHANGED <<trained, latest, seasoned, choice, skipped, lstmRows>>

\* cmd_ml_ensemble_without_sp500_weighted() predicts for the latest date, the
\* LSTM too when it has not yet, and replaces all its rows.
EnsembleWithout(weights) ==
  LET last  == {0} \cup LstmDates(lstmRows, "without_sp500")
      rows  == IF Max(last) = latest THEN lstmRows ELSE LstmRowsAfter("without_sp500")
      row   == [Blank EXCEPT !.score = Mix, !.quintile = Mix, !.lgb = "lgb", !.lstm = "lstm", !.ens = Mix,
                             !.xgb = IF "xgb" \in weights THEN "xgb" ELSE Unset]
  IN  /\ <<"lgb", "without_sp500">> \in trained
      /\ "xgb" \in weights => <<"xgb", "without_sp500">> \in trained
      /\ Max(last) # latest => <<"lstm", "without_sp500">> \in trained
      /\ \E s \in Shares : HasLstm(rows, "without_sp500", s, latest)
      /\ lstmRows' = rows
      /\ predictions' = [x \in DOMAIN predictions |->
                           IF x[2] # latest THEN predictions[x]
                           ELSE IF HasLstm(rows, "without_sp500", x[1], latest) THEN row ELSE Blank]
      /\ UNCHANGED <<trained, latest, seasoned, choice, skipped>>

\* cmd_ml_ensemble_default(): without the models that are not trained any more.
EnsembleDefault ==
  LET weights == choice.weights \ skipped
  IN  /\ weights # {}
      /\ IF choice.variant = "without_sp500" THEN EnsembleWithout(weights) ELSE EnsembleWeighted(weights)

PredNext ==
  \/ \E file \in Files : Train(file)
  \/ \E old \in SUBSET Shares : FeaturesOfNextDay(old)
  \/ \E weights \in Mixes : SelectsDefault(weights)
  \/ \E variant \in Variants, weights \in Mixes : SweepsRobustly(variant, weights)
  \/ \E models \in Skips : SkipTraining(models)
  \/ LgbPredict \/ XgbPredict \/ EnsembleDefault
  \/ \E variant \in Variants : LstmPredict(variant)
  \/ \E weights \in Mixes : EnsembleWeighted(weights)

PredSpec == PredInit /\ [][PredNext]_predVars

----------------------------------------------------------------------------
(* Properties *)

PredTypeOK ==
  /\ trained \subseteq Files /\ latest \in FeatureDays /\ seasoned \subseteq Shares
  /\ choice \in [variant : Variants, weights : SUBSET Models] /\ skipped \subseteq Models
  /\ lstmRows \subseteq [variant : Variants, share : Shares, date : FeatureDays]
  /\ \A x \in DOMAIN predictions : \A f \in DOMAIN predictions[x] : predictions[x][f] \in Value

\* find_buy_candidates(): the score that it ranks by is the ensemble's, or
\* else the predicted one, and the quintile that it filters by ranks the same
\* scores, whichever commands have written the row, in whatever order.
RankMatchesQuintile ==
  \A x \in DOMAIN predictions :
    LET row == predictions[x]
    IN  row.quintile = IF row.ens # Unset THEN row.ens ELSE row.score
=============================================================================
