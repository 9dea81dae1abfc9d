----------------------------- MODULE MlDatasets -----------------------------
(***************************************************************************)
(* The two tables that the models learn from, src/ml.rs: cmd_ml_labels     *)
(* with upsert_labels_for_dates, and cmd_ml_features with                  *)
(* compute_ranks_for_dates.                                                *)
(*                                                                         *)
(* Both are kept up incrementally, date by date: a run decides from the    *)
(* dates that the table has which dates to compute again.  Labels are      *)
(* written in one transaction; features batch by batch of symbols, each in *)
(* a transaction of its own, and their ranks in a last one.  A label and a *)
(* feature are known here by the bars that they are computed from.         *)
(*                                                                         *)
(* Neither job reads what the other writes: a behaviour follows one job.   *)
(***************************************************************************)
EXTENDS Integers, FiniteSets, FiniteSetsExt

CONSTANTS
  Stocks,
  Horizon,     \* of the labels that the pipeline asks for: 5 bars
  LongHorizon, \* the farthest label: 20 bars
  Recent,      \* dates that are labelled again: 20
  MinBars,     \* bars without which a symbol has no features: 61
  LastMarket,  \* bound on the market dates, for each job
  MaxMishaps   \* bound on bars that come after a later date and runs that end in the middle

Jobs == {"labels", "features"}
MarketDates == 1 .. Max({LastMarket[j] : j \in Jobs})

ASSUME DatasetsAssumption ==
  /\ {Horizon, LongHorizon, Recent, MinBars} \subseteq Nat \ {0}
  /\ LastMarket \in [Jobs -> Nat \ {0}]
  /\ Horizon <= LongHorizon /\ LongHorizon - Horizon < Recent
  /\ MaxMishaps \in Nat /\ IsFiniteSet(Stocks)

VARIABLES
  job,      \* "labels" or "features"
  priced,   \* bars: stocks and dates
  labels,   \* ml_labels: the bars of the nearest and the farthest label, 0 for none
  features, \* ml_features: stocks and dates
  ranked,   \* those of them that have ranks
  batch,    \* the running computation of features: its dates, the stocks left, and
            \* whether no bar came since it began
  backfill, \* history: the bars that came after a bar of a later date, or after a
            \* labelling that had bars of their own date
  sizes,    \* history: how many dates there were at the last labelling, the newest
            \* of them, and whether two labellings were ever too far apart
  passed,   \* history: features that could be computed only after their date had some
  partial   \* history: dates of the runs that ended in the middle, with their number,
            \* and of those for one stock alone

mlVars == <<job, priced, labels, features, ranked, batch, backfill, sizes, passed, partial>>

Cells == Stocks \X MarketDates
NoBatch == [on |-> FALSE, dates |-> {}, left |-> {}, stored |-> FALSE, current |-> FALSE]

MlInit ==
  /\ job \in Jobs
  /\ priced = {} /\ labels = [x \in {} |-> <<>>] /\ features = {} /\ ranked = {}
  /\ batch = NoBatch
  /\ backfill = {} /\ passed = {}
  /\ sizes = [last |-> 0, newest |-> 0, apart |-> FALSE]
  /\ partial = [n |-> 0, dates |-> {}]

----------------------------------------------------------------------------
(* The bars *)

DatesOf(cells) == {x[2] : x \in cells}

\* The dates of a set that have fewer than n others after them.
Newest(n, dates) == {d \in dates : Cardinality({e \in dates : e > d}) < n}

\* What compute_features_for_symbol() has a row for: not the first bar of a
\* stock, and nothing of a stock with too few.
Computable(bars) ==
  {x \in bars : /\ \E y \in bars : y[1] = x[1] /\ y[2] < x[2]
                /\ Cardinality({y \in bars : y[1] = x[1]}) >= MinBars}

\* A scan stores bars of one date, the newest as a rule.
BarsCome(d, stocks) ==
  LET new   == (stocks \X {d}) \ priced
      later == d <= sizes.newest \/ {x \in priced : x[2] > d} # {}
      all   == priced \cup new
  IN  /\ new # {} /\ d <= LastMarket[job]
      /\ later => Cardinality(backfill) + Cardinality(new) + partial.n <= MaxMishaps
      /\ priced' = all
      /\ backfill' = IF later THEN backfill \cup new ELSE backfill
      /\ passed' = passed \cup {x \in Computable(all) \ Computable(priced) :
                                  x[2] \in DatesOf(features) \cup batch.dates}
      /\ batch' = [batch EXCEPT !.current = FALSE]
      /\ UNCHANGED <<job, labels, features, ranked, sizes, partial>>

----------------------------------------------------------------------------
(* Labels *)

\* The stock's own n-th bar after a date.
DateAfter(x, n) ==
  LET after == {y \in priced : y[1] = x[1] /\ y[2] > x[2]}
      nth   == {y \in after : Cardinality({z \in after : z[2] < y[2]}) = n - 1}
  IN  IF nth = {} THEN 0 ELSE Min(DatesOf(nth))

\* Mutant of RecentLength: only as many dates as the horizon has.
RecentLengthOfHorizon(h) == h

RecentLength(h) == Max({Recent, h})

\* The dates that cmd_ml_labels() computes.
LabelDates(h) ==
  LET all      == DatesOf(priced)
      eligible == all \ Newest(h, all)
  IN  (eligible \ DatesOf(DOMAIN labels)) \cup Newest(RecentLength(h), eligible)

\* cmd_ml_labels(), of the pipeline or of the command line.
Label(h) ==
  LET all == DatesOf(priced)
      new == {x \in priced : x[2] \in LabelDates(h)}
  IN  /\ job = "labels" /\ all # {}
      /\ labels' = [x \in DOMAIN labels \cup new |->
                      IF x \in new THEN [short |-> DateAfter(x, Horizon), long |-> DateAfter(x, LongHorizon)]
                                   ELSE labels[x]]
      /\ sizes' = [last   |-> Cardinality(all), newest |-> Max(all),
                   apart  |-> sizes.apart \/ (sizes.last > 0
                                  /\ Cardinality(all) - sizes.last > Recent - (LongHorizon - Horizon))]
      /\ UNCHANGED <<job, priced, features, ranked, batch, backfill, passed, partial>>

----------------------------------------------------------------------------
(* Features *)

\* Mutant of FeatureDates: the dates after the last one that has features.
FeatureDatesAfter ==
  {d \in DatesOf(priced) : \A e \in DatesOf(features) : d >= e} \ {Min(DatesOf(priced))}

\* The dates of an incremental run: those without any features, the first
\* date excepted, the newest one, and the newest one that has features.
FeatureDates ==
  LET all  == DatesOf(priced)
      have == DatesOf(features)
  IN  ((all \ {Min(all)}) \ have)
        \cup (IF Cardinality(all) > 1 THEN {Max(all)} ELSE {})
        \cup (IF have = {} THEN {} ELSE {Max(have)})

\* cmd_ml_features(), as the pipeline calls it, with --force or for one stock.
FeaturesBegin(stocks, all) ==
  /\ job = "features" /\ ~batch.on /\ priced # {}
  /\ stocks # {x[1] : x \in priced} => all
  /\ stocks \subseteq {x[1] : x \in priced}
  /\ LET dates == IF all THEN DatesOf(priced) ELSE FeatureDates
     IN  /\ dates # {}
         /\ batch' = [on |-> TRUE, dates |-> dates, left |-> stocks, stored |-> FALSE,
                      current |-> TRUE]
         /\ partial' = IF stocks = {x[1] : x \in priced} THEN partial
                       ELSE [partial EXCEPT !.dates = @ \cup dates]
  /\ UNCHANGED <<job, priced, labels, features, ranked, backfill, sizes, passed>>

\* A batch of symbols: INSERT OR REPLACE, the ranks NULL.
StoreBatch(s) ==
  LET new == {x \in Computable(priced) : x[1] = s /\ x[2] \in batch.dates}
  IN  /\ batch.on /\ s \in batch.left
      /\ features' = features \cup new
      /\ ranked' = ranked \ new
      /\ batch' = [batch EXCEPT !.left = @ \ {s}, !.stored = @ \/ new # {}]
      /\ UNCHANGED <<job, priced, labels, backfill, sizes, passed, partial>>

\* compute_ranks_for_dates(), when any row was stored.
Rank ==
  /\ batch.on /\ batch.left = {}
  /\ ranked' = IF batch.stored THEN ranked \cup {x \in features : x[2] \in batch.dates} ELSE ranked
  /\ batch' = [NoBatch EXCEPT !.current = batch.current]
  /\ UNCHANGED <<job, priced, labels, features, backfill, sizes, passed, partial>>

\* The process dies, or a batch fails: what was committed stays.
Tears ==
  /\ batch.on /\ partial.n + Cardinality(backfill) < MaxMishaps
  /\ partial' = [n |-> partial.n + 1, dates |-> partial.dates \cup batch.dates]
  /\ batch' = NoBatch
  /\ UNCHANGED <<job, priced, labels, features, ranked, backfill, sizes, passed>>

MlNext ==
  \/ \E d \in MarketDates, stocks \in SUBSET Stocks : BarsCome(d, stocks)
  \/ \E h \in {Horizon, LongHorizon} : Label(h)
  \/ \E stocks \in SUBSET Stocks, all \in BOOLEAN : FeaturesBegin(stocks, all)
  \/ \E s \in Stocks : StoreBatch(s)
  \/ Rank \/ Tears

MlSpec == MlInit /\ [][MlNext]_mlVars

----------------------------------------------------------------------------
(* Properties *)

MlTypeOK ==
  /\ job \in Jobs
  /\ priced \subseteq Cells /\ backfill \subseteq priced
  /\ DOMAIN labels \subseteq priced
  /\ \A x \in DOMAIN labels : labels[x] \in [short : {0} \cup MarketDates, long : {0} \cup MarketDates]
  /\ features \subseteq Computable(priced) /\ ranked \subseteq features /\ passed \subseteq priced
  /\ batch.dates \subseteq DatesOf(priced) /\ batch.left \subseteq Stocks
  /\ partial.n \in 0 .. MaxMishaps

\* As long as two labellings are never further apart than the dates that are
\* labelled again reach beyond the nearest horizon, the farthest label of a
\* stock that has its bars in time is set, and to the right bar, by the first
\* labelling that can know it: the label was NULL when its date was first
\* labelled, and the date is existing since.
LongLabelsInReach ==
  job = "labels" /\ ~sizes.apart =>
    \A x \in priced :
      LET span == {x[1]} \X (x[2] .. x[2] + LongHorizon)
      IN  span \subseteq priced \ backfill /\ x[2] + LongHorizon <= sizes.newest =>
            x \in DOMAIN labels /\ labels[x].long = x[2] + LongHorizon

\* After a run every row of features that can be computed has been, and has
\* its ranks - even of dates that were filled in behind later ones - but
\* for the dates of a run that ended in the middle or was for one stock, and
\* for rows that could not be computed yet when their date got its first
\* features.
FeaturesAreComplete ==
  ~batch.on /\ batch.current =>
    \A x \in Computable(priced) : x \in ranked \cup passed \/ x[2] \in partial.dates

\* Incremental runs leave no row behind that a full run would have (ml.rs,
\* cmd_ml_label and cmd_ml_features).
RowsAreInTime == LongLabelsInReach /\ FeaturesAreComplete
=============================================================================
