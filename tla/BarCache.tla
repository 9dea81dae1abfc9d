------------------------------- MODULE BarCache -------------------------------
(* The cache of market bars (src/main.rs): `market bars` for the charts and    *)
(* `market warm-bars` for the daemon.  A window of bars is answered from the   *)
(* cache when its newest row is fresh, and by the provider otherwise, whose    *)
(* bars replace the rows; with no bars from the provider, whatever is cached   *)
(* answers.  Commands are processes of their own: another one may ask and      *)
(* store between any two of their statements and requests.                     *)
(* A bar is its time, and its row the moment at which the provider gave it:    *)
(* the bar of the current time is still moving, an earlier one is final.       *)
EXTENDS Integers, Sequences, FiniteSets, FiniteSetsExt

CONSTANTS
  Charted,       \* symbols
  ChartCommands, \* commands: [verb, symbols, timeframe, from, to, limit]
  WarmSpecs,     \* timeframes of the dashboard: sequence of [timeframe, back, limit, fresh]
  Interval,      \* daemon.dashboard_bar_cache_interval_seconds
  MostSymbols,   \* symbols in a `market bars`
  MostBars,      \* bars in a `market bars`
  Feeds,         \* number of data feeds, asked one after the other
  Charts,        \* processes; the first free one takes a command
  MaxCharts,     \* bound on the commands
  MaxTroubles,   \* bound on statements that fail and on processes killed
  LastMoment     \* bound on the clock

ASSUME ChartAssumption ==
  /\ {Interval, MostSymbols, MostBars, Feeds, MaxCharts, MaxTroubles, LastMoment} \subseteq Nat
  /\ Feeds > 0 /\ Charts \subseteq Nat
  /\ \A c \in ChartCommands :
       /\ c.verb \in {"bars", "warm"} /\ c.symbols \in Seq(Charted)
       /\ c.from \in Int /\ c.to \in Int /\ c.limit \in Nat
  /\ WarmSpecs \in Seq([timeframe : STRING, back : Nat, limit : Nat, fresh : Nat])

VARIABLES
  moment,   \* the clock
  chartRows,  \* symbol -> timeframe -> time of a bar -> row
  chart,    \* each process: where its command stands
  commands, \* commands so far
  troubles  \* statements that failed and processes killed so far

chartVars == <<moment, chartRows, chart, commands, troubles>>

Moments == 0 .. LastMoment
Timeframes ==
  {c.timeframe : c \in ChartCommands} \cup {WarmSpecs[k].timeframe : k \in DOMAIN WarmSpecs}

\* A row: the moment of the provider's answer, fetched_at, the newest answer that any
\* row of this bar was of (history), and the bars of the fetch that stored it (history).
NoBar == [asOf |-> 0, fetchedAt |-> 0, newest |-> 0, with |-> {}]
IsBar(row) == row.with # {}

NoChart ==
  [at |-> "rest", asks |-> <<>>, verb |-> "bars", feed |-> 0, failed |-> FALSE, bars |-> {},
   asOf |-> 0, trusted |-> {}, answer |-> [t \in {} |-> NoBar], source |-> "provider"]

ChartInit ==
  /\ moment = 0
  /\ chartRows = [s \in Charted |-> [f \in Timeframes |-> [t \in Moments |-> NoBar]]]
  /\ chart = [p \in Charts |-> NoChart]
  /\ commands = 0 /\ troubles = 0

TimePasses ==
  /\ moment < LastMoment /\ moment' = moment + 1
  /\ UNCHANGED <<chartRows, chart, commands, troubles>>

ChartMoves(p, c) == chart' = [chart EXCEPT ![p] = c]

-----------------------------------------------------------------------------
(* cmd_bars(), cmd_market_warm_bars()                                       *)

\* The window of a timeframe that the dashboard shows, up to the newest daily bar.
WarmAsk(spec, symbol, anchor) ==
  [symbol |-> symbol, timeframe |-> spec.timeframe, from |-> anchor - spec.back, to |-> anchor,
   limit |-> spec.limit, fresh |-> Max({Interval, spec.fresh})]

\* What a command asks, in its order: timeframe by timeframe, or symbol by symbol.
AsksOf(c) ==
  LET n == Len(c.symbols)
  IN  IF c.verb = "warm"
      THEN [k \in 1 .. n * Len(WarmSpecs) |->
             WarmAsk(WarmSpecs[((k - 1) \div n) + 1], c.symbols[((k - 1) % n) + 1], c.to)]
      ELSE [k \in 1 .. n |->
             [symbol |-> c.symbols[k], timeframe |-> c.timeframe, from |-> c.from,
              to |-> c.to, limit |-> c.limit, fresh |-> Interval]]

\* Refused before anything is read: more symbols or bars than one command may ask for.
IsTooMuch(c) ==
  c.verb = "bars" /\ (Len(c.symbols) > MostSymbols \/ Len(c.symbols) * c.limit > MostBars)

\* Without symbols there is nothing to ask: an error of `market bars`, nothing to warm.
ChartStarts(p, c) ==
  /\ commands < MaxCharts /\ p = Min({q \in Charts : chart[q].at = "rest"} \cup {Max(Charts) + 1})
  /\ commands' = commands + 1
  /\ IF IsTooMuch(c) \/ AsksOf(c) = << >> THEN UNCHANGED chart
     ELSE ChartMoves(p, [NoChart EXCEPT !.at = "checks", !.asks = AsksOf(c), !.verb = c.verb])
  /\ UNCHANGED <<moment, chartRows, troubles>>

Answered(c, answer, source) ==
  [NoChart EXCEPT !.at = "answered", !.asks = c.asks, !.verb = c.verb, !.trusted = c.trusted,
                  !.answer = answer, !.source = source]

\* The next question, or the end of the command.
AfterAsk(c) ==
  IF Len(c.asks) = 1 THEN NoChart
  ELSE [NoChart EXCEPT !.at = "checks", !.asks = Tail(c.asks), !.verb = c.verb]

NextChart(p) ==
  /\ chart[p].at = "answered"
  /\ ChartMoves(p, AfterAsk(chart[p]))
  /\ UNCHANGED <<moment, chartRows, commands, troubles>>

\* An error ends `market bars` with all its symbols; `warm-bars` notes it and goes on.
ChartFails(p) ==
  /\ chart[p].at \in {"checks", "loads", "stores", "falls back"}
  /\ troubles < MaxTroubles /\ troubles' = troubles + 1
  /\ ChartMoves(p, IF chart[p].verb = "warm" THEN AfterAsk(chart[p]) ELSE NoChart)
  /\ UNCHANGED <<moment, chartRows, commands>>

\* The process is killed.
ChartKilled(p) ==
  /\ chart[p].at # "rest"
  /\ troubles < MaxTroubles /\ troubles' = troubles + 1
  /\ ChartMoves(p, NoChart)
  /\ UNCHANGED <<moment, chartRows, commands>>

-----------------------------------------------------------------------------
(* fetch_market_bars_with_cache()                                           *)

RowsOf(ask) == chartRows[ask.symbol][ask.timeframe]

\* Times of the rows in a window.
RowsIn(ask) == {t \in ask.from .. ask.to : t \in Moments /\ IsBar(RowsOf(ask)[t])}

\* The last of the times, at most as many as the limit.
LastOf(times, limit) == {t \in times : Cardinality({u \in times : u > t}) < limit}

\* latest_market_bar_cache_fetch(): the rows of a window that were fetched last.
NewestIn(ask) ==
  LET rows == {RowsOf(ask)[t] : t \in RowsIn(ask)}
  IN  {r \in rows : \A o \in rows : o.fetchedAt <= r.fetchedAt}

ChartChecks(p) ==
  /\ chart[p].at = "checks"
  /\ LET ask == Head(chart[p].asks)
         fresh == {r \in NewestIn(ask) : moment - r.fetchedAt <= ask.fresh}
     IN  ChartMoves(p, IF fresh = {} THEN [chart[p] EXCEPT !.at = "asks", !.feed = 1]
                  ELSE [chart[p] EXCEPT !.at = "loads", !.trusted = fresh])
  /\ UNCHANGED <<moment, chartRows, commands, troubles>>

\* Mutant of FromCache: the first rows of the window instead of the last.
FirstFromCache(ask) ==
  LET Before(t) == Cardinality({u \in RowsIn(ask) : u < t})
  IN  [t \in {t \in RowsIn(ask) : Before(t) < ask.limit} |-> RowsOf(ask)[t]]

\* load_market_bar_cache()
FromCache(ask) == [t \in LastOf(RowsIn(ask), ask.limit) |-> RowsOf(ask)[t]]

LoadsChart(p) ==
  /\ chart[p].at = "loads"
  /\ LET answer == FromCache(Head(chart[p].asks))
     IN  ChartMoves(p, IF DOMAIN answer = {} THEN [chart[p] EXCEPT !.at = "asks", !.feed = 1]
                  ELSE Answered(chart[p], answer, "cache_fresh"))
  /\ UNCHANGED <<moment, chartRows, commands, troubles>>

\* The provider's last bars of a window, so far.
Given(ask, now) == LastOf(ask.from .. Min({ask.to, now}), ask.limit) \cap Moments

\* A feed answers, or fails, and the next one is asked if it gave no bars; after the last
\* one the pair of the symbol's name is asked for, if any feed has failed.
FeedGives(p, fails) ==
  /\ chart[p].at = "asks" /\ chart[p].feed <= Feeds
  /\ LET c == chart[p]
         bars == IF fails THEN {} ELSE Given(Head(c.asks), moment)
         failed == c.failed \/ fails
     IN  ChartMoves(p,
           IF bars # {} THEN [c EXCEPT !.at = "stores", !.bars = bars, !.asOf = moment]
           ELSE IF c.feed = Feeds /\ ~failed THEN [c EXCEPT !.at = "falls back"]
           ELSE [c EXCEPT !.feed = @ + 1, !.failed = failed])
  /\ UNCHANGED <<moment, chartRows, commands, troubles>>

\* The crypto endpoint: the bars of a pair, or none of a stock and on an error.
PairGives(p, bars) ==
  /\ chart[p].at = "asks" /\ chart[p].feed > Feeds
  /\ bars \in {{}, Given(Head(chart[p].asks), moment)}
  /\ ChartMoves(p, IF bars = {} THEN [chart[p] EXCEPT !.at = "falls back"]
              ELSE [chart[p] EXCEPT !.at = "stores", !.bars = bars, !.asOf = moment])
  /\ UNCHANGED <<moment, chartRows, commands, troubles>>

\* store_market_bar_cache(): one transaction replaces the rows of all bars.
StoresChart(p) ==
  /\ chart[p].at = "stores"
  /\ LET c == chart[p]
         ask == Head(c.asks)
         Stored(row) == [asOf |-> c.asOf, fetchedAt |-> moment,
                         newest |-> Max({row.newest, c.asOf}), with |-> c.bars]
     IN  /\ chartRows' = [chartRows EXCEPT ![ask.symbol][ask.timeframe] =
                         [t \in Moments |-> IF t \in c.bars THEN Stored(@[t]) ELSE @[t]]]
         /\ ChartMoves(p, Answered(c, [t \in {} |-> NoBar], "provider"))
  /\ UNCHANGED <<moment, commands, troubles>>

\* No bars from anyone: the rows of the window, of whatever age.
FallsBack(p) ==
  /\ chart[p].at = "falls back"
  /\ LET answer == FromCache(Head(chart[p].asks))
         source == IF DOMAIN answer = {} THEN "provider" ELSE "cache"
     IN  ChartMoves(p, Answered(chart[p], answer, source))
  /\ UNCHANGED <<moment, chartRows, commands, troubles>>

ChartNext ==
  \/ TimePasses
  \/ \E p \in Charts :
       \/ \E c \in ChartCommands : ChartStarts(p, c)
       \/ NextChart(p) \/ ChartFails(p) \/ ChartKilled(p)
       \/ ChartChecks(p) \/ LoadsChart(p) \/ StoresChart(p) \/ FallsBack(p)
       \/ \E fails \in BOOLEAN : FeedGives(p, fails)
       \/ \E bars \in SUBSET Moments : PairGives(p, bars)

ChartSpec == ChartInit /\ [][ChartNext]_chartVars

-----------------------------------------------------------------------------
ChartTypeOK ==
  /\ \A s \in Charted, f \in Timeframes, t \in Moments :
       LET row == chartRows[s][f][t]
       IN  IsBar(row) => t \in row.with /\ t <= row.asOf /\ row.asOf <= row.fetchedAt
  /\ \A p \in Charts :
       /\ chart[p].at \in {"rest", "checks", "loads", "asks", "stores", "falls back", "answered"}
       /\ chart[p].feed \in 0 .. Feeds + 1 /\ chart[p].bars \subseteq Moments

\* What an answer owes to a fetch that asked for all of its window: every bar that the
\* provider had then, if the limit leaves it room, and as it was then or later.  Only the
\* answer of an overlapping fetch, given earlier and stored later, takes a bar back.
Owes(answer, ask, fetch) ==
  Given(ask, fetch.asOf) \subseteq fetch.with =>
    \A t \in Given(ask, fetch.asOf) :
      IF t \in DOMAIN answer
      THEN answer[t].asOf >= fetch.asOf \/ answer[t].asOf < answer[t].newest
      ELSE Cardinality({u \in DOMAIN answer : u > t}) = ask.limit

\* An answer from the cache, with the provider not asked (src/main.rs:6499), rests on rows
\* of its own window that were fresh when they were checked; and if the fetch that stored
\* them asked for all of the window, the answer is complete and current as of that fetch,
\* whatever other commands store meanwhile, in whatever order, window and limit.
ChartsAreCurrent ==
  \A p \in Charts : LET c == chart[p] IN
    c.at = "answered" /\ c.source = "cache_fresh" =>
      /\ \E t \in RowsIn(Head(c.asks)) :
           \E r \in c.trusted : RowsOf(Head(c.asks))[t].fetchedAt >= r.fetchedAt
      /\ \A fetch \in c.trusted : Owes(c.answer, Head(c.asks), fetch)
=============================================================================
