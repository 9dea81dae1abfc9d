------------------------------ MODULE BarScan ------------------------------
(***************************************************************************)
(* The catch-up of daily bars, src/main.rs: cmd_scan, the planning below   *)
(* it (plan_bar_scan_ranges and what that calls), and the steps whose      *)
(* results it reads: cmd_universe and cmd_sp500.                           *)
(*                                                                         *)
(* A scan compares the dates that it expects with the bars and the fetch   *)
(* coverage of each symbol, and asks the provider for the ranges in which  *)
(* something is missing, wave by wave; a wave's bars and coverage are      *)
(* stored in one transaction.  The expected dates are those of a benchmark *)
(* series that FRED publishes, and for the dates before and after it those *)
(* of the local bars, or every weekday when there are none.                *)
(* Dates are the open market dates, numbered.                              *)
(***************************************************************************)
EXTENDS Integers, FiniteSets, FiniteSetsExt

CONSTANTS
  Tickers,
  Benchmarks, \* tickers that every scan has
  Since,      \* the first date of each ticker at the provider
  FredFirst,  \* the first date of the benchmark series
  Starts,     \* first dates that a scan may be asked for
  Gap,        \* missing dates no further apart are asked for together
  Wave,       \* tickers of a wave
  MaxDate,    \* bound on the dates
  MaxLate,    \* bound on the bars that the provider has only later
  MaxBroken   \* bound on the scans that fail

Dates == 1 .. MaxDate

ASSUME ScanAssumption ==
  /\ Benchmarks \subseteq Tickers
  /\ Since \in [Tickers -> Dates] /\ FredFirst \in Dates /\ Starts \subseteq Dates
  /\ {Gap, Wave, MaxDate} \subseteq Nat \ {0} /\ {MaxLate, MaxBroken} \subseteq Nat

VARIABLES
  today,    \* latest_completed_daily_bar_date()
  offered,  \* the bars that the provider has
  fred,     \* macro_series: the last date of the benchmark, 0 for none
  assets,   \* the other tickers that are tradable by the table assets
  bars,
  covered,  \* bar_sync_coverage: a ticker, and the range that was fetched
  scan,     \* the running scan: whether there is one, its tickers, the dates that
            \* it expects and the ranges that it has to ask for
  broken,
  had,      \* history: what the provider had when the scan began
  early     \* history: bars that a scan covered before the provider had them

scanVars == <<today, offered, fred, assets, bars, covered, scan, broken, had, early>>

Bars == {x \in Tickers \X Dates : x[2] >= Since[x[1]]}
Bound(d) == {x \in Bars : x[2] <= d}
NoScan == [on |-> FALSE, to |-> 0, tickers |-> {}, dates |-> {}, work |-> {}]

ScanInit ==
  /\ today = 1
  /\ offered = Bound(1)
  /\ fred = 0 /\ assets \in SUBSET (Tickers \ Benchmarks)
  /\ bars = {} /\ covered = {} /\ early = {}
  /\ scan = NoScan
  /\ broken = 0 /\ had = {}

----------------------------------------------------------------------------
(* The market, the provider and the other steps of the pipeline *)

\* The date, the benchmark and the assets are read when a scan begins: that
\* they change while one runs makes no difference to it, and is left out.

\* A market date is over; the provider has its bars, some of them later.
Closes ==
  /\ ~scan.on /\ today < MaxDate
  /\ today' = today + 1
  /\ \E late \in SUBSET {x \in Bars : x[2] = today'} :
       /\ Cardinality(Bound(today) \ offered) + Cardinality(late) <= MaxLate
       /\ offered' = (offered \cup {x \in Bars : x[2] = today'}) \ late
  /\ UNCHANGED <<fred, assets, bars, covered, scan, broken, had, early>>

Offers(x) ==
  /\ x \in Bound(today) \ offered
  /\ offered' = offered \cup {x}
  /\ UNCHANGED <<today, fred, assets, bars, covered, scan, broken, had, early>>

\* cmd_sp500() stores what FRED has published by now; when FRED cannot be
\* reached the local rows have to do.
BenchmarkSync(d) ==
  /\ ~scan.on /\ d \in FredFirst .. today /\ fred < d
  /\ fred' = d
  /\ UNCHANGED <<today, offered, assets, bars, covered, scan, broken, had, early>>

\* cmd_universe() replaces the assets.
UniverseSync(tradable) ==
  /\ ~scan.on /\ assets # tradable
  /\ assets' = tradable
  /\ UNCHANGED <<today, offered, fred, bars, covered, scan, broken, had, early>>

----------------------------------------------------------------------------
(* Planning *)

\* add_edge_bar_dates(): the dates of local bars, or every weekday.
EdgeDates(first, last) ==
  LET local == {d \in first .. last : \E x \in bars : x[2] = d}
  IN  IF local = {} THEN first .. last ELSE local

\* expected_bar_dates()
ExpectedDates(first, last) ==
  LET known == {d \in FredFirst .. fred : d \in first .. last}
  IN  IF known = {} THEN first .. last
      ELSE known \cup EdgeDates(first, Min(known) - 1) \cup EdgeDates(Max(known) + 1, last)

IsCovered(s, d) == \E c \in covered : c.ticker = s /\ d \in c.first .. c.last

MissingDates(s, dates) == {d \in dates : <<s, d>> \notin bars /\ ~IsCovered(s, d)}

\* Dates that have no earlier one near them.
Firsts(dates) == {d \in dates : ~\E e \in dates : e < d /\ d - e <= Gap}

Spans(dates, f) ==
  Max({d \in dates : d >= f /\ ~\E g \in Firsts(dates) : f < g /\ g <= d})

\* Mutant of Collapsed: the last range is not pushed.
CollapsedButLast(dates) ==
  {[first |-> f, last |-> Spans(dates, f)] : f \in {g \in Firsts(dates) : \E h \in Firsts(dates) : h > g}}

\* collapse_missing_dates()
Collapsed(dates) == {[first |-> f, last |-> Spans(dates, f)] : f \in Firsts(dates)}

\* plan_bar_scan_ranges(): the ranges, each with the tickers that miss it.
Plan(tickers, dates, from, force) ==
  LET of(s)  == IF force THEN {[first |-> from, last |-> today]}
                         ELSE Collapsed(MissingDates(s, dates))
      ranges == UNION {of(s) : s \in tickers}
  IN  {[range |-> r, tickers |-> {s \in tickers : r \in of(s)}] : r \in ranges}

----------------------------------------------------------------------------
(* cmd_scan() *)

ScanBegins(from, force) ==
  /\ ~scan.on /\ from <= today
  /\ LET tickers == assets \cup Benchmarks
         dates   == ExpectedDates(from, today)
     IN  /\ scan' = [on |-> TRUE, to |-> today, tickers |-> tickers, dates |-> dates,
                     work |-> Plan(tickers, dates, from, force)]
         /\ had' = {x \in offered : x[1] \in tickers /\ x[2] >= from}
  /\ UNCHANGED <<today, offered, fred, assets, bars, covered, broken, early>>

\* A wave: the bars that the provider has of some tickers of a range, and the
\* coverage of the range, whether or not there were any.
StoreWave(w, tickers) ==
  LET asked == tickers \X (w.range.first .. w.range.last)
      left  == (scan.work \ {w})
                 \cup (IF tickers = w.tickers THEN {} ELSE {[w EXCEPT !.tickers = @ \ tickers]})
  IN  /\ Cardinality(tickers) = IF Cardinality(w.tickers) < Wave THEN Cardinality(w.tickers) ELSE Wave
      /\ bars' = bars \cup (asked \cap offered)
      /\ covered' = covered \cup {[ticker |-> s, first |-> w.range.first, last |-> w.range.last] : s \in tickers}
      /\ early' = early \cup ((asked \cap Bars) \ offered)
      /\ scan' = [scan EXCEPT !.work = left]
      /\ UNCHANGED <<today, offered, fred, assets, broken, had>>

\* A batch gets no answer from any feed, or the process dies: the wave is
\* rolled back, the earlier ones stay.
ScanFails ==
  /\ scan.work # {} /\ broken < MaxBroken
  /\ broken' = broken + 1
  /\ scan' = NoScan /\ had' = {}
  /\ UNCHANGED <<today, offered, fred, assets, bars, covered, early>>

ScanEnded == scan.on /\ scan.work = {}

ScanEnds ==
  /\ ScanEnded
  /\ scan' = NoScan /\ had' = {}
  /\ UNCHANGED <<today, offered, fred, assets, bars, covered, broken, early>>

ScanNext ==
  \/ Closes
  \/ \E x \in Bars : Offers(x)
  \/ \E d \in Dates : BenchmarkSync(d)
  \/ \E tradable \in SUBSET (Tickers \ Benchmarks) : UniverseSync(tradable)
  \/ \E from \in Starts, force \in BOOLEAN : ScanBegins(from, force)
  \/ \E w \in scan.work : \E tickers \in SUBSET w.tickers : StoreWave(w, tickers)
  \/ ScanFails \/ ScanEnds

ScanSpec == ScanInit /\ [][ScanNext]_scanVars

----------------------------------------------------------------------------
(* Properties *)

ScanTypeOK ==
  /\ today \in Dates /\ fred \in {0} \cup (FredFirst .. today) /\ assets \subseteq Tickers
  /\ offered \subseteq Bars /\ bars \subseteq offered /\ had \subseteq offered /\ early \subseteq Bars
  /\ covered \subseteq [ticker : Tickers, first : Dates, last : Dates]
  /\ scan.tickers \subseteq Tickers /\ scan.dates \subseteq 1 .. scan.to /\ scan.to \in 0 .. today
  /\ broken \in 0 .. MaxBroken

\* A scan that ended well has, of each of its tickers and on each date that it
\* expected, the bar that the provider had when it began - whatever earlier
\* scans left off in the middle, whichever windows they had, and whenever the
\* ticker came into the universe.  The one exception are bars that a scan
\* asked for before the provider had them: those are covered for good.
ExpectedAreFetched ==
  ScanEnded =>
    \A s \in scan.tickers, d \in scan.dates :
      <<s, d>> \in had => <<s, d>> \in bars \cup early
=============================================================================
