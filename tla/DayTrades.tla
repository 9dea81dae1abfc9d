----------------------------- MODULE DayTrades -----------------------------
(***************************************************************************)
(* The day-trade guard of one account: src/auto.rs (pdt_day_trades_count,  *)
(* record_day_trade, latest_provider_sell_exit and the check before an     *)
(* exit) and cmd_sell of src/main.rs.                                      *)
(*                                                                         *)
(* A same-day exit is refused when the table day_trades has enough rows of *)
(* the last days.  A sale gets its row only when a later cycle finds       *)
(* shares gone, at the day of the latest sale since the entry that the     *)
(* sync of that cycle knew; but the sync is some requests older than the   *)
(* positions.  Buys fill at once, and a cycle is over within its day.      *)
(***************************************************************************)
EXTENDS Integers, FiniteSets, FiniteSetsExt, Sequences, SequencesExt

CONSTANTS
  Symbols,
  Limit,   \* rows that make the cycle refuse a same-day exit
  Back,    \* calendar days that the cycle looks back
  BuyLot,  \* shares of a buy
  LastSession,  \* bound on the clock
  MaxBought,  \* bound on the shares bought
  MaxRows  \* bound on the rows of day_trades when the command line adds one

ASSUME DayTradesAssumption ==
  /\ Limit \in Nat \ {0} /\ Back \in Nat /\ LastSession \in Nat /\ MaxRows \in Nat
  /\ BuyLot \in Nat \ {0} /\ MaxBought \in Nat
  /\ IsFiniteSet(Symbols)

VARIABLES
  session,
  round,    \* of the cycle: where it is, how many sales of a symbol were before its
            \* beginning and in the history when it was synchronized
  held,     \* the shares at the broker
  live,     \* what is left of a symbol's live exit
  sales,    \* the days of the sales of a symbol, in their order
  shareRow, \* the open rows of auto_positions; sales after the first `entry` are since it
  buys,     \* the buys of auto_trades: symbols and days
  counted,  \* day_trades: the number of rows of a symbol and day
  trips,    \* history: the same-day round trips of the cycle at the broker
  overlooked  \* history: those that no reconciliation can see as the latest known sale

dayVars == <<session, round, held, live, sales, shareRow, buys, counted, trips, overlooked>>

Days == 0 .. LastSession
NoSales == [s \in Symbols |-> 0]
NoRow == [open |-> FALSE, shares |-> 0, entry |-> 0]
Rest == [at |-> "rest", since |-> NoSales, known |-> NoSales]

DayInit ==
  /\ session = 0 /\ round = Rest
  /\ held = NoSales /\ live = NoSales
  /\ sales = [s \in Symbols |-> <<>>]
  /\ shareRow = [s \in Symbols |-> NoRow]
  /\ buys = {} /\ trips = {} /\ overlooked = {}
  /\ counted = [x \in Symbols \X Days |-> 0]

----------------------------------------------------------------------------

\* The open row counts shares that the broker has no more.
Missing(s) == shareRow[s].open /\ held[s] < shareRow[s].shares

\* latest_provider_sell_exit(): the history has a sale since the row's entry.
ExitKnown(s) == round.known[s] > shareRow[s].entry

\* Mutant of TradeDay: the row gets the day of the cycle that closes it.
TradeDayNow(s) == session

\* record_day_trade() is called with the time of the latest known sale.
TradeDay(s) == sales[s][round.known[s]]

\* record_day_trade(): a row when the symbol was bought by the cycle that day.
Recorded ==
  [x \in Symbols \X Days |->
     IF Missing(x[1]) /\ ExitKnown(x[1]) /\ x \in buys /\ TradeDay(x[1]) = x[2]
     THEN counted[x] + 1
     ELSE counted[x]]

RowsSince(d) == FoldSet(LAMBDA x, n : n + counted[x], 0, {x \in Symbols \X Days : x[2] >= d})

\* pdt_day_trades_count()
Count == RowsSince(session - Back)

\* The check of an exit.
Refused(s) == Count >= Limit /\ <<s, session>> \in buys

----------------------------------------------------------------------------

NextDate ==
  /\ session < LastSession /\ round.at = "rest"
  /\ session' = session + 1
  /\ UNCHANGED <<round, held, live, sales, shareRow, buys, counted, trips, overlooked>>

\* run_auto_cycle() takes the time that its buys will have as their entry.
Begins ==
  /\ round.at = "rest"
  /\ round' = [round EXCEPT !.at = "sync", !.since = [s \in Symbols |-> Len(sales[s])]]
  /\ UNCHANGED <<session, held, live, sales, shareRow, buys, counted, trips, overlooked>>

\* The history is synchronized before the positions are read; a failure ends the
\* cycle.  Later syncs of the cycle serve no reconciliation.
Syncs ==
  /\ round.at = "sync"
  /\ round' \in {[round EXCEPT !.at = "load", !.known = [s \in Symbols |-> Len(sales[s])]], Rest}
  /\ UNCHANGED <<session, held, live, sales, shareRow, buys, counted, trips, overlooked>>

\* The answer to GET /positions and the repair of the open rows by it: one without
\* shares is closed, one with fewer is cut, whether or not their sale is known.
Reconciles ==
  /\ round.at = "load" /\ round' = [round EXCEPT !.at = "exits"]
  /\ counted' = Recorded
  /\ shareRow' = [s \in Symbols |->
       IF shareRow[s].open /\ held[s] > 0 THEN [shareRow[s] EXCEPT !.shares = held[s]] ELSE NoRow]
  /\ overlooked' = overlooked \cup
       {<<s, Last(sales[s])>> : s \in {r \in Symbols : Missing(r) /\ round.known[r] < Len(sales[r])}}
  /\ UNCHANGED <<session, held, live, sales, buys, trips>>

GoesOn ==
  /\ round.at \in {"exits", "buys"}
  /\ round' = IF round.at = "exits" THEN [round EXCEPT !.at = "buys"] ELSE Rest
  /\ UNCHANGED <<session, held, live, sales, shareRow, buys, counted, trips, overlooked>>

\* A buy, filled at once, with its row in auto_trades and in auto_positions.
DayBuys(s) ==
  /\ round.at = "buys" /\ ~shareRow[s].open
  /\ BuyLot + MapThenSumSet(LAMBDA r : held[r] + Len(sales[r]), Symbols) <= MaxBought
  /\ held' = [held EXCEPT ![s] = @ + BuyLot]
  /\ shareRow' = [shareRow EXCEPT ![s] = [open |-> TRUE, shares |-> BuyLot, entry |-> round.since[s]]]
  /\ buys' = buys \cup {<<s, session>>}
  /\ UNCHANGED <<session, round, live, sales, counted, trips, overlooked>>

\* An exit rule calls for the sale of the row's shares.
Exits(s) ==
  /\ round.at = "exits" /\ shareRow[s].open /\ live[s] = 0 /\ ~Refused(s)
  /\ shareRow[s].shares <= held[s]
  /\ live' = [live EXCEPT ![s] = shareRow[s].shares]
  /\ UNCHANGED <<session, round, held, sales, shareRow, buys, counted, trips, overlooked>>

\* A share is sold.  A sale before, of an earlier day, that no cycle has found yet
\* will not be the latest any more.
Sold(s) ==
  /\ held[s] > 0
  /\ held' = [held EXCEPT ![s] = @ - 1]
  /\ sales' = [sales EXCEPT ![s] = Append(@, session)]
  /\ trips' = trips \cup (buys \cap {<<s, session>>})
  /\ overlooked' = IF Missing(s) /\ Last(sales[s]) # session
                   THEN overlooked \cup {<<s, Last(sales[s])>>}
                   ELSE overlooked
  /\ UNCHANGED <<session, round, shareRow, buys, counted>>

\* The broker fills the exit, share by share, within its cycle or later.
FillsExit(s) ==
  /\ live[s] > 0
  /\ Sold(s)
  /\ live' = [live EXCEPT ![s] = @ - 1]

\* The owner sells a share, at the broker or by the order of cmd_sell().
OwnerSellsOne(s) == held[s] > live[s] /\ Sold(s) /\ UNCHANGED live

Cancelled(s) ==
  /\ live[s] > 0
  /\ live' = [live EXCEPT ![s] = 0]
  /\ UNCHANGED <<session, round, held, sales, shareRow, buys, counted, trips, overlooked>>

\* cmd_sell() warns about the limit, and writes a row with its order, whether or
\* not the shares were bought that day.
CliSell(s) ==
  /\ RowsSince(0) < MaxRows
  /\ counted' = [counted EXCEPT ![<<s, session>>] = @ + 1]
  /\ UNCHANGED <<session, round, held, live, sales, shareRow, buys, trips, overlooked>>

DayNext ==
  \/ NextDate \/ Begins \/ Syncs \/ Reconciles \/ GoesOn
  \/ \E s \in Symbols : DayBuys(s) \/ Exits(s) \/ FillsExit(s) \/ OwnerSellsOne(s) \/ Cancelled(s)
                        \/ CliSell(s)

DaySpec == DayInit /\ [][DayNext]_dayVars

----------------------------------------------------------------------------
(* Properties *)

DayTypeOK ==
  /\ session \in Days
  /\ round \in [at : {"rest", "sync", "load", "exits", "buys"},
                since : [Symbols -> Nat], known : [Symbols -> Nat]]
  /\ held \in [Symbols -> Nat] /\ live \in [Symbols -> Nat]
  /\ sales \in [Symbols -> Seq(Days)]
  /\ shareRow \in [Symbols -> [open : BOOLEAN, shares : Nat, entry : Nat]]
  /\ buys \subseteq Symbols \X Days /\ trips \subseteq buys /\ overlooked \subseteq Symbols \X Days
  /\ counted \in [Symbols \X Days -> Nat]

\* A round trip of the cycle is in day_trades under the day of its sale as soon as
\* its row is closed or cut, on whichever later day that happens: the count that the
\* guard reads misses no trade but those that the books still have open, and the
\* overlooked.  The code misses these for good: record_day_trade() is called for the
\* latest known sale only, so that one which fills between the sync of the history
\* and GET /positions is not counted when its row is closed, nor one followed by the
\* sale of another part on a later day before any cycle has found it.
TripsAreCounted ==
  \A x \in trips : \/ counted[x] > 0
                   \/ x \in overlooked
                   \/ Missing(x[1]) /\ Last(sales[x[1]]) = x[2]
=============================================================================
