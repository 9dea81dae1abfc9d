--------------------------- MODULE Records_proofs ---------------------------
(* Proofs about the records that trading and taxes rest on, for any number  *)
(* of symbols, prices, records and months.                                  *)
EXTENDS TaxYear, DayTrades, ExitConfirmation, ProviderSync, WashSales, ShareMatching, SequenceTheorems,
        FiniteSetTheorems, DataLemmas

-----------------------------------------------------------------------------
(* The closing of a year's months (TaxYear)                                 *)

\* One class of trades: types, and losses offset once (Adjusted and RunOn).
ClassOK(year, run) ==
  /\ year \in [taxable : Nat, carry : Nat]
  /\ run \in [sum : Int, high : Nat]
  /\ OffsetsOnce(year, run)

\* What one month's net does to a class keeps the taxable amount at the highest of
\* the running sum, and the carry at what is missing to it.
LEMMA MonthKeepsClass ==
  ASSUME NEW year, NEW run, NEW net \in Int, ClassOK(year, run)
  PROVE  ClassOK(Adjusted(year, net), RunOn(run, net))
<1> DEFINE rest == net - year.carry
<1>1. /\ year.taxable \in Nat /\ year.carry \in Nat
      /\ run.sum \in Int /\ run.high \in Nat
      /\ year.taxable = run.high
      /\ year.carry = run.high - run.sum
  BY DEF ClassOK, OffsetsOnce
<1>2. rest \in Int /\ rest = run.sum + net - run.high
  BY <1>1
<1>3. CASE rest > 0
  <2>1. Adjusted(year, net) = [taxable |-> year.taxable + rest, carry |-> 0]
    BY <1>3 DEF Adjusted
  <2>2. RunOn(run, net) = [sum |-> run.sum + net, high |-> run.sum + net]
    BY <1>1, <1>2, <1>3 DEF RunOn
  <2>3. year.taxable + rest \in Nat /\ run.sum + net \in Nat
    BY <1>1, <1>2, <1>3
  <2> QED BY <2>1, <2>2, <2>3, <1>1, <1>2 DEF ClassOK, OffsetsOnce
<1>4. CASE ~(rest > 0)
  <2>1. Adjusted(year, net) = [taxable |-> year.taxable, carry |-> -rest]
    BY <1>4 DEF Adjusted
  <2>2. RunOn(run, net) = [sum |-> run.sum + net, high |-> run.high]
    BY <1>1, <1>2, <1>4 DEF RunOn
  <2>3. -rest \in Nat /\ run.sum + net \in Int
    BY <1>1, <1>2, <1>4
  <2> QED BY <2>1, <2>2, <2>3, <1>1, <1>2 DEF ClassOK, OffsetsOnce
<1> QED BY <1>3, <1>4

\* Both classes, and the months closed.
YearInv ==
  /\ closed \in 0..Months
  /\ ClassOK(normalYear, normalRun)
  /\ ClassOK(dayYear, dayRun)

\* YearInv is an inductive invariant of the loop over the months
\* (tax.rs, brazil_tax_computation).
THEOREM YearInvariant == TaxSpec => []YearInv
<1> USE TaxAssumption
<1>1. TaxInit => YearInv
  BY DEF TaxInit, YearInv, ClassOK, OffsetsOnce, NothingYet, NoRun
<1>2. YearInv /\ [TaxNext]_taxVars => YearInv'
  <2> SUFFICES ASSUME YearInv, [TaxNext]_taxVars
               PROVE  YearInv'
    OBVIOUS
  <2>1. ASSUME NEW bucket \in Buckets, MonthCloses(bucket)
        PROVE  YearInv'
    <3>1. bucket.normal \in Int /\ bucket.dayTrades \in Int
      OBVIOUS
    <3>2. ClassOK(dayYear', dayRun')
      BY <2>1, <3>1, MonthKeepsClass DEF MonthCloses, YearInv
    <3>3. ClassOK(normalYear', normalRun')
      BY <2>1, <3>1, MonthKeepsClass DEF MonthCloses, YearInv
    <3>4. closed' \in 0..Months
      BY <2>1 DEF MonthCloses, YearInv
    <3> QED BY <3>2, <3>3, <3>4 DEF YearInv, ClassOK, OffsetsOnce
  <2>2. CASE UNCHANGED taxVars
    BY <2>2 DEF taxVars, YearInv, ClassOK, OffsetsOnce
  <2> QED BY <2>1, <2>2 DEF TaxNext
<1> QED BY <1>1, <1>2, PTL DEF TaxSpec

\* The amounts of the year keep their types: nothing taxable or carried is ever
\* negative (tax.rs, BrazilTaxComputation).
THEOREM YearTypeCorrect == TaxSpec => []TaxTypeOK
<1>1. YearInv => TaxTypeOK
  BY DEF YearInv, TaxTypeOK, ClassOK
<1> QED BY <1>1, YearInvariant, PTL

\* Every loss offsets later gains of its class once and to the last unit, for any
\* number of months with any nets (tax.rs, brazil_tax_computation).
THEOREM LossesAreOffsetOnce == TaxSpec => []LossesOffsetOnce
<1>1. YearInv => LossesOffsetOnce
  BY DEF YearInv, LossesOffsetOnce, ClassOK
<1> QED BY <1>1, YearInvariant, PTL

-----------------------------------------------------------------------------
(* Day trades (DayTrades)                                                   *)

\* A cycle's copy of the history is of before, a row that lost shares lost them to a
\* sale since its entry, and shares have an open row.
SalesOfRow(s) ==
  /\ round.known[s] <= Len(sales[s]) /\ round.since[s] <= Len(sales[s])
  /\ shareRow[s].open => shareRow[s].entry <= Len(sales[s])
  /\ Missing(s) => shareRow[s].entry < Len(sales[s])
  /\ held[s] > 0 => shareRow[s].open /\ held[s] <= shareRow[s].shares

\* Types, and each round trip is counted, overlooked or the latest sale of a row that
\* the next cycle repairs.
DayInv == DayTypeOK /\ (\A s \in Symbols : SalesOfRow(s)) /\ TripsAreCounted

\* A reconciliation finds every sale that was the latest known.
LEMMA ReconcilesCount ==
  ASSUME DayInv, Reconciles
  PROVE  DayInv'
<1> USE DEF DayInv, DayTypeOK
<1>1. /\ UNCHANGED <<session, held, live, sales, buys, trips>>
      /\ round' = [round EXCEPT !.at = "exits"] /\ counted' = Recorded
  BY DEF Reconciles
<1>2. shareRow' = [s \in Symbols |->
        IF shareRow[s].open /\ held[s] > 0 THEN [shareRow[s] EXCEPT !.shares = held[s]] ELSE NoRow]
  BY DEF Reconciles
<1>3. overlooked' = overlooked \cup
        {<<s, Last(sales[s])>> : s \in {r \in Symbols : Missing(r) /\ round.known[r] < Len(sales[r])}}
  BY DEF Reconciles
<1>4. \A s \in Symbols : sales[s] \in Seq(Days) /\ Len(sales[s]) \in Nat
                       /\ (Len(sales[s]) > 0 => Last(sales[s]) \in Days)
  BY DEF Last
<1>5. shareRow' \in [Symbols -> [open : BOOLEAN, shares : Nat, entry : Nat]]
  <2>1. NoRow \in [open : BOOLEAN, shares : Nat, entry : Nat]
    BY DEF NoRow
  <2> QED BY <1>2, <2>1
<1>6. \A s \in Symbols :
        /\ shareRow'[s].open => /\ shareRow[s].open
                                /\ shareRow'[s].shares = held[s]
                                /\ shareRow'[s].entry = shareRow[s].entry
        /\ held[s] > 0 => shareRow'[s].open
  <2> TAKE s \in Symbols
  <2>1. CASE shareRow[s].open /\ held[s] > 0
    BY <1>2, <2>1
  <2>2. CASE ~(shareRow[s].open /\ held[s] > 0)
    BY <1>2, <2>2 DEF NoRow, SalesOfRow
  <2> QED BY <2>1, <2>2
<1>7. counted' \in [Symbols \X Days -> Nat]
  BY <1>1 DEF Recorded
<1>8. \A x \in Symbols \X Days : counted'[x] >= counted[x]
  BY <1>1 DEF Recorded
<1>9. overlooked' \subseteq Symbols \X Days
  <2> SUFFICES ASSUME NEW s \in Symbols, Missing(s), round.known[s] < Len(sales[s])
               PROVE  <<s, Last(sales[s])>> \in Symbols \X Days
    BY <1>3
  <2> QED BY <1>4
<1>10. DayTypeOK'
  BY <1>1, <1>5, <1>7, <1>9
<1>11. ASSUME NEW s \in Symbols
       PROVE  SalesOfRow(s)'
  <2> HIDE DEF DayInv, DayTypeOK
  <2>1. /\ shareRow'[s].open => /\ shareRow[s].open /\ shareRow'[s].shares = held[s]
                                /\ shareRow'[s].entry = shareRow[s].entry
        /\ held[s] > 0 => shareRow'[s].open
    BY <1>6
  <2>2. held[s] \in Nat /\ held' = held
    BY <1>1 DEF DayInv, DayTypeOK
  <2>3. ~Missing(s)'
    BY <2>1, <2>2 DEF Missing
  <2>4. round'.known = round.known /\ round'.since = round.since
    BY <1>1 DEF DayInv, DayTypeOK
  <2>5. held'[s] > 0 => shareRow'[s].open /\ held'[s] <= shareRow'[s].shares
    BY <2>1, <2>2
  <2>6. SalesOfRow(s) /\ sales' = sales
    BY <1>1 DEF DayInv
  <2>7. shareRow'[s].open => shareRow'[s].entry <= Len(sales'[s])
    BY <2>6, <2>1 DEF SalesOfRow
  <2> QED BY <2>3, <2>4, <2>5, <2>7, <2>6 DEF SalesOfRow
<1>12. ASSUME NEW x \in trips
       PROVE  counted'[x] > 0 \/ x \in overlooked'
  <2>1. x \in buys /\ x \in Symbols \X Days /\ x = <<x[1], x[2]>>
    OBVIOUS
  <2>2. CASE counted[x] > 0 \/ x \in overlooked
    BY <1>3, <1>7, <1>8, <2>1, <2>2
  <2>3. CASE Missing(x[1]) /\ Last(sales[x[1]]) = x[2]
    <3>1. shareRow[x[1]].entry < Len(sales[x[1]]) /\ round.known[x[1]] <= Len(sales[x[1]])
      BY <2>1, <2>3 DEF SalesOfRow
    <3>2. CASE round.known[x[1]] < Len(sales[x[1]])
      BY <1>3, <2>1, <2>3, <3>2
    <3>3. CASE round.known[x[1]] = Len(sales[x[1]])
      <4>1. ExitKnown(x[1]) /\ TradeDay(x[1]) = x[2]
        BY <2>3, <3>1, <3>3 DEF ExitKnown, TradeDay, Last
      <4>2. counted'[x] = counted[x] + 1
        BY <1>1, <2>1, <2>3, <4>1 DEF Recorded
      <4> QED BY <2>1, <4>2
    <3>4. round.known[x[1]] \in Nat
      BY <2>1
    <3> QED BY <1>4, <2>1, <3>1, <3>2, <3>3, <3>4
  <2> QED BY <2>2, <2>3 DEF TripsAreCounted
<1> QED BY <1>1, <1>10, <1>11, <1>12 DEF TripsAreCounted

\* A sale becomes the latest; one before it that no cycle has found is of the same
\* day, or overlooked from now on.
LEMMA SoldIsLatest ==
  ASSUME DayInv, NEW s \in Symbols, Sold(s), live' \in [Symbols -> Nat]
  PROVE  DayInv'
<1> USE DEF DayInv, DayTypeOK
<1>1. /\ held' = [held EXCEPT ![s] = @ - 1] /\ held[s] > 0
      /\ sales' = [sales EXCEPT ![s] = Append(@, session)]
      /\ trips' = trips \cup (buys \cap {<<s, session>>})
      /\ UNCHANGED <<session, round, shareRow, buys, counted>>
  BY DEF Sold
<1>2. overlooked' = IF Missing(s) /\ Last(sales[s]) # session
                    THEN overlooked \cup {<<s, Last(sales[s])>>}
                    ELSE overlooked
  BY DEF Sold
<1>3. held' \in [Symbols -> Nat]
  BY <1>1
<1>4. /\ sales[s] \in Seq(Days) /\ Len(sales[s]) \in Nat
      /\ sales'[s] = Append(sales[s], session) /\ sales'[s] \in Seq(Days)
      /\ Len(sales'[s]) = Len(sales[s]) + 1 /\ Last(sales'[s]) = session
  BY <1>1 DEF Last
<1>5. \A r \in Symbols \ {s} : sales'[r] = sales[r] /\ held'[r] = held[r]
  BY <1>1
<1>6. sales' \in [Symbols -> Seq(Days)]
  BY <1>1, <1>4
<1>7. overlooked' \subseteq Symbols \X Days
  <2>1. Missing(s) => Last(sales[s]) \in Days
    BY <1>4 DEF SalesOfRow, Last
  <2> QED BY <1>2, <2>1
<1>8. DayTypeOK'
  BY <1>1, <1>3, <1>6, <1>7
<1>9. ASSUME NEW r \in Symbols
      PROVE  SalesOfRow(r)'
  <2>1. CASE r = s
    BY <1>1, <1>4, <2>1 DEF SalesOfRow, Missing
  <2>2. CASE r # s
    BY <1>1, <1>5, <2>2 DEF SalesOfRow, Missing
  <2> QED BY <2>1, <2>2
<1>10. Missing(s) => Missing(s)'
  BY <1>1 DEF Missing
<1>11. ASSUME NEW x \in trips'
       PROVE  counted'[x] > 0 \/ x \in overlooked' \/ (Missing(x[1])' /\ Last(sales'[x[1]]) = x[2])
  <2>1. x \in Symbols \X Days /\ x = <<x[1], x[2]>>
    <3>1. trips' \subseteq Symbols \X Days
      BY <1>8
    <3> QED BY <3>1
  <2>2. CASE x \in trips /\ x[1] # s
    BY <1>1, <1>2, <1>5, <2>1, <2>2 DEF TripsAreCounted, Missing
  <2>3. CASE x \in trips /\ x[1] = s
    BY <1>1, <1>2, <1>4, <1>10, <2>1, <2>3 DEF TripsAreCounted
  <2>4. CASE x = <<s, session>>
    <3>1. shareRow[s].open /\ held[s] <= shareRow[s].shares /\ held'[s] = held[s] - 1
      BY <1>1 DEF SalesOfRow
    <3> QED BY <1>1, <1>4, <2>4, <3>1 DEF Missing
  <2> QED BY <1>1, <2>2, <2>3, <2>4
<1> QED BY <1>8, <1>9, <1>11 DEF TripsAreCounted

\* The steps that touch neither shares nor rows.
LEMMA CycleGoesOn ==
  ASSUME DayInv, NextDate \/ Begins \/ Syncs \/ GoesOn
  PROVE  DayInv'
<1>1. UNCHANGED <<held, live, sales, shareRow, buys, counted, trips, overlooked>>
  BY DEF NextDate, Begins, Syncs, GoesOn
<1>2. session' \in Days
  BY DayTradesAssumption DEF NextDate, Begins, Syncs, GoesOn, DayInv, DayTypeOK, Days
<1>3. /\ round \in [at : {"rest", "sync", "load", "exits", "buys"},
                    since : [Symbols -> Nat], known : [Symbols -> Nat]]
      /\ \A s \in Symbols : Len(sales[s]) \in Nat
  BY DEF DayInv, DayTypeOK
<1>4. \A s \in Symbols : round.known[s] <= Len(sales[s]) /\ round.since[s] <= Len(sales[s])
  BY DEF DayInv, SalesOfRow
<1>5. /\ round' \in [at : {"rest", "sync", "load", "exits", "buys"},
                     since : [Symbols -> Nat], known : [Symbols -> Nat]]
      /\ \A s \in Symbols : round'.known[s] <= Len(sales[s]) /\ round'.since[s] <= Len(sales[s])
  <2> DEFINE all == [s \in Symbols |-> Len(sales[s])]
  <2>1. all \in [Symbols -> Nat] /\ \A s \in Symbols : all[s] = Len(sales[s])
    BY <1>3
  <2>2. CASE round' = round
    BY <1>3, <1>4, <2>2
  <2>3. CASE round' = Rest
    <3>1. /\ NoSales \in [Symbols -> Nat] /\ \A s \in Symbols : NoSales[s] = 0
          /\ Rest = [at |-> "rest", since |-> NoSales, known |-> NoSales]
      BY DEF Rest, NoSales
    <3> QED BY <1>3, <2>3, <3>1
  <2>4. CASE round' = [round EXCEPT !.at = "sync", !.since = all]
    <3> HIDE DEF all
    <3>1. round' = [at |-> "sync", since |-> all, known |-> round.known]
      BY <1>3, <2>4
    <3>2. round.known \in [Symbols -> Nat]
      BY <1>3
    <3> QED BY <1>3, <1>4, <2>1, <3>1, <3>2
  <2>5. CASE round' = [round EXCEPT !.at = "load", !.known = all]
    <3> HIDE DEF all
    <3>1. round' = [at |-> "load", since |-> round.since, known |-> all]
      BY <1>3, <2>5
    <3>2. round.since \in [Symbols -> Nat]
      BY <1>3
    <3> QED BY <1>3, <1>4, <2>1, <3>1, <3>2
  <2>6. CASE round' = [round EXCEPT !.at = "buys"]
    BY <1>3, <1>4, <2>6
  <2> QED BY <2>2, <2>3, <2>4, <2>5, <2>6 DEF NextDate, Begins, Syncs, GoesOn
<1>6. DayTypeOK'
  BY <1>1, <1>2, <1>5 DEF DayInv, DayTypeOK
<1>7. ASSUME NEW s \in Symbols
      PROVE  SalesOfRow(s)'
  BY <1>1, <1>5 DEF DayInv, SalesOfRow, Missing
<1>8. TripsAreCounted'
  BY <1>1 DEF DayInv, TripsAreCounted, Missing
<1> QED BY <1>6, <1>7, <1>8 DEF DayInv

\* A buy is of a symbol without shares, and its row has them all.
LEMMA BuysOpenRow ==
  ASSUME DayInv, NEW s \in Symbols, DayBuys(s)
  PROVE  DayInv'
<1>1. /\ held' = [held EXCEPT ![s] = @ + BuyLot]
      /\ shareRow' = [shareRow EXCEPT
                       ![s] = [open |-> TRUE, shares |-> BuyLot, entry |-> round.since[s]]]
      /\ buys' = buys \cup {<<s, session>>} /\ ~shareRow[s].open
      /\ UNCHANGED <<session, round, live, sales, counted, trips, overlooked>>
  BY DEF DayBuys
<1>2. held \in [Symbols -> Nat] /\ held[s] = 0 /\ BuyLot \in Nat \ {0}
  BY <1>1, DayTradesAssumption DEF DayInv, DayTypeOK, SalesOfRow
<1>3. held' \in [Symbols -> Nat] /\ held'[s] = BuyLot /\ \A r \in Symbols \ {s} : held'[r] = held[r]
  BY <1>1, <1>2
<1>4. /\ round.since[s] \in Nat
      /\ shareRow \in [Symbols -> [open : BOOLEAN, shares : Nat, entry : Nat]]
  BY DEF DayInv, DayTypeOK
<1>5. /\ shareRow' \in [Symbols -> [open : BOOLEAN, shares : Nat, entry : Nat]]
      /\ shareRow'[s] = [open |-> TRUE, shares |-> BuyLot, entry |-> round.since[s]]
      /\ \A r \in Symbols \ {s} : shareRow'[r] = shareRow[r]
  BY <1>1, <1>2, <1>4
<1>6. DayTypeOK'
  <2>1. buys' \subseteq Symbols \X Days /\ trips' \subseteq buys'
    BY <1>1 DEF DayInv, DayTypeOK
  <2> QED BY <1>1, <1>3, <1>5, <2>1 DEF DayInv, DayTypeOK
<1>7. ASSUME NEW r \in Symbols
      PROVE  SalesOfRow(r)'
  <2>1. CASE r = s
    BY <1>1, <1>2, <1>3, <1>5, <2>1 DEF DayInv, SalesOfRow, Missing
  <2>2. CASE r # s
    BY <1>1, <1>3, <1>5, <2>2 DEF DayInv, SalesOfRow, Missing
  <2> QED BY <2>1, <2>2
<1>8. TripsAreCounted'
  <2>1. \A r \in Symbols : Missing(r) => r # s
    BY <1>1 DEF Missing
  <2>2. \A r \in Symbols : Missing(r) => Missing(r)'
    BY <1>3, <1>5, <2>1 DEF Missing
  <2>3. trips \subseteq Symbols \X Days
    BY DEF DayInv, DayTypeOK
  <2> QED BY <1>1, <2>2, <2>3 DEF DayInv, TripsAreCounted
<1> QED BY <1>6, <1>7, <1>8 DEF DayInv

\* DayInv is an inductive invariant of cycles, the broker and the command line.
THEOREM DayInvariant == DaySpec => []DayInv
<1>1. DayInit => DayInv
  BY DayTradesAssumption DEF DayInit, DayInv, DayTypeOK, TripsAreCounted, SalesOfRow, Missing, Days,
     NoRow, NoSales, Rest
<1>2. DayInv /\ [DayNext]_dayVars => DayInv'
  <2> SUFFICES ASSUME DayInv, [DayNext]_dayVars PROVE DayInv'
    OBVIOUS
  <2>1. CASE UNCHANGED dayVars
    BY <2>1 DEF dayVars, DayInv, DayTypeOK, TripsAreCounted, SalesOfRow, Missing
  <2>2. CASE NextDate \/ Begins \/ Syncs \/ GoesOn
    BY <2>2, CycleGoesOn
  <2>3. CASE Reconciles
    BY <2>3, ReconcilesCount
  <2>4. ASSUME NEW s \in Symbols, DayBuys(s)
        PROVE  DayInv'
    BY <2>4, BuysOpenRow
  <2>5. ASSUME NEW s \in Symbols, Exits(s) \/ Cancelled(s)
        PROVE  DayInv'
    <3>1. /\ live' \in [Symbols -> Nat]
          /\ UNCHANGED <<session, round, held, sales, shareRow, buys, counted, trips, overlooked>>
      <4>1. /\ live \in [Symbols -> Nat] /\ shareRow[s].shares \in Nat
        BY DEF DayInv, DayTypeOK
      <4>2. CASE Exits(s)
        BY <4>1, <4>2 DEF Exits
      <4>3. CASE Cancelled(s)
        BY <4>1, <4>3 DEF Cancelled
      <4> QED BY <2>5, <4>2, <4>3
    <3> QED BY <3>1 DEF DayInv, DayTypeOK, TripsAreCounted, SalesOfRow, Missing
  <2>6. ASSUME NEW s \in Symbols, FillsExit(s) \/ OwnerSellsOne(s)
        PROVE  DayInv'
    <3>1. live \in [Symbols -> Nat]
      BY DEF DayInv, DayTypeOK
    <3>2. live' \in [Symbols -> Nat]
      BY <2>6, <3>1 DEF FillsExit, OwnerSellsOne
    <3>3. Sold(s)
      BY <2>6 DEF FillsExit, OwnerSellsOne
    <3> QED BY <3>2, <3>3, SoldIsLatest
  <2>7. ASSUME NEW s \in Symbols, CliSell(s)
        PROVE  DayInv'
    <3>1. /\ counted' = [counted EXCEPT ![<<s, session>>] = @ + 1]
          /\ UNCHANGED <<session, round, held, live, sales, shareRow, buys, trips, overlooked>>
      BY <2>7 DEF CliSell
    <3>2. /\ counted' \in [Symbols \X Days -> Nat]
          /\ \A x \in Symbols \X Days : counted[x] > 0 => counted'[x] > 0
      BY <3>1 DEF DayInv, DayTypeOK
    <3>3. trips \subseteq Symbols \X Days
      BY DEF DayInv, DayTypeOK
    <3> QED BY <3>1, <3>2, <3>3 DEF DayInv, DayTypeOK, TripsAreCounted, SalesOfRow, Missing
  <2> QED BY <2>1, <2>2, <2>3, <2>4, <2>5, <2>6, <2>7 DEF DayNext
<1> QED BY <1>1, <1>2, PTL DEF DaySpec

\* The count that the guard reads misses no round trip of the cycle but those whose row is
\* still to be repaired, on whichever day that happens (auto.rs, record_day_trade), and those
\* that no reconciliation meets as the latest known sale (latest_provider_sell_exit).
THEOREM TripsStayCounted == DaySpec => []TripsAreCounted
<1>1. DayInv => TripsAreCounted
  BY DEF DayInv
<1> QED BY <1>1, DayInvariant, PTL

\* The guard's tables keep their types (auto.rs, day_trades).
THEOREM DayTypeCorrect == DaySpec => []DayTypeOK
<1>1. DayInv => DayTypeOK
  BY DEF DayInv
<1> QED BY <1>1, DayInvariant, PTL

-----------------------------------------------------------------------------
(* The counters of an exit (ExitConfirmation)                               *)

Evaluation == [t : Nat, price : Levels]

\* The breaches at the end, the hits, and those since a price between stop and target.
BreachesAtEnd(s) == {i \in 1 .. Len(s) : \A k \in i .. Len(s) : s[k].price <= Stop}
Hits(s) == {i \in 1 .. Len(s) : s[i].price >= Target}
HitsAtEnd(s) == {i \in Hits(s) : \A k \in i .. Len(s) : s[k].price <= Stop \/ k \in Hits(s)}

\* The highest of the hits, or none.
PeakOf(peak, s) ==
  /\ peak = NoPeak \/ peak >= Target
  /\ peak = NoPeak => Hits(s) = {}
  /\ peak # NoPeak => \E i \in Hits(s) : s[i].price = peak
  /\ \A i \in Hits(s) : s[i].price <= peak

\* The counters of a row tell what the evaluations of it do.
Tells(r, s) ==
  /\ r \in [stops : Nat, stopSince : Int, takes : Nat, peak : Int]
  /\ r.stops = Cardinality(BreachesAtEnd(s)) /\ r.takes = Cardinality(HitsAtEnd(s))
  /\ r.stopSince = IF BreachesAtEnd(s) = {} THEN Never ELSE s[Min(BreachesAtEnd(s))].t
  /\ PeakOf(r.peak, s)

ExitInv ==
  /\ now \in Nat /\ entry \in Nat
  /\ seen \in Seq(Evaluation)
  /\ Tells(row, seen)
  /\ \A i \in 1 .. Len(seen) : seen[i].t <= now
  /\ DecidedByHistory

\* One more evaluation.
LEMMA OneMore ==
  ASSUME NEW s \in Seq(Evaluation), NEW e \in Evaluation
  PROVE  LET r == Append(s, e)
             n == Len(s) + 1
         IN  /\ r \in Seq(Evaluation) /\ Len(r) = n /\ r[n] = e
             /\ \A i \in 1 .. Len(s) : r[i] = s[i]
             /\ e.price <= Stop =>
                  /\ BreachesAtEnd(r) = BreachesAtEnd(s) \cup {n}
                  /\ Hits(r) = Hits(s) /\ HitsAtEnd(r) = HitsAtEnd(s)
             /\ e.price > Stop => BreachesAtEnd(r) = {}
             /\ e.price >= Target => Hits(r) = Hits(s) \cup {n} /\ HitsAtEnd(r) = HitsAtEnd(s) \cup {n}
             /\ e.price > Stop /\ e.price < Target => Hits(r) = Hits(s) /\ HitsAtEnd(r) = {}
<1> DEFINE r == Append(s, e)
           n == Len(s) + 1
<1>1. Len(s) \in Nat /\ n \in Nat /\ n = Len(s) + 1 /\ r \in Seq(Evaluation) /\ Len(r) = n /\ r[n] = e /\ \A i \in 1 .. Len(s) : r[i] = s[i]
  OBVIOUS
<1>2. Stop \in Int /\ Target \in Int /\ Stop < Target /\ e.price \in Int
  BY ExitAssumption DEF Evaluation
<1>3. \A i \in 1 .. Len(s) : s[i].price \in Int
  <2>1. \A i \in 1 .. Len(s) : s[i] \in Evaluation
    OBVIOUS
  <2> QED BY <2>1, ExitAssumption DEF Evaluation
<1> HIDE DEF r, n
<1>4. e.price <= Stop => BreachesAtEnd(r) = BreachesAtEnd(s) \cup {n}
  BY <1>1, <1>2 DEF BreachesAtEnd
<1>5. e.price > Stop => BreachesAtEnd(r) = {}
  <2>1. \A i \in 1 .. n : n \in i .. n
    BY <1>1
  <2> QED BY <1>1, <1>2, <2>1 DEF BreachesAtEnd
<1>6. Hits(r) = IF e.price >= Target THEN Hits(s) \cup {n} ELSE Hits(s)
  BY <1>1, <1>2 DEF Hits
<1>7. e.price <= Stop => HitsAtEnd(r) = HitsAtEnd(s)
  <2> SUFFICES ASSUME e.price <= Stop PROVE HitsAtEnd(r) = HitsAtEnd(s)
    OBVIOUS
  <2>1. Hits(r) = Hits(s) /\ Hits(s) \subseteq 1 .. Len(s)
    BY <1>2, <1>6 DEF Hits
  <2>2. \A i \in 1 .. Len(s) : i .. n = (i .. Len(s)) \cup {n}
    BY <1>1
  <2> QED BY <1>1, <1>2, <2>1, <2>2 DEF HitsAtEnd
<1>8. e.price >= Target => HitsAtEnd(r) = HitsAtEnd(s) \cup {n}
  <2> SUFFICES ASSUME e.price >= Target PROVE HitsAtEnd(r) = HitsAtEnd(s) \cup {n}
    OBVIOUS
  <2>1. Hits(r) = Hits(s) \cup {n} /\ Hits(s) \subseteq 1 .. Len(s)
    BY <1>2, <1>6 DEF Hits
  <2>2. \A i \in 1 .. Len(s) : i .. n = (i .. Len(s)) \cup {n}
    BY <1>1
  <2>3. n .. n = {n}
    BY <1>1
  <2>4. ASSUME NEW i \in Hits(s)
        PROVE  i \in HitsAtEnd(r) <=> i \in HitsAtEnd(s)
    <3>1. i .. n = (i .. Len(s)) \cup {n} /\ \A k \in i .. Len(s) : k \in 1 .. Len(s) /\ k # n
      BY <1>1, <2>1, <2>2
    <3>2. \A k \in i .. Len(s) : (r[k].price <= Stop \/ k \in Hits(r)) <=> (s[k].price <= Stop \/ k \in Hits(s))
      BY <1>1, <2>1, <3>1
    <3>3. i \in Hits(r) /\ n \in Hits(r)
      BY <2>1
    <3>4. i \in HitsAtEnd(r) <=> \A k \in i .. n : r[k].price <= Stop \/ k \in Hits(r)
      BY <1>1, <3>3 DEF HitsAtEnd
    <3>5. i \in HitsAtEnd(s) <=> \A k \in i .. Len(s) : s[k].price <= Stop \/ k \in Hits(s)
      BY DEF HitsAtEnd
    <3> QED BY <3>1, <3>2, <3>3, <3>4, <3>5
  <2>5. n \in HitsAtEnd(r)
    BY <1>1, <1>2, <2>1, <2>3 DEF HitsAtEnd
  <2> QED BY <2>1, <2>4, <2>5 DEF HitsAtEnd
<1>9. e.price > Stop /\ e.price < Target => HitsAtEnd(r) = {}
  <2> SUFFICES ASSUME e.price > Stop, e.price < Target, NEW i \in HitsAtEnd(r) PROVE FALSE
    OBVIOUS
  <2>1. Hits(r) = Hits(s) /\ Hits(s) \subseteq 1 .. Len(s)
    BY <1>2, <1>6 DEF Hits
  <2>2. i \in 1 .. Len(s) /\ n \in i .. n
    BY <1>1, <2>1 DEF HitsAtEnd
  <2>3. r[n].price <= Stop \/ n \in Hits(r)
    BY <1>1, <2>2 DEF HitsAtEnd
  <2> QED BY <1>1, <1>2, <2>1, <2>3
<1>10. e.price <= Stop => ~(e.price >= Target)
  BY <1>2
<1>11. e.price > Stop /\ e.price < Target => ~(e.price >= Target)
  BY <1>2
<1> QED BY <1>1, <1>4, <1>5, <1>6, <1>7, <1>8, <1>9, <1>10, <1>11 DEF r, n

\* The sets of evaluations are finite, and their sizes go on with one more.
LEMMA SizesOf ==
  ASSUME NEW s \in Seq(Evaluation), NEW S \in {BreachesAtEnd(s), HitsAtEnd(s), Hits(s)}
  PROVE  /\ S \subseteq 1 .. Len(s) /\ S \subseteq 0 .. Len(s) /\ IsFiniteSet(S) /\ Cardinality(S) \in Nat
         /\ Cardinality(S \cup {Len(s) + 1}) = Cardinality(S) + 1
<1>1. S \subseteq 1 .. Len(s)
  BY DEF BreachesAtEnd, HitsAtEnd, Hits
<1>2. IsFiniteSet(1 .. Len(s))
  BY FS_Interval
<1>3. IsFiniteSet(S)
  BY <1>1, <1>2, FS_Subset
<1>4. Len(s) + 1 \notin S /\ S \subseteq 0 .. Len(s)
  BY <1>1
<1> QED BY <1>1, <1>3, <1>4, FS_AddElement, FS_CardinalityType

\* One more price counted in the row.
LEMMA CountingTells ==
  ASSUME NEW r, NEW s \in Seq(Evaluation), NEW price \in Levels, Tells(r, s), now \in Nat
  PROVE  Tells(Counted(r, price), Append(s, [t |-> now, price |-> price]))
<1> DEFINE e == [t |-> now, price |-> price]
           q == Append(s, e)
           n == Len(s) + 1
           c == Counted(r, price)
<1> SUFFICES Tells(c, q)
  OBVIOUS
<1>1. Stop \in Int /\ Target \in Int /\ Stop < Target /\ price \in Int /\ NoPeak = Stop
  BY ExitAssumption DEF NoPeak
<1>2. e \in Evaluation /\ e.price = price /\ e.t = now
  BY DEF Evaluation
<1>3. /\ q \in Seq(Evaluation) /\ Len(q) = n /\ q[n] = e
      /\ \A i \in 1 .. Len(s) : q[i] = s[i]
      /\ price <= Stop =>
           /\ BreachesAtEnd(q) = BreachesAtEnd(s) \cup {n}
           /\ Hits(q) = Hits(s) /\ HitsAtEnd(q) = HitsAtEnd(s)
      /\ price > Stop => BreachesAtEnd(q) = {}
      /\ price >= Target => Hits(q) = Hits(s) \cup {n} /\ HitsAtEnd(q) = HitsAtEnd(s) \cup {n}
      /\ price > Stop /\ price < Target => Hits(q) = Hits(s) /\ HitsAtEnd(q) = {}
  BY <1>2, OneMore
<1>4. /\ Cardinality(BreachesAtEnd(s) \cup {n}) = Cardinality(BreachesAtEnd(s)) + 1
      /\ Cardinality(HitsAtEnd(s) \cup {n}) = Cardinality(HitsAtEnd(s)) + 1
      /\ BreachesAtEnd(s) \subseteq 1 .. Len(s) /\ Hits(s) \subseteq 1 .. Len(s)
      /\ Cardinality({}) = 0 /\ Len(s) \in Nat
  <2>1. BreachesAtEnd(s) \in {BreachesAtEnd(s), HitsAtEnd(s), Hits(s)}
    OBVIOUS
  <2>2. HitsAtEnd(s) \in {BreachesAtEnd(s), HitsAtEnd(s), Hits(s)}
    OBVIOUS
  <2>4. BreachesAtEnd(s) \subseteq 1 .. Len(s) /\ Cardinality(BreachesAtEnd(s) \cup {n}) = Cardinality(BreachesAtEnd(s)) + 1
    BY <2>1, SizesOf
  <2>5. Cardinality(HitsAtEnd(s) \cup {n}) = Cardinality(HitsAtEnd(s)) + 1
    BY <2>2, SizesOf
  <2>6. Hits(s) \subseteq 1 .. Len(s) /\ Len(s) \in Nat
    BY DEF Hits
  <2> QED BY <2>4, <2>5, <2>6, FS_EmptySet
<1>5. r \in [stops : Nat, stopSince : Int, takes : Nat, peak : Int] /\ PeakOf(r.peak, s)
  BY DEF Tells
<1>6. \A i \in Hits(s) : s[i] \in Evaluation /\ s[i].price \in Int
  <2>1. \A i \in 1 .. Len(s) : s[i] \in Evaluation
    OBVIOUS
  <2> QED BY <1>4, <2>1, ExitAssumption DEF Evaluation
<1>11. StopReset(r) = [stops |-> 0, stopSince |-> Never, takes |-> r.takes, peak |-> r.peak]
  <2>1. StopReset(r) = [r EXCEPT !.stops = 0, !.stopSince = Never]
    BY DEF StopReset
  <2>2. Never \in Int
    BY DEF Never
  <2> HIDE DEF c, q
  <2>3. StopReset(r) \in [stops : Nat, stopSince : Int, takes : Nat, peak : Int]
    <3>1. ASSUME NEW m \in Int
          PROVE  [r EXCEPT !.stops = 0, !.stopSince = m] \in [stops : Nat, stopSince : Int, takes : Nat, peak : Int]
      BY <1>5
    <3> QED BY <2>1, <2>2, <3>1
  <2>4. /\ StopReset(r).stops = 0 /\ StopReset(r).stopSince = Never
        /\ StopReset(r).takes = r.takes /\ StopReset(r).peak = r.peak
    BY <1>5, <2>1
  <2> QED BY <2>3, <2>4
<1> HIDE DEF e, q, n
<1>7. CASE price <= Stop
  <2> DEFINE since == IF r.stopSince = Never THEN now ELSE r.stopSince
  <2>1. c = [stops |-> r.stops + 1, stopSince |-> since, takes |-> r.takes, peak |-> r.peak]
    BY <1>5, <1>7 DEF Counted, StopCounted
  <2>2. since = q[Min(BreachesAtEnd(q))].t
    <3>1. BreachesAtEnd(q) = BreachesAtEnd(s) \cup {n}
      BY <1>3, <1>7
    <3>2. CASE BreachesAtEnd(s) = {}
      <4>1. BreachesAtEnd(q) = {n} /\ r.stopSince = Never
        BY <3>1, <3>2 DEF Tells
      <4>2. Min({n}) = n
        BY <1>4 DEF Min, n
      <4> QED BY <1>2, <1>3, <4>1, <4>2
    <3>3. CASE BreachesAtEnd(s) # {}
      <4>1. BreachesAtEnd(s) \subseteq 0 .. Len(s) /\ BreachesAtEnd(q) \subseteq 0 .. n /\ n \in Nat
        BY <1>4, <3>1 DEF n
      <4> PICK m \in BreachesAtEnd(s) : m = Min(BreachesAtEnd(s)) /\ \A x \in BreachesAtEnd(s) : m <= x
        BY <1>4, <3>3, <4>1, MinAndMax
      <4>2. Min(BreachesAtEnd(q)) \in BreachesAtEnd(q) /\ \A x \in BreachesAtEnd(q) : Min(BreachesAtEnd(q)) <= x
        BY <3>1, <4>1, MinAndMax
      <4>3. m \in BreachesAtEnd(q) /\ \A x \in BreachesAtEnd(q) : m <= x
        BY <1>4, <3>1 DEF n
      <4>4. m = Min(BreachesAtEnd(q))
        BY <4>1, <4>2, <4>3
      <4>5. q[m] = s[m] /\ s[m] \in Evaluation
        BY <1>3, <1>4
      <4>6. r.stopSince = s[m].t /\ s[m].t \in Nat
        BY <3>3, <4>5 DEF Tells, Evaluation
      <4> QED BY <4>4, <4>5, <4>6 DEF Never
    <3> QED BY <3>2, <3>3
  <2> HIDE DEF since, c
  <2>3. n \in BreachesAtEnd(q) /\ Hits(q) = Hits(s) /\ HitsAtEnd(q) = HitsAtEnd(s)
    BY <1>3, <1>7
  <2>4. \A i \in Hits(q) : q[i] = s[i]
    BY <1>3, <1>4, <2>3
  <2>5. BreachesAtEnd(q) # {} /\ c.stopSince = since /\ c.stops = Cardinality(BreachesAtEnd(q))
    BY <1>3, <1>4, <1>7, <2>1, <2>3 DEF Tells
  <2>6. c.takes = Cardinality(HitsAtEnd(q)) /\ c.peak = r.peak
    BY <2>1, <2>3 DEF Tells
  <2>7. since \in Int
    BY <1>5 DEF since
  <2>8. c \in [stops : Nat, stopSince : Int, takes : Nat, peak : Int]
    BY <1>5, <2>1, <2>7
  <2>9. PeakOf(r.peak, q)
    BY <1>5, <2>3, <2>4 DEF PeakOf
  <2> QED BY <2>2, <2>5, <2>6, <2>8, <2>9 DEF Tells
<1>8. CASE price >= Target
  <2> DEFINE peak == BiggerOf(r.peak, price)
  <2>1. c = [stops |-> 0, stopSince |-> Never, takes |-> r.takes + 1, peak |-> peak]
    <3>1. StopReset(r) = [stops |-> 0, stopSince |-> Never, takes |-> r.takes, peak |-> r.peak]
      BY <1>11
    <3>2. c = TakeCounted(StopReset(r), price)
      BY <1>1, <1>8 DEF Counted
    <3> DEFINE old == [stops |-> 0, stopSince |-> Never, takes |-> r.takes, peak |-> r.peak]
    <3>3. c = [old EXCEPT !.takes = old.takes + 1, !.peak = BiggerOf(old.peak, price)]
      BY <1>8, <3>1, <3>2 DEF TakeCounted
    <3> HIDE DEF c
    <3> QED BY <3>3
  <2>2. peak \in Int /\ peak >= price /\ peak >= r.peak /\ peak \in {r.peak, price}
    BY <1>1, <1>5 DEF BiggerOf
  <2> HIDE DEF c, peak
  <2>3. BreachesAtEnd(q) = {} /\ Hits(q) = Hits(s) \cup {n} /\ HitsAtEnd(q) = HitsAtEnd(s) \cup {n}
    BY <1>1, <1>3, <1>8
  <2>4. \A i \in Hits(s) : q[i] = s[i] /\ s[i].price <= r.peak
    BY <1>3, <1>4, <1>5 DEF PeakOf
  <2>5. \A i \in Hits(q) : q[i].price <= peak
    BY <1>1, <1>2, <1>3, <1>5, <1>6, <2>2, <2>3, <2>4
  <2>6. \E i \in Hits(q) : q[i].price = peak
    <3>1. CASE peak = price
      BY <1>2, <1>3, <2>3, <3>1
    <3>2. CASE peak # price
      <4>1. peak = r.peak /\ r.peak # NoPeak
        BY <1>1, <1>5, <1>8, <2>2, <3>2
      <4> QED BY <1>5, <2>3, <2>4, <4>1 DEF PeakOf
    <3> QED BY <3>1, <3>2
  <2>7. peak >= Target /\ peak # NoPeak
    BY <1>1, <1>8, <2>2
  <2>8. c.stops = Cardinality(BreachesAtEnd(q)) /\ c.stopSince = Never /\ c.peak = peak
    BY <1>4, <2>1, <2>3
  <2>9. c.takes = Cardinality(HitsAtEnd(q))
    BY <1>4, <2>1, <2>3 DEF Tells
  <2>10. c \in [stops : Nat, stopSince : Int, takes : Nat, peak : Int]
    BY <1>5, <2>1, <2>2 DEF Never
  <2>11. PeakOf(peak, q)
    BY <2>5, <2>6, <2>7 DEF PeakOf
  <2> QED BY <2>3, <2>8, <2>9, <2>10, <2>11 DEF Tells
<1>9. CASE price > Stop /\ price < Target
  <2>1. c = [stops |-> 0, stopSince |-> Never, takes |-> 0, peak |-> r.peak]
    <3>1. StopReset(r) = [stops |-> 0, stopSince |-> Never, takes |-> r.takes, peak |-> r.peak]
      BY <1>11
    <3>2. c = TakeCounted(StopReset(r), price) /\ ~(price >= Target)
      BY <1>1, <1>9 DEF Counted
    <3> QED BY <3>1, <3>2 DEF TakeCounted
  <2> HIDE DEF c
  <2>3. BreachesAtEnd(q) = {} /\ Hits(q) = Hits(s) /\ HitsAtEnd(q) = {}
    BY <1>3, <1>9
  <2>4. \A i \in Hits(q) : q[i] = s[i]
    BY <1>3, <1>4, <2>3
  <2>5. /\ c.stops = Cardinality(BreachesAtEnd(q)) /\ c.stopSince = Never /\ c.peak = r.peak
        /\ c.takes = Cardinality(HitsAtEnd(q))
    BY <1>4, <2>1, <2>3
  <2>6. c \in [stops : Nat, stopSince : Int, takes : Nat, peak : Int]
    BY <1>5, <2>1 DEF Never
  <2>7. PeakOf(r.peak, q)
    BY <1>5, <2>3, <2>4 DEF PeakOf
  <2> QED BY <2>3, <2>5, <2>6, <2>7 DEF Tells
<1>10. price <= Stop \/ price >= Target \/ (price > Stop /\ price < Target)
  BY <1>1
<1> QED BY <1>7, <1>8, <1>9, <1>10

\* Called, as an operator of the evaluations, the clock and the entry.
CalledBy(rule, s, at, from) ==
  LET n    == Len(s)
      p    == s[n].price
      aged == at - from >= rule.minHold
      gives == \E i \in Hits(s) : s[i].price - p >= rule.giveback
  IN  IF p <= Stop
      THEN IF rule.emergency > 0 /\ -p >= rule.emergency THEN "emergency"
           ELSE IF ~rule.stopOn \/ rule.stopCycles <= 1 THEN "stop"
           ELSE IF Cardinality(BreachesAtEnd(s)) >= rule.stopCycles THEN "stop_confirmed"
           ELSE IF rule.stopMinutes > 0 /\ at - s[Min(BreachesAtEnd(s))].t >= rule.stopMinutes THEN "stop_confirmed"
           ELSE "stop_wait"
      ELSE IF n \in Hits(s) /\ ~rule.takeOn THEN "take"
           ELSE IF rule.takeOn /\ rule.trailing /\ aged /\ gives THEN "trail"
           ELSE IF n \in Hits(s) /\ aged /\ Cardinality(HitsAtEnd(s)) >= rule.takeCycles THEN "take_confirmed"
           ELSE "hold"

\* The decision from the counters is the one from all the prices.
LEMMA DecisionAgrees ==
  ASSUME NEW r, NEW s \in Seq(Evaluation), s # <<>>, Tells(r, s), NEW rule \in ExitRules,
         now \in Nat, entry \in Nat
  PROVE  Evaluated(rule, r, s[Len(s)].price) = CalledBy(rule, s, now, entry)
<1> DEFINE n == Len(s)
           p == s[n].price
<1>1. /\ Stop \in Int /\ Target \in Int /\ Stop < Target /\ NoPeak = Stop
      /\ rule.emergency \in Nat /\ rule.stopCycles \in Nat /\ rule.stopMinutes \in Nat
      /\ rule.giveback \in Nat /\ rule.minHold \in Nat /\ rule.takeCycles \in Nat
  BY ExitAssumption DEF NoPeak
<1>2. n \in 1 .. n /\ p \in Int /\ n .. n = {n}
  <2>1. n \in 1 .. n /\ s[n] \in Evaluation /\ n \in Nat
    BY LenProperties
  <2>2. s[n].price \in Levels
    BY <2>1 DEF Evaluation
  <2>3. n .. n = {n}
    BY <2>1
  <2> QED BY <2>1, <2>2, <2>3, ExitAssumption
<1>3. PeakOf(r.peak, s) /\ r.peak \in Int
  BY DEF Tells
<1>4. \A i \in Hits(s) : s[i].price \in Int
  <2>1. \A i \in Hits(s) : s[i] \in Evaluation
    BY DEF Hits
  <2> QED BY <2>1, ExitAssumption DEF Evaluation
<1>5. n \in Hits(s) <=> p >= Target
  BY <1>2 DEF Hits
<1>6. p <= Stop => BreachesAtEnd(s) # {}
  BY <1>2 DEF BreachesAtEnd
<1> HIDE DEF n, p
<1>7. (r.peak # NoPeak /\ r.peak - p >= rule.giveback) <=> \E i \in Hits(s) : s[i].price - p >= rule.giveback
  <2>1. ASSUME NEW i \in Hits(s), s[i].price - p >= rule.giveback
        PROVE  r.peak # NoPeak /\ r.peak - p >= rule.giveback
    <3>1. s[i].price <= r.peak /\ s[i].price \in Int /\ r.peak # NoPeak
      BY <1>3, <1>4 DEF PeakOf
    <3>2. \A a, b, c, d \in Int : a <= b /\ a - c >= d => b - c >= d
      OBVIOUS
    <3>3. rule.giveback \in Int
      BY <1>1
    <3> QED BY <1>2, <1>3, <2>1, <3>1, <3>2, <3>3
  <2>2. r.peak # NoPeak => \E i \in Hits(s) : s[i].price = r.peak
    BY <1>3 DEF PeakOf
  <2> QED BY <2>1, <2>2
<1>8. (p <= -rule.emergency) <=> -p >= rule.emergency
  BY <1>1, <1>2
<1>9. CASE p <= Stop
  <2>1. r.stops = Cardinality(BreachesAtEnd(s)) /\ r.stopSince = s[Min(BreachesAtEnd(s))].t
    BY <1>6, <1>9 DEF Tells
  <2>2. Evaluated(rule, r, p) = StopReason(rule, r, p)
    BY <1>9 DEF Evaluated
  <2>3. CalledBy(rule, s, now, entry) =
          IF rule.emergency > 0 /\ -p >= rule.emergency THEN "emergency"
          ELSE IF ~rule.stopOn \/ rule.stopCycles <= 1 THEN "stop"
          ELSE IF Cardinality(BreachesAtEnd(s)) >= rule.stopCycles THEN "stop_confirmed"
          ELSE IF rule.stopMinutes > 0 /\ now - s[Min(BreachesAtEnd(s))].t >= rule.stopMinutes THEN "stop_confirmed"
          ELSE "stop_wait"
    BY <1>9 DEF CalledBy, n, p
  <2>4. StopReason(rule, r, p) = CalledBy(rule, s, now, entry)
    BY <1>8, <2>1, <2>3 DEF StopReason
  <2> QED BY <2>2, <2>4 DEF n, p
<1>10. CASE ~(p <= Stop)
  <2>1. r.takes = Cardinality(HitsAtEnd(s))
    BY DEF Tells
  <2>2. Evaluated(rule, r, p) = TakeReason(rule, r, p)
    BY <1>10 DEF Evaluated
  <2>3. CalledBy(rule, s, now, entry) =
          IF n \in Hits(s) /\ ~rule.takeOn THEN "take"
          ELSE IF rule.takeOn /\ rule.trailing /\ now - entry >= rule.minHold
                    /\ (\E i \in Hits(s) : s[i].price - p >= rule.giveback) THEN "trail"
          ELSE IF n \in Hits(s) /\ now - entry >= rule.minHold /\ Cardinality(HitsAtEnd(s)) >= rule.takeCycles THEN "take_confirmed"
          ELSE "hold"
    BY <1>10 DEF CalledBy, n, p
  <2>4. TakeReason(rule, r, p) = CalledBy(rule, s, now, entry)
    BY <1>5, <1>7, <2>1, <2>3 DEF TakeReason, p, n
  <2> QED BY <2>2, <2>4 DEF n, p
<1> QED BY <1>9, <1>10

\* A new row tells of no evaluations.
LEMMA NothingTold == Tells(Fresh, <<>>)
<1>1. <<>> \in Seq(Evaluation) /\ Len(<<>>) = 0 /\ 1 .. 0 = {}
  BY EmptySeq
<1> PICK none \in Seq(Evaluation) : none = <<>> /\ Len(none) = 0
  BY <1>1
<1>2. 1 .. Len(none) = {}
  OBVIOUS
<1>3. Hits(none) = {} /\ HitsAtEnd(none) = {} /\ BreachesAtEnd(none) = {}
  BY <1>2 DEF Hits, HitsAtEnd, BreachesAtEnd
<1>4. /\ Fresh.stops = 0 /\ Fresh.stopSince = Never /\ Fresh.takes = 0 /\ Fresh.peak = NoPeak
      /\ Fresh \in [stops : Nat, stopSince : Int, takes : Nat, peak : Int]
  BY ExitAssumption DEF Fresh, Never, NoPeak
<1>5. PeakOf(NoPeak, none)
  BY <1>3 DEF PeakOf
<1> QED BY <1>3, <1>4, <1>5, FS_EmptySet DEF Tells

\* ExitInv is an inductive invariant of cycles, minutes and exits.
THEOREM ExitInvariant == ExitSpec => []ExitInv
<1>1. ExitInit => ExitInv
  <2> SUFFICES ASSUME ExitInit PROVE ExitInv
    OBVIOUS
  <2>1. seen = <<>> /\ row = Fresh /\ now = 0 /\ entry = 0
    BY DEF ExitInit
  <2>2. Tells(row, seen) /\ Len(seen) = 0 /\ seen \in Seq(Evaluation)
    BY <2>1, NothingTold, EmptySeq
  <2>3. 1 .. Len(seen) = {}
    BY <2>2
  <2> QED BY <2>1, <2>2, <2>3 DEF ExitInv, DecidedByHistory
<1>2. ExitInv /\ [ExitNext]_exitVars => ExitInv'
  <2> SUFFICES ASSUME ExitInv, [ExitNext]_exitVars PROVE ExitInv'
    OBVIOUS
  <2>1. CASE Minute
    <3>1. now \in Nat /\ now' = now + 1 /\ UNCHANGED <<row, entry, why, seen>>
      BY <2>1 DEF Minute, ExitInv
    <3>2. seen # <<>> => seen[Len(seen)].t <= now
      BY LenProperties DEF ExitInv
    <3>3. ~(seen' # <<>> /\ seen'[Len(seen')].t = now')
      BY <3>1, <3>2
    <3>4. DecidedByHistory'
      BY <3>3 DEF DecidedByHistory
    <3>5. Tells(row, seen)' /\ (seen \in Seq(Evaluation))' /\ now' \in Nat /\ entry' \in Nat
      BY <3>1 DEF ExitInv
    <3>6. \A i \in 1 .. Len(seen') : seen'[i].t <= now'
      <4>1. \A i \in 1 .. Len(seen) : seen[i].t \in Nat /\ seen[i].t <= now
        <5>1. \A i \in 1 .. Len(seen) : seen[i] \in Evaluation
          BY DEF ExitInv
        <5> QED BY <5>1 DEF ExitInv, Evaluation
      <4> QED BY <3>1, <4>1
    <3> QED BY <3>4, <3>5, <3>6 DEF ExitInv
  <2>2. ASSUME NEW rule \in ExitRules, NEW price \in Levels, NEW also, Cycle(rule, price, also)
        PROVE  ExitInv'
    <3> DEFINE e == [t |-> now, price |-> price]
               others == also \cup TimeStop
    <3>1. /\ row' = Counted(row, price) /\ seen' = Append(seen, e)
          /\ why' = [reason |-> Decided(Evaluated(rule, Counted(row, price), price), others),
                     rule |-> rule, others |-> others]
          /\ UNCHANGED <<now, entry>>
      BY <2>2 DEF Cycle
    <3> HIDE DEF others
    <3>2. now \in Nat /\ entry \in Nat /\ seen \in Seq(Evaluation) /\ Tells(row, seen) /\ e \in Evaluation
      BY DEF ExitInv, Evaluation
    <3>3. Tells(row', seen')
      BY <3>1, <3>2, CountingTells
    <3>4. seen' \in Seq(Evaluation) /\ Len(seen') = Len(seen) + 1 /\ seen'[Len(seen')] = e
          /\ seen' # <<>> /\ \A i \in 1 .. Len(seen) : seen'[i] = seen[i]
      BY <3>1, <3>2, EmptySeq
    <3>5. \A i \in 1 .. Len(seen') : seen'[i].t <= now'
      BY <3>1, <3>2, <3>4 DEF ExitInv
    <3>6. Evaluated(rule, row', price) = CalledBy(rule, seen', now, entry)
      BY <3>2, <3>3, <3>4, DecisionAgrees
    <3>7. Called(rule)' = CalledBy(rule, seen', now', entry')
      BY DEF Called, CalledBy, Hits, HitsAtEnd, BreachesAtEnd
    <3>8. why'.rule = rule /\ why'.reason = Decided(Called(rule)', why'.others)
      BY <3>1, <3>6, <3>7
    <3> QED BY <3>1, <3>2, <3>3, <3>4, <3>5, <3>8 DEF ExitInv, DecidedByHistory
  <2>3. CASE Reentered
    <3>1. row' = Fresh /\ entry' = now /\ seen' = <<>> /\ now' = now /\ why' = [why EXCEPT !.reason = "hold"]
      BY <2>3 DEF Reentered
    <3>2. Tells(row', seen') /\ Len(seen') = 0 /\ seen' \in Seq(Evaluation)
      BY <3>1, NothingTold, EmptySeq
    <3>3. 1 .. Len(seen') = {}
      BY <3>2
    <3>4. DecidedByHistory'
      BY <3>1 DEF DecidedByHistory
    <3> QED BY <3>1, <3>2, <3>3, <3>4 DEF ExitInv
  <2>4. CASE UNCHANGED exitVars
    BY <2>4 DEF exitVars, ExitInv, DecidedByHistory, Called
  <2> QED BY <2>1, <2>2, <2>3, <2>4 DEF ExitNext
<1> QED BY <1>1, <1>2, PTL DEF ExitSpec

\* Every decision of a cycle is the one that all the prices of the row call for under the rule
\* in force (auto.rs, evaluate_confirmed_exit, update_exit_confirmation_state).
THEOREM DecisionsAreOfHistory == ExitSpec => []DecidedByHistory
<1>1. ExitInv => DecidedByHistory
  BY DEF ExitInv
<1> QED BY <1>1, ExitInvariant, PTL

\* Types; the counters of a row are at most its evaluations.
ExitTypes == ExitTypeOK /\ row.stops <= Len(seen) /\ row.takes <= Len(seen) /\ Len(seen) <= MaxSeen

\* What a price does to the fields of a row.
LEMMA CountedFields ==
  ASSUME NEW s \in [stops : Nat, stopSince : Int, takes : Nat, peak : Int], NEW price \in Int, now \in Int
  PROVE  /\ StopCounted(s) \in [stops : Nat, stopSince : Int, takes : Nat, peak : Int]
         /\ StopCounted(s).stops = s.stops + 1 /\ StopCounted(s).takes = s.takes /\ StopCounted(s).peak = s.peak
         /\ StopCounted(s).stopSince = IF s.stopSince = Never THEN now ELSE s.stopSince
         /\ LET q == TakeCounted(StopReset(s), price)
            IN  /\ q \in [stops : Nat, stopSince : Int, takes : Nat, peak : Int]
                /\ q.stops = 0 /\ q.stopSince = Never
                /\ price >= Target => q.takes = s.takes + 1 /\ q.peak = BiggerOf(s.peak, price)
                /\ ~(price >= Target) => q.takes = 0 /\ q.peak = s.peak
<1> DEFINE R == [stops : Nat, stopSince : Int, takes : Nat, peak : Int]
           since == IF s.stopSince = Never THEN now ELSE s.stopSince
           r == StopReset(s)
<1>1. StopCounted(s) = [s EXCEPT !.stops = s.stops + 1, !.stopSince = since]
  BY DEF StopCounted
<1>2. since \in Int
  OBVIOUS
<1>0. s \in R /\ s.stops \in Nat /\ s.takes \in Nat /\ s.stopSince \in Int /\ s.peak \in Int
  OBVIOUS
<1> HIDE DEF since
<1>3. ASSUME NEW m \in Int, NEW k \in Nat
      PROVE  /\ [s EXCEPT !.stops = k, !.stopSince = m] \in R
             /\ [s EXCEPT !.stops = k, !.stopSince = m].stops = k
             /\ [s EXCEPT !.stops = k, !.stopSince = m].takes = s.takes
             /\ [s EXCEPT !.stops = k, !.stopSince = m].peak = s.peak
             /\ [s EXCEPT !.stops = k, !.stopSince = m].stopSince = m
  BY <1>0
<1>4. r = [s EXCEPT !.stops = 0, !.stopSince = Never] /\ Never \in Int
  BY DEF StopReset, Never
<1> HIDE DEF r, since
<1>5. r \in R /\ r.stops = 0 /\ r.takes = s.takes /\ r.peak = s.peak /\ r.stopSince = Never
  BY <1>0, <1>3, <1>4
<1>6. BiggerOf(s.peak, price) \in Int
  BY DEF BiggerOf
<1>7. price >= Target => TakeCounted(r, price) = [r EXCEPT !.takes = r.takes + 1, !.peak = BiggerOf(r.peak, price)]
  BY DEF TakeCounted
<1>8. ~(price >= Target) => TakeCounted(r, price) = [r EXCEPT !.takes = 0]
  BY DEF TakeCounted
<1>9. ASSUME NEW m \in Int, NEW k \in Nat
      PROVE  /\ [r EXCEPT !.takes = k, !.peak = m] \in R
             /\ [r EXCEPT !.takes = k, !.peak = m].takes = k
             /\ [r EXCEPT !.takes = k, !.peak = m].peak = m
             /\ [r EXCEPT !.takes = k, !.peak = m].stops = r.stops
             /\ [r EXCEPT !.takes = k, !.peak = m].stopSince = r.stopSince
  BY <1>5
<1>12. /\ [r EXCEPT !.takes = 0] \in R
       /\ [r EXCEPT !.takes = 0].takes = 0 /\ [r EXCEPT !.takes = 0].peak = r.peak
       /\ [r EXCEPT !.takes = 0].stops = r.stops /\ [r EXCEPT !.takes = 0].stopSince = r.stopSince
  BY <1>5
<1>10. LET q == TakeCounted(r, price)
       IN  /\ q \in R /\ q.stops = 0 /\ q.stopSince = Never
           /\ price >= Target => q.takes = s.takes + 1 /\ q.peak = BiggerOf(s.peak, price)
           /\ ~(price >= Target) => q.takes = 0 /\ q.peak = s.peak
  <2>1. ASSUME price >= Target
        PROVE  LET q == TakeCounted(r, price)
               IN  /\ q \in R /\ q.stops = 0 /\ q.stopSince = Never
                   /\ q.takes = s.takes + 1 /\ q.peak = BiggerOf(s.peak, price)
    <3> DEFINE k == r.takes + 1
               m == BiggerOf(r.peak, price)
               q == [r EXCEPT !.takes = k, !.peak = m]
    <3>1. k \in Nat /\ m \in Int /\ k = s.takes + 1 /\ m = BiggerOf(s.peak, price) /\ TakeCounted(r, price) = q
      BY <1>0, <1>5, <1>6, <1>7, <2>1
    <3> HIDE DEF k, m
    <3>2. q \in R /\ q.takes = k /\ q.peak = m /\ q.stops = r.stops /\ q.stopSince = r.stopSince
      BY <1>9, <3>1
    <3> HIDE DEF q, R
    <3> QED BY <1>5, <3>1, <3>2
  <2>2. ASSUME ~(price >= Target)
        PROVE  LET q == TakeCounted(r, price)
               IN  q \in R /\ q.stops = 0 /\ q.stopSince = Never /\ q.takes = 0 /\ q.peak = s.peak
    BY <1>5, <1>8, <1>12, <2>2
  <2> QED BY <2>1, <2>2
<1>11. StopCounted(s) \in R /\ StopCounted(s).stops = s.stops + 1 /\ StopCounted(s).takes = s.takes
       /\ StopCounted(s).peak = s.peak /\ StopCounted(s).stopSince = since
  <2> DEFINE k == s.stops + 1
  <2>1. k \in Nat /\ StopCounted(s) = [s EXCEPT !.stops = k, !.stopSince = since]
    BY <1>0, <1>1
  <2> HIDE DEF k
  <2>2. StopCounted(s) \in R /\ StopCounted(s).stops = k /\ StopCounted(s).takes = s.takes
        /\ StopCounted(s).peak = s.peak /\ StopCounted(s).stopSince = since
    BY <1>2, <1>3, <2>1
  <2> QED BY <2>2 DEF k
<1> QED BY <1>10, <1>11 DEF r, since, R

\* One more price in the row, and the reason it gives.
LEMMA CountedForm ==
  ASSUME NEW Since \in SUBSET Int, Never \in Since, now \in Since, now \in Nat,
         NEW Peaks \in SUBSET Int, \A l \in Levels : l >= Target => l \in Peaks,
         NEW s \in [stops : Nat, stopSince : Since, takes : Nat, peak : Peaks],
         NEW n \in Nat, s.stops <= n, s.takes <= n, NEW price \in Levels
  PROVE  /\ Counted(s, price) \in [stops : Nat, stopSince : Since, takes : Nat, peak : Peaks]
         /\ Counted(s, price).stops <= n + 1 /\ Counted(s, price).takes <= n + 1
<1> DEFINE Form == [stops : Nat, stopSince : Since, takes : Nat, peak : Peaks]
           c == StopCounted(s)
           q == TakeCounted(StopReset(s), price)
<1>1. s \in [stops : Nat, stopSince : Int, takes : Nat, peak : Int] /\ price \in Int
  BY ExitAssumption
<1>2. /\ c \in [stops : Nat, stopSince : Int, takes : Nat, peak : Int]
      /\ c.stops = s.stops + 1 /\ c.takes = s.takes /\ c.peak = s.peak
      /\ c.stopSince = IF s.stopSince = Never THEN now ELSE s.stopSince
      /\ q \in [stops : Nat, stopSince : Int, takes : Nat, peak : Int]
      /\ q.stops = 0 /\ q.stopSince = Never
      /\ price >= Target => q.takes = s.takes + 1 /\ q.peak = BiggerOf(s.peak, price)
      /\ ~(price >= Target) => q.takes = 0 /\ q.peak = s.peak
  BY <1>1, CountedFields
<1> HIDE DEF c, q
<1>3. c \in Form /\ c.stops <= n + 1 /\ c.takes <= n + 1
  BY <1>2
<1>4. price >= Target => BiggerOf(s.peak, price) \in Peaks
  BY DEF BiggerOf
<1>5. q.peak \in Peaks /\ q.takes <= n + 1
  BY <1>2, <1>4
<1>6. q \in Form /\ q.stops <= n + 1 /\ q.takes <= n + 1
  BY <1>2, <1>5
<1>7. Counted(s, price) \in {c, q}
  BY DEF Counted, c, q
<1> QED BY <1>3, <1>6, <1>7

\* The types of a row, its clock and its decisions (auto.rs, evaluate_confirmed_exit).
THEOREM ExitTypeCorrect == ExitSpec => []ExitTypeOK
<1>1. ExitInit => ExitTypes
  <2> SUFFICES ASSUME ExitInit PROVE ExitTypes
    OBVIOUS
  <2>1. seen = <<>> /\ Len(seen) = 0 /\ seen \in Seq([t : 0 .. now, price : Levels])
    BY EmptySeq DEF ExitInit
  <2>2. why \in [reason : Waits \cup Reasons \cup OtherReasons, rule : ExitRules, others : SUBSET OtherReasons]
    BY ExitAssumption DEF ExitInit, Waits
  <2> QED BY <2>1, <2>2, ExitAssumption DEF ExitInit, ExitTypes, ExitTypeOK, Fresh
<1>2. ExitTypes /\ [ExitNext]_exitVars => ExitTypes'
  <2> SUFFICES ASSUME ExitTypes, [ExitNext]_exitVars PROVE ExitTypes'
    OBVIOUS
  <2>0. /\ now \in Nat /\ now <= MaxMinutes /\ entry \in 0 .. now /\ MaxSeen \in Nat /\ MaxMinutes \in Nat
        /\ seen \in Seq([t : 0 .. now, price : Levels]) /\ Len(seen) \in Nat
    BY ExitAssumption DEF ExitTypes, ExitTypeOK
  <2>1. CASE Minute
    <3>1. now' = now + 1 /\ now' \in 0 .. MaxMinutes /\ UNCHANGED <<row, entry, why, seen>>
      BY <2>0, <2>1 DEF Minute
    <3>2. 0 .. now \subseteq 0 .. now'
      BY <2>0, <3>1
    <3>3. \A i \in 1 .. Len(seen) : seen[i] \in [t : 0 .. now', price : Levels]
      <4> DEFINE S == [t : 0 .. now, price : Levels]
      <4>1. \A i \in 1 .. Len(seen) : seen[i] \in S
        <5>1. seen \in Seq(S)
          BY <2>0
        <5> HIDE DEF S
        <5> QED BY <5>1
      <4>2. S \subseteq [t : 0 .. now', price : Levels]
        BY <3>2
      <4> QED BY <4>1, <4>2
    <3>4. (seen \in Seq([t : 0 .. now, price : Levels]))'
      <4> DEFINE S == [t : 0 .. now, price : Levels]
                 Q == [t : 0 .. now', price : Levels]
      <4>1. seen \in Seq(S) /\ \A i \in 1 .. Len(seen) : seen[i] \in Q
        BY <2>0, <3>3
      <4>2. seen \in Seq(Q)
        <5> HIDE DEF S, Q
        <5> QED BY <4>1
      <4> QED BY <3>1, <4>2
    <3>5. (row \in [stops : 0 .. MaxSeen, stopSince : {Never} \cup (0 .. now), takes : 0 .. MaxSeen,
                    peak : {NoPeak} \cup {l \in Levels : l >= Target}])'
      BY <3>1, <3>2 DEF ExitTypes, ExitTypeOK
    <3> QED BY <2>0, <3>1, <3>2, <3>4, <3>5 DEF ExitTypes, ExitTypeOK
  <2>2. ASSUME NEW rule \in ExitRules, NEW price \in Levels,
               NEW also \in Finds, Cycle(rule, price, also)
        PROVE  ExitTypes'
    <3> DEFINE e == [t |-> now, price |-> price]
               others == also \cup TimeStop
               call == Evaluated(rule, Counted(row, price), price)
    <3>1. /\ row' = Counted(row, price) /\ seen' = Append(seen, e) /\ Len(seen) < MaxSeen
          /\ why' = [reason |-> Decided(call, others), rule |-> rule, others |-> others]
          /\ UNCHANGED <<now, entry>>
      BY <2>2 DEF Cycle
    <3>11. others \in SUBSET OtherReasons
      BY DEF Finds, TimeStop, OtherReasons
    <3>12. call \in Waits \cup Reasons
      BY DEF Evaluated, StopReason, TakeReason, Waits, Reasons
    <3> HIDE DEF others, call
    <3>2. seen' \in Seq([t : 0 .. now, price : Levels]) /\ Len(seen') = Len(seen) + 1
      <4>1. e \in [t : 0 .. now, price : Levels]
        BY <2>0
      <4> DEFINE S == [t : 0 .. now, price : Levels]
      <4>2. e \in S /\ seen \in Seq(S)
        BY <2>0, <4>1
      <4>3. Append(seen, e) \in Seq(S) /\ Len(Append(seen, e)) = Len(seen) + 1
        <5> HIDE DEF S, e
        <5> QED BY <4>2
      <4> QED BY <3>1, <4>3
    <3>3. row \in [stops : Nat, stopSince : {Never} \cup (0 .. now), takes : Nat,
                   peak : {NoPeak} \cup {l \in Levels : l >= Target}]
          /\ row.stops <= Len(seen) /\ row.takes <= Len(seen)
      BY <2>0 DEF ExitTypes, ExitTypeOK
    <3> DEFINE Since == {Never} \cup (0 .. now)
               Peaks == {NoPeak} \cup {l \in Levels : l >= Target}
    <3>7. Since \in SUBSET Int /\ Peaks \in SUBSET Int /\ Never \in Since /\ now \in Since
          /\ \A l \in Levels : l >= Target => l \in Peaks
      <4>1. now \in Nat
        BY <2>0
      <4>2. Since \in SUBSET Int /\ Never \in Since /\ now \in Since
        BY <4>1 DEF Never
      <4>3. NoPeak \in Int /\ Levels \subseteq Int
        BY ExitAssumption DEF NoPeak
      <4> QED BY <4>2, <4>3
    <3>8. row \in [stops : Nat, stopSince : Since, takes : Nat, peak : Peaks]
      BY <3>3
    <3> HIDE DEF Since, Peaks
    <3>9. /\ row' \in [stops : Nat, stopSince : Since, takes : Nat, peak : Peaks]
          /\ row'.stops <= Len(seen) + 1 /\ row'.takes <= Len(seen) + 1
      <4>1. /\ Counted(row, price) \in [stops : Nat, stopSince : Since, takes : Nat, peak : Peaks]
            /\ Counted(row, price).stops <= Len(seen) + 1 /\ Counted(row, price).takes <= Len(seen) + 1
        <5>1. now \in Nat /\ Len(seen) \in Nat /\ row.stops <= Len(seen) /\ row.takes <= Len(seen)
          BY <2>0, <3>3
        <5> QED BY <3>7, <3>8, <5>1, CountedForm
      <4> QED BY <3>1, <4>1
    <3>10. why'.reason \in Waits \cup Reasons \cup OtherReasons
      BY <3>1, <3>12 DEF Decided, OtherReasons
    <3>4. /\ row' \in [stops : Nat, stopSince : {Never} \cup (0 .. now), takes : Nat,
                       peak : {NoPeak} \cup {l \in Levels : l >= Target}]
          /\ row'.stops <= Len(seen) + 1 /\ row'.takes <= Len(seen) + 1
          /\ why'.reason \in Waits \cup Reasons \cup OtherReasons
      BY <3>9, <3>10 DEF Since, Peaks
    <3>5. /\ row' \in [stops : 0 .. MaxSeen, stopSince : {Never} \cup (0 .. now), takes : 0 .. MaxSeen,
                       peak : {NoPeak} \cup {l \in Levels : l >= Target}]
      BY <2>0, <3>1, <3>4
    <3>6. why' \in [reason : Waits \cup Reasons \cup OtherReasons, rule : ExitRules, others : SUBSET OtherReasons]
      BY <3>1, <3>4, <3>11
    <3> QED BY <2>0, <3>1, <3>2, <3>4, <3>5, <3>6 DEF ExitTypes, ExitTypeOK
  <2>3. CASE Reentered
    <3>1. row' = Fresh /\ entry' = now /\ seen' = <<>> /\ now' = now /\ why' = [why EXCEPT !.reason = "hold"]
      BY <2>3 DEF Reentered
    <3>2. Len(seen') = 0 /\ (seen \in Seq([t : 0 .. now, price : Levels]))'
      BY <3>1, EmptySeq
    <3>3. why' \in [reason : Waits \cup Reasons \cup OtherReasons, rule : ExitRules, others : SUBSET OtherReasons]
      BY <3>1 DEF ExitTypes, ExitTypeOK, Waits
    <3>4. /\ row' \in [stops : 0 .. MaxSeen, stopSince : {Never} \cup (0 .. now), takes : 0 .. MaxSeen,
                       peak : {NoPeak} \cup {l \in Levels : l >= Target}]
          /\ row'.stops = 0 /\ row'.takes = 0
      BY <2>0, <3>1 DEF Fresh
    <3>5. now' \in 0 .. MaxMinutes /\ entry' \in 0 .. now'
      BY <2>0, <3>1
    <3> QED BY <2>0, <3>1, <3>2, <3>3, <3>4, <3>5 DEF ExitTypes, ExitTypeOK
  <2>4. CASE UNCHANGED exitVars
    BY <2>4 DEF exitVars, ExitTypes, ExitTypeOK
  <2> QED BY <2>1, <2>2, <2>3, <2>4 DEF ExitNext
<1>3. ExitTypes => ExitTypeOK
  BY DEF ExitTypes
<1> QED BY <1>1, <1>2, <1>3, PTL DEF ExitSpec

-----------------------------------------------------------------------------
(* The local copy of the broker's history (ProviderSync)                     *)

\* No record up to number k shares its time with another one up to k.
Alone(k) == \A i, j \in 1 .. k : recs[i].t = recs[j].t => i = j

\* A row that says of a day order that it has not ended.
Open(r) == ~r.done /\ ~recs[r.key].gtc /\ Alone(r.key)

\* A record is stored, under any name or under one.
Stored(k) == \E r \in rows : r.key = k
StoredAs(k, ref) == \E r \in rows : r.key = k /\ r.ref = ref

\* Types; no row is of a name the account did not have by then.
RowTypes ==
  /\ SyncTypeOK
  /\ sync.ref <= name
  /\ \A r \in rows : r.key \in DOMAIN recs /\ r.ref <= sync.ref

\* The broker's list is in the order of its times, and a day order ends in time.
ListTrue ==
  /\ \A i, j \in DOMAIN recs : i <= j => recs[i].t <= recs[j].t
  /\ \A k \in DOMAIN recs :
       /\ recs[k].t <= clock
       /\ recs[k].done \/ recs[k].gtc \/ clock < recs[k].t + Day

\* What the broker had when the sync began is still there.
BeganTrue ==
  /\ began \in Seq([t : Nat, gtc : BOOLEAN, done : BOOLEAN])
  /\ DOMAIN began \subseteq DOMAIN recs
  /\ \A k \in DOMAIN began :
       /\ began[k].t = recs[k].t /\ began[k].gtc = recs[k].gtc
       /\ began[k].done => recs[k].done

\* A name has a record once, and only one name has rows with the broker's id.
NamesTrue ==
  /\ \A r, q \in rows : r.ref = q.ref /\ r.key = q.key => r = q
  /\ \A r, q \in rows : r.id /\ q.id => r.ref = q.ref
  /\ sync.at \in {"positions", "page", "ok"} /\ sync.id =>
       \A r \in rows : r.id => r.ref = sync.ref

\* The rows have no hole that a cursor would step over.
NoHoles ==
  /\ \A r \in rows : \A k \in 1 .. r.key - 1 : Alone(k) => Stored(k)
  /\ \A r, q \in rows :
       r.id /\ r.ref < q.ref /\ r.key < q.key /\ Alone(r.key) => StoredAs(r.key, q.ref)

\* A cursor does not step over a row that may be out of date.
OpenAreLate ==
  \A r, q \in rows :
    Open(r) /\ (q.ref = r.ref \/ (q.id /\ q.ref < r.ref)) =>
      recs[q.key].t < recs[r.key].t + Day

\* While pages are read, everything up to the cursor is stored and up to date.
ReadUpTo ==
  sync.at = "page" =>
    /\ sync.after < 0 \/ \E k \in DOMAIN recs : sync.after <= recs[k].t
    /\ \A k \in DOMAIN recs : recs[k].t <= sync.after /\ Alone(k) => Stored(k)
    /\ \A r \in rows :
         r.id /\ recs[r.key].t <= sync.after /\ Alone(r.key) => StoredAs(r.key, sync.ref)
    /\ \A r \in Known(sync.ref) :
         Open(r) /\ recs[r.key].t <= sync.after =>
           /\ clock < recs[r.key].t + Day
           /\ ~(r.key \in DOMAIN began /\ began[r.key].done)

SyncInv ==
  /\ RowTypes /\ ListTrue /\ BeganTrue /\ NamesTrue /\ NoHoles /\ OpenAreLate
  /\ ReadUpTo /\ HistoryIsKept

-----------------------------------------------------------------------------
\* A page of a finite set of numbers is a beginning of it, and all of it when
\* the page is not full.
LEMMA FirstPage ==
  ASSUME NEW n \in Nat, NEW S, S \subseteq 0 .. n, NEW size \in Nat \ {0},
         NEW keys, keys = {k \in S : Cardinality({j \in S : j < k}) < size}
  PROVE  /\ keys \subseteq S /\ IsFiniteSet(keys)
         /\ \A k \in keys : \A j \in S : j < k => j \in keys
         /\ Cardinality(keys) # size => keys = S
<1> DEFINE Before(k) == {j \in S : j < k}
<1>0. S \subseteq Nat /\ IsFiniteSet(S)
  <2>1. IsFiniteSet(0 .. n)
    BY FS_Interval
  <2>2. S \in SUBSET (0 .. n)
    OBVIOUS
  <2>3. IsFiniteSet(S)
    BY <2>1, <2>2, FS_Subset
  <2>4. 0 .. n \subseteq Nat
    OBVIOUS
  <2> QED BY <2>2, <2>3, <2>4
<1>1. keys \subseteq S /\ IsFiniteSet(keys)
  BY <1>0, FS_Subset
<1>2. \A k \in S : IsFiniteSet(Before(k)) /\ Cardinality(Before(k)) \in Nat
  <2> TAKE k \in S
  <2>1. Before(k) \subseteq S
    OBVIOUS
  <2> QED BY <2>1, <1>0, FS_Subset, FS_CardinalityType
<1>3. keys = {k \in S : Cardinality(Before(k)) < size}
  OBVIOUS
<1>b. \A j, k \in S : j \in Before(k) <=> j < k
  OBVIOUS
<1>c. \A k \in S : Before(k) \subseteq S
  OBVIOUS
<1> HIDE DEF Before
<1>4. \A k \in keys : \A j \in S : j < k => j \in keys
  <2> TAKE k \in keys
  <2> TAKE j \in S
  <2> SUFFICES ASSUME j < k PROVE j \in keys
    OBVIOUS
  <2>1. k \in S /\ k \in Nat /\ j \in Nat /\ Cardinality(Before(k)) < size
    BY <1>0, <1>1, <1>3
  <2>2. Before(j) \subseteq Before(k)
    <3> SUFFICES ASSUME NEW i \in Before(j) PROVE i \in Before(k)
      OBVIOUS
    <3>1. i \in S /\ i \in Nat /\ i < j
      BY <1>0, <1>b, <1>c
    <3>2. i < k
      BY <3>1, <2>1
    <3> QED BY <3>1, <3>2, <2>1, <1>b
  <2>3. Cardinality(Before(j)) <= Cardinality(Before(k))
    BY <2>2, <2>1, <1>2, FS_Subset
  <2>4. Cardinality(Before(j)) < size
    <3>1. Cardinality(Before(j)) \in Nat /\ Cardinality(Before(k)) \in Nat
      BY <1>2, <2>1
    <3> QED BY <3>1, <2>3, <2>1
  <2> QED BY <2>4, <1>3
<1>5. ASSUME Cardinality(keys) # size PROVE keys = S
  <2> SUFFICES ASSUME S \ keys # {} PROVE FALSE
    BY <1>1
  <2>1. PICK x \in S \ keys : \A y \in S \ keys : x <= y
    BY <1>0, Least
  <2>2. Before(x) \subseteq keys
    <3> SUFFICES ASSUME NEW i \in Before(x) PROVE i \in keys
      OBVIOUS
    <3>1. i \in S /\ i \in Nat /\ x \in Nat /\ i < x
      BY <1>0, <1>b, <1>c
    <3> QED BY <3>1, <2>1
  <2>3. Cardinality(Before(x)) <= Cardinality(keys)
    BY <2>2, <1>1, FS_Subset
  <2>4. ~(Cardinality(Before(x)) < size)
    BY <2>1, <1>3
  <2>5. Cardinality(keys) \in Nat
    BY <1>1, FS_CardinalityType
  <2>6. Cardinality(keys) > size
    <3>1. Cardinality(Before(x)) \in Nat
      BY <1>2
    <3> QED BY <3>1, <2>3, <2>4, <2>5, <1>5
  <2>7. keys # {}
    <3>1. Cardinality({}) = 0
      BY FS_EmptySet
    <3>2. Cardinality(keys) # 0
      BY <2>6, <2>5
    <3> QED BY <3>1, <3>2
  \* The keys are those before the greatest one, and it.
  <2>8. PICK m \in keys : \A k \in keys : k <= m
    <3>1. keys \subseteq 0 .. n
      BY <1>1
    <3> QED BY <3>1, <2>7, Greatest
  <2>9. m \in S /\ m \in Nat /\ Cardinality(Before(m)) < size
    BY <1>0, <1>1, <1>3
  <2>10. keys \subseteq Before(m) \cup {m}
    <3> SUFFICES ASSUME NEW k \in keys, k # m PROVE k \in Before(m)
      OBVIOUS
    <3>1. k \in S /\ k \in Nat /\ k <= m
      BY <2>8, <1>0, <1>1
    <3>2. k < m
      BY <3>1, <2>9
    <3> QED BY <3>1, <3>2, <2>9, <1>b
  <2>11. /\ IsFiniteSet(Before(m) \cup {m})
         /\ Cardinality(Before(m) \cup {m}) = Cardinality(Before(m)) + 1
    <3>1. m \notin Before(m)
      BY <2>9, <1>b
    <3> QED BY <3>1, <2>9, <1>2, FS_AddElement
  <2>12. Cardinality(keys) <= Cardinality(Before(m)) + 1
    <3>1. keys \in SUBSET (Before(m) \cup {m})
      BY <2>10
    <3>2. Cardinality(keys) <= Cardinality(Before(m) \cup {m})
      BY <3>1, <2>11, FS_Subset
    <3> QED BY <3>2, <2>11
  <2>13. Cardinality(Before(m)) \in Nat
    BY <2>9, <1>2
  <2> QED BY <2>12, <2>13, <2>9, <2>6, <2>5
<1> QED BY <1>1, <1>4, <1>5

-----------------------------------------------------------------------------
\* What the rows say of one another stays while neither they nor the list change.
LEMMA RowsKeep ==
  ASSUME SyncInv, UNCHANGED <<recs, rows>>
  PROVE  NoHoles' /\ OpenAreLate'
<1>1. NoHoles'
  BY DEF SyncInv, NoHoles, Alone, Stored, StoredAs
<1>2. OpenAreLate'
  BY DEF SyncInv, OpenAreLate, Open, Alone
<1> QED BY <1>1, <1>2

\* The invariant does not see the records that the list gets, nor that they end.
LEMMA ListGrows ==
  ASSUME SyncInv, UNCHANGED <<clock, name, rows, sync, began>>,
         SyncTypeOK', ListTrue', DOMAIN recs \subseteq DOMAIN recs',
         \A k \in DOMAIN recs : /\ recs'[k].t = recs[k].t /\ recs'[k].gtc = recs[k].gtc
                                /\ recs[k].done => recs'[k].done,
         \A k \in DOMAIN recs' : k \in DOMAIN recs \/ recs'[k].t = clock
  PROVE  SyncInv'
<1> USE DEF SyncInv
<1>1. /\ recs \in Seq([t : Nat, gtc : BOOLEAN, done : BOOLEAN])
      /\ recs' \in Seq([t : Nat, gtc : BOOLEAN, done : BOOLEAN])
      /\ sync \in [at : SyncSteps, id : BOOLEAN, ref : Nat, after : Int]
      /\ clock \in Nat /\ rows \subseteq Row
  BY DEF RowTypes, SyncTypeOK
<1>2. /\ DOMAIN recs = 1 .. Len(recs) /\ Len(recs) \in Nat
      /\ \A k \in DOMAIN recs : recs[k].t \in Nat
      /\ \A k \in DOMAIN recs' : recs'[k].t \in Nat /\ k \in Nat
  <2> DEFINE Rec == [t : Nat, gtc : BOOLEAN, done : BOOLEAN]
  <2>1. \A rec \in Rec : rec.t \in Nat
    OBVIOUS
  <2> HIDE DEF Rec
  <2>2. recs \in Seq(Rec) /\ recs' \in Seq(Rec)
    BY <1>1 DEF Rec
  <2>3. /\ DOMAIN recs = 1 .. Len(recs) /\ Len(recs) \in Nat
        /\ \A k \in DOMAIN recs : recs[k] \in Rec
        /\ \A k \in DOMAIN recs' : recs'[k] \in Rec /\ k \in Nat
    BY <2>2
  <2> QED BY <2>1, <2>3
<1>3. \A r \in rows : r.key \in DOMAIN recs
  BY DEF RowTypes
<1>4. \A k \in DOMAIN recs : Alone(k)' <=> Alone(k)
  <2> TAKE k \in DOMAIN recs
  <2>1. \A i \in 1 .. k : i \in DOMAIN recs
    BY <1>2
  <2> QED BY <2>1 DEF Alone
<1>5. \A r \in rows : /\ Open(r)' <=> Open(r)
                      /\ Alone(r.key)' <=> Alone(r.key)
                      /\ recs'[r.key].t = recs[r.key].t
  BY <1>3, <1>4 DEF Open
<1>6. \A k, ref : (Stored(k)' <=> Stored(k)) /\ (StoredAs(k, ref)' <=> StoredAs(k, ref))
  BY DEF Stored, StoredAs
<1>7. RowTypes'
  BY DEF RowTypes
<1>8. BeganTrue'
  BY DEF BeganTrue
<1>9. NamesTrue'
  BY DEF NamesTrue
<1>10. NoHoles'
  <2>1. ASSUME NEW r \in rows, NEW k \in 1 .. r.key - 1, Alone(k)' PROVE Stored(k)'
    <3>1. k \in DOMAIN recs
      BY <1>2, <1>3
    <3> QED BY <3>1, <2>1, <1>4, <1>6 DEF NoHoles
  <2>2. \A r, q \in rows :
          r.id /\ r.ref < q.ref /\ r.key < q.key /\ Alone(r.key)' => StoredAs(r.key, q.ref)'
    BY <1>5, <1>6 DEF NoHoles
  <2> QED BY <2>1, <2>2 DEF NoHoles
<1>11. OpenAreLate'
  BY <1>5 DEF OpenAreLate
<1>12. ReadUpTo'
  <2> SUFFICES ASSUME sync.at = "page"
               PROVE  /\ sync.after < 0 \/ \E k \in DOMAIN recs' : sync.after <= recs'[k].t
                      /\ \A k \in DOMAIN recs' :
                           recs'[k].t <= sync.after /\ Alone(k)' => Stored(k)'
                      /\ \A r \in rows :
                           r.id /\ recs'[r.key].t <= sync.after /\ Alone(r.key)'
                             => StoredAs(r.key, sync.ref)'
                      /\ \A r \in Known(sync.ref) :
                           Open(r)' /\ recs'[r.key].t <= sync.after =>
                             /\ clock < recs'[r.key].t + Day
                             /\ ~(r.key \in DOMAIN began /\ began[r.key].done)
    BY DEF ReadUpTo, Known
  <2>1. sync.after < 0 \/ \E k \in DOMAIN recs' : sync.after <= recs'[k].t
    BY DEF ReadUpTo
  <2>2. ASSUME NEW k \in DOMAIN recs', recs'[k].t <= sync.after, Alone(k)' PROVE Stored(k)'
    <3>1. CASE k \in DOMAIN recs
      BY <3>1, <2>2, <1>4, <1>6 DEF ReadUpTo
    \* A new record is as late as the cursor only if another one is, too.
    <3>2. CASE k \notin DOMAIN recs
      <4>1. recs'[k].t = clock
        BY <3>2
      <4>2. PICK j \in DOMAIN recs : sync.after <= recs[j].t
        BY <4>1, <2>2, <1>1 DEF ReadUpTo
      <4>3. recs[j].t <= clock /\ recs'[j].t = recs[j].t
        BY DEF ListTrue
      <4>4. recs'[j].t = recs'[k].t
        BY <4>1, <4>2, <4>3, <2>2, <1>1, <1>2
      <4>5. j < k /\ j \in 1 .. k /\ k \in 1 .. k
        BY <3>2, <1>1, <1>2
      <4> QED BY <4>4, <4>5, <2>2 DEF Alone
    <3> QED BY <3>1, <3>2
  <2>3. \A r \in rows : r.id /\ recs'[r.key].t <= sync.after /\ Alone(r.key)'
                          => StoredAs(r.key, sync.ref)'
    BY <1>5, <1>6 DEF ReadUpTo
  <2>4. \A r \in Known(sync.ref) :
          Open(r)' /\ recs'[r.key].t <= sync.after =>
            /\ clock < recs'[r.key].t + Day
            /\ ~(r.key \in DOMAIN began /\ began[r.key].done)
    BY <1>5 DEF ReadUpTo, Known
  <2> QED BY <2>1, <2>2, <2>3, <2>4
<1>13. HistoryIsKept'
  BY DEF HistoryIsKept, HistoryIsComplete, EndsAreKnown, StoredOnce, TimesDiffer, Known
<1> QED BY <1>7, <1>8, <1>9, <1>10, <1>11, <1>12, <1>13

\* A new record, the end of one, and a later clock.
LEMMA ListSteps ==
  ASSUME SyncInv,
         Passes \/ (\E gtc \in BOOLEAN : Adds(gtc)) \/ (\E k \in 1 .. MaxRecs : Ends(k))
  PROVE  SyncInv'
<1> DEFINE Rec == [t : Nat, gtc : BOOLEAN, done : BOOLEAN]
<1>1. /\ recs \in Seq(Rec) /\ clock \in Nat /\ rows \subseteq Row /\ list \in Lists
      /\ clock \in 0 .. MaxTime
      /\ sync \in [at : SyncSteps, id : BOOLEAN, ref : Nat, after : Int]
  BY DEF SyncInv, RowTypes, SyncTypeOK
<1>2. /\ DOMAIN recs = 1 .. Len(recs) /\ Len(recs) \in Nat
      /\ \A k \in DOMAIN recs : recs[k] \in Rec /\ recs[k].t \in Nat /\ recs[k].t <= clock
      /\ Day \in Nat \ {0} /\ MaxTime \in Nat
  <2>1. \A rec \in Rec : rec.t \in Nat
    OBVIOUS
  <2> HIDE DEF Rec
  <2>2. /\ DOMAIN recs = 1 .. Len(recs) /\ Len(recs) \in Nat
        /\ \A k \in DOMAIN recs : recs[k] \in Rec
    BY <1>1
  <2> QED BY <2>1, <2>2, SyncAssumption DEF SyncInv, ListTrue
<1> HIDE DEF Rec
<1>3. CASE Passes
  <2>1. clock' = clock + 1 /\ UNCHANGED <<list, recs, name, rows, sync, failed, began>>
    BY <1>3 DEF Passes
  <2>2. sync.at \in {"idle", "ok"} /\ clock < MaxTime
    BY <1>3 DEF Passes
  <2>3. ListTrue'
    <3>1. \A k \in DOMAIN recs : recs[k].t <= clock + 1
      BY <1>1, <1>2
    <3>2. \A k \in DOMAIN recs : recs[k].done \/ recs[k].gtc \/ clock + 1 < recs[k].t + Day
      BY <1>3 DEF Passes
    <3> QED BY <3>1, <3>2, <2>1 DEF ListTrue, SyncInv
  <2>4. clock' \in 0 .. MaxTime
    BY <2>1, <2>2, <1>1, <1>2
  <2>5. RowTypes' /\ BeganTrue' /\ NamesTrue'
    BY <2>1, <2>4 DEF SyncInv, RowTypes, SyncTypeOK, BeganTrue, NamesTrue
  <2>6. ReadUpTo'
    BY <2>1, <2>2 DEF ReadUpTo
  <2>7. HistoryIsKept'
    BY <2>1 DEF SyncInv, HistoryIsKept, HistoryIsComplete, EndsAreKnown, StoredOnce,
                TimesDiffer, Known
  <2> QED BY <2>1, <2>3, <2>5, <2>6, <2>7, RowsKeep DEF SyncInv
<1>4. ASSUME NEW gtc \in BOOLEAN, Adds(gtc) PROVE SyncInv'
  <2> DEFINE new == [t |-> clock, gtc |-> gtc, done |-> list = "fills"]
  <2>1. /\ recs' = Append(recs, new) /\ (list = "fills" => ~gtc)
        /\ UNCHANGED <<clock, list, name, rows, sync, failed, began>>
    BY <1>4 DEF Adds
  <2>2. new \in Rec /\ new.t = clock
    BY <1>1 DEF Rec
  <2> HIDE DEF new
  <2>3. /\ recs' \in Seq(Rec) /\ DOMAIN recs' = 1 .. Len(recs) + 1
        /\ \A k \in DOMAIN recs : recs'[k] = recs[k]
        /\ recs'[Len(recs) + 1] = new
    BY <2>1, <2>2, <1>1, <1>2, AppendProperties
  <2>4. SyncTypeOK'
    BY <2>1, <2>3 DEF SyncInv, RowTypes, SyncTypeOK, Rec
  <2>5. \A k \in DOMAIN recs' : k \in DOMAIN recs \/ k = Len(recs) + 1
    BY <2>3, <1>2
  <2>6. ListTrue'
    <3>1. ASSUME NEW i \in DOMAIN recs', NEW j \in DOMAIN recs', i <= j
          PROVE  recs'[i].t <= recs'[j].t
      <4>1. CASE j \in DOMAIN recs
        <5>1. i \in DOMAIN recs
          BY <4>1, <3>1, <2>3, <1>2
        <5> QED BY <5>1, <4>1, <3>1, <2>3 DEF SyncInv, ListTrue
      <4>2. CASE j = Len(recs) + 1
        <5>1. recs'[j].t = clock
          BY <4>2, <2>2, <2>3
        <5>2. recs'[i].t <= clock
          BY <2>2, <2>3, <2>5, <1>1, <1>2
        <5> QED BY <5>1, <5>2
      <4> QED BY <4>1, <4>2, <2>5
    <3>2. ASSUME NEW k \in DOMAIN recs'
          PROVE  /\ recs'[k].t <= clock
                 /\ recs'[k].done \/ recs'[k].gtc \/ clock < recs'[k].t + Day
      <4>1. CASE k \in DOMAIN recs
        BY <4>1, <2>3 DEF SyncInv, ListTrue
      <4>2. CASE k = Len(recs) + 1
        BY <4>2, <2>2, <2>3, <1>1, <1>2
      <4> QED BY <4>1, <4>2, <2>5
    <3> QED BY <3>1, <3>2, <2>1 DEF ListTrue
  <2>7. \A k \in DOMAIN recs' : k \in DOMAIN recs \/ recs'[k].t = clock
    BY <2>2, <2>3, <2>5
  <2>8. DOMAIN recs \subseteq DOMAIN recs'
    BY <2>3, <1>2
  <2> QED BY <2>1, <2>3, <2>4, <2>6, <2>7, <2>8, ListGrows
<1>5. ASSUME NEW k \in 1 .. MaxRecs, Ends(k) PROVE SyncInv'
  <2>1. /\ recs' = [recs EXCEPT ![k].done = TRUE] /\ k \in DOMAIN recs
        /\ UNCHANGED <<clock, list, name, rows, sync, failed, began>>
    BY <1>5 DEF Ends
  <2> DEFINE ended == [recs[k] EXCEPT !.done = TRUE]
  <2>2. /\ ended \in Rec /\ ended.t = recs[k].t /\ ended.gtc = recs[k].gtc /\ ended.done
    BY <2>1, <1>2 DEF Rec
  <2>3. recs' = [recs EXCEPT ![k] = ended]
    BY <2>1
  <2> HIDE DEF ended
  <2>4. /\ recs' \in Seq(Rec) /\ DOMAIN recs' = DOMAIN recs
        /\ \A j \in DOMAIN recs : recs'[j] = IF j = k THEN ended ELSE recs[j]
    <3>1. ended \in Rec /\ k \in 1 .. Len(recs)
      BY <2>1, <2>2, <1>2
    <3>2. /\ recs' \in Seq(Rec) /\ Len(recs') = Len(recs)
          /\ \A j \in 1 .. Len(recs) : recs'[j] = IF j = k THEN ended ELSE recs[j]
      BY <3>1, <2>3, <1>1, ExceptSeq
    <3>3. DOMAIN recs' = 1 .. Len(recs')
      BY <3>2
    <3> QED BY <3>2, <3>3, <1>2
  <2>5. \A j \in DOMAIN recs : /\ recs'[j].t = recs[j].t /\ recs'[j].gtc = recs[j].gtc
                               /\ recs[j].done => recs'[j].done
    BY <2>2, <2>4
  <2>6. SyncTypeOK'
    BY <2>1, <2>4 DEF SyncInv, RowTypes, SyncTypeOK, Rec
  <2>7. ListTrue'
    BY <2>1, <2>4, <2>5 DEF SyncInv, ListTrue
  <2> QED BY <2>1, <2>4, <2>5, <2>6, <2>7, ListGrows
<1> QED BY <1>3, <1>4, <1>5

\* A new name, the start of a sync and its failure leave the rows alone.
LEMMA NameSteps ==
  ASSUME SyncInv, Renamed \/ SyncBegins \/ SyncFails
  PROVE  SyncInv'
<1>1. /\ recs \in Seq([t : Nat, gtc : BOOLEAN, done : BOOLEAN])
      /\ sync \in [at : SyncSteps, id : BOOLEAN, ref : Nat, after : Int]
      /\ name \in 0 .. MaxRenames /\ failed \in 0 .. MaxFailed
      /\ MaxRenames \in Nat /\ MaxFailed \in Nat /\ sync.ref <= name
      /\ \A r \in rows : r.ref <= sync.ref /\ r.ref \in Nat
  BY SyncAssumption DEF SyncInv, RowTypes, SyncTypeOK, Row
<1>2. CASE Renamed
  <2>1. name' = name + 1 /\ name < MaxRenames
        /\ UNCHANGED <<clock, list, recs, rows, sync, failed, began>>
    BY <1>2 DEF Renamed
  <2>2. name' \in 0 .. MaxRenames /\ sync.ref <= name'
    BY <2>1, <1>1
  <2>3. RowTypes' /\ ListTrue' /\ BeganTrue' /\ NamesTrue'
    BY <2>1, <2>2 DEF SyncInv, RowTypes, SyncTypeOK, ListTrue, BeganTrue, NamesTrue
  <2>4. ReadUpTo'
    BY <2>1 DEF SyncInv, ReadUpTo, Alone, Stored, StoredAs, Known, Open
  <2>5. HistoryIsKept'
    BY <2>1 DEF SyncInv, HistoryIsKept, HistoryIsComplete, EndsAreKnown, StoredOnce,
                TimesDiffer, Known
  <2> QED BY <2>1, <2>3, <2>4, <2>5, RowsKeep DEF SyncInv
<1>3. CASE SyncBegins
  <2>1. /\ sync' = [sync EXCEPT !.at = "account", !.ref = name] /\ began' = recs
        /\ UNCHANGED <<clock, list, recs, name, rows, failed>>
    BY <1>3 DEF SyncBegins
  <2>2. /\ sync' \in [at : SyncSteps, id : BOOLEAN, ref : Nat, after : Int]
        /\ sync'.ref = name /\ sync'.at = "account"
    <3>1. "account" \in SyncSteps
      BY DEF SyncSteps
    <3>2. name \in Nat
      BY <1>1
    <3> QED BY <3>1, <3>2, <2>1, <1>1
  <2>3. \A r \in rows : r.ref <= name
    BY <1>1
  <2>4. RowTypes' /\ ListTrue' /\ BeganTrue' /\ NamesTrue'
    <3>1. RowTypes'
      BY <2>1, <2>2, <2>3, <1>1 DEF SyncInv, RowTypes, SyncTypeOK
    <3>2. ListTrue' /\ BeganTrue' /\ NamesTrue'
      BY <2>1, <2>2, <1>1 DEF SyncInv, ListTrue, BeganTrue, NamesTrue
    <3> QED BY <3>1, <3>2
  <2>5. ReadUpTo' /\ HistoryIsKept'
    BY <2>2 DEF ReadUpTo, HistoryIsKept, HistoryIsComplete, EndsAreKnown, StoredOnce
  <2> QED BY <2>1, <2>4, <2>5, RowsKeep DEF SyncInv
<1>4. CASE SyncFails
  <2>1. /\ sync' = [sync EXCEPT !.at = "idle"] /\ failed' = failed + 1 /\ failed < MaxFailed
        /\ UNCHANGED <<clock, list, recs, name, rows, began>>
    BY <1>4 DEF SyncFails
  <2>2. /\ sync' \in [at : SyncSteps, id : BOOLEAN, ref : Nat, after : Int]
        /\ sync'.ref = sync.ref /\ sync'.at = "idle"
        /\ failed' \in 0 .. MaxFailed
    <3>1. failed' \in 0 .. MaxFailed
      BY <2>1, <1>1
    <3>2. "idle" \in SyncSteps
      BY DEF SyncSteps
    <3> QED BY <3>1, <3>2, <2>1, <1>1
  <2>3. RowTypes' /\ ListTrue' /\ BeganTrue' /\ NamesTrue'
    <3>1. RowTypes'
      BY <2>1, <2>2, <1>1 DEF SyncInv, RowTypes, SyncTypeOK
    <3>2. ListTrue' /\ BeganTrue' /\ NamesTrue'
      BY <2>1, <2>2, <1>1 DEF SyncInv, ListTrue, BeganTrue, NamesTrue
    <3> QED BY <3>1, <3>2
  <2>4. ReadUpTo' /\ HistoryIsKept'
    BY <2>2 DEF ReadUpTo, HistoryIsKept, HistoryIsComplete, EndsAreKnown, StoredOnce
  <2> QED BY <2>1, <2>3, <2>4, RowsKeep DEF SyncInv
<1> QED BY <1>2, <1>3, <1>4

\* The rows that the move to the current name leaves: those that stay, and those
\* that come from another name, where the current one had none of the record.
LEMMA MovedRows ==
  ASSUME NEW ref \in Nat, rows \subseteq Row
  PROVE  /\ Moved(ref) \subseteq Row
         /\ \A r \in Moved(ref) :
              \/ r \in rows /\ (r.id => r.ref = ref)
              \/ /\ r.ref = ref /\ r.id
                 /\ \E o \in rows : /\ o.id /\ o.ref # ref
                                    /\ o.key = r.key /\ o.done = r.done
                                    /\ r = [o EXCEPT !.ref = ref]
                 /\ \A q \in rows : ~(q.ref = ref /\ q.key = r.key)
         /\ \A k : (\E r \in rows : r.key = k) => \E r \in Moved(ref) : r.key = k
<1> DEFINE old == {r \in rows : r.id /\ r.ref # ref}
           twin(r) == \E q \in rows : q.ref = ref /\ q.key = r.key
           lone == {q \in old : ~twin(q)}
<1>1. Moved(ref) = (rows \ old) \cup {[r EXCEPT !.ref = ref] : r \in lone}
  BY DEF Moved
<1>2. \A o \in Row : LET r == [o EXCEPT !.ref = ref] IN
        r \in Row /\ r.ref = ref /\ r.key = o.key /\ r.done = o.done /\ r.id = o.id
  BY DEF Row
<1>3. \A r \in lone : r \in rows /\ r \in Row /\ r.id /\ r.ref # ref /\ ~twin(r)
  OBVIOUS
<1>4. \A r \in rows \ old : r \in rows /\ r \in Row /\ (r.id => r.ref = ref)
  OBVIOUS
<1>5. \A r \in rows : r \in old \/ r \in rows \ old
  OBVIOUS
<1>6. \A r \in old : r \in lone \/ \E q \in rows : q.ref = ref /\ q.key = r.key
  OBVIOUS
<1>7. \A q \in rows : q.ref = ref => q \in rows \ old
  OBVIOUS
<1>8. \A r \in lone : \A q \in rows : ~(q.ref = ref /\ q.key = r.key)
  OBVIOUS
<1> HIDE DEF old, twin, lone
<1>9. Moved(ref) \subseteq Row
  BY <1>1, <1>2, <1>3, <1>4
<1>10. ASSUME NEW r \in Moved(ref)
       PROVE  \/ r \in rows /\ (r.id => r.ref = ref)
              \/ /\ r.ref = ref /\ r.id
                 /\ \E o \in rows : /\ o.id /\ o.ref # ref
                                    /\ o.key = r.key /\ o.done = r.done
                                    /\ r = [o EXCEPT !.ref = ref]
                 /\ \A q \in rows : ~(q.ref = ref /\ q.key = r.key)
  <2>1. CASE r \in rows \ old
    BY <2>1, <1>4
  <2>2. ASSUME NEW o \in lone, r = [o EXCEPT !.ref = ref]
        PROVE  /\ r.ref = ref /\ r.id
               /\ \E o1 \in rows : /\ o1.id /\ o1.ref # ref
                                   /\ o1.key = r.key /\ o1.done = r.done
                                   /\ r = [o1 EXCEPT !.ref = ref]
               /\ \A q \in rows : ~(q.ref = ref /\ q.key = r.key)
    <3>1. r.ref = ref /\ r.key = o.key /\ r.done = o.done /\ r.id = o.id
      BY <2>2, <1>2, <1>3
    <3>2. o \in rows /\ o.id /\ o.ref # ref
      BY <1>3
    <3>3. \A q \in rows : ~(q.ref = ref /\ q.key = r.key)
      BY <3>1, <1>8
    <3> QED BY <3>1, <3>2, <3>3, <2>2
  <2> QED BY <2>1, <2>2, <1>1
<1>11. ASSUME NEW q \in rows PROVE \E r \in Moved(ref) : r.key = q.key
  <2>1. CASE q \in rows \ old
    BY <2>1, <1>1
  <2>2. CASE q \in old
    <3>1. CASE q \in lone
      BY <3>1, <1>1, <1>2, <1>3
    <3>2. CASE \E p \in rows : p.ref = ref /\ p.key = q.key
      BY <3>2, <1>7, <1>1
    <3> QED BY <3>1, <3>2, <2>2, <1>6
  <2> QED BY <2>1, <2>2, <1>5
<1> QED BY <1>9, <1>10, <1>11

\* The account call: with the broker's id, its rows take the current name.
LEMMA AccountStep ==
  ASSUME SyncInv, ReadAccount
  PROVE  SyncInv'
<1> DEFINE R == sync.ref
<1>1. /\ recs \in Seq([t : Nat, gtc : BOOLEAN, done : BOOLEAN])
      /\ sync \in [at : SyncSteps, id : BOOLEAN, ref : Nat, after : Int]
      /\ failed \in 0 .. MaxFailed /\ MaxFailed \in Nat /\ R \in Nat /\ rows \subseteq Row
      /\ Day \in Nat \ {0}
  BY SyncAssumption DEF SyncInv, RowTypes, SyncTypeOK
<1>2. \A r \in rows : /\ r.ref \in Nat /\ r.key \in Nat /\ r.id \in BOOLEAN /\ r.done \in BOOLEAN
                      /\ r.key \in DOMAIN recs /\ r.ref <= R
  BY <1>1 DEF SyncInv, RowTypes, Row
<1>3. \A k \in DOMAIN recs : recs[k].t \in Nat /\ k \in Nat
  <2> DEFINE Rec == [t : Nat, gtc : BOOLEAN, done : BOOLEAN]
  <2>1. \A rec \in Rec : rec.t \in Nat
    OBVIOUS
  <2> HIDE DEF Rec
  <2>2. recs \in Seq(Rec)
    BY <1>1 DEF Rec
  <2>3. \A k \in DOMAIN recs : recs[k] \in Rec /\ k \in Nat
    BY <2>2
  <2> QED BY <2>1, <2>3
<1>4. UNCHANGED <<clock, list, recs, name, began>> /\ sync.at = "account"
  BY DEF ReadAccount
<1>5. ListTrue' /\ BeganTrue'
  BY <1>4 DEF SyncInv, ListTrue, BeganTrue
<1>6. CASE /\ sync' = [sync EXCEPT !.at = "positions", !.id = FALSE]
           /\ failed < MaxFailed /\ failed' = failed + 1 /\ UNCHANGED rows
  <2>1. PICK no \in BOOLEAN : no = FALSE
    OBVIOUS
  <2>2. sync' = [sync EXCEPT !.at = "positions", !.id = no]
    BY <1>6, <2>1, Zenon
  <2>3. /\ sync' \in [at : SyncSteps, id : BOOLEAN, ref : Nat, after : Int]
        /\ sync'.at = "positions" /\ sync'.ref = R /\ ~sync'.id
    BY <2>1, <2>2, <1>1 DEF SyncSteps
  <2>4. failed' \in 0 .. MaxFailed /\ rows' = rows
    BY <1>6, <1>1
  <2>5. RowTypes' /\ NamesTrue'
    <3>1. RowTypes'
      BY <2>3, <2>4, <1>4 DEF SyncInv, RowTypes, SyncTypeOK
    <3> QED BY <3>1, <2>3, <2>4 DEF SyncInv, NamesTrue
  <2>6. ReadUpTo' /\ HistoryIsKept'
    BY <2>3 DEF ReadUpTo, HistoryIsKept, HistoryIsComplete, EndsAreKnown, StoredOnce
  <2> QED BY <2>4, <2>5, <2>6, <1>4, <1>5, RowsKeep DEF SyncInv
<1>7. CASE /\ sync' = [sync EXCEPT !.at = "positions", !.id = TRUE]
           /\ rows' = Moved(R) /\ UNCHANGED failed
  <2>1. PICK yes \in BOOLEAN : yes = TRUE
    OBVIOUS
  <2>2. sync' = [sync EXCEPT !.at = "positions", !.id = yes]
    BY <1>7, <2>1, Zenon
  <2>3. /\ sync' \in [at : SyncSteps, id : BOOLEAN, ref : Nat, after : Int]
        /\ sync'.at = "positions" /\ sync'.ref = R /\ sync'.id
    BY <2>1, <2>2, <1>1 DEF SyncSteps
  <2> DEFINE Stays(r) == r \in rows /\ (r.id => r.ref = R)
             Came(r) == /\ r.ref = R /\ r.id
                        /\ \E o \in rows : /\ o.id /\ o.ref # R
                                           /\ o.key = r.key /\ o.done = r.done
                                           /\ r = [o EXCEPT !.ref = R]
                        /\ \A q \in rows : ~(q.ref = R /\ q.key = r.key)
  <2>4. /\ rows' \subseteq Row
        /\ \A r \in rows' : Stays(r) \/ Came(r)
        /\ \A k : Stored(k) => Stored(k)'
    <3>1. /\ Moved(R) \subseteq Row
          /\ \A r \in Moved(R) : Stays(r) \/ Came(r)
          /\ \A k : (\E r \in rows : r.key = k) => \E r \in Moved(R) : r.key = k
      BY MovedRows, <1>1
    <3> QED BY <3>1, <1>7 DEF Stored
  <2>5. \A r \in rows' : Came(r) => \E o \in rows : o.id /\ o.ref # R /\ o.key = r.key /\ o.done = r.done
    OBVIOUS
  <2>6. \A r \in rows' : Came(r) => r.ref = R /\ r.id /\ \A q \in rows : ~(q.ref = R /\ q.key = r.key)
    OBVIOUS
  <2>7. \A r \in rows' : Stays(r) => r \in rows /\ (r.id => r.ref = R)
    OBVIOUS
  <2>8. \A r, q \in rows' : Came(r) /\ Came(q) /\ r.key = q.key => r = q
    <3> SUFFICES ASSUME NEW r \in rows', NEW q \in rows', Came(r), Came(q), r.key = q.key
                 PROVE  r = q
      OBVIOUS
    <3>1. PICK o \in rows : o.id /\ o.key = r.key /\ r = [o EXCEPT !.ref = R]
      OBVIOUS
    <3>2. PICK p \in rows : p.id /\ p.key = q.key /\ q = [p EXCEPT !.ref = R]
      OBVIOUS
    <3>3. o = p
      BY <3>1, <3>2 DEF SyncInv, NamesTrue
    <3> QED BY <3>1, <3>2, <3>3
  <2> HIDE DEF Stays, Came
  <2>9. \A r \in rows' : /\ r.ref \in Nat /\ r.key \in DOMAIN recs /\ r.key \in Nat /\ r.ref <= R
                         /\ r.id => r.ref = R
    BY <2>4, <2>5, <2>6, <2>7, <1>1, <1>2
  <2>10. RowTypes'
    BY <2>3, <2>4, <2>9, <1>4, <1>7 DEF SyncInv, RowTypes, SyncTypeOK
  <2>11. NamesTrue'
    <3>1. ASSUME NEW r \in rows', NEW q \in rows', r.ref = q.ref, r.key = q.key PROVE r = q
      <4>1. CASE Stays(r) /\ Stays(q)
        BY <4>1, <3>1, <2>7 DEF SyncInv, NamesTrue
      <4>2. CASE Came(r) /\ Came(q)
        BY <4>2, <3>1, <2>8
      <4>3. CASE Stays(r) /\ Came(q)
        BY <4>3, <3>1, <2>6, <2>7
      <4>4. CASE Came(r) /\ Stays(q)
        BY <4>4, <3>1, <2>6, <2>7
      <4> QED BY <4>1, <4>2, <4>3, <4>4, <2>4
    <3>2. \A r \in rows' : r.id => r.ref = sync'.ref
      BY <2>9, <2>3
    <3>3. \A r, q \in rows' : r.id /\ q.id => r.ref = q.ref
      BY <3>2
    <3> QED BY <3>1, <3>2, <3>3 DEF NamesTrue
  <2>12. \A r \in rows' : \E o \in rows : o.key = r.key /\ o.done = r.done
    BY <2>4, <2>5, <2>7
  <2>13. NoHoles'
    <3>1. ASSUME NEW r \in rows', NEW k \in 1 .. r.key - 1, Alone(k)' PROVE Stored(k)'
      <4>1. PICK o \in rows : o.key = r.key
        BY <2>12
      <4>2. Alone(k)
        BY <3>1, <1>4 DEF Alone
      <4>3. Stored(k)
        BY <4>1, <4>2 DEF SyncInv, NoHoles
      <4> QED BY <4>3, <2>4
    <3>2. ASSUME NEW r \in rows', NEW q \in rows', r.id, r.ref < q.ref PROVE FALSE
      BY <3>2, <2>9, <1>1
    <3> QED BY <3>1, <3>2 DEF NoHoles
  <2>14. OpenAreLate'
    <3> SUFFICES ASSUME NEW r \in rows', NEW q \in rows', Open(r)',
                        q.ref = r.ref \/ (q.id /\ q.ref < r.ref)
                 PROVE  recs[q.key].t < recs[r.key].t + Day
      BY <1>4 DEF OpenAreLate
    <3>1. q.ref = r.ref
      BY <2>9, <1>1
    <3>2. ~r.done /\ ~recs[r.key].gtc /\ Alone(r.key)
      BY <1>4 DEF Open, Alone
    <3>3. recs[r.key].t \in Nat /\ recs[q.key].t \in Nat
      BY <2>9, <1>3
    <3>4. CASE Stays(r) /\ Stays(q)
      BY <3>4, <3>1, <3>2, <2>7 DEF SyncInv, OpenAreLate, Open
    <3>5. CASE Came(r) /\ Came(q)
      <4>1. PICK o \in rows : o.id /\ o.key = r.key /\ o.done = r.done
        BY <3>5, <2>5
      <4>2. PICK p \in rows : p.id /\ p.key = q.key
        BY <3>5, <2>5
      <4>3. o.ref = p.ref
        BY <4>1, <4>2 DEF SyncInv, NamesTrue
      <4>4. Open(o)
        BY <4>1, <3>2 DEF Open
      <4>5. recs[p.key].t < recs[o.key].t + Day
        BY <4>3, <4>4 DEF SyncInv, OpenAreLate
      <4> QED BY <4>1, <4>2, <4>5
    <3>6. CASE Stays(r) /\ Came(q)
      <4>1. PICK p \in rows : p.id /\ p.ref # R /\ p.key = q.key
        BY <3>6, <2>5
      <4>2. r \in rows /\ r.ref = R /\ p.ref < R
        BY <3>6, <3>1, <2>6, <2>7, <4>1, <1>1, <1>2
      <4>3. Open(r)
        BY <3>2 DEF Open
      <4>4. recs[p.key].t < recs[r.key].t + Day
        BY <4>1, <4>2, <4>3 DEF SyncInv, OpenAreLate
      <4> QED BY <4>1, <4>4
    <3>7. CASE Came(r) /\ Stays(q)
      <4>1. PICK o \in rows : o.id /\ o.ref # R /\ o.key = r.key /\ o.done = r.done
        BY <3>7, <2>5
      <4>2. q \in rows /\ q.ref = R /\ o.ref < R
        BY <3>7, <3>1, <2>6, <2>7, <4>1, <1>1, <1>2
      <4>3. ~StoredAs(r.key, R)
        BY <3>7, <2>6 DEF StoredAs
      <4>4. ~(r.key < q.key)
        BY <4>1, <4>2, <4>3, <3>2 DEF SyncInv, NoHoles
      <4>5. q.key <= r.key
        BY <4>4, <2>9
      <4>6. recs[q.key].t <= recs[r.key].t
        BY <4>5, <2>9 DEF SyncInv, ListTrue
      <4>7. Day \in Nat \ {0}
        BY <1>1
      <4> QED BY <4>6, <4>7, <3>3
    <3> QED BY <3>4, <3>5, <3>6, <3>7, <2>4
  <2>15. ReadUpTo' /\ HistoryIsKept'
    BY <2>3 DEF ReadUpTo, HistoryIsKept, HistoryIsComplete, EndsAreKnown, StoredOnce
  <2> QED BY <2>10, <2>11, <2>13, <2>14, <2>15, <1>5 DEF SyncInv
<1> QED BY <1>6, <1>7 DEF ReadAccount

\* What the invariant says of the types, and of the order of the list.
LEMMA SyncFacts ==
  ASSUME SyncInv
  PROVE  /\ sync \in [at : SyncSteps, id : BOOLEAN, ref : Nat, after : Int]
         /\ sync.ref \in Nat /\ sync.after \in Int /\ sync.id \in BOOLEAN /\ sync.at \in SyncSteps
         /\ rows \subseteq Row /\ clock \in Nat
         /\ Day \in Nat \ {0} /\ Page \in Nat \ {0} /\ MaxFailed \in Nat
         /\ Len(recs) \in Nat /\ DOMAIN recs = 1 .. Len(recs)
         /\ \A k \in DOMAIN recs : /\ recs[k].t \in Nat /\ recs[k].t <= clock /\ k \in Nat
                                   /\ recs[k].done \in BOOLEAN /\ recs[k].gtc \in BOOLEAN
         /\ \A i, j \in DOMAIN recs : i <= j => recs[i].t <= recs[j].t
         /\ \A r \in rows : /\ r.ref \in Nat /\ r.key \in Nat /\ r.id \in BOOLEAN
                            /\ r.done \in BOOLEAN /\ r.key \in DOMAIN recs /\ r.ref <= sync.ref
<1> DEFINE Rec == [t : Nat, gtc : BOOLEAN, done : BOOLEAN]
<1>1. /\ recs \in Seq(Rec) /\ clock \in 0 .. MaxTime /\ rows \subseteq Row
      /\ sync \in [at : SyncSteps, id : BOOLEAN, ref : Nat, after : Int]
      /\ \A r \in rows : r.key \in DOMAIN recs /\ r.ref <= sync.ref
  BY DEF SyncInv, RowTypes, SyncTypeOK
<1>2. /\ Day \in Nat \ {0} /\ Page \in Nat \ {0} /\ MaxTime \in Nat /\ MaxFailed \in Nat
  BY SyncAssumption
<1>3. clock \in Nat
  BY <1>1, <1>2
<1>4. \A rec \in Rec : rec.t \in Nat /\ rec.done \in BOOLEAN /\ rec.gtc \in BOOLEAN
  OBVIOUS
<1> HIDE DEF Rec
<1>5. /\ Len(recs) \in Nat /\ DOMAIN recs = 1 .. Len(recs)
      /\ \A k \in DOMAIN recs : recs[k] \in Rec /\ k \in Nat
  BY <1>1
<1>6. \A r \in rows : r.ref \in Nat /\ r.key \in Nat /\ r.id \in BOOLEAN /\ r.done \in BOOLEAN
  BY <1>1 DEF Row
<1>7. /\ \A k \in DOMAIN recs : recs[k].t <= clock
      /\ \A i, j \in DOMAIN recs : i <= j => recs[i].t <= recs[j].t
  BY DEF SyncInv, ListTrue
<1>8. sync.ref \in Nat /\ sync.after \in Int /\ sync.id \in BOOLEAN /\ sync.at \in SyncSteps
  BY <1>1
<1> QED BY <1>1, <1>2, <1>3, <1>4, <1>5, <1>6, <1>7, <1>8

\* The cursor is a day before the latest row of the name.
LEMMA CursorIsBack ==
  ASSUME SyncInv
  PROVE  \/ Cursor(sync.ref) = -1
         \/ \E m \in Known(sync.ref) : Cursor(sync.ref) = recs[m.key].t - Day
<1> DEFINE times == {recs[r.key].t : r \in Known(sync.ref)}
<1>1. CASE Known(sync.ref) = {}
  BY <1>1 DEF Cursor
<1>2. CASE Known(sync.ref) # {}
  <2>1. \A r \in Known(sync.ref) : r \in rows /\ recs[r.key].t \in 0 .. clock
    BY SyncFacts DEF Known
  <2>2. times \subseteq 0 .. clock /\ times # {}
    BY <2>1, <1>2
  <2>3. clock \in Nat
    BY SyncFacts
  <2> HIDE DEF times
  <2>4. Max(times) \in times
    BY <2>2, <2>3, MinAndMax
  <2>5. Cursor(sync.ref) = Max(times) - Day
    BY <1>2 DEF Cursor, times
  <2> QED BY <2>4, <2>5 DEF times
<1> QED BY <1>1, <1>2

\* The first page begins at the cursor: what lies up to it is stored and up to date.
LEMMA PositionsStep ==
  ASSUME SyncInv, ReadPositions
  PROVE  SyncInv'
<1> DEFINE R == sync.ref
           c == Cursor(R)
<1>1. /\ sync' = [sync EXCEPT !.at = "page", !.after = c] /\ sync.at = "positions"
      /\ UNCHANGED <<clock, list, recs, name, rows, failed, began>>
  BY DEF ReadPositions
<1>2. c = -1 \/ \E m \in Known(R) : c = recs[m.key].t - Day
  BY CursorIsBack
<1>3. c \in Int
  BY <1>2, SyncFacts DEF Known
<1> HIDE DEF c
<1>4. /\ sync' \in [at : SyncSteps, id : BOOLEAN, ref : Nat, after : Int]
      /\ sync'.ref = R /\ sync'.at = "page" /\ sync'.id = sync.id /\ sync'.after = c
  BY <1>1, <1>3, SyncFacts DEF SyncSteps
<1>5. RowTypes' /\ ListTrue' /\ BeganTrue' /\ NamesTrue'
  <2>1. RowTypes'
    BY <1>1, <1>4 DEF SyncInv, RowTypes, SyncTypeOK
  <2>2. ListTrue' /\ BeganTrue' /\ NamesTrue'
    BY <1>1, <1>4 DEF SyncInv, ListTrue, BeganTrue, NamesTrue
  <2> QED BY <2>1, <2>2
<1>6. HistoryIsKept'
  BY <1>4 DEF HistoryIsKept, HistoryIsComplete, EndsAreKnown, StoredOnce
<1>7. /\ c < 0 \/ \E k \in DOMAIN recs : c <= recs[k].t
      /\ \A k \in DOMAIN recs : recs[k].t <= c /\ Alone(k) => Stored(k)
      /\ \A r \in rows : r.id /\ recs[r.key].t <= c /\ Alone(r.key) => StoredAs(r.key, R)
      /\ \A r \in Known(R) : Open(r) => recs[r.key].t > c
  <2>1. CASE c = -1
    <3>1. \A k \in DOMAIN recs : ~(recs[k].t <= c)
      BY <2>1, SyncFacts
    <3>2. \A r \in rows : ~(recs[r.key].t <= c) /\ recs[r.key].t > c
      BY <2>1, SyncFacts
    <3> QED BY <3>1, <3>2, <2>1 DEF Known
  <2>2. CASE \E m \in Known(R) : c = recs[m.key].t - Day
    <3>1. PICK m \in rows : m.ref = R /\ c = recs[m.key].t - Day
      BY <2>2 DEF Known
    <3>2. /\ m.key \in DOMAIN recs /\ m.key \in Nat /\ recs[m.key].t \in Nat
          /\ Day \in Nat \ {0} /\ c < recs[m.key].t
      BY <3>1, SyncFacts
    <3>3. \A k \in DOMAIN recs : recs[k].t <= c => k < m.key /\ k \in 1 .. m.key - 1
      <4> SUFFICES ASSUME NEW k \in DOMAIN recs, recs[k].t <= c
                   PROVE  k < m.key /\ k \in 1 .. m.key - 1
        OBVIOUS
      <4>1. k \in Nat /\ recs[k].t \in Nat /\ k >= 1
        BY SyncFacts
      <4>2. ~(m.key <= k)
        BY <3>2, <4>1, <1>3, SyncFacts
      <4> QED BY <4>1, <4>2, <3>2
    <3>4. ASSUME NEW k \in DOMAIN recs, recs[k].t <= c, Alone(k) PROVE Stored(k)
      BY <3>3, <3>4 DEF SyncInv, NoHoles
    <3>5. ASSUME NEW r \in rows, r.id, recs[r.key].t <= c, Alone(r.key)
          PROVE  StoredAs(r.key, R)
      <4>1. r.key \in DOMAIN recs /\ r.ref \in Nat /\ r.ref <= R /\ R \in Nat
        BY SyncFacts
      <4>2. r.key < m.key
        BY <3>3, <3>5, <4>1
      <4>3. CASE r.ref = R
        BY <4>3 DEF StoredAs
      <4>4. CASE r.ref # R
        <5>1. r.ref < m.ref
          BY <4>1, <4>4, <3>1
        <5> QED BY <5>1, <4>2, <3>1, <3>5 DEF SyncInv, NoHoles
      <4> QED BY <4>3, <4>4
    <3>6. ASSUME NEW r \in Known(R), Open(r) PROVE recs[r.key].t > c
      <4>1. r \in rows /\ r.ref = R
        BY DEF Known
      <4>2. recs[m.key].t < recs[r.key].t + Day
        BY <4>1, <3>1, <3>6 DEF SyncInv, OpenAreLate
      <4>3. recs[r.key].t \in Nat
        BY <4>1, SyncFacts
      <4> QED BY <4>2, <4>3, <3>1, <3>2
    <3>7. c <= recs[m.key].t
      BY <3>2, <1>3
    <3> QED BY <3>2, <3>4, <3>5, <3>6, <3>7
  <2> QED BY <2>1, <2>2, <1>2
<1>8. ReadUpTo'
  <2>1. \A r \in Known(R) : ~(Open(r) /\ recs[r.key].t <= c)
    <3>1. \A r \in Known(R) : recs[r.key].t \in Nat
      BY SyncFacts DEF Known
    <3> QED BY <3>1, <1>7, <1>3
  <2> QED BY <2>1, <1>7, <1>4, <1>1 DEF ReadUpTo, Alone, Open, Known, Stored, StoredAs
<1> QED BY <1>1, <1>5, <1>6, <1>8, RowsKeep DEF SyncInv

\* What a page is: the first records after the cursor, and all of them when another
\* page does not follow; with nothing between them and the last record of the page.
LEMMA PageIsFirst ==
  ASSUME SyncInv,
         NEW keys, keys = PageAfter(sync.after),
         NEW last, last = IF keys = {} THEN sync.after ELSE recs[Max(keys)].t
  PROVE  /\ \A k \in keys : k \in DOMAIN recs /\ recs[k].t > sync.after
         /\ \A k \in keys : \A j \in DOMAIN recs : j < k /\ recs[j].t > sync.after => j \in keys
         /\ ~NextPage(keys, last) =>
              \A k \in DOMAIN recs : recs[k].t > sync.after => k \in keys
         /\ NextPage(keys, last) =>
              \E m \in keys : last = recs[m].t /\ \A k \in keys : k <= m
<1> DEFINE later == {k \in DOMAIN recs : recs[k].t > sync.after}
<1>1. later \subseteq 0 .. Len(recs) /\ Len(recs) \in Nat /\ Page \in Nat \ {0}
  BY SyncFacts
<1>2. keys = {k \in later : Cardinality({j \in later : j < k}) < Page}
  BY DEF PageAfter
<1>3. \A k : k \in later <=> k \in DOMAIN recs /\ recs[k].t > sync.after
  OBVIOUS
<1> HIDE DEF later
<1>4. /\ keys \subseteq later /\ IsFiniteSet(keys)
      /\ \A k \in keys : \A j \in later : j < k => j \in keys
      /\ Cardinality(keys) # Page => keys = later
  BY <1>1, <1>2, FirstPage
<1>5. keys # {} => Max(keys) \in keys /\ (\A k \in keys : k <= Max(keys)) /\ last > sync.after
  <2> SUFFICES ASSUME keys # {}
               PROVE  Max(keys) \in keys /\ (\A k \in keys : k <= Max(keys)) /\ last > sync.after
    OBVIOUS
  <2>1. keys \subseteq 0 .. Len(recs)
    BY <1>1, <1>4
  <2>2. Max(keys) \in keys /\ \A k \in keys : k <= Max(keys)
    BY <2>1, <1>1, MinAndMax
  <2>3. last = recs[Max(keys)].t
    OBVIOUS
  <2> QED BY <2>2, <2>3, <1>3, <1>4
<1>6. ASSUME ~NextPage(keys, last) PROVE keys = later
  <2>1. CASE keys = {}
    <3>1. Cardinality(keys) = 0
      BY <2>1, FS_EmptySet
    <3> QED BY <3>1, <1>1, <1>4
  <2>2. CASE keys # {}
    BY <2>2, <1>4, <1>5, <1>6 DEF NextPage
  <2> QED BY <2>1, <2>2
<1>7. ASSUME NextPage(keys, last) PROVE keys # {}
  <2>1. Cardinality(keys) = Page
    BY <1>7 DEF NextPage
  <2>2. Page # 0 /\ Cardinality({}) = 0
    BY <1>1, FS_EmptySet
  <2> QED BY <2>1, <2>2
<1>8. NextPage(keys, last) => \E m \in keys : last = recs[m].t /\ \A k \in keys : k <= m
  BY <1>5, <1>7
<1> QED BY <1>3, <1>4, <1>6, <1>8

\* The rows after an upsert: those that were there under another name or of other
\* records, and the ones of the page.
LEMMA UpsertedRows ==
  ASSUME SyncInv, NEW keys, keys \subseteq DOMAIN recs
  PROVE  /\ Upserted(keys) \subseteq Row
         /\ \A r \in Upserted(keys) :
              \/ r \in rows /\ ~(r.ref = sync.ref /\ r.key \in keys)
              \/ /\ r.ref = sync.ref /\ r.key \in keys
                 /\ r.done = recs[r.key].done /\ r.id = sync.id
         /\ \A r, q \in Upserted(keys) : r.ref = q.ref /\ r.key = q.key => r = q
         /\ \A r \in rows : \E q \in Upserted(keys) : q.ref = r.ref /\ q.key = r.key
         /\ \A k \in keys : \E q \in Upserted(keys) : q.ref = sync.ref /\ q.key = k
<1> DEFINE R == sync.ref
           Anew(k) == [ref |-> R, key |-> k, done |-> recs[k].done, id |-> sync.id]
           kept == {r \in rows : ~(r.ref = R /\ r.key \in keys)}
<1>1. Upserted(keys) = kept \cup {Anew(k) : k \in keys}
  BY DEF Upserted
<1>2. \A k \in keys : /\ Anew(k) \in Row
                      /\ Anew(k).ref = R /\ Anew(k).key = k
                      /\ Anew(k).done = recs[k].done /\ Anew(k).id = sync.id
  <2> TAKE k \in keys
  <2>1. R \in Nat /\ k \in Nat /\ recs[k].done \in BOOLEAN /\ sync.id \in BOOLEAN
    BY SyncFacts
  <2> QED BY <2>1 DEF Row
<1>3. \A r \in rows : r \in Row
  BY SyncFacts
<1>4. \A r : r \in kept <=> r \in rows /\ ~(r.ref = R /\ r.key \in keys)
  OBVIOUS
<1> HIDE DEF Anew, kept
<1>5. Upserted(keys) \subseteq Row
  BY <1>1, <1>2, <1>3, <1>4
<1>6. \A r \in Upserted(keys) : r \in kept \/ \E k \in keys : r = Anew(k)
  BY <1>1
<1>7. ASSUME NEW r \in Upserted(keys), NEW q \in Upserted(keys), r.ref = q.ref, r.key = q.key
      PROVE  r = q
  <2>1. CASE r \in kept /\ q \in kept
    BY <2>1, <1>4, <1>7 DEF SyncInv, NamesTrue
  <2>2. CASE r \in kept /\ q \notin kept
    BY <2>2, <1>2, <1>4, <1>6, <1>7
  <2>3. CASE r \notin kept /\ q \in kept
    BY <2>3, <1>2, <1>4, <1>6, <1>7
  <2>4. CASE r \notin kept /\ q \notin kept
    <3>1. PICK k \in keys : r = Anew(k)
      BY <2>4, <1>6
    <3>2. PICK j \in keys : q = Anew(j)
      BY <2>4, <1>6
    <3>3. k = j
      BY <3>1, <3>2, <1>2, <1>7
    <3> QED BY <3>1, <3>2, <3>3
  <2> QED BY <2>1, <2>2, <2>3, <2>4
<1>8. \A k \in keys : Anew(k) \in Upserted(keys)
  BY <1>1
<1>9. \A k \in keys : \E q \in Upserted(keys) : q.ref = R /\ q.key = k
  BY <1>2, <1>8
<1>10. \A r \in rows : \E q \in Upserted(keys) : q.ref = r.ref /\ q.key = r.key
  BY <1>1, <1>4, <1>9
<1>11. \A r \in Upserted(keys) :
         \/ r \in rows /\ ~(r.ref = R /\ r.key \in keys)
         \/ r.ref = R /\ r.key \in keys /\ r.done = recs[r.key].done /\ r.id = sync.id
  BY <1>2, <1>4, <1>6
<1> QED BY <1>5, <1>7, <1>9, <1>10, <1>11

\* A page is stored; a full one is followed by the next, and what lies up to the new
\* cursor is stored and up to date.
LEMMA PageStep ==
  ASSUME SyncInv, ReadPage
  PROVE  SyncInv'
<1> DEFINE R == sync.ref
           c == sync.after
<1>1. PICK keys, last :
        /\ keys = PageAfter(c)
        /\ last = IF keys = {} THEN c ELSE recs[Max(keys)].t
        /\ rows' = Upserted(keys)
        /\ sync' = IF NextPage(keys, last) THEN [sync EXCEPT !.after = last]
                                           ELSE [sync EXCEPT !.at = "ok"]
  BY DEF ReadPage
<1>0. sync'.ref = sync.ref
  <2>1. sync \in [at : SyncSteps, id : BOOLEAN, ref : Nat, after : Int]
    BY SyncFacts
  <2>2. sync' = [sync EXCEPT !.after = last] \/ sync' = [sync EXCEPT !.at = "ok"]
    BY <1>1
  <2> QED BY <2>1, <2>2
<1>2. sync.at = "page" /\ UNCHANGED <<clock, list, recs, name, failed, began>>
  BY DEF ReadPage
<1>3. /\ \A k \in keys : k \in DOMAIN recs /\ recs[k].t > c
      /\ \A k \in keys : \A j \in DOMAIN recs : j < k /\ recs[j].t > c => j \in keys
      /\ ~NextPage(keys, last) => \A k \in DOMAIN recs : recs[k].t > c => k \in keys
      /\ NextPage(keys, last) => \E m \in keys : last = recs[m].t /\ \A k \in keys : k <= m
  BY <1>1, PageIsFirst
<1>4. /\ rows' \subseteq Row
      /\ \A r \in rows' :
           \/ r \in rows /\ ~(r.ref = R /\ r.key \in keys)
           \/ r.ref = R /\ r.key \in keys /\ r.done = recs[r.key].done /\ r.id = sync.id
      /\ \A r, q \in rows' : r.ref = q.ref /\ r.key = q.key => r = q
      /\ \A r \in rows : \E q \in rows' : q.ref = r.ref /\ q.key = r.key
      /\ \A k \in keys : \E q \in rows' : q.ref = R /\ q.key = k
  <2>1. keys \subseteq DOMAIN recs
    BY <1>3
  <2> QED BY <2>1, <1>1, UpsertedRows
<1> DEFINE Stays(r) == r \in rows /\ ~(r.ref = R /\ r.key \in keys)
           Anew(r) == r.ref = R /\ r.key \in keys /\ r.done = recs[r.key].done /\ r.id = sync.id
<1>5. \A r \in rows' : Stays(r) \/ Anew(r)
  BY <1>4
<1>6. /\ \A k : Stored(k) => Stored(k)'
      /\ \A k, ref : StoredAs(k, ref) => StoredAs(k, ref)'
      /\ \A k \in keys : Stored(k)' /\ StoredAs(k, R)'
  <2>1. \A k : Stored(k) => Stored(k)'
    BY <1>4 DEF Stored
  <2>2. \A k, ref : StoredAs(k, ref) => StoredAs(k, ref)'
    BY <1>4 DEF StoredAs
  <2>3. \A k \in keys : \E q \in rows' : q.ref = R /\ q.key = k
    BY <1>4
  <2>4. ASSUME NEW k \in keys PROVE Stored(k)' /\ StoredAs(k, R)'
    <3>1. PICK q \in rows' : q.ref = R /\ q.key = k
      BY <2>3
    <3> QED BY <3>1, <1>0 DEF Stored, StoredAs
  <2> QED BY <2>1, <2>2, <2>4
<1>7. /\ R \in Nat /\ c \in Int /\ Day \in Nat \ {0} /\ clock \in Nat
      /\ DOMAIN recs = 1 .. Len(recs) /\ Len(recs) \in Nat
      /\ \A k \in DOMAIN recs : recs[k].t \in Nat /\ recs[k].t <= clock /\ k \in Nat
      /\ \A i, j \in DOMAIN recs : i <= j => recs[i].t <= recs[j].t
  BY SyncFacts
<1>8. \A r \in rows : /\ r.ref \in Nat /\ r.key \in Nat /\ r.key \in DOMAIN recs /\ r.ref <= R
  BY SyncFacts
<1>9. \A r \in rows' : /\ r.ref \in Nat /\ r.key \in Nat /\ r.key \in DOMAIN recs /\ r.ref <= R
                       /\ recs[r.key].t \in Nat
  BY <1>3, <1>5, <1>7, <1>8
<1>10. /\ \A k \in DOMAIN recs : recs[k].t <= c /\ Alone(k) => Stored(k)
       /\ \A r \in rows : r.id /\ recs[r.key].t <= c /\ Alone(r.key) => StoredAs(r.key, R)
       /\ \A r \in rows : r.ref = R /\ Open(r) /\ recs[r.key].t <= c =>
            clock < recs[r.key].t + Day /\ ~(r.key \in DOMAIN began /\ began[r.key].done)
  BY <1>2 DEF SyncInv, ReadUpTo, Known
<1>11. /\ sync' \in [at : SyncSteps, id : BOOLEAN, ref : Nat, after : Int]
       /\ sync'.ref = R /\ sync'.id = sync.id
       /\ NextPage(keys, last) => sync'.at = "page" /\ sync'.after = last
       /\ ~NextPage(keys, last) => sync'.at = "ok"
  <2>1. NextPage(keys, last) => last \in Int
    BY <1>3, <1>7
  <2>2. "ok" \in SyncSteps
    BY DEF SyncSteps
  <2>3. sync \in [at : SyncSteps, id : BOOLEAN, ref : Nat, after : Int]
    BY SyncFacts
  <2>4. CASE NextPage(keys, last)
    <3>1. sync' = [sync EXCEPT !.after = last] /\ last \in Int
      BY <1>1, <2>1, <2>4
    <3> QED BY <3>1, <2>3, <2>4, <1>2
  <2>5. CASE ~NextPage(keys, last)
    <3>1. sync' = [sync EXCEPT !.at = "ok"]
      BY <1>1, <2>5
    <3> QED BY <3>1, <2>2, <2>3, <2>5
  <2> QED BY <2>4, <2>5
<1>12. \A k : Alone(k)' <=> Alone(k)
  BY <1>2 DEF Alone
<1>13. \A r : Open(r)' <=> Open(r)
  BY <1>2, <1>12 DEF Open
\* A record whose row is not of the page lies before it, or after all of it.
<1>14. \A k \in DOMAIN recs : k \notin keys /\ recs[k].t > c => \A j \in keys : j < k
  <2> SUFFICES ASSUME NEW k \in DOMAIN recs, k \notin keys, recs[k].t > c, NEW j \in keys
               PROVE  j < k
    OBVIOUS
  <2>1. ~(k < j)
    BY <1>3
  <2> QED BY <2>1, <1>3, <1>7
<1>15. RowTypes' /\ ListTrue' /\ BeganTrue'
  <2>1. RowTypes'
    BY <1>2, <1>4, <1>9, <1>11 DEF SyncInv, RowTypes, SyncTypeOK
  <2>2. ListTrue' /\ BeganTrue'
    BY <1>2 DEF SyncInv, ListTrue, BeganTrue
  <2> QED BY <2>1, <2>2
<1>16. NamesTrue'
  <2>1. sync.id => \A r \in rows : r.id => r.ref = R
    BY <1>2 DEF SyncInv, NamesTrue
  <2>2. \A r \in rows' : r.id /\ sync.id => r.ref = R
    BY <2>1, <1>5
  <2>3. ASSUME NEW r \in rows', NEW q \in rows', r.id, q.id PROVE r.ref = q.ref
    <3>1. CASE sync.id
      BY <3>1, <2>2, <2>3
    <3>2. CASE ~sync.id
      BY <3>2, <2>3, <1>5 DEF SyncInv, NamesTrue
    <3> QED BY <3>1, <3>2
  <2> QED BY <2>2, <2>3, <1>4, <1>11 DEF NamesTrue
<1>17. NoHoles'
  <2>1. ASSUME NEW r \in rows', NEW k \in 1 .. r.key - 1, Alone(k) PROVE Stored(k)'
    <3>1. CASE Stays(r)
      BY <3>1, <2>1, <1>6 DEF SyncInv, NoHoles
    <3>2. CASE Anew(r)
      <4>1. k \in DOMAIN recs /\ k < r.key
        BY <1>7, <1>9
      <4>2. CASE recs[k].t > c
        BY <4>1, <4>2, <3>2, <1>3, <1>6
      <4>3. CASE ~(recs[k].t > c)
        BY <4>1, <4>3, <2>1, <1>6, <1>7, <1>10
      <4> QED BY <4>2, <4>3
    <3> QED BY <3>1, <3>2, <1>5
  <2>2. ASSUME NEW r \in rows', NEW q \in rows', r.id, r.ref < q.ref, r.key < q.key, Alone(r.key)
        PROVE  StoredAs(r.key, q.ref)'
    <3>1. r.ref # R
      BY <2>2, <1>7, <1>9
    <3>2. Stays(r)
      BY <3>1, <1>5
    <3>3. CASE Stays(q)
      BY <3>2, <3>3, <2>2, <1>6 DEF SyncInv, NoHoles
    <3>4. CASE Anew(q)
      <4>1. CASE recs[r.key].t > c
        <5>1. r.key \in keys
          BY <4>1, <3>4, <2>2, <1>3, <1>9
        <5>2. StoredAs(r.key, R)'
          BY <5>1, <1>6
        <5> QED BY <5>2, <3>4, <1>0
      <4>2. CASE ~(recs[r.key].t > c)
        <5>1. recs[r.key].t <= c
          BY <4>2, <1>7, <1>9
        <5>2. StoredAs(r.key, R)
          BY <5>1, <3>2, <2>2, <1>10
        <5> QED BY <5>2, <3>4, <1>6
      <4> QED BY <4>1, <4>2
    <3> QED BY <3>3, <3>4, <1>5
  <2> QED BY <2>1, <2>2, <1>12 DEF NoHoles
<1>18. OpenAreLate'
  <2> SUFFICES ASSUME NEW r \in rows', NEW q \in rows', Open(r),
                      q.ref = r.ref \/ (q.id /\ q.ref < r.ref)
               PROVE  recs[q.key].t < recs[r.key].t + Day
    BY <1>2, <1>13 DEF OpenAreLate
  <2>1. recs[r.key].t \in Nat /\ recs[q.key].t \in Nat /\ recs[q.key].t <= clock
        /\ r.key \in DOMAIN recs /\ q.key \in DOMAIN recs
    BY <1>7, <1>9
  <2>2. CASE Stays(r) /\ Stays(q)
    BY <2>2 DEF SyncInv, OpenAreLate
  <2>3. CASE Anew(r)
    <3>1. ~recs[r.key].done /\ ~recs[r.key].gtc
      BY <2>3 DEF Open
    <3>2. clock < recs[r.key].t + Day
      BY <3>1, <2>1 DEF SyncInv, ListTrue
    <3> QED BY <3>2, <2>1, <1>7
  <2>4. CASE Stays(r) /\ Anew(q)
    <3>1. r.ref = R /\ r.key \notin keys
      BY <2>4, <1>7, <1>9
    <3>2. CASE recs[r.key].t > c
      <4>1. q.key < r.key
        BY <3>1, <3>2, <2>1, <2>4, <1>14
      <4>2. recs[q.key].t <= recs[r.key].t
        BY <4>1, <2>1, <1>7, <1>9
      <4> QED BY <4>2, <2>1, <1>7
    <3>3. CASE ~(recs[r.key].t > c)
      <4>1. recs[r.key].t <= c
        BY <3>3, <2>1, <1>7
      <4>2. clock < recs[r.key].t + Day
        BY <4>1, <3>1, <2>4, <1>10
      <4> QED BY <4>2, <2>1, <1>7
    <3> QED BY <3>2, <3>3
  <2> QED BY <2>2, <2>3, <2>4, <1>5
<1>19. CASE NextPage(keys, last)
  <2>1. PICK m \in keys : last = recs[m].t /\ \A k \in keys : k <= m
    BY <1>3, <1>19
  <2>2. m \in DOMAIN recs /\ m \in Nat /\ last \in Nat /\ recs[m].t > c
    BY <2>1, <1>3, <1>7
  \* What is alone up to the new cursor was there up to the old one, or is of the page.
  <2>3. \A k \in DOMAIN recs : recs[k].t <= last /\ Alone(k) => recs[k].t <= c \/ k \in keys
    <3> SUFFICES ASSUME NEW k \in DOMAIN recs, recs[k].t <= last, Alone(k), recs[k].t > c
                 PROVE  k \in keys
      BY <1>7
    <3>1. CASE k < m
      BY <3>1, <1>3
    <3>2. CASE m < k
      <4>1. recs[m].t = recs[k].t
        BY <3>2, <2>1, <2>2, <1>7
      <4>2. m \in 1 .. k /\ k \in 1 .. k
        BY <3>2, <2>2, <1>7
      <4> QED BY <4>1, <4>2, <3>2, <2>2, <1>7 DEF Alone
    <3> QED BY <3>1, <3>2, <2>1, <2>2, <1>7
  <2>4. ReadUpTo'
    <3>1. \E k \in DOMAIN recs : last <= recs[k].t
      BY <2>1, <2>2
    <3>2. \A k \in DOMAIN recs : recs[k].t <= last /\ Alone(k) => Stored(k)'
      BY <2>3, <1>6, <1>10
    <3>3. ASSUME NEW r \in rows', r.id, recs[r.key].t <= last, Alone(r.key)
          PROVE  StoredAs(r.key, R)'
      <4>1. recs[r.key].t <= c \/ r.key \in keys
        BY <2>3, <3>3, <1>9
      <4>2. CASE Anew(r)
        BY <4>2, <1>6
      <4>3. CASE Stays(r)
        <5>1. CASE r.key \in keys
          BY <5>1, <1>6
        <5>2. CASE recs[r.key].t <= c
          <6>1. StoredAs(r.key, R)
            BY <5>2, <4>3, <3>3, <1>10
          <6> QED BY <6>1, <1>0, <1>6
        <5> QED BY <5>1, <5>2, <4>1
      <4> QED BY <4>2, <4>3, <1>5
    <3>4. ASSUME NEW r \in rows', r.ref = R, Open(r), recs[r.key].t <= last
          PROVE  clock < recs[r.key].t + Day /\ ~(r.key \in DOMAIN began /\ began[r.key].done)
      <4>1. CASE Anew(r)
        <5>1. ~recs[r.key].done /\ ~recs[r.key].gtc /\ r.key \in DOMAIN recs
          BY <4>1, <3>4, <1>9 DEF Open
        <5>2. clock < recs[r.key].t + Day
          BY <5>1 DEF SyncInv, ListTrue
        <5> QED BY <5>1, <5>2 DEF SyncInv, BeganTrue
      <4>2. CASE Stays(r)
        <5>1. r.key \notin keys /\ Alone(r.key)
          BY <4>2, <3>4 DEF Open
        <5>2. recs[r.key].t <= c
          BY <5>1, <2>3, <3>4, <1>9
        <5> QED BY <5>2, <4>2, <3>4, <1>10
      <4> QED BY <4>1, <4>2, <1>5
    <3> QED BY <3>1, <3>2, <3>3, <3>4, <1>2, <1>11, <1>12, <1>13, <1>19 DEF ReadUpTo, Known
  <2>5. HistoryIsKept'
    BY <1>11, <1>19 DEF HistoryIsKept, HistoryIsComplete, EndsAreKnown, StoredOnce
  <2> QED BY <2>4, <2>5, <1>15, <1>16, <1>17, <1>18 DEF SyncInv
<1>20. CASE ~NextPage(keys, last)
  <2>1. \A k \in DOMAIN recs : recs[k].t > c => k \in keys
    BY <1>3, <1>20
  <2>2. /\ DOMAIN began \subseteq DOMAIN recs /\ began \in Seq([t : Nat, gtc : BOOLEAN, done : BOOLEAN])
        /\ \A k \in DOMAIN began : /\ began[k].t = recs[k].t /\ began[k].gtc = recs[k].gtc
                                   /\ began[k].done => recs[k].done
    BY DEF SyncInv, BeganTrue
  <2>3. ASSUME TimesDiffer, NEW k \in DOMAIN began PROVE Alone(k)
    <3>1. \A i \in 1 .. k : i \in DOMAIN began
      BY <2>2
    <3> QED BY <3>1, <2>2, <2>3 DEF TimesDiffer, Alone
  <2>4. ASSUME TimesDiffer, NEW k \in DOMAIN began PROVE \E r \in rows' : r.key = k
    <3>1. k \in DOMAIN recs /\ Alone(k)
      BY <2>2, <2>3, <2>4
    <3>2. Stored(k)'
      BY <3>1, <2>1, <1>6, <1>7, <1>10
    <3> QED BY <3>2 DEF Stored
  <2>5. ASSUME TimesDiffer, NEW r \in rows', r.ref = R, r.key \in DOMAIN began,
               began[r.key].done, ~began[r.key].gtc
        PROVE  r.done
    <3>1. CASE Anew(r)
      BY <3>1, <2>2, <2>5
    <3>2. CASE Stays(r)
      <4>1. recs[r.key].t <= c
        BY <3>2, <2>1, <2>5, <1>7, <1>9
      <4>2. ~Open(r)
        BY <4>1, <3>2, <2>5, <1>10
      <4> QED BY <4>2, <2>2, <2>3, <2>5 DEF Open
    <3> QED BY <3>1, <3>2, <1>5
  <2>6. HistoryIsKept'
    <3>1. HistoryIsComplete'
      BY <2>4, <1>2 DEF HistoryIsComplete, TimesDiffer
    <3>2. EndsAreKnown'
      BY <2>5, <1>2, <1>11 DEF EndsAreKnown, TimesDiffer, Known
    <3>3. StoredOnce'
      BY <1>16, <1>4 DEF StoredOnce, NamesTrue
    <3> QED BY <3>1, <3>2, <3>3 DEF HistoryIsKept
  <2>7. ReadUpTo'
    BY <1>11, <1>20 DEF ReadUpTo
  <2> QED BY <2>6, <2>7, <1>15, <1>16, <1>17, <1>18 DEF SyncInv
<1> QED BY <1>19, <1>20

\* SyncInv is an inductive invariant of syncs, renames and the broker's lists
\* (auto.rs, sync_provider_history_with_context).
THEOREM SyncInvariant == SyncSpec => []SyncInv
<1>1. SyncInit => SyncInv
  <2> SUFFICES ASSUME SyncInit PROVE SyncInv
    OBVIOUS
  <2>1. rows = {} /\ recs = <<>> /\ began = <<>> /\ clock = 0 /\ name = 0 /\ failed = 0
    BY DEF SyncInit
  <2>2. PICK no \in BOOLEAN : no = FALSE
    OBVIOUS
  <2>3. sync = [at |-> "idle", id |-> no, ref |-> 0, after |-> 0]
    BY <2>2, Zenon DEF SyncInit
  <2>4. /\ sync \in [at : SyncSteps, id : BOOLEAN, ref : Nat, after : Int]
        /\ sync.at = "idle" /\ sync.ref = 0
    BY <2>3 DEF SyncSteps
  <2>5. RowTypes
    <3>1. /\ clock \in 0 .. MaxTime /\ name \in 0 .. MaxRenames /\ failed \in 0 .. MaxFailed
          /\ sync.ref <= name
      BY <2>1, <2>4, SyncAssumption
    <3>2. list \in Lists /\ recs \in Seq([t : Nat, gtc : BOOLEAN, done : BOOLEAN])
      BY <2>1 DEF SyncInit
    <3> QED BY <3>1, <3>2, <2>1, <2>4 DEF RowTypes, SyncTypeOK
  <2>6. ListTrue /\ BeganTrue
    BY <2>1 DEF ListTrue, BeganTrue
  <2>7. NamesTrue /\ NoHoles /\ OpenAreLate
    BY <2>1 DEF NamesTrue, NoHoles, OpenAreLate
  <2>8. ReadUpTo /\ HistoryIsKept
    BY <2>4 DEF ReadUpTo, HistoryIsKept, HistoryIsComplete, EndsAreKnown, StoredOnce
  <2> QED BY <2>5, <2>6, <2>7, <2>8 DEF SyncInv
<1>2. SyncInv /\ [SyncNext]_syncVars => SyncInv'
  <2> SUFFICES ASSUME SyncInv, [SyncNext]_syncVars PROVE SyncInv'
    OBVIOUS
  <2>1. CASE UNCHANGED syncVars
    <3>1. UNCHANGED <<clock, list, recs, name, rows, sync, failed, began>>
      BY <2>1 DEF syncVars
    <3>2. RowTypes' /\ ListTrue' /\ BeganTrue' /\ NamesTrue'
      BY <3>1 DEF SyncInv, RowTypes, SyncTypeOK, ListTrue, BeganTrue, NamesTrue
    <3>3. ReadUpTo'
      BY <3>1 DEF SyncInv, ReadUpTo, Alone, Stored, StoredAs, Known, Open
    <3>4. HistoryIsKept'
      BY <3>1 DEF SyncInv, HistoryIsKept, HistoryIsComplete, EndsAreKnown, StoredOnce,
                  TimesDiffer, Known
    <3> QED BY <3>1, <3>2, <3>3, <3>4, RowsKeep DEF SyncInv
  <2> QED BY <2>1, ListSteps, NameSteps, AccountStep, PositionsStep, PageStep DEF SyncNext
<1> QED BY <1>1, <1>2, PTL DEF SyncSpec

\* After a sync that ended well, every record the broker had when it began is stored,
\* a day order that had ended by then is not stored as a live one, and no record is
\* stored under two names - unless records share a time (auto.rs,
\* sync_provider_history_with_context, upsert_provider_order,
\* canonicalize_account_ref_for_broker).
THEOREM HistoryStaysKept == SyncSpec => []HistoryIsKept
<1>1. SyncInv => HistoryIsKept
  BY DEF SyncInv
<1> QED BY <1>1, SyncInvariant, PTL

\* The copy of the broker's history keeps its types (auto.rs, provider_order_snapshots).
THEOREM SyncTypeCorrect == SyncSpec => []SyncTypeOK
<1>1. SyncInv => SyncTypeOK
  BY DEF SyncInv, RowTypes
<1> QED BY <1>1, SyncInvariant, PTL

-----------------------------------------------------------------------------
(* Replacement windows (WashSales)                                          *)

AnyFill == [acct : Accounts, side : {"buy", "sell"}, price : Prices, qty : Quantities, day : Nat]

\* What the fills of K move of the shares of an account, and their sum.
FillMoves(F, K, a) ==
  [i \in DOMAIN F |-> IF i \in K /\ F[i].acct = a
                      THEN IF F[i].side = "buy" THEN F[i].qty ELSE -F[i].qty ELSE 0]
Net(F, K, a, n) == Total(FillMoves(F, K, a), 1 .. n)

LEMMA FillForms ==
  ASSUME NEW F \in Seq(AnyFill)
  PROVE  /\ Len(F) \in Nat /\ DOMAIN F = 1 .. Len(F)
         /\ \A i \in 1 .. Len(F) : /\ F[i].acct \in Accounts /\ F[i].side \in {"buy", "sell"}
                                   /\ F[i].price \in Nat \ {0} /\ F[i].price \in Prices
                                   /\ F[i].qty \in Nat \ {0} /\ F[i].day \in Nat
<1>1. Len(F) \in Nat /\ DOMAIN F = 1 .. Len(F) /\ \A i \in 1 .. Len(F) : F[i] \in AnyFill
  OBVIOUS
<1> QED BY <1>1, WashAssumption DEF AnyFill

LEMMA MovedIsInt ==
  ASSUME NEW F \in Seq(AnyFill), NEW K, NEW a
  PROVE  \A i \in 1 .. Len(F) : FillMoves(F, K, a)[i] \in Int
BY FillForms DEF FillMoves

LEMMA NetStep ==
  ASSUME NEW F \in Seq(AnyFill), NEW K, NEW a, NEW n \in 0 .. Len(F)
  PROVE  /\ Net(F, K, a, n) \in Int
         /\ Net(F, K, a, 0) = 0
         /\ n > 0 => Net(F, K, a, n) = Net(F, K, a, n - 1) + FillMoves(F, K, a)[n]
<1>1. n \in Nat /\ \A i \in 1 .. n : FillMoves(F, K, a)[i] \in Int
  BY MovedIsInt, FillForms
<1>2. 1 .. 0 = {}
  OBVIOUS
<1> QED BY <1>1, <1>2, SumUpTo, SumOfNone DEF Net

\* Fills that are added change no earlier sum.
LEMMA NetIsKept ==
  ASSUME NEW F \in Seq(AnyFill), NEW f \in AnyFill, NEW a, NEW n \in 0 .. Len(F)
  PROVE  Net(Append(F, f), DOMAIN Append(F, f), a, n) = Net(F, DOMAIN F, a, n)
<1>1. \A i \in 1 .. n : /\ i \in DOMAIN F /\ i \in DOMAIN Append(F, f)
                        /\ Append(F, f)[i] = F[i]
  OBVIOUS
<1>2. \A i \in 1 .. n :
        FillMoves(Append(F, f), DOMAIN Append(F, f), a)[i] = FillMoves(F, DOMAIN F, a)[i]
  BY <1>1 DEF FillMoves
<1>3. n \in Nat /\ IsFiniteSet(1 .. n)
  BY FS_Interval, FillForms
<1> QED BY <1>2, <1>3, SumSame DEF Net

\* Known fills that hold every earlier one of an account's.
Closed(F, K) == \A k \in K : \A i \in 1 .. k : F[i].acct = F[k].acct => i \in K

\* What is known of an account before a known fill of it is all that there was.
LEMMA KnownBefore ==
  ASSUME NEW F \in Seq(AnyFill), NEW K, K \subseteq DOMAIN F, Closed(F, K), NEW k \in K
  PROVE  Net(F, K, F[k].acct, k - 1) = Net(F, DOMAIN F, F[k].acct, k - 1)
<1>1. k \in 1 .. Len(F)
  BY FillForms
<1>2. \A i \in 1 .. (k - 1) : /\ i \in DOMAIN F
                              /\ F[i].acct = F[k].acct => i \in K
  <2>1. \A i \in 1 .. (k - 1) : i \in 1 .. k /\ i \in 1 .. Len(F)
    BY <1>1, FillForms
  <2>2. DOMAIN F = 1 .. Len(F)
    BY FillForms
  <2> QED BY <2>1, <2>2 DEF Closed
<1>3. \A i \in 1 .. (k - 1) :
        FillMoves(F, K, F[k].acct)[i] = FillMoves(F, DOMAIN F, F[k].acct)[i]
  BY <1>2 DEF FillMoves
<1>4. IsFiniteSet(1 .. (k - 1))
  BY <1>1, FS_Interval, FillForms
<1> QED BY <1>3, <1>4, SumSame DEF Net

\* Accounts that never sell more than they have never do so as far as is known.
LEMMA KnownIsCovered ==
  ASSUME NEW F \in Seq(AnyFill), NEW K, K \subseteq DOMAIN F, Closed(F, K), NEW a,
         \A n \in 0 .. Len(F) : Net(F, DOMAIN F, a, n) >= 0
  PROVE  \A n \in 0 .. Len(F) : Net(F, K, a, n) \in Nat
<1> DEFINE good(n) == \E m \in 0 .. Len(F) : Net(F, K, a, n) = Net(F, DOMAIN F, a, m)
           bad == {n \in 0 .. Len(F) : ~good(n)}
<1>0. Len(F) \in Nat /\ DOMAIN F = 1 .. Len(F)
  BY FillForms
<1>1. ASSUME bad # {} PROVE FALSE
  <2>1. PICK n \in bad : \A k \in bad : n <= k
    <3>1. bad \subseteq Nat
      BY <1>0
    <3> HIDE DEF bad
    <3> QED BY <1>1, <3>1, Least
  <2>2. n \in 0 .. Len(F) /\ ~good(n)
    OBVIOUS
  <2>3. n # 0
    <3>1. 0 \in 0 .. Len(F) /\ Net(F, K, a, 0) = 0 /\ Net(F, DOMAIN F, a, 0) = 0
      BY <1>0, NetStep
    <3> QED BY <2>2, <3>1
  <2>4. n \in 1 .. Len(F) /\ n - 1 \in 0 .. Len(F)
    BY <1>0, <2>2, <2>3
  <2>5. good(n - 1)
    <3>1. n - 1 \in bad => n <= n - 1
      BY <2>1
    <3> HIDE DEF good
    <3>2. n - 1 \notin bad
      <4> HIDE DEF bad
      <4> QED BY <1>0, <2>4, <3>1
    <3> QED BY <2>4, <3>2
  <2>6. /\ Net(F, K, a, n) = Net(F, K, a, n - 1) + FillMoves(F, K, a)[n]
        /\ Net(F, DOMAIN F, a, n) = Net(F, DOMAIN F, a, n - 1) + FillMoves(F, DOMAIN F, a)[n]
        /\ Net(F, K, a, n - 1) \in Int
    BY <1>0, <2>2, <2>4, NetStep
  <2>7. CASE n \in K /\ F[n].acct = a
    <3>1. Net(F, K, a, n - 1) = Net(F, DOMAIN F, a, n - 1)
      BY <2>7, KnownBefore
    <3>2. FillMoves(F, K, a)[n] = FillMoves(F, DOMAIN F, a)[n]
      BY <1>0, <2>4, <2>7 DEF FillMoves
    <3> QED BY <2>2, <2>6, <3>1, <3>2
  <2>8. CASE ~(n \in K /\ F[n].acct = a)
    <3>1. FillMoves(F, K, a)[n] = 0
      BY <1>0, <2>4, <2>8 DEF FillMoves
    <3>2. Net(F, K, a, n) = Net(F, K, a, n - 1)
      BY <2>6, <3>1
    <3> QED BY <2>2, <2>5, <3>2
  <2> QED BY <2>7, <2>8
<1>2. ASSUME NEW n \in 0 .. Len(F) PROVE Net(F, K, a, n) \in Nat
  <2>1. good(n)
    <3> HIDE DEF good
    <3> QED BY <1>1
  <2>2. PICK m \in 0 .. Len(F) : Net(F, K, a, n) = Net(F, DOMAIN F, a, m)
    BY <2>1
  <2>3. Net(F, K, a, n) \in Int /\ Net(F, DOMAIN F, a, m) >= 0
    BY NetStep
  <2> QED BY <2>2, <2>3
<1> QED BY <1>2

\* What the matching holds after each fill.
Lots == [lots : Seq(Prices), losses : SUBSET (DOMAIN fills)]
NoLots == [lots |-> <<>>, losses |-> {}]
Taken(K, t, i) == IF i \in K THEN Matched(t, i) ELSE t

LEMMA MatchedForms ==
  ASSUME fills \in Seq(AnyFill), NEW t \in Lots, NEW i \in 1 .. Len(fills)
  PROVE  /\ Matched(t, i) \in Lots
         /\ t.losses \subseteq Matched(t, i).losses
         /\ Matched(t, i).losses \subseteq t.losses \cup {i}
         /\ fills[i].side = "buy" =>
              /\ Len(Matched(t, i).lots) = Len(t.lots) + fills[i].qty
              /\ \A j \in DOMAIN Matched(t, i).lots :
                   \/ Matched(t, i).lots[j] = fills[i].price
                   \/ \E j1 \in DOMAIN t.lots : Matched(t, i).lots[j] = t.lots[j1]
         /\ fills[i].side = "sell" =>
              /\ fills[i].qty <= Len(t.lots) => Len(Matched(t, i).lots) = Len(t.lots) - fills[i].qty
              /\ \A j \in DOMAIN Matched(t, i).lots :
                   \E j1 \in DOMAIN t.lots : Matched(t, i).lots[j] = t.lots[j1]
              /\ Len(t.lots) > 0 /\ t.lots[1] > fills[i].price => i \in Matched(t, i).losses
<1> DEFINE f == fills[i]
           n == Len(t.lots)
           took == IF f.qty < n THEN f.qty ELSE n
<1>1. /\ f.side \in {"buy", "sell"} /\ f.price \in Prices /\ f.qty \in Nat \ {0}
      /\ i \in DOMAIN fills /\ f.price \in Nat
  BY FillForms
<1>2. t.lots \in Seq(Prices) /\ t.losses \in SUBSET (DOMAIN fills) /\ n \in Nat
      /\ t = [lots |-> t.lots, losses |-> t.losses]
  BY DEF Lots
<1>3. took \in 0 .. n
  <2> HIDE DEF f, n
  <2> QED BY <1>1, <1>2
<1>4. CASE f.side = "buy"
  <2> DEFINE new == [j \in 1 .. f.qty |-> f.price]
             all == t.lots \o new
  <2>1. new \in Seq(Prices) /\ Len(new) = f.qty
    <3> HIDE DEF f
    <3> QED BY <1>1
  <2>2. /\ all \in Seq(Prices) /\ Len(all) = n + f.qty
        /\ \A j \in DOMAIN all : \/ all[j] = f.price
                                 \/ \E j1 \in DOMAIN t.lots : all[j] = t.lots[j1]
    <3>1. all \in Seq(Prices) /\ Len(all) = n + f.qty
      <4>1. t.lots \in Seq(Prices) /\ new \in Seq(Prices)
        BY <1>2, <2>1
      <4> HIDE DEF new, f
      <4>2. all \in Seq(Prices) /\ Len(all) = Len(t.lots) + Len(new)
        BY <4>1, ConcatProperties
      <4> QED BY <2>1, <4>2
    <3>2. ASSUME NEW j \in DOMAIN all
          PROVE  all[j] = f.price \/ \E j1 \in DOMAIN t.lots : all[j] = t.lots[j1]
      <4>1. j \in 1 .. (n + f.qty) /\ f.qty \in Nat /\ n \in Nat
        <5> HIDE DEF all, f, n
        <5> QED BY <1>1, <1>2, <3>1
      <4>2. CASE j <= n
        <5>1. j \in DOMAIN t.lots /\ all[j] = t.lots[j]
          <6> HIDE DEF new, f
          <6> QED BY <1>2, <2>1, <4>1, <4>2
        <5> QED BY <5>1
      <4>3. CASE j > n
        <5>1. all[j] = new[j - n] /\ j - n \in 1 .. f.qty
          <6> HIDE DEF new, f
          <6> QED BY <1>1, <1>2, <2>1, <4>1, <4>3
        <5>2. new[j - n] = f.price
          <6> HIDE DEF f, n
          <6> QED BY <5>1
        <5> QED BY <5>1, <5>2
      <4> HIDE DEF n, f, all
      <4> QED BY <4>1, <4>2, <4>3
    <3> HIDE DEF all, f, n
    <3> QED BY <3>1, <3>2
  <2>3. Matched(t, i) = [lots |-> all, losses |-> t.losses]
    BY <1>2, <1>4 DEF Matched
  <2> HIDE DEF all, new
  <2>4. Matched(t, i).lots = all /\ Matched(t, i).losses = t.losses
    BY <2>3
  <2>5. Matched(t, i) \in Lots
    BY <1>2, <2>2, <2>3 DEF Lots
  <2> QED BY <1>4, <2>2, <2>4, <2>5
<1>5. CASE f.side = "sell"
  <2> DEFINE rest == SubSeq(t.lots, took + 1, n)
             losses == IF \E j \in 1 .. took : t.lots[j] > f.price THEN t.losses \cup {i} ELSE t.losses
  <2>1. Matched(t, i) = [lots |-> rest, losses |-> losses]
    BY <1>5 DEF Matched
  <2>2. /\ rest \in Seq(Prices) /\ Len(rest) = n - took
        /\ \A j \in 1 .. (n - took) : rest[j] = t.lots[took + j] /\ took + j \in DOMAIN t.lots
    <3>1. /\ took \in Nat /\ n \in Nat /\ took + 1 \in 1 .. (n + 1) /\ n \in 0 .. n
          /\ n - (took + 1) + 1 = n - took /\ took <= n
      <4> HIDE DEF took, n
      <4> QED BY <1>2, <1>3
    <3> HIDE DEF took
    <3>2. \A j \in took + 1 .. n : t.lots[j] \in Prices
      BY <1>2, <3>1
    <3>3. rest = [j \in 1 .. (n - took) |-> t.lots[took + j]]
      <4>1. rest \in Seq(Prices) /\ Len(rest) = n - took
        <5>1. t.lots \in Seq(Prices)
          BY <1>2
        <5>2. \A k \in took + 1 .. n : k \in 1 .. n
          BY <3>1
        <5>3. n = Len(t.lots)
          OBVIOUS
        <5> HIDE DEF n
        <5> QED BY <3>1, <5>1, <5>2, <5>3
      <4>2. \A j \in 1 .. (n - took) : rest[j] = t.lots[took + j]
        <5>1. t.lots \in Seq(Prices) /\ n = Len(t.lots)
          BY <1>2
        <5> HIDE DEF n
        <5> QED BY <3>1, <5>1
      <4>3. DOMAIN rest = 1 .. (n - took) /\ rest = [j \in DOMAIN rest |-> rest[j]]
        <5> HIDE DEF n, rest
        <5> QED BY <4>1
      <4> HIDE DEF n, rest
      <4> QED BY <4>2, <4>3
    <3>4. \A j \in 1 .. (n - took) : took + j \in took + 1 .. n /\ took + j \in 1 .. n
      <4> HIDE DEF n
      <4> QED BY <3>1
    <3>5. \A j \in 1 .. (n - took) : t.lots[took + j] \in Prices
      BY <3>2, <3>4
    <3>6. n - took \in Nat /\ DOMAIN t.lots = 1 .. n
      BY <1>2, <3>1
    <3> HIDE DEF n, rest
    <3> QED BY <3>3, <3>4, <3>5, <3>6
  <2> HIDE DEF rest
  <2>3. Matched(t, i).lots = rest /\ Matched(t, i).losses = losses
    BY <2>1
  <2>4. losses \in SUBSET (DOMAIN fills) /\ t.losses \subseteq losses /\ losses \subseteq t.losses \cup {i}
    BY <1>1, <1>2
  <2>5. Matched(t, i) \in Lots
    <3> HIDE DEF losses
    <3> QED BY <2>1, <2>2, <2>4 DEF Lots
  <2>6. f.qty <= n => Len(rest) = n - f.qty
    <3>1. f.qty <= n => took = f.qty
      <4> HIDE DEF f, n
      <4> QED BY <1>1, <1>2
    <3> QED BY <2>2, <3>1
  <2>7. n > 0 /\ t.lots[1] > f.price => i \in losses
    <3>1. n > 0 => 1 \in 1 .. took
      <4> HIDE DEF f, n
      <4> QED BY <1>1, <1>2
    <3> QED BY <3>1
  <2>8. \A j \in DOMAIN rest : \E j1 \in DOMAIN t.lots : rest[j] = t.lots[j1]
    <3>1. DOMAIN rest = 1 .. (n - took)
      BY <2>2
    <3> HIDE DEF took, n
    <3> QED BY <2>2, <3>1
  <2> HIDE DEF took, losses
  <2> QED BY <1>5, <2>3, <2>4, <2>5, <2>6, <2>7, <2>8
<1> HIDE DEF took
<1> QED BY <1>1, <1>4, <1>5

\* The fold of the matching, fill by fill.
LEMMA LossSalesByFill ==
  ASSUME fills \in Seq(AnyFill), NEW K \in SUBSET (DOMAIN fills)
  PROVE  \E g \in [0 .. Len(fills) -> Lots] :
           /\ g[0] = NoLots
           /\ \A i \in 1 .. Len(fills) : g[i] = Taken(K, g[i - 1], i)
           /\ LossSales(K) = g[Len(fills)].losses
<1> DEFINE n == Len(fills)
           mine(it) == it = [s \in SUBSET (1 .. n) |-> IF s = {} THEN NoLots
                               ELSE Taken(K, it[s \ {Max(s)}], Max(s))]
           it == CHOOSE h : mine(h)
           step == [i \in 1 .. n |-> [t \in Lots |-> Taken(K, t, i)]]
<1>0. n \in Nat /\ DOMAIN fills = 1 .. n
  BY FillForms
<1>1. LossSales(K) = it[1 .. n].losses
  <2>1. \A S, h : mine(h) <=>
          h = [s \in SUBSET (1 .. n) |-> IF s = {} THEN NoLots
                 ELSE LET x == Max(s) IN Taken(K, h[s \ {x}], x)]
    OBVIOUS
  <2>2. \A s \in SUBSET (1 .. n) : s # {} => [i \in 1 .. n |-> i][Max(s)] = Max(s)
    BY <1>0, LastPlace
  <2>3. \A h : mine(h) <=>
          h = [s \in SUBSET (1 .. n) |-> IF s = {} THEN NoLots
                 ELSE Taken(K, h[s \ {Max(s)}], [i \in 1 .. n |-> i][Max(s)])]
    <3>1. \A h : [s \in SUBSET (1 .. n) |-> IF s = {} THEN NoLots
                    ELSE Taken(K, h[s \ {Max(s)}], [i \in 1 .. n |-> i][Max(s)])]
                 = [s \in SUBSET (1 .. n) |-> IF s = {} THEN NoLots ELSE Taken(K, h[s \ {Max(s)}], Max(s))]
      <4> HIDE DEF n
      <4> QED BY <2>2
    <3> QED BY <3>1
  <2> DEFINE places == [i \in DOMAIN fills |-> i]
             full(h) == h = [s \in SUBSET (DOMAIN places) |-> IF s = {} THEN NoLots
                               ELSE Taken(K, h[s \ {Max(s)}], places[Max(s)])]
  <2>4. LossSales(K) = (CHOOSE h : full(h))[DOMAIN places].losses
    BY DEF LossSales, FoldLeftDomain, FoldLeft, MapThenFoldSet, NoLots, Taken
  <2>5. DOMAIN places = 1 .. n /\ places = [i \in 1 .. n |-> i]
    BY <1>0
  <2>6. \A h : full(h) <=> mine(h)
    <3> HIDE DEF n, mine, places
    <3> QED BY <2>3, <2>5
  <2>7. (CHOOSE h : full(h)) = (CHOOSE h : mine(h))
    <3> HIDE DEF full, mine
    <3> QED BY <2>6
  <2> HIDE DEF full, mine, places
  <2> QED BY <2>4, <2>5, <2>7
<1>2. \A i \in 1 .. n, t \in Lots : step[i][t] \in Lots /\ step[i][t] = Taken(K, t, i)
  <2>1. \A i \in 1 .. n, t \in Lots : Taken(K, t, i) \in Lots
    BY MatchedForms DEF Taken
  <2> HIDE DEF n
  <2> QED BY <2>1
<1>3. NoLots \in Lots
  BY DEF NoLots, Lots
<1>4. PICK h \in [SUBSET (1 .. n) -> Lots] : IsFold(h, step, NoLots, n)
  <2> HIDE DEF n, step
  <2> QED BY <1>0, <1>2, <1>3, FoldExists
<1>5. mine(h)
  <2>1. ASSUME NEW s \in SUBSET (1 .. n)
        PROVE  h[s] = IF s = {} THEN NoLots ELSE Taken(K, h[s \ {Max(s)}], Max(s))
    <3>1. CASE s = {}
      BY <1>4, <3>1 DEF IsFold
    <3>2. CASE s # {}
      <4>1. Max(s) \in 1 .. n
        BY <1>0, <3>2, LastPlace
      <4>2. h[s] = step[Max(s)][h[s \ {Max(s)}]]
        <5> HIDE DEF step
        <5> QED BY <1>4, <3>2 DEF IsFold
      <4>3. h[s \ {Max(s)}] \in Lots
        BY <1>4
      <4> HIDE DEF step, n
      <4> QED BY <1>2, <3>2, <4>1, <4>2, <4>3
    <3> QED BY <3>1, <3>2
  <2> HIDE DEF n
  <2> QED BY <1>4, <2>1
<1>6. mine(it)
  <2> HIDE DEF mine
  <2> QED BY <1>5
<1> DEFINE g == [i \in 0 .. n |-> it[1 .. i]]
<1>7. g[0] = NoLots
  <2>1. it[{}] = NoLots
    <3> HIDE DEF it
    <3> QED BY <1>6
  <2>2. 1 .. 0 = {} /\ 0 \in 0 .. n
    BY <1>0
  <2> HIDE DEF it, n
  <2> QED BY <2>1, <2>2
<1>8. ASSUME NEW i \in 1 .. n PROVE g[i] = Taken(K, g[i - 1], i)
  <2>1. i \in Nat \ {0} /\ i \in 0 .. n /\ i - 1 \in 0 .. n /\ (1 .. i) \in SUBSET (1 .. n) /\ 1 .. i # {}
    <3> HIDE DEF n, it, g
    <3>1. i \in Nat \ {0} /\ i \in 0 .. n /\ i - 1 \in 0 .. n /\ i \in 1 .. i
      BY <1>0
    <3>2. \A k \in 1 .. i : k \in 1 .. n
      BY <1>0
    <3> QED BY <3>1, <3>2
  <2>2. Max(1 .. i) = i /\ (1 .. i) \ {Max(1 .. i)} = 1 .. (i - 1)
    BY <2>1, LastOfPlaces
  <2>3. it[1 .. i] = Taken(K, it[(1 .. i) \ {Max(1 .. i)}], Max(1 .. i))
    <3> HIDE DEF it, n
    <3> QED BY <1>6, <2>1
  <2> HIDE DEF it, n
  <2> QED BY <2>1, <2>2, <2>3
<1>9. \A i \in 0 .. n : g[i] \in Lots
  <2> HIDE DEF g
  <2> DEFINE bad == {i \in 0 .. n : g[i] \notin Lots}
  <2>1. ASSUME bad # {} PROVE FALSE
    <3>1. PICK i \in bad : \A k \in bad : i <= k
      <4>1. bad \subseteq Nat
        BY <1>0
      <4> HIDE DEF bad
      <4> QED BY <2>1, <4>1, Least
    <3>2. i # 0
      BY <1>3, <1>7
    <3>3. i \in 1 .. n /\ i - 1 \in 0 .. n
      <4> HIDE DEF n
      <4> QED BY <1>0, <3>2
    <3>4. g[i - 1] \in Lots
      <4>1. i - 1 \in bad => i <= i - 1
        BY <3>1
      <4>2. i - 1 \notin bad
        <5> HIDE DEF bad, n
        <5> QED BY <1>0, <3>3, <4>1
      <4> HIDE DEF n
      <4> QED BY <3>3, <4>2
    <3>5. g[i] \in Lots
      <4> HIDE DEF n
      <4> QED BY <1>2, <1>8, <3>3, <3>4
    <3> QED BY <3>5
  <2> HIDE DEF n
  <2> QED BY <2>1
<1>10. g \in [0 .. n -> Lots] /\ g[n] = it[1 .. n]
  <2>1. n \in 0 .. n
    BY <1>0
  <2>2. DOMAIN g = 0 .. n /\ g = [i \in 0 .. n |-> g[i]]
    <3> HIDE DEF it, n
    <3> QED OBVIOUS
  <2>3. g[n] = it[1 .. n]
    <3> HIDE DEF it, n
    <3> QED BY <2>1
  <2> HIDE DEF g, n
  <2> QED BY <1>9, <2>2, <2>3
<1> HIDE DEF g, it
<1> QED BY <1>1, <1>7, <1>8, <1>10

\* Accounts that never sell more than they have.
Covered(F) == \A a \in Accounts : \A n \in 0 .. Len(F) : Net(F, DOMAIN F, a, n) >= 0

\* The shares that the accounts of a universe have after n fills, as far as is known.
Held(K, U, n) == [a \in U |-> Net(fills, K, a, n)]

LEMMA UniverseForms ==
  ASSUME NEW a \in Accounts
  PROVE  /\ IsFiniteSet(Universe(a)) /\ Universe(a) \subseteq Accounts
         /\ \A b \in Universe(a) : Universe(b) = Universe(a)
         /\ a \in Universe(a)
BY WashAssumption DEF Universe, Accounts

\* What a sale takes was there: the shares of its own account.
LEMMA SaleIsCovered ==
  ASSUME fills \in Seq(AnyFill), Covered(fills), NEW K, K \subseteq DOMAIN fills, Closed(fills, K),
         NEW a \in Accounts, \A i \in K : fills[i].acct \in Universe(a),
         NEW k \in K, fills[k].side = "sell"
  PROVE  fills[k].qty <= Total(Held(K, Universe(a), k - 1), Universe(a))
<1> DEFINE b == fills[k].acct
           U == Universe(a)
           had == Held(K, U, k - 1)
<1>1. /\ k \in 1 .. Len(fills) /\ k - 1 \in 0 .. Len(fills) /\ k \in 0 .. Len(fills)
      /\ fills[k].qty \in Nat /\ b \in U /\ b \in Accounts /\ DOMAIN fills = 1 .. Len(fills)
  BY FillForms
<1>2. \A c \in U : had[c] \in Nat
  <2>1. \A c \in U : Net(fills, K, c, k - 1) \in Nat
    BY <1>1, KnownIsCovered, UniverseForms DEF Covered
  <2> QED BY <2>1 DEF Held
<1>3. had[b] <= Total(had, U)
  <2> HIDE DEF had, b
  <2> QED BY <1>1, <1>2, UniverseForms, SumOfNat
<1>4. had[b] = Net(fills, DOMAIN fills, b, k - 1)
  <2>1. had[b] = Net(fills, K, b, k - 1)
    BY <1>1 DEF Held
  <2> QED BY <2>1, KnownBefore
<1>5. Net(fills, DOMAIN fills, b, k) = Net(fills, DOMAIN fills, b, k - 1) - fills[k].qty
  <2>1. FillMoves(fills, DOMAIN fills, b)[k] = -fills[k].qty
    BY <1>1 DEF FillMoves
  <2>2. /\ Net(fills, DOMAIN fills, b, k)
             = Net(fills, DOMAIN fills, b, k - 1) + FillMoves(fills, DOMAIN fills, b)[k]
        /\ Net(fills, DOMAIN fills, b, k - 1) \in Int
    BY <1>1, NetStep
  <2> QED BY <1>1, <2>1, <2>2
<1>6. Net(fills, DOMAIN fills, b, k) >= 0 /\ Net(fills, DOMAIN fills, b, k - 1) \in Int
  BY <1>1, NetStep DEF Covered
<1>7. Total(had, U) \in Int
  BY <1>2, UniverseForms, SumOfNat
<1> HIDE DEF had, U, b
<1>8. fills[k].qty <= Total(had, U)
  <2> DEFINE x == Net(fills, DOMAIN fills, b, k) y == Net(fills, DOMAIN fills, b, k - 1)
  <2>1. /\ x = y - fills[k].qty /\ x >= 0 /\ y \in Int /\ y <= Total(had, U)
        /\ fills[k].qty \in Nat /\ Total(had, U) \in Int
    BY <1>1, <1>3, <1>4, <1>5, <1>6, <1>7
  <2> HIDE DEF x, y
  <2> QED BY <2>1
<1> QED BY <1>8 DEF had, U

\* The lots are the shares, each at the price of a known purchase; losses stay.
LotsOK(K, a, t, n) ==
  /\ Len(t.lots) = Total(Held(K, Universe(a), n), Universe(a))
  /\ \A j \in DOMAIN t.lots : \E i \in K : /\ i <= n /\ fills[i].side = "buy"
                                           /\ fills[i].price = t.lots[j]
  /\ t.losses \subseteq K

LEMMA LotsAreShares ==
  ASSUME fills \in Seq(AnyFill), Covered(fills), NEW K, K \subseteq DOMAIN fills, Closed(fills, K),
         NEW a \in Accounts, \A i \in K : fills[i].acct \in Universe(a),
         NEW g \in [0 .. Len(fills) -> Lots], g[0] = NoLots,
         \A i \in 1 .. Len(fills) : g[i] = Taken(K, g[i - 1], i)
  PROVE  \A n \in 0 .. Len(fills) : LotsOK(K, a, g[n], n)
<1> DEFINE U == Universe(a)
           bad == {n \in 0 .. Len(fills) : ~LotsOK(K, a, g[n], n)}
<1>0. /\ Len(fills) \in Nat /\ DOMAIN fills = 1 .. Len(fills)
      /\ IsFiniteSet(U) /\ U \subseteq Accounts
  BY FillForms, UniverseForms
<1>1. ASSUME bad # {} PROVE FALSE
  <2>1. PICK n \in bad : \A k \in bad : n <= k
    <3>1. bad \subseteq Nat
      BY <1>0
    <3> HIDE DEF bad
    <3> QED BY <1>1, <3>1, Least
  <2>2. n \in 0 .. Len(fills) /\ ~LotsOK(K, a, g[n], n)
    OBVIOUS
  <2>3. CASE n = 0
    <3>1. \A c \in U : Held(K, U, 0)[c] = 0
      <4>1. \A c \in U : Net(fills, K, c, 0) = 0
        BY <1>0, <2>2, <2>3, NetStep
      <4> QED BY <4>1 DEF Held
    <3>2. Total(Held(K, U, 0), U) = 0
      BY <1>0, <3>1, SumOfZeros
    <3>3. NoLots.lots = <<>> /\ NoLots.losses = {} /\ Len(<<>>) = 0 /\ DOMAIN <<>> = {}
      BY DEF NoLots
    <3> QED BY <2>2, <2>3, <3>2, <3>3 DEF LotsOK
  <2>4. CASE n > 0
    <3> DEFINE t == g[n - 1]
    <3>1. n \in 1 .. Len(fills) /\ n - 1 \in 0 .. Len(fills) /\ t \in Lots
      BY <1>0, <2>2, <2>4
    <3>2. LotsOK(K, a, t, n - 1)
      <4>1. n - 1 \in bad => n <= n - 1
        BY <2>1
      <4>2. n - 1 \notin bad
        <5> HIDE DEF bad
        <5> QED BY <1>0, <3>1, <4>1
      <4> QED BY <3>1, <4>2
    <3>3. g[n] = Taken(K, t, n)
      BY <3>1
    <3> HIDE DEF t
    <3>4. \A c \in U : /\ Held(K, U, n)[c] = Held(K, U, n - 1)[c] + FillMoves(fills, K, c)[n]
                       /\ Held(K, U, n - 1)[c] \in Int
      <4>1. \A c \in U : /\ Net(fills, K, c, n) = Net(fills, K, c, n - 1) + FillMoves(fills, K, c)[n]
                         /\ Net(fills, K, c, n - 1) \in Int
        BY <2>4, <3>1, NetStep, <2>2
      <4> QED BY <4>1 DEF Held
    <3>5. CASE n \notin K
      <4>1. \A c \in U : Held(K, U, n)[c] = Held(K, U, n - 1)[c]
        <5>1. \A c \in U : FillMoves(fills, K, c)[n] = 0
          BY <1>0, <3>1, <3>5 DEF FillMoves
        <5> QED BY <3>4, <5>1
      <4>2. Total(Held(K, U, n), U) = Total(Held(K, U, n - 1), U)
        BY <1>0, <4>1, SumSame
      <4>3. g[n] = t
        BY <3>3, <3>5 DEF Taken
      <4>4. \A i \in K : i <= n - 1 => i <= n
        BY <1>0, <2>2
      <4> QED BY <2>2, <3>2, <4>2, <4>3, <4>4 DEF LotsOK
    <3>6. CASE n \in K
      <4> DEFINE b == fills[n].acct
                 d == IF fills[n].side = "buy" THEN fills[n].qty ELSE -fills[n].qty
      <4>1. /\ b \in U /\ d \in Int /\ fills[n].side \in {"buy", "sell"} /\ fills[n].qty \in Nat
        BY <3>1, <3>6, FillForms
      <4>2. \A c \in U : FillMoves(fills, K, c)[n] = IF c = b THEN d ELSE 0
        BY <1>0, <3>1, <3>6 DEF FillMoves
      <4>3. Total(Held(K, U, n), U) = Total(Held(K, U, n - 1), U) + d
        <5>1. \A c \in U : Held(K, U, n)[c] = Held(K, U, n - 1)[c] + (IF c = b THEN d ELSE 0)
          BY <3>4, <4>2
        <5>2. \A c \in U : Held(K, U, n - 1)[c] \in Int
          BY <3>4
        <5> HIDE DEF b, d, U
        <5> QED BY <1>0, <4>1, <5>1, <5>2, SumMoves
      <4>4. Total(Held(K, U, n - 1), U) \in Int
        BY <1>0, <3>4, SumOf
      <4>5. g[n] = Matched(t, n)
        BY <3>3, <3>6 DEF Taken
      <4>6. Len(Matched(t, n).lots) = Len(t.lots) + d
        <5>1. CASE fills[n].side = "buy"
          BY <3>1, <5>1, MatchedForms
        <5>2. CASE fills[n].side = "sell"
          <6>1. fills[n].qty <= Total(Held(K, Universe(a), n - 1), Universe(a))
            BY <3>6, <5>2, SaleIsCovered
          <6>2. fills[n].qty <= Len(t.lots)
            BY <3>2, <6>1 DEF LotsOK
          <6>3. Len(Matched(t, n).lots) = Len(t.lots) - fills[n].qty
            BY <3>1, <5>2, <6>2, MatchedForms
          <6>4. d = -fills[n].qty /\ Len(t.lots) \in Nat
            BY <3>1, <5>2 DEF Lots
          <6> QED BY <4>1, <6>3, <6>4
        <5> QED BY <4>1, <5>1, <5>2
      <4>7. ASSUME NEW j \in DOMAIN Matched(t, n).lots
            PROVE  \E i \in K : /\ i <= n /\ fills[i].side = "buy"
                                /\ fills[i].price = Matched(t, n).lots[j]
        <5>1. ASSUME NEW j1 \in DOMAIN t.lots, Matched(t, n).lots[j] = t.lots[j1]
              PROVE  \E i \in K : /\ i <= n /\ fills[i].side = "buy"
                                  /\ fills[i].price = Matched(t, n).lots[j]
          <6>1. PICK i \in K : i <= n - 1 /\ fills[i].side = "buy" /\ fills[i].price = t.lots[j1]
            BY <3>2 DEF LotsOK
          <6>2. i <= n
            BY <1>0, <2>2, <6>1
          <6> QED BY <5>1, <6>1, <6>2
        <5>2. n <= n
          BY <2>2
        <5>3. \/ fills[n].side = "buy" /\ Matched(t, n).lots[j] = fills[n].price
              \/ \E j1 \in DOMAIN t.lots : Matched(t, n).lots[j] = t.lots[j1]
          BY <3>1, <4>1, MatchedForms
        <5> QED BY <3>6, <5>1, <5>2, <5>3
      <4>8. Matched(t, n).losses \subseteq K
        <5>1. Matched(t, n).losses \subseteq t.losses \cup {n}
          BY <3>1, MatchedForms
        <5> QED BY <3>2, <3>6, <5>1 DEF LotsOK
      <4>9. Len(Matched(t, n).lots) = Total(Held(K, U, n), U)
        BY <3>2, <4>3, <4>6 DEF LotsOK
      <4> HIDE DEF d, b
      <4> QED BY <2>2, <4>5, <4>7, <4>8, <4>9 DEF LotsOK
    <3> QED BY <3>5, <3>6
  <2>5. n \in Nat
    BY <1>0, <2>2
  <2> HIDE DEF bad
  <2> QED BY <2>3, <2>4, <2>5
<1>2. bad = {}
  BY <1>1
<1>3. ASSUME NEW n \in 0 .. Len(fills) PROVE LotsOK(K, a, g[n], n)
  BY <1>2
<1> QED BY <1>3

\* A sale that is at a loss whichever shares it is matched with is found, and what is found
\* is a fill that is known.
LEMMA LossesAreFound ==
  ASSUME fills \in Seq(AnyFill), Covered(fills), NEW K, K \subseteq DOMAIN fills, Closed(fills, K),
         NEW a \in Accounts, \A i \in K : fills[i].acct \in Universe(a)
  PROVE  /\ LossSales(K) \subseteq K
         /\ \A k \in K : LossAnyway(k) => k \in LossSales(K)
<1>1. PICK g \in [0 .. Len(fills) -> Lots] :
        /\ g[0] = NoLots
        /\ \A i \in 1 .. Len(fills) : g[i] = Taken(K, g[i - 1], i)
        /\ LossSales(K) = g[Len(fills)].losses
  BY LossSalesByFill
<1>2. \A n \in 0 .. Len(fills) : LotsOK(K, a, g[n], n)
  BY <1>1, LotsAreShares
<1>3. Len(fills) \in Nat /\ DOMAIN fills = 1 .. Len(fills)
  BY FillForms
<1>4. LossSales(K) \subseteq K
  BY <1>1, <1>2, <1>3 DEF LotsOK
<1>5. ASSUME NEW k \in K, LossAnyway(k) PROVE k \in LossSales(K)
  <2> DEFINE t == g[k - 1]
  <2>1. k \in 1 .. Len(fills) /\ k - 1 \in 0 .. Len(fills) /\ k \in 0 .. Len(fills) /\ t \in Lots
    BY <1>3
  <2>2. LotsOK(K, a, t, k - 1) /\ g[k] = Matched(t, k)
    <3>1. g[k] = Taken(K, t, k)
      BY <1>1, <2>1
    <3> HIDE DEF t
    <3>2. g[k] = Matched(t, k)
      BY <3>1, <1>5 DEF Taken
    <3>3. LotsOK(K, a, t, k - 1)
      BY <1>2, <2>1 DEF t
    <3> QED BY <3>2, <3>3
  <2> HIDE DEF t
  <2>3. fills[k].side = "sell" /\ fills[k].qty \in Nat \ {0} /\ fills[k].price \in Nat
    BY <1>5, <2>1, FillForms DEF LossAnyway
  <2>4. fills[k].qty <= Len(t.lots) /\ Len(t.lots) \in Nat
    <3>1. fills[k].qty <= Total(Held(K, Universe(a), k - 1), Universe(a))
      BY <1>5, <2>3, SaleIsCovered
    <3>2. Len(t.lots) \in Nat
      BY <2>1 DEF Lots
    <3> QED BY <2>2, <3>1, <3>2 DEF LotsOK
  <2>5. Len(t.lots) > 0 /\ 1 \in DOMAIN t.lots
    <3>1. Len(t.lots) > 0
      BY <2>3, <2>4
    <3>2. t.lots \in Seq(Prices)
      BY <2>1 DEF Lots
    <3> QED BY <3>1, <3>2
  <2>6. PICK i \in K : i <= k - 1 /\ fills[i].side = "buy" /\ fills[i].price = t.lots[1]
    BY <2>2, <2>5 DEF LotsOK
  <2>7. fills[i].price > fills[k].price
    <3>1. i \in 1 .. k
      <4>1. i \in 1 .. Len(fills)
        BY <1>3
      <4> QED BY <1>3, <2>1, <2>6, <4>1
    <3>2. fills[i].acct \in Universe(fills[k].acct)
      <4>1. Universe(fills[k].acct) = Universe(a)
        BY <1>5, UniverseForms
      <4> QED BY <4>1
    <3> QED BY <1>5, <2>6, <3>1, <3>2 DEF LossAnyway
  <2>8. k \in g[k].losses
    <3>1. t.lots[1] > fills[k].price
      BY <2>6, <2>7
    <3> QED BY <2>1, <2>2, <2>3, <2>5, <3>1, MatchedForms
  <2>9. \A m \in k .. Len(fills) : k \in g[m].losses
    <3> DEFINE bad == {m \in k .. Len(fills) : k \notin g[m].losses}
    <3>1. ASSUME bad # {} PROVE FALSE
      <4>1. PICK m \in bad : \A m1 \in bad : m <= m1
        <5>1. bad \subseteq Nat
          BY <1>3, <2>1
        <5> HIDE DEF bad
        <5> QED BY <3>1, <5>1, Least
      <4>2. m \in k .. Len(fills) /\ m # k
        BY <2>8
      <4>3. m \in 1 .. Len(fills) /\ m - 1 \in 0 .. Len(fills) /\ m - 1 \in k .. Len(fills)
        <5> HIDE DEF bad
        <5> QED BY <1>3, <2>1, <4>2
      <4>4. k \in g[m - 1].losses
        <5>1. m - 1 \in bad => m <= m - 1
          BY <4>1
        <5>2. m - 1 \notin bad
          <6> HIDE DEF bad
          <6> QED BY <1>3, <4>3, <5>1
        <5> QED BY <4>3, <5>2
      <4>5. g[m] = Taken(K, g[m - 1], m) /\ g[m - 1] \in Lots
        BY <1>1, <4>3
      <4>6. g[m - 1].losses \subseteq g[m].losses
        BY <4>3, <4>5, MatchedForms DEF Taken
      <4> QED BY <4>4, <4>6
    <3>2. bad = {}
      BY <3>1
    <3> QED BY <3>2
  <2>10. Len(fills) \in k .. Len(fills)
    BY <1>3, <2>1
  <2> QED BY <1>1, <2>9, <2>10
<1> QED BY <1>4, <1>5

\* SharesOf() is the sum of the fills of an account.
LEMMA SharesAreNet ==
  ASSUME fills \in Seq(AnyFill), NEW a
  PROVE  SharesOf(a) = Net(fills, DOMAIN fills, a, Len(fills))
<1> DEFINE n == Len(fills)
           Then(m, f) == IF f.acct # a THEN m ELSE IF f.side = "buy" THEN m + f.qty ELSE m - f.qty
           mine(it) == it = [s \in SUBSET (DOMAIN fills) |-> IF s = {} THEN 0
                               ELSE Then(it[s \ {Max(s)}], fills[Max(s)])]
           it == CHOOSE h : mine(h)
           step == [i \in 1 .. n |-> [m \in Int |-> Then(m, fills[i])]]
           moved == FillMoves(fills, DOMAIN fills, a)
<1>0. n \in Nat /\ DOMAIN fills = 1 .. n
  BY FillForms
<1>1. SharesOf(a) = it[1 .. n]
  <2>1. SharesOf(a) = it[DOMAIN fills]
    BY DEF SharesOf, FoldLeft, MapThenFoldSet
  <2> HIDE DEF it, n
  <2> QED BY <1>0, <2>1
<1>2. \A i \in 1 .. n, m \in Int : Then(m, fills[i]) = m + moved[i] /\ moved[i] \in Int
  <2>1. \A i \in 1 .. n : /\ i \in DOMAIN fills /\ fills[i].qty \in Nat
                          /\ moved[i] = IF fills[i].acct = a
                                        THEN IF fills[i].side = "buy" THEN fills[i].qty ELSE -fills[i].qty
                                        ELSE 0
    BY <1>0, FillForms DEF FillMoves
  <2> HIDE DEF moved, n
  <2> QED BY <2>1
<1>3. PICK h \in [SUBSET (1 .. n) -> Int] : IsFold(h, step, 0, n)
  <2>1. \A i \in 1 .. n, m \in Int : step[i][m] \in Int
    <3> SUFFICES ASSUME NEW i \in 1 .. n, NEW m \in Int PROVE step[i][m] \in Int
      OBVIOUS
    <3>1. step[i][m] = Then(m, fills[i])
      OBVIOUS
    <3>2. Then(m, fills[i]) = m + moved[i] /\ moved[i] \in Int
      BY <1>2
    <3> HIDE DEF step, Then, n, moved
    <3>3. m + moved[i] \in Int
      BY <3>2
    <3> QED BY <3>1, <3>2, <3>3
  <2> DEFINE T == Int base == 0
  <2>2. base \in T /\ \A i \in 1 .. n, m \in T : step[i][m] \in T
    BY <2>1
  <2> HIDE DEF n, step, T, base
  <2>3. \E h \in [SUBSET (1 .. n) -> T] : IsFold(h, step, base, n)
    BY <1>0, <2>2, FoldExists
  <2> QED BY <2>3 DEF T, base
<1>4. mine(h)
  <2>1. ASSUME NEW s \in SUBSET (1 .. n)
        PROVE  h[s] = IF s = {} THEN 0 ELSE Then(h[s \ {Max(s)}], fills[Max(s)])
    <3>1. CASE s = {}
      BY <1>3, <3>1 DEF IsFold
    <3>2. CASE s # {}
      <4>1. Max(s) \in 1 .. n
        BY <1>0, <3>2, LastPlace
      <4>2. h[s] = step[Max(s)][h[s \ {Max(s)}]]
        <5> HIDE DEF step
        <5> QED BY <1>3, <3>2 DEF IsFold
      <4>3. h[s \ {Max(s)}] \in Int
        BY <1>3
      <4>4. \A i \in 1 .. n, m \in Int : step[i][m] = Then(m, fills[i])
        OBVIOUS
      <4> HIDE DEF step, n, Then
      <4> QED BY <3>2, <4>1, <4>2, <4>3, <4>4
    <3> QED BY <3>1, <3>2
  <2> HIDE DEF n, Then
  <2> QED BY <1>0, <1>3, <2>1
<1>5. mine(it)
  <2> HIDE DEF mine
  <2> QED BY <1>4
<1> DEFINE bad == {m \in 0 .. n : it[1 .. m] # Total(moved, 1 .. m)}
<1>6. ASSUME bad # {} PROVE FALSE
  <2>1. PICK m \in bad : \A k \in bad : m <= k
    <3>1. bad \subseteq Nat
      BY <1>0
    <3> HIDE DEF bad
    <3> QED BY <1>6, <3>1, Least
  <2>2. m \in 0 .. n /\ it[1 .. m] # Total(moved, 1 .. m) /\ m \in Nat
    BY <1>0
  <2>3. CASE m = 0
    <3>1. it[{}] = 0
      <4> HIDE DEF it, Then
      <4> QED BY <1>5
    <3>2. 1 .. m = {}
      BY <2>3
    <3> HIDE DEF it, moved
    <3> QED BY <2>2, <3>1, <3>2, SumOfNone
  <2>4. CASE m > 0
    <3>1. m \in 1 .. n /\ m \in Nat \ {0} /\ m - 1 \in 0 .. n /\ 1 .. m # {}
      <4>1. m \in 0 .. n /\ m \in Nat
        BY <2>2
      <4> HIDE DEF n, bad, it, moved, step
      <4>2. m \in 1 .. n /\ m \in Nat \ {0} /\ m - 1 \in 0 .. n /\ m \in 1 .. m
        BY <1>0, <2>4, <4>1
      <4> QED BY <4>2
    <3>2. (1 .. m) \in SUBSET (DOMAIN fills)
      <4>1. \A k \in 1 .. m : k \in 1 .. n
        <5> HIDE DEF n, bad
        <5> QED BY <1>0, <3>1
      <4> HIDE DEF n, bad
      <4> QED BY <1>0, <4>1
    <3>3. it[1 .. m] = Then(it[(1 .. m) \ {Max(1 .. m)}], fills[Max(1 .. m)])
      <4> HIDE DEF it, Then, bad
      <4> QED BY <1>5, <3>1, <3>2
    <3>4. it[1 .. m] = Then(it[1 .. (m - 1)], fills[m])
      <4> HIDE DEF it, Then, bad
      <4> QED BY <3>1, <3>3, LastOfPlaces
    <3>5. it[1 .. (m - 1)] = Total(moved, 1 .. (m - 1))
      <4>1. m - 1 \in bad => m <= m - 1
        BY <2>1
      <4>2. m - 1 \notin bad
        <5> HIDE DEF bad, n
        <5> QED BY <2>2, <4>1
      <4> HIDE DEF it, moved, n
      <4> QED BY <3>1, <4>2
    <3>6. Total(moved, 1 .. (m - 1)) \in Int /\ Total(moved, 1 .. m) = Total(moved, 1 .. (m - 1)) + moved[m]
      <4>1. \A i \in 1 .. m : moved[i] \in Int
        <5>1. \A i \in 1 .. m : i \in 1 .. n
          <6> HIDE DEF n, bad
          <6> QED BY <1>0, <3>1
        <5> HIDE DEF n, bad, moved, Then
        <5> QED BY <1>2, <5>1
      <4>2. m - 1 \in Nat /\ \A i \in 1 .. (m - 1) : moved[i] \in Int
        <5>1. m - 1 \in Nat /\ \A i \in 1 .. (m - 1) : i \in 1 .. m
          BY <2>2, <3>1
        <5> HIDE DEF moved, bad
        <5> QED BY <4>1, <5>1
      <4> HIDE DEF moved, bad
      <4> QED BY <2>2, <2>4, <4>1, <4>2, SumUpTo
    <3>7. it[1 .. m] = Total(moved, 1 .. m)
      <4> HIDE DEF it, moved, Then, n, bad
      <4> QED BY <1>2, <3>1, <3>4, <3>5, <3>6
    <3> QED BY <2>2, <3>7
  <2> QED BY <2>2, <2>3, <2>4
<1>7. n \in 0 .. n /\ n \notin bad
  <2>1. n \in 0 .. n
    <3> HIDE DEF n
    <3> QED BY <1>0
  <2> HIDE DEF bad
  <2> QED BY <1>6, <2>1
<1>8. it[1 .. n] = Total(moved, 1 .. n)
  <2> HIDE DEF it, moved, n
  <2> QED BY <1>7
<1> HIDE DEF it, Then
<1> QED BY <1>1, <1>8 DEF Net

-----------------------------------------------------------------------------

\* A window that a fill opened is of its account and as long as the law asks.
WindowsTrue ==
  \A w \in windows : w.sale # Estimated => /\ w.acct = fills[w.sale].acct
                                           /\ w.end >= fills[w.sale].day + Window

\* What a reconciliation had before it has a window if it is a loss whatever it is matched with.
LossesHaveWindows == \A k \in told : LossAnyway(k) => \E w \in windows : w.sale = k

\* No account sells more than it has; each sync stores all that an account did by then;
\* windows are true, and the losses have theirs.
WashInv ==
  /\ WashTypeOK
  /\ Covered(fills) /\ Closed(fills, stored)
  /\ WindowsTrue /\ LossesHaveWindows

\* The parts of the type that the lemmas need.
LEMMA WashForms ==
  ASSUME WashTypeOK
  PROVE  /\ fills \in Seq(AnyFill) /\ day \in Nat /\ Len(fills) \in Nat /\ DOMAIN fills = 1 .. Len(fills)
         /\ \A i \in 1 .. Len(fills) : fills[i].day \in 0 .. day /\ fills[i].acct \in Accounts
         /\ stored \in SUBSET (1 .. Len(fills)) /\ told \subseteq stored
         /\ Window \in Nat \ {0} /\ profile.buffer \in Nat /\ profile.blocks \in BOOLEAN
         /\ Estimated \notin stored
<1>1. day \in Nat
  BY WashAssumption DEF WashTypeOK
<1> DEFINE F == [acct : Accounts, side : {"buy", "sell"}, price : Prices, qty : Quantities, day : 0 .. day]
<1>2. fills \in Seq(F)
  BY DEF WashTypeOK
<1>3. Len(fills) \in Nat /\ DOMAIN fills = 1 .. Len(fills) /\ \A i \in 1 .. Len(fills) : fills[i] \in F
  <2> HIDE DEF F
  <2> QED BY <1>2
<1>4. \A f \in F : f \in AnyFill /\ f.day \in 0 .. day /\ f.acct \in Accounts
  BY <1>1 DEF AnyFill
<1>5. fills \in Seq(AnyFill)
  <2> HIDE DEF F
  <2> QED BY <1>2, <1>3, <1>4
<1>6. /\ stored \in SUBSET (1 .. Len(fills)) /\ told \subseteq stored
      /\ Window \in Nat \ {0} /\ profile.buffer \in Nat /\ profile.blocks \in BOOLEAN
  BY <1>3, WashAssumption DEF WashTypeOK
<1>7. Estimated \notin stored
  BY <1>6 DEF Estimated
<1> HIDE DEF F
<1> QED BY <1>1, <1>3, <1>4, <1>5, <1>6, <1>7

\* Whether a sale is a loss is of the fills up to it.
LEMMA LossIsOfThePast ==
  ASSUME NEW k \in DOMAIN fills, \A i \in 1 .. k : fills'[i] = fills[i], k \in Nat \ {0}
  PROVE  LossAnyway(k)' <=> LossAnyway(k)
<1>1. k \in 1 .. k
  OBVIOUS
<1> QED BY <1>1 DEF LossAnyway

\* A trade adds a fill that its account can pay with its shares.
LEMMA TradeKeeps ==
  ASSUME WashInv, NEW a \in Accounts, NEW side \in {"buy", "sell"}, Fills(a, side),
         UNCHANGED <<day, profile, stored, told>>,
         cycle' \in Accounts \cup {NoAccount},
         windows \subseteq windows',
         \A w \in windows' \ windows : w.sale = Estimated /\ w.acct \in Accounts /\ w.end \in Nat
                                       /\ w \in [acct : Accounts, sale : {Estimated}, end : Nat]
  PROVE  WashInv'
<1> USE DEF WashInv
<1>1. PICK price \in Prices, qty \in Quantities :
        /\ side = "sell" => qty <= SharesOf(a)
        /\ fills' = Append(fills, [acct |-> a, side |-> side, price |-> price, qty |-> qty, day |-> day])
  BY DEF Fills
<1> DEFINE f == [acct |-> a, side |-> side, price |-> price, qty |-> qty, day |-> day]
           F == [acct : Accounts, side : {"buy", "sell"}, price : Prices, qty : Quantities, day : 0 .. day]
           n == Len(fills)
<1>2. /\ fills \in Seq(AnyFill) /\ n \in Nat /\ DOMAIN fills = 1 .. n /\ stored \in SUBSET (1 .. n)
      /\ day \in Nat /\ fills \in Seq(F)
  BY WashForms DEF WashTypeOK
<1>3. f \in F /\ f \in AnyFill /\ f.qty \in Nat /\ f.acct = a /\ f.side = side /\ f.qty = qty
  BY <1>2, WashAssumption DEF AnyFill
<1>4. /\ fills' \in Seq(F) /\ fills' = Append(fills, f)
      /\ fills' \in Seq(AnyFill)
      /\ Len(fills') = n + 1 /\ DOMAIN fills' = 1 .. (n + 1)
      /\ \A i \in 1 .. n : fills'[i] = fills[i]
      /\ fills'[n + 1] = f
  <2>1. fills' = Append(fills, f)
    BY <1>1
  <2> HIDE DEF f, F
  <2> QED BY <1>2, <1>3, <2>1
<1>5. WashTypeOK'
  <2>1. fills' \in Seq([acct : Accounts, side : {"buy", "sell"}, price : Prices, qty : Quantities, day : 0 .. day'])
    BY <1>4
  <2>2. windows' \subseteq [acct : Accounts, sale : {Estimated} \cup stored', end : Nat]
    BY DEF WashTypeOK
  <2>3. stored' \subseteq DOMAIN fills' /\ told' \subseteq stored'
    <3>1. \A k \in stored : k \in 1 .. (n + 1)
      <4> HIDE DEF n
      <4> QED BY <1>2
    <3> QED BY <1>4, <3>1 DEF WashTypeOK
  <2> QED BY <2>1, <2>2, <2>3 DEF WashTypeOK
<1>6. Covered(fills')
  <2> SUFFICES ASSUME NEW b \in Accounts, NEW m \in 0 .. Len(fills')
               PROVE  Net(fills', DOMAIN fills', b, m) >= 0
    BY DEF Covered
  <2> HIDE DEF f
  <2>1. \A k \in 0 .. n : Net(fills', DOMAIN fills', b, k) = Net(fills, DOMAIN fills, b, k)
                          /\ Net(fills, DOMAIN fills, b, k) >= 0 /\ Net(fills, DOMAIN fills, b, k) \in Int
    BY <1>2, <1>3, <1>4, NetIsKept, NetStep DEF Covered
  <2>2. CASE m \in 0 .. n
    BY <2>1, <2>2
  <2>3. CASE m = n + 1
    <3>1. Net(fills', DOMAIN fills', b, n + 1)
            = Net(fills', DOMAIN fills', b, n) + FillMoves(fills', DOMAIN fills', b)[n + 1]
      <4>1. n + 1 \in 0 .. Len(fills') /\ n + 1 > 0 /\ (n + 1) - 1 = n
        <5> HIDE DEF n
        <5> QED BY <1>2, <1>4
      <4> DEFINE m1 == n + 1 G == fills' K == DOMAIN fills'
      <4>2. m1 \in 0 .. Len(G) /\ m1 > 0 /\ m1 - 1 = n /\ G \in Seq(AnyFill)
        BY <1>4, <4>1
      <4> HIDE DEF n, m1, G, K
      <4>3. Net(G, K, b, m1) = Net(G, K, b, m1 - 1) + FillMoves(G, K, b)[m1]
        BY <4>2, NetStep
      <4> QED BY <4>2, <4>3 DEF m1, G, K
    <3>2. n \in 0 .. n /\ n + 1 \in DOMAIN fills'
      BY <1>2, <1>4
    <3>3. FillMoves(fills', DOMAIN fills', b)[n + 1]
            = IF a = b THEN IF side = "buy" THEN qty ELSE -qty ELSE 0
      <4> HIDE DEF n
      <4> QED BY <1>3, <1>4, <3>2 DEF FillMoves
    <3> DEFINE x == Net(fills', DOMAIN fills', b, n) y == FillMoves(fills', DOMAIN fills', b)[n + 1]
               z == Net(fills', DOMAIN fills', b, n + 1)
    <3>4. x = Net(fills, DOMAIN fills, b, n) /\ x >= 0 /\ x \in Int
      BY <2>1, <3>2
    <3>5. a = b /\ side = "sell" => qty <= x
      <4>1. SharesOf(a) = Net(fills, DOMAIN fills, a, n)
        BY <1>2, SharesAreNet
      <4> QED BY <1>1, <3>4, <4>1
    <3>6. z = x + y /\ y = (IF a = b THEN IF side = "buy" THEN qty ELSE -qty ELSE 0) /\ qty \in Nat
      BY <1>3, <3>1, <3>3
    <3> HIDE DEF x, y, z
    <3>7. z >= 0
      BY <3>4, <3>5, <3>6
    <3> QED BY <2>3, <3>7 DEF z
  <2>4. m \in 0 .. n \/ m = n + 1
    <3> HIDE DEF n
    <3> QED BY <1>2, <1>4
  <2> QED BY <2>2, <2>3, <2>4
<1>7. Closed(fills', stored')
  <2>1. \A k \in stored : \A i \in 1 .. k : fills'[i] = fills[i] /\ fills'[k] = fills[k]
    <3>1. \A k \in stored : \A i \in 1 .. k : i \in 1 .. n /\ k \in 1 .. n
      <4> HIDE DEF n
      <4> QED BY <1>2
    <3> QED BY <1>4, <3>1
  <2> QED BY <2>1 DEF Closed
<1>8. \A k \in stored : fills'[k] = fills[k] /\ (LossAnyway(k)' <=> LossAnyway(k))
  <2> SUFFICES ASSUME NEW k \in stored PROVE fills'[k] = fills[k] /\ (LossAnyway(k)' <=> LossAnyway(k))
    OBVIOUS
  <2>1. k \in 1 .. n /\ k \in Nat \ {0} /\ k \in DOMAIN fills /\ \A i \in 1 .. k : i \in 1 .. n
    <3> HIDE DEF n
    <3> QED BY <1>2
  <2>2. \A i \in 1 .. k : fills'[i] = fills[i]
    BY <1>4, <2>1
  <2> QED BY <1>4, <2>1, <2>2, LossIsOfThePast
<1>9. WindowsTrue'
  <2> SUFFICES ASSUME NEW w \in windows', w.sale # Estimated
               PROVE  w.acct = fills'[w.sale].acct /\ w.end >= fills'[w.sale].day + Window
    BY DEF WindowsTrue
  <2>1. w \in windows /\ w.sale \in stored
    BY DEF WashTypeOK
  <2> QED BY <1>8, <2>1 DEF WindowsTrue
<1>10. LossesHaveWindows'
  <2> SUFFICES ASSUME NEW k \in told, LossAnyway(k)' PROVE \E w \in windows' : w.sale = k
    BY DEF LossesHaveWindows
  <2>1. k \in stored
    BY DEF WashTypeOK
  <2>2. LossAnyway(k)
    BY <1>8, <2>1
  <2> QED BY <2>2 DEF LossesHaveWindows
<1> QED BY <1>5, <1>6, <1>7, <1>9, <1>10

\* A sync knows more, and a reconciliation under a blocking profile gives what it has its windows.
LEMMA SyncKeeps ==
  ASSUME WashInv, NEW a \in Accounts, Synced(a), UNCHANGED <<day, profile, fills>>,
         cycle' \in Accounts \cup {NoAccount}
  PROVE  WashInv'
<1> DEFINE known == stored \cup {k \in DOMAIN fills : fills[k].acct = a}
           mine == {k \in known : fills[k].acct \in Universe(a)}
<1>1. /\ stored' = known /\ windows' = Reconciled(a, known)
      /\ told' = IF profile.blocks THEN told \cup {k \in known : fills[k].acct \in Universe(a)} ELSE told
  BY DEF Synced
<1>2. /\ fills \in Seq(AnyFill) /\ stored \in SUBSET (DOMAIN fills) /\ told \subseteq stored
      /\ DOMAIN fills = 1 .. Len(fills) /\ Len(fills) \in Nat
      /\ \A k \in DOMAIN fills : fills[k].acct \in Accounts /\ fills[k].day \in Nat /\ k # Estimated
      /\ Window \in Nat \ {0} /\ profile.buffer \in Nat /\ profile.blocks \in BOOLEAN
  <2>1. WashTypeOK
    BY DEF WashInv
  <2>2. fills \in Seq(AnyFill)
    BY <2>1, WashForms
  <2> QED BY <2>1, <2>2, WashForms, FillForms DEF Estimated
<1>3. known \subseteq DOMAIN fills /\ mine \subseteq DOMAIN fills /\ mine \subseteq known
  BY <1>2
<1>4. Closed(fills, known) /\ Closed(fills, mine)
  <2>1. Closed(fills, known)
    <3>1. \A k \in known : \A i \in 1 .. k : i \in DOMAIN fills
      <4>1. \A k \in known : k \in 1 .. Len(fills)
        BY <1>2, <1>3
      <4> HIDE DEF known
      <4> QED BY <1>2, <4>1
    <3>2. Closed(fills, stored)
      BY DEF WashInv
    <3> QED BY <3>1, <3>2 DEF Closed
  <2> HIDE DEF known
  <2> QED BY <2>1 DEF Closed
<1>5. /\ LossSales(mine) \subseteq mine
      /\ \A k \in mine : LossAnyway(k) => k \in LossSales(mine)
  <2>1. Covered(fills)
    BY DEF WashInv
  <2>2. \A k \in mine : fills[k].acct \in Universe(a)
    OBVIOUS
  <2> HIDE DEF mine
  <2> QED BY <1>2, <1>3, <1>4, <2>1, <2>2, LossesAreFound
<1> DEFINE new == {k \in LossSales(mine) : ~\E w \in windows : w.sale = k}
<1>6. windows' = IF profile.blocks THEN windows \cup {WindowOf(k) : k \in new} ELSE windows
  BY <1>1 DEF Reconciled
<1>7. \A k \in new : /\ WindowOf(k).sale = k /\ WindowOf(k).acct = fills[k].acct
                     /\ WindowOf(k).end >= fills[k].day + Window
                     /\ WindowOf(k) \in [acct : Accounts, sale : {Estimated} \cup known, end : Nat]
  <2>1. \A k \in new : k \in known /\ k \in DOMAIN fills
    BY <1>3, <1>5
  <2> HIDE DEF known, new
  <2>2. \A k \in new : fills[k].acct \in Accounts /\ fills[k].day \in Nat
    BY <1>2, <2>1
  <2>3. \A k \in new : fills[k].day + Forward \in Nat /\ fills[k].day + Forward >= fills[k].day + Window
    BY <1>2, <2>2 DEF Forward
  <2> QED BY <2>1, <2>2, <2>3 DEF WindowOf
<1> HIDE DEF new
<1>8. WashTypeOK'
  <2>1. windows' \subseteq [acct : Accounts, sale : {Estimated} \cup stored', end : Nat]
    <3>1. windows \subseteq [acct : Accounts, sale : {Estimated} \cup known, end : Nat]
      BY DEF WashInv, WashTypeOK
    <3> HIDE DEF known
    <3> QED BY <1>1, <1>6, <1>7, <3>1
  <2>2. stored' \subseteq DOMAIN fills /\ told' \subseteq stored'
    BY <1>1, <1>2, <1>3
  <2> QED BY <2>1, <2>2 DEF WashInv, WashTypeOK
<1>9. Covered(fills') /\ Closed(fills', stored')
  BY <1>1, <1>4 DEF WashInv
<1>10. WindowsTrue'
  <2> HIDE DEF known, mine
  <2> QED BY <1>6, <1>7 DEF WashInv, WindowsTrue
<1>11. LossesHaveWindows'
  <2> SUFFICES ASSUME NEW k \in told', LossAnyway(k)' PROVE \E w \in windows' : w.sale = k
    BY DEF LossesHaveWindows
  <2>1. LossAnyway(k)
    BY DEF LossAnyway
  <2>2. CASE k \in told
    BY <1>6, <2>1, <2>2 DEF WashInv, LossesHaveWindows
  <2>3. CASE k \notin told
    <3>1. profile.blocks /\ k \in mine
      BY <1>1, <2>3
    <3>2. k \in LossSales(mine)
      BY <1>5, <2>1, <3>1
    <3>3. CASE \E w \in windows : w.sale = k
      BY <1>6, <3>3
    <3>4. CASE ~\E w \in windows : w.sale = k
      <4>1. k \in new
        BY <3>2, <3>4 DEF new
      <4>2. WindowOf(k) \in windows'
        BY <1>6, <3>1, <4>1
      <4> QED BY <1>7, <4>1, <4>2
    <3> QED BY <3>3, <3>4
  <2> QED BY <2>2, <2>3
<1> QED BY <1>8, <1>9, <1>10, <1>11 DEF WashInv

\* Each step keeps the invariant.
LEMMA WashStep ==
  ASSUME WashInv, WashNext PROVE WashInv'
<1>0. WashTypeOK
  BY DEF WashInv
<1>1. CASE NextDay
  <2>1. /\ day' = day + 1 /\ day < MaxDay /\ UNCHANGED <<profile, fills, stored, windows, cycle, told>>
    BY <1>1 DEF NextDay
  <2>2. day \in 0 .. MaxDay /\ MaxDay \in Nat
    BY <1>0, WashAssumption DEF WashTypeOK
  <2>3. day' \in 0 .. MaxDay
    BY <2>1, <2>2
  <2> DEFINE F(d) == [acct : Accounts, side : {"buy", "sell"}, price : Prices, qty : Quantities, day : 0 .. d]
  <2>4. fills \in Seq(F(day))
    BY <1>0 DEF WashTypeOK
  <2>5. \A f \in F(day) : f \in F(day')
    <3>1. 0 .. day \subseteq 0 .. day'
      BY <2>1, <2>2
    <3> QED BY <3>1
  <2>6. fills' \in Seq(F(day'))
    <3> HIDE DEF F
    <3>1. \A i \in 1 .. Len(fills) : fills[i] \in F(day')
      BY <2>4, <2>5
    <3> QED BY <2>1, <2>4, <3>1
  <2>7. WashTypeOK'
    BY <1>0, <2>1, <2>3, <2>6 DEF WashTypeOK
  <2>8. \A k : LossAnyway(k)' <=> LossAnyway(k)
    BY <2>1 DEF LossAnyway
  <2> QED BY <2>1, <2>7, <2>8 DEF WashInv, WindowsTrue, LossesHaveWindows
<1>2. ASSUME NEW p \in Profiles, Moves(p) PROVE WashInv'
  <2>1. profile' = p /\ UNCHANGED <<day, fills, stored, windows, cycle, told>>
    BY <1>2 DEF Moves
  <2>2. WashTypeOK'
    BY <1>0, <2>1 DEF WashTypeOK
  <2>3. \A k : LossAnyway(k)' <=> LossAnyway(k)
    BY <2>1 DEF LossAnyway
  <2> QED BY <2>1, <2>2, <2>3 DEF WashInv, WindowsTrue, LossesHaveWindows
<1>3. ASSUME NEW a \in Accounts, Sync(a) \/ CycleSync(a) PROVE WashInv'
  <2>1. Synced(a) /\ UNCHANGED <<day, profile, fills>> /\ cycle' \in Accounts \cup {NoAccount}
    BY <1>0, <1>3 DEF Sync, CycleSync, WashTypeOK
  <2> QED BY <2>1, SyncKeeps
<1>4. ASSUME NEW a \in Accounts, CliBuys(a) \/ OwnerTrades(a) PROVE WashInv'
  <2>1. PICK side \in {"buy", "sell"} : Fills(a, side)
    BY <1>4 DEF CliBuys, OwnerTrades
  <2>2. UNCHANGED <<day, profile, stored, windows, cycle, told>>
    BY <1>4 DEF CliBuys, OwnerTrades
  <2>3. cycle' \in Accounts \cup {NoAccount}
    BY <1>0, <2>2 DEF WashTypeOK
  <2> QED BY <2>1, <2>2, <2>3, TradeKeeps
<1>5. ASSUME NEW a \in Accounts, CliSells(a) PROVE WashInv'
  <2>1. Fills(a, "sell") /\ UNCHANGED <<day, profile, stored, cycle, told>>
    BY <1>5 DEF CliSells
  <2> DEFINE w0 == [acct |-> a, sale |-> Estimated, end |-> day + Forward]
  <2>2. windows' = windows \cup {w0} \/ windows' = windows
    BY <1>5 DEF CliSells
  <2>3. w0 \in [acct : Accounts, sale : {Estimated}, end : Nat] /\ w0.sale = Estimated
        /\ w0.acct \in Accounts /\ w0.end \in Nat
    <3>1. day + Forward \in Nat
      BY <1>0, WashForms DEF Forward
    <3> QED BY <3>1
  <2>4. cycle' \in Accounts \cup {NoAccount}
    BY <1>0, <2>1 DEF WashTypeOK
  <2> HIDE DEF w0
  <2>5. windows \subseteq windows' /\ \A w \in windows' \ windows : w = w0
    BY <2>2
  <2> QED BY <2>1, <2>3, <2>4, <2>5, TradeKeeps
<1>6. CASE CycleLeaves
  <2>1. cycle' = NoAccount /\ UNCHANGED <<day, profile, fills, stored, windows, told>>
    BY <1>6 DEF CycleLeaves
  <2>2. WashTypeOK'
    BY <1>0, <2>1 DEF WashTypeOK
  <2>3. \A k : LossAnyway(k)' <=> LossAnyway(k)
    BY <2>1 DEF LossAnyway
  <2> QED BY <2>1, <2>2, <2>3 DEF WashInv, WindowsTrue, LossesHaveWindows
<1>7. CASE CycleRecords
  <2>1. PICK k \in stored : windows' = windows \cup {WindowOf(k)}
    BY <1>7 DEF CycleRecords
  <2>2. UNCHANGED <<day, profile, fills, stored, cycle, told>>
    BY <1>7 DEF CycleRecords
  <2>3. /\ WindowOf(k) \in [acct : Accounts, sale : {Estimated} \cup stored, end : Nat]
        /\ WindowOf(k).sale = k /\ WindowOf(k).acct = fills[k].acct
        /\ WindowOf(k).end >= fills[k].day + Window
    <3>1. /\ fills[k].acct \in Accounts /\ fills[k].day \in 0 .. day /\ day \in Nat
          /\ Window \in Nat /\ profile.buffer \in Nat
      BY <1>0, WashForms
    <3>2. fills[k].day + Forward \in Nat /\ fills[k].day + Forward >= fills[k].day + Window
      BY <3>1 DEF Forward
    <3> QED BY <3>1, <3>2 DEF WindowOf
  <2>4. WashTypeOK'
    BY <1>0, <2>1, <2>2, <2>3 DEF WashTypeOK
  <2>5. \A j : LossAnyway(j)' <=> LossAnyway(j)
    BY <2>2 DEF LossAnyway
  <2> QED BY <2>1, <2>2, <2>3, <2>4, <2>5 DEF WashInv, WindowsTrue, LossesHaveWindows
<1>8. CASE CycleSells \/ CycleBuys
  <2>1. PICK side \in {"buy", "sell"} : Fills(cycle, side)
    BY <1>8 DEF CycleSells, CycleBuys
  <2>2. UNCHANGED <<day, profile, stored, windows, cycle, told>> /\ cycle # NoAccount
    BY <1>8 DEF CycleSells, CycleBuys
  <2>3. cycle \in Accounts /\ cycle' \in Accounts \cup {NoAccount}
    BY <1>0, <2>2 DEF WashTypeOK
  <2> QED BY <2>1, <2>2, <2>3, TradeKeeps
<1> QED BY <1>1, <1>2, <1>3, <1>4, <1>5, <1>6, <1>7, <1>8 DEF WashNext

LEMMA WashStarts == WashInit => WashInv
<1> SUFFICES ASSUME WashInit PROVE WashInv
  OBVIOUS
<1>1. /\ day = 0 /\ profile \in Profiles /\ fills = <<>> /\ stored = {} /\ windows = {} /\ told = {}
      /\ cycle = NoAccount
  BY DEF WashInit
<1>2. day \in 0 .. MaxDay /\ Len(fills) = 0 /\ DOMAIN fills = {} /\ fills \in Seq(AnyFill)
  BY <1>1, WashAssumption
<1>3. fills \in Seq([acct : Accounts, side : {"buy", "sell"}, price : Prices, qty : Quantities, day : 0 .. day])
  BY <1>1
<1>4. WashTypeOK
  BY <1>1, <1>2, <1>3 DEF WashTypeOK
<1>5. Covered(fills)
  <2>1. ASSUME NEW b \in Accounts, NEW m \in 0 .. Len(fills) PROVE Net(fills, DOMAIN fills, b, m) >= 0
    <3>1. m = 0 /\ 0 \in 0 .. Len(fills)
      BY <1>2
    <3>2. Net(fills, DOMAIN fills, b, 0) = 0
      BY <1>2, <3>1, NetStep
    <3> QED BY <3>1, <3>2
  <2> QED BY <2>1 DEF Covered
<1> QED BY <1>1, <1>4, <1>5 DEF WashInv, Closed, WindowsTrue, LossesHaveWindows

LEMMA WashKeeps == ASSUME WashInv, [WashNext]_washVars PROVE WashInv'
<1>1. CASE WashNext
  BY <1>1, WashStep
<1>2. CASE UNCHANGED washVars
  <2>1. UNCHANGED <<day, profile, fills, stored, windows, cycle, told>>
    BY <1>2 DEF washVars
  <2>2. WashTypeOK'
    BY <2>1 DEF WashInv, WashTypeOK
  <2>3. \A j : LossAnyway(j)' <=> LossAnyway(j)
    BY <2>1 DEF LossAnyway
  <2> QED BY <2>1, <2>2, <2>3 DEF WashInv, WindowsTrue, LossesHaveWindows
<1> QED BY <1>1, <1>2

\* reconcile_wash_sales_for_tax_universe, record_wash_sale: the inductive invariant of the windows.
THEOREM WashInvariant == WashSpec => []WashInv
<1>1. WashInit => WashInv
  BY WashStarts
<1>2. WashInv /\ [WashNext]_washVars => WashInv'
  BY WashKeeps
<1> QED BY <1>1, <1>2, PTL DEF WashSpec

\* A buy that found no window is of an account whose universe met no such loss of late.
LEMMA NoWindowNoLoss ==
  ASSUME WashInv, NEW a \in Accounts, profile.blocks, ~HasWindow(a),
         NEW k \in told, LossAnyway(k), fills[k].acct \in Universe(a)
  PROVE  fills[k].day + Window < day
<1>1. PICK w \in windows : w.sale = k
  BY DEF WashInv, LossesHaveWindows
<1>2. k # Estimated /\ k \in 1 .. Len(fills)
  BY WashForms DEF WashInv
<1>3. w.acct = fills[k].acct /\ w.end >= fills[k].day + Window
  BY <1>1, <1>2 DEF WashInv, WindowsTrue
<1>4. ~(w.end >= day)
  BY <1>1, <1>3 DEF HasWindow
<1>5. w.end \in Nat /\ day \in Nat /\ fills[k].day \in 0 .. day /\ Window \in Nat
  <2>1. w.end \in Nat
    BY <1>1 DEF WashInv, WashTypeOK
  <2> QED BY <1>2, <2>1, WashForms DEF WashInv
<1> QED BY <1>3, <1>4, <1>5

\* has_wash_sale_window, cmd_buy: no replacement buy within the window of the law, for any
\* accounts, prices and changes of the country.
THEOREM WashWindowsBlock == WashSpec => NoReplacementBuy
<1> DEFINE Blocked ==
      \A a \in Accounts :
        profile.blocks /\ ((CycleBuys /\ a = cycle) \/ (CliBuys(a) /\ a \in RealAccounts)) =>
          \A k \in told : LossAnyway(k) /\ fills[k].acct \in Universe(a) => fills[k].day + Window < day
<1>1. WashInv /\ [WashNext]_washVars => Blocked
  <2> SUFFICES ASSUME WashInv, NEW a \in Accounts, profile.blocks,
                      (CycleBuys /\ a = cycle) \/ (CliBuys(a) /\ a \in RealAccounts),
                      NEW k \in told, LossAnyway(k), fills[k].acct \in Universe(a)
               PROVE  fills[k].day + Window < day
    OBVIOUS
  <2>1. ~HasWindow(a)
    <3>1. CASE CycleBuys /\ a = cycle
      BY <3>1 DEF CycleBuys
    <3>2. CASE CliBuys(a) /\ a \in RealAccounts
      <4>1. a \notin PaperAccounts
        BY <3>2, WashAssumption
      <4> QED BY <3>2, <4>1 DEF CliBuys, CliHasWindow
    <3> QED BY <3>1, <3>2
  <2> QED BY <2>1, NoWindowNoLoss
<1> QED BY <1>1, WashInvariant, PTL DEF WashSpec, NoReplacementBuy

\* The windows, fills and syncs keep their types (tax.rs, wash_sale_windows).
THEOREM WashTypeCorrect == WashSpec => []WashTypeOK
<1>1. WashInv => WashTypeOK
  BY DEF WashInv
<1> QED BY <1>1, WashInvariant, PTL

-----------------------------------------------------------------------------
(* The matching of sales (ShareMatching)                                     *)

\* The sums of the community modules are those of the lemmas.
LEMMA SumOfFunction == ASSUME NEW f, NEW S PROVE SumFunctionOnSet(f, S) = Total(f, S)
BY DEF SumFunctionOnSet, FoldFunctionOnSet, MapThenFoldSet, Total, IsSum, AnyOf

Matchings == [left : [DOMAIN trades -> Nat], pool : Nat, out : [Pairs -> Nat]]

\* A fill is a sale or a purchase of some shares on a day.
LEMMA FillsAreTyped ==
  ASSUME MatchingTypeOK
  PROVE  /\ Len(trades) \in Nat /\ DOMAIN trades = 1 .. Len(trades) /\ 0 \notin DOMAIN trades
         /\ LastDay \in Nat /\ Later \in Nat
         /\ \A k \in DOMAIN trades : /\ trades[k].day \in 0 .. LastDay /\ trades[k].day \in Nat
                                     /\ trades[k].qty \in Nat /\ trades[k].qty > 0
         /\ \A k \in Sales(DOMAIN trades) : k \notin Purchases(DOMAIN trades)
<1> DEFINE F == [day : 0 .. LastDay, side : {"buy", "sell"}, qty : Amounts]
<1>1. trades \in Seq(F) /\ LastDay \in Nat /\ Later \in Nat /\ Amounts \subseteq Nat \ {0}
  BY MatchingAssumption DEF MatchingTypeOK
<1>2. \A f \in F : f.day \in 0 .. LastDay /\ f.qty \in Amounts
  OBVIOUS
<1> HIDE DEF F
<1>3. Len(trades) \in Nat /\ DOMAIN trades = 1 .. Len(trades) /\ \A k \in DOMAIN trades : trades[k] \in F
  BY <1>1
<1>4. \A k \in Sales(DOMAIN trades) : k \notin Purchases(DOMAIN trades)
  BY DEF Sales, Purchases
<1>5. \A k \in DOMAIN trades : trades[k].day \in 0 .. LastDay /\ trades[k].qty \in Nat \ {0}
  BY <1>1, <1>2, <1>3
<1>6. \A k \in DOMAIN trades : trades[k].day \in Nat /\ trades[k].qty \in Nat /\ trades[k].qty > 0
  BY <1>5
<1>7. 0 \notin DOMAIN trades
  BY <1>3
<1> QED BY <1>1, <1>3, <1>4, <1>5, <1>6, <1>7

\* The fills, and the pairs of them, are finitely many.
LEMMA FillsAreFinite ==
  ASSUME MatchingTypeOK
  PROVE  /\ IsFiniteSet(DOMAIN trades) /\ IsFiniteSet(Pairs)
         /\ \A T \in SUBSET DOMAIN trades : IsFiniteSet(T)
         /\ \A S \in SUBSET Pairs : IsFiniteSet(S)
<1>1. IsFiniteSet(DOMAIN trades)
  BY FillsAreTyped, FS_Interval
<1>2. IsFiniteSet(DOMAIN trades \cup {Pool})
  BY <1>1, FS_AddElement
<1>3. IsFiniteSet(Pairs)
  BY <1>1, <1>2, FS_Product DEF Pairs
<1> QED BY <1>1, <1>3, FS_Subset

\* Nothing is matched at first.
LEMMA UnmatchedIsTyped == ASSUME MatchingTypeOK PROVE Unmatched \in Matchings
<1>1. \A k \in DOMAIN trades : trades[k].qty \in Nat
  BY FillsAreTyped
<1> DEFINE l == [k \in DOMAIN trades |-> trades[k].qty] o == [x \in Pairs |-> 0]
<1>2. l \in [DOMAIN trades -> Nat] /\ o \in [Pairs -> Nat]
  BY <1>1
<1> HIDE DEF l, o
<1>3. [left |-> l, pool |-> 0, out |-> o] \in Matchings
  BY <1>2 DEF Matchings
<1> QED BY <1>3 DEF Unmatched, l, o

\* What one match takes from a sale and a purchase.
LEMMA MatchTakes ==
  ASSUME MatchingTypeOK, NEW m \in Matchings,
         NEW k \in Sales(DOMAIN trades), NEW j \in Purchases(DOMAIN trades)
  PROVE  \E q \in Nat :
           /\ Match(m, k, j) \in Matchings
           /\ q <= m.left[k] /\ q <= m.left[j] /\ (q = m.left[k] \/ q = m.left[j])
           /\ Match(m, k, j).pool = m.pool
           /\ \A i \in DOMAIN trades :
                Match(m, k, j).left[i] = m.left[i] - (IF i \in {k, j} THEN q ELSE 0)
           /\ \A x \in Pairs :
                Match(m, k, j).out[x] = m.out[x] + (IF x = <<k, j>> THEN q ELSE 0)
<1> DEFINE q == LessOf(m.left[k], m.left[j])
           l == [m.left EXCEPT ![k] = @ - q, ![j] = @ - q]
           o == [m.out EXCEPT ![<<k, j>>] = @ + q]
<1>1. k \in DOMAIN trades /\ j \in DOMAIN trades /\ k # j /\ <<k, j>> \in Pairs
  BY FillsAreTyped DEF Sales, Purchases, Pairs
<1>2. m.left \in [DOMAIN trades -> Nat] /\ m.pool \in Nat /\ m.out \in [Pairs -> Nat]
  BY DEF Matchings
<1>3. /\ q \in Nat /\ q <= m.left[k] /\ q <= m.left[j] /\ (q = m.left[k] \/ q = m.left[j])
      /\ m.left[k] - q \in Nat /\ m.left[j] - q \in Nat
  <2>1. m.left[k] \in Nat /\ m.left[j] \in Nat
    BY <1>1, <1>2
  <2> QED BY <2>1 DEF LessOf
<1> HIDE DEF q
<1>4. /\ l \in [DOMAIN trades -> Nat]
      /\ \A i \in DOMAIN trades : l[i] = m.left[i] - (IF i \in {k, j} THEN q ELSE 0)
  BY <1>1, <1>2, <1>3
<1>5. o \in [Pairs -> Nat] /\ \A x \in Pairs : o[x] = m.out[x] + (IF x = <<k, j>> THEN q ELSE 0)
  BY <1>1, <1>2, <1>3
<1>6. Match(m, k, j) = [left |-> l, pool |-> m.pool, out |-> o]
  BY DEF Match, q
<1> HIDE DEF l, o
<1>7. [left |-> l, pool |-> m.pool, out |-> o] \in Matchings
  BY <1>2, <1>4, <1>5 DEF Matchings
<1> QED BY <1>3, <1>4, <1>5, <1>6, <1>7

\* What the pool gives to a sale.
LEMMA PoolGives ==
  ASSUME MatchingTypeOK, NEW m \in Matchings, NEW k \in Sales(DOMAIN trades)
  PROVE  \E q \in Nat :
           /\ FromPool(m, k) \in Matchings
           /\ q <= m.left[k] /\ q <= m.pool
           /\ FromPool(m, k).pool = m.pool - q
           /\ \A i \in DOMAIN trades : FromPool(m, k).left[i] = m.left[i] - (IF i = k THEN q ELSE 0)
           /\ \A x \in Pairs : FromPool(m, k).out[x] = m.out[x] + (IF x = <<k, Pool>> THEN q ELSE 0)
<1> DEFINE q == LessOf(m.left[k], m.pool)
           l == [m.left EXCEPT ![k] = @ - q]
           p == m.pool - q
           o == [m.out EXCEPT ![<<k, Pool>>] = @ + q]
<1>1. k \in DOMAIN trades /\ <<k, Pool>> \in Pairs
  BY DEF Sales, Pairs
<1>2. m.left \in [DOMAIN trades -> Nat] /\ m.pool \in Nat /\ m.out \in [Pairs -> Nat]
  BY DEF Matchings
<1>3. /\ q \in Nat /\ q <= m.left[k] /\ q <= m.pool /\ m.left[k] - q \in Nat /\ p \in Nat
  <2>1. m.left[k] \in Nat
    BY <1>1, <1>2
  <2> QED BY <1>2, <2>1 DEF LessOf
<1> HIDE DEF q
<1>4. /\ l \in [DOMAIN trades -> Nat]
      /\ \A i \in DOMAIN trades : l[i] = m.left[i] - (IF i = k THEN q ELSE 0)
  BY <1>1, <1>2, <1>3
<1>5. o \in [Pairs -> Nat] /\ \A x \in Pairs : o[x] = m.out[x] + (IF x = <<k, Pool>> THEN q ELSE 0)
  BY <1>1, <1>2, <1>3
<1>6. FromPool(m, k) = [left |-> l, pool |-> p, out |-> o]
  BY DEF FromPool, q
<1>7. p = m.pool - q
  OBVIOUS
<1> HIDE DEF l, o, p
<1>8. [left |-> l, pool |-> p, out |-> o] \in Matchings
  BY <1>3, <1>4, <1>5 DEF Matchings
<1> QED BY <1>3, <1>4, <1>5, <1>6, <1>7, <1>8

\* From a to b sales and purchases are only matched, by the pairs R.
Follows(a, b, R) ==
  /\ b \in Matchings
  /\ \A i \in DOMAIN trades : b.left[i] <= a.left[i]
  /\ \A x \in Pairs : a.out[x] <= b.out[x] /\ (x \notin R => b.out[x] = a.out[x])

\* What was taken from the purchases before a day, and what is held of them, is
\* constant once they are in the pool, and so is what a fill has and is matched with.
Used(d) == {x \in Pairs : x[2] = Pool \/ x[2] \in Earlier(DOMAIN trades, d)}
Stock(m, d) == m.pool + Total(m.left, Earlier(DOMAIN trades, d)) + Total(m.out, Used(d))

Balances(a, b) ==
  /\ \A k \in Sales(DOMAIN trades) :
       b.left[k] + Total(b.out, OfSale(k)) = a.left[k] + Total(a.out, OfSale(k))
  /\ \A j \in Purchases(DOMAIN trades) :
       b.left[j] + Total(b.out, OfBuy(j)) = a.left[j] + Total(a.out, OfBuy(j))
  /\ \A d \in Nat : Stock(b, d) = Stock(a, d)

\* One run after another is a run.
LEMMA FollowsTransitive ==
  ASSUME NEW a \in Matchings, NEW b, NEW c, NEW R, NEW S, Follows(a, b, R), Follows(b, c, S)
  PROVE  Follows(a, c, R \cup S)
<1>1. a \in Matchings /\ b \in Matchings /\ c \in Matchings
  BY DEF Follows
<1>2. ASSUME NEW i \in DOMAIN trades PROVE c.left[i] <= a.left[i]
  <2>1. a.left[i] \in Nat /\ b.left[i] \in Nat /\ c.left[i] \in Nat
    BY <1>1 DEF Matchings
  <2>2. b.left[i] <= a.left[i] /\ c.left[i] <= b.left[i]
    BY DEF Follows
  <2> QED BY <2>1, <2>2
<1>3. ASSUME NEW x \in Pairs PROVE a.out[x] <= c.out[x] /\ (x \notin R \cup S => c.out[x] = a.out[x])
  <2>1. a.out[x] \in Nat /\ b.out[x] \in Nat /\ c.out[x] \in Nat
    BY <1>1 DEF Matchings
  <2>2. a.out[x] <= b.out[x] /\ b.out[x] <= c.out[x] /\ (x \notin R => b.out[x] = a.out[x])
        /\ (x \notin S => c.out[x] = b.out[x])
    BY DEF Follows
  <2> QED BY <2>1, <2>2
<1> QED BY <1>1, <1>2, <1>3 DEF Follows

\* The pairs may be more.
LEMMA FollowsMonotone ==
  ASSUME NEW a, NEW b, NEW R, NEW S, Follows(a, b, R), R \subseteq S PROVE Follows(a, b, S)
BY DEF Follows

\* No step is a run, too.
LEMMA FollowsReflexive == ASSUME NEW a \in Matchings, NEW R PROVE Follows(a, a, R)
<1>1. \A i \in DOMAIN trades : a.left[i] \in Nat
  BY DEF Matchings
<1>2. \A x \in Pairs : a.out[x] \in Nat
  BY DEF Matchings
<1> QED BY <1>1, <1>2 DEF Follows

\* Balances add up.
LEMMA BalancesTransitive ==
  ASSUME NEW a, NEW b, NEW c, Balances(a, b), Balances(b, c) PROVE Balances(a, c)
BY DEF Balances

\* The sums of the matches of a fill are numbers.
LEMMA SumsAreNumbers ==
  ASSUME MatchingTypeOK, NEW m \in Matchings
  PROVE  /\ \A S \in SUBSET Pairs : Total(m.out, S) \in Nat /\ IsFiniteSet(S)
         /\ \A I \in SUBSET DOMAIN trades : Total(m.left, I) \in Nat /\ IsFiniteSet(I)
<1>1. ASSUME NEW S \in SUBSET Pairs PROVE Total(m.out, S) \in Nat /\ IsFiniteSet(S)
  <2>1. \A x \in S : m.out[x] \in Nat
    BY DEF Matchings
  <2> QED BY <2>1, FillsAreFinite, SumOfNat
<1>2. ASSUME NEW I \in SUBSET DOMAIN trades PROVE Total(m.left, I) \in Nat /\ IsFiniteSet(I)
  <2>1. \A i \in I : m.left[i] \in Nat
    BY DEF Matchings
  <2> QED BY <2>1, FillsAreFinite, SumOfNat
<1> QED BY <1>1, <1>2

\* One more match: the sums over a set of pairs.
LEMMA SumOfOneMatch ==
  ASSUME MatchingTypeOK, NEW f \in [Pairs -> Nat], NEW g, NEW y \in Pairs, NEW q \in Nat,
         \A x \in Pairs : g[x] = f[x] + (IF x = y THEN q ELSE 0)
  PROVE  \A S \in SUBSET Pairs : Total(g, S) = Total(f, S) + (IF y \in S THEN q ELSE 0)
<1> SUFFICES ASSUME NEW S \in SUBSET Pairs
             PROVE  Total(g, S) = Total(f, S) + (IF y \in S THEN q ELSE 0)
  OBVIOUS
<1>1. \A x \in S : f[x] \in Int /\ f[x] \in Nat
  OBVIOUS
<1>2. IsFiniteSet(S) /\ Total(f, S) \in Nat
  BY <1>1, FillsAreFinite, SumOfNat
<1>3. CASE y \in S
  <2>1. \A x \in S : g[x] = f[x] + (IF x = y THEN q ELSE 0)
    OBVIOUS
  <2>2. Total(g, S) = Total(f, S) + q
    BY <1>1, <1>2, <1>3, <2>1, SumMoves
  <2> QED BY <1>3, <2>2
<1>4. CASE y \notin S
  <2>1. \A x \in S : g[x] = f[x]
    BY <1>1, <1>4
  <2>2. Total(g, S) = Total(f, S)
    BY <1>2, <2>1, SumSame
  <2> QED BY <1>2, <1>4, <2>2
<1> QED BY <1>3, <1>4

\* A match uses up the sale or the purchase, and every book balances.
LEMMA MatchFollows ==
  ASSUME MatchingTypeOK, NEW m \in Matchings,
         NEW k \in Sales(DOMAIN trades), NEW j \in Purchases(DOMAIN trades)
  PROVE  /\ Follows(m, Match(m, k, j), {<<k, j>>}) /\ Balances(m, Match(m, k, j))
         /\ Match(m, k, j).pool = m.pool
         /\ Match(m, k, j).left[k] = 0 \/ Match(m, k, j).left[j] = 0
         /\ \A i \in DOMAIN trades \ {k, j} : Match(m, k, j).left[i] = m.left[i]
<1> DEFINE b == Match(m, k, j)
<1>1. PICK q \in Nat :
        /\ b \in Matchings
        /\ q <= m.left[k] /\ q <= m.left[j] /\ (q = m.left[k] \/ q = m.left[j])
        /\ b.pool = m.pool
        /\ \A i \in DOMAIN trades : b.left[i] = m.left[i] - (IF i \in {k, j} THEN q ELSE 0)
        /\ \A x \in Pairs : b.out[x] = m.out[x] + (IF x = <<k, j>> THEN q ELSE 0)
  BY MatchTakes
<1> HIDE DEF b
<1>2. /\ k \in DOMAIN trades /\ j \in DOMAIN trades /\ k # j /\ <<k, j>> \in Pairs
      /\ k \notin Purchases(DOMAIN trades) /\ j \notin Sales(DOMAIN trades) /\ j # Pool
  BY FillsAreTyped DEF Sales, Purchases, Pairs, Pool
<1>3. /\ \A i \in DOMAIN trades : m.left[i] \in Nat /\ b.left[i] \in Nat
      /\ \A x \in Pairs : m.out[x] \in Nat /\ b.out[x] \in Nat
      /\ m.pool \in Nat
  BY <1>1 DEF Matchings
<1>4. Follows(m, b, {<<k, j>>})
  <2>1. \A i \in DOMAIN trades : b.left[i] <= m.left[i]
    BY <1>1, <1>3
  <2>2. \A x \in Pairs : m.out[x] <= b.out[x] /\ (x \notin {<<k, j>>} => b.out[x] = m.out[x])
    BY <1>1, <1>3
  <2> QED BY <1>1, <2>1, <2>2 DEF Follows
<1>5. \A S \in SUBSET Pairs :
        Total(b.out, S) = Total(m.out, S) + (IF <<k, j>> \in S THEN q ELSE 0)
  <2> DEFINE f == m.out g == b.out y == <<k, j>>
  <2>1. f \in [Pairs -> Nat] /\ y \in Pairs /\ \A x \in Pairs : g[x] = f[x] + (IF x = y THEN q ELSE 0)
    BY <1>1, <1>2 DEF Matchings
  <2> HIDE DEF f, g, y
  <2>2. \A S \in SUBSET Pairs : Total(g, S) = Total(f, S) + (IF y \in S THEN q ELSE 0)
    BY <2>1, SumOfOneMatch
  <2> QED BY <2>2 DEF f, g, y
<1>6. ASSUME NEW i \in Sales(DOMAIN trades)
      PROVE  b.left[i] + Total(b.out, OfSale(i)) = m.left[i] + Total(m.out, OfSale(i))
  <2>1. OfSale(i) \in SUBSET Pairs /\ (<<k, j>> \in OfSale(i) <=> i = k) /\ i # j /\ i \in DOMAIN trades
    BY <1>2 DEF OfSale, Sales
  <2>2. Total(m.out, OfSale(i)) \in Nat /\ m.left[i] \in Nat
    BY <2>1, <1>3, SumsAreNumbers
  <2>3. /\ b.left[i] = m.left[i] - (IF i = k THEN q ELSE 0)
        /\ Total(b.out, OfSale(i)) = Total(m.out, OfSale(i)) + (IF i = k THEN q ELSE 0)
    BY <1>1, <1>5, <2>1
  <2> QED BY <2>2, <2>3
<1>7. ASSUME NEW i \in Purchases(DOMAIN trades)
      PROVE  b.left[i] + Total(b.out, OfBuy(i)) = m.left[i] + Total(m.out, OfBuy(i))
  <2>1. OfBuy(i) \in SUBSET Pairs /\ (<<k, j>> \in OfBuy(i) <=> i = j) /\ i # k /\ i \in DOMAIN trades
    BY <1>2 DEF OfBuy, Purchases
  <2>2. Total(m.out, OfBuy(i)) \in Nat /\ m.left[i] \in Nat
    BY <2>1, <1>3, SumsAreNumbers
  <2>3. /\ b.left[i] = m.left[i] - (IF i = j THEN q ELSE 0)
        /\ Total(b.out, OfBuy(i)) = Total(m.out, OfBuy(i)) + (IF i = j THEN q ELSE 0)
    BY <1>1, <1>5, <2>1
  <2> QED BY <2>2, <2>3
<1>8. ASSUME NEW d \in Nat PROVE Stock(b, d) = Stock(m, d)
  <2> DEFINE E == Earlier(DOMAIN trades, d)
  <2>1. /\ E \in SUBSET DOMAIN trades /\ k \notin E /\ Used(d) \in SUBSET Pairs
        /\ (<<k, j>> \in Used(d) <=> j \in E)
    BY <1>2 DEF Earlier, Purchases, Used
  <2>2. Total(m.out, Used(d)) \in Nat /\ Total(m.left, E) \in Nat /\ IsFiniteSet(E)
    BY <2>1, SumsAreNumbers
  <2>3. Total(b.out, Used(d)) = Total(m.out, Used(d)) + (IF j \in E THEN q ELSE 0)
    BY <1>5, <2>1
  <2>4. Total(b.left, E) = Total(m.left, E) - (IF j \in E THEN q ELSE 0)
    <3> HIDE DEF E
    <3>1. CASE j \in E
      <4>1. \A y \in E : m.left[y] \in Int /\ b.left[y] = m.left[y] + (IF y = j THEN 0 - q ELSE 0)
        BY <1>1, <1>2, <1>3, <2>1
      <4>2. 0 - q \in Int
        OBVIOUS
      <4>3. Total(b.left, E) = Total(m.left, E) + (0 - q)
        BY <2>2, <3>1, <4>1, <4>2, SumMoves
      <4> QED BY <2>2, <3>1, <4>3
    <3>2. CASE j \notin E
      <4>1. \A y \in E : b.left[y] = m.left[y]
        BY <1>1, <1>3, <2>1, <3>2
      <4>2. Total(b.left, E) = Total(m.left, E)
        BY <2>2, <4>1, SumSame
      <4> QED BY <2>2, <3>2, <4>2
    <3> QED BY <3>1, <3>2
  <2> QED BY <1>1, <1>3, <2>2, <2>3, <2>4 DEF Stock
<1>9. Balances(m, b)
  BY <1>6, <1>7, <1>8 DEF Balances
<1>10. (b.left[k] = 0 \/ b.left[j] = 0) /\ \A i \in DOMAIN trades \ {k, j} : b.left[i] = m.left[i]
  BY <1>1, <1>2, <1>3
<1> QED BY <1>1, <1>4, <1>9, <1>10 DEF b

\* So they do when the pool gives to a sale.
LEMMA FromPoolFollows ==
  ASSUME MatchingTypeOK, NEW m \in Matchings, NEW k \in Sales(DOMAIN trades)
  PROVE  Follows(m, FromPool(m, k), {<<k, Pool>>}) /\ Balances(m, FromPool(m, k))
<1> DEFINE b == FromPool(m, k)
<1>1. PICK q \in Nat :
        /\ b \in Matchings
        /\ q <= m.left[k] /\ q <= m.pool
        /\ b.pool = m.pool - q
        /\ \A i \in DOMAIN trades : b.left[i] = m.left[i] - (IF i = k THEN q ELSE 0)
        /\ \A x \in Pairs : b.out[x] = m.out[x] + (IF x = <<k, Pool>> THEN q ELSE 0)
  BY PoolGives
<1> HIDE DEF b
<1>2. k \in DOMAIN trades /\ <<k, Pool>> \in Pairs /\ k \notin Purchases(DOMAIN trades)
  BY FillsAreTyped DEF Sales, Pairs
<1>3. /\ \A i \in DOMAIN trades : m.left[i] \in Nat /\ b.left[i] \in Nat
      /\ \A x \in Pairs : m.out[x] \in Nat /\ b.out[x] \in Nat
      /\ m.pool \in Nat
  BY <1>1 DEF Matchings
<1>4. Follows(m, b, {<<k, Pool>>})
  <2>1. \A i \in DOMAIN trades : b.left[i] <= m.left[i]
    BY <1>1, <1>3
  <2>2. \A x \in Pairs : m.out[x] <= b.out[x] /\ (x \notin {<<k, Pool>>} => b.out[x] = m.out[x])
    BY <1>1, <1>3
  <2> QED BY <1>1, <2>1, <2>2 DEF Follows
<1>5. \A S \in SUBSET Pairs :
        Total(b.out, S) = Total(m.out, S) + (IF <<k, Pool>> \in S THEN q ELSE 0)
  <2> DEFINE f == m.out g == b.out y == <<k, Pool>>
  <2>1. f \in [Pairs -> Nat] /\ y \in Pairs /\ \A x \in Pairs : g[x] = f[x] + (IF x = y THEN q ELSE 0)
    BY <1>1, <1>2 DEF Matchings
  <2> HIDE DEF f, g, y
  <2>2. \A S \in SUBSET Pairs : Total(g, S) = Total(f, S) + (IF y \in S THEN q ELSE 0)
    BY <2>1, SumOfOneMatch
  <2> QED BY <2>2 DEF f, g, y
<1>6. ASSUME NEW i \in Sales(DOMAIN trades)
      PROVE  b.left[i] + Total(b.out, OfSale(i)) = m.left[i] + Total(m.out, OfSale(i))
  <2>1. OfSale(i) \in SUBSET Pairs /\ (<<k, Pool>> \in OfSale(i) <=> i = k) /\ i \in DOMAIN trades
    BY <1>2 DEF OfSale, Sales
  <2>2. Total(m.out, OfSale(i)) \in Nat /\ m.left[i] \in Nat
    BY <2>1, <1>3, SumsAreNumbers
  <2>3. /\ b.left[i] = m.left[i] - (IF i = k THEN q ELSE 0)
        /\ Total(b.out, OfSale(i)) = Total(m.out, OfSale(i)) + (IF i = k THEN q ELSE 0)
    BY <1>1, <1>5, <2>1
  <2> QED BY <2>2, <2>3
<1>7. ASSUME NEW i \in Purchases(DOMAIN trades)
      PROVE  b.left[i] + Total(b.out, OfBuy(i)) = m.left[i] + Total(m.out, OfBuy(i))
  <2>1. OfBuy(i) \in SUBSET Pairs /\ <<k, Pool>> \notin OfBuy(i) /\ i # k /\ i \in DOMAIN trades
    BY <1>2, FillsAreTyped DEF OfBuy, Purchases, Pool
  <2>2. Total(m.out, OfBuy(i)) \in Nat /\ m.left[i] \in Nat
    BY <2>1, <1>3, SumsAreNumbers
  <2>3. b.left[i] = m.left[i] /\ Total(b.out, OfBuy(i)) = Total(m.out, OfBuy(i))
    BY <1>1, <1>5, <2>1, <2>2
  <2> QED BY <2>3
<1>8. ASSUME NEW d \in Nat PROVE Stock(b, d) = Stock(m, d)
  <2> DEFINE E == Earlier(DOMAIN trades, d)
  <2>1. /\ E \in SUBSET DOMAIN trades /\ k \notin E /\ Used(d) \in SUBSET Pairs
        /\ <<k, Pool>> \in Used(d)
    BY <1>2 DEF Earlier, Purchases, Used
  <2>2. Total(m.out, Used(d)) \in Nat /\ Total(m.left, E) \in Nat /\ IsFiniteSet(E)
    BY <2>1, SumsAreNumbers
  <2>3. Total(b.out, Used(d)) = Total(m.out, Used(d)) + q
    BY <1>5, <2>1
  <2>4. Total(b.left, E) = Total(m.left, E)
    <3> HIDE DEF E
    <3>1. \A y \in E : b.left[y] = m.left[y]
      BY <1>1, <1>3, <2>1
    <3> QED BY <2>2, <3>1, SumSame
  <2> QED BY <1>1, <1>3, <2>2, <2>3, <2>4 DEF Stock
<1>9. Balances(m, b)
  BY <1>6, <1>7, <1>8 DEF Balances
<1> QED BY <1>4, <1>9 DEF b

\* They are kept where nothing changes.
LEMMA BalancesReflexive == ASSUME NEW a PROVE Balances(a, a)
BY DEF Balances

\* The purchases of one sale in turn.
IsSaleRun(h, m, k, lots) ==
  /\ h \in [0 .. Len(trades) -> Matchings]
  /\ h[0] = m /\ MatchSale(m, k, lots) = h[Len(trades)]
  /\ \A j \in 1 .. Len(trades) :
       h[j] = IF j \in lots THEN Match(h[j - 1], k, j) ELSE h[j - 1]

\* There is such a run, from any matching.
LEMMA MatchSaleByStep ==
  ASSUME MatchingTypeOK, NEW m \in Matchings, NEW k \in DOMAIN trades,
         NEW lots \in SUBSET Purchases(DOMAIN trades), lots # {} => k \in Sales(DOMAIN trades)
  PROVE  \E h : IsSaleRun(h, m, k, lots)
<1> DEFINE n == Len(trades)
           step == [j \in 1 .. n |-> [t \in Matchings |-> IF j \in lots THEN Match(t, k, j) ELSE t]]
           IsRun(h) == h = [j \in 0 .. n |-> IF j = 0 THEN m
                                             ELSE IF j \in lots THEN Match(h[j - 1], k, j) ELSE h[j - 1]]
<1>1. n \in Nat
  BY FillsAreTyped
<1>2. ASSUME NEW j \in 1 .. n, NEW t \in Matchings PROVE step[j][t] \in Matchings
  <2>1. CASE j \in lots
    <3>1. Match(t, k, j) \in Matchings
      BY <2>1, MatchTakes
    <3> QED BY <2>1, <3>1
  <2>2. CASE j \notin lots
    BY <2>2
  <2> QED BY <2>1, <2>2
<1>3. PICK h \in [0 .. n -> Matchings] : IsLoop(h, step, m, n)
  <2>1. \A i \in 1 .. n, t \in Matchings : step[i][t] \in Matchings
    BY <1>2
  <2> HIDE DEF n, step, IsRun
  <2> QED BY <1>1, <2>1, LoopExists
<1>4. ASSUME NEW j \in 1 .. n
      PROVE  h[j] = (IF j \in lots THEN Match(h[j - 1], k, j) ELSE h[j - 1]) /\ j \in 0 .. n
  <2>1. j \in 0 .. n /\ j # 0 /\ j - 1 \in 0 .. n
    BY <1>1
  <2>2. h[j - 1] \in Matchings /\ h[j] = step[j][h[j - 1]]
    <3> HIDE DEF step
    <3> QED BY <1>3, <2>1 DEF IsLoop
  <2> QED BY <2>1, <2>2
<1>5. h[0] = m
  BY <1>3 DEF IsLoop
<1>6. IsRun(h)
  <2>1. \A j \in 0 .. n : h[j] = IF j = 0 THEN m
                                 ELSE IF j \in lots THEN Match(h[j - 1], k, j) ELSE h[j - 1]
    <3> HIDE DEF step
    <3> QED BY <1>1, <1>4, <1>5
  <2> HIDE DEF step
  <2>2. DOMAIN h = 0 .. n /\ h = [j \in DOMAIN h |-> h[j]]
    OBVIOUS
  <2> QED BY <2>1, <2>2
<1> DEFINE g == CHOOSE f : IsRun(f)
<1>7. IsRun(g) /\ MatchSale(m, k, lots) = g[n]
  <2>1. MatchSale(m, k, lots) = g[n]
    BY DEF MatchSale
  <2> HIDE DEF IsRun
  <2> QED BY <1>6, <2>1
<1> HIDE DEF g
<1>8. ASSUME NEW j \in 0 .. n
      PROVE  g[j] = IF j = 0 THEN m ELSE IF j \in lots THEN Match(g[j - 1], k, j) ELSE g[j - 1]
  <2> HIDE DEF n
  <2> QED BY <1>7
<1>9. g[0] = m /\ \A j \in 1 .. n : g[j] = IF j \in lots THEN Match(g[j - 1], k, j) ELSE g[j - 1]
  BY <1>1, <1>8
<1>10. \A j \in 0 .. n : g[j] \in Matchings
  <2> DEFINE S == {j \in 0 .. n : g[j] \in Matchings}
  <2>1. 0 \in S
    BY <1>1, <1>9
  <2>2. ASSUME NEW j \in 1 .. n, j - 1 \in S PROVE j \in S
    <3>1. CASE j \in lots
      <4>1. Match(g[j - 1], k, j) \in Matchings
        BY <2>2, <3>1, MatchTakes
      <4> QED BY <1>9, <3>1, <4>1
    <3>2. CASE j \notin lots
      BY <1>9, <2>2, <3>2
    <3> QED BY <3>1, <3>2
  <2> HIDE DEF S, n
  <2>3. \A j \in 0 .. n : j \in S
    BY <1>1, <2>1, <2>2, StepByStep
  <2> QED BY <2>3 DEF S
<1>11. g \in [0 .. n -> Matchings]
  <2>1. g = [j \in 0 .. n |-> g[j]]
    BY <1>7, <1>8
  <2> HIDE DEF n
  <2> QED BY <1>10, <2>1
<1> QED BY <1>7, <1>9, <1>11 DEF IsSaleRun

\* One sale is matched with its purchases: both it and they are used up as far as
\* the other allows.
SaleServed(a, b, k, lots) ==
  /\ Follows(a, b, {k} \X lots) /\ Balances(a, b)
  /\ b.pool = a.pool
  /\ \A j \in lots : b.left[k] = 0 \/ b.left[j] = 0
  /\ \A i \in DOMAIN trades : i # k /\ i \notin lots => b.left[i] = a.left[i]
  /\ lots = {} => b = a

\* So every run of the purchases ends.
LEMMA MatchSaleFollows ==
  ASSUME MatchingTypeOK, NEW m \in Matchings, NEW k \in DOMAIN trades,
         NEW lots \in SUBSET Purchases(DOMAIN trades), lots # {} => k \in Sales(DOMAIN trades),
         NEW b, b = MatchSale(m, k, lots)
  PROVE  SaleServed(m, b, k, lots)
<1> DEFINE n == Len(trades) R == {k} \X lots
<1>1. n \in Nat /\ DOMAIN trades = 1 .. n
  BY FillsAreTyped
<1>0. PICK h : IsSaleRun(h, m, k, lots)
  BY MatchSaleByStep
<1>2. /\ h[0] = m /\ b = h[n] /\ \A j \in 0 .. n : h[j] \in Matchings
      /\ \A j \in 1 .. n : h[j] = IF j \in lots THEN Match(h[j - 1], k, j) ELSE h[j - 1]
  BY <1>0 DEF IsSaleRun
<1> DEFINE Good(c, j) ==
             /\ Follows(m, c, R) /\ Balances(m, c) /\ c.pool = m.pool
             /\ \A i \in lots : i <= j => c.left[k] = 0 \/ c.left[i] = 0
             /\ \A i \in DOMAIN trades : i # k /\ i \notin lots => c.left[i] = m.left[i]
             /\ lots = {} => c = m
           S == {j \in 0 .. n : Good(h[j], j)}
<1>3. 0 \in S
  <2>1. \A i \in lots : ~(i <= 0)
    BY <1>1 DEF Purchases
  <2>2. Follows(m, m, R) /\ Balances(m, m)
    BY FollowsReflexive, BalancesReflexive
  <2>3. 0 \in 0 .. n
    BY <1>1
  <2> QED BY <1>2, <2>1, <2>2, <2>3
<1>4. ASSUME NEW j \in 1 .. n, j - 1 \in S PROVE j \in S
  <2> DEFINE a == h[j - 1] c == h[j]
  <2>1. j - 1 \in 0 .. n /\ j \in 0 .. n /\ a \in Matchings /\ Good(a, j - 1)
    BY <1>1, <1>2, <1>4
  <2>2. c = IF j \in lots THEN Match(a, k, j) ELSE a
    BY <1>2
  <2> HIDE DEF a, c
  <2>3. \A i \in lots : i \in 1 .. n
    BY <1>1 DEF Purchases
  <2>4. CASE j \notin lots
    <3>1. \A i \in lots : i <= j => i <= j - 1
      BY <1>1, <2>3, <2>4
    <3>2. Good(c, j)
      BY <2>1, <2>2, <2>4, <3>1
    <3> QED BY <2>1, <3>2 DEF c
  <2>5. CASE j \in lots
    <3>1. k \in Sales(DOMAIN trades) /\ j \in Purchases(DOMAIN trades) /\ c = Match(a, k, j)
      BY <2>2, <2>5
    <3>2. /\ Follows(a, c, {<<k, j>>}) /\ Balances(a, c) /\ c.pool = a.pool
          /\ c.left[k] = 0 \/ c.left[j] = 0
          /\ \A i \in DOMAIN trades \ {k, j} : c.left[i] = a.left[i]
      BY <2>1, <3>1, MatchFollows
    <3>3. Follows(m, c, R)
      <4>1. Follows(m, c, R \cup {<<k, j>>})
        <5> HIDE DEF R
        <5> QED BY <2>1, <3>2, FollowsTransitive
      <4>2. R \cup {<<k, j>>} = R
        BY <2>5
      <4> QED BY <4>1, <4>2
    <3>4. Balances(m, c) /\ c.pool = m.pool
      BY <2>1, <3>2, BalancesTransitive
    <3>5. ASSUME NEW i \in lots, i <= j PROVE c.left[k] = 0 \/ c.left[i] = 0
      <4>1. CASE i = j
        BY <3>2, <4>1
      <4>2. CASE i # j
        <5>1. a.left[k] = 0 \/ a.left[i] = 0
          BY <2>1, <2>3, <3>5, <4>2
        <5>2. k \in DOMAIN trades /\ i \in DOMAIN trades /\ c \in Matchings
          BY <1>1, <2>3, <3>2 DEF Follows
        <5>3. c.left[k] \in Nat /\ c.left[i] \in Nat
          BY <5>2 DEF Matchings
        <5>4. c.left[k] <= a.left[k] /\ c.left[i] <= a.left[i]
          BY <3>2, <5>2 DEF Follows
        <5> QED BY <5>1, <5>3, <5>4
      <4> QED BY <4>1, <4>2
    <3>6. \A i \in DOMAIN trades : i # k /\ i \notin lots => c.left[i] = m.left[i]
      BY <2>1, <2>5, <3>2
    <3>7. Good(c, j)
      BY <2>5, <3>3, <3>4, <3>5, <3>6
    <3> QED BY <2>1, <3>7 DEF c
  <2> QED BY <2>4, <2>5
<1>5. Good(b, n)
  <2> HIDE DEF S
  <2>1. \A j \in 0 .. n : j \in S
    BY <1>1, <1>3, <1>4, StepByStep
  <2>2. n \in 0 .. n
    BY <1>1
  <2> HIDE DEF Good
  <2> QED BY <1>2, <2>1, <2>2 DEF S
<1>6. \A i \in lots : i <= n
  BY <1>1 DEF Purchases
<1> QED BY <1>5, <1>6 DEF SaleServed

\* The sales in turn.
LEMMA MatchAllByStep ==
  ASSUME MatchingTypeOK, NEW m \in Matchings,
         NEW rule \in SUBSET (Sales(DOMAIN trades) \X Purchases(DOMAIN trades))
  PROVE  \E h \in [0 .. Len(trades) -> Matchings] :
           /\ h[0] = m /\ MatchAll(m, rule) = h[Len(trades)]
           /\ \A k \in 1 .. Len(trades) :
                h[k] = MatchSale(h[k - 1], k, {j \in DOMAIN trades : <<k, j>> \in rule})
<1> DEFINE n == Len(trades)
           lots(k) == {j \in DOMAIN trades : <<k, j>> \in rule}
           step == [k \in 1 .. n |-> [t \in Matchings |-> MatchSale(t, k, lots(k))]]
           IsRun(h) == h = [k \in 0 .. n |-> IF k = 0 THEN m ELSE MatchSale(h[k - 1], k, lots(k))]
<1>1. n \in Nat /\ DOMAIN trades = 1 .. n
  BY FillsAreTyped
<1>2. ASSUME NEW k \in 1 .. n, NEW t \in Matchings PROVE MatchSale(t, k, lots(k)) \in Matchings
  <2>1. lots(k) \in SUBSET Purchases(DOMAIN trades) /\ (lots(k) # {} => k \in Sales(DOMAIN trades))
    OBVIOUS
  <2>2. k \in DOMAIN trades
    BY <1>1
  <2> HIDE DEF lots, n
  <2> QED BY <2>1, <2>2, MatchSaleFollows DEF Follows, SaleServed
<1> HIDE DEF lots
<1>3. PICK h \in [0 .. n -> Matchings] : IsLoop(h, step, m, n)
  <2>1. \A k \in 1 .. n, t \in Matchings : step[k][t] \in Matchings
    BY <1>2
  <2> HIDE DEF n, step, IsRun
  <2> QED BY <1>1, <2>1, LoopExists
<1>4. ASSUME NEW k \in 1 .. n
      PROVE  h[k] = MatchSale(h[k - 1], k, lots(k)) /\ k \in 0 .. n
  <2>1. k \in 0 .. n /\ k # 0 /\ k - 1 \in 0 .. n
    BY <1>1
  <2>2. h[k - 1] \in Matchings /\ h[k] = step[k][h[k - 1]]
    <3> HIDE DEF step
    <3> QED BY <1>3, <2>1 DEF IsLoop
  <2> QED BY <2>1, <2>2
<1>5. h[0] = m
  BY <1>3 DEF IsLoop
<1>6. IsRun(h)
  <2>1. \A k \in 0 .. n : h[k] = IF k = 0 THEN m ELSE MatchSale(h[k - 1], k, lots(k))
    <3> HIDE DEF step
    <3> QED BY <1>1, <1>4, <1>5
  <2> HIDE DEF step
  <2>2. DOMAIN h = 0 .. n /\ h = [k \in DOMAIN h |-> h[k]]
    OBVIOUS
  <2> QED BY <2>1, <2>2
<1> DEFINE g == CHOOSE f : IsRun(f)
<1>7. IsRun(g) /\ MatchAll(m, rule) = g[n]
  <2>1. MatchAll(m, rule) = g[n]
    BY DEF MatchAll, lots
  <2> HIDE DEF IsRun
  <2> QED BY <1>6, <2>1
<1> HIDE DEF g
<1>8. ASSUME NEW k \in 0 .. n
      PROVE  g[k] = IF k = 0 THEN m ELSE MatchSale(g[k - 1], k, lots(k))
  <2> HIDE DEF n
  <2> QED BY <1>7
<1>9. g[0] = m /\ \A k \in 1 .. n : g[k] = MatchSale(g[k - 1], k, lots(k))
  BY <1>1, <1>8
<1>10. \A k \in 0 .. n : g[k] \in Matchings
  <2> DEFINE S == {k \in 0 .. n : g[k] \in Matchings}
  <2>1. 0 \in S
    BY <1>1, <1>9
  <2>2. ASSUME NEW k \in 1 .. n, k - 1 \in S PROVE k \in S
    BY <1>1, <1>2, <1>9, <2>2
  <2> HIDE DEF S, n
  <2>3. \A k \in 0 .. n : k \in S
    BY <1>1, <2>1, <2>2, StepByStep
  <2> QED BY <2>3 DEF S
<1>11. g \in [0 .. n -> Matchings]
  <2>1. g = [k \in 0 .. n |-> g[k]]
    BY <1>7, <1>8
  <2> HIDE DEF n
  <2> QED BY <1>10, <2>1
<1> QED BY <1>7, <1>9, <1>11 DEF lots

\* A rule is carried out as far as it goes.
RuleServed(a, b, rule) ==
  /\ Follows(a, b, rule) /\ Balances(a, b) /\ b.pool = a.pool
  /\ \A x \in rule : b.left[x[1]] = 0 \/ b.left[x[2]] = 0
  /\ \A i \in DOMAIN trades : (\A x \in rule : i # x[1] /\ i # x[2]) => b.left[i] = a.left[i]

\* So every run of the sales ends.
LEMMA MatchAllFollows ==
  ASSUME MatchingTypeOK, NEW m \in Matchings,
         NEW rule \in SUBSET (Sales(DOMAIN trades) \X Purchases(DOMAIN trades)),
         NEW b, b = MatchAll(m, rule)
  PROVE  RuleServed(m, b, rule)
<1> DEFINE n == Len(trades)
<1>1. n \in Nat /\ DOMAIN trades = 1 .. n
  BY FillsAreTyped
<1>2. PICK h \in [0 .. n -> Matchings] :
        /\ h[0] = m /\ b = h[n]
        /\ \A k \in 1 .. n : h[k] = MatchSale(h[k - 1], k, {j \in DOMAIN trades : <<k, j>> \in rule})
  BY MatchAllByStep
<1>3. \A x \in rule : /\ x[1] \in 1 .. n /\ x[2] \in DOMAIN trades /\ x = <<x[1], x[2]>>
                      /\ x[1] \in Sales(DOMAIN trades) /\ x[2] \in Purchases(DOMAIN trades)
  BY <1>1 DEF Sales, Purchases
<1> DEFINE Good(c, k) ==
             /\ Follows(m, c, rule) /\ Balances(m, c) /\ c.pool = m.pool
             /\ \A x \in rule : x[1] <= k => c.left[x[1]] = 0 \/ c.left[x[2]] = 0
             /\ \A i \in DOMAIN trades : (\A x \in rule : i # x[1] /\ i # x[2]) => c.left[i] = m.left[i]
           S == {k \in 0 .. n : Good(h[k], k)}
<1>4. 0 \in S
  <2>1. \A x \in rule : ~(x[1] <= 0)
    BY <1>3
  <2>2. Follows(m, m, rule) /\ Balances(m, m)
    BY FollowsReflexive, BalancesReflexive
  <2>3. 0 \in 0 .. n
    BY <1>1
  <2> QED BY <1>2, <2>1, <2>2, <2>3
<1>5. ASSUME NEW k \in 1 .. n, k - 1 \in S PROVE k \in S
  <2> DEFINE a == h[k - 1] c == h[k] lots == {j \in DOMAIN trades : <<k, j>> \in rule}
  <2>1. k - 1 \in 0 .. n /\ k \in 0 .. n /\ a \in Matchings /\ Good(a, k - 1) /\ k \in DOMAIN trades
    BY <1>1, <1>2, <1>5
  <2>2. c = MatchSale(a, k, lots)
    BY <1>2
  <2>3. lots \in SUBSET Purchases(DOMAIN trades) /\ (lots # {} => k \in Sales(DOMAIN trades))
    OBVIOUS
  <2>4. \A j : j \in lots <=> j \in DOMAIN trades /\ <<k, j>> \in rule
    OBVIOUS
  <2>5. {k} \X lots \subseteq rule
    OBVIOUS
  <2> HIDE DEF a, c, lots
  <2>60. SaleServed(a, c, k, lots)
    BY <2>1, <2>2, <2>3, MatchSaleFollows
  <2>6. /\ Follows(a, c, {k} \X lots) /\ Balances(a, c) /\ c.pool = a.pool
        /\ \A j \in lots : c.left[k] = 0 \/ c.left[j] = 0
        /\ \A i \in DOMAIN trades : i # k /\ i \notin lots => c.left[i] = a.left[i]
        /\ lots = {} => c = a
    BY <2>60 DEF SaleServed
  <2>7. Follows(m, c, rule)
    <3>1. Follows(m, c, rule \cup ({k} \X lots))
      BY <2>1, <2>6, FollowsTransitive
    <3>2. rule \cup ({k} \X lots) = rule
      BY <2>5
    <3> QED BY <3>1, <3>2
  <2>8. Balances(m, c) /\ c.pool = m.pool
    BY <2>1, <2>6, BalancesTransitive
  <2>9. ASSUME NEW x \in rule, x[1] <= k PROVE c.left[x[1]] = 0 \/ c.left[x[2]] = 0
    <3>1. CASE x[1] = k
      BY <1>3, <2>4, <2>6, <3>1
    <3>2. CASE x[1] # k
      <4>1. x[1] <= k - 1 /\ x[1] \in DOMAIN trades /\ x[2] \in DOMAIN trades
        BY <1>1, <1>3, <2>9, <3>2
      <4>2. a.left[x[1]] = 0 \/ a.left[x[2]] = 0
        BY <2>1, <4>1
      <4>3. c.left[x[1]] \in Nat /\ c.left[x[2]] \in Nat
        BY <2>6, <4>1 DEF Matchings, Follows
      <4>4. c.left[x[1]] <= a.left[x[1]] /\ c.left[x[2]] <= a.left[x[2]]
        BY <2>6, <4>1 DEF Follows
      <4> QED BY <4>2, <4>3, <4>4
    <3> QED BY <3>1, <3>2
  <2>10. ASSUME NEW i \in DOMAIN trades, \A x \in rule : i # x[1] /\ i # x[2]
         PROVE  c.left[i] = m.left[i]
    <3>1. a.left[i] = m.left[i]
      BY <2>1, <2>10
    <3>2. CASE lots = {}
      BY <2>6, <3>1, <3>2
    <3>3. CASE lots # {}
      <4>1. PICK j \in lots : TRUE
        BY <3>3
      <4>2. i # k
        <5>1. <<k, j>> \in rule /\ <<k, j>>[1] = k
          BY <2>4, <4>1
        <5> QED BY <2>10, <5>1
      <4>3. i \notin lots
        <5>1. i \in lots => <<k, i>> \in rule /\ <<k, i>>[2] = i
          BY <2>4
        <5> QED BY <2>10, <5>1
      <4> QED BY <2>6, <3>1, <4>2, <4>3
    <3> QED BY <3>2, <3>3
  <2>11. Good(c, k)
    BY <2>7, <2>8, <2>9, <2>10
  <2> QED BY <2>1, <2>11 DEF c
<1>6. Good(b, n)
  <2> HIDE DEF S
  <2>1. \A k \in 0 .. n : k \in S
    BY <1>1, <1>4, <1>5, StepByStep
  <2>2. n \in 0 .. n
    BY <1>1
  <2> HIDE DEF Good
  <2> QED BY <1>2, <2>1, <2>2 DEF S
<1>7. \A x \in rule : x[1] <= n
  BY <1>1, <1>3
<1> QED BY <1>6, <1>7 DEF RuleServed

\* The sales of a day take from the pool in turn.
IsPoolRun(h, T, m, d) ==
  /\ h \in [0 .. Len(trades) -> Matchings]
  /\ h[0] = m /\ AllFromPool(T, m, d) = h[Len(trades)]
  /\ \A k \in 1 .. Len(trades) :
       h[k] = IF k \in Sales(T) /\ trades[k].day = d THEN FromPool(h[k - 1], k) ELSE h[k - 1]

\* There is such a run, from any matching.
LEMMA AllFromPoolByStep ==
  ASSUME MatchingTypeOK, NEW m \in Matchings, NEW T \in SUBSET DOMAIN trades, NEW d
  PROVE  \E h : IsPoolRun(h, T, m, d)
<1> DEFINE n == Len(trades)
           SoldOn(k) == k \in Sales(T) /\ trades[k].day = d
           step == [k \in 1 .. n |-> [t \in Matchings |-> IF SoldOn(k) THEN FromPool(t, k) ELSE t]]
           IsRun(h) == h = [k \in 0 .. n |-> IF k = 0 THEN m
                                             ELSE IF SoldOn(k) THEN FromPool(h[k - 1], k) ELSE h[k - 1]]
<1>1. n \in Nat /\ DOMAIN trades = 1 .. n
  BY FillsAreTyped
<1>2. ASSUME NEW k \in 1 .. n, NEW t \in Matchings
      PROVE  (IF SoldOn(k) THEN FromPool(t, k) ELSE t) \in Matchings
  <2>1. SoldOn(k) => k \in Sales(DOMAIN trades)
    BY DEF Sales
  <2> HIDE DEF SoldOn
  <2>2. CASE SoldOn(k)
    <3>1. FromPool(t, k) \in Matchings
      BY <2>1, <2>2, PoolGives
    <3> QED BY <2>2, <3>1
  <2>3. CASE ~SoldOn(k)
    BY <2>3
  <2> QED BY <2>2, <2>3
<1> HIDE DEF SoldOn
<1>3. PICK h \in [0 .. n -> Matchings] : IsLoop(h, step, m, n)
  <2>1. \A k \in 1 .. n, t \in Matchings : step[k][t] \in Matchings
    BY <1>2
  <2> HIDE DEF n, step, IsRun
  <2> QED BY <1>1, <2>1, LoopExists
<1>4. ASSUME NEW k \in 1 .. n
      PROVE  h[k] = (IF SoldOn(k) THEN FromPool(h[k - 1], k) ELSE h[k - 1]) /\ k \in 0 .. n
  <2>1. k \in 0 .. n /\ k # 0 /\ k - 1 \in 0 .. n
    BY <1>1
  <2>2. h[k - 1] \in Matchings /\ h[k] = step[k][h[k - 1]]
    <3> HIDE DEF step
    <3> QED BY <1>3, <2>1 DEF IsLoop
  <2> QED BY <2>1, <2>2
<1>5. h[0] = m
  BY <1>3 DEF IsLoop
<1>6. IsRun(h)
  <2>1. \A k \in 0 .. n : h[k] = IF k = 0 THEN m
                                 ELSE IF SoldOn(k) THEN FromPool(h[k - 1], k) ELSE h[k - 1]
    <3> HIDE DEF step
    <3> QED BY <1>1, <1>4, <1>5
  <2> HIDE DEF step
  <2>2. DOMAIN h = 0 .. n /\ h = [k \in DOMAIN h |-> h[k]]
    OBVIOUS
  <2> QED BY <2>1, <2>2
<1> DEFINE g == CHOOSE f : IsRun(f)
<1>7. IsRun(g) /\ AllFromPool(T, m, d) = g[n]
  <2>1. AllFromPool(T, m, d) = g[n]
    BY DEF AllFromPool, SoldOn
  <2> HIDE DEF IsRun
  <2> QED BY <1>6, <2>1
<1> HIDE DEF g
<1>8. ASSUME NEW k \in 0 .. n
      PROVE  g[k] = IF k = 0 THEN m ELSE IF SoldOn(k) THEN FromPool(g[k - 1], k) ELSE g[k - 1]
  <2> HIDE DEF n
  <2> QED BY <1>7
<1>9. g[0] = m /\ \A k \in 1 .. n : g[k] = IF SoldOn(k) THEN FromPool(g[k - 1], k) ELSE g[k - 1]
  BY <1>1, <1>8
<1>10. \A k \in 0 .. n : g[k] \in Matchings
  <2> DEFINE S == {k \in 0 .. n : g[k] \in Matchings}
  <2>1. 0 \in S
    BY <1>1, <1>9
  <2>2. ASSUME NEW k \in 1 .. n, k - 1 \in S PROVE k \in S
    BY <1>1, <1>2, <1>9, <2>2
  <2> HIDE DEF S, n
  <2>3. \A k \in 0 .. n : k \in S
    BY <1>1, <2>1, <2>2, StepByStep
  <2> QED BY <2>3 DEF S
<1>11. g \in [0 .. n -> Matchings]
  <2>1. g = [k \in 0 .. n |-> g[k]]
    BY <1>7, <1>8
  <2> HIDE DEF n
  <2> QED BY <1>10, <2>1
<1> QED BY <1>7, <1>9, <1>11 DEF SoldOn, IsPoolRun

PoolPairs(d) == {x \in Pairs : x[2] = Pool /\ SaleDay(x) = d}

\* Only those sales are matched, and only with the pool.
LEMMA AllFromPoolFollows ==
  ASSUME MatchingTypeOK, NEW m \in Matchings, NEW T \in SUBSET DOMAIN trades, NEW d,
         NEW b, b = AllFromPool(T, m, d)
  PROVE  Follows(m, b, PoolPairs(d)) /\ Balances(m, b)
<1> DEFINE n == Len(trades)
           SoldOn(k) == k \in Sales(T) /\ trades[k].day = d
<1>0. PICK h : IsPoolRun(h, T, m, d)
  BY AllFromPoolByStep
<1>1. n \in Nat /\ DOMAIN trades = 1 .. n
  BY FillsAreTyped
<1>2. /\ h[0] = m /\ b = h[n] /\ \A i \in 0 .. n : h[i] \in Matchings
      /\ \A k \in 1 .. n : h[k] = IF SoldOn(k) THEN FromPool(h[k - 1], k) ELSE h[k - 1]
  BY <1>0 DEF IsPoolRun
<1> DEFINE Good(c) == Follows(m, c, PoolPairs(d)) /\ Balances(m, c)
           S == {k \in 0 .. n : Good(h[k])}
<1>3. 0 \in S
  <2>1. Good(m)
    BY FollowsReflexive, BalancesReflexive
  <2>2. 0 \in 0 .. n
    BY <1>1
  <2> QED BY <1>2, <2>1, <2>2
<1>4. ASSUME NEW k \in 1 .. n, k - 1 \in S PROVE k \in S
  <2> DEFINE a == h[k - 1] c == h[k]
  <2>1. k - 1 \in 0 .. n /\ k \in 0 .. n /\ a \in Matchings /\ Good(a)
    BY <1>1, <1>2, <1>4
  <2>2. c = IF SoldOn(k) THEN FromPool(a, k) ELSE a
    BY <1>2
  <2>3. SoldOn(k) => /\ k \in Sales(DOMAIN trades)
                   /\ {<<k, Pool>>} \subseteq PoolPairs(d)
    BY DEF Sales, PoolPairs, Pairs, SaleDay
  <2> HIDE DEF a, c, SoldOn
  <2>4. CASE ~SoldOn(k)
    BY <2>1, <2>2, <2>4 DEF c
  <2>5. CASE SoldOn(k)
    <3>1. Follows(a, c, {<<k, Pool>>}) /\ Balances(a, c)
      BY <2>1, <2>2, <2>3, <2>5, FromPoolFollows
    <3>2. Follows(m, c, PoolPairs(d) \cup {<<k, Pool>>})
      BY <2>1, <3>1, FollowsTransitive
    <3>3. PoolPairs(d) \cup {<<k, Pool>>} = PoolPairs(d)
      BY <2>3, <2>5
    <3>4. Balances(m, c)
      BY <2>1, <3>1, BalancesTransitive
    <3> QED BY <2>1, <3>2, <3>3, <3>4 DEF c
  <2> QED BY <2>4, <2>5
<1>5. Good(b)
  <2> HIDE DEF S
  <2>1. \A k \in 0 .. n : k \in S
    BY <1>1, <1>3, <1>4, StepByStep
  <2>2. n \in 0 .. n
    BY <1>1
  <2> HIDE DEF Good
  <2> QED BY <1>2, <2>1, <2>2 DEF S
<1> QED BY <1>5

\* What is left of the earlier purchases moves into the pool.
PoolFilled(a, b, T, d) ==
  /\ Follows(a, b, {}) /\ b.out = a.out
  /\ \A i \in DOMAIN trades \ Earlier(T, d) : b.left[i] = a.left[i]
  /\ \A i \in Earlier(T, d) : b.left[i] = 0 /\ i \in DOMAIN trades
  /\ b.pool = a.pool + Total(a.left, Earlier(T, d))

\* So Pooled fills it.
LEMMA PooledFollows ==
  ASSUME MatchingTypeOK, NEW m \in Matchings, NEW T \in SUBSET DOMAIN trades, NEW d, 
         NEW b, b = Pooled(T, m, d)
  PROVE  PoolFilled(m, b, T, d)
<1> DEFINE E == Earlier(T, d)
           l == [k \in DOMAIN trades |-> IF k \in E THEN 0 ELSE m.left[k]]
           p == m.pool + Total(m.left, E)
<1>1. E \in SUBSET DOMAIN trades
  BY DEF Earlier, Purchases
<1>2. m.left \in [DOMAIN trades -> Nat] /\ m.pool \in Nat /\ m.out \in [Pairs -> Nat]
  BY DEF Matchings
<1>3. p \in Nat
  <2>1. Total(m.left, E) \in Nat
    BY <1>1, SumsAreNumbers
  <2> QED BY <1>2, <2>1
<1>4. l \in [DOMAIN trades -> Nat]
  BY <1>2
<1>5. b = [left |-> l, pool |-> p, out |-> m.out]
  BY SumOfFunction DEF Pooled
<1>6. \A i \in DOMAIN trades : l[i] = IF i \in E THEN 0 ELSE m.left[i]
  OBVIOUS
<1> HIDE DEF l, p
<1>7. b \in Matchings /\ b.left = l /\ b.pool = p /\ b.out = m.out
  BY <1>2, <1>3, <1>4, <1>5 DEF Matchings
<1> HIDE DEF E
<1>8. \A i \in DOMAIN trades : m.left[i] \in Nat /\ b.left[i] <= m.left[i]
  BY <1>2, <1>6, <1>7
<1>9. \A x \in Pairs : m.out[x] \in Nat
  BY <1>2
<1>10. Follows(m, b, {})
  BY <1>7, <1>8, <1>9 DEF Follows
<1>11. /\ \A i \in DOMAIN trades \ E : b.left[i] = m.left[i]
       /\ \A i \in E : b.left[i] = 0 /\ i \in DOMAIN trades
  BY <1>1, <1>6, <1>7
<1> QED BY <1>7, <1>10, <1>11 DEF E, p, PoolFilled

\* Nothing of them is lost.
LEMMA PooledBalances ==
  ASSUME MatchingTypeOK, NEW m \in Matchings, NEW d \in Nat, NEW e \in Nat, d <= e,
         NEW b, b = Pooled(DOMAIN trades, m, d)
  PROVE  Stock(b, e) = Stock(m, e)
<1> DEFINE D == Earlier(DOMAIN trades, d) E == Earlier(DOMAIN trades, e)
<1>1. D \in SUBSET E /\ E \in SUBSET DOMAIN trades
  BY FillsAreTyped DEF Earlier, Purchases
<1>2. /\ b.out = m.out /\ b.pool = m.pool + Total(m.left, D)
      /\ \A i \in DOMAIN trades \ D : b.left[i] = m.left[i]
      /\ \A i \in D : b.left[i] = 0
      /\ b \in Matchings
  <2>1. PoolFilled(m, b, DOMAIN trades, d)
    BY PooledFollows
  <2> QED BY <2>1 DEF PoolFilled, Follows
<1> HIDE DEF D, E
<1>3. IsFiniteSet(E) /\ IsFiniteSet(D) /\ IsFiniteSet(E \ D)
  BY <1>1, FillsAreFinite, FS_Subset
<1>4. \A i \in E : m.left[i] \in Int /\ b.left[i] \in Int
  BY <1>1, <1>2 DEF Matchings
<1>5. /\ Total(m.left, E) = Total(m.left, D) + Total(m.left, E \ D)
      /\ Total(m.left, D) \in Int /\ Total(m.left, E \ D) \in Int
  BY <1>1, <1>3, <1>4, SumOfParts
<1>6. Total(b.left, E) = Total(b.left, D) + Total(b.left, E \ D)
  BY <1>1, <1>3, <1>4, SumOfParts
<1>7. Total(b.left, D) = 0
  BY <1>2, <1>3, SumOfZeros
<1>8. Total(b.left, E \ D) = Total(m.left, E \ D)
  <2>1. \A i \in E \ D : b.left[i] = m.left[i]
    BY <1>1, <1>2
  <2> QED BY <1>3, <2>1, SumSame
<1>9. Total(m.out, Used(e)) \in Nat /\ m.pool \in Nat
  <2>1. Used(e) \in SUBSET Pairs
    BY DEF Used
  <2> QED BY <2>1, SumsAreNumbers DEF Matchings
<1> QED BY <1>2, <1>5, <1>6, <1>7, <1>8, <1>9 DEF Stock, E

\* A day of sales matches its own sales, with later purchases or the pool.
DayPairs(d) == {x \in Pairs : SaleDay(x) = d /\ (x[2] = Pool \/ BuyDay(x) > d)}

\* The rules match sales with purchases.
LEMMA ReplacementsAreRule ==
  ASSUME NEW T \in SUBSET DOMAIN trades, NEW d
  PROVE  /\ Replacements(T, d) \in SUBSET (Sales(DOMAIN trades) \X Purchases(DOMAIN trades))
         /\ SameDay(T) \in SUBSET (Sales(DOMAIN trades) \X Purchases(DOMAIN trades))
         /\ Older(T) \in SUBSET (Sales(DOMAIN trades) \X Purchases(DOMAIN trades))
BY DEF Replacements, SameDay, Older, Sales, Purchases

\* So does DayOfSales.
LEMMA DayFollows ==
  ASSUME MatchingTypeOK, NEW m \in Matchings, NEW T \in SUBSET DOMAIN trades, NEW d,
         NEW b, b = DayOfSales(T, m, d)
  PROVE  Follows(m, b, DayPairs(d))
<1> DEFINE r == MatchAll(m, Replacements(T, d)) p == Pooled(T, r, d)
<1>1. Follows(m, r, Replacements(T, d))
  <2>1. RuleServed(m, r, Replacements(T, d))
    BY ReplacementsAreRule, MatchAllFollows
  <2> QED BY <2>1 DEF RuleServed
<1>2. b = AllFromPool(T, p, d)
  BY DEF DayOfSales
<1> HIDE DEF r
<1>3. r \in Matchings
  BY <1>1 DEF Follows
<1>4. Follows(r, p, {})
  <2>1. PoolFilled(r, p, T, d)
    BY <1>3, PooledFollows
  <2> QED BY <2>1 DEF PoolFilled
<1> HIDE DEF p
<1>5. p \in Matchings
  BY <1>4 DEF Follows
<1>6. Follows(p, b, PoolPairs(d))
  BY <1>2, <1>5, AllFromPoolFollows
<1>7. Follows(m, p, Replacements(T, d) \cup {})
  BY <1>1, <1>4, FollowsTransitive
<1>8. Follows(m, b, (Replacements(T, d) \cup {}) \cup PoolPairs(d))
  BY <1>6, <1>7, FollowsTransitive
<1>9. (Replacements(T, d) \cup {}) \cup PoolPairs(d) \subseteq DayPairs(d)
  BY DEF Replacements, PoolPairs, DayPairs, Pairs, Sales, Purchases, SaleDay, BuyDay
<1> QED BY <1>8, <1>9, FollowsMonotone

\* The days in turn.
DaysLeft(T) ==
  {trades[k].day : k \in {s \in Sales(T) : MatchAll(Unmatched, SameDay(T)).left[s] > 0}}

IsHmrcRun(h, T) ==
  /\ h \in [0 .. LastDay + 1 -> Matchings]
  /\ h[0] = MatchAll(Unmatched, SameDay(T)) /\ HmrcMatches(T) = h[LastDay + 1]
  /\ \A c \in 1 .. LastDay + 1 :
       h[c] = IF c - 1 \in DaysLeft(T) THEN DayOfSales(T, h[c - 1], c - 1) ELSE h[c - 1]

\* The first rule over any fills.
LEMMA SameDayServed ==
  ASSUME MatchingTypeOK, NEW T \in SUBSET DOMAIN trades
  PROVE  /\ RuleServed(Unmatched, MatchAll(Unmatched, SameDay(T)), SameDay(T))
         /\ MatchAll(Unmatched, SameDay(T)) \in Matchings
<1>1. RuleServed(Unmatched, MatchAll(Unmatched, SameDay(T)), SameDay(T))
  <2>1. SameDay(T) \in SUBSET (Sales(DOMAIN trades) \X Purchases(DOMAIN trades))
    BY ReplacementsAreRule
  <2> QED BY <2>1, UnmatchedIsTyped, MatchAllFollows
<1> QED BY <1>1 DEF RuleServed, Follows

\* There is such a run.
LEMMA HmrcByStep ==
  ASSUME MatchingTypeOK, NEW T \in SUBSET DOMAIN trades
  PROVE  \E h : IsHmrcRun(h, T)
<1> DEFINE n == LastDay + 1
           same == MatchAll(Unmatched, SameDay(T))
           Due(c) == c - 1 \in DaysLeft(T)
           Next1(t, c) == IF Due(c) THEN DayOfSales(T, t, c - 1) ELSE t
           step == [c \in 1 .. n |-> [t \in Matchings |-> Next1(t, c)]]
           IsRun(h) == h = [c \in 0 .. n |-> IF c = 0 THEN same
                                             ELSE IF Due(c) THEN DayOfSales(T, h[c - 1], c - 1) ELSE h[c - 1]]
<1>1. n \in Nat
  BY FillsAreTyped
<1>2. ASSUME NEW c \in 1 .. n, NEW t \in Matchings PROVE Next1(t, c) \in Matchings
  <2> HIDE DEF Due
  <2>1. DayOfSales(T, t, c - 1) \in Matchings
    <3>1. Follows(t, DayOfSales(T, t, c - 1), DayPairs(c - 1))
      BY DayFollows
    <3> QED BY <3>1 DEF Follows
  <2> QED BY <2>1
<1>3. same \in Matchings
  BY SameDayServed
<1> HIDE DEF same, Due
<1>4. PICK h \in [0 .. n -> Matchings] : IsLoop(h, step, same, n)
  <2>1. \A c \in 1 .. n, t \in Matchings : step[c][t] \in Matchings
    BY <1>2
  <2> HIDE DEF n, step, IsRun
  <2> QED BY <1>1, <1>3, <2>1, LoopExists
<1>5. ASSUME NEW c \in 1 .. n
      PROVE  h[c] = (IF Due(c) THEN DayOfSales(T, h[c - 1], c - 1) ELSE h[c - 1]) /\ c \in 0 .. n
  <2>1. c \in 0 .. n /\ c # 0 /\ c - 1 \in 0 .. n
    BY <1>1
  <2>2. h[c - 1] \in Matchings /\ h[c] = step[c][h[c - 1]]
    <3> HIDE DEF step
    <3> QED BY <1>4, <2>1 DEF IsLoop
  <2>3. step[c][h[c - 1]] = Next1(h[c - 1], c)
    <3> HIDE DEF Next1
    <3> QED BY <2>2
  <2> QED BY <2>1, <2>2, <2>3
<1>6. h[0] = same
  BY <1>4 DEF IsLoop
<1>7. IsRun(h)
  <2>1. \A c \in 0 .. n : h[c] = IF c = 0 THEN same
                                 ELSE IF Due(c) THEN DayOfSales(T, h[c - 1], c - 1) ELSE h[c - 1]
    <3> HIDE DEF step
    <3> QED BY <1>1, <1>5, <1>6
  <2> HIDE DEF step
  <2>2. DOMAIN h = 0 .. n /\ h = [c \in DOMAIN h |-> h[c]]
    OBVIOUS
  <2> QED BY <2>1, <2>2
<1> DEFINE g == CHOOSE f : IsRun(f)
<1>8. IsRun(g) /\ HmrcMatches(T) = g[n]
  <2>1. HmrcMatches(T) = g[n]
    BY DEF HmrcMatches, Due, DaysLeft, same
  <2> HIDE DEF IsRun
  <2> QED BY <1>7, <2>1
<1> HIDE DEF g
<1>9. ASSUME NEW c \in 0 .. n
      PROVE  g[c] = IF c = 0 THEN same
                    ELSE IF Due(c) THEN DayOfSales(T, g[c - 1], c - 1) ELSE g[c - 1]
  <2> HIDE DEF n
  <2> QED BY <1>8
<1>10. g[0] = same /\ \A c \in 1 .. n : g[c] = Next1(g[c - 1], c)
  BY <1>1, <1>9
<1>11. \A c \in 0 .. n : g[c] \in Matchings
  <2> DEFINE S == {c \in 0 .. n : g[c] \in Matchings}
  <2>1. 0 \in S
    BY <1>1, <1>3, <1>10
  <2>2. ASSUME NEW c \in 1 .. n, c - 1 \in S PROVE c \in S
    <3> HIDE DEF Next1
    <3> QED BY <1>1, <1>2, <1>10, <2>2
  <2> HIDE DEF S, n
  <2>3. \A c \in 0 .. n : c \in S
    BY <1>1, <2>1, <2>2, StepByStep
  <2> QED BY <2>3 DEF S
<1>12. g \in [0 .. n -> Matchings]
  <2>1. g = [c \in 0 .. n |-> g[c]]
    BY <1>8, <1>9
  <2> HIDE DEF n
  <2> QED BY <1>11, <2>1
<1> QED BY <1>8, <1>10, <1>12 DEF IsHmrcRun, Due, same

-----------------------------------------------------------------------------
(* The order of identification *)

\* The books before the sales of day c: every share of a sale and of a purchase is
\* where it should be, and the days before c are settled.
SalesBooked(m) ==
  \A k \in Sales(DOMAIN trades) : m.left[k] + Total(m.out, OfSale(k)) = trades[k].qty
PurchasesBooked(m, c) ==
  \A j \in Purchases(DOMAIN trades) :
    /\ m.left[j] + Total(m.out, OfBuy(j)) <= trades[j].qty
    /\ trades[j].day >= c => m.left[j] + Total(m.out, OfBuy(j)) = trades[j].qty
StockBooked(m, c) ==
  \A d \in Nat : d >= c => Stock(m, d) = Total(Unmatched.left, Earlier(DOMAIN trades, d))
OnlyDue(m, c) ==
  \A x \in Pairs : m.out[x] # 0 =>
    IF x[2] = Pool THEN SaleDay(x) < c ELSE SaleDay(x) = BuyDay(x) \/ SaleDay(x) < c
Finished(m, c) ==
  \A k \in Sales(DOMAIN trades) :
    trades[k].day >= c /\ trades[k].day \notin DaysLeft(DOMAIN trades) => m.left[k] = 0
SameDayFirst(m) ==
  \A x \in SameDay(DOMAIN trades) :
    Total(m.out, WithSameDay(x[1])) < trades[x[1]].qty =>
      Total(m.out, OfBuyUpTo(x[2], SaleDay(x))) = trades[x[2]].qty
ReplacedFirst(m, d) ==
  \A x \in Replacements(DOMAIN trades, d) :
    Total(m.out, WithPurchases(x[1])) < trades[x[1]].qty =>
      Total(m.out, OfBuyUpTo(x[2], d)) = trades[x[2]].qty
PoolCovers(m, d) ==
  Total(m.out, {x \in Pairs : x[2] = Pool /\ SaleDay(x) <= d})
    + Total(m.out, {x \in Pairs : x[2] \in Earlier(DOMAIN trades, d)})
    <= Total(Unmatched.left, Earlier(DOMAIN trades, d))

Books(m, c) ==
  /\ m \in Matchings
  /\ SalesBooked(m) /\ PurchasesBooked(m, c) /\ StockBooked(m, c)
  /\ OnlyDue(m, c) /\ Finished(m, c) /\ SameDayFirst(m)
  /\ \A d \in 0 .. LastDay : d < c => ReplacedFirst(m, d) /\ PoolCovers(m, d)

\* Sums of matches only grow, and those of other pairs stay.
LEMMA SumsFollow ==
  ASSUME MatchingTypeOK, NEW a \in Matchings, NEW b, NEW R, Follows(a, b, R), NEW S \in SUBSET Pairs
  PROVE  /\ Total(a.out, S) \in Nat /\ Total(b.out, S) \in Nat
         /\ Total(a.out, S) <= Total(b.out, S)
         /\ S \cap R = {} => Total(b.out, S) = Total(a.out, S)
<1>1. b \in Matchings
  BY DEF Follows
<1>2. Total(a.out, S) \in Nat /\ Total(b.out, S) \in Nat /\ IsFiniteSet(S)
  BY <1>1, SumsAreNumbers
<1>3. \A x \in S : a.out[x] \in Int /\ b.out[x] \in Int
  BY <1>1 DEF Matchings
<1>4. \A x \in S : a.out[x] <= b.out[x] /\ (x \notin R => b.out[x] = a.out[x])
  BY DEF Follows
<1>5. Total(a.out, S) <= Total(b.out, S)
  <2> DEFINE f == a.out g == b.out
  <2>1. \A x \in S : f[x] \in Int /\ g[x] \in Int /\ f[x] <= g[x]
    BY <1>3, <1>4
  <2> HIDE DEF f, g
  <2>2. Total(f, S) <= Total(g, S)
    BY <1>2, <2>1, SumGrows
  <2> QED BY <2>2 DEF f, g
<1>6. ASSUME S \cap R = {} PROVE Total(b.out, S) = Total(a.out, S)
  <2>1. \A x \in S : b.out[x] = a.out[x]
    BY <1>4, <1>6
  <2> QED BY <1>2, <2>1, SumSame
<1> QED BY <1>2, <1>5, <1>6

\* A sum is that of the matches that are not zero.
LEMMA SumOfSome ==
  ASSUME MatchingTypeOK, NEW m \in Matchings, NEW S \in SUBSET Pairs, NEW P \in SUBSET S,
         \A x \in S \ P : m.out[x] = 0
  PROVE  Total(m.out, S) = Total(m.out, P)
<1> DEFINE f == m.out
<1>1. IsFiniteSet(S) /\ IsFiniteSet(S \ P) /\ \A x \in S : f[x] \in Int
  <2>1. S \ P \in SUBSET Pairs
    OBVIOUS
  <2> QED BY <2>1, FillsAreFinite DEF Matchings
<1>2. \A x \in S \ P : f[x] = 0
  OBVIOUS
<1> HIDE DEF f
<1>3. Total(f, S \ P) = 0
  BY <1>1, <1>2, SumOfZeros
<1>4. Total(f, S) = Total(f, P) + Total(f, S \ P) /\ Total(f, P) \in Int
  BY <1>1, SumOfParts
<1>5. Total(f, S) = Total(f, P)
  BY <1>3, <1>4
<1> QED BY <1>5 DEF f

\* A sum of a part is no more.
LEMMA SumOfPart ==
  ASSUME MatchingTypeOK, NEW m \in Matchings, NEW S \in SUBSET Pairs, NEW P \in SUBSET S
  PROVE  Total(m.out, P) <= Total(m.out, S)
<1> DEFINE f == m.out
<1>1. IsFiniteSet(S) /\ \A x \in S : f[x] \in Int
  BY FillsAreFinite DEF Matchings
<1>2. Total(f, S \ P) \in Nat
  <2>1. S \ P \in SUBSET Pairs
    OBVIOUS
  <2> QED BY <2>1, SumsAreNumbers
<1> HIDE DEF f
<1>3. Total(f, S) = Total(f, P) + Total(f, S \ P) /\ Total(f, P) \in Int
  BY <1>1, SumOfParts
<1>4. Total(f, P) <= Total(f, S)
  BY <1>2, <1>3
<1> QED BY <1>4 DEF f

\* The sets of pairs the properties speak of.
LEMMA PairSets ==
  ASSUME MatchingTypeOK
  PROVE  \A k, d :
           /\ OfSale(k) \in SUBSET Pairs /\ OfBuy(k) \in SUBSET Pairs
           /\ WithSameDay(k) \in SUBSET OfSale(k) /\ WithPurchases(k) \in SUBSET OfSale(k)
           /\ OfBuyUpTo(k, d) \in SUBSET OfBuy(k) /\ Used(d) \in SUBSET Pairs
           /\ WithSameDay(k) \in SUBSET Pairs /\ WithPurchases(k) \in SUBSET Pairs
           /\ OfBuyUpTo(k, d) \in SUBSET Pairs
BY DEF OfSale, OfBuy, WithSameDay, WithPurchases, OfBuyUpTo, Used

\* What is in stock covers what was taken from the pool.
LEMMA StockCovers ==
  ASSUME MatchingTypeOK, NEW m \in Matchings, NEW d \in Nat,
         Stock(m, d) = Total(Unmatched.left, Earlier(DOMAIN trades, d))
  PROVE  PoolCovers(m, d)
<1> DEFINE P == {x \in Pairs : x[2] = Pool /\ SaleDay(x) <= d}
           Q == {x \in Pairs : x[2] \in Earlier(DOMAIN trades, d)}
           S == Used(d)
           E == Earlier(DOMAIN trades, d)
           f == m.out
<1>1. S \in SUBSET Pairs /\ Q \in SUBSET S /\ P \in SUBSET (S \ Q) /\ E \in SUBSET DOMAIN trades
  BY FillsAreTyped DEF Used, Earlier, Purchases, Pool
<1>2. /\ Total(f, S) \in Nat /\ Total(f, P) \in Nat /\ Total(f, Q) \in Nat /\ IsFiniteSet(S)
      /\ Total(f, S \ Q) \in Nat /\ Total(m.left, E) \in Nat
  <2>1. P \in SUBSET Pairs /\ Q \in SUBSET Pairs /\ S \ Q \in SUBSET Pairs
    BY <1>1
  <2> HIDE DEF P, Q, S, E
  <2> QED BY <1>1, <2>1, SumsAreNumbers
<1>3. \A x \in S : f[x] \in Int
  BY <1>1 DEF Matchings
<1>4. Total(f, P) <= Total(f, S \ Q)
  <2>1. S \ Q \in SUBSET Pairs
    BY <1>1
  <2> HIDE DEF P, Q, S
  <2> QED BY <1>1, <2>1, SumOfPart
<1> HIDE DEF P, Q, S, E, f
<1>5. Total(f, S) = Total(f, Q) + Total(f, S \ Q)
  BY <1>1, <1>2, <1>3, SumOfParts
<1>6. m.pool + Total(m.left, E) + Total(f, S) = Total(Unmatched.left, E) /\ m.pool \in Nat
  BY DEF Stock, E, f, S, Matchings
<1>7. Total(f, P) + Total(f, Q) <= Total(Unmatched.left, E)
  BY <1>2, <1>4, <1>5, <1>6
<1> QED BY <1>7 DEF PoolCovers, P, Q, E, f

\* Before the first day.
LEMMA BooksOpen ==
  ASSUME MatchingTypeOK PROVE Books(MatchAll(Unmatched, SameDay(DOMAIN trades)), 0)
<1> DEFINE u == Unmatched b == MatchAll(u, SameDay(DOMAIN trades))
<1>1. u \in Matchings /\ u.pool = 0 /\ \A k \in DOMAIN trades : u.left[k] = trades[k].qty
  BY UnmatchedIsTyped DEF Unmatched
<1>2. \A x \in Pairs : u.out[x] = 0
  BY DEF Unmatched
<1>3. RuleServed(u, b, SameDay(DOMAIN trades)) /\ b \in Matchings
  BY SameDayServed
<1>4. \A k \in Sales(DOMAIN trades) :
        trades[k].day \notin DaysLeft(DOMAIN trades) => ~(b.left[k] > 0)
  BY DEF DaysLeft
<1> HIDE DEF b
<1>5. \A S \in SUBSET Pairs : Total(u.out, S) = 0
  <2> SUFFICES ASSUME NEW S \in SUBSET Pairs PROVE Total(u.out, S) = 0
    OBVIOUS
  <2> DEFINE f == u.out
  <2>1. IsFiniteSet(S) /\ \A x \in S : f[x] = 0
    BY <1>2, FillsAreFinite
  <2> HIDE DEF f
  <2>2. Total(f, S) = 0
    BY <2>1, SumOfZeros
  <2> QED BY <2>2 DEF f
<1> HIDE DEF u
<1>6. /\ Follows(u, b, SameDay(DOMAIN trades)) /\ Balances(u, b)
      /\ \A x \in SameDay(DOMAIN trades) : b.left[x[1]] = 0 \/ b.left[x[2]] = 0
  BY <1>3 DEF RuleServed
<1>7. SalesBooked(b)
  <2> SUFFICES ASSUME NEW k \in Sales(DOMAIN trades)
               PROVE  b.left[k] + Total(b.out, OfSale(k)) = trades[k].qty
    BY DEF SalesBooked
  <2>1. k \in DOMAIN trades /\ trades[k].qty \in Nat
    BY FillsAreTyped DEF Sales
  <2>2. u.left[k] = trades[k].qty /\ Total(u.out, OfSale(k)) = 0
    BY <1>1, <1>5, <2>1, PairSets
  <2>3. b.left[k] + Total(b.out, OfSale(k)) = u.left[k] + Total(u.out, OfSale(k))
    BY <1>6 DEF Balances
  <2> QED BY <2>1, <2>2, <2>3
<1>8. PurchasesBooked(b, 0)
  <2> SUFFICES ASSUME NEW j \in Purchases(DOMAIN trades)
               PROVE  /\ b.left[j] + Total(b.out, OfBuy(j)) <= trades[j].qty
                      /\ b.left[j] + Total(b.out, OfBuy(j)) = trades[j].qty
    BY DEF PurchasesBooked
  <2>1. j \in DOMAIN trades /\ trades[j].qty \in Nat
    BY FillsAreTyped DEF Purchases
  <2>2. u.left[j] = trades[j].qty /\ Total(u.out, OfBuy(j)) = 0
    BY <1>1, <1>5, <2>1, PairSets
  <2>3. b.left[j] + Total(b.out, OfBuy(j)) = u.left[j] + Total(u.out, OfBuy(j))
    BY <1>6 DEF Balances
  <2> QED BY <2>1, <2>2, <2>3
<1>9. StockBooked(b, 0)
  <2> SUFFICES ASSUME NEW d \in Nat
               PROVE  Stock(b, d) = Total(Unmatched.left, Earlier(DOMAIN trades, d))
    BY DEF StockBooked
  <2> DEFINE E == Earlier(DOMAIN trades, d)
  <2>1. E \in SUBSET DOMAIN trades
    BY DEF Earlier, Purchases
  <2> HIDE DEF E
  <2>2. Total(u.left, E) \in Nat
    BY <1>1, <2>1, SumsAreNumbers
  <2>3. Total(u.out, Used(d)) = 0
    BY <1>5, PairSets
  <2>4. Stock(u, d) = Total(u.left, E)
    BY <1>1, <2>2, <2>3 DEF Stock, E
  <2>5. Stock(b, d) = Stock(u, d)
    BY <1>6 DEF Balances
  <2> QED BY <2>4, <2>5 DEF u, E
<1>10. \A x \in Pairs : b.out[x] # 0 => x \in SameDay(DOMAIN trades)
  BY <1>2, <1>6 DEF Follows
<1>11. \A x \in SameDay(DOMAIN trades) :
         /\ x[1] \in Sales(DOMAIN trades) /\ x[2] \in Purchases(DOMAIN trades) /\ x[2] # Pool
         /\ x[1] \in DOMAIN trades /\ x[2] \in DOMAIN trades /\ SaleDay(x) = BuyDay(x)
  BY FillsAreTyped DEF SameDay, SaleDay, BuyDay, Sales, Purchases, Pool
<1>12. OnlyDue(b, 0)
  BY <1>10, <1>11 DEF OnlyDue
<1>13. Finished(b, 0)
  <2>1. \A k \in Sales(DOMAIN trades) : b.left[k] \in Nat
    BY <1>3 DEF Matchings, Sales
  <2> QED BY <1>4, <2>1 DEF Finished
<1>14. SameDayFirst(b)
  <2> SUFFICES ASSUME NEW x \in SameDay(DOMAIN trades),
                      Total(b.out, WithSameDay(x[1])) < trades[x[1]].qty
               PROVE  Total(b.out, OfBuyUpTo(x[2], SaleDay(x))) = trades[x[2]].qty
    BY DEF SameDayFirst
  <2> DEFINE k == x[1] j == x[2]
  <2>1. /\ k \in Sales(DOMAIN trades) /\ j \in Purchases(DOMAIN trades)
        /\ k \in DOMAIN trades /\ j \in DOMAIN trades /\ trades[k].qty \in Nat /\ trades[j].qty \in Nat
    BY <1>11, FillsAreTyped
  <2>2. \A y \in OfSale(k) \ WithSameDay(k) : b.out[y] = 0
    BY <1>10, <1>11 DEF OfSale, WithSameDay
  <2>3. \A y \in OfBuy(j) \ OfBuyUpTo(j, SaleDay(x)) : b.out[y] = 0
    BY <1>10, <1>11 DEF OfBuy, OfBuyUpTo
  <2> HIDE DEF k, j
  <2>4. Total(b.out, OfSale(k)) = Total(b.out, WithSameDay(k)) /\ Total(b.out, OfSale(k)) \in Nat
    BY <1>3, <2>2, PairSets, SumOfSome, SumsAreNumbers
  <2>5. Total(b.out, OfBuy(j)) = Total(b.out, OfBuyUpTo(j, SaleDay(x))) /\ Total(b.out, OfBuy(j)) \in Nat
    BY <1>3, <2>3, PairSets, SumOfSome, SumsAreNumbers
  <2>6. b.left[k] + Total(b.out, OfSale(k)) = trades[k].qty /\ b.left[k] \in Nat
    BY <1>3, <1>7, <2>1 DEF SalesBooked, Matchings
  <2>7. Total(b.out, OfSale(k)) < trades[k].qty
    BY <2>4 DEF k
  <2>8. b.left[k] # 0
    BY <2>1, <2>4, <2>6, <2>7
  <2>9. b.left[j] = 0
    BY <1>6, <2>8 DEF k, j
  <2>10. b.left[j] + Total(b.out, OfBuy(j)) = trades[j].qty
    <3>1. trades[j].day >= 0
      BY <2>1, FillsAreTyped
    <3> QED BY <1>8, <2>1, <3>1 DEF PurchasesBooked
  <2> QED BY <2>5, <2>9, <2>10 DEF j
<1>15. \A d \in 0 .. LastDay : ~(d < 0)
  OBVIOUS
<1> QED BY <1>3, <1>7, <1>8, <1>9, <1>12, <1>13, <1>14, <1>15 DEF Books, u, b

\* What is true of the sums stays so as they grow up to a purchase's quantity.
LEMMA SettledStays ==
  ASSUME MatchingTypeOK, NEW a \in Matchings, NEW b, NEW R, Follows(a, b, R), NEW c,
         PurchasesBooked(b, c), NEW j \in Purchases(DOMAIN trades), NEW P \in SUBSET OfBuy(j),
         Total(a.out, P) = trades[j].qty
  PROVE  Total(b.out, P) = trades[j].qty
<1>1. P \in SUBSET Pairs /\ OfBuy(j) \in SUBSET Pairs /\ j \in DOMAIN trades
  BY DEF OfBuy, Purchases
<1>2. b \in Matchings
  BY DEF Follows
<1>3. Total(a.out, P) <= Total(b.out, P) /\ Total(b.out, P) \in Nat
  BY <1>1, SumsFollow
<1>4. Total(b.out, P) <= Total(b.out, OfBuy(j)) /\ Total(b.out, OfBuy(j)) \in Nat
  BY <1>1, <1>2, SumOfPart, SumsAreNumbers
<1>5. b.left[j] + Total(b.out, OfBuy(j)) <= trades[j].qty /\ b.left[j] \in Nat /\ trades[j].qty \in Nat
  BY <1>1, <1>2, FillsAreTyped DEF PurchasesBooked, Matchings
<1> QED BY <1>3, <1>4, <1>5

\* A day whose sales were all matched on the day itself.
LEMMA BooksIdle ==
  ASSUME MatchingTypeOK, NEW d \in 0 .. LastDay, d \notin DaysLeft(DOMAIN trades), NEW m, Books(m, d)
  PROVE  Books(m, d + 1)
<1>1. /\ m \in Matchings
      /\ SalesBooked(m) /\ PurchasesBooked(m, d) /\ StockBooked(m, d)
      /\ OnlyDue(m, d) /\ Finished(m, d) /\ SameDayFirst(m)
      /\ \A e \in 0 .. LastDay : e < d => ReplacedFirst(m, e) /\ PoolCovers(m, e)
  BY DEF Books
<1>2. d \in Nat /\ \A k \in DOMAIN trades : trades[k].day \in Nat
  BY FillsAreTyped
<1>3. PurchasesBooked(m, d + 1)
  <2>1. \A j \in Purchases(DOMAIN trades) : trades[j].day >= d + 1 => trades[j].day >= d
    BY <1>2 DEF Purchases
  <2> QED BY <1>1, <2>1 DEF PurchasesBooked
<1>4. StockBooked(m, d + 1)
  <2>1. \A e \in Nat : e >= d + 1 => e >= d
    BY <1>2
  <2> QED BY <1>1, <2>1 DEF StockBooked
<1>5. OnlyDue(m, d + 1)
  <2>1. \A x \in Pairs : SaleDay(x) \in Nat /\ (SaleDay(x) < d => SaleDay(x) < d + 1)
    BY <1>2 DEF Pairs, SaleDay
  <2> QED BY <1>1, <2>1 DEF OnlyDue
<1>6. Finished(m, d + 1)
  <2>1. \A k \in Sales(DOMAIN trades) : trades[k].day >= d + 1 => trades[k].day >= d
    BY <1>2 DEF Sales
  <2> QED BY <1>1, <2>1 DEF Finished
<1>7. ReplacedFirst(m, d)
  <2> SUFFICES ASSUME NEW x \in Replacements(DOMAIN trades, d),
                      Total(m.out, WithPurchases(x[1])) < trades[x[1]].qty
               PROVE  FALSE
    BY DEF ReplacedFirst
  <2> DEFINE k == x[1]
  <2>1. k \in Sales(DOMAIN trades) /\ trades[k].day = d /\ k \in DOMAIN trades
    BY DEF Replacements, Sales
  <2>2. Total(m.out, WithPurchases(k)) < trades[k].qty
    OBVIOUS
  <2> HIDE DEF k
  <2>3. m.left[k] = 0
    BY <1>1, <1>2, <2>1 DEF Finished
  <2>4. \A y \in OfSale(k) \ WithPurchases(k) : m.out[y] = 0
    <3>1. \A y \in OfSale(k) \ WithPurchases(k) : y \in Pairs /\ y[2] = Pool /\ SaleDay(y) = d
      BY <2>1 DEF OfSale, WithPurchases, SaleDay
    <3> QED BY <1>1, <1>2, <3>1 DEF OnlyDue
  <2>5. Total(m.out, OfSale(k)) = Total(m.out, WithPurchases(k)) /\ Total(m.out, OfSale(k)) \in Nat
    BY <1>1, <2>4, PairSets, SumOfSome, SumsAreNumbers
  <2>6. m.left[k] + Total(m.out, OfSale(k)) = trades[k].qty
    BY <1>1, <2>1 DEF SalesBooked
  <2> QED BY <2>2, <2>3, <2>5, <2>6
<1>8. PoolCovers(m, d)
  <2>1. Stock(m, d) = Total(Unmatched.left, Earlier(DOMAIN trades, d))
    BY <1>1, <1>2 DEF StockBooked
  <2> QED BY <1>1, <1>2, <2>1, StockCovers
<1>9. \A e \in 0 .. LastDay : e < d + 1 => ReplacedFirst(m, e) /\ PoolCovers(m, e)
  <2>1. \A e \in 0 .. LastDay : e < d + 1 => e < d \/ e = d
    BY <1>2
  <2> QED BY <1>1, <1>7, <1>8, <2>1
<1> QED BY <1>1, <1>3, <1>4, <1>5, <1>6, <1>9 DEF Books

\* A day whose sales reach for later purchases and then for the pool.
LEMMA BooksDue ==
  ASSUME MatchingTypeOK, NEW d \in 0 .. LastDay, NEW m, Books(m, d),
         NEW b, b = DayOfSales(DOMAIN trades, m, d)
  PROVE  Books(b, d + 1)
<1> DEFINE rule == Replacements(DOMAIN trades, d)
           r == MatchAll(m, rule)
           p == Pooled(DOMAIN trades, r, d)
           E == Earlier(DOMAIN trades, d)
<1>1. /\ m \in Matchings
      /\ SalesBooked(m) /\ PurchasesBooked(m, d) /\ StockBooked(m, d)
      /\ OnlyDue(m, d) /\ Finished(m, d) /\ SameDayFirst(m)
      /\ \A e \in 0 .. LastDay : e < d => ReplacedFirst(m, e) /\ PoolCovers(m, e)
  BY DEF Books
<1>2. /\ d \in Nat
      /\ \A k \in DOMAIN trades : trades[k].day \in Nat /\ trades[k].qty \in Nat
      /\ \A k \in Sales(DOMAIN trades) : k \in DOMAIN trades
      /\ \A k \in Purchases(DOMAIN trades) : k \in DOMAIN trades
  BY FillsAreTyped DEF Sales, Purchases
<1>3. b = AllFromPool(DOMAIN trades, p, d)
  BY DEF DayOfSales
<1>4. Follows(m, b, DayPairs(d))
  BY <1>1, DayFollows
<1>5. RuleServed(m, r, rule)
  BY <1>1, ReplacementsAreRule, MatchAllFollows
<1> HIDE DEF r
<1>6. /\ Follows(m, r, rule) /\ Balances(m, r) /\ r \in Matchings
      /\ \A x \in rule : r.left[x[1]] = 0 \/ r.left[x[2]] = 0
  BY <1>5 DEF RuleServed, Follows
<1>7. PoolFilled(r, p, DOMAIN trades, d) /\ \A e \in Nat : d <= e => Stock(p, e) = Stock(r, e)
  BY <1>2, <1>6, PooledFollows, PooledBalances
<1> HIDE DEF p
<1>8. /\ Follows(r, p, {}) /\ p.out = r.out /\ p \in Matchings
      /\ \A i \in DOMAIN trades \ E : p.left[i] = r.left[i]
  BY <1>7 DEF PoolFilled, Follows
<1>9. Follows(p, b, PoolPairs(d)) /\ Balances(p, b)
  BY <1>3, <1>8, AllFromPoolFollows
<1>10. Follows(r, b, PoolPairs(d))
  <2>1. Follows(r, b, {} \cup PoolPairs(d))
    BY <1>6, <1>8, <1>9, FollowsTransitive
  <2>2. {} \cup PoolPairs(d) = PoolPairs(d)
    OBVIOUS
  <2> QED BY <2>1, <2>2
<1>11. b \in Matchings
  BY <1>4 DEF Follows
<1>12. /\ \A k \in DOMAIN trades : m.left[k] \in Nat /\ r.left[k] \in Nat /\ p.left[k] \in Nat /\ b.left[k] \in Nat
  BY <1>1, <1>6, <1>8, <1>11 DEF Matchings
<1>13. ASSUME NEW k \in Sales(DOMAIN trades)
       PROVE  /\ r.left[k] + Total(r.out, OfSale(k)) = trades[k].qty
              /\ b.left[k] + Total(b.out, OfSale(k)) = trades[k].qty
  <2>1. r.left[k] + Total(r.out, OfSale(k)) = m.left[k] + Total(m.out, OfSale(k))
    BY <1>6 DEF Balances
  <2>2. m.left[k] + Total(m.out, OfSale(k)) = trades[k].qty
    BY <1>1 DEF SalesBooked
  <2>3. k \in DOMAIN trades \ E
    BY <1>2, FillsAreTyped DEF Earlier
  <2>4. p.left[k] = r.left[k]
    BY <1>8, <2>3
  <2>5. b.left[k] + Total(b.out, OfSale(k)) = p.left[k] + Total(p.out, OfSale(k))
    BY <1>9 DEF Balances
  <2> QED BY <1>8, <2>1, <2>2, <2>4, <2>5
<1>14. SalesBooked(b)
  BY <1>13 DEF SalesBooked
<1>15. ASSUME NEW j \in Purchases(DOMAIN trades)
       PROVE  /\ trades[j].day >= d => r.left[j] + Total(r.out, OfBuy(j)) = trades[j].qty
              /\ b.left[j] + Total(b.out, OfBuy(j)) <= trades[j].qty
              /\ trades[j].day >= d => b.left[j] + Total(b.out, OfBuy(j)) = trades[j].qty
  <2>1. r.left[j] + Total(r.out, OfBuy(j)) = m.left[j] + Total(m.out, OfBuy(j))
    BY <1>6 DEF Balances
  <2>2. /\ m.left[j] + Total(m.out, OfBuy(j)) <= trades[j].qty
        /\ trades[j].day >= d => m.left[j] + Total(m.out, OfBuy(j)) = trades[j].qty
    BY <1>1 DEF PurchasesBooked
  <2>3. b.left[j] + Total(b.out, OfBuy(j)) = p.left[j] + Total(p.out, OfBuy(j))
    BY <1>9 DEF Balances
  <2>4. j \in DOMAIN trades /\ (trades[j].day >= d => j \notin E)
    BY <1>2 DEF Earlier
  <2>5. p.left[j] <= r.left[j] /\ (trades[j].day >= d => p.left[j] = r.left[j])
    BY <1>8, <2>4 DEF Follows
  <2>6. Total(r.out, OfBuy(j)) \in Nat
    BY <1>6, PairSets, SumsAreNumbers
  <2>7. p.left[j] \in Nat /\ r.left[j] \in Nat /\ trades[j].qty \in Nat
    BY <1>2, <1>12
  <2> DEFINE t == Total(r.out, OfBuy(j))
  <2>8. p.left[j] + t <= r.left[j] + t
    BY <2>5, <2>6, <2>7
  <2>9. b.left[j] + Total(b.out, OfBuy(j)) = p.left[j] + t
    BY <1>8, <2>3
  <2>10. r.left[j] + t <= trades[j].qty
    BY <2>1, <2>2
  <2> HIDE DEF t
  <2>11. b.left[j] + Total(b.out, OfBuy(j)) <= trades[j].qty
    BY <2>6, <2>7, <2>8, <2>9, <2>10 DEF t
  <2> QED BY <2>1, <2>2, <2>5, <2>9, <2>11 DEF t
<1>16. PurchasesBooked(b, d + 1)
  <2>1. \A j \in Purchases(DOMAIN trades) : trades[j].day >= d + 1 => trades[j].day >= d
    BY <1>2
  <2> QED BY <1>15, <2>1 DEF PurchasesBooked
<1>17. ASSUME NEW e \in Nat, e >= d
       PROVE  Stock(b, e) = Total(Unmatched.left, Earlier(DOMAIN trades, e))
  <2>1. Stock(r, e) = Stock(m, e)
    BY <1>6 DEF Balances
  <2>2. Stock(p, e) = Stock(r, e)
    BY <1>2, <1>7, <1>17
  <2>3. Stock(b, e) = Stock(p, e)
    BY <1>9 DEF Balances
  <2>4. Stock(m, e) = Total(Unmatched.left, Earlier(DOMAIN trades, e))
    BY <1>1, <1>17 DEF StockBooked
  <2> QED BY <2>1, <2>2, <2>3, <2>4
<1>18. StockBooked(b, d + 1)
  <2>1. \A e \in Nat : e >= d + 1 => e >= d
    BY <1>2
  <2> QED BY <1>17, <2>1 DEF StockBooked
<1>19. OnlyDue(b, d + 1)
  <2> SUFFICES ASSUME NEW x \in Pairs, b.out[x] # 0
               PROVE  IF x[2] = Pool THEN SaleDay(x) < d + 1
                      ELSE SaleDay(x) = BuyDay(x) \/ SaleDay(x) < d + 1
    BY DEF OnlyDue
  <2>1. SaleDay(x) \in Nat
    BY <1>2 DEF Pairs, SaleDay
  <2>2. CASE x \in DayPairs(d)
    BY <1>2, <2>1, <2>2 DEF DayPairs
  <2>3. CASE x \notin DayPairs(d)
    <3>1. m.out[x] # 0
      BY <1>4, <2>3 DEF Follows
    <3> QED BY <1>1, <1>2, <2>1, <3>1 DEF OnlyDue
  <2> QED BY <2>2, <2>3
<1>20. Finished(b, d + 1)
  <2> SUFFICES ASSUME NEW k \in Sales(DOMAIN trades), trades[k].day >= d + 1,
                      trades[k].day \notin DaysLeft(DOMAIN trades)
               PROVE  b.left[k] = 0
    BY DEF Finished
  <2>1. m.left[k] = 0
    BY <1>1, <1>2 DEF Finished
  <2>2. b.left[k] <= m.left[k]
    BY <1>2, <1>4 DEF Follows
  <2> QED BY <1>2, <1>12, <2>1, <2>2
<1>21. SameDayFirst(b)
  <2> SUFFICES ASSUME NEW x \in SameDay(DOMAIN trades),
                      Total(b.out, WithSameDay(x[1])) < trades[x[1]].qty
               PROVE  Total(b.out, OfBuyUpTo(x[2], SaleDay(x))) = trades[x[2]].qty
    BY DEF SameDayFirst
  <2> DEFINE k == x[1] j == x[2] S == WithSameDay(k) P == OfBuyUpTo(j, SaleDay(x))
  <2>1. /\ j \in Purchases(DOMAIN trades) /\ trades[k].qty \in Nat
        /\ S \in SUBSET Pairs /\ P \in SUBSET OfBuy(j)
    BY <1>2, PairSets DEF SameDay
  <2>2. Total(m.out, S) <= Total(b.out, S) /\ Total(m.out, S) \in Nat /\ Total(b.out, S) \in Nat
    <3> HIDE DEF S
    <3> QED BY <1>1, <1>4, <2>1, SumsFollow
  <2>3. Total(m.out, S) < trades[k].qty
    BY <2>1, <2>2
  <2>4. Total(m.out, P) = trades[j].qty
    BY <1>1, <2>3 DEF SameDayFirst
  <2> HIDE DEF j, P
  <2>5. Total(b.out, P) = trades[j].qty
    BY <1>1, <1>4, <1>16, <2>1, <2>4, SettledStays
  <2> QED BY <2>5 DEF j, P
<1>22. ASSUME NEW e \in 0 .. LastDay, e < d PROVE ReplacedFirst(b, e)
  <2> SUFFICES ASSUME NEW x \in Replacements(DOMAIN trades, e),
                      Total(b.out, WithPurchases(x[1])) < trades[x[1]].qty
               PROVE  Total(b.out, OfBuyUpTo(x[2], e)) = trades[x[2]].qty
    BY DEF ReplacedFirst
  <2> DEFINE k == x[1] j == x[2] S == WithPurchases(k) P == OfBuyUpTo(j, e)
  <2>1. /\ j \in Purchases(DOMAIN trades) /\ trades[k].qty \in Nat
        /\ S \in SUBSET Pairs /\ P \in SUBSET OfBuy(j)
    BY <1>2, PairSets DEF Replacements
  <2>2. Total(m.out, S) <= Total(b.out, S) /\ Total(m.out, S) \in Nat /\ Total(b.out, S) \in Nat
    <3> HIDE DEF S
    <3> QED BY <1>1, <1>4, <2>1, SumsFollow
  <2>3. Total(m.out, S) < trades[k].qty
    BY <2>1, <2>2
  <2>4. Total(m.out, P) = trades[j].qty
    BY <1>1, <1>22, <2>3 DEF ReplacedFirst
  <2> HIDE DEF j, P
  <2>5. Total(b.out, P) = trades[j].qty
    BY <1>1, <1>4, <1>16, <2>1, <2>4, SettledStays
  <2> QED BY <2>5 DEF j, P
<1>23. ReplacedFirst(b, d)
  <2> SUFFICES ASSUME NEW x \in rule,
                      Total(b.out, WithPurchases(x[1])) < trades[x[1]].qty
               PROVE  Total(b.out, OfBuyUpTo(x[2], d)) = trades[x[2]].qty
    BY DEF ReplacedFirst
  <2> DEFINE k == x[1] j == x[2] S == WithPurchases(k) P == OfBuyUpTo(j, d)
  <2>1. /\ k \in Sales(DOMAIN trades) /\ j \in Purchases(DOMAIN trades)
        /\ trades[k].qty \in Nat /\ trades[k].day = d /\ trades[j].day > d
        /\ S \in SUBSET OfSale(k) /\ P \in SUBSET OfBuy(j)
        /\ S \in SUBSET Pairs /\ OfSale(k) \in SUBSET Pairs /\ OfBuy(j) \in SUBSET Pairs
    BY <1>2, PairSets DEF Replacements
  <2>2. Total(r.out, S) <= Total(b.out, S) /\ Total(r.out, S) \in Nat /\ Total(b.out, S) \in Nat
    <3> HIDE DEF S
    <3> QED BY <1>6, <1>10, <2>1, SumsFollow
  <2>3. Total(r.out, S) < trades[k].qty
    BY <2>1, <2>2
  <2>4. \A y \in Pairs : r.out[y] # 0 => m.out[y] # 0 \/ y \in rule
    BY <1>6 DEF Follows
  <2>5. \A y \in OfSale(k) \ S : r.out[y] = 0
    <3>1. \A y \in OfSale(k) \ S : y \in Pairs /\ y[2] = Pool /\ SaleDay(y) = d
      BY <2>1 DEF OfSale, WithPurchases, SaleDay
    <3>2. \A y \in rule : y[2] # Pool
      BY FillsAreTyped DEF Replacements, Purchases, Pool
    <3>3. \A y \in OfSale(k) \ S : m.out[y] = 0
      BY <1>1, <1>2, <3>1 DEF OnlyDue
    <3> QED BY <2>4, <3>1, <3>2, <3>3
  <2>6. \A y \in OfBuy(j) \ P : r.out[y] = 0
    <3> SUFFICES ASSUME NEW y \in OfBuy(j) \ P, r.out[y] # 0 PROVE FALSE
      OBVIOUS
    <3>1. y \in Pairs /\ y[2] = j /\ ~(SaleDay(y) = BuyDay(y) \/ SaleDay(y) <= d) /\ SaleDay(y) \in Nat
      BY <1>2 DEF OfBuy, OfBuyUpTo, Pairs, SaleDay
    <3>2. j # Pool
      BY <2>1, FillsAreTyped DEF Purchases, Pool
    <3>3. CASE m.out[y] # 0
      BY <1>1, <1>2, <3>1, <3>2, <3>3 DEF OnlyDue
    <3>4. CASE y \in rule
      BY <1>2, <3>1, <3>4 DEF Replacements, SaleDay
    <3> QED BY <2>4, <3>1, <3>3, <3>4
  <2> HIDE DEF S, P, k, j
  <2>7. Total(r.out, OfSale(k)) = Total(r.out, S)
    BY <1>6, <2>1, <2>5, SumOfSome
  <2>8. Total(r.out, OfBuy(j)) = Total(r.out, P) /\ Total(r.out, OfBuy(j)) \in Nat
    BY <1>6, <2>1, <2>6, SumOfSome, SumsAreNumbers
  <2>9. r.left[k] # 0
    <3>1. r.left[k] + Total(r.out, OfSale(k)) = trades[k].qty
      BY <1>13, <2>1
    <3> QED BY <2>1, <2>2, <2>3, <2>7, <3>1
  <2>10. r.left[j] = 0
    BY <1>6, <2>9 DEF k, j
  <2>11. Total(r.out, P) = trades[j].qty
    <3>1. r.left[j] + Total(r.out, OfBuy(j)) = trades[j].qty
      BY <1>2, <1>15, <2>1
    <3> QED BY <2>8, <2>10, <3>1
  <2>12. Total(b.out, P) = trades[j].qty
    BY <1>6, <1>10, <1>16, <2>1, <2>11, SettledStays
  <2> QED BY <2>12 DEF j, P
<1>24. ASSUME NEW e \in 0 .. LastDay, e < d PROVE PoolCovers(b, e)
  <2> DEFINE P == {x \in Pairs : x[2] = Pool /\ SaleDay(x) <= e}
             Q == {x \in Pairs : x[2] \in Earlier(DOMAIN trades, e)}
  <2>1. P \in SUBSET Pairs /\ Q \in SUBSET Pairs
    OBVIOUS
  <2>2. P \cap DayPairs(d) = {}
    BY <1>2, <1>24 DEF DayPairs
  <2>3. Q \cap DayPairs(d) = {}
    <3>1. \A i \in Earlier(DOMAIN trades, e) : i # Pool /\ trades[i].day \in Nat /\ ~(trades[i].day > d)
      BY <1>2, <1>24, FillsAreTyped DEF Earlier, Purchases, Pool
    <3> QED BY <3>1 DEF DayPairs, BuyDay
  <2>4. PoolCovers(m, e)
    BY <1>1, <1>24
  <2> HIDE DEF P, Q
  <2>5. Total(b.out, P) = Total(m.out, P) /\ Total(b.out, Q) = Total(m.out, Q)
    BY <1>1, <1>4, <2>1, <2>2, <2>3, SumsFollow
  <2> QED BY <2>4, <2>5 DEF PoolCovers, P, Q
<1>25. PoolCovers(b, d)
  BY <1>2, <1>11, <1>17, StockCovers
<1>26. \A e \in 0 .. LastDay : e < d + 1 => ReplacedFirst(b, e) /\ PoolCovers(b, e)
  <2>1. \A e \in 0 .. LastDay : e < d + 1 => e < d \/ e = d
    BY <1>2
  <2> QED BY <1>22, <1>23, <1>24, <1>25, <2>1
<1> QED BY <1>11, <1>14, <1>16, <1>18, <1>19, <1>20, <1>21, <1>26 DEF Books

\* The order of identification, for all the fills.
LEMMA InOrder ==
  ASSUME MatchingTypeOK PROVE IdentifiedInOrder(HmrcMatches(DOMAIN trades).out)
<1> DEFINE n == LastDay + 1 out == HmrcMatches(DOMAIN trades).out
<1>1. n \in Nat
  BY FillsAreTyped
<1>2. PICK h : IsHmrcRun(h, DOMAIN trades)
  BY HmrcByStep
<1> DEFINE S == {c \in 0 .. n : Books(h[c], c)}
<1>3. 0 \in S
  BY <1>1, <1>2, BooksOpen DEF IsHmrcRun
<1>4. ASSUME NEW c \in 1 .. n, c - 1 \in S PROVE c \in S
  <2> DEFINE d == c - 1
  <2>1. d \in 0 .. LastDay /\ d + 1 = c /\ c \in 0 .. n /\ Books(h[d], d)
    BY <1>1, <1>4, FillsAreTyped
  <2>2. h[c] = IF d \in DaysLeft(DOMAIN trades) THEN DayOfSales(DOMAIN trades, h[d], d) ELSE h[d]
    BY <1>2 DEF IsHmrcRun
  <2> HIDE DEF d
  <2>3. Books(h[c], d + 1)
    <3>1. CASE d \in DaysLeft(DOMAIN trades)
      BY <2>1, <2>2, <3>1, BooksDue
    <3>2. CASE d \notin DaysLeft(DOMAIN trades)
      BY <2>1, <2>2, <3>2, BooksIdle
    <3> QED BY <3>1, <3>2
  <2> QED BY <2>1, <2>3
<1>5. Books(HmrcMatches(DOMAIN trades), n)
  <2> HIDE DEF S, n
  <2>1. \A c \in 0 .. n : c \in S
    BY <1>1, <1>3, <1>4, StepByStep
  <2>2. n \in 0 .. n
    BY <1>1
  <2>3. HmrcMatches(DOMAIN trades) = h[n]
    BY <1>2 DEF IsHmrcRun, n
  <2> QED BY <2>1, <2>2, <2>3 DEF S
<1> DEFINE m == HmrcMatches(DOMAIN trades)
<1> HIDE DEF m
<1>6. /\ m \in Matchings /\ SalesBooked(m) /\ PurchasesBooked(m, n) /\ SameDayFirst(m)
      /\ \A d \in 0 .. LastDay : ReplacedFirst(m, d) /\ PoolCovers(m, d)
  <2>1. \A d \in 0 .. LastDay : d < n
    BY FillsAreTyped
  <2> QED BY <1>5, <2>1 DEF Books, m
<1>7. ASSUME NEW j \in Purchases(DOMAIN trades) PROVE Total(m.out, OfBuy(j)) <= trades[j].qty
  <2>1. j \in DOMAIN trades
    BY DEF Purchases
  <2>2. m.left[j] \in Nat /\ Total(m.out, OfBuy(j)) \in Nat /\ trades[j].qty \in Nat
    BY <1>6, <2>1, FillsAreTyped, PairSets, SumsAreNumbers DEF Matchings
  <2>3. m.left[j] + Total(m.out, OfBuy(j)) <= trades[j].qty
    BY <1>6 DEF PurchasesBooked
  <2> QED BY <2>2, <2>3
<1>8. ASSUME NEW k \in Sales(DOMAIN trades) PROVE Total(m.out, OfSale(k)) <= trades[k].qty
  <2>1. k \in DOMAIN trades
    BY DEF Sales
  <2>2. m.left[k] \in Nat /\ Total(m.out, OfSale(k)) \in Nat /\ trades[k].qty \in Nat
    BY <1>6, <2>1, FillsAreTyped, PairSets, SumsAreNumbers DEF Matchings
  <2>3. m.left[k] + Total(m.out, OfSale(k)) = trades[k].qty
    BY <1>6 DEF SalesBooked
  <2> QED BY <2>2, <2>3
<1>9. IdentifiedInOrder(m.out)
  <2>1. \A x \in SameDay(DOMAIN trades) :
           Total(m.out, WithSameDay(x[1])) < trades[x[1]].qty =>
             Total(m.out, OfBuyUpTo(x[2], SaleDay(x))) = trades[x[2]].qty
    BY <1>6 DEF SameDayFirst
  <2>2. \A d \in 0 .. LastDay : \A x \in Replacements(DOMAIN trades, d) :
           Total(m.out, WithPurchases(x[1])) < trades[x[1]].qty =>
             Total(m.out, OfBuyUpTo(x[2], d)) = trades[x[2]].qty
    BY <1>6 DEF ReplacedFirst
  <2>3. \A d \in 0 .. LastDay :
          Total(m.out, {x \in Pairs : x[2] = Pool /\ SaleDay(x) <= d})
            + Total(m.out, {x \in Pairs : x[2] \in Earlier(DOMAIN trades, d)})
            <= Total(Unmatched.left, Earlier(DOMAIN trades, d))
    BY <1>6 DEF PoolCovers
  <2> QED BY <1>7, <1>8, <2>1, <2>2, <2>3, SumOfFunction DEF IdentifiedInOrder
<1> QED BY <1>9 DEF m

-----------------------------------------------------------------------------
(* The period of the report does not matter *)

\* Fills are stored in the order of their days.
FillsInOrder == \A i, j \in DOMAIN trades : i <= j => trades[i].day <= trades[j].day

\* Two matchings agree on the fills T and on the sales among them.
Agree(a, b, T) ==
  /\ a \in Matchings /\ b \in Matchings /\ a.pool = b.pool
  /\ \A k \in T : a.left[k] = b.left[k]
  /\ \A x \in Pairs : x[1] \in T => a.out[x] = b.out[x]

\* Agreement passes from one matching to the next.
LEMMA AgreeTransitive ==
  ASSUME NEW T, NEW a, NEW b, NEW c, Agree(a, b, T), Agree(b, c, T) PROVE Agree(a, c, T)
BY DEF Agree

\* A matching agrees with itself.
LEMMA AgreeReflexive == ASSUME NEW T, NEW a \in Matchings PROVE Agree(a, a, T)
BY DEF Agree

\* Agreement is kept by a match.
LEMMA MatchAgrees ==
  ASSUME MatchingTypeOK, NEW T \in SUBSET DOMAIN trades, NEW a, NEW b, Agree(a, b, T),
         NEW k \in Sales(DOMAIN trades), NEW j \in Purchases(DOMAIN trades), k \in T, j \in T
  PROVE  Agree(Match(a, k, j), Match(b, k, j), T)
<1> DEFINE c == Match(a, k, j) d == Match(b, k, j)
<1>1. a \in Matchings /\ b \in Matchings
  BY DEF Agree
<1>2. PICK p \in Nat :
        /\ c \in Matchings
        /\ p <= a.left[k] /\ p <= a.left[j] /\ (p = a.left[k] \/ p = a.left[j])
        /\ c.pool = a.pool
        /\ \A i \in DOMAIN trades : c.left[i] = a.left[i] - (IF i \in {k, j} THEN p ELSE 0)
        /\ \A x \in Pairs : c.out[x] = a.out[x] + (IF x = <<k, j>> THEN p ELSE 0)
  BY <1>1, MatchTakes
<1>3. PICK q \in Nat :
        /\ d \in Matchings
        /\ q <= b.left[k] /\ q <= b.left[j] /\ (q = b.left[k] \/ q = b.left[j])
        /\ d.pool = b.pool
        /\ \A i \in DOMAIN trades : d.left[i] = b.left[i] - (IF i \in {k, j} THEN q ELSE 0)
        /\ \A x \in Pairs : d.out[x] = b.out[x] + (IF x = <<k, j>> THEN q ELSE 0)
  BY <1>1, MatchTakes
<1> HIDE DEF c, d
<1>4. p = q
  BY <1>2, <1>3 DEF Agree
<1>5. \A i \in T : c.left[i] = d.left[i]
  BY <1>2, <1>3, <1>4 DEF Agree
<1>6. \A x \in Pairs : x[1] \in T => c.out[x] = d.out[x]
  BY <1>2, <1>3, <1>4 DEF Agree
<1>7. c.pool = d.pool
  BY <1>2, <1>3 DEF Agree
<1>8. Agree(c, d, T)
  BY <1>2, <1>3, <1>5, <1>6, <1>7 DEF Agree
<1> QED BY <1>8 DEF c, d

\* By what a sale takes from the pool.
LEMMA FromPoolAgrees ==
  ASSUME MatchingTypeOK, NEW T \in SUBSET DOMAIN trades, NEW a, NEW b, Agree(a, b, T),
         NEW k \in Sales(DOMAIN trades), k \in T
  PROVE  Agree(FromPool(a, k), FromPool(b, k), T)
<1> DEFINE c == FromPool(a, k) d == FromPool(b, k) q == LessOf(a.left[k], a.pool)
<1>1. a \in Matchings /\ b \in Matchings /\ a.left[k] = b.left[k] /\ a.pool = b.pool
  BY DEF Agree
<1>2. c \in Matchings /\ d \in Matchings
  BY <1>1, PoolGives
<1>3. /\ c = [left |-> [a.left EXCEPT ![k] = @ - q], pool |-> a.pool - q,
              out  |-> [a.out EXCEPT ![<<k, Pool>>] = @ + q]]
      /\ d = [left |-> [b.left EXCEPT ![k] = @ - q], pool |-> b.pool - q,
              out  |-> [b.out EXCEPT ![<<k, Pool>>] = @ + q]]
  BY <1>1 DEF FromPool
<1> HIDE DEF c, d, q
<1>4. a.left \in [DOMAIN trades -> Nat] /\ b.left \in [DOMAIN trades -> Nat]
      /\ a.out \in [Pairs -> Nat] /\ b.out \in [Pairs -> Nat]
  BY <1>1 DEF Matchings
<1>5. c.pool = d.pool
  BY <1>1, <1>3
<1>6. \A i \in T : c.left[i] = d.left[i]
  BY <1>3, <1>4 DEF Agree
<1>7. \A x \in Pairs : x[1] \in T => c.out[x] = d.out[x]
  BY <1>3, <1>4 DEF Agree
<1>8. Agree(c, d, T)
  BY <1>2, <1>5, <1>6, <1>7 DEF Agree
<1> QED BY <1>8 DEF c, d

\* By all the matches of a sale of the fills T.
LEMMA SaleAgrees ==
  ASSUME MatchingTypeOK, NEW T \in SUBSET DOMAIN trades, NEW a, NEW b, Agree(a, b, T),
         NEW k \in T, NEW lots \in SUBSET Purchases(DOMAIN trades), lots \subseteq T,
         lots # {} => k \in Sales(DOMAIN trades)
  PROVE  Agree(MatchSale(a, k, lots), MatchSale(b, k, lots), T)
<1> DEFINE n == Len(trades)
<1>1. n \in Nat /\ k \in DOMAIN trades /\ a \in Matchings /\ b \in Matchings
  BY FillsAreTyped DEF Agree
<1>2. PICK h : IsSaleRun(h, a, k, lots)
  BY <1>1, MatchSaleByStep
<1>3. PICK g : IsSaleRun(g, b, k, lots)
  BY <1>1, MatchSaleByStep
<1> DEFINE S == {j \in 0 .. n : Agree(h[j], g[j], T)}
<1>4. 0 \in S
  BY <1>1, <1>2, <1>3 DEF IsSaleRun
<1>5. ASSUME NEW j \in 1 .. n, j - 1 \in S PROVE j \in S
  <2>1. j \in 0 .. n /\ Agree(h[j - 1], g[j - 1], T)
    BY <1>5
  <2>2. CASE j \in lots
    <3>1. k \in Sales(DOMAIN trades) /\ j \in Purchases(DOMAIN trades) /\ j \in T
      BY <2>2
    <3>2. Agree(Match(h[j - 1], k, j), Match(g[j - 1], k, j), T)
      BY <2>1, <3>1, MatchAgrees
    <3> QED BY <1>2, <1>3, <2>1, <2>2, <3>2 DEF IsSaleRun
  <2>3. CASE j \notin lots
    BY <1>2, <1>3, <2>1, <2>3 DEF IsSaleRun
  <2> QED BY <2>2, <2>3
<1>6. n \in S
  <2> HIDE DEF S, n
  <2>1. \A j \in 0 .. n : j \in S
    BY <1>1, <1>4, <1>5, StepByStep
  <2> QED BY <1>1, <2>1
<1> QED BY <1>2, <1>3, <1>6 DEF IsSaleRun

\* A sale of other fills matched with other fills.
LEMMA SaleSpares ==
  ASSUME MatchingTypeOK, NEW T \in SUBSET DOMAIN trades, NEW a \in Matchings,
         NEW k \in DOMAIN trades, k \notin T,
         NEW lots \in SUBSET Purchases(DOMAIN trades), lots \cap T = {},
         lots # {} => k \in Sales(DOMAIN trades)
  PROVE  Agree(MatchSale(a, k, lots), a, T)
<1> DEFINE b == MatchSale(a, k, lots)
<1>1. SaleServed(a, b, k, lots)
  BY MatchSaleFollows
<1> HIDE DEF b
<1>2. b \in Matchings /\ b.pool = a.pool
  BY <1>1 DEF SaleServed, Follows
<1>3. \A i \in T : b.left[i] = a.left[i]
  BY <1>1 DEF SaleServed
<1>4. \A x \in Pairs : x[1] \in T => b.out[x] = a.out[x]
  BY <1>1 DEF SaleServed, Follows
<1> QED BY <1>2, <1>3, <1>4 DEF Agree, b

\* Two rules that agree on the fills T, and of which the first leaves them alone otherwise.
LEMMA RuleAgrees ==
  ASSUME MatchingTypeOK, NEW T \in SUBSET DOMAIN trades, NEW a, NEW b, Agree(a, b, T),
         NEW ra \in SUBSET (Sales(DOMAIN trades) \X Purchases(DOMAIN trades)),
         NEW rb \in SUBSET (Sales(DOMAIN trades) \X Purchases(DOMAIN trades)),
         rb \subseteq ra, rb \subseteq T \X T,
         \A x \in ra : x \in rb \/ (x[1] \notin T /\ x[2] \notin T)
  PROVE  Agree(MatchAll(a, ra), MatchAll(b, rb), T)
<1> DEFINE n == Len(trades)
           Of(r, k) == {j \in DOMAIN trades : <<k, j>> \in r}
<1>1. n \in Nat /\ DOMAIN trades = 1 .. n /\ a \in Matchings /\ b \in Matchings
  BY FillsAreTyped DEF Agree
<1>2. PICK h \in [0 .. n -> Matchings] :
        /\ h[0] = a /\ MatchAll(a, ra) = h[n]
        /\ \A k \in 1 .. n : h[k] = MatchSale(h[k - 1], k, {j \in DOMAIN trades : <<k, j>> \in ra})
  BY <1>1, MatchAllByStep
<1>3. PICK g \in [0 .. n -> Matchings] :
        /\ g[0] = b /\ MatchAll(b, rb) = g[n]
        /\ \A k \in 1 .. n : g[k] = MatchSale(g[k - 1], k, {j \in DOMAIN trades : <<k, j>> \in rb})
  BY <1>1, MatchAllByStep
<1> DEFINE S == {k \in 0 .. n : Agree(h[k], g[k], T)}
<1>4. 0 \in S
  BY <1>1, <1>2, <1>3
<1>5. ASSUME NEW k \in 1 .. n, k - 1 \in S PROVE k \in S
  <2>1. k \in 0 .. n /\ Agree(h[k - 1], g[k - 1], T) /\ k \in DOMAIN trades
    BY <1>1, <1>5
  <2>2. h[k] = MatchSale(h[k - 1], k, Of(ra, k)) /\ g[k] = MatchSale(g[k - 1], k, Of(rb, k))
    BY <1>2, <1>3
  <2>3. /\ Of(ra, k) \in SUBSET Purchases(DOMAIN trades) /\ Of(rb, k) \in SUBSET Purchases(DOMAIN trades)
        /\ Of(ra, k) # {} => k \in Sales(DOMAIN trades)
        /\ Of(rb, k) # {} => k \in Sales(DOMAIN trades)
    OBVIOUS
  <2>4. /\ k \in T => Of(ra, k) = Of(rb, k) /\ Of(rb, k) \subseteq T
        /\ k \notin T => Of(rb, k) = {} /\ Of(ra, k) \cap T = {}
    <3>1. \A j : <<k, j>>[1] = k /\ <<k, j>>[2] = j
      OBVIOUS
    <3> QED BY <3>1
  <2>5. h[k - 1] \in Matchings /\ g[k - 1] \in Matchings
    BY <2>1 DEF Agree
  <2> HIDE DEF Of, S, n
  <2>6. CASE k \in T
    <3>1. Agree(MatchSale(h[k - 1], k, Of(rb, k)), MatchSale(g[k - 1], k, Of(rb, k)), T)
      BY <2>1, <2>3, <2>4, <2>6, SaleAgrees
    <3> QED BY <2>1, <2>2, <2>4, <2>6, <3>1 DEF S
  <2>7. CASE k \notin T
    <3>1. Agree(h[k], h[k - 1], T)
      BY <2>1, <2>2, <2>3, <2>4, <2>5, <2>7, SaleSpares
    <3>2. Agree(g[k - 1], g[k], T)
      <4>1. SaleServed(g[k - 1], g[k], k, Of(rb, k))
        BY <2>1, <2>2, <2>3, <2>5, MatchSaleFollows
      <4>2. g[k] = g[k - 1]
        BY <2>4, <2>7, <4>1 DEF SaleServed
      <4> QED BY <2>5, <4>2, AgreeReflexive
    <3>3. Agree(h[k], g[k], T)
      BY <2>1, <3>1, <3>2, AgreeTransitive
    <3> QED BY <2>1, <3>3 DEF S
  <2> QED BY <2>6, <2>7
<1>6. n \in S
  <2> HIDE DEF S, n
  <2>1. \A k \in 0 .. n : k \in S
    BY <1>1, <1>4, <1>5, StepByStep
  <2> QED BY <1>1, <2>1
<1> QED BY <1>2, <1>3, <1>6

\* By the sales of a day that take from the pool.
LEMMA AllFromPoolAgrees ==
  ASSUME MatchingTypeOK, NEW T \in SUBSET DOMAIN trades, NEW a, NEW b, Agree(a, b, T),
         NEW d, \A k \in Sales(DOMAIN trades) : trades[k].day = d => k \in T
  PROVE  Agree(AllFromPool(DOMAIN trades, a, d), AllFromPool(T, b, d), T)
<1> DEFINE n == Len(trades)
           SoldOn(k) == k \in Sales(T) /\ trades[k].day = d
<1>1. n \in Nat /\ DOMAIN trades = 1 .. n /\ a \in Matchings /\ b \in Matchings
  BY FillsAreTyped DEF Agree
<1>2. PICK h : IsPoolRun(h, DOMAIN trades, a, d)
  BY <1>1, AllFromPoolByStep
<1>3. PICK g : IsPoolRun(g, T, b, d)
  BY <1>1, AllFromPoolByStep
<1>4. \A k : k \in Sales(DOMAIN trades) /\ trades[k].day = d <=> SoldOn(k)
  BY DEF Sales
<1>5. \A k : SoldOn(k) => k \in T /\ k \in Sales(DOMAIN trades)
  BY DEF Sales
<1>6. \A k \in 1 .. n : h[k] = IF SoldOn(k) THEN FromPool(h[k - 1], k) ELSE h[k - 1]
  BY <1>2, <1>4 DEF IsPoolRun
<1>7. \A k \in 1 .. n : g[k] = IF SoldOn(k) THEN FromPool(g[k - 1], k) ELSE g[k - 1]
  BY <1>3 DEF IsPoolRun
<1> HIDE DEF SoldOn
<1> DEFINE S == {k \in 0 .. n : Agree(h[k], g[k], T)}
<1>8. 0 \in S
  BY <1>1, <1>2, <1>3 DEF IsPoolRun
<1>9. ASSUME NEW k \in 1 .. n, k - 1 \in S PROVE k \in S
  <2>1. k \in 0 .. n /\ Agree(h[k - 1], g[k - 1], T)
    BY <1>9
  <2>2. CASE SoldOn(k)
    <3>1. Agree(FromPool(h[k - 1], k), FromPool(g[k - 1], k), T)
      BY <1>5, <2>1, <2>2, FromPoolAgrees
    <3> QED BY <1>6, <1>7, <2>1, <2>2, <3>1
  <2>3. CASE ~SoldOn(k)
    BY <1>6, <1>7, <2>1, <2>3
  <2> QED BY <2>2, <2>3
<1>10. n \in S
  <2> HIDE DEF S, n
  <2>1. \A k \in 0 .. n : k \in S
    BY <1>1, <1>8, <1>9, StepByStep
  <2> QED BY <1>1, <2>1
<1> QED BY <1>2, <1>3, <1>10 DEF IsPoolRun

\* By the filling of the pool.
LEMMA PooledAgrees ==
  ASSUME MatchingTypeOK, NEW T \in SUBSET DOMAIN trades, NEW a, NEW b, Agree(a, b, T),
         NEW d, \A k \in Purchases(DOMAIN trades) : trades[k].day < d => k \in T
  PROVE  Agree(Pooled(DOMAIN trades, a, d), Pooled(T, b, d), T)
<1> DEFINE p == Pooled(DOMAIN trades, a, d) q == Pooled(T, b, d) E == Earlier(T, d)
<1>1. a \in Matchings /\ b \in Matchings
  BY DEF Agree
<1>2. PoolFilled(a, p, DOMAIN trades, d) /\ PoolFilled(b, q, T, d)
  BY <1>1, PooledFollows
<1>3. Earlier(DOMAIN trades, d) = E /\ E \in SUBSET T
  BY DEF Earlier, Purchases
<1> HIDE DEF p, q, E
<1>4. p \in Matchings /\ q \in Matchings /\ p.out = a.out /\ q.out = b.out
  BY <1>2 DEF PoolFilled, Follows
<1>5. \A i \in T : p.left[i] = q.left[i]
  <2>1. \A i \in T \ E : p.left[i] = a.left[i] /\ q.left[i] = b.left[i] /\ a.left[i] = b.left[i]
    BY <1>2, <1>3 DEF PoolFilled, E, Agree
  <2>2. \A i \in E : p.left[i] = 0 /\ q.left[i] = 0
    BY <1>2, <1>3 DEF PoolFilled, E
  <2> QED BY <2>1, <2>2
<1>6. p.pool = q.pool
  <2>1. \A i \in E : a.left[i] = b.left[i]
    BY <1>3 DEF Agree
  <2>2. IsFiniteSet(E)
    BY <1>3, FillsAreFinite
  <2>3. Total(a.left, E) = Total(b.left, E)
    BY <2>1, <2>2, SumSame
  <2>4. p.pool = a.pool + Total(a.left, E) /\ q.pool = b.pool + Total(b.left, E) /\ a.pool = b.pool
    BY <1>2, <1>3 DEF PoolFilled, E, Agree
  <2> QED BY <2>3, <2>4
<1>7. Agree(p, q, T)
  BY <1>4, <1>5, <1>6 DEF Agree
<1> QED BY <1>7 DEF p, q

\* A day of the period.
LEMMA DayAgrees ==
  ASSUME MatchingTypeOK, NEW end \in 0 .. LastDay, NEW a, NEW b, Agree(a, b, Loaded(end)),
         NEW d \in 0 .. end
  PROVE  Agree(DayOfSales(DOMAIN trades, a, d), DayOfSales(Loaded(end), b, d), Loaded(end))
<1> DEFINE T == Loaded(end)
           rule == Replacements(DOMAIN trades, d)
           ra == MatchAll(a, rule) rb == MatchAll(b, Replacements(T, d))
           pa == Pooled(DOMAIN trades, ra, d) pb == Pooled(T, rb, d)
<1>1. /\ end \in Nat /\ d \in Nat /\ d <= end /\ Later \in Nat
      /\ \A k \in DOMAIN trades : trades[k].day \in Nat
  BY FillsAreTyped
<1>2. T \in SUBSET DOMAIN trades /\ \A k \in DOMAIN trades : trades[k].day <= end + Later <=> k \in T
  BY DEF Loaded
<1>3. Agree(a, b, T)
  OBVIOUS
<1>4. DayOfSales(DOMAIN trades, a, d) = AllFromPool(DOMAIN trades, pa, d)
      /\ DayOfSales(T, b, d) = AllFromPool(T, pb, d)
  BY DEF DayOfSales
<1> HIDE DEF T
<1>5. Replacements(T, d) = rule /\ rule \subseteq T \X T
  <2>1. \A k \in DOMAIN trades : trades[k].day <= d + Later => trades[k].day <= end + Later
    BY <1>1
  <2>2. \A k \in DOMAIN trades : trades[k].day = d => trades[k].day <= end + Later
    BY <1>1
  <2>3. \A k \in Sales(DOMAIN trades) : trades[k].day = d => k \in T /\ k \in Sales(T)
    BY <1>2, <2>2 DEF Sales
  <2>4. \A k \in Purchases(DOMAIN trades) : trades[k].day <= d + Later => k \in T /\ k \in Purchases(T)
    BY <1>2, <2>1 DEF Purchases
  <2>5. Sales(T) \subseteq Sales(DOMAIN trades) /\ Purchases(T) \subseteq Purchases(DOMAIN trades)
    BY <1>2 DEF Sales, Purchases
  <2> QED BY <2>3, <2>4, <2>5 DEF Replacements
<1>6. Agree(ra, rb, T)
  <2>1. rule \in SUBSET (Sales(DOMAIN trades) \X Purchases(DOMAIN trades))
    BY ReplacementsAreRule
  <2> HIDE DEF rule
  <2> QED BY <1>2, <1>3, <1>5, <2>1, RuleAgrees
<1> HIDE DEF ra, rb
<1>7. Agree(pa, pb, T)
  <2>1. \A k \in Purchases(DOMAIN trades) : trades[k].day < d => k \in T
    BY <1>1, <1>2 DEF Purchases
  <2> QED BY <1>2, <1>6, <2>1, PooledAgrees
<1> HIDE DEF pa, pb
<1>8. Agree(AllFromPool(DOMAIN trades, pa, d), AllFromPool(T, pb, d), T)
  <2>1. \A k \in Sales(DOMAIN trades) : trades[k].day = d => k \in T
    BY <1>1, <1>2 DEF Sales
  <2> QED BY <1>2, <1>7, <2>1, AllFromPoolAgrees
<1> QED BY <1>4, <1>8 DEF T

\* The sales of a period are matched as they are in the whole history.
LEMMA HmrcPeriodAgrees ==
  ASSUME MatchingTypeOK, NEW end \in 0 .. LastDay
  PROVE  \A x \in Pairs : SaleDay(x) <= end =>
           HmrcMatches(Loaded(end)).out[x] = HmrcMatches(DOMAIN trades).out[x]
<1> DEFINE T == Loaded(end) n == LastDay + 1
           Good(a, b, c) ==
             /\ a \in Matchings /\ b \in Matchings
             /\ \A x \in Pairs : SaleDay(x) <= end => a.out[x] = b.out[x]
             /\ c <= end + 1 => Agree(a, b, T)
<1>1. /\ end \in Nat /\ Later \in Nat /\ n \in Nat
      /\ \A k \in DOMAIN trades : trades[k].day \in Nat
  BY FillsAreTyped
<1>2. T \in SUBSET DOMAIN trades /\ \A k \in DOMAIN trades : trades[k].day <= end + Later <=> k \in T
  BY DEF Loaded
<1> HIDE DEF T
<1>3. \A x \in Pairs : SaleDay(x) \in Nat /\ (SaleDay(x) <= end => x[1] \in T)
  BY <1>1, <1>2 DEF Pairs, SaleDay
<1>4. \A a, b : Agree(a, b, T) => \A x \in Pairs : SaleDay(x) <= end => a.out[x] = b.out[x]
  BY <1>3 DEF Agree
<1>5. PICK h : IsHmrcRun(h, DOMAIN trades)
  BY HmrcByStep
<1>6. PICK g : IsHmrcRun(g, T)
  BY <1>2, HmrcByStep
<1>7. Agree(h[0], g[0], T)
  <2> DEFINE ra == SameDay(DOMAIN trades) rb == SameDay(T)
  <2>1. /\ ra \in SUBSET (Sales(DOMAIN trades) \X Purchases(DOMAIN trades))
        /\ rb \in SUBSET (Sales(DOMAIN trades) \X Purchases(DOMAIN trades))
    BY <1>2, ReplacementsAreRule
  <2>2. rb \subseteq ra /\ rb \subseteq T \X T
    BY <1>2 DEF SameDay, Sales, Purchases
  <2>3. \A x \in ra : x \in rb \/ (x[1] \notin T /\ x[2] \notin T)
    <3> SUFFICES ASSUME NEW x \in ra PROVE x \in rb \/ (x[1] \notin T /\ x[2] \notin T)
      OBVIOUS
    <3>1. /\ x[1] \in DOMAIN trades /\ x[2] \in DOMAIN trades /\ trades[x[2]].day = trades[x[1]].day
          /\ trades[x[1]].side = "sell" /\ trades[x[2]].side = "buy" /\ x = <<x[1], x[2]>>
      BY DEF SameDay, Sales, Purchases
    <3>2. x[1] \in T <=> x[2] \in T
      BY <1>2, <3>1
    <3>3. x[1] \in T /\ x[2] \in T => x \in rb
      BY <3>1 DEF SameDay, Sales, Purchases
    <3> QED BY <3>2, <3>3
  <2>4. Agree(Unmatched, Unmatched, T)
    BY UnmatchedIsTyped, AgreeReflexive
  <2> HIDE DEF ra, rb
  <2>5. Agree(MatchAll(Unmatched, ra), MatchAll(Unmatched, rb), T)
    BY <1>2, <2>1, <2>2, <2>3, <2>4, RuleAgrees
  <2> QED BY <1>5, <1>6, <2>5 DEF IsHmrcRun, ra, rb
<1>8. \A d \in 0 .. end : d \in DaysLeft(DOMAIN trades) <=> d \in DaysLeft(T)
  <2> DEFINE ha == MatchAll(Unmatched, SameDay(DOMAIN trades)) hb == MatchAll(Unmatched, SameDay(T))
  <2>1. \A k \in T : ha.left[k] = hb.left[k]
    BY <1>5, <1>6, <1>7 DEF IsHmrcRun, Agree
  <2>2. \A k \in DOMAIN trades : trades[k].day <= end => k \in T
    BY <1>1, <1>2
  <2>3. /\ \A e : e \in DaysLeft(DOMAIN trades) <=> \E k \in Sales(DOMAIN trades) : ha.left[k] > 0 /\ trades[k].day = e
        /\ \A e : e \in DaysLeft(T) <=> \E k \in Sales(T) : hb.left[k] > 0 /\ trades[k].day = e
    BY DEF DaysLeft
  <2> HIDE DEF ha, hb
  <2>4. \A k \in Sales(T) : k \in Sales(DOMAIN trades) /\ k \in T
    BY <1>2 DEF Sales
  <2>5. \A k \in Sales(DOMAIN trades) : trades[k].day <= end => k \in Sales(T)
    BY <2>2 DEF Sales
  <2> QED BY <1>1, <2>1, <2>3, <2>4, <2>5
<1> DEFINE S == {c \in 0 .. n : Good(h[c], g[c], c)}
<1>9. 0 \in S
  <2>1. h[0] \in Matchings /\ g[0] \in Matchings
    BY <1>7 DEF Agree
  <2> QED BY <1>1, <1>4, <1>7, <2>1
<1>10. ASSUME NEW c \in 1 .. n, c - 1 \in S PROVE c \in S
  <2> DEFINE d == c - 1
  <2>1. /\ d \in 0 .. LastDay /\ d + 1 = c /\ c \in 0 .. n /\ d \in Nat /\ c \in Nat
        /\ Good(h[d], g[d], d)
    BY <1>1, <1>10, FillsAreTyped
  <2>2. /\ h[c] = IF d \in DaysLeft(DOMAIN trades) THEN DayOfSales(DOMAIN trades, h[d], d) ELSE h[d]
        /\ g[c] = IF d \in DaysLeft(T) THEN DayOfSales(T, g[d], d) ELSE g[d]
    BY <1>5, <1>6 DEF IsHmrcRun
  <2> HIDE DEF d
  <2>3. CASE d <= end
    <3>1. Agree(h[d], g[d], T) /\ d \in 0 .. end
      BY <1>1, <2>1, <2>3
    <3>2. Agree(h[c], g[c], T)
      <4>1. CASE d \in DaysLeft(T)
        <5>1. Agree(DayOfSales(DOMAIN trades, h[d], d), DayOfSales(T, g[d], d), T)
          BY <3>1, DayAgrees DEF T
        <5> QED BY <1>8, <2>2, <3>1, <4>1, <5>1
      <4>2. CASE d \notin DaysLeft(T)
        BY <1>8, <2>2, <3>1, <4>2
      <4> QED BY <4>1, <4>2
    <3>3. h[c] \in Matchings /\ g[c] \in Matchings
      BY <3>2 DEF Agree
    <3>4. Good(h[c], g[c], c)
      BY <1>4, <3>2, <3>3
    <3> QED BY <2>1, <3>4
  <2>4. CASE ~(d <= end)
    <3>1. \A x \in Pairs : SaleDay(x) <= end => x \notin DayPairs(d)
      BY <1>1, <1>3, <2>1, <2>4 DEF DayPairs
    <3>2. h[c] \in Matchings /\ \A x \in Pairs : SaleDay(x) <= end => h[c].out[x] = h[d].out[x]
      <4>1. Follows(h[d], DayOfSales(DOMAIN trades, h[d], d), DayPairs(d))
        BY <2>1, DayFollows
      <4> QED BY <2>1, <2>2, <3>1, <4>1 DEF Follows
    <3>3. g[c] \in Matchings /\ \A x \in Pairs : SaleDay(x) <= end => g[c].out[x] = g[d].out[x]
      <4>1. Follows(g[d], DayOfSales(T, g[d], d), DayPairs(d))
        BY <1>2, <2>1, DayFollows
      <4> QED BY <2>1, <2>2, <3>1, <4>1 DEF Follows
    <3>4. ~(c <= end + 1)
      BY <1>1, <2>1, <2>4
    <3>5. Good(h[c], g[c], c)
      BY <2>1, <3>2, <3>3, <3>4
    <3> QED BY <2>1, <3>5
  <2> QED BY <2>3, <2>4
<1>11. Good(h[n], g[n], n)
  <2> HIDE DEF Good, n
  <2>1. \A c \in 0 .. n : c \in S
    <3> HIDE DEF S
    <3> QED BY <1>1, <1>9, <1>10, StepByStep
  <2> QED BY <1>1, <2>1
<1> QED BY <1>5, <1>6, <1>11 DEF IsHmrcRun, T

\* And so are they first in, first out: a later sale takes nothing from an earlier one.
LEMMA FifoPeriodAgrees ==
  ASSUME MatchingTypeOK, FillsInOrder, NEW end \in 0 .. LastDay
  PROVE  \A x \in Pairs : SaleDay(x) <= end =>
           FifoMatches(LoadedFifo(end)).out[x] = FifoMatches(DOMAIN trades).out[x]
<1> DEFINE T == LoadedFifo(end) n == Len(trades)
           ra == Older(DOMAIN trades) rb == Older(T)
           Of(r, k) == {j \in DOMAIN trades : <<k, j>> \in r}
           Good(a, b, k) ==
             /\ a \in Matchings /\ b \in Matchings
             /\ \A x \in Pairs : x[1] \in T => a.out[x] = b.out[x]
             /\ k = 0 \/ k \in T => Agree(a, b, T)
<1>1. /\ end \in Nat /\ n \in Nat /\ DOMAIN trades = 1 .. n
      /\ \A k \in DOMAIN trades : trades[k].day \in Nat
  BY FillsAreTyped
<1>2. T \in SUBSET DOMAIN trades /\ \A k \in DOMAIN trades : trades[k].day <= end <=> k \in T
  BY DEF LoadedFifo
<1>3. \A i \in DOMAIN trades, k \in T : i <= k => i \in T
  BY <1>1, <1>2 DEF FillsInOrder
<1> HIDE DEF T
<1>4. \A x \in Pairs : SaleDay(x) <= end => x[1] \in T
  BY <1>2 DEF Pairs, SaleDay
<1>5. /\ ra \in SUBSET (Sales(DOMAIN trades) \X Purchases(DOMAIN trades))
      /\ rb \in SUBSET (Sales(DOMAIN trades) \X Purchases(DOMAIN trades))
  BY <1>2, ReplacementsAreRule
<1>6. /\ \A k \in T : Of(ra, k) = Of(rb, k) /\ Of(rb, k) \subseteq T
      /\ \A k : k \notin T => Of(rb, k) = {}
  <2>1. \A k, j : <<k, j>>[1] = k /\ <<k, j>>[2] = j
    OBVIOUS
  <2>2. \A k, j : <<k, j>> \in ra <=> k \in Sales(DOMAIN trades) /\ j \in Purchases(DOMAIN trades) /\ j < k
    BY DEF Older
  <2>3. \A k, j : <<k, j>> \in rb <=> k \in Sales(T) /\ j \in Purchases(T) /\ j < k
    BY DEF Older
  <2>4. \A k \in T : k \in Sales(DOMAIN trades) <=> k \in Sales(T)
    BY <1>2 DEF Sales
  <2>5. \A k \in T, j \in DOMAIN trades : j < k => j \in T
    BY <1>1, <1>2, <1>3
  <2>6. \A k \in T, j \in DOMAIN trades : j < k => (j \in Purchases(DOMAIN trades) <=> j \in Purchases(T))
    BY <2>5 DEF Purchases
  <2>7. \A k \in Sales(T) : k \in T
    BY DEF Sales
  <2>8. \A j \in Purchases(T) : j \in T
    BY DEF Purchases
  <2> HIDE DEF ra, rb
  <2>9. \A k \in T, j \in DOMAIN trades : <<k, j>> \in ra <=> <<k, j>> \in rb
    BY <2>2, <2>3, <2>4, <2>6
  <2> QED BY <2>3, <2>7, <2>8, <2>9
<1>7. /\ \A k : Of(ra, k) \in SUBSET Purchases(DOMAIN trades) /\ (Of(ra, k) # {} => k \in Sales(DOMAIN trades))
      /\ \A k : Of(rb, k) \in SUBSET Purchases(DOMAIN trades) /\ (Of(rb, k) # {} => k \in Sales(DOMAIN trades))
  <2> HIDE DEF ra, rb
  <2> QED BY <1>5
<1>8. FifoMatches(DOMAIN trades) = MatchAll(Unmatched, ra) /\ FifoMatches(T) = MatchAll(Unmatched, rb)
  BY DEF FifoMatches
<1> HIDE DEF ra, rb
<1>9. PICK h \in [0 .. n -> Matchings] :
        /\ h[0] = Unmatched /\ MatchAll(Unmatched, ra) = h[n]
        /\ \A k \in 1 .. n : h[k] = MatchSale(h[k - 1], k, {j \in DOMAIN trades : <<k, j>> \in ra})
  BY <1>5, UnmatchedIsTyped, MatchAllByStep
<1>10. PICK g \in [0 .. n -> Matchings] :
        /\ g[0] = Unmatched /\ MatchAll(Unmatched, rb) = g[n]
        /\ \A k \in 1 .. n : g[k] = MatchSale(g[k - 1], k, {j \in DOMAIN trades : <<k, j>> \in rb})
  BY <1>5, UnmatchedIsTyped, MatchAllByStep
<1> DEFINE S == {k \in 0 .. n : Good(h[k], g[k], k)}
<1>11. 0 \in S
  <2>1. Agree(Unmatched, Unmatched, T)
    BY UnmatchedIsTyped, AgreeReflexive
  <2> QED BY <1>1, <1>9, <1>10, <2>1, UnmatchedIsTyped
<1>12. ASSUME NEW k \in 1 .. n, k - 1 \in S PROVE k \in S
  <2>1. k \in 0 .. n /\ k \in DOMAIN trades /\ Good(h[k - 1], g[k - 1], k - 1)
    BY <1>1, <1>12
  <2>2. h[k] = MatchSale(h[k - 1], k, Of(ra, k)) /\ g[k] = MatchSale(g[k - 1], k, Of(rb, k))
    BY <1>9, <1>10
  <2>3. h[k - 1] \in Matchings /\ g[k - 1] \in Matchings
    BY <2>1
  <2> HIDE DEF Of, n, S
  <2>4. CASE k \in T
    <3>1. k - 1 = 0 \/ k - 1 \in T
      <4>1. k - 1 = 0 \/ (k - 1 \in DOMAIN trades /\ k - 1 <= k)
        BY <1>1
      <4> QED BY <1>3, <2>4, <4>1
    <3>2. Agree(h[k - 1], g[k - 1], T)
      BY <2>1, <3>1
    <3>3. Agree(MatchSale(h[k - 1], k, Of(rb, k)), MatchSale(g[k - 1], k, Of(rb, k)), T)
      BY <1>2, <1>6, <1>7, <2>4, <3>2, SaleAgrees
    <3>4. Agree(h[k], g[k], T)
      BY <1>6, <2>2, <2>4, <3>3
    <3>5. Good(h[k], g[k], k)
      BY <3>4 DEF Agree
    <3> QED BY <2>1, <3>5 DEF S
  <2>5. CASE k \notin T
    <3>1. SaleServed(h[k - 1], h[k], k, Of(ra, k)) /\ SaleServed(g[k - 1], g[k], k, Of(rb, k))
      BY <1>7, <2>1, <2>2, <2>3, MatchSaleFollows
    <3>2. g[k] = g[k - 1]
      BY <1>6, <2>5, <3>1 DEF SaleServed
    <3>3. h[k] \in Matchings /\ \A x \in Pairs : x[1] \in T => h[k].out[x] = h[k - 1].out[x]
      BY <2>5, <3>1 DEF SaleServed, Follows
    <3>4. k # 0
      BY <1>1
    <3>5. Good(h[k], g[k], k)
      BY <2>1, <2>3, <2>5, <3>2, <3>3, <3>4
    <3> QED BY <2>1, <3>5 DEF S
  <2> QED BY <2>4, <2>5
<1>13. Good(h[n], g[n], n)
  <2> HIDE DEF Good, n
  <2>1. \A k \in 0 .. n : k \in S
    <3> HIDE DEF S
    <3> QED BY <1>1, <1>11, <1>12, StepByStep
  <2> QED BY <1>1, <2>1
<1> QED BY <1>4, <1>8, <1>9, <1>10, <1>13 DEF T

\* A report has the matches of the whole history (tax.rs, push_matched_position).
LEMMA PeriodLeavesMatches ==
  ASSUME MatchingTypeOK, FillsInOrder PROVE PeriodDoesNotMatter(HmrcMatches(DOMAIN trades).out)
<1> SUFFICES ASSUME NEW end \in 0 .. LastDay, NEW start
             PROVE  /\ HmrcPeriod(start, end) = Reported(HmrcMatches(DOMAIN trades).out, start, end)
                    /\ FifoPeriod(start, end) = Reported(FifoMatches(DOMAIN trades).out, start, end)
  BY DEF PeriodDoesNotMatter
<1> DEFINE own == {y \in Pairs : trades[y[1]].day \in start .. end}
<1>1. \A x \in own : x \in Pairs /\ SaleDay(x) <= end
  BY DEF SaleDay
<1>2. \A x \in own : HmrcMatches(Loaded(end)).out[x] = HmrcMatches(DOMAIN trades).out[x]
  BY <1>1, HmrcPeriodAgrees
<1>3. \A x \in own : FifoMatches(LoadedFifo(end)).out[x] = FifoMatches(DOMAIN trades).out[x]
  BY <1>1, FifoPeriodAgrees
<1>4. HmrcPeriod(start, end) = Reported(HmrcMatches(DOMAIN trades).out, start, end)
  BY <1>2 DEF HmrcPeriod, Reported
<1>5. FifoPeriod(start, end) = Reported(FifoMatches(DOMAIN trades).out, start, end)
  BY <1>3 DEF FifoPeriod, Reported
<1> QED BY <1>4, <1>5

\* One more fill is stored after the others.
LEMMA TradedStores ==
  ASSUME MatchingTypeOK, NEW d \in 0 .. LastDay, NEW side \in {"buy", "sell"}, NEW qty \in Amounts,
         trades' = Append(trades, [day |-> d, side |-> side, qty |-> qty])
  PROVE  /\ MatchingTypeOK' /\ Len(trades) \in Nat /\ d \in Nat
         /\ DOMAIN trades = 1 .. Len(trades) /\ DOMAIN trades' = 1 .. (Len(trades) + 1)
         /\ trades'[Len(trades) + 1].day = d
         /\ \A i \in 1 .. Len(trades) : trades'[i] = trades[i]
<1> DEFINE S == [day : 0 .. LastDay, side : {"buy", "sell"}, qty : Amounts]
           e == [day |-> d, side |-> side, qty |-> qty]
<1>1. e \in S /\ e.day = d /\ trades \in Seq(S) /\ trades' = Append(trades, e)
  BY DEF MatchingTypeOK
<1>2. d \in Nat
  BY FillsAreTyped
<1>3. MatchingTypeOK' <=> trades' \in Seq(S)
  BY DEF MatchingTypeOK
<1> HIDE DEF S, e
<1>4. /\ trades' \in Seq(S) /\ Len(trades) \in Nat
      /\ DOMAIN trades = 1 .. Len(trades) /\ DOMAIN trades' = 1 .. (Len(trades) + 1)
      /\ trades'[Len(trades) + 1] = e
      /\ \A i \in 1 .. Len(trades) : trades'[i] = trades[i]
  BY <1>1
<1> QED BY <1>1, <1>2, <1>3, <1>4

\* The invariant: fills are stored in the order of their days.
MatchingInv == MatchingTypeOK /\ FillsInOrder

\* It stays so: a fill is traded on the day of the last one or later.
LEMMA MatchingInvStep == MatchingInv /\ [Traded]_trades => MatchingInv'
<1> SUFFICES ASSUME MatchingInv, [Traded]_trades PROVE MatchingInv'
  OBVIOUS
<1>1. CASE UNCHANGED trades
  BY <1>1 DEF MatchingInv, MatchingTypeOK, FillsInOrder
<1>2. CASE Traded
  <2>1. PICK d \in 0 .. LastDay, side \in {"buy", "sell"}, qty \in Amounts :
          /\ \A i \in DOMAIN trades : trades[i].day <= d
          /\ trades' = Append(trades, [day |-> d, side |-> side, qty |-> qty])
    BY <1>2 DEF Traded
  <2> DEFINE n == Len(trades)
  <2>2. /\ MatchingTypeOK' /\ n \in Nat /\ d \in Nat
        /\ DOMAIN trades = 1 .. n /\ DOMAIN trades' = 1 .. (n + 1)
        /\ trades'[n + 1].day = d /\ \A i \in 1 .. n : trades'[i] = trades[i]
    BY <2>1, TradedStores DEF MatchingInv
  <2> HIDE DEF n
  <2>3. ASSUME NEW i \in 1 .. (n + 1), NEW j \in 1 .. (n + 1), i <= j
        PROVE  trades'[i].day <= trades'[j].day
    <3>1. CASE j = n + 1
      <4>1. CASE i = n + 1
        BY <2>2, <3>1, <4>1
      <4>2. CASE i # n + 1
        <5>1. i \in 1 .. n
          BY <2>2, <4>2
        <5>2. trades'[i] = trades[i] /\ trades'[j].day = d
          BY <2>2, <3>1, <5>1
        <5>3. trades[i].day <= d
          BY <2>1, <2>2, <5>1
        <5> QED BY <5>2, <5>3
      <4> QED BY <4>1, <4>2
    <3>2. CASE j # n + 1
      <4>1. i \in 1 .. n /\ j \in 1 .. n
        BY <2>2, <2>3, <3>2
      <4>2. trades'[i] = trades[i] /\ trades'[j] = trades[j]
        BY <2>2, <4>1
      <4>3. trades[i].day <= trades[j].day
        BY <2>2, <2>3, <4>1 DEF MatchingInv, FillsInOrder
      <4> QED BY <4>2, <4>3
    <3> QED BY <3>1, <3>2
  <2>4. FillsInOrder'
    BY <2>2, <2>3 DEF FillsInOrder
  <2> QED BY <2>2, <2>4 DEF MatchingInv
<1> QED BY <1>1, <1>2

\* The fills of a report are records of the broker (tax.rs, provider_fill_activities),
\* in the order of their transactions.
THEOREM MatchingInvariant == MatchingSpec => []MatchingInv
<1>1. MatchingInit => MatchingInv
  BY EmptySeq DEF MatchingInit, MatchingInv, MatchingTypeOK, FillsInOrder
<1> QED BY <1>1, MatchingInvStep, PTL DEF MatchingSpec

\* So they keep their types.
THEOREM MatchingTypeCorrect == MatchingSpec => []MatchingTypeOK
<1>1. MatchingInv => MatchingTypeOK
  BY DEF MatchingInv
<1> QED BY <1>1, MatchingInvariant, PTL

\* Sales find their purchases in the order of the law, no share is identified twice,
\* and a report of any period says of its sales what the whole history says
\* (tax.rs, load_gb_share_matching_positions and load_provider_fill_positions).
THEOREM SharesIdentified == MatchingSpec => []SharesAreIdentified
<1>1. MatchingInv => SharesAreIdentified
  BY InOrder, PeriodLeavesMatches DEF MatchingInv, SharesAreIdentified
<1> QED BY <1>1, MatchingInvariant, PTL
=============================================================================
