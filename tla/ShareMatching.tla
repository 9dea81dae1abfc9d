--------------------------- MODULE ShareMatching ---------------------------
(***************************************************************************)
(* Which shares a sale disposed of, src/tax.rs: the identification of the  *)
(* United Kingdom (load_gb_share_matching_positions and its two matching   *)
(* functions) and the first-in-first-out lots of the other countries       *)
(* (load_provider_fill_positions), for one symbol and one set of accounts. *)
(*                                                                         *)
(* An estimate of a period loads the fills up to its end - and, in the     *)
(* United Kingdom, of the thirty days after it - and matches all of them;  *)
(* only the matches of the period's own sales are reported.                *)
(***************************************************************************)
EXTENDS Integers, Sequences, Functions

CONSTANTS
  Later,      \* days after a sale whose purchases it is matched with: 30
  Amounts,    \* quantities of a fill
  MaxTrades,  \* bound on the fills
  LastDay     \* bound on the clock

ASSUME MatchingAssumption ==
  Later \in Nat /\ Amounts \subseteq Nat \ {0} /\ MaxTrades \in Nat /\ LastDay \in Nat

VARIABLES trades  \* provider_fill_activities, ordered by transaction_time

MatchingInit == trades = <<>>

\* A sync stores one more fill; the later of two is traded no earlier.
Traded ==
  /\ Len(trades) < MaxTrades
  /\ \E d \in 0 .. LastDay, side \in {"buy", "sell"}, qty \in Amounts :
       /\ \A i \in DOMAIN trades : trades[i].day <= d
       /\ trades' = Append(trades, [day |-> d, side |-> side, qty |-> qty])

MatchingSpec == MatchingInit /\ [][Traded]_trades

----------------------------------------------------------------------------
(* Matching *)

\* What is left of each fill, what is in the Section 104 pool, and how much of each
\* sale is matched with each purchase and with the pool.
Pool == 0
Pairs == (DOMAIN trades) \X (DOMAIN trades \cup {Pool})
Unmatched ==
  [left |-> [k \in DOMAIN trades |-> trades[k].qty], pool |-> 0, out |-> [x \in Pairs |-> 0]]

Sales(T) == {k \in T : trades[k].side = "sell"}
Purchases(T) == {k \in T : trades[k].side = "buy"}

LessOf(m, n) == IF m < n THEN m ELSE n

\* match_buy_lots_to_sell(), for one sale and one purchase.
Match(m, sale, buy) ==
  LET qty == LessOf(m.left[sale], m.left[buy])
  IN  [left |-> [m.left EXCEPT ![sale] = @ - qty, ![buy] = @ - qty],
       pool |-> m.pool,
       out  |-> [m.out EXCEPT ![<<sale, buy>>] = @ + qty]]

\* Each sale in turn, and for each of them its purchases in turn, by a rule that
\* says which purchases a sale may be matched with.
MatchSale(m, sale, buys) ==
  LET after[j \in 0 .. Len(trades)] ==
        IF j = 0 THEN m
        ELSE IF j \in buys THEN Match(after[j - 1], sale, j) ELSE after[j - 1]
  IN  after[Len(trades)]

MatchAll(m, rule) ==
  LET after[k \in 0 .. Len(trades)] ==
        IF k = 0 THEN m ELSE MatchSale(after[k - 1], k, {j \in DOMAIN trades : <<k, j>> \in rule})
  IN  after[Len(trades)]

SameDay(T) ==
  {x \in Sales(T) \X Purchases(T) : trades[x[2]].day = trades[x[1]].day}

\* The purchases after the sales of a day, and not too long after them.
Replacements(T, d) ==
  {x \in Sales(T) \X Purchases(T) :
     trades[x[1]].day = d /\ trades[x[2]].day > d /\ trades[x[2]].day <= d + Later}

\* The shares bought before the sale.
Older(T) == {x \in Sales(T) \X Purchases(T) : x[2] < x[1]}

\* What is left of the purchases before a day goes into the Section 104 pool.
Earlier(T, d) == {j \in Purchases(T) : trades[j].day < d}
Pooled(T, m, d) ==
  [left |-> [k \in DOMAIN trades |-> IF k \in Earlier(T, d) THEN 0 ELSE m.left[k]],
   pool |-> m.pool + SumFunctionOnSet(m.left, Earlier(T, d)),
   out  |-> m.out]

\* match_section104_pool_to_sell(), for one sale and for those of a day in turn.
FromPool(m, sale) ==
  LET qty == LessOf(m.left[sale], m.pool)
  IN  [left |-> [m.left EXCEPT ![sale] = @ - qty],
       pool |-> m.pool - qty,
       out  |-> [m.out EXCEPT ![<<sale, Pool>>] = @ + qty]]

AllFromPool(T, m, d) ==
  LET after[k \in 0 .. Len(trades)] ==
        IF k = 0 THEN m
        ELSE IF k \in Sales(T) /\ trades[k].day = d THEN FromPool(after[k - 1], k) ELSE after[k - 1]
  IN  after[Len(trades)]

\* Mutant of DayOfSales: the pool comes before the replacements.
DayOfSalesPoolFirst(T, m, d) == MatchAll(AllFromPool(T, Pooled(T, m, d), d), Replacements(T, d))

\* One day that has sales: its replacements, then the pool.
DayOfSales(T, m, d) == AllFromPool(T, Pooled(T, MatchAll(m, Replacements(T, d)), d), d)

\* load_gb_share_matching_positions() over the fills T: the same day first, then
\* the days that have sales left.
HmrcMatches(T) ==
  LET same == MatchAll(Unmatched, SameDay(T))
      days == {trades[k].day : k \in {s \in Sales(T) : same.left[s] > 0}}
      before[d \in 0 .. LastDay + 1] ==
        IF d = 0 THEN same
        ELSE IF d - 1 \in days THEN DayOfSales(T, before[d - 1], d - 1) ELSE before[d - 1]
  IN  before[LastDay + 1]

\* load_provider_fill_positions(): a sale takes the oldest shares bought before it.
FifoMatches(T) == MatchAll(Unmatched, Older(T))

\* Mutant of Loaded: the fills of the period, and none after it.
LoadedToEnd(end) == {k \in DOMAIN trades : trades[k].day <= end}

Loaded(end) == {k \in DOMAIN trades : trades[k].day <= end + Later}

\* push_matched_position() keeps the matches of the period's sales.
Reported(out, start, end) ==
  [x \in {y \in Pairs : trades[y[1]].day \in start .. end} |-> out[x]]

HmrcPeriod(start, end) == Reported(HmrcMatches(Loaded(end)).out, start, end)

LoadedFifo(end) == {k \in DOMAIN trades : trades[k].day <= end}
FifoPeriod(start, end) == Reported(FifoMatches(LoadedFifo(end)).out, start, end)

----------------------------------------------------------------------------
(* Properties *)

MatchingTypeOK ==
  trades \in Seq([day : 0 .. LastDay, side : {"buy", "sell"}, qty : Amounts])

\* The quantity of the matches of a sale by one rule, of a purchase, and of a purchase
\* with the sales of its day and those up to a day.
SaleDay(x) == trades[x[1]].day
BuyDay(x) == trades[x[2]].day
OfSale(k) == {x \in Pairs : x[1] = k}
OfBuy(j) == {x \in Pairs : x[2] = j}
WithSameDay(k) == {x \in OfSale(k) : x[2] # Pool /\ BuyDay(x) = SaleDay(x)}
WithPurchases(k) == {x \in OfSale(k) : x[2] # Pool}
OfBuyUpTo(j, d) == {x \in OfBuy(j) : SaleDay(x) = BuyDay(x) \/ SaleDay(x) <= d}

\* The order of identification: a sale reaches for replacements only when the
\* purchases of its own day are gone, and for the pool only when no earlier
\* or equal sale left any replacement; nothing is taken from the pool that was
\* not bought before the sale; and no purchase is matched beyond its quantity.
IdentifiedInOrder(out) ==
  LET T == DOMAIN trades
      quantity(S) == SumFunctionOnSet(out, S)
  IN  /\ \A j \in Purchases(T) : quantity(OfBuy(j)) <= trades[j].qty
      /\ \A k \in Sales(T) : quantity(OfSale(k)) <= trades[k].qty
      /\ \A x \in SameDay(T) :
           quantity(WithSameDay(x[1])) < trades[x[1]].qty =>
             quantity(OfBuyUpTo(x[2], SaleDay(x))) = trades[x[2]].qty
      /\ \A d \in 0 .. LastDay : \A x \in Replacements(T, d) :
           quantity(WithPurchases(x[1])) < trades[x[1]].qty =>
             quantity(OfBuyUpTo(x[2], d)) = trades[x[2]].qty
      /\ \A d \in 0 .. LastDay :
           quantity({x \in Pairs : x[2] = Pool /\ SaleDay(x) <= d})
             + quantity({x \in Pairs : x[2] \in Earlier(T, d)})
             <= SumFunctionOnSet(Unmatched.left, Earlier(T, d))

\* A report of any period says of its sales what the whole history says of
\* them: the fills that were left out of the load change no match.
PeriodDoesNotMatter(hmrc) ==
  LET fifo == FifoMatches(DOMAIN trades).out
  IN  \A end \in 0 .. LastDay : \A start \in 0 .. end :
        /\ HmrcPeriod(start, end) = Reported(hmrc, start, end)
        /\ FifoPeriod(start, end) = Reported(fifo, start, end)

\* Sales find their purchases in the order of the law (tax.rs,
\* load_gb_share_matching_positions), and whatever the period of the report.
SharesAreIdentified ==
  LET hmrc == HmrcMatches(DOMAIN trades).out
  IN  trades # <<>> => IdentifiedInOrder(hmrc) /\ PeriodDoesNotMatter(hmrc)
=============================================================================
