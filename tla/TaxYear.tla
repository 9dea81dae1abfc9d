------------------------------ MODULE TaxYear ------------------------------
(* The tax estimate of a year's disposals (src/tax.rs).  For a Brazilian     *)
(* resident the months are closed in order: a month's net is lowered by the  *)
(* losses carried from earlier ones, day trades and normal trades apart, and *)
(* a month of small normal sales counts for nothing.  The other countries    *)
(* net the year's two terms and put the rest on top of the income, in        *)
(* brackets.  Amounts are whole units; rates are per cent.                   *)
EXTENDS Integers, Sequences

CONSTANTS Buckets,     \* what a month may have: its normal sales, its nets
          ExemptSales, \* a month's normal sales up to this are exempt
          Months       \* the months of the period

ASSUME TaxAssumption ==
  /\ Buckets \subseteq [sales : Nat, normal : Int, dayTrades : Int]
  /\ ExemptSales \in Nat
  /\ Months \in Nat

VARIABLES closed,      \* months closed so far
          normalYear,  \* normal trades: what is taxable so far, and the loss carried
          dayYear,     \* day trades: the same
          normalRun,   \* the sum of the nets that counted, and its highest value
          dayRun       \* the same of day trades

taxVars == <<closed, normalYear, dayYear, normalRun, dayRun>>

NothingYet == [taxable |-> 0, carry |-> 0]
NoRun == [sum |-> 0, high |-> 0]

TaxInit ==
  /\ closed = 0
  /\ normalYear = NothingYet
  /\ dayYear = NothingYet
  /\ normalRun = NoRun
  /\ dayRun = NoRun

\* Mutant of Adjusted: a loss is still carried after a gain has used it up.
AdjustedKeepingCarry(year, net) ==
  LET rest == net - year.carry
  IN IF rest > 0
     THEN [year EXCEPT !.taxable = @ + rest]
     ELSE [year EXCEPT !.carry = -rest]

\* Mutant of Adjusted: the loss that is left is carried on with its sign.
AdjustedSigned(year, net) ==
  LET rest == net - year.carry
  IN IF rest > 0
     THEN [taxable |-> year.taxable + rest, carry |-> 0]
     ELSE [taxable |-> year.taxable, carry |-> rest]

\* One month's net against the losses carried: a gain that is left is taxable, a
\* loss that is left is carried on.
Adjusted(year, net) ==
  LET rest == net - year.carry
  IN IF rest > 0
     THEN [taxable |-> year.taxable + rest, carry |-> 0]
     ELSE [taxable |-> year.taxable, carry |-> -rest]

\* The running sum, and the highest it has been.
RunOn(run, net) ==
  [sum |-> run.sum + net,
   high |-> IF run.sum + net > run.high THEN run.sum + net ELSE run.high]

\* Small sales exempt a gain, and lose a loss.
IsExempt(bucket) == bucket.sales <= ExemptSales /\ bucket.normal # 0

\* brazil_tax_computation's loop over the months.
MonthCloses(bucket) ==
  /\ closed < Months
  /\ closed' = closed + 1
  /\ dayYear' = Adjusted(dayYear, bucket.dayTrades)
  /\ dayRun' = RunOn(dayRun, bucket.dayTrades)
  /\ IF IsExempt(bucket)
     THEN UNCHANGED <<normalYear, normalRun>>
     ELSE /\ normalYear' = Adjusted(normalYear, bucket.normal)
          /\ normalRun' = RunOn(normalRun, bucket.normal)

TaxNext == \E bucket \in Buckets : MonthCloses(bucket)
TaxSpec == TaxInit /\ [][TaxNext]_taxVars

-----------------------------------------------------------------------------
TaxTypeOK ==
  /\ closed \in 0..Months
  /\ {normalYear, dayYear} \subseteq [taxable : Nat, carry : Nat]
  /\ {normalRun, dayRun} \subseteq [sum : Int, high : Nat]

\* Each loss offsets later gains of its own class, once and to the last unit: what is
\* taxable is the highest value of the running sum of the months that count, and what
\* is carried is how far the sum lies under it (tax.rs, brazil_tax_computation).
OffsetsOnce(year, run) ==
  /\ year.taxable = run.high
  /\ year.carry = run.high - run.sum
LossesOffsetOnce == OffsetsOnce(normalYear, normalRun) /\ OffsetsOnce(dayYear, dayRun)

-----------------------------------------------------------------------------
(* The estimates of the other countries.  A bracket is its upper end and its *)
(* rate; the last one has no end.                                            *)
NoEnd == -1
UpTo(income, bracket) ==
  IF bracket.upper = NoEnd \/ income <= bracket.upper THEN income ELSE bracket.upper
OrZero(amount) == IF amount > 0 THEN amount ELSE 0
LesserOf(a, b) == IF a < b THEN a ELSE b

\* progressive_tax: from bracket i on, with what lies below it already taxed.
ProgressiveTax(income, brackets) ==
  LET tax[i \in 1..Len(brackets), below \in Nat] ==
        LET b == brackets[i]
            part == OrZero(UpTo(income, b) - below) * b.rate
        IN IF b.upper = NoEnd \/ income <= b.upper \/ i = Len(brackets)
           THEN part
           ELSE part + tax[i + 1, b.upper]
  IN IF income <= 0 THEN 0 ELSE tax[1, 0]

\* capital_gain_tax: the gain on top of the income.
CapitalGainTax(income, gain, brackets) ==
  IF gain <= 0 THEN 0
  ELSE ProgressiveTax(OrZero(income) + gain, brackets) - ProgressiveTax(income, brackets)

\* net_taxable: the loss of one term lowers the gain of the other.
NetTaxable(short, long) ==
  IF short >= 0 /\ long >= 0 THEN [short |-> short, long |-> long, loss |-> 0]
  ELSE IF short >= 0 THEN [short |-> OrZero(short + long), long |-> 0,
                           loss |-> LesserOf(short + long, 0)]
  ELSE IF long >= 0 THEN [short |-> 0, long |-> OrZero(short + long),
                          loss |-> LesserOf(short + long, 0)]
  ELSE [short |-> 0, long |-> 0, loss |-> short + long]

\* niit_tax_for_trading_gains
InvestmentTax(table, income, net) ==
  LET gains == OrZero(net.short + net.long)
  IN LesserOf(gains, OrZero(income + gains - table.threshold)) * table.investmentRate

\* calculate_estimate: United States, Singapore, Great Britain.
EstimateUs(table, income, short, long) ==
  LET net == NetTaxable(short, long)
  IN OrZero(ProgressiveTax(income + net.short, table.ordinary)
              - ProgressiveTax(income, table.ordinary))
       + CapitalGainTax(income + net.short, net.long, table.gains)
       + InvestmentTax(table, income, net)
EstimateSg(table, income, short, long) ==
  OrZero(ProgressiveTax(income + OrZero(short + long), table.ordinary)
           - ProgressiveTax(income, table.ordinary))
EstimateGb(table, income, short, long) ==
  CapitalGainTax(income, OrZero(OrZero(short + long) - table.exempt), table.gains)

-----------------------------------------------------------------------------
(* What the estimates should be, unit by unit.                              *)
\* The rate of one unit of income, the n-th.
RateOfUnit(n, brackets) ==
  LET holds == {i \in 1..Len(brackets) : brackets[i].upper = NoEnd \/ n <= brackets[i].upper}
  IN brackets[CHOOSE i \in holds : \A j \in holds : i <= j].rate

UnitByUnit(from, amount, brackets) ==
  LET tax[n \in 0..amount] ==
        IF n = 0 THEN 0 ELSE tax[n - 1] + RateOfUnit(from + n, brackets)
  IN tax[amount]

\* On a table and an income, every pair of net terms is taxed unit by unit on top of
\* the income, short-term gains first, in each term's own brackets; the terms net to
\* their sum, never with both a gain and a loss left; the investment tax is of gains
\* and of the excess only (tax.rs, calculate_estimate and what it calls).
TaxIsByTheBracket(table, income, nets) ==
  \A short \in nets, long \in nets :
    LET net == NetTaxable(short, long)
        total == OrZero(short + long)
    IN /\ net.short + net.long + net.loss = short + long
       /\ net.short + net.long = 0 \/ net.loss = 0
       /\ EstimateUs(table, income, short, long) =
            UnitByUnit(income, net.short, table.ordinary)
              + UnitByUnit(income + net.short, net.long, table.gains)
              + Len(SelectSeq([n \in 1..total |-> n],
                              LAMBDA n : income + n > table.threshold))
                  * table.investmentRate
       /\ EstimateSg(table, income, short, long) = UnitByUnit(income, total, table.ordinary)
       /\ EstimateGb(table, income, short, long) =
            UnitByUnit(income, OrZero(total - table.exempt), table.gains)
=============================================================================
