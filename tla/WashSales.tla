----------------------------- MODULE WashSales -----------------------------
(***************************************************************************)
(* Replacement windows (wash sales, bed and breakfast) of one symbol:      *)
(* src/auto.rs (reconcile_wash_sales_for_tax_universe, record_wash_sale,   *)
(* has_wash_sale_window), src/main.rs (cmd_buy, cmd_sell, cmd_close) and   *)
(* the country floors of src/compliance.rs.                                *)
(*                                                                         *)
(* The paper accounts are one tax universe and the real ones the other.    *)
(* A sync stores the fills of one account and then matches all the stored  *)
(* fills of its universe, in the order of their times: a sale at a loss    *)
(* opens a window in which no account of the universe should buy.          *)
(***************************************************************************)
EXTENDS Integers, Sequences, SequencesExt, FiniteSets

CONSTANTS
  RealAccounts, PaperAccounts,
  Profiles,  \* country rules: whether a loss blocks, and the safety buffer
  Window,    \* days that the law asks for
  Prices, Quantities,
  MaxFills,  \* bound on the fills
  MaxDay     \* bound on the clock

Accounts == RealAccounts \cup PaperAccounts

ASSUME WashAssumption ==
  /\ RealAccounts \cap PaperAccounts = {}
  /\ IsFiniteSet(RealAccounts) /\ IsFiniteSet(PaperAccounts)
  /\ Profiles \subseteq [blocks : BOOLEAN, buffer : Nat]
  /\ Window \in Nat \ {0} /\ MaxFills \in Nat /\ MaxDay \in Nat
  /\ Prices \subseteq Nat \ {0} /\ Quantities \subseteq Nat \ {0}

VARIABLES
  day,
  profile,  \* the tax residency that the configuration names
  fills,    \* the broker's fills of the symbol, in the order of their times
  stored,   \* provider_fill_activities: the fills that syncs have stored
  windows,  \* wash_sale_tracker
  cycle,    \* the account that the auto-trade cycle is at, once it has synced
  told      \* history: the fills that some reconciliation under a blocking
            \* profile had before it

washVars == <<day, profile, fills, stored, windows, cycle, told>>

NoAccount == "none"
Universe(a) == IF a \in PaperAccounts THEN PaperAccounts ELSE RealAccounts
Estimated == 0

WashInit ==
  /\ day = 0 /\ profile \in Profiles
  /\ fills = <<>> /\ stored = {} /\ windows = {} /\ told = {}
  /\ cycle = NoAccount

----------------------------------------------------------------------------
(* The windows *)

\* wash_sale_forward_block_days_for()
Forward == Window + profile.buffer

\* The shares that the matching has left, oldest first, and the losses that
\* it met: a sale takes the first shares there are, and is at a loss when one
\* of them cost more.
Matched(state, k) ==
  LET f    == fills[k]
      n    == Len(state.lots)
      took == IF f.qty < n THEN f.qty ELSE n
  IN  IF f.side = "buy"
      THEN [state EXCEPT !.lots = @ \o [i \in 1 .. f.qty |-> f.price]]
      ELSE [lots   |-> SubSeq(state.lots, took + 1, n),
            losses |-> IF \E i \in 1 .. took : state.lots[i] > f.price
                       THEN state.losses \cup {k} ELSE state.losses]

\* The sales at a loss among some fills, taken in the order of their times.
LossSales(known) ==
  FoldLeftDomain(LAMBDA state, k : IF k \in known THEN Matched(state, k) ELSE state,
                 [lots |-> <<>>, losses |-> {}], fills).losses

WindowOf(k) ==
  [acct |-> fills[k].acct, sale |-> k, end |-> fills[k].day + Forward]

\* reconcile_wash_sales_for_tax_universe(): every loss that has no window yet.
Reconciled(a, known) ==
  LET mine == {k \in known : fills[k].acct \in Universe(a)}
      new  == {k \in LossSales(mine) : ~\E w \in windows : w.sale = k}
  IN  IF profile.blocks THEN windows \cup {WindowOf(k) : k \in new} ELSE windows

\* Mutant of HasWindow: the windows of the account itself.
HasWindowOfAccount(a) ==
  profile.blocks /\ \E w \in windows : w.acct = a /\ w.end >= day

\* has_wash_sale_window(): of any account of the universe.
HasWindow(a) ==
  profile.blocks /\ \E w \in windows : w.acct \in Universe(a) /\ w.end >= day

\* cmd_buy() asks for the windows of a paper account alone.
CliHasWindow(a) ==
  IF a \in PaperAccounts
  THEN profile.blocks /\ \E w \in windows : w.acct = a /\ w.end >= day
  ELSE HasWindow(a)

----------------------------------------------------------------------------
(* Fills *)

SharesOf(a) ==
  FoldLeft(LAMBDA n, f : IF f.acct # a THEN n ELSE IF f.side = "buy" THEN n + f.qty ELSE n - f.qty,
           0, fills)

Fills(a, side) ==
  /\ Len(fills) < MaxFills
  /\ \E price \in Prices, qty \in Quantities :
       /\ side = "sell" => qty <= SharesOf(a)
       /\ fills' = Append(fills, [acct |-> a, side |-> side, price |-> price, qty |-> qty,
                                  day |-> day])

----------------------------------------------------------------------------
(* Steps *)

NextDay ==
  /\ day < MaxDay /\ cycle = NoAccount
  /\ day' = day + 1
  /\ UNCHANGED <<profile, fills, stored, windows, cycle, told>>

\* The configuration names another country, or another buffer.
Moves(p) ==
  /\ profile # p /\ profile' = p
  /\ UNCHANGED <<day, fills, stored, windows, cycle, told>>

\* sync_provider_history_with_context() stores what the account did, and
\* reconciles; one that fails does neither to its end.
Synced(a) ==
  LET known == stored \cup {k \in DOMAIN fills : fills[k].acct = a}
  IN  /\ stored' = known
      /\ windows' = Reconciled(a, known)
      /\ told' = IF profile.blocks THEN told \cup {k \in known : fills[k].acct \in Universe(a)}
                                   ELSE told

Sync(a) ==
  /\ Synced(a)
  /\ UNCHANGED <<day, profile, fills, cycle>>

\* run_auto_cycle() goes from account to account; one whose sync fails is
\* left out.
CycleSync(a) ==
  /\ cycle = NoAccount /\ cycle' = a
  /\ Synced(a)
  /\ UNCHANGED <<day, profile, fills>>

CycleLeaves ==
  /\ cycle # NoAccount /\ cycle' = NoAccount
  /\ UNCHANGED <<day, profile, fills, stored, windows, told>>

\* A row is closed at the price of a stored sale: record_wash_sale() opens a
\* window when the entry of the row cost more, and asks for no other first.
CycleRecords ==
  /\ cycle # NoAccount /\ profile.blocks
  /\ \E k \in stored :
       /\ fills[k].acct = cycle /\ fills[k].side = "sell"
       /\ \E i \in 1 .. k : fills[i].acct = cycle /\ fills[i].side = "buy"
                            /\ fills[i].price > fills[k].price
       /\ windows' = windows \cup {WindowOf(k)}
  /\ UNCHANGED <<day, profile, fills, stored, cycle, told>>

CycleSells ==
  /\ cycle # NoAccount /\ Fills(cycle, "sell")
  /\ UNCHANGED <<day, profile, stored, windows, cycle, told>>

CycleBuys ==
  /\ cycle # NoAccount /\ ~HasWindow(cycle) /\ Fills(cycle, "buy")
  /\ UNCHANGED <<day, profile, stored, windows, cycle, told>>

CliBuys(a) ==
  /\ ~CliHasWindow(a) /\ Fills(a, "buy")
  /\ UNCHANGED <<day, profile, stored, windows, cycle, told>>

\* cmd_sell() and cmd_close() open a window at the price they expect, which
\* may be a loss where the fill is none, or the reverse.
CliSells(a) ==
  /\ Fills(a, "sell")
  /\ \/ /\ profile.blocks
        /\ windows' = windows \cup {[acct |-> a, sale |-> Estimated, end |-> day + Forward]}
     \/ UNCHANGED windows
  /\ UNCHANGED <<day, profile, stored, cycle, told>>

\* On the broker's own page.
OwnerTrades(a) ==
  /\ \E side \in {"buy", "sell"} : Fills(a, side)
  /\ UNCHANGED <<day, profile, stored, windows, cycle, told>>

WashNext ==
  \/ NextDay
  \/ \E p \in Profiles : Moves(p)
  \/ \E a \in Accounts : Sync(a) \/ CycleSync(a) \/ CliBuys(a) \/ CliSells(a) \/ OwnerTrades(a)
  \/ CycleLeaves \/ CycleRecords \/ CycleSells \/ CycleBuys

WashSpec == WashInit /\ [][WashNext]_washVars

----------------------------------------------------------------------------
(* Properties *)

WashTypeOK ==
  /\ day \in 0 .. MaxDay /\ profile \in Profiles
  /\ fills \in Seq([acct : Accounts, side : {"buy", "sell"}, price : Prices, qty : Quantities,
                    day : 0 .. day])
  /\ stored \subseteq DOMAIN fills /\ told \subseteq stored
  /\ windows \subseteq [acct : Accounts, sale : {Estimated} \cup stored, end : Nat]
  /\ cycle \in Accounts \cup {NoAccount}

\* Sold for less than any share of the universe had cost by then: a loss,
\* whichever shares it is matched with.
LossAnyway(k) ==
  /\ fills[k].side = "sell"
  /\ \A i \in 1 .. k : fills[i].side = "buy" /\ fills[i].acct \in Universe(fills[k].acct)
                         => fills[i].price > fills[k].price

\* While losses block, the cycle buys nothing in any account of a universe
\* within the window of the law after a loss that a reconciliation of the
\* universe had before it, and neither does the command line in a real
\* account: whichever account sold, in whatever order the accounts were
\* synced, and whatever country was configured in between.
NoReplacementBuy ==
  [][\A a \in Accounts :
       profile.blocks /\ ((CycleBuys /\ a = cycle) \/ (CliBuys(a) /\ a \in RealAccounts)) =>
         \A k \in told : LossAnyway(k) /\ fills[k].acct \in Universe(a)
                            => fills[k].day + Window < day]_washVars
=============================================================================
