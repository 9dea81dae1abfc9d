------------------------------- MODULE Broker -------------------------------
(***************************************************************************)
(* The broker's side of one account, as src/auto.rs uses it: orders that   *)
(* are accepted, fill share by share or end unfilled, and the shares and   *)
(* cash that result.  A sell that no shares cover is refused (as the fake  *)
(* server of fake_alpaca.rs does) or leaves the account with a short       *)
(* position (the comment in entry_order_is_unfilled_or_active of auto.rs   *)
(* tells of those).  Every share costs one unit of cash.                   *)
(***************************************************************************)
EXTENDS Integers, Sequences, FiniteSets, FiniteSetsExt

CONSTANTS
  Symbols,
  Cash,       \* what the account starts with
  MaxOrders,  \* bound on orders
  MayShort    \* a sell that no shares cover is accepted, not refused

ASSUME BrokerAssumption ==
  IsFiniteSet(Symbols) /\ Cash \in Nat /\ MaxOrders \in Nat /\ MayShort \in BOOLEAN

VARIABLES
  orders,  \* all orders, in order of submission; an index is an order id
  shares,  \* per symbol; negative when short
  sold,    \* per symbol, how many shares sells have filled
  cash

brokerVars == <<orders, shares, sold, cash>>

Order == [sym : Symbols, side : {"buy", "sell"}, qty : Nat \ {0},
          filled : Nat, live : BOOLEAN]

Unfilled(os, side, s) ==
  LET ids == {i \in DOMAIN os : os[i].live /\ os[i].side = side /\ os[i].sym = s}
  IN  MapThenSumSet(LAMBDA i : os[i].qty - os[i].filled, ids)

TotalUnfilled(os, side) == MapThenSumSet(LAMBDA s : Unfilled(os, side, s), Symbols)

BrokerInit ==
  /\ orders = <<>>
  /\ shares = [s \in Symbols |-> 0]
  /\ sold = [s \in Symbols |-> 0]
  /\ cash = Cash

\* Shares that no live sell order claims.
Free(s) == shares[s] - Unfilled(orders, "sell", s)

\* POST /orders
Place(s, side, qty) ==
  /\ Len(orders) < MaxOrders
  /\ side = "sell" => MayShort \/ Free(s) >= qty
  /\ orders' = Append(orders, [sym |-> s, side |-> side, qty |-> qty, filled |-> 0, live |-> TRUE])
  /\ UNCHANGED <<shares, sold, cash>>

\* One share of an order is executed.
Fill(i) ==
  LET o == orders[i]
      d == IF o.side = "buy" THEN 1 ELSE -1
  IN  /\ o.live
      /\ orders' = [orders EXCEPT ![i].filled = @ + 1, ![i].live = o.filled + 1 < o.qty]
      /\ shares' = [shares EXCEPT ![o.sym] = @ + d]
      /\ sold' = [sold EXCEPT ![o.sym] = IF o.side = "sell" THEN @ + 1 ELSE @]
      /\ cash' = cash - d

\* What is left of an order expires (time_in_force day), is canceled or is
\* rejected.
Expire(i) ==
  /\ orders[i].live
  /\ orders' = [orders EXCEPT ![i].live = FALSE]
  /\ UNCHANGED <<shares, sold, cash>>

\* The owner of the account sells a share at the broker.
SellByHand(s) ==
  /\ Len(orders) < MaxOrders
  /\ Free(s) >= 1
  /\ orders' = Append(orders, [sym |-> s, side |-> "sell", qty |-> 1, filled |-> 1, live |-> FALSE])
  /\ shares' = [shares EXCEPT ![s] = @ - 1]
  /\ sold' = [sold EXCEPT ![s] = @ + 1]
  /\ cash' = cash + 1

BrokerTypeOK ==
  /\ orders \in Seq(Order) /\ Len(orders) <= MaxOrders
  /\ shares \in [Symbols -> Int]
  /\ sold \in [Symbols -> Nat]
  /\ cash \in Int

=============================================================================
