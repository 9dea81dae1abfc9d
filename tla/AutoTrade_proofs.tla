--------------------------- MODULE AutoTrade_proofs ---------------------------
(* Proofs about the auto-trade cycle over the broker (modules AutoTrade and    *)
(* Broker), for any symbols, lots, limits and numbers of orders and faults.    *)
EXTENDS AutoTrade, DataLemmas, SequenceTheorems, FunctionTheorems

\* A function of the first numbers is a list.
LEMMA ListOf ==
  ASSUME NEW c \in Nat, NEW T, NEW f \in [1 .. c -> T]
  PROVE  f \in Seq(T) /\ Len(f) = c /\ DOMAIN f = 1 .. c
OBVIOUS

-----------------------------------------------------------------------------
(* The broker                                                               *)

LiveOrders(os, side, s) == {i \in DOMAIN os : os[i].live /\ os[i].side = side /\ os[i].sym = s}
Left(os) == [i \in DOMAIN os |-> os[i].qty - os[i].filled]

\* Unfilled() is the sum of what the live orders have left.
LEMMA UnfilledIsSum ==
  ASSUME NEW os, NEW side, NEW s
  PROVE  Unfilled(os, side, s) = Total(Left(os), LiveOrders(os, side, s))
<1> DEFINE ids == LiveOrders(os, side, s)
           mine(g) == g = [t \in SUBSET ids |-> IF t = {} THEN 0
                             ELSE (os[AnyOf(t)].qty - os[AnyOf(t)].filled) + g[t \ {AnyOf(t)}]]
<1>1. Unfilled(os, side, s) = (CHOOSE g : mine(g))[ids]
  BY DEF Unfilled, MapThenSumSet, MapThenFoldSet, AnyOf, LiveOrders
<1>2. \A t \in SUBSET ids : t # {} => Left(os)[AnyOf(t)] = os[AnyOf(t)].qty - os[AnyOf(t)].filled
  BY DEF AnyOf, Left, LiveOrders
<1>3. \A g : mine(g) <=> IsSum(g, Left(os), ids)
  BY <1>2 DEF IsSum
<1>4. (CHOOSE g : mine(g)) = (CHOOSE g : IsSum(g, Left(os), ids))
  <2> HIDE DEF mine
  <2> QED BY <1>3
<1> QED BY <1>1, <1>4 DEF Total

\* What order i has of it.
PartOf(os, i, side, s) == IF i \in LiveOrders(os, side, s) THEN Left(os)[i] ELSE 0

\* One order more, or one order in another state.
LEMMA UnfilledMoves ==
  ASSUME NEW os \in Seq(Order), NEW ns \in Seq(Order), NEW i, NEW side, NEW s,
         \A j : j # i => /\ (j \in DOMAIN os <=> j \in DOMAIN ns)
                         /\ (j \in DOMAIN os => os[j] = ns[j])
  PROVE  /\ Unfilled(ns, side, s) - PartOf(ns, i, side, s)
              = Unfilled(os, side, s) - PartOf(os, i, side, s)
         /\ Unfilled(os, side, s) \in Int /\ Unfilled(ns, side, s) \in Int
<1> DEFINE A == LiveOrders(os, side, s)
           B == LiveOrders(ns, side, s)
           rest == A \ {i}
<1>1. IsFiniteSet(A) /\ IsFiniteSet(B) /\ IsFiniteSet(rest)
  <2>1. DOMAIN os = 1 .. Len(os) /\ DOMAIN ns = 1 .. Len(ns) /\ Len(os) \in Nat /\ Len(ns) \in Nat
    OBVIOUS
  <2>2. A \subseteq 1 .. Len(os) /\ B \subseteq 1 .. Len(ns) /\ rest \subseteq A
    BY <2>1 DEF LiveOrders
  <2>3. IsFiniteSet(1 .. Len(os)) /\ IsFiniteSet(1 .. Len(ns))
    BY <2>1, FS_Interval
  <2> HIDE DEF A, B, rest
  <2>4. IsFiniteSet(A) /\ IsFiniteSet(B)
    BY <2>2, <2>3, FS_Subset
  <2> QED BY <2>2, <2>4, FS_Subset
<1>2. /\ \A j \in A : Left(os)[j] \in Int
      /\ \A j \in B : Left(ns)[j] \in Int
  <2>1. \A o \in Order : o.qty - o.filled \in Int
    BY DEF Order
  <2>2. /\ \A j \in DOMAIN os : os[j] \in Order
        /\ \A j \in DOMAIN ns : ns[j] \in Order
    OBVIOUS
  <2> QED BY <2>1, <2>2 DEF Left, LiveOrders
<1>3. rest = B \ {i}
  BY DEF LiveOrders
<1>4. \A j \in rest : Left(os)[j] = Left(ns)[j]
  BY DEF LiveOrders, Left
<1>5. Total(Left(os), rest) = Total(Left(ns), rest)
  BY <1>1, <1>4, SumSame
<1>6. Total(Left(os), A) = PartOf(os, i, side, s) + Total(Left(os), rest)
      /\ Total(Left(os), A) \in Int
  <2>1. CASE i \in A
    <3> HIDE DEF A
    <3>1. Total(Left(os), A) = Left(os)[i] + Total(Left(os), A \ {i}) /\ Total(Left(os), A) \in Int
      BY <1>1, <1>2, <2>1, SumOf
    <3> QED BY <2>1, <3>1 DEF PartOf, A
  <2>2. CASE i \notin A
    <3>1. rest = A /\ PartOf(os, i, side, s) = 0
      BY <2>2 DEF PartOf
    <3> HIDE DEF A, rest
    <3>2. Total(Left(os), A) \in Int
      BY <1>1, <1>2, SumOf
    <3> QED BY <3>1, <3>2
  <2> QED BY <2>1, <2>2
<1>7. Total(Left(ns), B) = PartOf(ns, i, side, s) + Total(Left(ns), rest)
      /\ Total(Left(ns), B) \in Int
  <2>1. CASE i \in B
    <3> HIDE DEF B, rest
    <3>1. Total(Left(ns), B) = Left(ns)[i] + Total(Left(ns), B \ {i}) /\ Total(Left(ns), B) \in Int
      BY <1>1, <1>2, <2>1, SumOf
    <3> QED BY <1>3, <2>1, <3>1 DEF PartOf, B
  <2>2. CASE i \notin B
    <3>1. rest = B /\ PartOf(ns, i, side, s) = 0
      BY <1>3, <2>2 DEF PartOf
    <3> HIDE DEF B, rest
    <3>2. Total(Left(ns), B) \in Int
      BY <1>1, <1>2, SumOf
    <3> QED BY <3>1, <3>2
  <2> QED BY <2>1, <2>2
<1>8. Unfilled(os, side, s) = Total(Left(os), A) /\ Unfilled(ns, side, s) = Total(Left(ns), B)
  BY UnfilledIsSum
<1>9. PartOf(os, i, side, s) \in Int /\ PartOf(ns, i, side, s) \in Int
      /\ Total(Left(os), rest) \in Int
  <2>1. PartOf(os, i, side, s) \in Int /\ PartOf(ns, i, side, s) \in Int
    BY <1>2 DEF PartOf
  <2>2. \A j \in rest : Left(os)[j] \in Int
    BY <1>2
  <2> HIDE DEF rest
  <2> QED BY <1>1, <2>1, <2>2, SumOf
<1> HIDE DEF A, B, rest
<1> QED BY <1>5, <1>6, <1>7, <1>8, <1>9

\* A live order is not filled.
LiveAreOpen(os) == \A i \in DOMAIN os : os[i].live => os[i].filled < os[i].qty

\* What is unfilled is a natural number, and zero if no order is live.
LEMMA UnfilledIsNat ==
  ASSUME NEW os \in Seq(Order), LiveAreOpen(os), NEW side, NEW s
  PROVE  /\ Unfilled(os, side, s) \in Nat
         /\ \A i \in LiveOrders(os, side, s) : 1 <= Unfilled(os, side, s)
         /\ LiveOrders(os, side, s) = {} => Unfilled(os, side, s) = 0
<1> DEFINE A == LiveOrders(os, side, s)
<1>1. IsFiniteSet(A)
  <2>1. DOMAIN os = 1 .. Len(os) /\ Len(os) \in Nat
    OBVIOUS
  <2>2. A \subseteq 1 .. Len(os)
    BY <2>1 DEF LiveOrders
  <2>3. IsFiniteSet(1 .. Len(os))
    BY <2>1, FS_Interval
  <2> HIDE DEF A
  <2> QED BY <2>2, <2>3, FS_Subset
<1>2. \A j \in A : Left(os)[j] \in Nat /\ 1 <= Left(os)[j]
  <2>1. \A o \in Order : o.filled < o.qty => o.qty - o.filled \in Nat /\ 1 <= o.qty - o.filled
    BY DEF Order
  <2>2. \A j \in DOMAIN os : os[j] \in Order
    OBVIOUS
  <2> QED BY <2>1, <2>2 DEF Left, LiveOrders, LiveAreOpen
<1>3. Total(Left(os), A) \in Nat /\ \A j \in A : Left(os)[j] <= Total(Left(os), A)
  <2> HIDE DEF A
  <2> QED BY <1>1, <1>2, SumOfNat
<1>4. Total(Left(os), {}) = 0
  BY SumOfNone
<1>5. Unfilled(os, side, s) = Total(Left(os), A)
  BY UnfilledIsSum
<1> QED
  <2> HIDE DEF A
  <2>1. /\ Unfilled(os, side, s) \in Nat
        /\ \A i \in A : 1 <= Unfilled(os, side, s)
        /\ A = {} => Unfilled(os, side, s) = 0
    <3>1. ASSUME NEW i \in A PROVE 1 <= Total(Left(os), A)
      <4> DEFINE left == Left(os)[i]
      <4>1. left \in Nat /\ 1 <= left /\ left <= Total(Left(os), A)
        BY <1>2, <1>3
      <4> HIDE DEF left
      <4> QED BY <1>3, <4>1
    <3> QED BY <1>3, <1>4, <1>5, <3>1
  <2> QED BY <2>1 DEF A

BrokerOK == BrokerTypeOK /\ LiveAreOpen(orders)

\* Orders are added, keep what they are of, and do not come back to life.
Follow(os, ns) ==
  /\ DOMAIN os \subseteq DOMAIN ns /\ Len(os) <= Len(ns)
  /\ \A i \in DOMAIN os : /\ ns[i].sym = os[i].sym /\ ns[i].side = os[i].side
                          /\ ns[i].live => os[i].live

\* No shares are claimed by two sell orders.
NothingShort == \A s \in Symbols : Free(s) >= 0

\* An order more at the end.
LEMMA OrderAdded ==
  ASSUME NEW os \in Seq(Order), LiveAreOpen(os), NEW o \in Order, o.live => o.filled < o.qty
  PROVE  /\ Append(os, o) \in Seq(Order) /\ LiveAreOpen(Append(os, o)) /\ Follow(os, Append(os, o))
         /\ \A i \in DOMAIN Append(os, o) :
              i = Len(os) + 1 \/ (i \in DOMAIN os /\ Append(os, o)[i] = os[i])
         /\ Append(os, o)[Len(os) + 1] = o /\ Len(os) + 1 \in DOMAIN Append(os, o)
         /\ Len(Append(os, o)) = Len(os) + 1
         /\ \A side, s : Unfilled(Append(os, o), side, s) =
              Unfilled(os, side, s) + (IF o.live /\ o.side = side /\ o.sym = s THEN o.qty - o.filled ELSE 0)
<1> DEFINE ns == Append(os, o)
           n == Len(os) + 1
<1>1. /\ ns \in Seq(Order) /\ Len(ns) = n /\ n \in Nat /\ ns[n] = o
      /\ n \in DOMAIN ns /\ n \notin DOMAIN os
      /\ \A i \in DOMAIN os : i \in DOMAIN ns /\ ns[i] = os[i]
      /\ \A i \in DOMAIN ns : i = n \/ i \in DOMAIN os
  <2>1. /\ ns \in Seq(Order) /\ Len(ns) = Len(os) + 1
        /\ \A i \in 1 .. Len(os) : ns[i] = os[i]
        /\ ns[Len(os) + 1] = o
    BY AppendProperties
  <2>2. Len(os) \in Nat /\ DOMAIN os = 1 .. Len(os)
    OBVIOUS
  <2> HIDE DEF ns
  <2>3. DOMAIN ns = 1 .. n
    BY <2>1
  <2> QED BY <2>1, <2>2, <2>3
<1> HIDE DEF ns
<1>2. LiveAreOpen(ns)
  BY <1>1 DEF LiveAreOpen
<1>3. Follow(os, ns)
  BY <1>1 DEF Follow
<1>4. ASSUME NEW side, NEW s
      PROVE  Unfilled(ns, side, s) =
              Unfilled(os, side, s) + (IF o.live /\ o.side = side /\ o.sym = s THEN o.qty - o.filled ELSE 0)
  <2>1. \A j : j # n => /\ (j \in DOMAIN os <=> j \in DOMAIN ns)
                        /\ (j \in DOMAIN os => os[j] = ns[j])
    BY <1>1
  <2>2. /\ Unfilled(ns, side, s) - PartOf(ns, n, side, s) = Unfilled(os, side, s) - PartOf(os, n, side, s)
        /\ Unfilled(os, side, s) \in Int /\ Unfilled(ns, side, s) \in Int
    <3>1. ns \in Seq(Order)
      BY <1>1
    <3> QED BY <2>1, <3>1, UnfilledMoves
  <2>3. PartOf(os, n, side, s) = 0
    BY <1>1 DEF PartOf, LiveOrders
  <2>4. PartOf(ns, n, side, s) = IF o.live /\ o.side = side /\ o.sym = s THEN o.qty - o.filled ELSE 0
    BY <1>1 DEF PartOf, LiveOrders, Left
  <2>5. o.qty - o.filled \in Int
    BY DEF Order
  <2> QED BY <2>2, <2>3, <2>4, <2>5
<1> QED BY <1>1, <1>2, <1>3, <1>4 DEF ns

\* Orders with o for order i
Changed(os, i, o) == [os EXCEPT ![i] = o]

\* An order in a later state.
LEMMA OrderChanged ==
  ASSUME NEW os \in Seq(Order), LiveAreOpen(os), NEW i \in DOMAIN os, NEW o \in Order,
         o.live => o.filled < o.qty, o.sym = os[i].sym, o.side = os[i].side, os[i].live
  PROVE  /\ Changed(os, i, o) \in Seq(Order) /\ LiveAreOpen(Changed(os, i, o))
         /\ Follow(os, Changed(os, i, o)) /\ Len(Changed(os, i, o)) = Len(os)
         /\ \A side, s : Unfilled(Changed(os, i, o), side, s) = Unfilled(os, side, s)
              + (IF o.side = side /\ o.sym = s
                 THEN (IF o.live THEN o.qty - o.filled ELSE 0) - (os[i].qty - os[i].filled) ELSE 0)
<1> DEFINE ns == Changed(os, i, o)
<1>1. /\ ns \in Seq(Order) /\ Len(ns) = Len(os) /\ DOMAIN ns = DOMAIN os /\ ns[i] = o
      /\ \A j \in DOMAIN os : j # i => ns[j] = os[j]
  BY ExceptSeq DEF Changed
<1> HIDE DEF ns
<1>2. LiveAreOpen(ns)
  BY <1>1 DEF LiveAreOpen
<1>3. Follow(os, ns)
  BY <1>1 DEF Follow
<1>4. ASSUME NEW side, NEW s
      PROVE  Unfilled(ns, side, s) = Unfilled(os, side, s)
              + (IF o.side = side /\ o.sym = s
                 THEN (IF o.live THEN o.qty - o.filled ELSE 0) - (os[i].qty - os[i].filled) ELSE 0)
  <2>1. \A j : j # i => /\ (j \in DOMAIN os <=> j \in DOMAIN ns)
                        /\ (j \in DOMAIN os => os[j] = ns[j])
    BY <1>1
  <2>2. /\ Unfilled(ns, side, s) - PartOf(ns, i, side, s) = Unfilled(os, side, s) - PartOf(os, i, side, s)
        /\ Unfilled(os, side, s) \in Int /\ Unfilled(ns, side, s) \in Int
    <3>1. ns \in Seq(Order)
      BY <1>1
    <3> QED BY <2>1, <3>1, UnfilledMoves
  <2>3. PartOf(os, i, side, s) = IF o.side = side /\ o.sym = s THEN os[i].qty - os[i].filled ELSE 0
    BY <1>1 DEF PartOf, LiveOrders, Left
  <2>4. PartOf(ns, i, side, s) = IF o.live /\ o.side = side /\ o.sym = s THEN o.qty - o.filled ELSE 0
    BY <1>1 DEF PartOf, LiveOrders, Left
  <2>5. o.qty - o.filled \in Int /\ os[i].qty - os[i].filled \in Int
    <3>1. os[i] \in Order
      OBVIOUS
    <3> QED BY <3>1 DEF Order
  <2> DEFINE u == Unfilled(os, side, s)
             v == Unfilled(ns, side, s)
             a == o.qty - o.filled
             b == os[i].qty - os[i].filled
             c == PartOf(os, i, side, s)
             d == PartOf(ns, i, side, s)
  <2>6. v - d = u - c /\ u \in Int /\ v \in Int /\ a \in Int /\ b \in Int
    BY <2>2, <2>5
  <2>7. CASE o.side = side /\ o.sym = s /\ o.live
    <3>1. c = b /\ d = a
      BY <2>3, <2>4, <2>7
    <3> HIDE DEF a, b, c, d, u, v
    <3>2. v = u + (a - b)
      BY <2>6, <3>1
    <3> QED BY <2>7, <3>2 DEF a, b, u, v
  <2>8. CASE o.side = side /\ o.sym = s /\ ~o.live
    <3>1. c = b /\ d = 0
      BY <2>3, <2>4, <2>8
    <3> HIDE DEF a, b, c, d, u, v
    <3>2. v = u + (0 - b)
      BY <2>6, <3>1
    <3> QED BY <2>8, <3>2 DEF b, u, v
  <2>9. CASE ~(o.side = side /\ o.sym = s)
    <3>1. c = 0 /\ d = 0
      BY <2>3, <2>4, <2>9
    <3> HIDE DEF a, b, c, d, u, v
    <3>2. v = u + 0
      BY <2>6, <3>1
    <3> QED BY <2>9, <3>2 DEF u, v
  <2> QED BY <2>7, <2>8, <2>9
<1> QED BY <1>1, <1>2, <1>3, <1>4 DEF ns

\* POST /orders: what the new order is, and that it claims no shares twice.
LEMMA PlaceKeeps ==
  ASSUME BrokerOK, NEW s \in Symbols, NEW side \in {"buy", "sell"}, NEW qty \in Nat \ {0},
         Place(s, side, qty)
  PROVE  /\ BrokerOK' /\ Follow(orders, orders')
         /\ Len(orders') = Len(orders) + 1 /\ Len(orders') \in DOMAIN orders'
         /\ \A i \in DOMAIN orders' :
              i = Len(orders) + 1 \/ (i \in DOMAIN orders /\ orders'[i] = orders[i])
         /\ orders'[Len(orders')].sym = s /\ orders'[Len(orders')].side = side
         /\ orders'[Len(orders')].qty = qty
         /\ ~MayShort /\ NothingShort => NothingShort'
         /\ \A e \in {"buy", "sell"} : \A t \in Symbols :
              Unfilled(orders', e, t) = Unfilled(orders, e, t) + (IF e = side /\ t = s THEN qty ELSE 0)
         /\ UNCHANGED <<shares, sold, cash>>
<1> DEFINE new == [sym |-> s, side |-> side, qty |-> qty, filled |-> 0, live |-> TRUE]
<1>1. new \in Order /\ new.filled < new.qty
  BY DEF Order
<1>2. /\ new.sym = s /\ new.side = side /\ new.live /\ new.qty - new.filled = qty /\ new.qty = qty
      /\ orders' = Append(orders, new) /\ UNCHANGED <<shares, sold, cash>>
      /\ Len(orders) < MaxOrders /\ (side = "sell" => MayShort \/ Free(s) >= qty)
  BY DEF Place
<1> HIDE DEF new
<1>3. /\ orders' \in Seq(Order) /\ LiveAreOpen(orders') /\ Follow(orders, orders')
      /\ \A i \in DOMAIN orders' :
           i = Len(orders) + 1 \/ (i \in DOMAIN orders /\ orders'[i] = orders[i])
      /\ orders'[Len(orders) + 1] = new /\ Len(orders) + 1 \in DOMAIN orders'
      /\ Len(orders') = Len(orders) + 1
      /\ \A e \in {"buy", "sell"} : \A t \in Symbols : Unfilled(orders', e, t) =
           Unfilled(orders, e, t) + (IF e = side /\ t = s THEN qty ELSE 0)
  BY <1>1, <1>2, OrderAdded DEF BrokerOK, BrokerTypeOK
<1>4. BrokerOK'
  BY <1>2, <1>3, BrokerAssumption DEF BrokerOK, BrokerTypeOK
<1>5. ASSUME ~MayShort, NothingShort, NEW t \in Symbols PROVE Free(t)' >= 0
  <2>1. Unfilled(orders, "sell", t) \in Nat
    BY UnfilledIsNat DEF BrokerOK, BrokerTypeOK
  <2>2. Free(t) >= 0 /\ shares[t] \in Int
    BY <1>5 DEF NothingShort, BrokerOK, BrokerTypeOK
  <2>3. Free(t)' = shares[t] - Unfilled(orders', "sell", t)
    BY <1>2 DEF Free
  <2>4. Unfilled(orders', "sell", t) =
           Unfilled(orders, "sell", t) + (IF "sell" = side /\ t = s THEN qty ELSE 0)
    BY <1>3
  <2> QED BY <1>2, <1>5, <2>1, <2>2, <2>3, <2>4 DEF Free
<1> QED BY <1>2, <1>3, <1>4, <1>5 DEF NothingShort

\* A fill: a sell takes a share that it had claimed.
LEMMA FillKeeps ==
  ASSUME BrokerOK, NEW i \in DOMAIN orders, Fill(i)
  PROVE  /\ BrokerOK' /\ Follow(orders, orders') /\ orders[i].live /\ orders[i].sym \in Symbols
         /\ orders[i].side \in {"buy", "sell"}
         /\ NothingShort => NothingShort'
         /\ \A s \in Symbols : shares'[s] >= shares[s] \/ (orders[i].side = "sell" /\ orders[i].sym = s)
         /\ \A e \in {"buy", "sell"} : \A s \in Symbols :
              Unfilled(orders', e, s)
                = Unfilled(orders, e, s) + (IF orders[i].side = e /\ orders[i].sym = s THEN -1 ELSE 0)
         /\ \A s \in Symbols : shares'[s] = shares[s]
              + (IF orders[i].sym = s THEN (IF orders[i].side = "buy" THEN 1 ELSE -1) ELSE 0)
         /\ cash' = cash - (IF orders[i].side = "buy" THEN 1 ELSE -1)
<1> DEFINE o == orders[i]
           live == o.filled + 1 < o.qty
           new == [o EXCEPT !.filled = @ + 1, !.live = live]
           d == IF o.side = "buy" THEN 1 ELSE -1
<1>1. /\ o \in Order /\ o.live /\ o.filled < o.qty
      /\ shares \in [Symbols -> Int] /\ sold \in [Symbols -> Nat] /\ cash \in Int
      /\ o.sym \in Symbols
      /\ o.qty \in Nat /\ o.filled \in Nat /\ o.side \in {"buy", "sell"}
  <2>1. \A r \in Order : /\ r.sym \in Symbols /\ r.qty \in Nat /\ r.filled \in Nat
                         /\ r.side \in {"buy", "sell"}
    BY DEF Order
  <2>2. o \in Order /\ o.live /\ o.filled < o.qty
    BY DEF BrokerOK, BrokerTypeOK, LiveAreOpen, Fill
  <2> HIDE DEF o
  <2> QED BY <2>1, <2>2 DEF BrokerOK, BrokerTypeOK
<1>2. /\ new \in Order /\ new.sym = o.sym /\ new.side = o.side /\ new.qty = o.qty
      /\ new.filled = o.filled + 1 /\ (new.live <=> o.filled + 1 < o.qty)
  <2> HIDE DEF o
  <2>1. live \in BOOLEAN
    OBVIOUS
  <2>2. o.filled + 1 \in Nat
    BY <1>1
  <2>3. new \in Order /\ new.sym = o.sym /\ new.side = o.side /\ new.qty = o.qty
        /\ new.filled = o.filled + 1 /\ new.live = live
    <3> HIDE DEF live
    <3> QED BY <1>1, <2>1, <2>2 DEF Order
  <2> QED BY <2>3
<1>3. /\ orders' = [orders EXCEPT ![i] = new]
      /\ shares' = [shares EXCEPT ![o.sym] = @ + d]
      /\ sold' = [sold EXCEPT ![o.sym] = IF o.side = "sell" THEN @ + 1 ELSE @]
      /\ cash' = cash - d
  BY DEF Fill
<1>4. o.sym = orders[i].sym /\ o.side = orders[i].side /\ o.qty = orders[i].qty
      /\ o.filled = orders[i].filled
  OBVIOUS
<1> HIDE DEF new, o
<1>5. /\ orders' \in Seq(Order) /\ LiveAreOpen(orders') /\ Follow(orders, orders')
      /\ Len(orders') = Len(orders)
      /\ \A e \in {"buy", "sell"} : \A s \in Symbols : Unfilled(orders', e, s) = Unfilled(orders, e, s)
           + (IF new.side = e /\ new.sym = s
              THEN (IF new.live THEN new.qty - new.filled ELSE 0) - (orders[i].qty - orders[i].filled) ELSE 0)
  <2>1. /\ orders \in Seq(Order) /\ LiveAreOpen(orders) /\ (new.live => new.filled < new.qty)
        /\ new \in Order /\ new.sym = orders[i].sym /\ new.side = orders[i].side /\ orders[i].live
    BY <1>1, <1>2, <1>4 DEF BrokerOK, BrokerTypeOK, o
  <2>2. orders' = Changed(orders, i, new)
    BY <1>3 DEF Changed
  <2> QED BY <2>1, <2>2, OrderChanged
<1>6. BrokerOK'
  <2>1. shares' \in [Symbols -> Int] /\ sold' \in [Symbols -> Nat] /\ cash' \in Int
    BY <1>1, <1>3
  <2> QED BY <1>5, <2>1 DEF BrokerOK, BrokerTypeOK
<1>7. \A s \in Symbols : shares'[s] = shares[s] + (IF o.sym = s THEN d ELSE 0)
  BY <1>1, <1>3
<1>8. ASSUME NEW e \in {"buy", "sell"}, NEW s \in Symbols
      PROVE  Unfilled(orders', e, s) = Unfilled(orders, e, s)
                + (IF o.side = e /\ o.sym = s THEN -1 ELSE 0)
  <2> DEFINE u == Unfilled(orders, e, s)
             v == Unfilled(orders', e, s)
             a == IF new.live THEN new.qty - new.filled ELSE 0
             b == orders[i].qty - orders[i].filled
  <2>1. u \in Nat
    BY UnfilledIsNat DEF BrokerOK, BrokerTypeOK
  <2>2. u \in Nat /\ a \in Int /\ b \in Int /\ a = b - 1
    BY <1>1, <1>2, <1>4, <2>1
  <2>3. v = u + (IF o.side = e /\ o.sym = s THEN a - b ELSE 0)
    BY <1>2, <1>5
  <2> HIDE DEF u, v, a, b
  <2>4. v = u + (IF o.side = e /\ o.sym = s THEN -1 ELSE 0)
    BY <2>2, <2>3
  <2> QED BY <2>4 DEF u, v
<1>9. ASSUME NothingShort, NEW s \in Symbols PROVE Free(s)' >= 0
  <2>1. Unfilled(orders, "sell", s) \in Nat /\ shares[s] \in Int
    BY <1>1, UnfilledIsNat DEF BrokerOK, BrokerTypeOK
  <2>2. shares[s] - Unfilled(orders, "sell", s) >= 0
    BY <1>9 DEF NothingShort, Free
  <2>3. Unfilled(orders', "sell", s) = Unfilled(orders, "sell", s)
           + (IF o.side = "sell" /\ o.sym = s THEN -1 ELSE 0)
    BY <1>8
  <2> QED BY <1>1, <1>7, <2>1, <2>2, <2>3 DEF Free
<1>10. \A s \in Symbols : shares'[s] >= shares[s] \/ (orders[i].side = "sell" /\ orders[i].sym = s)
  BY <1>1, <1>4, <1>7
<1>11. /\ \A s \in Symbols : shares'[s] = shares[s]
              + (IF orders[i].sym = s THEN (IF orders[i].side = "buy" THEN 1 ELSE -1) ELSE 0)
       /\ cash' = cash - (IF orders[i].side = "buy" THEN 1 ELSE -1)
       /\ \A e \in {"buy", "sell"} : \A s \in Symbols :
            Unfilled(orders', e, s)
              = Unfilled(orders, e, s) + (IF orders[i].side = e /\ orders[i].sym = s THEN -1 ELSE 0)
  BY <1>3, <1>4, <1>7, <1>8
<1>12. orders[i].live /\ orders[i].sym \in Symbols /\ orders[i].side \in {"buy", "sell"}
  BY <1>1, <1>4 DEF o
<1> QED BY <1>5, <1>6, <1>9, <1>10, <1>11, <1>12 DEF NothingShort

\* An order that expires claims no more.
LEMMA ExpireKeeps ==
  ASSUME BrokerOK, NEW i \in DOMAIN orders, Expire(i)
  PROVE  /\ BrokerOK' /\ Follow(orders, orders') /\ UNCHANGED <<shares, sold, cash>>
         /\ NothingShort => NothingShort'
         /\ DOMAIN orders' = DOMAIN orders
         /\ \A e \in {"buy", "sell"} : \A s \in Symbols : Unfilled(orders', e, s) <= Unfilled(orders, e, s)
<1> DEFINE new == [orders[i] EXCEPT !.live = FALSE]
<1>1. orders[i] \in Order /\ orders[i].live /\ orders[i].filled < orders[i].qty
  BY DEF BrokerOK, BrokerTypeOK, LiveAreOpen, Expire
<1>2. new \in Order /\ new.sym = orders[i].sym /\ new.side = orders[i].side /\ ~new.live
  BY <1>1 DEF Order
<1>3. orders' = [orders EXCEPT ![i] = new] /\ UNCHANGED <<shares, sold, cash>>
  BY DEF Expire
<1> HIDE DEF new
<1>4. /\ orders' \in Seq(Order) /\ LiveAreOpen(orders') /\ Follow(orders, orders')
      /\ Len(orders') = Len(orders)
      /\ \A e \in {"buy", "sell"} : \A s \in Symbols : Unfilled(orders', e, s) = Unfilled(orders, e, s)
           + (IF new.side = e /\ new.sym = s
              THEN (IF new.live THEN new.qty - new.filled ELSE 0) - (orders[i].qty - orders[i].filled) ELSE 0)
  <2>1. /\ orders \in Seq(Order) /\ LiveAreOpen(orders) /\ (new.live => new.filled < new.qty)
        /\ new \in Order /\ new.sym = orders[i].sym /\ new.side = orders[i].side /\ orders[i].live
    BY <1>1, <1>2 DEF BrokerOK, BrokerTypeOK
  <2>2. orders' = Changed(orders, i, new)
    BY <1>3 DEF Changed
  <2> QED BY <2>1, <2>2, OrderChanged
<1>5. BrokerOK'
  BY <1>3, <1>4 DEF BrokerOK, BrokerTypeOK
<1>6. orders[i].qty \in Nat /\ orders[i].filled \in Nat
  BY <1>1 DEF Order
<1>7. ASSUME NEW e \in {"buy", "sell"}, NEW s \in Symbols
      PROVE  Unfilled(orders', e, s) \in Int /\ Unfilled(orders', e, s) <= Unfilled(orders, e, s)
  <2> DEFINE u == Unfilled(orders, e, s)
             v == Unfilled(orders', e, s)
             b == orders[i].qty - orders[i].filled
  <2>1. u \in Nat
    BY UnfilledIsNat DEF BrokerOK, BrokerTypeOK
  <2>2. u \in Nat /\ b \in Nat
    BY <1>1, <1>6, <2>1
  <2>3. v = u + (0 - b) \/ v = u + 0
    BY <1>2, <1>4
  <2> HIDE DEF u, v, b
  <2>4. v \in Int /\ v <= u
    BY <2>2, <2>3
  <2> QED BY <2>4 DEF u, v
<1>8. ASSUME NothingShort, NEW s \in Symbols PROVE Free(s)' >= 0
  <2>1. Unfilled(orders, "sell", s) \in Nat /\ shares[s] \in Int
    BY UnfilledIsNat DEF BrokerOK, BrokerTypeOK
  <2>2. shares[s] - Unfilled(orders, "sell", s) >= 0
    BY <1>8 DEF NothingShort, Free
  <2>3. Unfilled(orders', "sell", s) \in Int
        /\ Unfilled(orders', "sell", s) <= Unfilled(orders, "sell", s)
    BY <1>7
  <2> QED BY <1>3, <2>1, <2>2, <2>3 DEF Free
<1>9. DOMAIN orders' = DOMAIN orders
  BY <1>3
<1> QED BY <1>3, <1>4, <1>5, <1>7, <1>8, <1>9 DEF NothingShort

\* The owner sells a share that no order claims.
LEMMA ByHandKeeps ==
  ASSUME BrokerOK, NEW s \in Symbols, SellByHand(s)
  PROVE  /\ BrokerOK' /\ Follow(orders, orders')
         /\ \A i \in DOMAIN orders' :
              i = Len(orders) + 1 \/ (i \in DOMAIN orders /\ orders'[i] = orders[i])
         /\ ~orders'[Len(orders) + 1].live
         /\ NothingShort => NothingShort'
         /\ \A t \in Symbols : shares'[t] = shares[t] + (IF t = s THEN -1 ELSE 0)
         /\ cash' = cash + 1
         /\ \A e \in {"buy", "sell"} : \A t \in Symbols : Unfilled(orders', e, t) = Unfilled(orders, e, t)
<1> DEFINE new == [sym |-> s, side |-> "sell", qty |-> 1, filled |-> 1, live |-> FALSE]
<1>1. new \in Order /\ ~new.live
  BY DEF Order
<1>2. /\ orders' = Append(orders, new) /\ shares' = [shares EXCEPT ![s] = @ - 1]
      /\ sold' = [sold EXCEPT ![s] = @ + 1] /\ cash' = cash + 1
      /\ Len(orders) < MaxOrders /\ Free(s) >= 1
  BY DEF SellByHand
<1> HIDE DEF new
<1>3. /\ orders' \in Seq(Order) /\ LiveAreOpen(orders') /\ Follow(orders, orders')
      /\ \A i \in DOMAIN orders' :
           i = Len(orders) + 1 \/ (i \in DOMAIN orders /\ orders'[i] = orders[i])
      /\ orders'[Len(orders) + 1] = new
      /\ Len(orders') = Len(orders) + 1
      /\ \A e \in {"buy", "sell"} : \A t \in Symbols : Unfilled(orders', e, t) = Unfilled(orders, e, t) + 0
  BY <1>1, <1>2, OrderAdded DEF BrokerOK, BrokerTypeOK
<1>4. shares \in [Symbols -> Int] /\ sold \in [Symbols -> Nat] /\ cash \in Int
  BY DEF BrokerOK, BrokerTypeOK
<1>5. BrokerOK'
  <2>1. shares' \in [Symbols -> Int] /\ sold' \in [Symbols -> Nat] /\ cash' \in Int
    BY <1>2, <1>4
  <2>2. Len(orders') <= MaxOrders
    BY <1>2, <1>3, BrokerAssumption DEF BrokerOK, BrokerTypeOK
  <2> QED BY <1>3, <2>1, <2>2 DEF BrokerOK, BrokerTypeOK
<1>6. ASSUME NEW e \in {"buy", "sell"}, NEW t \in Symbols
      PROVE  Unfilled(orders', e, t) = Unfilled(orders, e, t)
  <2>1. Unfilled(orders, e, t) \in Nat
    BY UnfilledIsNat DEF BrokerOK, BrokerTypeOK
  <2>2. Unfilled(orders', e, t) = Unfilled(orders, e, t) + 0
    BY <1>3
  <2> QED BY <2>1, <2>2
<1>7. ASSUME NothingShort, NEW t \in Symbols PROVE Free(t)' >= 0
  <2>1. Unfilled(orders, "sell", t) \in Nat /\ shares[t] \in Int
    BY <1>4, UnfilledIsNat DEF BrokerOK, BrokerTypeOK
  <2>2. shares[t] - Unfilled(orders, "sell", t) >= 0 /\ shares[s] - Unfilled(orders, "sell", s) >= 1
    BY <1>2, <1>7 DEF NothingShort, Free
  <2>3. shares'[t] = IF t = s THEN shares[s] - 1 ELSE shares[t]
    BY <1>2, <1>4
  <2>4. Unfilled(orders', "sell", t) = Unfilled(orders, "sell", t)
    BY <1>6
  <2> QED BY <2>1, <2>2, <2>3, <2>4 DEF Free
<1>8. \A t \in Symbols : shares'[t] = shares[t] + (IF t = s THEN -1 ELSE 0)
  BY <1>2, <1>4
<1> QED BY <1>1, <1>2, <1>3, <1>4, <1>5, <1>6, <1>7, <1>8 DEF NothingShort

-----------------------------------------------------------------------------
(* What a cycle finds (Load)                                                *)

\* A finite set of numbers can be listed in their order, and any finite set in some order.
LEMMA InOrderLists ==
  ASSUME NEW S, IsFiniteSet(S), S \subseteq Nat
  PROVE  InOrder(S) \in [1 .. Cardinality(S) -> S] /\ Cardinality(S) \in Nat
<1> DEFINE isList(f, T) ==
             /\ f \in [1 .. Cardinality(T) -> T]
             /\ \A i, j \in DOMAIN f : i < j => f[i] < f[j]
           bad == {n \in Nat : \E T \in SUBSET S : Cardinality(T) = n /\ \A f : ~isList(f, T)}
<1>1. ASSUME bad # {} PROVE FALSE
  <2>1. PICK n \in bad : \A m \in bad : n <= m
    BY <1>1, Least
  <2>2. PICK T \in SUBSET S : Cardinality(T) = n /\ \A f : ~isList(f, T)
    OBVIOUS
  <2>3. T # {}
    <3> SUFFICES ASSUME T = {} PROVE FALSE
      OBVIOUS
    <3>1. Cardinality(T) = 0
      BY FS_EmptySet
    <3>2. isList([i \in 1 .. 0 |-> 0], T)
      BY <3>1
    <3> QED BY <2>2, <3>2
  <2>4. PICK m \in T : \A x \in T : m <= x
    BY <2>3, Least
  <2> DEFINE R == T \ {m}
             c == Cardinality(R)
  <2>5. R \in SUBSET S /\ c = n - 1 /\ c \in Nat /\ n \in Nat
    <3>1. IsFiniteSet(T) /\ IsFiniteSet(R)
      BY FS_Subset
    <3>2. c = Cardinality(T) - 1 /\ c \in Nat
      BY <3>1, FS_RemoveElement, FS_CardinalityType
    <3> QED BY <2>2, <3>2
  <2>6. PICK f : isList(f, R)
    <3>1. c \notin bad
      <4>1. c \in bad => n <= c
        BY <2>1
      <4> HIDE DEF c, bad
      <4> QED BY <2>5, <4>1
    <3> QED BY <2>5, <3>1
  <2> DEFINE g == [i \in 1 .. n |-> IF i = 1 THEN m ELSE f[i - 1]]
  <2>7. f \in [1 .. n - 1 -> R] /\ \A i, j \in 1 .. n - 1 : i < j => f[i] < f[j]
    BY <2>5, <2>6
  <2>8. \A x \in R : x \in T /\ m < x
    BY <2>4
  <2>9. g \in [1 .. n -> T]
    BY <2>5, <2>7, <2>8
  <2>10. ASSUME NEW i \in 1 .. n, NEW j \in 1 .. n, i < j PROVE g[i] < g[j]
    <3>1. j # 1 /\ j - 1 \in 1 .. n - 1 /\ g[j] = f[j - 1]
      BY <2>5, <2>10
    <3>2. CASE i = 1
      BY <2>7, <2>8, <3>1, <3>2
    <3>3. CASE i # 1
      <4>1. i - 1 \in 1 .. n - 1 /\ g[i] = f[i - 1] /\ i - 1 < j - 1
        BY <2>5, <2>10, <3>3
      <4> HIDE DEF g
      <4> QED BY <2>7, <3>1, <4>1
    <3> QED BY <3>2, <3>3
  <2>11. isList(g, T)
    <3> HIDE DEF g
    <3> QED BY <2>2, <2>9, <2>10
  <2> QED BY <2>2, <2>11
<1>2. Cardinality(S) \in Nat
  BY FS_CardinalityType
<1>3. \E f : isList(f, S)
  BY <1>1, <1>2
<1> QED BY <1>2, <1>3 DEF InOrder

\* Any finite set can be listed.
LEMMA SetToSeqLists ==
  ASSUME NEW S, IsFiniteSet(S)
  PROVE  SetToSeq(S) \in [1 .. Cardinality(S) -> S] /\ Cardinality(S) \in Nat
<1>1. Cardinality(S) \in Nat /\ ExistsBijection(1 .. Cardinality(S), S)
  BY FS_CardinalityType
<1>2. PICK f : f \in Bijection(1 .. Cardinality(S), S)
  BY <1>1 DEF ExistsBijection
<1>3. f \in [1 .. Cardinality(S) -> S] /\ IsInjective(f)
  BY <1>2 DEF Bijection, Injection, IsInjective
<1> QED BY <1>1, <1>3 DEF SetToSeq

\* The closed row to recover from is one of the closed rows.
LEMMA SeedIsSeed ==
  ASSUME NEW rs \in Seq(Row), NEW s, Seeds(rs, s) # {}
  PROVE  Seed(rs, s) \in Seeds(rs, s)
<1> DEFINE S == Seeds(rs, s)
           entryOf == [i \in DOMAIN rs |-> rs[i].entry]
           most == Total(entryOf, S)
           entries == {entryOf[i] : i \in S}
<1>1. S \subseteq DOMAIN rs /\ DOMAIN rs = 1 .. Len(rs) /\ Len(rs) \in Nat
  BY DEF Seeds
<1>2. IsFiniteSet(S)
  <2>1. IsFiniteSet(1 .. Len(rs))
    BY <1>1, FS_Interval
  <2> HIDE DEF S
  <2> QED BY <1>1, <2>1, FS_Subset
<1>3. \A i \in DOMAIN rs : entryOf[i] = rs[i].entry /\ rs[i].entry \in Nat
  <2>1. \A r \in Row : r.entry \in Nat
    BY DEF Row
  <2>2. \A i \in DOMAIN rs : rs[i] \in Row
    OBVIOUS
  <2> QED BY <2>1, <2>2
<1>4. most \in Nat /\ \A i \in S : entryOf[i] \in Nat /\ entryOf[i] <= most
  <2>1. \A i \in S : entryOf[i] \in Nat
    BY <1>1, <1>3
  <2> HIDE DEF S, entryOf
  <2> QED BY <1>2, <2>1, SumOfNat
<1>5. entries \subseteq 0 .. most /\ entries # {}
  <2> HIDE DEF S, entryOf, most
  <2> QED BY <1>4 DEF S
<1>6. PICK e \in entries : \A x \in entries : x <= e
  <2> HIDE DEF entries, most
  <2> QED BY <1>4, <1>5, Greatest
<1> DEFINE last == {i \in S : entryOf[i] = e}
<1>7. last # {} /\ last \subseteq 0 .. Len(rs)
  BY <1>1, <1>6
<1>8. PICK i \in last : \A j \in last : j <= i
  <2> HIDE DEF last
  <2> QED BY <1>1, <1>7, Greatest
<1>9. i \in S /\ \A j \in S : rs[j].entry < rs[i].entry \/ (rs[j].entry = rs[i].entry /\ j <= i)
  <2> SUFFICES ASSUME NEW j \in S
               PROVE  rs[j].entry < rs[i].entry \/ (rs[j].entry = rs[i].entry /\ j <= i)
    OBVIOUS
  <2>1. rs[j].entry = entryOf[j] /\ rs[i].entry = e /\ entryOf[j] <= e /\ entryOf[j] \in Nat
        /\ e \in Nat
    BY <1>1, <1>3, <1>4, <1>6
  <2>2. entryOf[j] = e => j <= i
    BY <1>8
  <2> QED BY <2>1, <2>2
<1> QED BY <1>9 DEF Seed

\* An open row has shares.
OpenHave(rs) == \A i \in DOMAIN rs : rs[i].status = "open" => rs[i].shares >= 1

\* A row after another one: of the same symbol; if it is open it was, with the same orders, and
\* has the provider's shares if the provider has any.  It is closed if the provider has none,
\* and a sell is known or the buy is over.
Keeps(r, old, q) ==
  /\ r.sym = old.sym
  /\ r.status = "open" => /\ old.status = "open" /\ r.exit = old.exit
                          /\ q[r.sym] >= 1 => r.shares = q[r.sym]
  /\ old.status = "open" /\ q[r.sym] >= 1 => r.status = "open"
  /\ old.status = "open" => \/ r.status = "open" /\ r.order = old.order
                            \/ r.status = "closed" /\ (SellKnown(old) \/ ~EntryPending(old))

\* A row that was added: closed, or with the provider's shares and no exit.
IsAdded(r, q) ==
  r.status # "closed" => r.status = "open" /\ r.exit = None /\ q[r.sym] >= 1 /\ r.shares = q[r.sym]

\* Rows whose orders and exits are those of old rows of the same symbols.
Descends(rs, old) ==
  \A i \in DOMAIN rs :
    /\ rs[i].order = None \/ \E k \in DOMAIN old : old[k].sym = rs[i].sym /\ old[k].order = rs[i].order
    /\ rs[i].exit = None \/ \E k \in DOMAIN old : old[k].sym = rs[i].sym /\ old[k].exit = rs[i].exit

\* Rows that others have followed.
Repaired(old, rs, q) ==
  /\ rs \in Seq(Row) /\ Len(old) <= Len(rs)
  /\ \A i \in DOMAIN old : i \in DOMAIN rs /\ Keeps(rs[i], old[i], q)
  /\ \A i \in DOMAIN rs : i \in DOMAIN old \/ IsAdded(rs[i], q)
  /\ OpenHave(rs) /\ Descends(rs, old)

\* reconcile_open_positions_with_provider() keeps what the rows are of.
LEMMA ReconciledRows ==
  ASSUME rows \in Seq(Row), OpenHave(rows), NEW q \in [Symbols -> Nat]
  PROVE  Repaired(rows, Reconciled(q), q)
<1> DEFINE split == {i \in DOMAIN rows : PartSold(rows[i], q)}
           parts == InOrder(split)
           Fix(r) == IF r.status # "open" THEN r
                     ELSE IF q[r.sym] >= 1 THEN Adjusted(r, q)
                     ELSE IF ~SellKnown(r) /\ EntryPending(r) THEN r
                     ELSE Closed(r)
           fixed == [i \in DOMAIN rows |-> Fix(rows[i])]
           sales == [n \in DOMAIN parts |-> Closed(rows[parts[n]])]
<1>1. DOMAIN rows = 1 .. Len(rows) /\ Len(rows) \in Nat /\ \A i \in DOMAIN rows : rows[i] \in Row
  OBVIOUS
<1>2. parts \in [1 .. Cardinality(split) -> split] /\ Cardinality(split) \in Nat
  <2>1. IsFiniteSet(1 .. Len(rows))
    BY <1>1, FS_Interval
  <2>2. split \subseteq 1 .. Len(rows) /\ split \subseteq Nat
    BY <1>1
  <2> HIDE DEF split
  <2>3. IsFiniteSet(split)
    BY <2>1, <2>2, FS_Subset
  <2> QED BY <2>2, <2>3, InOrderLists
<1>3. ASSUME NEW r \in Row
      PROVE  /\ Closed(r) \in Row /\ Closed(r).status = "closed" /\ Closed(r).sym = r.sym
             /\ Closed(r).order = r.order /\ Closed(r).exit = None
             /\ Adjusted(r, q) \in Row /\ Adjusted(r, q).shares = q[r.sym]
             /\ Adjusted(r, q).sym = r.sym /\ Adjusted(r, q).exit = r.exit
             /\ Adjusted(r, q).status = r.status /\ Adjusted(r, q).order = r.order
             /\ r.sym \in Symbols /\ r.shares \in Nat /\ q[r.sym] \in Nat
  BY DEF Closed, Adjusted, Row
<1>4. ASSUME NEW r \in Row, r.status = "open" => r.shares >= 1
      PROVE  /\ Fix(r) \in Row /\ Keeps(Fix(r), r, q)
             /\ Fix(r).sym = r.sym /\ Fix(r).order = r.order /\ Fix(r).exit \in {r.exit, None}
             /\ Fix(r).status = "open" => Fix(r).shares >= 1
  BY <1>3, <1>4 DEF Keeps
<1> HIDE DEF Fix
<1>5. /\ fixed \in Seq(Row) /\ Len(fixed) = Len(rows)
      /\ \A i \in 1 .. Len(rows) : fixed[i] = Fix(rows[i])
  BY <1>1, <1>4 DEF OpenHave
<1>6. /\ sales \in Seq(Row) /\ Len(sales) = Cardinality(split)
      /\ \A n \in 1 .. Len(sales) : sales[n].status = "closed" /\ sales[n].exit = None
      /\ \A n \in 1 .. Len(sales) :
           \E k \in DOMAIN rows : rows[k].sym = sales[n].sym /\ rows[k].order = sales[n].order
  <2>1. \A n \in 1 .. Cardinality(split) : parts[n] \in DOMAIN rows
    BY <1>2
  <2>2. DOMAIN parts = 1 .. Cardinality(split)
    BY <1>2
  <2> HIDE DEF parts, split
  <2>3. \A n \in 1 .. Cardinality(split) :
          /\ Closed(rows[parts[n]]) \in Row /\ Closed(rows[parts[n]]).status = "closed"
          /\ Closed(rows[parts[n]]).exit = None
          /\ \E k \in DOMAIN rows : /\ rows[k].sym = Closed(rows[parts[n]]).sym
                                    /\ rows[k].order = Closed(rows[parts[n]]).order
    BY <1>1, <1>3, <2>1
  <2> DEFINE c == Cardinality(split)
  <2>4. sales = [n \in 1 .. c |-> Closed(rows[parts[n]])] /\ c \in Nat
    BY <1>2, <2>2
  <2> HIDE DEF c, sales
  <2>5. /\ sales \in [1 .. c -> Row]
        /\ \A n \in 1 .. c :
             /\ sales[n].status = "closed" /\ sales[n].exit = None
             /\ \E k \in DOMAIN rows : rows[k].sym = sales[n].sym /\ rows[k].order = sales[n].order
    BY <2>3, <2>4 DEF c
  <2>6. sales \in Seq(Row) /\ Len(sales) = c
    <3>1. sales \in [1 .. c -> Row] /\ c \in Nat
      BY <2>4, <2>5
    <3> QED BY <3>1, ListOf
  <2> QED BY <2>5, <2>6 DEF c
<1>7. Reconciled(q) = fixed \o sales
  BY DEF Reconciled, Fix
<1> DEFINE rs == fixed \o sales
<1> HIDE DEF fixed, sales, parts, split
<1>8. /\ rs \in Seq(Row) /\ Len(rs) = Len(rows) + Len(sales)
      /\ \A i \in 1 .. Len(rows) + Len(sales) :
           rs[i] = IF i <= Len(rows) THEN fixed[i] ELSE sales[i - Len(rows)]
  <2>1. fixed \in Seq(Row) /\ sales \in Seq(Row) /\ Len(fixed) = Len(rows)
    BY <1>5, <1>6
  <2>2. /\ rs \in Seq(Row) /\ Len(rs) = Len(fixed) + Len(sales)
        /\ \A i \in 1 .. Len(fixed) + Len(sales) :
             rs[i] = IF i <= Len(fixed) THEN fixed[i] ELSE sales[i - Len(fixed)]
    BY <2>1, ConcatProperties
  <2> HIDE DEF rs
  <2> QED BY <2>1, <2>2
<1> HIDE DEF rs
<1>9. Len(sales) \in Nat /\ DOMAIN rs = 1 .. Len(rows) + Len(sales)
  BY <1>6, <1>8
<1>10. \A i \in DOMAIN rows : i \in DOMAIN rs /\ rs[i] = Fix(rows[i])
  BY <1>1, <1>5, <1>8, <1>9
<1>11. \A i \in DOMAIN rs :
         \/ i \in DOMAIN rows
         \/ /\ rs[i].status = "closed" /\ rs[i].exit = None
            /\ \E k \in DOMAIN rows : rows[k].sym = rs[i].sym /\ rows[k].order = rs[i].order
  <2> SUFFICES ASSUME NEW i \in DOMAIN rs, i \notin DOMAIN rows
               PROVE  /\ rs[i].status = "closed" /\ rs[i].exit = None
                      /\ \E k \in DOMAIN rows : rows[k].sym = rs[i].sym /\ rows[k].order = rs[i].order
    OBVIOUS
  <2>1. i - Len(rows) \in 1 .. Len(sales) /\ rs[i] = sales[i - Len(rows)]
    BY <1>1, <1>8, <1>9
  <2> QED BY <1>6, <2>1
<1>12. OpenHave(rs)
  BY <1>1, <1>4, <1>10, <1>11 DEF OpenHave
<1>13. Descends(rs, rows)
  <2>1. ASSUME NEW i \in DOMAIN rs, i \in DOMAIN rows
        PROVE  /\ rs[i].sym = rows[i].sym /\ rs[i].order = rows[i].order
               /\ rs[i].exit = rows[i].exit \/ rs[i].exit = None
    BY <1>1, <1>4, <1>10, <2>1 DEF OpenHave
  <2> QED BY <1>11, <2>1 DEF Descends
<1>14. Repaired(rows, rs, q)
  BY <1>1, <1>4, <1>8, <1>9, <1>10, <1>11, <1>12, <1>13 DEF Repaired, IsAdded, OpenHave
<1> QED BY <1>7, <1>14 DEF rs

\* recover_auto_positions_from_provider() adds rows only.
LEMMA RecoveredRows ==
  ASSUME NEW rs \in Seq(Row), OpenHave(rs), NEW q \in [Symbols -> Nat], released \subseteq Symbols
  PROVE  /\ Recovered(rs, q) \in Seq(Row) /\ Len(rs) <= Len(Recovered(rs, q))
         /\ \A i \in DOMAIN rs : i \in DOMAIN Recovered(rs, q) /\ Recovered(rs, q)[i] = rs[i]
         /\ \A i \in DOMAIN Recovered(rs, q) :
              \/ i \in DOMAIN rs
              \/ IsAdded(Recovered(rs, q)[i], q) /\ Recovered(rs, q)[i].shares >= 1
         /\ Descends(Recovered(rs, q), rs)
<1> DEFINE back == {s \in Symbols : /\ q[s] >= 1 /\ OpenRows(rs, s) = {}
                                    /\ s \notin released /\ Seeds(rs, s) # {}}
           list == SetToSeq(back)
           Again(s) == [sym |-> s, status |-> "open", shares |-> q[s],
                        order |-> rs[Seed(rs, s)].order, exit |-> None,
                        entry |-> rs[Seed(rs, s)].entry]
           news == [i \in DOMAIN list |-> Again(list[i])]
<1>1. DOMAIN rs = 1 .. Len(rs) /\ Len(rs) \in Nat /\ \A i \in DOMAIN rs : rs[i] \in Row
  OBVIOUS
<1>2. list \in [1 .. Cardinality(back) -> back] /\ Cardinality(back) \in Nat
  <2>1. back \subseteq Symbols
    OBVIOUS
  <2> HIDE DEF back
  <2> QED BY <2>1, BrokerAssumption, FS_Subset, SetToSeqLists
<1>3. ASSUME NEW s \in back
      PROVE  /\ Again(s) \in Row /\ IsAdded(Again(s), q) /\ Again(s).shares >= 1
             /\ Again(s).status = "open" /\ Again(s).exit = None
             /\ \E k \in DOMAIN rs : rs[k].sym = Again(s).sym /\ rs[k].order = Again(s).order
  <2>1. s \in Symbols /\ q[s] >= 1 /\ q[s] \in Nat /\ Seed(rs, s) \in Seeds(rs, s)
    BY SeedIsSeed
  <2>2. rs[Seed(rs, s)] \in Row /\ Seed(rs, s) \in DOMAIN rs /\ rs[Seed(rs, s)].sym = s
    BY <1>1, <2>1 DEF Seeds
  <2> DEFINE seed == rs[Seed(rs, s)]
  <2>3. seed.order \in Ids \cup {None} /\ seed.entry \in Nat
    BY <2>2 DEF Row
  <2> HIDE DEF seed
  <2>4. Again(s) = [sym |-> s, status |-> "open", shares |-> q[s],
                    order |-> seed.order, exit |-> None, entry |-> seed.entry]
    BY DEF seed
  <2>5. Again(s) \in Row
    BY <2>1, <2>3, <2>4 DEF Row
  <2>6. seed.sym = Again(s).sym /\ seed.order = Again(s).order
    BY <2>2, <2>4 DEF seed
  <2>7. \E k \in DOMAIN rs : rs[k].sym = Again(s).sym /\ rs[k].order = Again(s).order
    BY <2>2, <2>6 DEF seed
  <2> QED BY <2>1, <2>5, <2>7 DEF IsAdded
<1> HIDE DEF Again
<1>4. /\ news \in Seq(Row) /\ Len(news) = Cardinality(back)
      /\ \A n \in 1 .. Len(news) :
           /\ IsAdded(news[n], q) /\ news[n].shares >= 1
           /\ news[n].status = "open" /\ news[n].exit = None
           /\ \E k \in DOMAIN rs : rs[k].sym = news[n].sym /\ rs[k].order = news[n].order
  <2>1. DOMAIN list = 1 .. Cardinality(back) /\ \A n \in 1 .. Cardinality(back) : list[n] \in back
    BY <1>2
  <2> DEFINE c == Cardinality(back)
  <2>2. news = [n \in 1 .. c |-> Again(list[n])] /\ c \in Nat
    BY <1>2, <2>1
  <2> HIDE DEF c, news, list, back
  <2>3. /\ news \in [1 .. c -> Row]
        /\ \A n \in 1 .. c :
             /\ IsAdded(news[n], q) /\ news[n].shares >= 1
             /\ news[n].status = "open" /\ news[n].exit = None
             /\ \E k \in DOMAIN rs : rs[k].sym = news[n].sym /\ rs[k].order = news[n].order
    BY <1>3, <2>1, <2>2 DEF c
  <2>4. news \in Seq(Row) /\ Len(news) = c
    <3>1. news \in [1 .. c -> Row] /\ c \in Nat
      BY <2>2, <2>3
    <3> QED BY <3>1, ListOf
  <2> QED BY <2>3, <2>4 DEF c
<1>5. Recovered(rs, q) = rs \o news
  BY DEF Recovered, Again
<1> DEFINE ns == rs \o news
<1> HIDE DEF news, list, back
<1>6. /\ ns \in Seq(Row) /\ Len(ns) = Len(rs) + Len(news)
      /\ \A i \in 1 .. Len(rs) + Len(news) :
           ns[i] = IF i <= Len(rs) THEN rs[i] ELSE news[i - Len(rs)]
  BY <1>4, ConcatProperties
<1> HIDE DEF ns
<1>7. Len(news) \in Nat /\ DOMAIN ns = 1 .. Len(rs) + Len(news)
  BY <1>4, <1>6
<1>8. \A i \in DOMAIN rs : i \in DOMAIN ns /\ ns[i] = rs[i]
  BY <1>1, <1>6, <1>7
<1>9. \A i \in DOMAIN ns :
        \/ i \in DOMAIN rs
        \/ /\ IsAdded(ns[i], q) /\ ns[i].shares >= 1 /\ ns[i].exit = None
           /\ \E k \in DOMAIN rs : rs[k].sym = ns[i].sym /\ rs[k].order = ns[i].order
  <2> SUFFICES ASSUME NEW i \in DOMAIN ns, i \notin DOMAIN rs
               PROVE  /\ IsAdded(ns[i], q) /\ ns[i].shares >= 1 /\ ns[i].exit = None
                      /\ \E k \in DOMAIN rs : rs[k].sym = ns[i].sym /\ rs[k].order = ns[i].order
    OBVIOUS
  <2>1. i - Len(rs) \in 1 .. Len(news) /\ ns[i] = news[i - Len(rs)]
    BY <1>1, <1>6, <1>7
  <2> QED BY <1>4, <2>1
<1>10. Descends(ns, rs)
  BY <1>8, <1>9 DEF Descends
<1> QED BY <1>1, <1>5, <1>6, <1>7, <1>8, <1>9, <1>10 DEF ns

\* Together: what Load makes of the rows.
LEMMA LoadedRows ==
  ASSUME rows \in Seq(Row), OpenHave(rows), NEW q \in [Symbols -> Nat], released \subseteq Symbols
  PROVE  Repaired(rows, Recovered(Reconciled(q), q), q)
<1> DEFINE rs == Reconciled(q)
           ns == Recovered(rs, q)
<1>1. Repaired(rows, rs, q)
  BY ReconciledRows
<1> HIDE DEF rs
<1>2. /\ ns \in Seq(Row) /\ Len(rs) <= Len(ns)
      /\ \A i \in DOMAIN rs : i \in DOMAIN ns /\ ns[i] = rs[i]
      /\ \A i \in DOMAIN ns : i \in DOMAIN rs \/ (IsAdded(ns[i], q) /\ ns[i].shares >= 1)
      /\ Descends(ns, rs)
  BY <1>1, RecoveredRows DEF Repaired
<1> HIDE DEF ns
<1>3. DOMAIN rows \subseteq DOMAIN rs /\ DOMAIN rs \subseteq DOMAIN ns
  BY <1>1, <1>2 DEF Repaired
<1>4. Len(rows) <= Len(ns)
  <2>1. Len(rows) <= Len(rs) /\ Len(rs) <= Len(ns) /\ rs \in Seq(Row)
    BY <1>1, <1>2 DEF Repaired
  <2>2. Len(rows) \in Nat /\ Len(rs) \in Nat /\ Len(ns) \in Nat
    BY <1>2, <2>1
  <2> QED BY <2>1, <2>2
<1>5. Descends(ns, rows)
  BY <1>1, <1>2 DEF Descends, Repaired
<1>6. Repaired(rows, ns, q)
  BY <1>1, <1>2, <1>3, <1>4, <1>5 DEF Repaired, OpenHave
<1> QED BY <1>6 DEF rs, ns

-----------------------------------------------------------------------------
(* Types                                                                    *)

Trader == [at : {"idle", "sync", "account", "load", "sell", "sold", "buy", "bought"},
           since : [Symbols -> Nat], mem : Seq(Row), todo : SUBSET Nat,
           acct : [cash : Int, equity : Int], row : Nat,
           order : Nat, slots : Int, rem : Int, held : SUBSET Symbols,
           cands : SUBSET Symbols, missed : BOOLEAN]

\* What a process holds in memory is of rows rs and orders os that there are.
Holds(t, rs, os) ==
  /\ t.todo \subseteq DOMAIN t.mem /\ Len(t.mem) <= Len(rs)
  /\ OpenHave(t.mem)
  /\ \A i \in t.todo : t.mem[i].status = "open"
  /\ t.at = "sold" => t.row \in DOMAIN t.mem
  /\ t.at \in {"sold", "bought"} => t.order \in DOMAIN os

TypeInv ==
  /\ BrokerOK
  /\ rows \in Seq(Row) /\ OpenHave(rows)
  /\ snap \in Seq(Order) /\ Len(snap) <= Len(orders)
  /\ known \in [Symbols -> Nat]
  /\ released \in SUBSET Symbols
  /\ trader \in [Traders -> Trader]
  /\ \A p \in Traders : Holds(trader[p], rows, orders)
  /\ faults \in 0..MaxFaults /\ user \in 0..MaxUser
  /\ moved \in [Traders -> SUBSET Symbols]
  /\ lost \in SUBSET Symbols /\ adrift \in SUBSET Symbols

\* The sum of values that are integers is one.
LEMMA SumsAreInts ==
  /\ \A f \in [Symbols -> Int] : MapThenSumSet(LAMBDA s : f[s], Symbols) \in Int
  /\ \A rs \in Seq(Row) : \A T \in SUBSET (DOMAIN rs) :
       MapThenSumSet(LAMBDA i : rs[i].shares, T) \in Int
  /\ \A os \in Seq(Order) : \A side : TotalUnfilled(os, side) \in Int
<1>1. ASSUME NEW f \in [Symbols -> Int]
      PROVE  MapThenSumSet(LAMBDA s : f[s], Symbols) \in Int
  <2>1. MapThenSumSet(LAMBDA s : f[s], Symbols) = (CHOOSE g : IsSum(g, f, Symbols))[Symbols]
    BY DEF MapThenSumSet, MapThenFoldSet, IsSum, AnyOf
  <2>2. Total(f, Symbols) \in Int
    BY BrokerAssumption, SumOf
  <2> QED BY <2>1, <2>2 DEF Total
<1>2. ASSUME NEW rs \in Seq(Row), NEW T \in SUBSET (DOMAIN rs)
      PROVE  MapThenSumSet(LAMBDA i : rs[i].shares, T) \in Int
  <2> DEFINE f == [i \in DOMAIN rs |-> rs[i].shares]
             mine(g) == g = [t \in SUBSET T |-> IF t = {} THEN 0
                               ELSE rs[AnyOf(t)].shares + g[t \ {AnyOf(t)}]]
  <2>1. MapThenSumSet(LAMBDA i : rs[i].shares, T) = (CHOOSE g : mine(g))[T]
    BY DEF MapThenSumSet, MapThenFoldSet, AnyOf
  <2>2. \A t \in SUBSET T : t # {} => f[AnyOf(t)] = rs[AnyOf(t)].shares
    BY DEF AnyOf
  <2>3. \A g : mine(g) <=> IsSum(g, f, T)
    <3> HIDE DEF f
    <3> QED BY <2>2 DEF IsSum
  <2>4. (CHOOSE g : mine(g)) = (CHOOSE g : IsSum(g, f, T))
    <3> HIDE DEF mine, f
    <3> QED BY <2>3
  <2>5. \A i \in T : f[i] \in Int
    <3>1. \A r \in Row : r.shares \in Int
      BY DEF Row
    <3>2. \A i \in DOMAIN rs : rs[i] \in Row
      OBVIOUS
    <3> QED BY <3>1, <3>2
  <2>6. IsFiniteSet(T)
    <3>1. T \subseteq 1 .. Len(rs) /\ Len(rs) \in Nat
      OBVIOUS
    <3>2. IsFiniteSet(1 .. Len(rs))
      BY <3>1, FS_Interval
    <3> QED BY <3>1, <3>2, FS_Subset
  <2>7. Total(f, T) \in Int
    <3> HIDE DEF f
    <3> QED BY <2>5, <2>6, SumOf
  <2> QED BY <2>1, <2>4, <2>7 DEF Total
<1>3. ASSUME NEW os \in Seq(Order), NEW side
      PROVE  TotalUnfilled(os, side) \in Int
  <2> DEFINE f == [s \in Symbols |-> Unfilled(os, side, s)]
             mine(g) == g = [t \in SUBSET Symbols |-> IF t = {} THEN 0
                               ELSE Unfilled(os, side, AnyOf(t)) + g[t \ {AnyOf(t)}]]
  <2>1. TotalUnfilled(os, side) = (CHOOSE g : mine(g))[Symbols]
    BY DEF TotalUnfilled, MapThenSumSet, MapThenFoldSet, AnyOf
  <2>2. \A t \in SUBSET Symbols : t # {} => f[AnyOf(t)] = Unfilled(os, side, AnyOf(t))
    BY DEF AnyOf
  <2>3. \A g : mine(g) <=> IsSum(g, f, Symbols)
    <3> HIDE DEF f
    <3> QED BY <2>2 DEF IsSum
  <2>4. (CHOOSE g : mine(g)) = (CHOOSE g : IsSum(g, f, Symbols))
    <3> HIDE DEF mine, f
    <3> QED BY <2>3
  <2>5. \A s \in Symbols : f[s] \in Int
    BY UnfilledMoves
  <2>6. Total(f, Symbols) \in Int
    <3> HIDE DEF f
    <3> QED BY <2>5, BrokerAssumption, SumOf
  <2> QED BY <2>1, <2>4, <2>6 DEF Total
<1> QED BY <1>1, <1>2, <1>3

\* The cash guard and the slots are numbers.
LEMMA GuardsAreInts ==
  ASSUME NEW acct \in [cash : Int, equity : Int], NEW q \in [Symbols -> Nat], NEW rs \in Seq(Row),
         snap \in Seq(Order)
  PROVE  Deployable(acct, q, rs) \in Int /\ Slots(q, rs) \in Int
<1>1. ASSUME NEW a \in Int, NEW b \in Int PROVE Min({a, b}) \in Int /\ Max({a, b}) \in Int
  <2>1. /\ \E x \in {a, b} : \A y \in {a, b} : x <= y
        /\ \E x \in {a, b} : \A y \in {a, b} : x >= y
    OBVIOUS
  <2> QED BY <2>1 DEF Min, Max
<1> DEFINE long == MapThenSumSet(LAMBDA s : q[s], Symbols)
           local == MapThenSumSet(LAMBDA i : rs[i].shares, {i \in DOMAIN rs : rs[i].status = "open"})
           unfilled == TotalUnfilled(snap, "buy")
<1>2. long \in Int /\ local \in Int /\ unfilled \in Int
  <2>1. q \in [Symbols -> Int] /\ {i \in DOMAIN rs : rs[i].status = "open"} \in SUBSET (DOMAIN rs)
    OBVIOUS
  <2>2. long \in Int
    BY <2>1, SumsAreInts
  <2>3. local \in Int
    BY <2>1, SumsAreInts
  <2>4. unfilled \in Int
    BY SumsAreInts
  <2> QED BY <2>2, <2>3, <2>4
<1>3. Deployable(acct, q, rs) = Min({acct.cash, acct.equity - Max({long, local}) - unfilled})
  BY DEF Deployable
<1> HIDE DEF long, local, unfilled
<1>4. acct.equity - Max({long, local}) - unfilled \in Int /\ acct.cash \in Int
  <2>1. Max({long, local}) \in Int
    BY <1>1, <1>2
  <2>2. acct.equity \in Int /\ acct.cash \in Int
    OBVIOUS
  <2> QED BY <1>2, <2>1, <2>2
<1>5. Deployable(acct, q, rs) \in Int
  BY <1>1, <1>3, <1>4
<1>6. Cardinality({s \in Symbols : q[s] > 0 \/ OpenRows(rs, s) # {}}) \in Nat
  <2> DEFINE S == {s \in Symbols : q[s] > 0 \/ OpenRows(rs, s) # {}}
  <2>1. S \subseteq Symbols
    OBVIOUS
  <2> HIDE DEF S
  <2>2. Cardinality(S) \in Nat
    BY <2>1, BrokerAssumption, FS_Subset, FS_CardinalityType
  <2> QED BY <2>2 DEF S
<1>7. Slots(q, rs) \in Int
  BY <1>6, AutoAssumption DEF Slots
<1> QED BY <1>5, <1>7

\* A process goes from one form to another.
LEMMA ProcessGoes ==
  ASSUME TypeInv, NEW p \in Traders, NEW t \in Trader, Goes(p, t), Holds(t, rows', orders'),
         DOMAIN orders \subseteq DOMAIN orders', Len(rows) <= Len(rows'), rows' \in Seq(Row)
  PROVE  trader' \in [Traders -> Trader] /\ \A r \in Traders : Holds(trader'[r], rows', orders')
<1>1. trader' = [trader EXCEPT ![p] = t] /\ trader \in [Traders -> Trader]
  BY DEF Goes, TypeInv
<1>2. trader' \in [Traders -> Trader] /\ trader'[p] = t
      /\ \A r \in Traders : r # p => trader'[r] = trader[r]
  BY <1>1
<1>3. ASSUME NEW r \in Traders, r # p PROVE Holds(trader[r], rows', orders')
  <2>1. trader[r] \in Trader /\ Holds(trader[r], rows, orders)
    BY <1>1 DEF TypeInv
  <2>2. \A x \in Trader : x.mem \in Seq(Row)
    BY DEF Trader
  <2>3. Len(trader[r].mem) \in Nat /\ Len(rows) \in Nat /\ Len(rows') \in Nat
    BY <2>1, <2>2 DEF TypeInv
  <2> QED BY <2>1, <2>3 DEF Holds
<1> QED BY <1>2, <1>3

\* Nobody moves.
LEMMA ProcessesStay ==
  ASSUME TypeInv, UNCHANGED trader,
         DOMAIN orders \subseteq DOMAIN orders', Len(rows) <= Len(rows'), rows' \in Seq(Row)
  PROVE  trader' \in [Traders -> Trader] /\ \A r \in Traders : Holds(trader'[r], rows', orders')
<1>1. trader \in [Traders -> Trader]
  BY DEF TypeInv
<1>3. ASSUME NEW r \in Traders PROVE Holds(trader[r], rows', orders')
  <2>1. trader[r] \in Trader /\ Holds(trader[r], rows, orders)
    BY <1>1 DEF TypeInv
  <2>2. \A x \in Trader : x.mem \in Seq(Row)
    BY DEF Trader
  <2>3. Len(trader[r].mem) \in Nat /\ Len(rows) \in Nat /\ Len(rows') \in Nat
    BY <2>1, <2>2 DEF TypeInv
  <2> QED BY <2>1, <2>3 DEF Holds
<1> QED BY <1>1, <1>3

\* A process at rest.
LEMMA IdleHolds ==
  Idle \in Trader /\ \A rs, os : Len(rs) \in Nat => Holds(Idle, rs, os)
<1> PICK no \in BOOLEAN : no = FALSE
  OBVIOUS
<1>1. Idle = [at |-> "idle", since |-> [s \in Symbols |-> 0], mem |-> <<>>, todo |-> {},
              acct |-> NoAccount, row |-> 0, order |-> 0, slots |-> 0, rem |-> 0, held |-> {},
              cands |-> {}, missed |-> no]
  BY Zenon DEF Idle
<1>2. NoAccount \in [cash : Int, equity : Int] /\ <<>> \in Seq(Row)
      /\ [s \in Symbols |-> 0] \in [Symbols -> Nat]
  BY DEF NoAccount
<1>3. Idle \in Trader
  BY <1>1, <1>2 DEF Trader
<1>4. Idle.at = "idle" /\ Idle.mem = <<>> /\ Idle.todo = {}
  BY <1>1
<1>5. \A rs, os : Len(rs) \in Nat => Holds(Idle, rs, os)
  <2>1. Len(<<>>) = 0 /\ DOMAIN <<>> = {}
    OBVIOUS
  <2> QED BY <1>4, <2>1 DEF Holds, OpenHave
<1> QED BY <1>3, <1>5

Resynced == (snap' = snap /\ known' = known) \/ SyncHistory

\* The history that is kept of steps has its types.
HistoryTyped ==
  moved' \in [Traders -> SUBSET Symbols] /\ lost' \in SUBSET Symbols /\ adrift' \in SUBSET Symbols

\* The copy of the orders stays one of some of them.
LEMMA ResyncKeeps ==
  ASSUME TypeInv, Resynced, Len(orders) <= Len(orders'), orders' \in Seq(Order)
  PROVE  snap' \in Seq(Order) /\ Len(snap') <= Len(orders') /\ known' \in [Symbols -> Nat]
<1>1. /\ snap \in Seq(Order) /\ Len(snap) <= Len(orders) /\ known \in [Symbols -> Nat]
      /\ orders \in Seq(Order) /\ sold \in [Symbols -> Nat]
  BY DEF TypeInv, BrokerOK, BrokerTypeOK
<1>2. Len(snap) \in Nat /\ Len(orders) \in Nat /\ Len(orders') \in Nat
  BY <1>1
<1> QED BY <1>1, <1>2 DEF Resynced, SyncHistory

\* A step of a process that leaves the broker and the rows alone.
LEMMA QuietStep ==
  ASSUME TypeInv, NEW p \in Traders, NEW t \in Trader, Goes(p, t), Holds(t, rows, orders),
         UNCHANGED <<brokerVars, rows, released, user>>, Resynced, faults' \in 0..MaxFaults, HistoryTyped
  PROVE  TypeInv'
<1>1. UNCHANGED <<orders, shares, sold, cash, rows, released, user>>
  BY DEF brokerVars
<1>2. /\ rows \in Seq(Row) /\ OpenHave(rows) /\ orders \in Seq(Order)
  BY DEF TypeInv, BrokerOK, BrokerTypeOK
<1>3. Len(rows) \in Nat /\ Len(orders) \in Nat
  BY <1>2
<1>4. Holds(t, rows', orders') /\ Len(rows) <= Len(rows') /\ rows' \in Seq(Row)
      /\ DOMAIN orders \subseteq DOMAIN orders' /\ Len(orders) <= Len(orders')
      /\ orders' \in Seq(Order)
  BY <1>1, <1>2, <1>3
<1>5. trader' \in [Traders -> Trader] /\ \A r \in Traders : Holds(trader'[r], rows', orders')
  BY <1>4, ProcessGoes
<1>6. snap' \in Seq(Order) /\ Len(snap') <= Len(orders') /\ known' \in [Symbols -> Nat]
  BY <1>4, ResyncKeeps
<1>7. BrokerOK'
  BY <1>1 DEF TypeInv, BrokerOK, BrokerTypeOK, LiveAreOpen
<1>8. rows' \in Seq(Row) /\ OpenHave(rows') /\ released' \in SUBSET Symbols /\ user' \in 0..MaxUser
  BY <1>1, <1>2 DEF TypeInv
<1> QED BY <1>5, <1>6, <1>7, <1>8 DEF TypeInv, HistoryTyped

\* What an order, a row or a place that a process has in memory is.
LEMMA InMemory ==
  ASSUME TypeInv, NEW p \in Traders
  PROVE  /\ trader[p] \in Trader /\ Holds(trader[p], rows, orders)
         /\ \A i \in DOMAIN trader[p].mem : trader[p].mem[i] \in Row /\ i \in DOMAIN rows
         /\ InFlight(p) => /\ trader[p].order \in DOMAIN orders /\ trader[p].order \in Ids
                           /\ orders[trader[p].order].sym \in Symbols
         /\ \A i \in DOMAIN rows : rows[i] \in Row /\ rows[i].sym \in Symbols
<1>1. trader[p] \in Trader /\ Holds(trader[p], rows, orders)
  BY DEF TypeInv
<1>2. trader[p].mem \in Seq(Row) /\ rows \in Seq(Row) /\ orders \in Seq(Order)
  BY <1>1 DEF Trader, TypeInv, BrokerOK, BrokerTypeOK
<1>3. \A i \in DOMAIN trader[p].mem : trader[p].mem[i] \in Row /\ i \in DOMAIN rows
  <2>1. Len(trader[p].mem) <= Len(rows)
    BY <1>1 DEF Holds
  <2> DEFINE m == trader[p].mem
  <2> HIDE DEF m
  <2>2. m \in Seq(Row) /\ Len(m) <= Len(rows)
    BY <1>2, <2>1 DEF m
  <2>3. \A i \in DOMAIN m : m[i] \in Row /\ i \in DOMAIN rows
    BY <1>2, <2>2
  <2> QED BY <2>3 DEF m
<1>4. \A i \in DOMAIN orders : i \in Ids /\ orders[i].sym \in Symbols
  <2>1. \A o \in Order : o.sym \in Symbols
    BY DEF Order
  <2>2. \A i \in DOMAIN orders : i \in Nat \ {0} /\ orders[i] \in Order
    BY <1>2
  <2> QED BY <2>1, <2>2 DEF Ids
<1>5. \A i \in DOMAIN rows : rows[i] \in Row /\ rows[i].sym \in Symbols
  <2>1. \A r \in Row : r.sym \in Symbols
    BY DEF Row
  <2>2. \A i \in DOMAIN rows : rows[i] \in Row
    BY <1>2
  <2> QED BY <2>1, <2>2
<1>6. InFlight(p) => trader[p].order \in DOMAIN orders
  BY <1>1 DEF Holds, InFlight
<1> QED BY <1>1, <1>3, <1>4, <1>5, <1>6

\* Steps of the cycle that read.
LEMMA ReadingKeeps ==
  ASSUME TypeInv, NEW p \in Traders,
         Begin(p) \/ Sync(p) \/ FetchAccount(p) \/ Hold(p) \/ FindCandidates(p) \/ EndCycle(p)
  PROVE  TypeInv'
<1>1. trader[p] \in Trader /\ Holds(trader[p], rows, orders)
  BY InMemory
<1>2. /\ moved \in [Traders -> SUBSET Symbols] /\ lost \in SUBSET Symbols
      /\ adrift \in SUBSET Symbols
      /\ faults \in 0..MaxFaults /\ rows \in Seq(Row)
      /\ sold \in [Symbols -> Nat] /\ shares \in [Symbols -> Int] /\ cash \in Int
  BY DEF TypeInv, BrokerOK, BrokerTypeOK
<1>3. Idle \in Trader /\ Holds(Idle, rows, orders)
  <2>1. Len(rows) \in Nat
    BY <1>2
  <2> QED BY <2>1, IdleHolds
<1>4. ASSUME NEW T \in SUBSET Symbols
      PROVE  [moved EXCEPT ![p] = T] \in [Traders -> SUBSET Symbols]
  BY <1>2
<1>5. CASE Begin(p)
  <2>1. PICK t \in Trader : t = [Idle EXCEPT !.at = "sync", !.since = sold]
    <3>1. [Idle EXCEPT !.at = "sync", !.since = sold] \in Trader
      BY <1>2, <1>3 DEF Trader
    <3> QED BY <3>1
  <2>2. t.at = "sync" /\ t.mem = Idle.mem /\ t.todo = Idle.todo
    BY <1>3, <2>1 DEF Trader
  <2>3. Holds(t, rows, orders)
    BY <1>3, <2>2 DEF Holds
  <2>4. /\ Goes(p, t)
        /\ UNCHANGED <<brokerVars, rows, snap, known, released, faults, user, moved, lost, adrift>>
    BY <1>5, <2>1 DEF Begin
  <2>5. Resynced /\ HistoryTyped /\ faults' \in 0..MaxFaults
    BY <1>2, <2>4 DEF Resynced, HistoryTyped
  <2> QED BY <2>3, <2>4, <2>5, QuietStep
<1>6. CASE Sync(p)
  <2>1. PICK t \in Trader : t = [trader[p] EXCEPT !.at = "account"]
    <3>1. [trader[p] EXCEPT !.at = "account"] \in Trader
      BY <1>1 DEF Trader
    <3> QED BY <3>1
  <2>2. t.at = "account" /\ t.mem = trader[p].mem /\ t.todo = trader[p].todo
    BY <1>1, <2>1 DEF Trader
  <2>3. Holds(t, rows, orders)
    BY <1>1, <2>2 DEF Holds
  <2>4. /\ Goes(p, t) /\ UNCHANGED <<brokerVars, rows, released, faults, user, moved, lost, adrift>>
        /\ SyncHistory
    BY <1>6, <2>1 DEF Sync
  <2>5. Resynced /\ HistoryTyped /\ faults' \in 0..MaxFaults
    BY <1>2, <2>4 DEF Resynced, HistoryTyped
  <2> QED BY <2>3, <2>4, <2>5, QuietStep
<1>7. CASE FetchAccount(p)
  <2> DEFINE acct == [cash |-> cash, equity |-> cash + MapThenSumSet(LAMBDA s : shares[s], Symbols)]
  <2>0. acct \in [cash : Int, equity : Int]
    <3>1. MapThenSumSet(LAMBDA s : shares[s], Symbols) \in Int
      BY <1>2, SumsAreInts
    <3> QED BY <1>2, <3>1
  <2>1. PICK t \in Trader : t = [trader[p] EXCEPT !.at = "load", !.acct = acct]
    <3> HIDE DEF acct
    <3>1. [trader[p] EXCEPT !.at = "load", !.acct = acct] \in Trader
      BY <1>1, <2>0 DEF Trader
    <3> QED BY <3>1
  <2>2. t.at = "load" /\ t.mem = trader[p].mem /\ t.todo = trader[p].todo
    <3> HIDE DEF acct
    <3> QED BY <1>1, <2>1 DEF Trader
  <2>3. Holds(t, rows, orders)
    BY <1>1, <2>2 DEF Holds
  <2>4. /\ Goes(p, t)
        /\ UNCHANGED <<brokerVars, rows, snap, known, released, faults, user, moved, lost, adrift>>
    BY <1>7, <2>1 DEF FetchAccount
  <2>5. Resynced /\ HistoryTyped /\ faults' \in 0..MaxFaults
    BY <1>2, <2>4 DEF Resynced, HistoryTyped
  <2> QED BY <2>3, <2>4, <2>5, QuietStep
<1>8. CASE Hold(p)
  <2> DEFINE rest == trader[p].todo \ {Next1(p)}
  <2>1. PICK t \in Trader : t = [trader[p] EXCEPT !.todo = rest]
    <3>1. rest \in SUBSET Nat
      BY <1>1 DEF Trader
    <3> HIDE DEF rest
    <3>2. [trader[p] EXCEPT !.todo = rest] \in Trader
      BY <1>1, <3>1 DEF Trader
    <3> QED BY <3>2
  <2>2. t.at = trader[p].at /\ t.mem = trader[p].mem /\ t.todo \subseteq trader[p].todo
        /\ t.row = trader[p].row /\ t.order = trader[p].order
    BY <1>1, <2>1 DEF Trader
  <2>3. Holds(t, rows, orders)
    BY <1>1, <2>2 DEF Holds
  <2>4. /\ Goes(p, t)
        /\ UNCHANGED <<brokerVars, rows, snap, known, released, faults, user, moved, lost, adrift>>
    BY <1>8, <2>1 DEF Hold
  <2>5. Resynced /\ HistoryTyped /\ faults' \in 0..MaxFaults
    BY <1>2, <2>4 DEF Resynced, HistoryTyped
  <2> QED BY <2>3, <2>4, <2>5, QuietStep
<1>9. CASE FindCandidates(p)
  <2> DEFINE cands == {s \in Symbols \ trader[p].held : OpenRows(rows, s) = {}}
  <2>1. PICK t \in Trader :
          t = [trader[p] EXCEPT !.at = "buy", !.mem = <<>>, !.held = {}, !.cands = cands]
    <3>1. cands \in SUBSET Symbols /\ <<>> \in Seq(Row) /\ {} \in SUBSET Symbols
      OBVIOUS
    <3> HIDE DEF cands
    <3>2. [trader[p] EXCEPT !.at = "buy", !.mem = <<>>, !.held = {}, !.cands = cands] \in Trader
      BY <1>1, <3>1 DEF Trader
    <3> QED BY <3>2
  <2>2. t.at = "buy" /\ t.mem = <<>> /\ t.todo = trader[p].todo /\ trader[p].todo = {}
    <3> HIDE DEF cands
    <3> QED BY <1>1, <1>9, <2>1 DEF Trader, FindCandidates
  <2>3. Holds(t, rows, orders)
    <3>1. Len(<<>>) = 0 /\ DOMAIN <<>> = {} /\ Len(rows) \in Nat
      BY <1>2
    <3> QED BY <2>2, <3>1 DEF Holds, OpenHave
  <2>4. /\ Goes(p, t)
        /\ UNCHANGED <<brokerVars, rows, snap, known, released, faults, user, lost, adrift>>
        /\ moved' = [moved EXCEPT ![p] = {}]
    BY <1>9, <2>1 DEF FindCandidates
  <2>5. Resynced /\ HistoryTyped /\ faults' \in 0..MaxFaults
    BY <1>2, <1>4, <2>4 DEF Resynced, HistoryTyped
  <2> QED BY <2>3, <2>4, <2>5, QuietStep
<1>10. CASE EndCycle(p)
  <2>4. /\ Goes(p, Idle)
        /\ UNCHANGED <<brokerVars, rows, snap, known, released, faults, user, lost, adrift>>
        /\ moved' = [moved EXCEPT ![p] = {}]
    BY <1>10 DEF EndCycle
  <2>5. Resynced /\ HistoryTyped /\ faults' \in 0..MaxFaults
    BY <1>2, <1>4, <2>4 DEF Resynced, HistoryTyped
  <2>6. PICK t \in Trader : t = Idle
    BY <1>3
  <2>7. Goes(p, t) /\ Holds(t, rows, orders)
    BY <1>3, <2>4, <2>6
  <2> QED BY <2>4, <2>5, <2>7, QuietStep
<1> QED BY <1>5, <1>6, <1>7, <1>8, <1>9, <1>10

\* A step after which everything has its type.
LEMMA StepTyped ==
  ASSUME TypeInv, BrokerOK', Follow(orders, orders'), Resynced, HistoryTyped,
         rows' \in Seq(Row), OpenHave(rows'),
         trader' \in [Traders -> Trader], \A r \in Traders : Holds(trader'[r], rows', orders'),
         released' \in SUBSET Symbols, faults' \in 0..MaxFaults, user' \in 0..MaxUser
  PROVE  TypeInv'
<1>1. Len(orders) <= Len(orders') /\ orders' \in Seq(Order)
  BY DEF Follow, BrokerOK, BrokerTypeOK
<1>2. snap' \in Seq(Order) /\ Len(snap') <= Len(orders') /\ known' \in [Symbols -> Nat]
  BY <1>1, ResyncKeeps
<1> QED BY <1>2 DEF TypeInv, HistoryTyped

\* The row that is next is one of those left, and is open in memory.
LEMMA NextIsLeft ==
  ASSUME TypeInv, NEW p \in Traders, trader[p].todo # {}
  PROVE  /\ Next1(p) \in trader[p].todo /\ Next1(p) \in DOMAIN trader[p].mem
         /\ Next1(p) \in Nat /\ trader[p].todo \subseteq Nat
         /\ trader[p].mem[Next1(p)].status = "open"
         /\ trader[p].mem[Next1(p)].sym \in Symbols
         /\ trader[p].mem[Next1(p)].shares \in Nat \ {0}
<1>1. trader[p] \in Trader /\ Holds(trader[p], rows, orders)
  BY InMemory
<1>2. trader[p].todo \subseteq Nat
  BY <1>1 DEF Trader
<1>3. Next1(p) \in trader[p].todo
  BY <1>2, Least DEF Next1, Min
<1>4. Next1(p) \in DOMAIN trader[p].mem /\ trader[p].mem[Next1(p)].status = "open"
  BY <1>1, <1>3 DEF Holds
<1>5. trader[p].mem[Next1(p)] \in Row /\ trader[p].mem[Next1(p)].shares >= 1
  BY <1>1, <1>4, InMemory DEF Holds, OpenHave
<1>6. \A r \in Row : r.sym \in Symbols /\ r.shares \in Nat
  BY DEF Row
<1> QED BY <1>2, <1>3, <1>4, <1>5, <1>6

\* A process may still spend what it may.
SamePurse(t, u) == t.slots = u.slots /\ t.rem = u.rem /\ t.missed = u.missed

\* What a sell order leaves: the process waits for the reply.
LEMMA SellSent ==
  ASSUME TypeInv, NEW p \in Traders, Sell(p)
  PROVE  /\ trader[p].todo # {} /\ trader[p].at = "sell" /\ ~ExitActive(trader[p].mem[Next1(p)].exit)
         /\ Place(trader[p].mem[Next1(p)].sym, "sell", trader[p].mem[Next1(p)].shares)
         /\ \E t \in Trader :
              /\ Goes(p, t) /\ t.at = "sold" /\ t.mem = trader[p].mem /\ t.held = trader[p].held
              /\ t.todo = trader[p].todo \ {Next1(p)} /\ t.row = Next1(p) /\ t.order = Len(orders) + 1
              /\ SamePurse(t, trader[p])
         /\ UNCHANGED <<rows, snap, known, released, faults, user, moved, lost, adrift>>
<1>1. trader[p] \in Trader
  BY InMemory
<1> DEFINE i == Next1(p)
           rest == trader[p].todo \ {i}
           n == Len(orders) + 1
           t == [trader[p] EXCEPT !.at = "sold", !.todo = rest, !.row = i, !.order = n]
<1>2. /\ trader[p].todo # {} /\ trader[p].at = "sell" /\ ~ExitActive(trader[p].mem[i].exit)
      /\ Place(trader[p].mem[i].sym, "sell", trader[p].mem[i].shares)
      /\ Goes(p, t)
      /\ UNCHANGED <<rows, snap, known, released, faults, user, moved, lost, adrift>>
  BY DEF Sell
<1>3. i \in Nat /\ rest \in SUBSET Nat
  BY <1>2, NextIsLeft
<1>4. n \in Nat
  <2>1. orders \in Seq(Order)
    BY DEF TypeInv, BrokerOK, BrokerTypeOK
  <2> QED BY <2>1
<1>5. t \in Trader /\ t.at = "sold" /\ t.mem = trader[p].mem /\ t.held = trader[p].held
      /\ t.todo = rest /\ t.row = i /\ t.order = n /\ SamePurse(t, trader[p])
  <2> HIDE DEF i, rest, n
  <2> QED BY <1>1, <1>3, <1>4 DEF Trader, SamePurse
<1> HIDE DEF t
<1> QED BY <1>2, <1>5

\* The same of a buy order.
LEMMA BuySent ==
  ASSUME TypeInv, NEW p \in Traders, NEW s \in Symbols, Buy(p, s)
  PROVE  /\ trader[p].at = "buy" /\ Place(s, "buy", Lot) /\ Lot \in Nat \ {0}
         /\ s \in trader[p].cands /\ OpenRows(rows, s) = {}
         /\ trader[p].slots > 0 /\ Lot <= trader[p].rem
         /\ \E t \in Trader :
              /\ Goes(p, t) /\ t.at = "bought" /\ t.mem = trader[p].mem
              /\ t.todo = trader[p].todo /\ t.order = Len(orders) + 1
              /\ t.cands = trader[p].cands \ {s} /\ SamePurse(t, trader[p])
         /\ UNCHANGED <<rows, snap, known, released, faults, user, moved, lost, adrift>>
<1>1. trader[p] \in Trader
  BY InMemory
<1> DEFINE rest == trader[p].cands \ {s}
           n == Len(orders) + 1
           t == [trader[p] EXCEPT !.at = "bought", !.cands = rest, !.order = n]
<1>2. /\ trader[p].at = "buy" /\ Place(s, "buy", Lot) /\ Lot \in Nat \ {0}
      /\ s \in trader[p].cands /\ OpenRows(rows, s) = {}
      /\ trader[p].slots > 0 /\ Lot <= trader[p].rem
      /\ Goes(p, t)
      /\ UNCHANGED <<rows, snap, known, released, faults, user, moved, lost, adrift>>
  BY AutoAssumption DEF Buy
<1>3. rest \in SUBSET Symbols
  BY <1>1 DEF Trader
<1>4. n \in Nat
  <2>1. orders \in Seq(Order)
    BY DEF TypeInv, BrokerOK, BrokerTypeOK
  <2> QED BY <2>1
<1>5. t \in Trader /\ t.at = "bought" /\ t.mem = trader[p].mem
      /\ t.todo = trader[p].todo /\ t.order = n /\ t.cands = rest /\ SamePurse(t, trader[p])
  <2> HIDE DEF rest, n
  <2> QED BY <1>1, <1>3, <1>4 DEF Trader, SamePurse
<1> HIDE DEF t
<1> QED BY <1>2, <1>5

\* Steps that send an order.
LEMMA SendingKeeps ==
  ASSUME TypeInv, NEW p \in Traders, Sell(p) \/ \E s \in Symbols : Buy(p, s)
  PROVE  TypeInv'
<1>1. trader[p] \in Trader /\ Holds(trader[p], rows, orders)
  BY InMemory
<1>2. BrokerOK /\ rows \in Seq(Row) /\ OpenHave(rows) /\ released \in SUBSET Symbols
      /\ moved \in [Traders -> SUBSET Symbols] /\ lost \in SUBSET Symbols
      /\ adrift \in SUBSET Symbols
      /\ faults \in 0..MaxFaults /\ user \in 0..MaxUser
  BY DEF TypeInv
<1>3. ASSUME NEW t \in Trader, Goes(p, t), Holds(t, rows, orders'),
             BrokerOK', Follow(orders, orders'),
             UNCHANGED <<rows, snap, known, released, faults, user, moved, lost, adrift>>
      PROVE  TypeInv'
  <2>1. Resynced /\ HistoryTyped /\ rows' = rows /\ released' \in SUBSET Symbols
        /\ faults' \in 0..MaxFaults /\ user' \in 0..MaxUser
    BY <1>2, <1>3 DEF Resynced, HistoryTyped
  <2>2. Len(rows) <= Len(rows') /\ rows' \in Seq(Row) /\ OpenHave(rows')
    <3>1. Len(rows) \in Nat
      BY <1>2
    <3> QED BY <1>2, <2>1, <3>1
  <2>3. DOMAIN orders \subseteq DOMAIN orders' /\ Holds(t, rows', orders')
    BY <1>3, <2>1 DEF Follow
  <2>4. trader' \in [Traders -> Trader] /\ \A r \in Traders : Holds(trader'[r], rows', orders')
    BY <1>3, <2>2, <2>3, ProcessGoes
  <2> QED BY <1>3, <2>1, <2>2, <2>4, StepTyped
<1>4. CASE Sell(p)
  <2> DEFINE s == trader[p].mem[Next1(p)].sym
             qty == trader[p].mem[Next1(p)].shares
  <2>1. trader[p].todo # {} /\ Place(s, "sell", qty)
        /\ UNCHANGED <<rows, snap, known, released, faults, user, moved, lost, adrift>>
    BY <1>4, SellSent
  <2>2. s \in Symbols /\ qty \in Nat \ {0} /\ Next1(p) \in DOMAIN trader[p].mem
    BY <2>1, NextIsLeft
  <2>3. PICK t \in Trader :
          /\ Goes(p, t) /\ t.at = "sold" /\ t.mem = trader[p].mem
          /\ t.todo = trader[p].todo \ {Next1(p)} /\ t.row = Next1(p) /\ t.order = Len(orders) + 1
    BY <1>4, SellSent
  <2> HIDE DEF s, qty
  <2>4. BrokerOK' /\ Follow(orders, orders') /\ Len(orders) + 1 \in DOMAIN orders'
    BY <1>2, <2>1, <2>2, PlaceKeeps
  <2>5. Holds(t, rows, orders')
    BY <1>1, <2>2, <2>3, <2>4 DEF Holds
  <2> QED BY <1>3, <2>1, <2>3, <2>4, <2>5
<1>5. ASSUME NEW s \in Symbols, Buy(p, s) PROVE TypeInv'
  <2>1. Place(s, "buy", Lot) /\ Lot \in Nat \ {0} /\ trader[p].at = "buy"
        /\ UNCHANGED <<rows, snap, known, released, faults, user, moved, lost, adrift>>
    BY <1>5, BuySent
  <2>3. PICK t \in Trader :
          /\ Goes(p, t) /\ t.at = "bought" /\ t.mem = trader[p].mem
          /\ t.todo = trader[p].todo /\ t.order = Len(orders) + 1
    BY <1>5, BuySent
  <2>4. BrokerOK' /\ Follow(orders, orders') /\ Len(orders) + 1 \in DOMAIN orders'
    BY <1>2, <2>1, PlaceKeeps
  <2>5. Holds(t, rows, orders')
    BY <1>1, <2>3, <2>4 DEF Holds
  <2> QED BY <1>3, <2>1, <2>3, <2>4, <2>5
<1> QED BY <1>4, <1>5

\* A reply without an id is counted among the faults.
LEMMA RepliesAreFaults ==
  ASSUME faults \in 0..MaxFaults, NEW id, Replied(id)
  PROVE  faults' \in 0..MaxFaults
<1> QED BY AutoAssumption DEF Replied, Fault

\* What the reply to a sell order changes.
LEMMA SellRecorded ==
  ASSUME TypeInv, NEW p \in Traders, NEW synced \in BOOLEAN, NEW id \in {trader[p].order, None},
         RecordSell(p, synced, id)
  PROVE  /\ trader[p].at = "sold" /\ trader[p].row \in DOMAIN rows /\ Resynced
         /\ rows' \in Seq(Row) /\ DOMAIN rows' = DOMAIN rows /\ Len(rows') = Len(rows)
         /\ \A i \in DOMAIN rows :
              /\ rows'[i].sym = rows[i].sym /\ rows'[i].status = rows[i].status
              /\ rows'[i].shares = rows[i].shares /\ rows'[i].order = rows[i].order
              /\ rows'[i].exit = IF i = trader[p].row /\ rows[i].status = "open"
                                 THEN id ELSE rows[i].exit
         /\ lost \subseteq lost' /\ lost' \in SUBSET Symbols
         /\ rows[trader[p].row].status # "open" \/ id = None => rows[trader[p].row].sym \in lost'
         /\ faults' \in 0..MaxFaults
         /\ \E t \in Trader : /\ Goes(p, t) /\ t.at = "sell" /\ t.mem = trader[p].mem
                              /\ t.todo = trader[p].todo /\ t.held = trader[p].held
                              /\ SamePurse(t, trader[p])
         /\ UNCHANGED <<brokerVars, released, user, moved, adrift>>
<1> DEFINE i == trader[p].row
<1>1. /\ trader[p] \in Trader /\ Holds(trader[p], rows, orders) /\ rows \in Seq(Row)
      /\ lost \in SUBSET Symbols /\ faults \in 0..MaxFaults
  BY InMemory DEF TypeInv
<1>2. trader[p].at = "sold" /\ Resynced /\ Replied(id)
      /\ UNCHANGED <<brokerVars, released, user, moved, adrift>>
  BY DEF RecordSell, Resync, Resynced
<1>3. i \in DOMAIN rows /\ rows[i] \in Row /\ rows[i].sym \in Symbols /\ id \in Ids \cup {None}
  BY <1>1, <1>2, InMemory DEF Holds, InFlight
<1>4. /\ rows' = IF rows[i].status = "open" THEN [rows EXCEPT ![i].exit = id] ELSE rows
      /\ lost' = IF rows[i].status = "open" /\ id # None THEN lost ELSE lost \cup {rows[i].sym}
  BY DEF RecordSell
<1>5. /\ lost \subseteq lost' /\ lost' \in SUBSET Symbols
      /\ (rows[i].status # "open" \/ id = None => rows[i].sym \in lost')
      /\ faults' \in 0..MaxFaults
  BY <1>1, <1>2, <1>3, <1>4, RepliesAreFaults
<1>6. PICK t \in Trader : t = [trader[p] EXCEPT !.at = "sell", !.row = 0, !.order = 0]
  <2>1. [trader[p] EXCEPT !.at = "sell", !.row = 0, !.order = 0] \in Trader
    BY <1>1 DEF Trader
  <2> QED BY <2>1
<1>7. Goes(p, t) /\ t.at = "sell" /\ t.mem = trader[p].mem /\ t.todo = trader[p].todo
      /\ t.held = trader[p].held /\ SamePurse(t, trader[p])
  BY <1>1, <1>6 DEF RecordSell, Trader, SamePurse
<1>8. \A j \in DOMAIN rows : rows[j] \in Row
  BY <1>1
<1>9. /\ rows' \in Seq(Row) /\ DOMAIN rows' = DOMAIN rows /\ Len(rows') = Len(rows)
      /\ \A j \in DOMAIN rows :
           /\ rows'[j].sym = rows[j].sym /\ rows'[j].status = rows[j].status
           /\ rows'[j].shares = rows[j].shares /\ rows'[j].order = rows[j].order
           /\ rows'[j].exit = IF j = i /\ rows[j].status = "open" THEN id ELSE rows[j].exit
  <2> DEFINE new == [rows[i] EXCEPT !.exit = id]
  <2> HIDE DEF i
  <2>1. CASE rows[i].status = "open"
    <3>1. new \in Row /\ new.sym = rows[i].sym /\ new.status = rows[i].status
          /\ new.shares = rows[i].shares /\ new.order = rows[i].order /\ new.exit = id
      BY <1>3 DEF Row
    <3>2. rows' = [rows EXCEPT ![i] = new]
      BY <1>4, <2>1
    <3> HIDE DEF new
    <3>3. /\ rows' \in Seq(Row) /\ DOMAIN rows' = DOMAIN rows /\ Len(rows') = Len(rows)
          /\ rows'[i] = new /\ \A j \in DOMAIN rows : j # i => rows'[j] = rows[j]
      BY <1>1, <1>3, <3>1, <3>2
    <3> QED BY <2>1, <3>1, <3>3
  <2>2. CASE rows[i].status # "open"
    BY <1>1, <1>4, <2>2
  <2> QED BY <2>1, <2>2
<1> QED BY <1>2, <1>3, <1>5, <1>7, <1>9

\* What the reply to a buy order changes: one open row more, without an exit.
LEMMA BuyRecorded ==
  ASSUME TypeInv, NEW p \in Traders, NEW synced \in BOOLEAN, NEW id \in {trader[p].order, None},
         RecordBuy(p, synced, id)
  PROVE  /\ trader[p].at = "bought" /\ Resynced
         /\ rows' \in Seq(Row) /\ Len(rows) + 1 = Len(rows')
         /\ \A i \in DOMAIN rows : i \in DOMAIN rows' /\ rows'[i] = rows[i]
         /\ \A i \in DOMAIN rows' : i \in DOMAIN rows \/ (rows'[i].exit = None /\ rows'[i].shares >= 1)
         /\ Len(rows') \in DOMAIN rows' /\ Len(rows') \notin DOMAIN rows
         /\ rows'[Len(rows')].status = "open" /\ rows'[Len(rows')].order = id
         /\ rows'[Len(rows')].sym = orders[trader[p].order].sym
         /\ \A i \in DOMAIN rows' : i \in DOMAIN rows \/ i = Len(rows')
         /\ \E t \in Trader : /\ Goes(p, t) /\ t.at = "buy" /\ t.mem = trader[p].mem
                              /\ t.todo = trader[p].todo /\ t.cands = trader[p].cands
                              /\ t.slots = trader[p].slots - 1 /\ t.rem = trader[p].rem - Lot
                              /\ t.missed = trader[p].missed
         /\ adrift \subseteq adrift' /\ adrift' \in SUBSET Symbols /\ faults' \in 0..MaxFaults
         /\ id = None => orders[trader[p].order].sym \in adrift'
         /\ UNCHANGED <<brokerVars, released, user, moved, lost>>
<1> DEFINE s == orders[trader[p].order].sym
           r == [sym |-> s, status |-> "open", shares |-> Lot, order |-> id,
                 exit |-> None, entry |-> trader[p].since[s]]
<1>1. trader[p] \in Trader /\ rows \in Seq(Row) /\ adrift \in SUBSET Symbols /\ faults \in 0..MaxFaults
  BY InMemory DEF TypeInv
<1>2. trader[p].at = "bought" /\ Resynced
      /\ rows' = Append(rows, r)
      /\ adrift' = (IF id # None THEN adrift ELSE adrift \cup {s}) /\ Replied(id)
      /\ UNCHANGED <<brokerVars, released, user, moved, lost>>
      /\ Goes(p, [trader[p] EXCEPT !.at = "buy", !.order = 0, !.slots = @ - 1, !.rem = @ - Lot])
  BY DEF RecordBuy, Resync, Resynced
<1>3. id \in Ids \cup {None} /\ s \in Symbols
  BY <1>2, InMemory DEF InFlight
<1>4. /\ r \in Row /\ r.exit = None /\ r.shares >= 1 /\ r.status = "open"
      /\ r.order = id /\ r.sym = orders[trader[p].order].sym
  <2>1. trader[p].since[s] \in Nat
    BY <1>1, <1>3 DEF Trader
  <2> DEFINE e == trader[p].since[s]
  <2> HIDE DEF s, e
  <2>2. r = [sym |-> s, status |-> "open", shares |-> Lot, order |-> id, exit |-> None, entry |-> e]
    BY DEF s, e
  <2>3. s \in Symbols /\ e \in Nat /\ id \in Ids \cup {None}
    BY <1>3, <2>1 DEF s, e
  <2> HIDE DEF r
  <2>4. /\ r \in Row /\ r.exit = None /\ r.shares >= 1 /\ r.status = "open"
        /\ r.order = id /\ r.sym = s
    BY <2>2, <2>3, AutoAssumption DEF Row
  <2> QED BY <2>4 DEF s
<1>5. PICK t \in Trader :
        t = [trader[p] EXCEPT !.at = "buy", !.order = 0, !.slots = @ - 1, !.rem = @ - Lot]
  <2>1. trader[p].slots - 1 \in Int /\ trader[p].rem - Lot \in Int
    BY <1>1, AutoAssumption DEF Trader
  <2>2. [trader[p] EXCEPT !.at = "buy", !.order = 0, !.slots = @ - 1, !.rem = @ - Lot] \in Trader
    BY <1>1, <2>1 DEF Trader
  <2> QED BY <2>2
<1>6. /\ Goes(p, t) /\ t.at = "buy" /\ t.mem = trader[p].mem /\ t.todo = trader[p].todo
      /\ t.cands = trader[p].cands /\ t.missed = trader[p].missed
      /\ t.slots = trader[p].slots - 1 /\ t.rem = trader[p].rem - Lot
  BY <1>1, <1>2, <1>5 DEF Trader
<1> HIDE DEF r
<1>7. /\ rows' \in Seq(Row) /\ Len(rows) + 1 = Len(rows')
      /\ \A i \in DOMAIN rows : i \in DOMAIN rows' /\ rows'[i] = rows[i]
      /\ \A i \in DOMAIN rows' : i \in DOMAIN rows \/ (rows'[i].exit = None /\ rows'[i].shares >= 1)
      /\ Len(rows') \in DOMAIN rows' /\ Len(rows') \notin DOMAIN rows /\ rows'[Len(rows')] = r
      /\ \A i \in DOMAIN rows' : i \in DOMAIN rows \/ i = Len(rows')
  BY <1>1, <1>2, <1>4, AppendProperties
<1>8. adrift \subseteq adrift' /\ adrift' \in SUBSET Symbols /\ faults' \in 0..MaxFaults
      /\ (id = None => s \in adrift')
  BY <1>1, <1>2, <1>3, RepliesAreFaults
<1> QED BY <1>2, <1>4, <1>6, <1>7, <1>8

\* Steps that record an order.
LEMMA RecordingKeeps ==
  ASSUME TypeInv, NEW p \in Traders, NEW synced \in BOOLEAN, NEW id \in {trader[p].order, None},
         RecordSell(p, synced, id) \/ RecordBuy(p, synced, id)
  PROVE  TypeInv'
<1>1. trader[p] \in Trader /\ Holds(trader[p], rows, orders)
  BY InMemory
<1>2. BrokerOK /\ rows \in Seq(Row) /\ OpenHave(rows) /\ released \in SUBSET Symbols
      /\ moved \in [Traders -> SUBSET Symbols] /\ lost \in SUBSET Symbols
      /\ adrift \in SUBSET Symbols
      /\ faults \in 0..MaxFaults /\ user \in 0..MaxUser
      /\ Len(trader[p].mem) \in Nat
  BY <1>1 DEF TypeInv, Trader
<1>3. ASSUME NEW t \in Trader, Goes(p, t), t.at \notin {"sold", "bought"}, t.mem = trader[p].mem,
             t.todo = trader[p].todo, rows' \in Seq(Row), OpenHave(rows'), Len(rows) <= Len(rows'),
             Resynced, lost' \in SUBSET Symbols, adrift' \in SUBSET Symbols, faults' \in 0..MaxFaults,
             UNCHANGED <<brokerVars, released, user, moved>>
      PROVE  TypeInv'
  <2>1. HistoryTyped /\ released' \in SUBSET Symbols
        /\ faults' \in 0..MaxFaults /\ user' \in 0..MaxUser
    BY <1>2, <1>3 DEF HistoryTyped
  <2>2. UNCHANGED <<orders, shares, sold, cash>>
    BY <1>3 DEF brokerVars
  <2>3. BrokerOK' /\ Follow(orders, orders') /\ DOMAIN orders \subseteq DOMAIN orders'
    BY <1>2, <2>2 DEF Follow, BrokerOK, BrokerTypeOK, LiveAreOpen
  <2>4. Holds(t, rows', orders')
    <3>1. Len(rows) \in Nat /\ Len(rows') \in Nat
      BY <1>2, <1>3
    <3> QED BY <1>1, <1>2, <1>3, <3>1 DEF Holds
  <2>5. trader' \in [Traders -> Trader] /\ \A r \in Traders : Holds(trader'[r], rows', orders')
    BY <1>3, <2>3, <2>4, ProcessGoes
  <2> QED BY <1>3, <2>1, <2>3, <2>5, StepTyped
<1>4. CASE RecordSell(p, synced, id)
  <2>1. /\ rows' \in Seq(Row) /\ DOMAIN rows' = DOMAIN rows /\ Len(rows') = Len(rows)
        /\ \A i \in DOMAIN rows : rows'[i].status = rows[i].status /\ rows'[i].shares = rows[i].shares
        /\ lost' \in SUBSET Symbols /\ Resynced /\ faults' \in 0..MaxFaults
        /\ UNCHANGED <<brokerVars, released, user, moved, adrift>>
    BY <1>4, SellRecorded
  <2>2. PICK t \in Trader : /\ Goes(p, t) /\ t.at = "sell" /\ t.mem = trader[p].mem
                            /\ t.todo = trader[p].todo
    BY <1>4, SellRecorded
  <2>3. OpenHave(rows') /\ Len(rows) <= Len(rows')
    <3>1. Len(rows) \in Nat
      BY <1>2
    <3> QED BY <1>2, <2>1, <3>1 DEF OpenHave
  <2>4. adrift' \in SUBSET Symbols
    BY <1>2, <2>1
  <2> QED BY <1>3, <2>1, <2>2, <2>3, <2>4
<1>5. CASE RecordBuy(p, synced, id)
  <2>1. /\ rows' \in Seq(Row) /\ Len(rows) + 1 = Len(rows')
        /\ \A i \in DOMAIN rows : i \in DOMAIN rows' /\ rows'[i] = rows[i]
        /\ \A i \in DOMAIN rows' : i \in DOMAIN rows \/ (rows'[i].exit = None /\ rows'[i].shares >= 1)
        /\ adrift' \in SUBSET Symbols /\ faults' \in 0..MaxFaults
        /\ UNCHANGED <<brokerVars, released, user, moved, lost>> /\ Resynced
    BY <1>5, BuyRecorded
  <2>2. PICK t \in Trader : /\ Goes(p, t) /\ t.at = "buy" /\ t.mem = trader[p].mem
                            /\ t.todo = trader[p].todo
    BY <1>5, BuyRecorded
  <2>3. OpenHave(rows') /\ Len(rows) <= Len(rows') /\ lost' \in SUBSET Symbols
    <3>1. Len(rows) \in Nat
      BY <1>2
    <3> QED BY <1>2, <2>1, <3>1 DEF OpenHave
  <2> QED BY <1>3, <2>1, <2>2, <2>3
<1> QED BY <1>4, <1>5

\* What a process loads: rows that follow the old ones, for the shares that the broker reports.
LEMMA Loaded ==
  ASSUME TypeInv, NEW p \in Traders, Load(p)
  PROVE  /\ trader[p].at = "load"
         /\ \E q \in [Symbols -> Nat] :
              /\ \A s \in Symbols : q[s] = IF shares[s] >= 1 THEN shares[s] ELSE 0
              /\ Repaired(rows, rows', q)
              /\ \E t \in Trader :
                   /\ Goes(p, t) /\ t.at = "sell" /\ t.mem = rows'
                   /\ t.todo = {i \in DOMAIN rows' : rows'[i].status = "open"}
                   /\ t.held = {s \in Symbols : q[s] > 0}
                   /\ t.slots = Slots(q, rows') /\ t.rem = Deployable(trader[p].acct, q, rows')
                   /\ t.missed = trader[p].missed
         /\ moved' = [moved EXCEPT ![p] = {}] /\ adrift' \in SUBSET Symbols
         /\ UNCHANGED <<brokerVars, snap, known, released, faults, user, lost>>
<1> DEFINE q == [s \in Symbols |-> Max({shares[s], 0})]
           rs == Recovered(Reconciled(q), q)
           open == {i \in DOMAIN rs : rs[i].status = "open"}
           long == {s \in Symbols : q[s] > 0}
           rem == Deployable(trader[p].acct, q, rs)
           slots == Slots(q, rs)
           t == [trader[p] EXCEPT !.at = "sell", !.mem = rs, !.todo = open, !.held = long,
                                  !.acct = NoAccount, !.slots = slots, !.rem = rem]
<1>1. /\ trader[p].at = "load" /\ rows' = rs /\ Goes(p, t)
      /\ moved' = [moved EXCEPT ![p] = {}]
      /\ UNCHANGED <<brokerVars, snap, known, released, faults, user, lost>>
  BY DEF Load
<1>2. adrift' \in SUBSET Symbols
  BY DEF Load, TypeInv
<1>3. trader[p] \in Trader /\ rows \in Seq(Row) /\ OpenHave(rows) /\ released \subseteq Symbols
      /\ shares \in [Symbols -> Int] /\ snap \in Seq(Order)
  BY InMemory DEF TypeInv, BrokerOK, BrokerTypeOK
<1>4. /\ q \in [Symbols -> Nat]
      /\ \A s \in Symbols : q[s] = IF shares[s] >= 1 THEN shares[s] ELSE 0
  <2>1. ASSUME NEW n \in Int PROVE Max({n, 0}) = IF n >= 1 THEN n ELSE 0
    <3>1. \E x \in {n, 0} : \A y \in {n, 0} : x >= y
      OBVIOUS
    <3>2. Max({n, 0}) \in {n, 0} /\ Max({n, 0}) >= n /\ Max({n, 0}) >= 0
      BY <3>1 DEF Max
    <3> QED BY <3>2
  <2>2. \A s \in Symbols : q[s] = IF shares[s] >= 1 THEN shares[s] ELSE 0
    BY <1>3, <2>1
  <2>3. \A s \in Symbols : shares[s] \in Int
    BY <1>3
  <2> DEFINE c == q
  <2>4. c = [s \in Symbols |-> c[s]]
        /\ \A s \in Symbols : c[s] = IF shares[s] >= 1 THEN shares[s] ELSE 0
    BY <2>2
  <2> HIDE DEF q, c
  <2>5. \A s \in Symbols : c[s] \in Nat
    BY <2>3, <2>4
  <2>6. c \in [Symbols -> Nat]
    BY <2>4, <2>5
  <2> QED BY <2>2, <2>6 DEF c
<1> HIDE DEF q
<1>5. Repaired(rows, rs, q)
  BY <1>3, <1>4, LoadedRows
<1> HIDE DEF rs
<1>6. rem \in Int /\ slots \in Int /\ rs \in Seq(Row)
  <2>1. trader[p].acct \in [cash : Int, equity : Int]
    BY <1>3 DEF Trader
  <2>2. rs \in Seq(Row)
    BY <1>5 DEF Repaired
  <2> QED BY <1>3, <1>4, <2>1, <2>2, GuardsAreInts
<1>7. /\ t \in Trader /\ t.at = "sell" /\ t.mem = rs /\ t.todo = open /\ t.held = long
      /\ t.slots = slots /\ t.rem = rem /\ t.missed = trader[p].missed
  <2>1. open \in SUBSET Nat
    BY <1>6
  <2>2. long \in SUBSET Symbols /\ NoAccount \in [cash : Int, equity : Int]
    BY DEF NoAccount
  <2> HIDE DEF open, long, rem, slots
  <2> QED BY <1>3, <1>6, <2>1, <2>2 DEF Trader
<1>8. slots = Slots(q, rows') /\ rem = Deployable(trader[p].acct, q, rows')
  BY <1>1
<1> HIDE DEF t, rem, slots
<1> QED BY <1>1, <1>2, <1>4, <1>5, <1>7, <1>8

\* Load keeps the types.
LEMMA LoadingKeeps ==
  ASSUME TypeInv, NEW p \in Traders, Load(p)
  PROVE  TypeInv'
<1>1. BrokerOK /\ rows \in Seq(Row) /\ released \in SUBSET Symbols
      /\ moved \in [Traders -> SUBSET Symbols] /\ lost \in SUBSET Symbols
      /\ faults \in 0..MaxFaults /\ user \in 0..MaxUser
  BY DEF TypeInv
<1>2. /\ moved' = [moved EXCEPT ![p] = {}] /\ adrift' \in SUBSET Symbols
      /\ UNCHANGED <<orders, shares, sold, cash, snap, known, released, faults, user, lost>>
  BY Loaded DEF brokerVars
<1>3. PICK q \in [Symbols -> Nat] : /\ Repaired(rows, rows', q)
              /\ \E t \in Trader :
                   /\ Goes(p, t) /\ t.at = "sell" /\ t.mem = rows'
                   /\ t.todo = {i \in DOMAIN rows' : rows'[i].status = "open"}
  BY Loaded
<1>4. PICK t \in Trader : /\ Goes(p, t) /\ t.at = "sell" /\ t.mem = rows'
                          /\ t.todo = {i \in DOMAIN rows' : rows'[i].status = "open"}
  BY <1>3
<1>5. rows' \in Seq(Row) /\ Len(rows) <= Len(rows') /\ OpenHave(rows')
  BY <1>3 DEF Repaired
<1>6. Len(rows') \in Nat
  BY <1>5
<1>7. Holds(t, rows', orders')
  BY <1>4, <1>5, <1>6 DEF Holds
<1>8. BrokerOK' /\ Follow(orders, orders') /\ DOMAIN orders \subseteq DOMAIN orders'
  BY <1>1, <1>2 DEF Follow, BrokerOK, BrokerTypeOK, LiveAreOpen
<1>9. trader' \in [Traders -> Trader] /\ \A r \in Traders : Holds(trader'[r], rows', orders')
  BY <1>4, <1>5, <1>7, <1>8, ProcessGoes
<1>10. Resynced /\ HistoryTyped /\ released' \in SUBSET Symbols
       /\ faults' \in 0..MaxFaults /\ user' \in 0..MaxUser
  BY <1>1, <1>2 DEF Resynced, HistoryTyped
<1> QED BY <1>5, <1>8, <1>9, <1>10, StepTyped

\* What a failure leaves: the process goes on or is at rest.
LEMMA Failed ==
  ASSUME TypeInv, NEW p \in Traders, LoseReply(p) \/ Abort(p)
  PROVE  /\ trader[p].at = "sold" => orders[trader[p].order].sym \in lost'
         /\ lost \subseteq lost' /\ lost' \in SUBSET Symbols
         /\ adrift' \in SUBSET Symbols
         /\ \E t \in Trader :
              /\ Goes(p, t) /\ Holds(t, rows, orders)
              /\ \/ t.at = "idle" /\ moved' = [moved EXCEPT ![p] = {}]
                 \/ /\ trader[p].at = "sold" /\ t.at = "sell" /\ t.mem = trader[p].mem
                    /\ t.todo = trader[p].todo /\ t.held = trader[p].held /\ UNCHANGED moved
                    /\ SamePurse(t, trader[p])
                 \/ /\ trader[p].at = "bought" /\ t.at = "buy" /\ t.cands = trader[p].cands /\ UNCHANGED moved
                    /\ t.slots = trader[p].slots /\ t.missed
         /\ adrift \subseteq adrift'
         /\ trader[p].at = "bought" => orders[trader[p].order].sym \in adrift'
         /\ faults' \in 0..MaxFaults
         /\ UNCHANGED <<brokerVars, rows, snap, known, released, user>>
<1>1. /\ trader[p] \in Trader /\ Holds(trader[p], rows, orders) /\ rows \in Seq(Row)
      /\ lost \in SUBSET Symbols /\ adrift \in SUBSET Symbols /\ faults \in 0..MaxFaults
  BY InMemory DEF TypeInv
<1>2. Forget(p) /\ Fault /\ UNCHANGED <<brokerVars, rows, snap, known, released, user>>
  BY DEF LoseReply, Abort
<1>3. faults' \in 0..MaxFaults
  BY <1>1, <1>2, AutoAssumption DEF Fault
<1>4. InFlight(p) => orders[trader[p].order].sym \in Symbols
  BY InMemory
<1>5. /\ trader[p].at = "sold" => orders[trader[p].order].sym \in lost'
      /\ trader[p].at = "bought" => orders[trader[p].order].sym \in adrift'
      /\ lost \subseteq lost' /\ lost' \in SUBSET Symbols
      /\ adrift \subseteq adrift' /\ adrift' \in SUBSET Symbols
  BY <1>1, <1>2, <1>4 DEF Forget, InFlight
<1>6. CASE LoseReply(p)
  <2> DEFINE to == IF trader[p].at = "sold" THEN "sell" ELSE "buy"
  <2>1. PICK yes \in BOOLEAN : yes = (trader[p].missed \/ trader[p].at = "bought")
    OBVIOUS
  <2>2. [trader[p] EXCEPT !.at = IF @ = "sold" THEN "sell" ELSE "buy", !.row = 0, !.order = 0, 
                        !.missed = @ \/ trader[p].at = "bought"]
          = [trader[p] EXCEPT !.at = to, !.row = 0, !.order = 0, !.missed = yes]
    BY <2>1, Zenon
  <2>3. PICK t \in Trader : t = [trader[p] EXCEPT !.at = to, !.row = 0, !.order = 0, !.missed = yes]
    <3>1. to \in {"sell", "buy"}
      OBVIOUS
    <3> HIDE DEF to
    <3>2. [trader[p] EXCEPT !.at = to, !.row = 0, !.order = 0, !.missed = yes] \in Trader
      BY <1>1, <3>1 DEF Trader
    <3> QED BY <3>2
  <2>4. Goes(p, t) /\ UNCHANGED moved /\ InFlight(p)
    BY <1>6, <2>2, <2>3 DEF LoseReply
  <2>5. /\ t.at = to /\ t.mem = trader[p].mem /\ t.todo = trader[p].todo /\ t.held = trader[p].held
        /\ t.cands = trader[p].cands /\ t.slots = trader[p].slots /\ t.rem = trader[p].rem /\ t.missed = yes
    <3> HIDE DEF to
    <3> QED BY <1>1, <2>3 DEF Trader
  <2>6. Holds(t, rows, orders)
    BY <1>1, <2>5 DEF Holds
  <2>7. /\ trader[p].at = "bought" => t.missed
        /\ trader[p].at = "sold" => t.missed = trader[p].missed
    BY <1>1, <2>1, <2>5 DEF Trader
  <2>8. \/ trader[p].at = "sold" /\ t.at = "sell" /\ SamePurse(t, trader[p])
        \/ trader[p].at = "bought" /\ t.at = "buy"
    BY <2>4, <2>5, <2>7 DEF InFlight, SamePurse
  <2> QED BY <1>2, <1>3, <1>5, <2>4, <2>5, <2>6, <2>7, <2>8
<1>7. CASE Abort(p)
  <2>1. Goes(p, Idle) /\ moved' = [moved EXCEPT ![p] = {}]
    BY <1>7 DEF Abort
  <2>2. Idle \in Trader /\ Holds(Idle, rows, orders) /\ Idle.at = "idle"
    <3>1. Len(rows) \in Nat
      BY <1>1
    <3>2. Idle.at = "idle"
      BY Zenon DEF Idle
    <3> QED BY <3>1, <3>2, IdleHolds
  <2> QED BY <1>2, <1>3, <1>5, <2>1, <2>2
<1> QED BY <1>6, <1>7

\* Failures keep the types.
LEMMA FailingKeeps ==
  ASSUME TypeInv, NEW p \in Traders, LoseReply(p) \/ Abort(p)
  PROVE  TypeInv'
<1>1. /\ lost' \in SUBSET Symbols /\ adrift' \in SUBSET Symbols /\ faults' \in 0..MaxFaults
      /\ UNCHANGED <<brokerVars, rows, snap, known, released, user>>
  BY Failed
<1>2. PICK t \in Trader : /\ Goes(p, t) /\ Holds(t, rows, orders)
                          /\ moved' = [moved EXCEPT ![p] = {}] \/ UNCHANGED moved
  BY Failed
<1>3. moved' \in [Traders -> SUBSET Symbols]
  BY <1>2 DEF TypeInv
<1>4. Resynced /\ HistoryTyped
  BY <1>1, <1>3 DEF Resynced, HistoryTyped
<1> QED BY <1>1, <1>2, <1>4, QuietStep

\* The broker moves on.
LEMMA MarketKeeps ==
  ASSUME TypeInv, NEW i \in DOMAIN orders, Execute(i) \/ Lapse(i)
  PROVE  TypeInv'
<1>1. BrokerOK /\ rows \in Seq(Row) /\ OpenHave(rows) /\ released \in SUBSET Symbols
      /\ moved \in [Traders -> SUBSET Symbols] /\ lost \in SUBSET Symbols
      /\ adrift \in SUBSET Symbols
      /\ faults \in 0..MaxFaults /\ user \in 0..MaxUser
  BY DEF TypeInv
<1>2. BrokerOK' /\ Follow(orders, orders')
  BY <1>1, FillKeeps, ExpireKeeps DEF Execute, Lapse
<1>3. UNCHANGED <<rows, snap, known, released, trader, faults, user, lost, adrift>>
  BY DEF Execute, Lapse, autoVars
<1>4. moved' \in [Traders -> SUBSET Symbols]
  <2>1. orders[i].sym \in Symbols
    <3>1. \A o \in Order : o.sym \in Symbols
      BY DEF Order
    <3>2. orders[i] \in Order
      BY <1>1 DEF BrokerOK, BrokerTypeOK
    <3> QED BY <3>1, <3>2
  <2> QED BY <1>1, <2>1 DEF Execute, Lapse, SoldAway
<1>5. Len(rows) <= Len(rows') /\ rows' \in Seq(Row) /\ OpenHave(rows')
      /\ DOMAIN orders \subseteq DOMAIN orders'
  <2>1. Len(rows) \in Nat
    BY <1>1
  <2> QED BY <1>1, <1>2, <1>3, <2>1 DEF Follow
<1>6. trader' \in [Traders -> Trader] /\ \A r \in Traders : Holds(trader'[r], rows', orders')
  BY <1>3, <1>5, ProcessesStay
<1>7. Resynced /\ HistoryTyped /\ released' \in SUBSET Symbols
      /\ faults' \in 0..MaxFaults /\ user' \in 0..MaxUser
  BY <1>1, <1>3, <1>4 DEF Resynced, HistoryTyped
<1> QED BY <1>2, <1>5, <1>6, <1>7, StepTyped

\* What the owner's commands make of the rows: a row keeps what it is of, and a new one is
\* open, with shares and without an exit.
OwnedRows ==
  /\ rows' \in Seq(Row) /\ Len(rows) <= Len(rows') /\ OpenHave(rows')
  /\ \A i \in DOMAIN rows : /\ i \in DOMAIN rows' /\ rows'[i].sym = rows[i].sym
                            /\ rows'[i].exit = rows[i].exit /\ rows'[i].order = rows[i].order
                            /\ rows'[i].status = "open" => rows[i].status = "open"
                            /\ (rows[i].status = "open" /\ rows'[i].status # "open" /\ Selling(rows[i])
                                 => rows[i].sym \in lost')
  /\ \A i \in DOMAIN rows' :
       \/ i \in DOMAIN rows
       \/ rows'[i].exit = None /\ rows'[i].order = None /\ rows'[i].status = "open"

\* `auto untrack` and `auto track`
LEMMA OwnedBy ==
  ASSUME TypeInv, NEW s \in Symbols, Untrack(s) \/ Track(s)
  PROVE  /\ OwnedRows /\ SyncHistory
         /\ lost \subseteq lost' /\ lost' \in SUBSET Symbols /\ adrift' \in SUBSET Symbols
         /\ released' \in SUBSET Symbols /\ user' \in 0..MaxUser
         /\ UNCHANGED <<brokerVars, trader, faults, moved>>
<1>1. /\ rows \in Seq(Row) /\ OpenHave(rows) /\ released \in SUBSET Symbols
      /\ shares \in [Symbols -> Int]
      /\ sold \in [Symbols -> Nat]
      /\ lost \in SUBSET Symbols /\ adrift \in SUBSET Symbols /\ user \in 0..MaxUser
      /\ Len(rows) \in Nat /\ \A i \in DOMAIN rows : rows[i] \in Row
  BY DEF TypeInv, BrokerOK, BrokerTypeOK
<1>2. /\ SyncHistory /\ UNCHANGED <<brokerVars, trader, faults, moved>> /\ Owner
      /\ released' \in SUBSET Symbols
      /\ lost \subseteq lost' /\ lost' \in SUBSET Symbols /\ adrift' \in SUBSET Symbols
  BY <1>1 DEF Untrack, Track
<1>3. user' \in 0..MaxUser
  BY <1>1, <1>2, AutoAssumption DEF Owner
<1>4. CASE Untrack(s)
  <2>1. rows' = [i \in DOMAIN rows |-> IF i \in OpenRows(rows, s)
                                       THEN [rows[i] EXCEPT !.status = "manual"] ELSE rows[i]]
    BY <1>4 DEF Untrack
  <2>2. ASSUME NEW r \in Row
        PROVE  /\ [r EXCEPT !.status = "manual"] \in Row
               /\ [r EXCEPT !.status = "manual"].sym = r.sym
               /\ [r EXCEPT !.status = "manual"].exit = r.exit
               /\ [r EXCEPT !.status = "manual"].order = r.order
               /\ [r EXCEPT !.status = "manual"].status = "manual"
    BY DEF Row
  <2>3. \A i \in DOMAIN rows :
          IF i \in OpenRows(rows, s)
          THEN /\ rows'[i] \in Row /\ rows'[i].sym = rows[i].sym
               /\ rows'[i].exit = rows[i].exit /\ rows'[i].order = rows[i].order
               /\ rows'[i].status = "manual"
          ELSE rows'[i] = rows[i]
    BY <1>1, <2>1, <2>2
  <2>4. rows' \in Seq(Row) /\ DOMAIN rows' = DOMAIN rows /\ Len(rows') = Len(rows)
    <3>1. \A i \in DOMAIN rows : rows'[i] \in Row
      BY <1>1, <2>3
    <3>2. rows' = [i \in 1 .. Len(rows) |-> rows'[i]]
      BY <1>1, <2>1
    <3>3. DOMAIN rows = 1 .. Len(rows)
      BY <1>1
    <3>4. rows' \in [1 .. Len(rows) -> Row]
      BY <3>1, <3>2, <3>3
    <3> DEFINE c == Len(rows)
    <3>5. c \in Nat /\ rows' \in [1 .. c -> Row] /\ DOMAIN rows = 1 .. c
      BY <1>1, <3>3, <3>4
    <3> HIDE DEF c
    <3>6. rows' \in Seq(Row) /\ Len(rows') = c /\ DOMAIN rows' = DOMAIN rows
      BY <3>5, ListOf
    <3> QED BY <3>6 DEF c
  <2>5. \A i \in OpenRows(rows, s) : Selling(rows[i]) => rows[i].sym \in lost'
    BY <1>4 DEF Untrack, OpenRows
  <2>6. OpenHave(rows')
    BY <1>1, <2>3, <2>4 DEF OpenHave
  <2>7. ASSUME NEW i \in DOMAIN rows
        PROVE  /\ i \in DOMAIN rows' /\ rows'[i].sym = rows[i].sym /\ rows'[i].exit = rows[i].exit
               /\ rows'[i].order = rows[i].order
               /\ rows'[i].status = "open" => rows[i].status = "open"
               /\ (rows[i].status = "open" /\ rows'[i].status # "open" /\ Selling(rows[i])
                    => rows[i].sym \in lost')
    <3>1. CASE i \in OpenRows(rows, s)
      BY <2>3, <2>4, <2>5, <3>1
    <3>2. CASE i \notin OpenRows(rows, s)
      BY <2>3, <2>4, <3>2
    <3> QED BY <3>1, <3>2
  <2>8. Len(rows) <= Len(rows')
    BY <1>1, <2>4
  <2>9. OwnedRows
    BY <2>4, <2>6, <2>7, <2>8 DEF OwnedRows
  <2> QED BY <1>2, <1>3, <2>9
<1>5. CASE Track(s)
  <2> DEFINE r == [sym |-> s, status |-> "open", shares |-> shares[s], order |-> None,
                   exit |-> None, entry |-> sold[s]]
  <2>1. rows' = rows \/ rows' = Append(rows, r)
    BY <1>5 DEF Track
  <2>2. r \in Row /\ r.status = "open" /\ r.exit = None /\ r.order = None /\ r.shares >= 1
    <3>1. shares[s] \in Nat /\ shares[s] >= 1 /\ sold[s] \in Nat
      BY <1>1, <1>5 DEF Track
    <3> QED BY <3>1 DEF Row
  <2> HIDE DEF r
  <2>3. CASE rows' = rows
    <3>1. rows' \in Seq(Row) /\ OpenHave(rows') /\ DOMAIN rows' = DOMAIN rows
          /\ Len(rows) <= Len(rows')
      BY <1>1, <2>3
    <3>2. ASSUME NEW i \in DOMAIN rows
          PROVE  /\ i \in DOMAIN rows' /\ rows'[i].sym = rows[i].sym /\ rows'[i].exit = rows[i].exit
                 /\ rows'[i].order = rows[i].order
                 /\ rows'[i].status = "open" => rows[i].status = "open"
                 /\ (rows[i].status = "open" /\ rows'[i].status # "open" /\ Selling(rows[i])
                      => rows[i].sym \in lost')
      BY <2>3, <3>1
    <3> QED BY <1>2, <1>3, <3>1, <3>2 DEF OwnedRows
  <2>4. CASE rows' = Append(rows, r)
    <3>1. /\ rows' \in Seq(Row) /\ Len(rows) <= Len(rows')
          /\ \A i \in DOMAIN rows : i \in DOMAIN rows' /\ rows'[i] = rows[i]
          /\ \A i \in DOMAIN rows' : i \in DOMAIN rows \/ rows'[i] = r
      BY <1>1, <2>2, <2>4, AppendProperties
    <3>2. OpenHave(rows')
      BY <1>1, <2>2, <3>1 DEF OpenHave
    <3>3. ASSUME NEW i \in DOMAIN rows
          PROVE  /\ i \in DOMAIN rows' /\ rows'[i].sym = rows[i].sym /\ rows'[i].exit = rows[i].exit
                 /\ rows'[i].order = rows[i].order
                 /\ rows'[i].status = "open" => rows[i].status = "open"
                 /\ (rows[i].status = "open" /\ rows'[i].status # "open" /\ Selling(rows[i])
                      => rows[i].sym \in lost')
      BY <3>1
    <3>4. \A i \in DOMAIN rows' :
            \/ i \in DOMAIN rows
            \/ rows'[i].exit = None /\ rows'[i].order = None /\ rows'[i].status = "open"
      BY <2>2, <3>1
    <3> QED BY <1>2, <1>3, <3>1, <3>2, <3>3, <3>4 DEF OwnedRows
  <2> QED BY <2>1, <2>3, <2>4
<1> QED BY <1>4, <1>5

\* The owner moves on.
LEMMA OwningKeeps ==
  ASSUME TypeInv, NEW s \in Symbols, OwnerSells(s) \/ Untrack(s) \/ Track(s)
  PROVE  TypeInv'
<1>1. BrokerOK /\ rows \in Seq(Row) /\ OpenHave(rows) /\ released \in SUBSET Symbols
      /\ moved \in [Traders -> SUBSET Symbols] /\ lost \in SUBSET Symbols
      /\ adrift \in SUBSET Symbols
      /\ faults \in 0..MaxFaults /\ user \in 0..MaxUser /\ Len(rows) \in Nat
  BY DEF TypeInv
<1>2. ASSUME BrokerOK', Follow(orders, orders'), Resynced, HistoryTyped, UNCHANGED <<trader, faults>>,
             rows' \in Seq(Row), OpenHave(rows'), Len(rows) <= Len(rows'),
             released' \in SUBSET Symbols, user' \in 0..MaxUser
      PROVE  TypeInv'
  <2>1. DOMAIN orders \subseteq DOMAIN orders'
    BY <1>2 DEF Follow
  <2>2. trader' \in [Traders -> Trader] /\ \A r \in Traders : Holds(trader'[r], rows', orders')
    BY <1>2, <2>1, ProcessesStay
  <2>3. faults' \in 0..MaxFaults
    BY <1>1, <1>2
  <2> QED BY <1>2, <2>2, <2>3, StepTyped
<1>3. CASE OwnerSells(s)
  <2>1. BrokerOK' /\ Follow(orders, orders')
    BY <1>1, <1>3, ByHandKeeps DEF OwnerSells
  <2>2. /\ UNCHANGED <<rows, snap, known, released, trader, faults, lost, adrift>>
        /\ SoldAway(s) /\ Owner
    BY <1>3 DEF OwnerSells, autoVars
  <2>3. user' \in 0..MaxUser
    BY <1>1, <2>2, AutoAssumption DEF Owner
  <2>4. moved' \in [Traders -> SUBSET Symbols]
    BY <1>1, <2>2 DEF SoldAway
  <2>5. Resynced /\ HistoryTyped /\ rows' \in Seq(Row) /\ OpenHave(rows') /\ Len(rows) <= Len(rows')
        /\ released' \in SUBSET Symbols
    BY <1>1, <2>2, <2>4 DEF Resynced, HistoryTyped
  <2> QED BY <1>2, <2>1, <2>2, <2>3, <2>5
<1>4. CASE Untrack(s) \/ Track(s)
  <2>1. /\ OwnedRows /\ SyncHistory
        /\ lost' \in SUBSET Symbols /\ adrift' \in SUBSET Symbols
        /\ released' \in SUBSET Symbols /\ user' \in 0..MaxUser
        /\ UNCHANGED <<brokerVars, trader, faults, moved>>
    BY <1>4, OwnedBy
  <2>2. UNCHANGED <<orders, shares, sold, cash>>
    BY <2>1 DEF brokerVars
  <2>3. BrokerOK' /\ Follow(orders, orders')
    BY <1>1, <2>2 DEF Follow, BrokerOK, BrokerTypeOK, LiveAreOpen
  <2>4. Resynced /\ HistoryTyped
    BY <1>1, <2>1 DEF Resynced, HistoryTyped
  <2> QED BY <1>2, <2>1, <2>3, <2>4 DEF OwnedRows
<1> QED BY <1>3, <1>4

\* The types hold to begin with ...
LEMMA TypedAtFirst == Init => TypeInv
<1> SUFFICES ASSUME Init PROVE TypeInv
  OBVIOUS
<1>1. /\ orders = <<>> /\ shares = [s \in Symbols |-> 0] /\ sold = [s \in Symbols |-> 0]
      /\ cash = Cash
      /\ rows = <<>> /\ snap = <<>> /\ known = [s \in Symbols |-> 0] /\ released = {}
      /\ trader = [p \in Traders |-> Idle] /\ faults = 0 /\ user = 0
      /\ moved = [p \in Traders |-> {}] /\ lost = {} /\ adrift = {}
  BY DEF Init, BrokerInit
<1>2. BrokerOK
  BY <1>1, BrokerAssumption DEF BrokerOK, BrokerTypeOK, LiveAreOpen
<1>3. Idle \in Trader /\ Holds(Idle, rows, orders)
  BY <1>1, IdleHolds
<1>4. trader \in [Traders -> Trader] /\ \A p \in Traders : Holds(trader[p], rows, orders)
  BY <1>1, <1>3
<1>5. faults \in 0..MaxFaults /\ user \in 0..MaxUser
  BY <1>1, AutoAssumption
<1>6. rows \in Seq(Row) /\ OpenHave(rows) /\ snap \in Seq(Order) /\ Len(snap) <= Len(orders)
  BY <1>1 DEF OpenHave
<1> QED BY <1>1, <1>2, <1>4, <1>5, <1>6 DEF TypeInv

\* ... and every step keeps them.
LEMMA StepsKeepTypes == TypeInv /\ [Next]_vars => TypeInv'
<1> SUFFICES ASSUME TypeInv, [Next]_vars PROVE TypeInv'
  OBVIOUS
<1>1. CASE UNCHANGED vars
  BY <1>1 DEF vars, brokerVars, autoVars, TypeInv, BrokerOK, BrokerTypeOK, LiveAreOpen
<1>2. ASSUME NEW p \in Traders, CycleStep(p) PROVE TypeInv'
  BY <1>2, ReadingKeeps, SendingKeeps, RecordingKeeps, LoadingKeeps DEF CycleStep
<1>6. ASSUME NEW p \in Traders, Unnamed(p) PROVE TypeInv'
  BY <1>6, RecordingKeeps DEF Unnamed
<1>3. ASSUME NEW p \in Traders, LoseReply(p) \/ Abort(p) PROVE TypeInv'
  BY <1>3, FailingKeeps
<1>4. ASSUME NEW i \in DOMAIN orders, Execute(i) \/ Lapse(i) PROVE TypeInv'
  BY <1>4, MarketKeeps
<1>5. ASSUME NEW s \in Symbols, OwnerSells(s) \/ Untrack(s) \/ Track(s) PROVE TypeInv'
  BY <1>5, OwningKeeps
<1> QED BY <1>1, <1>2, <1>3, <1>4, <1>5, <1>6 DEF Next

\* TypeInv says more than TypeOK.
LEMMA TypesImplied == TypeInv => TypeOK
<1> SUFFICES ASSUME TypeInv PROVE TypeOK
  OBVIOUS
<1>1. trader \in [Traders -> [at : {"idle", "sync", "account", "load", "sell", "sold", "buy", "bought"},
                             since : [Symbols -> Nat], mem : Seq(Row), todo : SUBSET Nat,
                             acct : [cash : Int, equity : Int], row : Nat,
                             order : Nat, slots : Int, rem : Int, held : SUBSET Symbols,
                             cands : SUBSET Symbols, missed : BOOLEAN]]
  BY Zenon DEF TypeInv, Trader
<1> QED BY <1>1 DEF TypeInv, TypeOK, BrokerOK

\* Types of src/auto.rs: every row of the tables and every piece of a cycle's memory has its
\* type in every state, with any number of processes.
THEOREM AutoTypeCorrect == Spec => []TypeOK
<1>1. Init => TypeInv
  BY TypedAtFirst
<1>2. TypeInv /\ [Next]_vars => TypeInv'
  BY StepsKeepTypes
<1>3. TypeInv => TypeOK
  BY TypesImplied
<1> QED BY <1>1, <1>2, <1>3, PTL DEF Spec

-----------------------------------------------------------------------------
(* Covered exits: process p is the only one, and the broker refuses a sell that no shares     *)
(* cover                                                                                       *)

Cycling(t) == t.at \in {"sell", "sold"}

\* The copy of the orders is of a moment before.
SnapIsPast == \A i \in DOMAIN snap : orders[i].live => snap[i].live

\* An open row's exit is an order.
ExitsExist ==
  \A i \in DOMAIN rows : rows[i].status = "open" => rows[i].exit = None \/ rows[i].exit \in DOMAIN orders

\* A sell order that is live is the exit of an open row, unless it is lost or about to be
\* recorded.
ExitsKnown(p) ==
  \A j \in DOMAIN orders :
    orders[j].live /\ orders[j].side = "sell" =>
      \/ orders[j].sym \in lost
      \/ trader[p].at = "sold" /\ trader[p].order = j
      \/ \E k \in OpenRows(rows, orders[j].sym) : rows[k].exit = j

Synced(r) == r.exit = None \/ r.exit \in DOMAIN snap

\* The exits of earlier cycles are in the copy of the orders.
ExitsSynced(p) ==
  /\ trader[p].at \in {"account", "load"} =>
       \A i \in DOMAIN rows : rows[i].status = "open" => Synced(rows[i])
  /\ Cycling(trader[p]) => \A i \in trader[p].todo : Synced(trader[p].mem[i])

\* What a cycle holds in memory is of the rows and the shares, as far as its exits need it.
MemoryTrue(p) ==
  LET t == trader[p] IN
  Cycling(t) =>
    /\ \A i \in DOMAIN t.mem :
         /\ rows[i].sym = t.mem[i].sym
         /\ rows[i].status = "open" => t.mem[i].status = "open"
         /\ (t.mem[i].status = "open" /\ t.mem[i].sym \in t.held \ moved[p]
               => t.mem[i].shares <= shares[t.mem[i].sym])
    /\ \A i \in t.todo : rows[i].status = "open" => rows[i].exit = t.mem[i].exit
    /\ \A i \in DOMAIN rows \ DOMAIN t.mem : rows[i].status = "open" => rows[i].exit = None
    /\ t.at = "sold" =>
         /\ t.row \notin t.todo
         /\ rows[t.row].sym = orders[t.order].sym
         /\ (rows[t.row].status = "open" /\ rows[t.row].exit # None => ~orders[rows[t.row].exit].live)

CoverInv(p) ==
  /\ TypeInv /\ NothingShort /\ SnapIsPast /\ ExitsExist
  /\ ExitsKnown(p) /\ ExitsSynced(p) /\ MemoryTrue(p)

\* What the types say of the places a cycle looks at.
LEMMA Places ==
  ASSUME TypeInv, NEW p \in Traders
  PROVE  /\ DOMAIN snap \subseteq DOMAIN orders
         /\ trader[p].todo \subseteq DOMAIN trader[p].mem
         /\ DOMAIN trader[p].mem \subseteq DOMAIN rows
         /\ trader[p].at = "sold" => /\ trader[p].row \in DOMAIN trader[p].mem
                                     /\ trader[p].order \in DOMAIN orders
         /\ \A i \in trader[p].todo : trader[p].mem[i].status = "open"
         /\ None \notin DOMAIN orders
         /\ \A i \in DOMAIN orders : orders[i].sym \in Symbols
         /\ \A t : Goes(p, t) => trader'[p] = t
<1>1. trader[p] \in Trader /\ Holds(trader[p], rows, orders)
  BY InMemory
<1>2. /\ orders \in Seq(Order) /\ snap \in Seq(Order) /\ Len(snap) <= Len(orders)
      /\ trader \in [Traders -> Trader]
  BY DEF TypeInv, BrokerOK, BrokerTypeOK
<1>3. DOMAIN snap \subseteq DOMAIN orders /\ DOMAIN orders \subseteq Nat
  BY <1>2
<1>4. DOMAIN trader[p].mem \subseteq DOMAIN rows
  BY InMemory
<1>5. None \notin DOMAIN orders
  BY <1>3, AutoAssumption
<1>6. \A i \in DOMAIN orders : orders[i].sym \in Symbols
  <2>1. \A o \in Order : o.sym \in Symbols
    BY DEF Order
  <2> QED BY <1>2, <2>1
<1>7. \A t : Goes(p, t) => trader'[p] = t
  BY <1>2 DEF Goes
<1> QED BY <1>1, <1>3, <1>4, <1>5, <1>6, <1>7 DEF Holds

\* The broker moves on, and no order begins to live.
LEMMA CoverInMarket ==
  ASSUME NEW p \in Traders, CoverInv(p), TypeInv', NothingShort', Follow(orders, orders'),
         \A j \in DOMAIN orders' : orders'[j].live => j \in DOMAIN orders,
         UNCHANGED <<rows, snap, trader, lost>>,
         \A s \in Symbols : shares'[s] >= shares[s] \/ ~Cycling(trader[p]) \/ s \in moved'[p],
         Cycling(trader[p]) => moved[p] \subseteq moved'[p]
  PROVE  CoverInv(p)'
<1>1. TypeInv
  BY DEF CoverInv
<1>2. SnapIsPast'
  BY <1>1, Places DEF CoverInv, SnapIsPast, Follow
<1>3. ExitsExist'
  BY DEF CoverInv, ExitsExist, Follow
<1>4. ExitsKnown(p)'
  BY DEF CoverInv, ExitsKnown, Follow, OpenRows
<1>5. ExitsSynced(p)'
  BY DEF CoverInv, ExitsSynced, Synced, Cycling
<1>6. ASSUME Cycling(trader[p]) PROVE MemoryTrue(p)'
  <2> DEFINE t == trader[p]
  <2>1. MemoryTrue(p) /\ ExitsExist
    BY DEF CoverInv
  <2>2. ASSUME NEW i \in DOMAIN t.mem, t.mem[i].status = "open", t.mem[i].sym \in t.held \ moved'[p]
        PROVE  t.mem[i].shares <= shares'[t.mem[i].sym]
    <3>1. t.mem[i] \in Row
      BY <1>1, InMemory
    <3>2. t.mem[i].sym \in Symbols /\ t.mem[i].shares \in Nat
      BY <3>1 DEF Row
    <3>3. shares \in [Symbols -> Int] /\ shares' \in [Symbols -> Int]
      BY <1>1 DEF TypeInv, BrokerOK, BrokerTypeOK
    <3>4. t.mem[i].shares <= shares[t.mem[i].sym]
      BY <1>6, <2>1, <2>2 DEF MemoryTrue
    <3>5. shares'[t.mem[i].sym] >= shares[t.mem[i].sym]
      BY <1>6, <2>2, <3>2
    <3> DEFINE n == t.mem[i].shares
               s == t.mem[i].sym
    <3>6. n \in Nat /\ shares[s] \in Int /\ shares'[s] \in Int /\ n <= shares[s]
          /\ shares'[s] >= shares[s]
      BY <3>2, <3>3, <3>4, <3>5
    <3> HIDE DEF n, s
    <3>7. n <= shares'[s]
      BY <3>6
    <3> QED BY <3>7 DEF n, s
  <2>3. ASSUME t.at = "sold"
        PROVE  /\ rows[t.row].sym = orders'[t.order].sym
               /\ (rows[t.row].status = "open" /\ rows[t.row].exit # None
                     => ~orders'[rows[t.row].exit].live)
    <3>1. t.row \in DOMAIN rows /\ t.order \in DOMAIN orders
      BY <1>1, <2>3, Places
    <3> QED BY <1>6, <2>1, <2>3, <3>1 DEF MemoryTrue, ExitsExist, Follow
  <2>4. UNCHANGED <<rows, trader>>
    OBVIOUS
  <2> QED BY <1>6, <2>1, <2>2, <2>3, <2>4 DEF MemoryTrue
<1>7. MemoryTrue(p)'
  BY <1>6 DEF MemoryTrue, Cycling
<1> QED BY <1>2, <1>3, <1>4, <1>5, <1>7 DEF CoverInv

\* A step of the process that leaves the rows, the orders and the shares alone.
LEMMA CoverWhenQuiet ==
  ASSUME NEW p \in Traders, CoverInv(p), TypeInv', NEW t, Goes(p, t),
         UNCHANGED <<orders, shares, sold, cash, rows>>, Resynced,
         lost \subseteq lost',
         trader[p].at = "sold" => orders[trader[p].order].sym \in lost',
         \/ ~Cycling(t) /\ t.at \notin {"account", "load"}
         \/ t.at = "account" /\ SyncHistory
         \/ t.at = "load" /\ trader[p].at = "account"
         \/ /\ t.at = "sell" /\ Cycling(trader[p]) /\ t.mem = trader[p].mem
            /\ t.todo \subseteq trader[p].todo /\ t.held = trader[p].held /\ UNCHANGED moved
  PROVE  CoverInv(p)'
<1>1. TypeInv /\ DOMAIN snap \subseteq DOMAIN orders /\ trader'[p] = t
  BY Places DEF CoverInv
<1>2. snap' = snap \/ snap' = orders
  BY DEF Resynced, SyncHistory
<1>3. NothingShort'
  BY DEF CoverInv, NothingShort, Free
<1>4. SnapIsPast'
  BY <1>2 DEF CoverInv, SnapIsPast
<1>5. ExitsExist'
  BY DEF CoverInv, ExitsExist
<1>6. ExitsKnown(p)'
  BY <1>1 DEF CoverInv, ExitsKnown, OpenRows
<1>7. \A r : Synced(r) => r.exit = None \/ r.exit \in DOMAIN snap'
  BY <1>1, <1>2 DEF Synced
<1>8. ExitsSynced(p)'
  <2>1. CASE t.at = "account" /\ SyncHistory
    BY <1>1, <2>1 DEF CoverInv, ExitsExist, ExitsSynced, Synced, SyncHistory, Cycling
  <2>2. CASE t.at = "load" /\ trader[p].at = "account"
    <3>1. \A i \in DOMAIN rows : rows[i].status = "open" => Synced(rows[i])
      BY <2>2 DEF CoverInv, ExitsSynced
    <3>2. \A i \in DOMAIN rows :
            rows[i].status = "open" => rows[i].exit = None \/ rows[i].exit \in DOMAIN snap'
      BY <1>7, <3>1
    <3> QED BY <1>1, <2>2, <3>2 DEF ExitsSynced, Synced, Cycling
  <2>3. CASE /\ t.at = "sell" /\ Cycling(trader[p]) /\ t.mem = trader[p].mem
             /\ t.todo \subseteq trader[p].todo
    <3>1. \A i \in t.todo : Synced(t.mem[i])
      BY <2>3 DEF CoverInv, ExitsSynced
    <3>2. \A i \in t.todo : t.mem[i].exit = None \/ t.mem[i].exit \in DOMAIN snap'
      BY <1>7, <3>1
    <3> QED BY <1>1, <2>3, <3>2 DEF ExitsSynced, Synced
  <2>4. CASE ~Cycling(t) /\ t.at \notin {"account", "load"}
    BY <1>1, <2>4 DEF ExitsSynced, Cycling
  <2> QED BY <2>1, <2>2, <2>3, <2>4
<1>9. MemoryTrue(p)'
  <2>1. CASE ~Cycling(t)
    BY <1>1, <2>1 DEF MemoryTrue, Cycling
  <2>2. CASE /\ t.at = "sell" /\ Cycling(trader[p]) /\ t.mem = trader[p].mem
             /\ t.todo \subseteq trader[p].todo /\ t.held = trader[p].held /\ UNCHANGED moved
    BY <1>1, <2>2 DEF CoverInv, MemoryTrue
  <2> QED BY <2>1, <2>2 DEF Cycling
<1> QED BY <1>3, <1>4, <1>5, <1>6, <1>8, <1>9 DEF CoverInv

\* Steps that read, or end the cycle.
LEMMA CoverWhenReading ==
  ASSUME NEW p \in Traders, CoverInv(p), TypeInv',
         Begin(p) \/ Sync(p) \/ FetchAccount(p) \/ Hold(p) \/ FindCandidates(p) \/ EndCycle(p)
  PROVE  CoverInv(p)'
<1>1. TypeInv /\ trader[p] \in Trader
  BY InMemory DEF CoverInv
<1>2. /\ UNCHANGED <<orders, shares, sold, cash, rows, lost>> /\ Resynced
      /\ trader[p].at # "sold"
  BY DEF Begin, Sync, FetchAccount, Hold, FindCandidates, EndCycle, Resynced, brokerVars
<1>3. CASE Begin(p)
  <2>1. PICK t : t = [Idle EXCEPT !.at = "sync", !.since = sold]
    BY Zenon
  <2>2. Goes(p, t)
    BY <1>3, <2>1 DEF Begin
  <2>3. t.at = "sync"
    BY <2>1, IdleHolds DEF Trader
  <2>4. ~Cycling(t) /\ t.at \notin {"account", "load"}
    BY <2>3 DEF Cycling
  <2> QED BY <1>2, <2>2, <2>4, CoverWhenQuiet
<1>4. CASE Sync(p)
  <2>1. PICK t : t = [trader[p] EXCEPT !.at = "account"]
    BY Zenon
  <2>2. t.at = "account" /\ Goes(p, t) /\ SyncHistory
    BY <1>1, <1>4, <2>1 DEF Sync, Trader
  <2> QED BY <1>2, <2>2, CoverWhenQuiet
<1>5. CASE FetchAccount(p)
  <2> DEFINE acct == [cash |-> cash, equity |-> cash + MapThenSumSet(LAMBDA s : shares[s], Symbols)]
  <2>1. PICK t : t = [trader[p] EXCEPT !.at = "load", !.acct = acct]
    BY Zenon
  <2>2. Goes(p, t) /\ trader[p].at = "account"
    BY <1>5, <2>1 DEF FetchAccount
  <2>3. t.at = "load"
    <3> HIDE DEF acct
    <3> QED BY <1>1, <2>1 DEF Trader
  <2> QED BY <1>2, <2>2, <2>3, CoverWhenQuiet
<1>6. CASE Hold(p)
  <2> DEFINE rest == trader[p].todo \ {Next1(p)}
  <2>1. PICK t : t = [trader[p] EXCEPT !.todo = rest]
    BY Zenon
  <2>2. Goes(p, t) /\ trader[p].at = "sell" /\ UNCHANGED moved
    BY <1>6, <2>1 DEF Hold
  <2>3. rest \subseteq trader[p].todo
    OBVIOUS
  <2>4. t.at = trader[p].at /\ t.mem = trader[p].mem /\ t.todo = rest /\ t.held = trader[p].held
    <3> HIDE DEF rest
    <3> QED BY <1>1, <2>1 DEF Trader
  <2>5. /\ t.at = "sell" /\ Cycling(trader[p]) /\ t.mem = trader[p].mem
        /\ t.todo \subseteq trader[p].todo /\ t.held = trader[p].held /\ UNCHANGED moved
    BY <2>2, <2>3, <2>4 DEF Cycling
  <2> QED BY <1>2, <2>2, <2>5, CoverWhenQuiet
<1>7. CASE FindCandidates(p)
  <2> DEFINE cands == {s \in Symbols \ trader[p].held : OpenRows(rows, s) = {}}
  <2>1. PICK t : t = [trader[p] EXCEPT !.at = "buy", !.mem = <<>>, !.held = {}, !.cands = cands]
    BY Zenon
  <2>2. Goes(p, t)
    BY <1>7, <2>1 DEF FindCandidates
  <2>3. t.at = "buy"
    <3> HIDE DEF cands
    <3> QED BY <1>1, <2>1 DEF Trader
  <2>4. ~Cycling(t) /\ t.at \notin {"account", "load"}
    BY <2>3 DEF Cycling
  <2> QED BY <1>2, <2>2, <2>4, CoverWhenQuiet
<1>8. CASE EndCycle(p)
  <2>1. PICK t : t = Idle
    BY Zenon
  <2>2. Goes(p, t)
    BY <1>8, <2>1 DEF EndCycle
  <2>3. t.at = "idle"
    BY <2>1, Zenon DEF Idle
  <2>4. ~Cycling(t) /\ t.at \notin {"account", "load"}
    BY <2>3 DEF Cycling
  <2> QED BY <1>2, <2>2, <2>4, CoverWhenQuiet
<1> QED BY <1>3, <1>4, <1>5, <1>6, <1>7, <1>8

\* Failures: a sell whose reply did not come is lost.
LEMMA CoverWhenFailing ==
  ASSUME NEW p \in Traders, CoverInv(p), TypeInv', LoseReply(p) \/ Abort(p)
  PROVE  CoverInv(p)'
<1>1. TypeInv
  BY DEF CoverInv
<1>2. /\ trader[p].at = "sold" => orders[trader[p].order].sym \in lost'
      /\ lost \subseteq lost'
      /\ UNCHANGED <<orders, shares, sold, cash, rows, snap, known>>
  BY <1>1, Failed DEF brokerVars
<1>3. PICK t \in Trader :
        /\ Goes(p, t)
        /\ \/ t.at = "idle"
           \/ /\ trader[p].at = "sold" /\ t.at = "sell" /\ t.mem = trader[p].mem
              /\ t.todo = trader[p].todo /\ t.held = trader[p].held /\ UNCHANGED moved
           \/ t.at = "buy"
  BY <1>1, Failed
<1>4. Resynced
  BY <1>2 DEF Resynced
<1>5. \/ ~Cycling(t) /\ t.at \notin {"account", "load"}
      \/ /\ t.at = "sell" /\ Cycling(trader[p]) /\ t.mem = trader[p].mem
         /\ t.todo \subseteq trader[p].todo /\ t.held = trader[p].held /\ UNCHANGED moved
  BY <1>3 DEF Cycling
<1> QED BY <1>2, <1>3, <1>4, <1>5, CoverWhenQuiet

\* An order is sent: a sell of the cycle's next row, whose last exit is over, or a buy.
LEMMA CoverWhenSending ==
  ASSUME NEW p \in Traders, ~MayShort, CoverInv(p), TypeInv', Sell(p) \/ \E s \in Symbols : Buy(p, s)
  PROVE  CoverInv(p)'
<1>1. TypeInv /\ BrokerOK /\ DOMAIN snap \subseteq DOMAIN orders
  BY Places DEF CoverInv, TypeInv
<1>2. ASSUME NEW s \in Symbols, NEW side \in {"buy", "sell"}, NEW qty \in Nat \ {0}, Place(s, side, qty),
             trader[p].at # "sold", UNCHANGED <<rows, snap, lost>>
      PROVE  /\ NothingShort' /\ SnapIsPast' /\ ExitsExist'
             /\ DOMAIN orders \subseteq DOMAIN orders' /\ Len(orders') = Len(orders) + 1
             /\ \A i \in DOMAIN orders : orders'[i] = orders[i]
             /\ orders'[Len(orders) + 1].sym = s /\ UNCHANGED shares
             /\ (side = "buy" \/ (trader'[p].at = "sold" /\ trader'[p].order = Len(orders) + 1)
                   => ExitsKnown(p)')
  <2>1. /\ Follow(orders, orders') /\ Len(orders') = Len(orders) + 1
        /\ \A i \in DOMAIN orders' : i = Len(orders) + 1 \/ (i \in DOMAIN orders /\ orders'[i] = orders[i])
        /\ orders'[Len(orders')].sym = s /\ orders'[Len(orders')].side = side
        /\ NothingShort => NothingShort'
    BY <1>1, <1>2, PlaceKeeps
  <2>2. \A i \in DOMAIN orders : i \in DOMAIN orders' /\ i # Len(orders) + 1
    <3>1. orders \in Seq(Order)
      BY <1>1 DEF BrokerOK, BrokerTypeOK
    <3> QED BY <2>1, <3>1 DEF Follow
  <2>3. \A i \in DOMAIN orders : orders'[i] = orders[i]
    BY <2>1, <2>2
  <2>4. SnapIsPast'
    BY <1>1, <1>2, <2>3 DEF CoverInv, SnapIsPast
  <2>5. ExitsExist'
    BY <1>2, <2>2 DEF CoverInv, ExitsExist
  <2>6. ASSUME side = "buy" \/ (trader'[p].at = "sold" /\ trader'[p].order = Len(orders) + 1)
        PROVE  ExitsKnown(p)'
    <3> SUFFICES ASSUME NEW j \in DOMAIN orders', orders'[j].live, orders'[j].side = "sell"
                 PROVE  \/ orders'[j].sym \in lost'
                        \/ trader'[p].at = "sold" /\ trader'[p].order = j
                        \/ \E k \in OpenRows(rows', orders'[j].sym) : rows'[k].exit = j
      BY DEF ExitsKnown
    <3>1. CASE j = Len(orders) + 1
      BY <2>1, <2>6, <3>1
    <3>2. CASE j \in DOMAIN orders /\ orders'[j] = orders[j]
      BY <1>2, <3>2 DEF CoverInv, ExitsKnown
    <3> QED BY <2>1, <3>1, <3>2
  <2>7. UNCHANGED shares
    BY <1>2 DEF Place
  <2> QED BY <2>1, <2>2, <2>3, <2>4, <2>5, <2>6, <2>7 DEF CoverInv
<1>3. CASE Sell(p)
  <2> DEFINE i == Next1(p)
             r == trader[p].mem[i]
  <2>1. /\ trader[p].todo # {} /\ trader[p].at = "sell" /\ ~ExitActive(r.exit)
        /\ Place(r.sym, "sell", r.shares)
        /\ UNCHANGED <<rows, snap, known, released, faults, user, moved, lost, adrift>>
    BY <1>1, <1>3, SellSent
  <2>2. PICK t : /\ Goes(p, t) /\ t.at = "sold" /\ t.mem = trader[p].mem /\ t.held = trader[p].held
                 /\ t.todo = trader[p].todo \ {i} /\ t.row = i /\ t.order = Len(orders) + 1
    BY <1>1, <1>3, SellSent
  <2>3. /\ i \in trader[p].todo /\ i \in DOMAIN trader[p].mem
        /\ r.sym \in Symbols /\ r.shares \in Nat \ {0} /\ r.status = "open"
    BY <1>1, <2>1, NextIsLeft
  <2>4. trader'[p] = t /\ i \in DOMAIN rows
    BY <1>1, <2>2, <2>3, Places
  <2> HIDE DEF i, r
  <2>5. /\ NothingShort' /\ SnapIsPast' /\ ExitsExist' /\ ExitsKnown(p)'
        /\ DOMAIN orders \subseteq DOMAIN orders' /\ \A j \in DOMAIN orders : orders'[j] = orders[j]
        /\ orders'[Len(orders) + 1].sym = r.sym /\ UNCHANGED shares
    BY <1>2, <2>1, <2>2, <2>3, <2>4
  <2>6. MemoryTrue(p) /\ ExitsSynced(p) /\ SnapIsPast /\ ExitsExist /\ Cycling(trader[p])
    BY <2>1 DEF CoverInv, Cycling
  <2>7. ExitsSynced(p)'
    BY <2>1, <2>2, <2>4, <2>6 DEF ExitsSynced, Synced, Cycling
  <2>8. /\ rows[i].sym = r.sym
        /\ (rows[i].status = "open" => rows[i].exit = r.exit)
        /\ r.exit = None \/ r.exit \in DOMAIN snap
    BY <2>3, <2>6 DEF MemoryTrue, ExitsSynced, Synced, r
  <2>9. rows[i].status = "open" /\ rows[i].exit # None => ~orders'[rows[i].exit].live
    BY <1>1, <2>1, <2>4, <2>5, <2>6, <2>8 DEF ExitActive, SnapIsPast
  <2>10. /\ \A k \in DOMAIN t.mem :
              /\ rows[k].sym = t.mem[k].sym
              /\ rows[k].status = "open" => t.mem[k].status = "open"
              /\ (t.mem[k].status = "open" /\ t.mem[k].sym \in t.held \ moved[p]
                   => t.mem[k].shares <= shares[t.mem[k].sym])
         /\ \A k \in t.todo : rows[k].status = "open" => rows[k].exit = t.mem[k].exit
         /\ \A k \in DOMAIN rows \ DOMAIN t.mem : rows[k].status = "open" => rows[k].exit = None
    BY <2>2, <2>6 DEF MemoryTrue
  <2>11. t.row \notin t.todo /\ rows[t.row].sym = orders'[t.order].sym
         /\ (rows[t.row].status = "open" /\ rows[t.row].exit # None => ~orders'[rows[t.row].exit].live)
    BY <2>2, <2>5, <2>8, <2>9
  <2>12. rows' = rows /\ moved' = moved /\ shares' = shares
    BY <2>1, <2>5
  <2>13. MemoryTrue(p)'
    BY <2>4, <2>10, <2>11, <2>12 DEF MemoryTrue
  <2> QED BY <2>5, <2>7, <2>13 DEF CoverInv
<1>4. ASSUME NEW s \in Symbols, Buy(p, s) PROVE CoverInv(p)'
  <2>1. Place(s, "buy", Lot) /\ Lot \in Nat \ {0} /\ trader[p].at = "buy"
        /\ UNCHANGED <<rows, snap, known, released, faults, user, moved, lost, adrift>>
    BY <1>1, <1>4, BuySent
  <2>2. PICK t : Goes(p, t) /\ t.at = "bought"
    BY <1>1, <1>4, BuySent
  <2>3. trader'[p] = t
    BY <1>1, <2>2, Places
  <2>4. /\ NothingShort' /\ SnapIsPast' /\ ExitsExist' /\ ExitsKnown(p)'
    BY <1>2, <2>1
  <2>5. ExitsSynced(p)' /\ MemoryTrue(p)'
    BY <2>2, <2>3 DEF ExitsSynced, MemoryTrue, Cycling
  <2> QED BY <2>4, <2>5 DEF CoverInv
<1> QED BY <1>3, <1>4

\* The reply to a sell is recorded: the order becomes the exit of its row, or is lost.
LEMMA CoverWhenSold ==
  ASSUME NEW p \in Traders, CoverInv(p), TypeInv', NEW synced \in BOOLEAN, NEW id \in {trader[p].order, None},
         RecordSell(p, synced, id)
  PROVE  CoverInv(p)'
<1> DEFINE i == trader[p].row
<1>1. TypeInv /\ DOMAIN snap \subseteq DOMAIN orders /\ None \notin DOMAIN orders
  BY Places DEF CoverInv
<1>2. /\ trader[p].at = "sold" /\ i \in DOMAIN rows /\ Resynced
      /\ rows' \in Seq(Row) /\ DOMAIN rows' = DOMAIN rows
      /\ \A k \in DOMAIN rows :
           /\ rows'[k].sym = rows[k].sym /\ rows'[k].status = rows[k].status
           /\ rows'[k].exit = IF k = i /\ rows[k].status = "open" THEN id ELSE rows[k].exit
      /\ lost \subseteq lost' /\ (rows[i].status # "open" \/ id = None => rows[i].sym \in lost')
      /\ UNCHANGED <<orders, shares, sold, cash, moved>>
  BY <1>1, SellRecorded DEF brokerVars
<1>3. PICK t : /\ Goes(p, t) /\ t.at = "sell" /\ t.mem = trader[p].mem
               /\ t.todo = trader[p].todo /\ t.held = trader[p].held
  BY <1>1, SellRecorded
<1>4. trader'[p] = t /\ (id = None \/ id \in DOMAIN orders) /\ i \in DOMAIN t.mem
      /\ t.todo \subseteq DOMAIN rows /\ DOMAIN t.mem \subseteq DOMAIN rows
  BY <1>1, <1>2, <1>3, Places
<1>5. snap' = snap \/ snap' = orders
  BY <1>2 DEF Resynced, SyncHistory
<1>6. MemoryTrue(p) /\ ExitsSynced(p) /\ ExitsKnown(p) /\ SnapIsPast /\ ExitsExist
      /\ Cycling(trader[p])
      /\ NothingShort
  BY <1>2 DEF CoverInv, Cycling
<1>7. /\ rows[i].sym = orders[trader[p].order].sym /\ i \notin t.todo
      /\ (rows[i].status = "open" /\ rows[i].exit # None => ~orders[rows[i].exit].live)
  BY <1>2, <1>3, <1>6 DEF MemoryTrue
<1> HIDE DEF i
<1>8. NothingShort'
  BY <1>2, <1>6 DEF NothingShort, Free
<1>9. SnapIsPast'
  BY <1>2, <1>5, <1>6 DEF SnapIsPast
<1>10. ExitsExist'
  BY <1>2, <1>4, <1>6 DEF ExitsExist
<1>11. ExitsKnown(p)'
  <2> SUFFICES ASSUME NEW j \in DOMAIN orders, orders[j].live, orders[j].side = "sell"
               PROVE  \/ orders[j].sym \in lost'
                      \/ \E k \in OpenRows(rows', orders[j].sym) : rows'[k].exit = j
    BY <1>2 DEF ExitsKnown
  <2>1. CASE orders[j].sym \in lost
    BY <1>2, <2>1
  <2>2. CASE trader[p].order = j
    <3>1. CASE rows[i].status = "open" /\ id = j
      BY <1>2, <1>7, <2>2, <3>1 DEF OpenRows
    <3>2. CASE rows[i].status # "open" \/ id = None
      BY <1>2, <1>7, <2>2, <3>2
    <3> QED BY <2>2, <3>1, <3>2
  <2>3. ASSUME NEW k \in OpenRows(rows, orders[j].sym), rows[k].exit = j
        PROVE  k \in OpenRows(rows', orders[j].sym) /\ rows'[k].exit = j
    <3>1. k \in DOMAIN rows /\ rows[k].status = "open" /\ rows[k].sym = orders[j].sym
      BY DEF OpenRows
    <3>2. k # i
      BY <1>1, <1>7, <2>3, <3>1
    <3> QED BY <1>2, <2>3, <3>1, <3>2 DEF OpenRows
  <2> QED BY <1>6, <2>1, <2>2, <2>3 DEF ExitsKnown
<1>12. ExitsSynced(p)'
  <2>1. \A k \in t.todo : t.mem[k].exit = None \/ t.mem[k].exit \in DOMAIN snap
    BY <1>3, <1>6 DEF ExitsSynced, Synced
  <2>2. \A k \in t.todo : t.mem[k].exit = None \/ t.mem[k].exit \in DOMAIN snap'
    BY <1>1, <1>5, <2>1
  <2> QED BY <1>3, <1>4, <2>2 DEF ExitsSynced, Synced
<1>13. MemoryTrue(p)'
  <2>1. /\ \A k \in DOMAIN t.mem :
             /\ rows[k].sym = t.mem[k].sym
             /\ rows[k].status = "open" => t.mem[k].status = "open"
             /\ (t.mem[k].status = "open" /\ t.mem[k].sym \in t.held \ moved[p]
                   => t.mem[k].shares <= shares[t.mem[k].sym])
        /\ \A k \in t.todo : rows[k].status = "open" => rows[k].exit = t.mem[k].exit
        /\ \A k \in DOMAIN rows \ DOMAIN t.mem : rows[k].status = "open" => rows[k].exit = None
    BY <1>3, <1>6 DEF MemoryTrue
  <2>2. \A k \in DOMAIN t.mem : rows'[k].sym = t.mem[k].sym
                                /\ (rows'[k].status = "open" => t.mem[k].status = "open")
    BY <1>2, <1>4, <2>1
  <2>3. \A k \in t.todo : rows'[k].status = "open" => rows'[k].exit = t.mem[k].exit
    BY <1>2, <1>4, <1>7, <2>1
  <2>4. \A k \in DOMAIN rows' \ DOMAIN t.mem : rows'[k].status = "open" => rows'[k].exit = None
    BY <1>2, <1>4, <2>1
  <2>5. moved' = moved /\ shares' = shares
    BY <1>2
  <2> QED BY <1>3, <1>4, <2>1, <2>2, <2>3, <2>4, <2>5 DEF MemoryTrue
<1> QED BY <1>8, <1>9, <1>10, <1>11, <1>12, <1>13 DEF CoverInv

\* The reply to a buy is recorded: one open row more, which has no exit.
LEMMA CoverWhenBought ==
  ASSUME NEW p \in Traders, CoverInv(p), TypeInv', NEW synced \in BOOLEAN, NEW id \in {trader[p].order, None},
         RecordBuy(p, synced, id)
  PROVE  CoverInv(p)'
<1>1. TypeInv /\ DOMAIN snap \subseteq DOMAIN orders
  BY Places DEF CoverInv
<1>2. /\ trader[p].at = "bought" /\ Resynced
      /\ \A i \in DOMAIN rows : i \in DOMAIN rows' /\ rows'[i] = rows[i]
      /\ \A i \in DOMAIN rows' : i \in DOMAIN rows \/ rows'[i].exit = None
      /\ UNCHANGED <<orders, shares, sold, cash, lost>>
  BY <1>1, BuyRecorded DEF brokerVars
<1>3. PICK t : Goes(p, t) /\ t.at = "buy"
  BY <1>1, BuyRecorded
<1>4. trader'[p] = t
  BY <1>1, <1>3, Places
<1>5. snap' = snap \/ snap' = orders
  BY <1>2 DEF Resynced, SyncHistory
<1>6. NothingShort'
  BY <1>2 DEF CoverInv, NothingShort, Free
<1>7. SnapIsPast'
  BY <1>2, <1>5 DEF CoverInv, SnapIsPast
<1>8. ExitsExist'
  BY <1>2 DEF CoverInv, ExitsExist
<1>9. ExitsKnown(p)'
  BY <1>2 DEF CoverInv, ExitsKnown, OpenRows
<1>10. ExitsSynced(p)' /\ MemoryTrue(p)'
  BY <1>3, <1>4 DEF ExitsSynced, MemoryTrue, Cycling
<1> QED BY <1>6, <1>7, <1>8, <1>9, <1>10 DEF CoverInv

\* The rows are loaded: those with a live exit stay open, because its shares are still there.
LEMMA CoverWhenLoading ==
  ASSUME NEW p \in Traders, CoverInv(p), TypeInv', Load(p)
  PROVE  CoverInv(p)'
<1>1. TypeInv /\ BrokerOK
  BY DEF CoverInv, TypeInv
<1>2. /\ trader[p].at = "load"
      /\ UNCHANGED <<orders, shares, sold, cash, snap, lost>>
  BY <1>1, Loaded DEF brokerVars
<1>3. PICK q \in [Symbols -> Nat] :
              /\ \A s \in Symbols : q[s] = IF shares[s] >= 1 THEN shares[s] ELSE 0
              /\ Repaired(rows, rows', q)
              /\ \E t \in Trader :
                   /\ Goes(p, t) /\ t.at = "sell" /\ t.mem = rows'
                   /\ t.todo = {i \in DOMAIN rows' : rows'[i].status = "open"}
                   /\ t.held = {s \in Symbols : q[s] > 0}
  BY <1>1, Loaded
<1>4. PICK t \in Trader :
                   /\ Goes(p, t) /\ t.at = "sell" /\ t.mem = rows'
                   /\ t.todo = {i \in DOMAIN rows' : rows'[i].status = "open"}
                   /\ t.held = {s \in Symbols : q[s] > 0}
  BY <1>3
<1>5. trader'[p] = t
  BY <1>1, <1>4, Places
<1>6. /\ \A i \in DOMAIN rows : i \in DOMAIN rows' /\ Keeps(rows'[i], rows[i], q)
      /\ \A i \in DOMAIN rows' : i \in DOMAIN rows \/ IsAdded(rows'[i], q)
  BY <1>3 DEF Repaired
<1>7. \A i \in DOMAIN rows' : /\ rows'[i].sym \in Symbols
                              /\ q[rows'[i].sym] = IF shares[rows'[i].sym] >= 1
                                                   THEN shares[rows'[i].sym] ELSE 0
  <2>1. rows' \in Seq(Row)
    BY <1>3 DEF Repaired
  <2>2. \A r \in Row : r.sym \in Symbols
    BY DEF Row
  <2> QED BY <1>3, <2>1, <2>2
<1>8. NothingShort' /\ SnapIsPast'
  BY <1>2 DEF CoverInv, NothingShort, Free, SnapIsPast
<1>9. \A i \in DOMAIN rows' :
        rows'[i].status = "open" =>
          \/ i \in DOMAIN rows /\ rows[i].status = "open" /\ rows'[i].exit = rows[i].exit
          \/ rows'[i].exit = None
  BY <1>6 DEF Keeps, IsAdded
<1>10. ExitsExist'
  BY <1>2, <1>9 DEF CoverInv, ExitsExist
<1>11. ExitsKnown(p)'
  <2> SUFFICES ASSUME NEW j \in DOMAIN orders, orders[j].live, orders[j].side = "sell",
                      orders[j].sym \notin lost
               PROVE  \E k \in OpenRows(rows', orders[j].sym) : rows'[k].exit = j
    BY <1>2 DEF ExitsKnown
  <2> DEFINE s == orders[j].sym
  <2>1. PICK k \in OpenRows(rows, s) : rows[k].exit = j
    BY <1>2 DEF CoverInv, ExitsKnown
  <2>2. s \in Symbols
    BY <1>1, Places
  <2>3. q[s] >= 1
    <3>1. j \in LiveOrders(orders, "sell", s)
      BY DEF LiveOrders
    <3>2. orders \in Seq(Order) /\ LiveAreOpen(orders) /\ shares[s] \in Int
      BY <1>1, <2>2 DEF BrokerOK, BrokerTypeOK
    <3>3. Unfilled(orders, "sell", s) \in Nat /\ 1 <= Unfilled(orders, "sell", s)
      BY <3>1, <3>2, UnfilledIsNat
    <3>4. shares[s] - Unfilled(orders, "sell", s) >= 0
      BY <2>2 DEF CoverInv, NothingShort, Free
    <3>5. shares[s] >= 1
      BY <3>2, <3>3, <3>4
    <3> QED BY <1>3, <2>2, <3>5
  <2>4. k \in DOMAIN rows' /\ Keeps(rows'[k], rows[k], q) /\ rows[k].sym = s
        /\ rows[k].status = "open"
    BY <1>6, <2>1 DEF OpenRows
  <2> QED BY <2>1, <2>3, <2>4 DEF Keeps, OpenRows
<1>12. ExitsSynced(p)'
  <2>1. \A i \in DOMAIN rows : rows[i].status = "open" => rows[i].exit = None \/ rows[i].exit \in DOMAIN snap
    BY <1>2 DEF CoverInv, ExitsSynced, Synced
  <2>2. \A i \in t.todo : rows'[i].exit = None \/ rows'[i].exit \in DOMAIN snap'
    BY <1>2, <1>4, <1>9, <2>1
  <2> QED BY <1>4, <1>5, <2>2 DEF ExitsSynced, Synced
<1>13. MemoryTrue(p)'
  <2>1. ASSUME NEW i \in DOMAIN rows', rows'[i].status = "open", rows'[i].sym \in t.held
        PROVE  rows'[i].shares = shares[rows'[i].sym]
    <3>1. q[rows'[i].sym] >= 1 /\ q[rows'[i].sym] = shares[rows'[i].sym]
      <4>1. rows'[i].sym \in Symbols /\ q[rows'[i].sym] > 0 /\ q[rows'[i].sym] \in Nat
        BY <1>4, <1>7, <2>1
      <4>2. q[rows'[i].sym] = IF shares[rows'[i].sym] >= 1 THEN shares[rows'[i].sym] ELSE 0
        BY <1>7
      <4> QED BY <4>1, <4>2
    <3>2. CASE i \in DOMAIN rows
      BY <1>6, <2>1, <3>1, <3>2 DEF Keeps
    <3>3. CASE IsAdded(rows'[i], q)
      BY <2>1, <3>1, <3>3 DEF IsAdded
    <3> QED BY <1>6, <3>2, <3>3
  <2>2. \A i \in DOMAIN rows' : rows'[i].shares \in Nat
    <3>1. rows' \in Seq(Row)
      BY <1>3 DEF Repaired
    <3>2. \A r \in Row : r.shares \in Nat
      BY DEF Row
    <3> QED BY <3>1, <3>2
  <2>3. \A i \in DOMAIN t.mem :
          /\ rows'[i].sym = t.mem[i].sym
          /\ rows'[i].status = "open" => t.mem[i].status = "open"
          /\ (t.mem[i].status = "open" /\ t.mem[i].sym \in t.held \ moved'[p]
                => t.mem[i].shares <= shares'[t.mem[i].sym])
    BY <1>2, <1>4, <2>1, <2>2
  <2> QED BY <1>4, <1>5, <2>3 DEF MemoryTrue
<1> QED BY <1>8, <1>10, <1>11, <1>12, <1>13 DEF CoverInv

\* The owner's commands synchronize the orders, and lose the live exit of a released row.
LEMMA CoverWhenOwned ==
  ASSUME NEW p \in Traders, CoverInv(p), TypeInv', NEW s \in Symbols, Untrack(s) \/ Track(s)
  PROVE  CoverInv(p)'
<1>1. TypeInv /\ DOMAIN snap \subseteq DOMAIN orders /\ None \notin DOMAIN orders
  BY Places DEF CoverInv
<1>2. /\ OwnedRows /\ snap' = orders /\ lost \subseteq lost'
      /\ UNCHANGED <<orders, shares, sold, cash, trader, moved>>
  BY <1>1, OwnedBy DEF SyncHistory, brokerVars
<1>3. /\ \A i \in DOMAIN rows : /\ i \in DOMAIN rows' /\ rows'[i].sym = rows[i].sym
                                /\ rows'[i].exit = rows[i].exit
                                /\ rows'[i].status = "open" => rows[i].status = "open"
                                /\ (rows[i].status = "open" /\ rows'[i].status # "open" /\ Selling(rows[i])
                                      => rows[i].sym \in lost')
      /\ \A i \in DOMAIN rows' : i \in DOMAIN rows \/ rows'[i].exit = None
  BY <1>2 DEF OwnedRows
<1>4. NothingShort' /\ SnapIsPast'
  BY <1>2 DEF CoverInv, NothingShort, Free, SnapIsPast
<1>5. ExitsExist'
  BY <1>2, <1>3 DEF CoverInv, ExitsExist
<1>6. ExitsKnown(p)'
  <2> SUFFICES ASSUME NEW j \in DOMAIN orders, orders[j].live, orders[j].side = "sell"
               PROVE  \/ orders[j].sym \in lost'
                      \/ trader[p].at = "sold" /\ trader[p].order = j
                      \/ \E k \in OpenRows(rows', orders[j].sym) : rows'[k].exit = j
    BY <1>2 DEF ExitsKnown
  <2>1. ASSUME NEW k \in OpenRows(rows, orders[j].sym), rows[k].exit = j
        PROVE  \/ orders[j].sym \in lost'
               \/ k \in OpenRows(rows', orders[j].sym) /\ rows'[k].exit = j
    <3>1. k \in DOMAIN rows /\ rows[k].status = "open" /\ rows[k].sym = orders[j].sym
      BY DEF OpenRows
    <3>2. Selling(rows[k])
      BY <1>1, <2>1 DEF Selling
    <3> QED BY <1>3, <2>1, <3>1, <3>2 DEF OpenRows
  <2> QED BY <1>2, <2>1 DEF CoverInv, ExitsKnown
<1>7. ExitsSynced(p)'
  <2>1. \A i \in DOMAIN rows' :
          rows'[i].status = "open" => rows'[i].exit = None \/ rows'[i].exit \in DOMAIN snap'
    BY <1>2, <1>5 DEF ExitsExist
  <2>2. Cycling(trader[p]) =>
          \A i \in trader[p].todo : trader[p].mem[i].exit = None \/ trader[p].mem[i].exit \in DOMAIN snap'
    BY <1>1, <1>2 DEF CoverInv, ExitsSynced, Synced
  <2> QED BY <1>2, <2>1, <2>2 DEF ExitsSynced, Synced, Cycling
<1>8. MemoryTrue(p)'
  <2> DEFINE t == trader[p]
  <2> SUFFICES ASSUME Cycling(t) PROVE MemoryTrue(p)'
    BY <1>2 DEF MemoryTrue, Cycling
  <2>1. /\ \A k \in DOMAIN t.mem :
             /\ rows[k].sym = t.mem[k].sym
             /\ rows[k].status = "open" => t.mem[k].status = "open"
             /\ (t.mem[k].status = "open" /\ t.mem[k].sym \in t.held \ moved[p]
                   => t.mem[k].shares <= shares[t.mem[k].sym])
        /\ \A k \in t.todo : rows[k].status = "open" => rows[k].exit = t.mem[k].exit
        /\ \A k \in DOMAIN rows \ DOMAIN t.mem : rows[k].status = "open" => rows[k].exit = None
        /\ t.at = "sold" =>
             /\ t.row \notin t.todo
             /\ rows[t.row].sym = orders[t.order].sym
             /\ (rows[t.row].status = "open" /\ rows[t.row].exit # None
                   => ~orders[rows[t.row].exit].live)
    BY DEF CoverInv, MemoryTrue
  <2>2. t.todo \subseteq DOMAIN rows /\ DOMAIN t.mem \subseteq DOMAIN rows
        /\ (t.at = "sold" => t.row \in DOMAIN rows)
    BY <1>1, Places
  <2> HIDE DEF t
  <2>3. \A k \in DOMAIN t.mem :
          /\ rows'[k].sym = t.mem[k].sym
          /\ rows'[k].status = "open" => t.mem[k].status = "open"
    BY <1>3, <2>1, <2>2
  <2>4. \A k \in t.todo : rows'[k].status = "open" => rows'[k].exit = t.mem[k].exit
    BY <1>3, <2>1, <2>2
  <2>5. \A k \in DOMAIN rows' \ DOMAIN t.mem : rows'[k].status = "open" => rows'[k].exit = None
    BY <1>3, <2>1, <2>2
  <2>6. t.at = "sold" =>
          /\ t.row \notin t.todo
          /\ rows'[t.row].sym = orders[t.order].sym
          /\ (rows'[t.row].status = "open" /\ rows'[t.row].exit # None
                => ~orders[rows'[t.row].exit].live)
    BY <1>3, <2>1, <2>2
  <2>7. trader'[p] = t /\ moved' = moved /\ shares' = shares /\ orders' = orders
    BY <1>2 DEF t
  <2> QED BY <2>1, <2>3, <2>4, <2>5, <2>6, <2>7 DEF MemoryTrue
<1> QED BY <1>4, <1>5, <1>6, <1>7, <1>8 DEF CoverInv

\* Fills and expired orders, and sells by hand.
LEMMA CoverWhenBrokerMoves ==
  ASSUME NEW p \in Traders, Traders = {p}, CoverInv(p), TypeInv',
         \/ \E i \in DOMAIN orders : Execute(i) \/ Lapse(i)
         \/ \E s \in Symbols : OwnerSells(s)
  PROVE  CoverInv(p)'
<1>1. TypeInv /\ BrokerOK /\ NothingShort /\ shares \in [Symbols -> Int]
  BY DEF CoverInv, TypeInv, BrokerOK, BrokerTypeOK
<1>2. \A s \in Symbols : shares[s] \in Int
  BY <1>1
<1>3. ASSUME NEW s, SoldAway(s)
      PROVE  Cycling(trader[p]) => s \in moved'[p] /\ moved[p] \subseteq moved'[p]
  BY <1>3 DEF SoldAway, Cycling
<1>4. ASSUME NEW i \in DOMAIN orders, Execute(i) PROVE CoverInv(p)'
  <2>1. Fill(i) /\ UNCHANGED <<rows, snap, trader, lost>>
        /\ (IF orders[i].side = "sell" THEN SoldAway(orders[i].sym) ELSE UNCHANGED moved)
    BY <1>4 DEF Execute, autoVars
  <2>2. /\ BrokerOK' /\ Follow(orders, orders') /\ NothingShort'
        /\ \A s \in Symbols : shares'[s] >= shares[s] \/ (orders[i].side = "sell" /\ orders[i].sym = s)
    BY <1>1, <2>1, FillKeeps
  <2>3. \A j \in DOMAIN orders' : j \in DOMAIN orders
    BY <2>1 DEF Fill
  <2>4. \A s \in Symbols : shares'[s] >= shares[s] \/ ~Cycling(trader[p]) \/ s \in moved'[p]
    BY <1>3, <2>1, <2>2
  <2>5. Cycling(trader[p]) => moved[p] \subseteq moved'[p]
    BY <1>3, <2>1
  <2> QED BY <2>1, <2>2, <2>3, <2>4, <2>5, CoverInMarket
<1>5. ASSUME NEW i \in DOMAIN orders, Lapse(i) PROVE CoverInv(p)'
  <2>1. Expire(i) /\ UNCHANGED <<rows, snap, trader, lost, moved>>
    BY <1>5 DEF Lapse, autoVars
  <2>2. BrokerOK' /\ Follow(orders, orders') /\ NothingShort' /\ UNCHANGED shares
    BY <1>1, <2>1, ExpireKeeps
  <2>3. \A j \in DOMAIN orders' : j \in DOMAIN orders
    BY <2>1 DEF Expire
  <2>4. \A s \in Symbols : shares'[s] >= shares[s]
    BY <1>2, <2>2
  <2> QED BY <2>1, <2>2, <2>3, <2>4, CoverInMarket
<1>6. ASSUME NEW s \in Symbols, OwnerSells(s) PROVE CoverInv(p)'
  <2>1. SellByHand(s) /\ SoldAway(s) /\ UNCHANGED <<rows, snap, trader, lost>>
    BY <1>6 DEF OwnerSells, autoVars
  <2>2. /\ Follow(orders, orders') /\ NothingShort'
        /\ \A i \in DOMAIN orders' : i = Len(orders) + 1 \/ (i \in DOMAIN orders /\ orders'[i] = orders[i])
        /\ ~orders'[Len(orders) + 1].live
        /\ \A t \in Symbols : t # s => shares'[t] = shares[t]
    BY <1>1, <2>1, ByHandKeeps
  <2>3. \A j \in DOMAIN orders' : orders'[j].live => j \in DOMAIN orders
    BY <2>2
  <2>4. \A t \in Symbols : shares'[t] >= shares[t] \/ ~Cycling(trader[p]) \/ t \in moved'[p]
    BY <1>2, <1>3, <2>1, <2>2
  <2>5. Cycling(trader[p]) => moved[p] \subseteq moved'[p]
    BY <1>3, <2>1
  <2> QED BY <2>1, <2>2, <2>3, <2>4, <2>5, CoverInMarket
<1> QED BY <1>4, <1>5, <1>6

\* The invariant holds to begin with ...
LEMMA CoverAtFirst ==
  ASSUME NEW p \in Traders
  PROVE  Init => CoverInv(p)
<1> SUFFICES ASSUME Init PROVE CoverInv(p)
  OBVIOUS
<1>1. TypeInv
  BY TypedAtFirst
<1>2. /\ orders = <<>> /\ shares = [s \in Symbols |-> 0] /\ rows = <<>> /\ snap = <<>>
      /\ trader[p].at = "idle"
  <2>1. trader[p] = Idle
    BY DEF Init
  <2>2. Idle.at = "idle"
    BY Zenon DEF Idle
  <2> QED BY <2>1, <2>2 DEF Init, BrokerInit
<1>3. NothingShort
  <2>1. \A s \in Symbols : LiveOrders(orders, "sell", s) = {}
    BY <1>2 DEF LiveOrders
  <2>2. orders \in Seq(Order) /\ LiveAreOpen(orders)
    BY <1>1 DEF TypeInv, BrokerOK, BrokerTypeOK
  <2>3. \A s \in Symbols : Unfilled(orders, "sell", s) = 0
    BY <2>1, <2>2, UnfilledIsNat
  <2> QED BY <1>2, <2>3 DEF NothingShort, Free
<1>4. SnapIsPast /\ ExitsExist /\ ExitsKnown(p) /\ ExitsSynced(p) /\ MemoryTrue(p)
  BY <1>2 DEF SnapIsPast, ExitsExist, ExitsKnown, ExitsSynced, MemoryTrue, Cycling
<1> QED BY <1>1, <1>3, <1>4 DEF CoverInv

\* ... and every step keeps it.
LEMMA StepsKeepCover ==
  ASSUME NEW p \in Traders, Traders = {p}, ~MayShort
  PROVE  CoverInv(p) /\ [Next]_vars => CoverInv(p)'
<1> SUFFICES ASSUME CoverInv(p), [Next]_vars PROVE CoverInv(p)'
  OBVIOUS
<1>1. TypeInv'
  BY StepsKeepTypes DEF CoverInv
<1>2. CASE UNCHANGED vars
  <2>1. UNCHANGED <<orders, shares, rows, snap, trader, moved, lost>>
    BY <1>2 DEF vars, brokerVars, autoVars
  <2>2. NothingShort' /\ SnapIsPast' /\ ExitsExist'
    BY <2>1 DEF CoverInv, NothingShort, Free, SnapIsPast, ExitsExist
  <2>3. ExitsKnown(p)' /\ ExitsSynced(p)'
    BY <2>1 DEF CoverInv, ExitsKnown, OpenRows, ExitsSynced, Synced
  <2>4. MemoryTrue(p)'
    BY <2>1 DEF CoverInv, MemoryTrue
  <2> QED BY <1>1, <2>2, <2>3, <2>4 DEF CoverInv
<1>3. CASE CycleStep(p) \/ Unnamed(p)
  BY <1>1, <1>3, CoverWhenReading, CoverWhenSending, CoverWhenSold, CoverWhenBought, CoverWhenLoading
     DEF CycleStep, Unnamed
<1>4. CASE LoseReply(p) \/ Abort(p)
  BY <1>1, <1>4, CoverWhenFailing
<1>5. CASE \E i \in DOMAIN orders : Execute(i) \/ Lapse(i)
  BY <1>1, <1>5, CoverWhenBrokerMoves
<1>6. ASSUME NEW s \in Symbols, OwnerSells(s) \/ Untrack(s) \/ Track(s) PROVE CoverInv(p)'
  BY <1>1, <1>6, CoverWhenBrokerMoves, CoverWhenOwned
<1> QED BY <1>2, <1>3, <1>4, <1>5, <1>6 DEF Next

\* Two rows cannot be one.
LEMMA OneRow ==
  ASSUME NEW m \in Seq(Row), NEW s, Cardinality(OpenRows(m, s)) <= 1,
         NEW i \in OpenRows(m, s), NEW k \in OpenRows(m, s)
  PROVE  i = k
<1> DEFINE S == OpenRows(m, s)
<1>1. IsFiniteSet(S)
  <2>1. DOMAIN m = 1 .. Len(m) /\ Len(m) \in Nat
    OBVIOUS
  <2>2. S \subseteq 1 .. Len(m)
    BY <2>1 DEF OpenRows
  <2>3. IsFiniteSet(1 .. Len(m))
    BY <2>1, FS_Interval
  <2> HIDE DEF S
  <2> QED BY <2>2, <2>3, FS_Subset
<1> HIDE DEF S
<1>2. IsFiniteSet(S \ {i}) /\ Cardinality(S \ {i}) = Cardinality(S) - 1 /\ Cardinality(S) \in Nat
      /\ Cardinality(S \ {i}) \in Nat
  <2>1. i \in S
    BY DEF S
  <2> QED BY <1>1, <2>1, FS_RemoveElement, FS_CardinalityType
<1>3. Cardinality(S \ {i}) = 0
  BY <1>2 DEF S
<1>4. S \ {i} = {}
  BY <1>2, <1>3, FS_EmptySet
<1> QED BY <1>4 DEF S

\* A row that the cycle may send an exit for is covered: no live sell order of its symbol is
\* left that the synchronized exit of the row would not show.
LEMMA CoverImplied ==
  ASSUME NEW p \in Traders, Traders = {p}, CoverInv(p)
  PROVE  SellsAreCovered
<1> DEFINE t == trader[p]
           i == Next1(p)
           r == t.mem[i]
           s == r.sym
<1> SUFFICES ASSUME t.at = "sell", t.todo # {}, ~ExitActive(r.exit),
                    s \notin lost, s \notin moved[p], s \in t.held,
                    Cardinality(OpenRows(t.mem, s)) <= 1
             PROVE  Free(s) >= r.shares
  <2>1. Cardinality(OpenRows(t.mem, s)) \in Nat
    <3>1. t.mem \in Seq(Row)
      BY InMemory DEF CoverInv, Trader
    <3> DEFINE m == t.mem
               S == OpenRows(m, s)
    <3>2. DOMAIN m = 1 .. Len(m) /\ Len(m) \in Nat
      BY <3>1
    <3>3. S \subseteq 1 .. Len(m)
      BY <3>2 DEF OpenRows
    <3>4. IsFiniteSet(1 .. Len(m))
      BY <3>2, FS_Interval
    <3> HIDE DEF S, m
    <3>5. Cardinality(S) \in Nat
      BY <3>3, <3>4, FS_Subset, FS_CardinalityType
    <3> QED BY <3>5 DEF S, m
  <2>2. Cardinality(OpenRows(t.mem, s)) > 1 \/ Cardinality(OpenRows(t.mem, s)) <= 1
    BY <2>1
  <2> QED BY <2>2 DEF SellsAreCovered
<1>1. TypeInv /\ BrokerOK /\ t.mem \in Seq(Row) /\ Cycling(t)
  BY InMemory DEF CoverInv, TypeInv, Trader, Cycling
<1>2. i \in t.todo /\ i \in DOMAIN t.mem /\ r.status = "open" /\ s \in Symbols
      /\ r.shares \in Nat \ {0}
  BY <1>1, NextIsLeft
<1>3. None \notin DOMAIN orders /\ DOMAIN t.mem \subseteq DOMAIN rows
  BY <1>1, Places
<1> HIDE DEF i, r, s
<1>4. r.shares <= shares[s]
  BY <1>1, <1>2 DEF CoverInv, MemoryTrue, r, s
<1>5. ASSUME NEW j \in LiveOrders(orders, "sell", s) PROVE FALSE
  <2>1. j \in DOMAIN orders /\ orders[j].live /\ orders[j].side = "sell" /\ orders[j].sym = s
    BY DEF LiveOrders
  <2>2. PICK k \in OpenRows(rows, s) : rows[k].exit = j
    BY <2>1 DEF CoverInv, ExitsKnown
  <2>3. k \in DOMAIN rows /\ rows[k].status = "open" /\ rows[k].sym = s /\ j # None
    BY <1>3, <2>1, <2>2 DEF OpenRows
  <2>4. k \in DOMAIN t.mem /\ t.mem[k].status = "open" /\ t.mem[k].sym = s
    BY <1>1, <2>2, <2>3 DEF CoverInv, MemoryTrue
  <2>5. k \in OpenRows(t.mem, s) /\ i \in OpenRows(t.mem, s)
    BY <1>2, <2>4 DEF OpenRows, r, s
  <2>6. k = i
    BY <1>1, <2>5, OneRow
  <2>7. r.exit = j
    BY <1>1, <1>2, <2>2, <2>3, <2>6 DEF CoverInv, MemoryTrue, r
  <2>8. j \in DOMAIN snap
    BY <1>1, <1>2, <2>3, <2>7 DEF CoverInv, ExitsSynced, Synced, r
  <2> QED BY <2>1, <2>7, <2>8 DEF CoverInv, SnapIsPast, ExitActive
<1>6. LiveOrders(orders, "sell", s) = {}
  BY <1>5
<1>7. Unfilled(orders, "sell", s) = 0
  BY <1>1, <1>6, UnfilledIsNat DEF BrokerOK, BrokerTypeOK
<1>8. shares[s] \in Int /\ r.shares \in Int
  BY <1>1, <1>2 DEF BrokerOK, BrokerTypeOK
<1> DEFINE n == r.shares
<1>9. n \in Int /\ n <= shares[s] /\ Free(s) = shares[s] - 0
  BY <1>4, <1>7, <1>8 DEF Free
<1> HIDE DEF n
<1>10. Free(s) >= n
  BY <1>8, <1>9
<1> QED BY <1>10 DEF n

-----------------------------------------------------------------------------
(* What is bought: process p is the only one                                  *)

\* What the shares of the account are worth.
Worth == MapThenSumSet(LAMBDA s : shares[s], Symbols)

UnfilledOf(os, side) == [s \in Symbols |-> Unfilled(os, side, s)]

\* Both are sums over the symbols.
LEMMA SumsOfSymbols ==
  /\ \A f : MapThenSumSet(LAMBDA s : f[s], Symbols) = Total(f, Symbols)
  /\ \A os, side : TotalUnfilled(os, side) = Total(UnfilledOf(os, side), Symbols)
<1>1. ASSUME NEW f
      PROVE  MapThenSumSet(LAMBDA s : f[s], Symbols) = Total(f, Symbols)
  <2>1. MapThenSumSet(LAMBDA s : f[s], Symbols) = (CHOOSE g : IsSum(g, f, Symbols))[Symbols]
    BY DEF MapThenSumSet, MapThenFoldSet, IsSum, AnyOf
  <2> QED BY <2>1 DEF Total
<1>2. ASSUME NEW os, NEW side
      PROVE  TotalUnfilled(os, side) = Total(UnfilledOf(os, side), Symbols)
  <2> DEFINE f == UnfilledOf(os, side)
             mine(g) == g = [t \in SUBSET Symbols |-> IF t = {} THEN 0
                               ELSE Unfilled(os, side, AnyOf(t)) + g[t \ {AnyOf(t)}]]
  <2>1. TotalUnfilled(os, side) = (CHOOSE g : mine(g))[Symbols]
    BY DEF TotalUnfilled, MapThenSumSet, MapThenFoldSet, AnyOf
  <2>2. \A t \in SUBSET Symbols : t # {} => f[AnyOf(t)] = Unfilled(os, side, AnyOf(t))
    BY DEF AnyOf, UnfilledOf
  <2>3. \A g : mine(g) <=> IsSum(g, f, Symbols)
    <3> HIDE DEF f
    <3> QED BY <2>2 DEF IsSum
  <2>4. (CHOOSE g : mine(g)) = (CHOOSE g : IsSum(g, f, Symbols))
    <3> HIDE DEF mine, f
    <3> QED BY <2>3
  <2> QED BY <2>1, <2>4 DEF Total
<1> QED BY <1>1, <1>2

\* They move with what moves for one symbol.
LEMMA UnfilledSumMoves ==
  ASSUME NEW os \in Seq(Order), NEW ns, NEW side, NEW x \in Symbols, NEW d \in Int,
         \A s \in Symbols : Unfilled(ns, side, s) = Unfilled(os, side, s) + (IF s = x THEN d ELSE 0)
  PROVE  TotalUnfilled(ns, side) = TotalUnfilled(os, side) + d
<1> DEFINE f == UnfilledOf(os, side)
           g == UnfilledOf(ns, side)
<1>1. \A s \in Symbols : f[s] = Unfilled(os, side, s) /\ g[s] = Unfilled(ns, side, s)
  BY DEF UnfilledOf
<1>2. \A s \in Symbols : Unfilled(os, side, s) \in Int
  BY UnfilledMoves
<1>3. IsFiniteSet(Symbols)
  BY BrokerAssumption
<1>4. TotalUnfilled(os, side) = Total(f, Symbols) /\ TotalUnfilled(ns, side) = Total(g, Symbols)
  BY SumsOfSymbols
<1> HIDE DEF f, g
<1>5. /\ \A s \in Symbols : f[s] \in Int
      /\ \A s \in Symbols : g[s] = f[s] + (IF s = x THEN d ELSE 0)
  BY <1>1, <1>2
<1>6. Total(g, Symbols) = Total(f, Symbols) + d
  BY <1>3, <1>5, SumMoves
<1> QED BY <1>4, <1>6

\* The worth of the shares as a sum, before and after a step.
LEMMA WorthIsSum == Worth = Total(shares, Symbols) /\ Worth' = Total(shares', Symbols)
<1>1. Worth = (CHOOSE g : IsSum(g, shares, Symbols))[Symbols]
  BY DEF Worth, MapThenSumSet, MapThenFoldSet, IsSum, AnyOf
<1>2. Worth' = (CHOOSE g : IsSum(g, shares', Symbols))[Symbols]
  BY DEF Worth, MapThenSumSet, MapThenFoldSet, IsSum, AnyOf
<1> QED BY <1>1, <1>2 DEF Total

\* It moves with the shares of one symbol.
LEMMA WorthMoves ==
  ASSUME shares \in [Symbols -> Int], NEW x \in Symbols, NEW d \in Int,
         \A s \in Symbols : shares'[s] = shares[s] + (IF s = x THEN d ELSE 0)
  PROVE  Worth' = Worth + d /\ Worth \in Int
<1>1. Worth = Total(shares, Symbols) /\ Worth' = Total(shares', Symbols)
  BY WorthIsSum
<1>2. \A s \in Symbols : shares[s] \in Int
  OBVIOUS
<1>3. Total(shares', Symbols) = Total(shares, Symbols) + d
  BY <1>2, BrokerAssumption, SumMoves
<1>4. Total(shares, Symbols) \in Int
  BY <1>2, BrokerAssumption, SumOf
<1> QED BY <1>1, <1>3, <1>4

\* A buy order that is live is that of an open row, unless it came adrift or is about to be
\* recorded.
BuysKnown(p) ==
  \A j \in DOMAIN orders :
    orders[j].live /\ orders[j].side = "buy" =>
      \/ orders[j].sym \in adrift
      \/ trader[p].at = "bought" /\ trader[p].order = j
      \/ \E k \in OpenRows(rows, orders[j].sym) : rows[k].order = j

\* Symbols that the cycle takes for free have no shares.
FreeAreFree(p) ==
  LET t == trader[p] IN
  /\ Cycling(t) =>
       \A s \in Symbols \ t.held : s \in adrift \/ shares[s] < 1 \/ OpenRows(rows, s) # {}
  /\ t.at \in {"buy", "bought"} =>
       \A s \in t.cands : s \in adrift \/ (shares[s] < 1 /\ OpenRows(rows, s) = {})
  /\ t.at = "bought" => orders[t.order].sym \notin t.cands

\* The copy of the orders is of a moment before, when live orders were not filled.
CopyIsPast == SnapIsPast /\ LiveAreOpen(snap)

BuyInv(p) == TypeInv /\ CopyIsPast /\ BuysKnown(p) /\ FreeAreFree(p)

\* Steps of the cycle that read.
LEMMA Reads ==
  ASSUME TypeInv, NEW p \in Traders,
         Begin(p) \/ Sync(p) \/ FetchAccount(p) \/ Hold(p) \/ FindCandidates(p) \/ EndCycle(p)
  PROVE  /\ UNCHANGED <<orders, shares, sold, cash, rows, adrift>> /\ Resynced
         /\ trader[p].at \notin {"bought", "sold"}
         /\ \E t : /\ Goes(p, t)
                   /\ \/ t.at \in {"idle", "sync"}
                      \/ t.at = "account" /\ SyncHistory
                      \/ /\ t.at = "load" /\ trader[p].at = "account"
                         /\ t.acct.equity = cash + Worth /\ UNCHANGED snap
                      \/ /\ t.at = trader[p].at /\ trader[p].at = "sell"
                         /\ t.held = trader[p].held /\ SamePurse(t, trader[p])
                      \/ /\ t.at = "buy" /\ trader[p].at = "sell" /\ SamePurse(t, trader[p])
                         /\ t.cands = {s \in Symbols \ trader[p].held : OpenRows(rows, s) = {}}
<1>1. trader[p] \in Trader
  BY InMemory
<1>2. CASE Begin(p)
  <2>1. PICK t : t = [Idle EXCEPT !.at = "sync", !.since = sold]
    BY Zenon
  <2>2. Goes(p, t) /\ UNCHANGED <<orders, shares, sold, cash, rows, snap, known, adrift>>
        /\ trader[p].at = "idle"
    BY <1>2, <2>1 DEF Begin, brokerVars
  <2>3. t.at = "sync"
    <3>1. Idle \in Trader
      BY IdleHolds
    <3> QED BY <2>1, <3>1 DEF Trader
  <2> QED BY <2>2, <2>3 DEF Resynced
<1>3. CASE Sync(p)
  <2>1. PICK t : t = [trader[p] EXCEPT !.at = "account"]
    BY Zenon
  <2>2. /\ Goes(p, t) /\ UNCHANGED <<orders, shares, sold, cash, rows, adrift>> /\ SyncHistory
        /\ trader[p].at = "sync"
    BY <1>3, <2>1 DEF Sync, brokerVars
  <2>3. t.at = "account"
    BY <1>1, <2>1 DEF Trader
  <2> QED BY <2>2, <2>3 DEF Resynced
<1>4. CASE FetchAccount(p)
  <2>1. PICK t : t = [trader[p] EXCEPT !.at = "load", !.acct = [cash |-> cash, equity |-> cash + Worth]]
    BY Zenon
  <2>2. /\ Goes(p, t) /\ UNCHANGED <<orders, shares, sold, cash, rows, snap, known, adrift>>
        /\ trader[p].at = "account"
    BY <1>4, <2>1 DEF FetchAccount, brokerVars, Worth
  <2>3. t.at = "load" /\ t.acct = [cash |-> cash, equity |-> cash + Worth]
    BY <1>1, <2>1 DEF Trader
  <2>4. t.acct.equity = cash + Worth
    BY <2>3
  <2> QED BY <2>2, <2>3, <2>4 DEF Resynced
<1>5. CASE Hold(p)
  <2> DEFINE rest == trader[p].todo \ {Next1(p)}
  <2>1. PICK t : t = [trader[p] EXCEPT !.todo = rest]
    BY Zenon
  <2>2. /\ Goes(p, t) /\ UNCHANGED <<orders, shares, sold, cash, rows, snap, known, adrift>>
        /\ trader[p].at = "sell"
    BY <1>5, <2>1 DEF Hold, brokerVars
  <2> HIDE DEF rest
  <2>3. t.at = trader[p].at /\ t.held = trader[p].held /\ SamePurse(t, trader[p])
    BY <1>1, <2>1 DEF Trader, SamePurse
  <2> QED BY <2>2, <2>3 DEF Resynced
<1>6. CASE FindCandidates(p)
  <2> DEFINE cands == {s \in Symbols \ trader[p].held : OpenRows(rows, s) = {}}
  <2>1. PICK t : t = [trader[p] EXCEPT !.at = "buy", !.mem = <<>>, !.held = {}, !.cands = cands]
    BY Zenon
  <2>2. /\ Goes(p, t) /\ UNCHANGED <<orders, shares, sold, cash, rows, snap, known, adrift>>
        /\ trader[p].at = "sell"
    BY <1>6, <2>1 DEF FindCandidates, brokerVars
  <2>3. t.at = "buy" /\ t.cands = cands /\ SamePurse(t, trader[p])
    <3> HIDE DEF cands
    <3> QED BY <1>1, <2>1 DEF Trader, SamePurse
  <2> QED BY <2>2, <2>3 DEF Resynced
<1>7. CASE EndCycle(p)
  <2>1. /\ Goes(p, Idle) /\ UNCHANGED <<orders, shares, sold, cash, rows, snap, known, adrift>>
        /\ trader[p].at \in {"buy", "sell"}
    BY <1>7 DEF EndCycle, brokerVars
  <2>2. Idle.at = "idle"
    BY Zenon DEF Idle
  <2> QED BY <2>1, <2>2 DEF Resynced
<1> QED BY <1>2, <1>3, <1>4, <1>5, <1>6, <1>7

\* Orders that stay follow themselves.
LEMMA FollowSelf == ASSUME TypeInv, UNCHANGED orders PROVE Follow(orders, orders')
<1>1. orders \in Seq(Order)
  BY DEF TypeInv, BrokerOK, BrokerTypeOK
<1>2. Len(orders) \in Nat
  BY <1>1
<1> QED BY <1>2 DEF Follow

\* The copy is of the past, with or without a synchronization.
LEMMA CopyStaysPast ==
  ASSUME TypeInv, CopyIsPast, Resynced, Follow(orders, orders')
  PROVE  CopyIsPast'
<1>1. LiveAreOpen(orders) /\ orders \in Seq(Order) /\ snap \in Seq(Order) /\ Len(snap) <= Len(orders)
  BY DEF TypeInv, BrokerOK, BrokerTypeOK
<1>2. DOMAIN snap \subseteq DOMAIN orders
  BY <1>1
<1>3. snap' = snap \/ snap' = orders
  BY DEF Resynced, SyncHistory
<1>4. LiveAreOpen(snap')
  BY <1>1, <1>3 DEF CopyIsPast
<1>5. \A i \in DOMAIN snap' : orders'[i].live => snap'[i].live
  BY <1>2, <1>3 DEF CopyIsPast, SnapIsPast, Follow
<1> QED BY <1>4, <1>5 DEF CopyIsPast, SnapIsPast, LiveAreOpen

\* Buys stay known while open rows keep their orders.
LEMMA BuysStayKnown ==
  ASSUME NEW p \in Traders, BuysKnown(p), Follow(orders, orders'), adrift \subseteq adrift',
         \A j \in DOMAIN orders' : orders'[j].live /\ orders'[j].side = "buy" =>
           j \in DOMAIN orders \/ (trader'[p].at = "bought" /\ trader'[p].order = j),
         trader[p].at = "bought" =>
           \/ trader'[p].at = "bought" /\ trader'[p].order = trader[p].order
           \/ orders[trader[p].order].sym \in adrift'
           \/ \E k \in OpenRows(rows', orders[trader[p].order].sym) : rows'[k].order = trader[p].order,
         \A k \in DOMAIN rows :
           rows[k].status = "open" /\ rows[k].order \in DOMAIN orders /\ orders[rows[k].order].live =>
             \/ rows[k].sym \in adrift'
             \/ /\ k \in DOMAIN rows' /\ rows'[k].status = "open"
                /\ rows'[k].sym = rows[k].sym /\ rows'[k].order = rows[k].order
  PROVE  BuysKnown(p)'
<1> SUFFICES ASSUME NEW j \in DOMAIN orders', orders'[j].live, orders'[j].side = "buy"
             PROVE  \/ orders'[j].sym \in adrift'
                    \/ trader'[p].at = "bought" /\ trader'[p].order = j
                    \/ \E k \in OpenRows(rows', orders'[j].sym) : rows'[k].order = j
  BY DEF BuysKnown
<1>1. CASE j \in DOMAIN orders
  <2>1. orders[j].live /\ orders[j].side = "buy" /\ orders'[j].sym = orders[j].sym
    BY <1>1 DEF Follow
  <2>2. \/ orders[j].sym \in adrift
        \/ trader[p].at = "bought" /\ trader[p].order = j
        \/ \E k \in OpenRows(rows, orders[j].sym) : rows[k].order = j
    BY <1>1, <2>1 DEF BuysKnown
  <2>3. ASSUME NEW k \in OpenRows(rows, orders[j].sym), rows[k].order = j
        PROVE  orders[j].sym \in adrift' \/ (k \in OpenRows(rows', orders[j].sym) /\ rows'[k].order = j)
    <3>1. k \in DOMAIN rows /\ rows[k].status = "open" /\ rows[k].sym = orders[j].sym
      BY DEF OpenRows
    <3> QED BY <1>1, <2>1, <2>3, <3>1 DEF OpenRows
  <2> QED BY <2>1, <2>2, <2>3
<1>2. CASE j \notin DOMAIN orders
  BY <1>2
<1> QED BY <1>1, <1>2

\* Steps of a cycle that read, and failures.
LEMMA BuyWhenQuiet ==
  ASSUME NEW p \in Traders, BuyInv(p), TypeInv', NEW t, Goes(p, t),
         UNCHANGED <<orders, shares, rows>>, Resynced, adrift \subseteq adrift',
         trader[p].at = "bought" => orders[trader[p].order].sym \in adrift',
         \/ t.at \in {"idle", "sync", "account", "load"}
         \/ t.at = "sell" /\ Cycling(trader[p]) /\ t.held = trader[p].held
         \/ t.at = "buy" /\ trader[p].at = "bought" /\ t.cands = trader[p].cands
         \/ /\ t.at = "buy" /\ trader[p].at = "sell"
            /\ t.cands = {s \in Symbols \ trader[p].held : OpenRows(rows, s) = {}}
  PROVE  BuyInv(p)'
<1>1. TypeInv /\ CopyIsPast /\ BuysKnown(p) /\ FreeAreFree(p) /\ trader'[p] = t
  BY Places DEF BuyInv
<1>2. CopyIsPast'
  BY <1>1, FollowSelf, CopyStaysPast
<1>3. BuysKnown(p)'
  BY <1>1, FollowSelf, BuysStayKnown
<1>4. /\ t.at = "sell" => /\ Cycling(trader[p]) /\ t.held = trader[p].held
      /\ t.at # "sold" /\ t.at # "bought"
      /\ t.at = "buy" => \/ trader[p].at = "bought" /\ t.cands = trader[p].cands
                         \/ /\ trader[p].at = "sell"
                            /\ t.cands = {s \in Symbols \ trader[p].held : OpenRows(rows, s) = {}}
  OBVIOUS
<1>5. FreeAreFree(p)'
  <2>1. ASSUME t.at = "sell", NEW s \in Symbols \ t.held
        PROVE  s \in adrift' \/ shares[s] < 1 \/ OpenRows(rows, s) # {}
    BY <1>1, <1>4, <2>1 DEF FreeAreFree
  <2>2. ASSUME t.at = "buy", NEW s \in t.cands
        PROVE  s \in adrift' \/ (shares[s] < 1 /\ OpenRows(rows, s) = {})
    BY <1>1, <1>4, <2>2 DEF FreeAreFree, Cycling
  <2>3. \A s : OpenRows(rows', s) = OpenRows(rows, s)
    OBVIOUS
  <2> QED BY <1>1, <1>4, <2>1, <2>2, <2>3 DEF FreeAreFree, Cycling
<1> QED BY <1>2, <1>3, <1>5 DEF BuyInv

\* The cycle reads.
LEMMA BuyWhenReading ==
  ASSUME NEW p \in Traders, BuyInv(p), TypeInv',
         Begin(p) \/ Sync(p) \/ FetchAccount(p) \/ Hold(p) \/ FindCandidates(p) \/ EndCycle(p)
  PROVE  BuyInv(p)'
<1>1. TypeInv
  BY DEF BuyInv
<1>2. /\ UNCHANGED <<orders, shares, sold, cash, rows, adrift>> /\ Resynced
      /\ trader[p].at \notin {"bought", "sold"}
  BY <1>1, Reads
<1>3. PICK t : /\ Goes(p, t)
               /\ \/ t.at \in {"idle", "sync", "account", "load"}
                  \/ t.at = "sell" /\ trader[p].at = "sell" /\ t.held = trader[p].held
                  \/ /\ t.at = "buy" /\ trader[p].at = "sell"
                     /\ t.cands = {s \in Symbols \ trader[p].held : OpenRows(rows, s) = {}}
  BY <1>1, Reads
<1> QED BY <1>2, <1>3, BuyWhenQuiet DEF Cycling

\* A reply is lost, or the cycle ends early: a buy that was sent comes adrift.
LEMMA BuyWhenFailing ==
  ASSUME NEW p \in Traders, BuyInv(p), TypeInv', LoseReply(p) \/ Abort(p)
  PROVE  BuyInv(p)'
<1>1. TypeInv
  BY DEF BuyInv
<1>2. /\ UNCHANGED <<orders, shares, rows>> /\ Resynced /\ adrift \subseteq adrift'
      /\ (trader[p].at = "bought" => orders[trader[p].order].sym \in adrift')
  BY <1>1, Failed DEF brokerVars, Resynced
<1>3. PICK t : /\ Goes(p, t)
               /\ \/ t.at = "idle"
                  \/ t.at = "sell" /\ trader[p].at = "sold" /\ t.held = trader[p].held
                  \/ t.at = "buy" /\ trader[p].at = "bought" /\ t.cands = trader[p].cands
  BY <1>1, Failed
<1> QED BY <1>2, <1>3, BuyWhenQuiet DEF Cycling

\* A sell is sent: the buys stay as they are.
LEMMA BuyWhenSelling ==
  ASSUME NEW p \in Traders, BuyInv(p), TypeInv', Sell(p)
  PROVE  BuyInv(p)'
<1>1. TypeInv /\ CopyIsPast /\ BuysKnown(p) /\ FreeAreFree(p) /\ BrokerOK
  BY DEF BuyInv, TypeInv
<1>2. PICK t \in Trader : Goes(p, t) /\ t.at = "sold" /\ t.held = trader[p].held
  BY <1>1, SellSent
<1>3. trader'[p] = t /\ trader[p].at = "sell" /\ UNCHANGED <<rows, snap, known, adrift>>
  BY <1>1, <1>2, Places, SellSent
<1>4. /\ Follow(orders, orders') /\ UNCHANGED shares
      /\ \A j \in DOMAIN orders' : j \in DOMAIN orders \/ orders'[j].side = "sell"
  <2> DEFINE s == trader[p].mem[Next1(p)].sym
             n == trader[p].mem[Next1(p)].shares
  <2>1. s \in Symbols /\ n \in Nat \ {0} /\ Place(s, "sell", n)
    BY <1>1, SellSent, NextIsLeft
  <2> HIDE DEF s, n
  <2> QED BY <1>1, <2>1, PlaceKeeps
<1>5. CopyIsPast'
  BY <1>1, <1>3, <1>4, CopyStaysPast DEF Resynced
<1>6. BuysKnown(p)'
  BY <1>1, <1>3, <1>4, BuysStayKnown
<1>7. FreeAreFree(p)'
  BY <1>1, <1>2, <1>3, <1>4 DEF FreeAreFree, Cycling, OpenRows
<1> QED BY <1>5, <1>6, <1>7 DEF BuyInv

\* A buy is sent: it is known to be about to be recorded.
LEMMA BuyWhenBuying ==
  ASSUME NEW p \in Traders, BuyInv(p), TypeInv', NEW s \in Symbols, Buy(p, s)
  PROVE  BuyInv(p)'
<1>1. TypeInv /\ CopyIsPast /\ BuysKnown(p) /\ FreeAreFree(p) /\ BrokerOK
  BY DEF BuyInv, TypeInv
<1>2. PICK t \in Trader : /\ Goes(p, t) /\ t.at = "bought" /\ t.order = Len(orders) + 1
                         /\ t.cands = trader[p].cands \ {s}
  BY <1>1, BuySent
<1>3. trader'[p] = t /\ trader[p].at = "buy" /\ UNCHANGED <<rows, snap, known, adrift>>
  BY <1>1, <1>2, Places, BuySent
<1>4. Place(s, "buy", Lot) /\ Lot \in Nat \ {0}
  BY <1>1, BuySent
<1>5. /\ Follow(orders, orders') /\ UNCHANGED shares
      /\ \A j \in DOMAIN orders' : j \in DOMAIN orders \/ j = Len(orders) + 1
      /\ orders'[Len(orders) + 1].sym = s
  BY <1>1, <1>4, PlaceKeeps
<1>6. CopyIsPast'
  BY <1>1, <1>3, <1>5, CopyStaysPast DEF Resynced
<1>7. BuysKnown(p)'
  BY <1>1, <1>2, <1>3, <1>5, BuysStayKnown
<1>8. FreeAreFree(p)'
  BY <1>1, <1>2, <1>3, <1>5 DEF FreeAreFree, Cycling, OpenRows
<1> QED BY <1>6, <1>7, <1>8 DEF BuyInv

\* The reply to an order is recorded.
LEMMA BuyWhenSold ==
  ASSUME NEW p \in Traders, BuyInv(p), TypeInv', NEW synced \in BOOLEAN, NEW id \in {trader[p].order, None},
         RecordSell(p, synced, id)
  PROVE  BuyInv(p)'
<1>1. TypeInv /\ CopyIsPast /\ BuysKnown(p) /\ FreeAreFree(p)
  BY DEF BuyInv
<1>2. PICK t \in Trader : Goes(p, t) /\ t.at = "sell" /\ t.held = trader[p].held
  BY <1>1, SellRecorded
<1>3. /\ trader'[p] = t /\ trader[p].at = "sold" /\ UNCHANGED <<orders, shares, adrift>> /\ Resynced
      /\ DOMAIN rows' = DOMAIN rows
      /\ \A i \in DOMAIN rows : /\ rows'[i].sym = rows[i].sym /\ rows'[i].status = rows[i].status
                                /\ rows'[i].order = rows[i].order
  BY <1>1, <1>2, Places, SellRecorded DEF brokerVars
<1>4. CopyIsPast'
  BY <1>1, <1>3, FollowSelf, CopyStaysPast
<1>5. BuysKnown(p)'
  BY <1>1, <1>3, FollowSelf, BuysStayKnown
<1>6. \A s : OpenRows(rows', s) = OpenRows(rows, s)
  BY <1>3 DEF OpenRows
<1>7. FreeAreFree(p)'
  BY <1>1, <1>2, <1>3, <1>6 DEF FreeAreFree, Cycling
<1> QED BY <1>4, <1>5, <1>7 DEF BuyInv

\* A buy is recorded: the new row knows it.
LEMMA BuyWhenBought ==
  ASSUME NEW p \in Traders, BuyInv(p), TypeInv', NEW synced \in BOOLEAN, NEW id \in {trader[p].order, None},
         RecordBuy(p, synced, id)
  PROVE  BuyInv(p)'
<1>1. TypeInv /\ CopyIsPast /\ BuysKnown(p) /\ FreeAreFree(p)
  BY DEF BuyInv
<1>2. PICK t \in Trader : Goes(p, t) /\ t.at = "buy" /\ t.cands = trader[p].cands
  BY <1>1, BuyRecorded
<1> DEFINE n == Len(rows')
           x == orders[trader[p].order].sym
<1>3. /\ trader'[p] = t /\ trader[p].at = "bought" /\ UNCHANGED <<orders, shares>> /\ Resynced
      /\ adrift \subseteq adrift' /\ (id = None => x \in adrift')
      /\ \A i \in DOMAIN rows : i \in DOMAIN rows' /\ rows'[i] = rows[i]
      /\ \A i \in DOMAIN rows' : i \in DOMAIN rows \/ i = n
      /\ n \in DOMAIN rows' /\ rows'[n].status = "open" /\ rows'[n].order = id
      /\ rows'[n].sym = x
  BY <1>1, <1>2, Places, BuyRecorded DEF brokerVars
<1> HIDE DEF n
<1>4. CopyIsPast'
  BY <1>1, <1>3, FollowSelf, CopyStaysPast
<1>5. n \in OpenRows(rows', x)
  BY <1>3 DEF OpenRows
<1>6. BuysKnown(p)'
  BY <1>1, <1>3, <1>5, FollowSelf, BuysStayKnown
<1>7. x \notin trader[p].cands
  BY <1>1, <1>3 DEF FreeAreFree
<1>8. \A s \in trader[p].cands : OpenRows(rows', s) = OpenRows(rows, s)
  BY <1>3, <1>7 DEF OpenRows
<1>9. FreeAreFree(p)'
  BY <1>1, <1>2, <1>3, <1>8 DEF FreeAreFree, Cycling
<1> QED BY <1>4, <1>6, <1>9 DEF BuyInv

\* The rows are loaded: a row whose buy is live stays open, or its buy comes adrift.
LEMMA BuyWhenLoading ==
  ASSUME NEW p \in Traders, BuyInv(p), TypeInv', Load(p)
  PROVE  BuyInv(p)'
<1>1. TypeInv /\ CopyIsPast /\ BuysKnown(p) /\ FreeAreFree(p)
  BY DEF BuyInv
<1>2. PICK q \in [Symbols -> Nat] :
        /\ \A s \in Symbols : q[s] = IF shares[s] >= 1 THEN shares[s] ELSE 0
        /\ Repaired(rows, rows', q)
        /\ \E t \in Trader : Goes(p, t) /\ t.at = "sell" /\ t.held = {s \in Symbols : q[s] > 0}
  BY <1>1, Loaded
<1>3. PICK t \in Trader : Goes(p, t) /\ t.at = "sell" /\ t.held = {s \in Symbols : q[s] > 0}
  BY <1>2
<1>4. trader'[p] = t /\ trader[p].at = "load" /\ UNCHANGED <<orders, shares, snap, known>>
  BY <1>1, <1>3, Places, Loaded DEF brokerVars
<1>5. adrift' = adrift \cup {s \in Symbols : \E i \in OpenRows(rows, s) :
                               /\ rows'[i].status = "closed"
                               /\ SellKnown(rows[i]) /\ Buying(rows[i])}
  BY DEF Load
<1>6. CopyIsPast'
  BY <1>1, <1>4, FollowSelf, CopyStaysPast DEF Resynced
<1>7. ASSUME NEW k \in DOMAIN rows, rows[k].status = "open", rows[k].order \in DOMAIN orders,
             orders[rows[k].order].live
      PROVE  \/ rows[k].sym \in adrift'
             \/ /\ k \in DOMAIN rows' /\ rows'[k].status = "open"
                /\ rows'[k].sym = rows[k].sym /\ rows'[k].order = rows[k].order
  <2>1. rows[k].order # None /\ rows[k].sym \in Symbols
    BY <1>1, <1>7, Places, InMemory
  <2>2. EntryPending(rows[k])
    BY <1>1, <1>7, <2>1 DEF EntryPending, CopyIsPast, SnapIsPast, LiveAreOpen
  <2>3. Buying(rows[k]) /\ k \in OpenRows(rows, rows[k].sym)
    BY <1>7, <2>1 DEF Buying, OpenRows
  <2>4. /\ k \in DOMAIN rows' /\ rows'[k].sym = rows[k].sym
        /\ \/ rows'[k].status = "open" /\ rows'[k].order = rows[k].order
           \/ rows'[k].status = "closed" /\ SellKnown(rows[k])
    BY <1>2, <1>7, <2>2 DEF Repaired, Keeps
  <2> QED BY <1>5, <2>1, <2>3, <2>4
<1>8. BuysKnown(p)'
  <2>1. adrift \subseteq adrift'
    BY <1>5
  <2> QED BY <1>1, <1>4, <1>7, <2>1, FollowSelf, BuysStayKnown
<1>9. \A s \in Symbols \ t.held : shares'[s] < 1
  <2>1. \A s \in Symbols : shares[s] \in Int
    BY <1>1 DEF TypeInv, BrokerOK, BrokerTypeOK
  <2>2. ASSUME NEW s \in Symbols \ t.held PROVE shares[s] < 1
    <3>1. ~(q[s] > 0) /\ q[s] = IF shares[s] >= 1 THEN shares[s] ELSE 0
      BY <1>2, <1>3
    <3> QED BY <2>1, <3>1
  <2> QED BY <1>4, <2>2
<1>10. FreeAreFree(p)'
  BY <1>3, <1>4, <1>9 DEF FreeAreFree
<1> QED BY <1>6, <1>8, <1>10 DEF BuyInv

\* The broker moves on: only a buy that is live brings shares.
LEMMA BuyWhenBrokerMoves ==
  ASSUME NEW p \in Traders, BuyInv(p), TypeInv', UNCHANGED <<rows, snap, known, trader, adrift>>,
         Follow(orders, orders'),
         \A j \in DOMAIN orders' : orders'[j].live => j \in DOMAIN orders,
         \A s \in Symbols : shares'[s] <= shares[s] \/ LiveOrders(orders, "buy", s) # {}
  PROVE  BuyInv(p)'
<1>1. TypeInv /\ CopyIsPast /\ BuysKnown(p) /\ FreeAreFree(p)
  BY DEF BuyInv
<1>2. CopyIsPast'
  BY <1>1, CopyStaysPast DEF Resynced
<1>3. BuysKnown(p)'
  BY <1>1, BuysStayKnown
<1>4. trader[p].at = "bought" =>
        trader[p].order \in DOMAIN orders /\ orders'[trader[p].order].sym = orders[trader[p].order].sym
  BY <1>1, InMemory DEF InFlight, Follow
<1>5. ASSUME NEW s \in Symbols
      PROVE  \/ shares[s] < 1 => shares'[s] < 1
             \/ s \in adrift
             \/ trader[p].at = "bought" /\ orders[trader[p].order].sym = s
             \/ OpenRows(rows, s) # {}
  <2>1. shares[s] \in Int /\ shares'[s] \in Int
    BY <1>1 DEF TypeInv, BrokerOK, BrokerTypeOK
  <2>2. CASE shares'[s] <= shares[s]
    BY <2>1, <2>2
  <2>3. CASE LiveOrders(orders, "buy", s) # {}
    <3>1. PICK j \in DOMAIN orders : orders[j].live /\ orders[j].side = "buy" /\ orders[j].sym = s
      BY <2>3 DEF LiveOrders
    <3> QED BY <1>1, <3>1 DEF BuysKnown
  <2> QED BY <2>2, <2>3
<1>6. FreeAreFree(p)'
  <2>1. ASSUME Cycling(trader[p]), NEW s \in Symbols \ trader[p].held
        PROVE  s \in adrift \/ shares'[s] < 1 \/ OpenRows(rows, s) # {}
    BY <1>1, <1>5, <2>1 DEF FreeAreFree, Cycling
  <2>2. ASSUME trader[p].at \in {"buy", "bought"}, NEW s \in trader[p].cands
        PROVE  s \in adrift \/ (shares'[s] < 1 /\ OpenRows(rows, s) = {})
    <3>1. s \in Symbols
      BY <1>1, InMemory DEF Trader
    <3>2. s \in adrift \/ (shares[s] < 1 /\ OpenRows(rows, s) = {})
      BY <1>1, <2>2 DEF FreeAreFree
    <3>3. trader[p].at = "bought" => orders[trader[p].order].sym # s
      BY <1>1, <2>2 DEF FreeAreFree
    <3> QED BY <1>5, <3>1, <3>2, <3>3
  <2>3. trader[p].at = "bought" => orders'[trader[p].order].sym \notin trader[p].cands
    BY <1>1, <1>4 DEF FreeAreFree
  <2>4. \A s : OpenRows(rows', s) = OpenRows(rows, s)
    OBVIOUS
  <2> QED BY <2>1, <2>2, <2>3, <2>4 DEF FreeAreFree, Cycling
<1> QED BY <1>2, <1>3, <1>6 DEF BuyInv

\* What `auto untrack` and `auto track` make of the rows.
LEMMA UntrackedRows ==
  ASSUME TypeInv, NEW s \in Symbols, Untrack(s)
  PROVE  /\ DOMAIN rows' = DOMAIN rows
         /\ \A i \in DOMAIN rows :
              /\ rows'[i].sym = rows[i].sym /\ rows'[i].order = rows[i].order
              /\ rows'[i].status = IF i \in OpenRows(rows, s) THEN "manual" ELSE rows[i].status
         /\ \A x : OpenRows(rows', x) = IF x = s THEN {} ELSE OpenRows(rows, x)
<1>1. \A i \in DOMAIN rows : rows[i] \in Row
  BY DEF TypeInv
<1>2. rows' = [i \in DOMAIN rows |-> IF i \in OpenRows(rows, s)
                                    THEN [rows[i] EXCEPT !.status = "manual"] ELSE rows[i]]
  BY DEF Untrack
<1>3. DOMAIN rows' = DOMAIN rows
  BY <1>2
<1>4. ASSUME NEW i \in DOMAIN rows
      PROVE  /\ rows'[i].sym = rows[i].sym /\ rows'[i].order = rows[i].order
             /\ rows'[i].status = IF i \in OpenRows(rows, s) THEN "manual" ELSE rows[i].status
  <2>1. rows'[i] = IF i \in OpenRows(rows, s) THEN [rows[i] EXCEPT !.status = "manual"] ELSE rows[i]
    BY <1>2
  <2> QED BY <1>1, <2>1 DEF Row
<1>5. \A x : OpenRows(rows', x) = IF x = s THEN {} ELSE OpenRows(rows, x)
  BY <1>3, <1>4 DEF OpenRows
<1> QED BY <1>3, <1>4, <1>5

\* `auto track` adds at most an open row of that symbol.
LEMMA TrackedRows ==
  ASSUME TypeInv, NEW s \in Symbols, Track(s)
  PROVE  /\ \A i \in DOMAIN rows : i \in DOMAIN rows' /\ rows'[i] = rows[i]
         /\ \A x \in Symbols : x # s => OpenRows(rows', x) = OpenRows(rows, x)
         /\ \A x : OpenRows(rows', x) = {} => OpenRows(rows, x) = {}
         /\ shares[s] >= 1
<1>1. rows \in Seq(Row) /\ shares[s] >= 1
  BY DEF TypeInv, Track
<1> DEFINE r == [sym |-> s, status |-> "open", shares |-> shares[s], order |-> None,
                 exit |-> None, entry |-> sold[s]]
<1>2. rows' = rows \/ rows' = Append(rows, r)
  BY DEF Track
<1>3. r.sym = s
  OBVIOUS
<1> HIDE DEF r
<1>4. /\ \A i \in DOMAIN rows : i \in DOMAIN rows' /\ rows'[i] = rows[i]
      /\ \A i \in DOMAIN rows' : i \in DOMAIN rows \/ rows'[i].sym = s
  BY <1>1, <1>2, <1>3
<1>5. /\ \A x \in Symbols : x # s => OpenRows(rows', x) = OpenRows(rows, x)
      /\ \A x : OpenRows(rows', x) = {} => OpenRows(rows, x) = {}
  BY <1>4 DEF OpenRows
<1> QED BY <1>1, <1>4, <1>5

\* `auto untrack` and `auto track` take no row from a live buy that did not come adrift.
LEMMA BuyWhenOwned ==
  ASSUME NEW p \in Traders, BuyInv(p), TypeInv', NEW s \in Symbols, Untrack(s) \/ Track(s)
  PROVE  BuyInv(p)'
<1>1. TypeInv /\ CopyIsPast /\ BuysKnown(p) /\ FreeAreFree(p) /\ None \notin DOMAIN orders
  BY Places DEF BuyInv
<1>2. UNCHANGED <<orders, shares, trader>> /\ Resynced
  BY <1>1, OwnedBy DEF Resynced, brokerVars
<1>3. CopyIsPast'
  BY <1>1, <1>2, FollowSelf, CopyStaysPast
<1>4. CASE Untrack(s)
  <2>1. adrift' = IF Unseen(s) \/ \E i \in OpenRows(rows, s) : Buying(rows[i])
                    THEN adrift \cup {s} ELSE adrift
    BY <1>4 DEF Untrack
  <2>2. /\ DOMAIN rows' = DOMAIN rows
        /\ \A i \in DOMAIN rows :
              /\ rows'[i].sym = rows[i].sym /\ rows'[i].order = rows[i].order
              /\ rows'[i].status = IF i \in OpenRows(rows, s) THEN "manual" ELSE rows[i].status
        /\ \A x : OpenRows(rows', x) = IF x = s THEN {} ELSE OpenRows(rows, x)
    BY <1>1, <1>4, UntrackedRows
  <2>3. ASSUME NEW k \in DOMAIN rows, rows[k].status = "open", rows[k].order \in DOMAIN orders,
               orders[rows[k].order].live
        PROVE  \/ rows[k].sym \in adrift'
               \/ /\ k \in DOMAIN rows' /\ rows'[k].status = "open"
                  /\ rows'[k].sym = rows[k].sym /\ rows'[k].order = rows[k].order
    <3>1. Buying(rows[k])
      BY <1>1, <2>3 DEF Buying
    <3> QED BY <2>1, <2>2, <2>3, <3>1 DEF OpenRows
  <2>4. adrift \subseteq adrift'
    BY <2>1
  <2>5. BuysKnown(p)'
    BY <1>1, <1>2, <2>3, <2>4, FollowSelf, BuysStayKnown
  <2>6. Cycling(trader[p]) /\ s \notin trader[p].held => s \in adrift'
    BY <2>1 DEF Unseen, Cycling
  <2>7. FreeAreFree(p)'
    BY <1>1, <1>2, <2>2, <2>4, <2>6 DEF FreeAreFree, Cycling
  <2> QED BY <1>3, <2>5, <2>7 DEF BuyInv
<1>5. CASE Track(s)
  <2>1. UNCHANGED adrift
    BY <1>5 DEF Track
  <2>2. /\ \A i \in DOMAIN rows : i \in DOMAIN rows' /\ rows'[i] = rows[i]
        /\ \A x \in Symbols : x # s => OpenRows(rows', x) = OpenRows(rows, x)
        /\ \A x : OpenRows(rows', x) = {} => OpenRows(rows, x) = {}
        /\ shares[s] >= 1
    BY <1>1, <1>5, TrackedRows
  <2>3. BuysKnown(p)'
    BY <1>1, <1>2, <2>1, <2>2, FollowSelf, BuysStayKnown
  <2>4. ASSUME trader[p].at \in {"buy", "bought"}, NEW x \in trader[p].cands
        PROVE  x \in adrift \/ (shares[x] < 1 /\ OpenRows(rows', x) = {})
    <3>1. x \in Symbols /\ shares[x] \in Int
      BY <1>1, InMemory DEF Trader, TypeInv, BrokerOK, BrokerTypeOK
    <3>2. x \in adrift \/ (shares[x] < 1 /\ OpenRows(rows, x) = {})
      BY <1>1, <2>4 DEF FreeAreFree
    <3>3. x = s => x \in adrift
      BY <2>2, <3>1, <3>2
    <3> QED BY <2>2, <3>1, <3>2, <3>3
  <2>5. FreeAreFree(p)'
    BY <1>1, <1>2, <2>1, <2>2, <2>4 DEF FreeAreFree, Cycling
  <2> QED BY <1>3, <2>3, <2>5 DEF BuyInv
<1> QED BY <1>4, <1>5

\* What fills, expiries and sells by hand move.
LEMMA MarketMoves ==
  ASSUME TypeInv, \/ \E i \in DOMAIN orders : Execute(i) \/ Lapse(i)
                  \/ \E s \in Symbols : OwnerSells(s)
  PROVE  /\ UNCHANGED <<rows, snap, known, trader, adrift>> /\ Follow(orders, orders')
         /\ \A j \in DOMAIN orders' : orders'[j].live => j \in DOMAIN orders
         /\ \A s \in Symbols : shares'[s] <= shares[s] \/ LiveOrders(orders, "buy", s) # {}
         /\ TotalUnfilled(orders', "buy") <= TotalUnfilled(orders, "buy")
         /\ cash - TotalUnfilled(orders, "buy") <= cash' - TotalUnfilled(orders', "buy")
         /\ cash' + Worth' = cash + Worth
<1>1. /\ BrokerOK /\ orders \in Seq(Order) /\ shares \in [Symbols -> Int] /\ cash \in Int
      /\ TotalUnfilled(orders, "buy") \in Int
      /\ \A s \in Symbols : shares[s] \in Int
  BY SumsAreInts DEF TypeInv, BrokerOK, BrokerTypeOK
<1> DEFINE u == TotalUnfilled(orders, "buy")
           v == TotalUnfilled(orders', "buy")
<1>2. ASSUME NEW i \in DOMAIN orders, Execute(i) PROVE  
         /\ UNCHANGED <<rows, snap, known, trader, adrift>> /\ Follow(orders, orders')
         /\ \A j \in DOMAIN orders' : orders'[j].live => j \in DOMAIN orders
         /\ \A s \in Symbols : shares'[s] <= shares[s] \/ LiveOrders(orders, "buy", s) # {}
         /\ v <= u /\ cash - u <= cash' - v /\ cash' + Worth' = cash + Worth
  <2>1. Fill(i) /\ UNCHANGED <<rows, snap, known, trader, adrift>>
    BY <1>2 DEF Execute, autoVars
  <2> DEFINE x == orders[i].sym
             d == IF orders[i].side = "buy" THEN 1 ELSE -1
             e == IF orders[i].side = "buy" THEN -1 ELSE 0
  <2>2. /\ Follow(orders, orders') /\ orders[i].live /\ x \in Symbols
        /\ orders[i].side \in {"buy", "sell"}
        /\ \A s \in Symbols : Unfilled(orders', "buy", s)
              = Unfilled(orders, "buy", s) + (IF orders[i].side = "buy" /\ x = s THEN -1 ELSE 0)
        /\ \A s \in Symbols : shares'[s] = shares[s] + (IF x = s THEN d ELSE 0)
        /\ cash' = cash - d
    BY <1>1, <2>1, FillKeeps
  <2>3. \A j \in DOMAIN orders' : j \in DOMAIN orders
    BY <2>1 DEF Fill
  <2>4. orders[i].side = "buy" => i \in LiveOrders(orders, "buy", x)
    BY <2>2 DEF LiveOrders
  <2>5. d \in Int /\ e \in Int /\ ((d = 1 /\ e = -1 /\ orders[i].side = "buy") \/ (d = -1 /\ e = 0))
    OBVIOUS
  <2>6. \A s \in Symbols : Unfilled(orders', "buy", s)
              = Unfilled(orders, "buy", s) + (IF s = x THEN e ELSE 0)
    BY <2>2
  <2> HIDE DEF x, d, e
  <2>7. v = u + e
    BY <1>1, <2>2, <2>5, <2>6, UnfilledSumMoves
  <2>8. Worth' = Worth + d /\ Worth \in Int
    <3>1. \A s \in Symbols : shares'[s] = shares[s] + (IF s = x THEN d ELSE 0)
      BY <2>2
    <3> QED BY <1>1, <2>2, <2>5, <3>1, WorthMoves
  <2>9. \A s \in Symbols : shares'[s] <= shares[s] \/ LiveOrders(orders, "buy", s) # {}
    BY <1>1, <2>2, <2>4, <2>5
  <2> HIDE DEF u, v
  <2>10. v <= u /\ cash - u <= cash' - v /\ cash' + Worth' = cash + Worth
    <3>1. /\ u \in Int /\ cash \in Int /\ Worth \in Int
          /\ cash' = cash - d /\ Worth' = Worth + d /\ v = u + e
      BY <1>1, <2>2, <2>7, <2>8 DEF u
    <3>2. CASE d = 1 /\ e = -1
      BY <3>1, <3>2
    <3>3. CASE d = -1 /\ e = 0
      BY <3>1, <3>3
    <3> QED BY <2>5, <3>2, <3>3
  <2> QED BY <2>1, <2>2, <2>3, <2>9, <2>10
<1>3. ASSUME NEW i \in DOMAIN orders, Lapse(i) PROVE  
         /\ UNCHANGED <<rows, snap, known, trader, adrift>> /\ Follow(orders, orders')
         /\ \A j \in DOMAIN orders' : orders'[j].live => j \in DOMAIN orders
         /\ \A s \in Symbols : shares'[s] <= shares[s] \/ LiveOrders(orders, "buy", s) # {}
         /\ v <= u /\ cash - u <= cash' - v /\ cash' + Worth' = cash + Worth
  <2>1. Expire(i) /\ UNCHANGED <<rows, snap, known, trader, adrift>>
    BY <1>3 DEF Lapse, autoVars
  <2>2. /\ BrokerOK' /\ Follow(orders, orders') /\ shares' = shares /\ cash' = cash
        /\ DOMAIN orders' = DOMAIN orders
        /\ \A s \in Symbols : Unfilled(orders', "buy", s) <= Unfilled(orders, "buy", s)
    <3> HIDE DEF u, v
    <3>1. /\ BrokerOK' /\ Follow(orders, orders') /\ UNCHANGED <<shares, sold, cash>>
          /\ DOMAIN orders' = DOMAIN orders
          /\ \A e \in {"buy", "sell"} : \A s \in Symbols : Unfilled(orders', e, s) <= Unfilled(orders, e, s)
      BY <1>1, <2>1, ExpireKeeps
    <3> QED BY <3>1
  <2>3. Worth' = Worth
    BY <2>2, WorthIsSum
  <2>4. v <= u /\ v \in Int
    <3> DEFINE f == UnfilledOf(orders, "buy")
               g == UnfilledOf(orders', "buy")
    <3>1. orders' \in Seq(Order)
      BY <2>2 DEF BrokerOK, BrokerTypeOK
    <3>2. \A s \in Symbols : /\ Unfilled(orders, "buy", s) \in Int /\ Unfilled(orders', "buy", s) \in Int
      BY <1>1, <3>1, UnfilledMoves
    <3>3. \A s \in Symbols : f[s] = Unfilled(orders, "buy", s) /\ g[s] = Unfilled(orders', "buy", s)
      BY DEF UnfilledOf
    <3>4. u = Total(f, Symbols) /\ v = Total(g, Symbols)
      BY SumsOfSymbols
    <3> HIDE DEF f, g, u, v
    <3>5. \A s \in Symbols : g[s] \in Int /\ f[s] \in Int /\ g[s] <= f[s]
      BY <2>2, <3>2, <3>3
    <3>6. Total(g, Symbols) <= Total(f, Symbols)
      BY <3>5, BrokerAssumption, SumGrows
    <3>7. Total(g, Symbols) \in Int
      BY <3>5, BrokerAssumption, SumOf
    <3> QED BY <3>4, <3>6, <3>7
  <2>5. \A s \in Symbols : shares'[s] <= shares[s]
    BY <1>1, <2>2
  <2> HIDE DEF u, v
  <2>6. cash - u <= cash' - v /\ cash' + Worth' = cash + Worth
    <3>1. u \in Int
      BY <1>1 DEF u
    <3>2. cash' = cash
      BY <2>2
    <3> QED BY <1>1, <2>3, <2>4, <3>1, <3>2
  <2> QED BY <2>1, <2>2, <2>4, <2>5, <2>6
<1>4. ASSUME NEW x \in Symbols, OwnerSells(x) PROVE  
         /\ UNCHANGED <<rows, snap, known, trader, adrift>> /\ Follow(orders, orders')
         /\ \A j \in DOMAIN orders' : orders'[j].live => j \in DOMAIN orders
         /\ \A s \in Symbols : shares'[s] <= shares[s] \/ LiveOrders(orders, "buy", s) # {}
         /\ v <= u /\ cash - u <= cash' - v /\ cash' + Worth' = cash + Worth
  <2>1. SellByHand(x) /\ UNCHANGED <<rows, snap, known, trader, adrift>>
    BY <1>4 DEF OwnerSells, autoVars
  <2>2. /\ Follow(orders, orders')
        /\ \A i \in DOMAIN orders' : i = Len(orders) + 1 \/ (i \in DOMAIN orders /\ orders'[i] = orders[i])
        /\ ~orders'[Len(orders) + 1].live
        /\ \A t \in Symbols : shares'[t] = shares[t] + (IF t = x THEN -1 ELSE 0)
        /\ cash' = cash + 1
        /\ \A t \in Symbols : Unfilled(orders', "buy", t) = Unfilled(orders, "buy", t)
    BY <1>1, <2>1, ByHandKeeps
  <2>3. u \in Int /\ v = u
    <3>1. UnfilledOf(orders', "buy") = UnfilledOf(orders, "buy")
      BY <2>2 DEF UnfilledOf
    <3> QED BY <1>1, <3>1, SumsOfSymbols
  <2>4. Worth' = Worth + (-1) /\ Worth \in Int
    <3>1. -1 \in Int
      OBVIOUS
    <3> QED BY <1>1, <2>2, <3>1, WorthMoves
  <2>5. \A s \in Symbols : shares'[s] <= shares[s]
    BY <1>1, <2>2
  <2> HIDE DEF u, v
  <2>6. v <= u /\ cash - u <= cash' - v /\ cash' + Worth' = cash + Worth
    BY <1>1, <2>2, <2>3, <2>4
  <2> QED BY <2>1, <2>2, <2>5, <2>6
<1> QED BY <1>2, <1>3, <1>4

\* Nothing is bought at first.
LEMMA BuyAtFirst == ASSUME NEW p \in Traders PROVE Init => BuyInv(p)
<1> SUFFICES ASSUME Init PROVE BuyInv(p)
  OBVIOUS
<1>1. TypeInv
  BY TypedAtFirst
<1>2. orders = <<>> /\ snap = <<>> /\ trader[p].at = "idle"
  <2>1. trader[p] = Idle
    BY DEF Init
  <2>2. Idle.at = "idle"
    BY Zenon DEF Idle
  <2> QED BY <2>1, <2>2 DEF Init, BrokerInit
<1>3. CopyIsPast /\ BuysKnown(p) /\ FreeAreFree(p)
  BY <1>2 DEF CopyIsPast, SnapIsPast, LiveAreOpen, BuysKnown, FreeAreFree, Cycling
<1> QED BY <1>1, <1>3 DEF BuyInv

\* Every step keeps what is known of buys and free symbols.
LEMMA StepsKeepBuys ==
  ASSUME NEW p \in Traders, Traders = {p}
  PROVE  BuyInv(p) /\ [Next]_vars => BuyInv(p)'
<1> SUFFICES ASSUME BuyInv(p), [Next]_vars PROVE BuyInv(p)'
  OBVIOUS
<1>1. TypeInv /\ TypeInv'
  BY StepsKeepTypes DEF BuyInv
<1>2. CASE UNCHANGED vars
  <2>1. UNCHANGED <<orders, shares, rows, snap, known, trader, adrift>>
    BY <1>2 DEF vars, brokerVars, autoVars
  <2>2. \A s \in Symbols : shares[s] \in Int
    BY <1>1 DEF TypeInv, BrokerOK, BrokerTypeOK
  <2> QED BY <1>1, <2>1, <2>2, FollowSelf, BuyWhenBrokerMoves
<1>3. CASE CycleStep(p) \/ Unnamed(p)
  BY <1>1, <1>3, BuyWhenReading, BuyWhenSelling, BuyWhenBuying, BuyWhenSold, BuyWhenBought,
     BuyWhenLoading DEF CycleStep, Unnamed
<1>4. CASE LoseReply(p) \/ Abort(p)
  BY <1>1, <1>4, BuyWhenFailing
<1>5. CASE (\E i \in DOMAIN orders : Execute(i) \/ Lapse(i)) \/ (\E s \in Symbols : OwnerSells(s))
  BY <1>1, <1>5, MarketMoves, BuyWhenBrokerMoves
<1>6. ASSUME NEW s \in Symbols, Untrack(s) \/ Track(s) PROVE BuyInv(p)'
  BY <1>1, <1>6, BuyWhenOwned
<1> QED BY <1>2, <1>3, <1>4, <1>5, <1>6 DEF Next

\* Only the step of that name buys.
LEMMA OnlyBuyBuys ==
  ASSUME TypeInv, NEW p \in Traders, Traders = {p}, [Next]_vars, Posts(p, "bought")
  PROVE  \E s \in Symbols : Buy(p, s)
<1>1. trader'[p].at = "bought" /\ trader[p].at # "bought"
  BY DEF Posts
<1>2. \A t : Goes(p, t) => trader'[p] = t
  BY Places
<1>3. ~UNCHANGED vars
  BY <1>1 DEF vars, autoVars
<1>4. ~(Begin(p) \/ Sync(p) \/ FetchAccount(p) \/ Hold(p) \/ FindCandidates(p) \/ EndCycle(p))
  <2> SUFFICES ASSUME Begin(p) \/ Sync(p) \/ FetchAccount(p) \/ Hold(p) \/ FindCandidates(p) \/ EndCycle(p)
               PROVE  FALSE
    OBVIOUS
  <2>1. PICK t : Goes(p, t) /\ t.at # "bought"
    BY Reads
  <2> QED BY <1>1, <1>2, <2>1
<1>5. ~Load(p) /\ ~Sell(p)
  BY <1>1, <1>2, Loaded, SellSent
<1>6. ASSUME NEW synced \in BOOLEAN, NEW id \in {trader[p].order, None}
      PROVE  ~RecordSell(p, synced, id) /\ ~RecordBuy(p, synced, id)
  BY <1>1, <1>2, SellRecorded, BuyRecorded
<1>7. ~(LoseReply(p) \/ Abort(p))
  BY <1>1, <1>2, Failed
<1>8. UNCHANGED trader => FALSE
  BY <1>1
<1>9. ASSUME NEW i \in DOMAIN orders PROVE ~Execute(i) /\ ~Lapse(i)
  BY <1>8 DEF Execute, Lapse, autoVars
<1>10. ASSUME NEW s \in Symbols PROVE ~OwnerSells(s) /\ ~Untrack(s) /\ ~Track(s)
  BY <1>8 DEF OwnerSells, Untrack, Track, autoVars
<1> QED BY <1>3, <1>4, <1>5, <1>6, <1>7, <1>9, <1>10 DEF Next, CycleStep, Unnamed

\* What is bought has neither shares nor a live buy, unless one of them came adrift.
LEMMA BoughtOnce ==
  ASSUME NEW p \in Traders, BuyInv(p), NEW s \in Symbols, Buy(p, s)
  PROVE  /\ s \notin Accounted /\ Posted.sym = s /\ Posted.qty = Lot
         /\ Len(orders') = Len(orders) + 1
<1>1. TypeInv /\ BuysKnown(p) /\ FreeAreFree(p) /\ BrokerOK /\ LiveAreOpen(orders)
      /\ orders \in Seq(Order)
  BY DEF BuyInv, TypeInv, BrokerOK, BrokerTypeOK
<1>2. /\ trader[p].at = "buy" /\ s \in trader[p].cands /\ OpenRows(rows, s) = {}
      /\ Place(s, "buy", Lot) /\ Lot \in Nat \ {0}
  BY <1>1, BuySent
<1>3. Posted.sym = s /\ Posted.qty = Lot /\ Len(orders') = Len(orders) + 1
  BY <1>1, <1>2, PlaceKeeps DEF Posted
<1>4. ASSUME s \notin adrift PROVE shares[s] < 1 /\ LiveOrders(orders, "buy", s) = {}
  BY <1>1, <1>2, <1>4 DEF FreeAreFree, BuysKnown, LiveOrders
<1>5. LiveOrders(orders, "buy", s) = {} => Unfilled(orders, "buy", s) = 0
  BY <1>1, UnfilledIsNat
<1>6. shares[s] \in Int
  BY <1>1 DEF BrokerOK, BrokerTypeOK
<1>7. s \notin Accounted
  BY <1>4, <1>5, <1>6 DEF Accounted, Exposed
<1> QED BY <1>3, <1>7

\* Buys are sent once (the duplicate-buy guard of run_auto_account): with one process, no
\* cycle buys a symbol that the account holds or is buying, unless an earlier buy of it came
\* adrift.
THEOREM BuysAreOnce ==
  ASSUME NEW CONSTANT trd, Traders = {trd}
  PROVE  Spec => NoDoubleBuy
<1>1. Init => BuyInv(trd)
  BY BuyAtFirst
<1>2. BuyInv(trd) /\ [Next]_vars => BuyInv(trd)'
  BY StepsKeepBuys
<1>3. BuyInv(trd) /\ [Next]_vars =>
        [\A p \in Traders : Posts(p, "bought") => Posted.sym \notin Accounted]_vars
  <2> SUFFICES ASSUME BuyInv(trd), [Next]_vars, Posts(trd, "bought")
               PROVE  Posted.sym \notin Accounted
    OBVIOUS
  <2>1. PICK s \in Symbols : Buy(trd, s)
    BY OnlyBuyBuys DEF BuyInv
  <2> QED BY <2>1, BoughtOnce
<1>4. Spec => []BuyInv(trd)
  BY <1>1, <1>2, PTL DEF Spec
<1>5. Spec => [][Next]_vars
  BY PTL DEF Spec
<1>6. []BuyInv(trd) /\ [][Next]_vars => NoDoubleBuy
  BY <1>3, PTL DEF NoDoubleBuy
<1> QED BY <1>4, <1>5, <1>6, PTL

-----------------------------------------------------------------------------
(* How many are bought: process p is the only one                             *)

\* The slots of a cycle are left when every symbol that is held or being bought has one, but
\* for the buy that is about to be recorded.
RoomIsLeft(p) ==
  LET t == trader[p] IN
  /\ t.at \in {"sell", "sold", "buy"} => Cardinality(Accounted) <= MaxPositions - t.slots
  /\ t.at = "bought" =>
       Cardinality(Accounted \ {orders[t.order].sym}) <= MaxPositions - t.slots

RoomInv(p) == BuyInv(p) /\ RoomIsLeft(p)

\* Some of the symbols are no more than the symbols that they are of.
LEMMA SomeSymbols ==
  ASSUME NEW S \in SUBSET Symbols, NEW T \in SUBSET S
  PROVE  /\ Cardinality(S) \in Nat /\ Cardinality(T) \in Nat /\ Cardinality(T) <= Cardinality(S)
         /\ \A x : Cardinality(S) <= Cardinality(S \ {x}) + 1
<1>1. IsFiniteSet(S)
  BY BrokerAssumption, FS_Subset
<1>2. IsFiniteSet(T) /\ Cardinality(T) <= Cardinality(S)
  BY <1>1, FS_Subset
<1>3. ASSUME NEW x PROVE Cardinality(S) <= Cardinality(S \ {x}) + 1
  <2>1. Cardinality(S) \in Nat
    BY <1>1, FS_CardinalityType
  <2>2. Cardinality(S \ {x}) = IF x \in S THEN Cardinality(S) - 1 ELSE Cardinality(S)
    BY <1>1, FS_RemoveElement
  <2> QED BY <2>1, <2>2
<1> QED BY <1>1, <1>2, <1>3, FS_CardinalityType

\* Symbols come to be held or bought only by new buy orders.
LEMMA AccountedBy ==
  ASSUME TypeInv, TypeInv', Follow(orders, orders'), adrift \subseteq adrift', NEW S,
         \A j \in DOMAIN orders' : orders'[j].live /\ orders'[j].side = "buy" =>
           j \in DOMAIN orders \/ orders'[j].sym \in S,
         \A s \in Symbols : shares'[s] <= shares[s] \/ LiveOrders(orders, "buy", s) # {}
  PROVE  Accounted' \ S \subseteq Accounted
<1>1. /\ orders \in Seq(Order) /\ LiveAreOpen(orders) /\ orders' \in Seq(Order) /\ LiveAreOpen(orders')
      /\ \A s \in Symbols : shares[s] \in Int /\ shares'[s] \in Int
  BY DEF TypeInv, BrokerOK, BrokerTypeOK
<1> SUFFICES ASSUME NEW s \in Accounted', s \notin S PROVE s \in Accounted
  OBVIOUS
<1>2. s \in Symbols /\ s \notin adrift
      /\ (shares'[s] >= 1 \/ Unfilled(orders', "buy", s) > 0)
  BY DEF Accounted, Exposed
<1>3. LiveOrders(orders, "buy", s) # {} => Unfilled(orders, "buy", s) > 0
  <2>1. Unfilled(orders, "buy", s) \in Nat
        /\ \A i \in LiveOrders(orders, "buy", s) : 1 <= Unfilled(orders, "buy", s)
    BY <1>1, UnfilledIsNat
  <2> QED BY <2>1
<1>4. CASE shares'[s] >= 1
  <2>1. shares[s] >= 1 \/ LiveOrders(orders, "buy", s) # {}
    BY <1>1, <1>2, <1>4
  <2> QED BY <1>2, <1>3, <2>1 DEF Accounted, Exposed
<1>5. CASE Unfilled(orders', "buy", s) > 0
  <2>1. LiveOrders(orders', "buy", s) # {}
    BY <1>1, <1>5, UnfilledIsNat
  <2>2. PICK j \in DOMAIN orders' : orders'[j].live /\ orders'[j].side = "buy" /\ orders'[j].sym = s
    BY <2>1 DEF LiveOrders
  <2>3. j \in LiveOrders(orders, "buy", s)
    BY <2>2 DEF LiveOrders, Follow
  <2> QED BY <1>2, <1>3, <2>3 DEF Accounted, Exposed
<1> QED BY <1>2, <1>4, <1>5

\* As many, or fewer, fit where as many slots are left.
LEMMA RoomWhenFewer ==
  ASSUME NEW p \in Traders, RoomIsLeft(p), TypeInv, NEW t \in Trader, Goes(p, t),
         \/ t.at \in {"idle", "sync", "account", "load"}
         \/ /\ t.slots = trader[p].slots
            /\ \/ /\ t.at \in {"sell", "sold", "buy"} /\ trader[p].at \in {"sell", "sold", "buy"}
                  /\ Accounted' \subseteq Accounted
               \/ /\ t.at = "bought" /\ trader[p].at = "buy"
                  /\ Accounted' \ {orders'[t.order].sym} \subseteq Accounted
               \/ /\ t.at \in {"sell", "sold", "buy"} /\ trader[p].at = "bought"
                  /\ Accounted' \subseteq Accounted \ {orders[trader[p].order].sym}
               \/ /\ t.at = "bought" /\ trader[p].at = "bought"
                  /\ Accounted' \ {orders'[t.order].sym} \subseteq Accounted \ {orders[trader[p].order].sym}
  PROVE  RoomIsLeft(p)'
<1>1. trader'[p] = t /\ t.slots \in Int /\ MaxPositions \in Int
  BY AutoAssumption, Places DEF Trader
<1>2. Accounted \subseteq Symbols /\ Accounted' \subseteq Symbols
  BY DEF Accounted, Exposed
<1> DEFINE x == orders[trader[p].order].sym
           y == orders'[t.order].sym
           A == Accounted
           B == Accounted'
<1> HIDE DEF x, y, A, B
<1>3. \A T \in SUBSET Symbols : \A S \in SUBSET T :
        Cardinality(S) \in Nat /\ Cardinality(T) \in Nat /\ Cardinality(S) <= Cardinality(T)
  BY SomeSymbols
<1>4. /\ t.at \in {"sell", "sold", "buy"} => Cardinality(B) <= MaxPositions - t.slots
      /\ t.at = "bought" => Cardinality(B \ {y}) <= MaxPositions - t.slots
  <2>1. /\ trader[p].at \in {"sell", "sold", "buy"} => Cardinality(A) <= MaxPositions - trader[p].slots
        /\ trader[p].at = "bought" => Cardinality(A \ {x}) <= MaxPositions - trader[p].slots
    BY DEF RoomIsLeft, A, x
  <2>2. A \in SUBSET Symbols /\ B \in SUBSET Symbols /\ A \ {x} \in SUBSET Symbols
    BY <1>2 DEF A, B
  <2>3. CASE t.at \in {"idle", "sync", "account", "load"}
    BY <2>3
  <2>4. ASSUME t.slots = trader[p].slots, t.at \in {"sell", "sold", "buy"},
               trader[p].at \in {"sell", "sold", "buy"}, B \subseteq A
        PROVE  Cardinality(B) <= MaxPositions - t.slots
    <3>1. Cardinality(B) <= Cardinality(A) /\ Cardinality(B) \in Nat /\ Cardinality(A) \in Nat
      BY <1>3, <2>2, <2>4
    <3> QED BY <1>1, <2>1, <2>4, <3>1
  <2>5. ASSUME t.slots = trader[p].slots, t.at = "bought", trader[p].at = "buy", B \ {y} \subseteq A
        PROVE  Cardinality(B \ {y}) <= MaxPositions - t.slots
    <3>1. Cardinality(B \ {y}) <= Cardinality(A) /\ Cardinality(B \ {y}) \in Nat /\ Cardinality(A) \in Nat
      BY <1>3, <2>2, <2>5
    <3> QED BY <1>1, <2>1, <2>5, <3>1
  <2>6. ASSUME t.slots = trader[p].slots, trader[p].at = "bought", B \subseteq A \ {x}
        PROVE  Cardinality(B) <= MaxPositions - t.slots
    <3>1. Cardinality(B) <= Cardinality(A \ {x}) /\ Cardinality(B) \in Nat /\ Cardinality(A \ {x}) \in Nat
      BY <1>3, <2>2, <2>6
    <3> QED BY <1>1, <2>1, <2>6, <3>1
  <2>7. ASSUME t.slots = trader[p].slots, trader[p].at = "bought", B \ {y} \subseteq A \ {x}
        PROVE  Cardinality(B \ {y}) <= MaxPositions - t.slots
    <3>1. /\ Cardinality(B \ {y}) <= Cardinality(A \ {x})
          /\ Cardinality(B \ {y}) \in Nat /\ Cardinality(A \ {x}) \in Nat
      BY <1>3, <2>2, <2>7
    <3> QED BY <1>1, <2>1, <2>7, <3>1
  <2>8. \/ t.at \in {"idle", "sync", "account", "load"}
        \/ /\ t.slots = trader[p].slots
           /\ \/ /\ t.at \in {"sell", "sold", "buy"} /\ trader[p].at \in {"sell", "sold", "buy"}
                 /\ B \subseteq A
              \/ t.at = "bought" /\ trader[p].at = "buy" /\ B \ {y} \subseteq A
              \/ t.at \in {"sell", "sold", "buy"} /\ trader[p].at = "bought" /\ B \subseteq A \ {x}
              \/ t.at = "bought" /\ trader[p].at = "bought" /\ B \ {y} \subseteq A \ {x}
    BY DEF A, B, x, y
  <2> QED BY <2>3, <2>4, <2>5, <2>6, <2>7, <2>8
<1>5. y = orders'[trader'[p].order].sym
  BY <1>1 DEF y
<1> QED BY <1>1, <1>4, <1>5 DEF RoomIsLeft, A, B, y
\* Steps that neither load nor record a buy.
LEMMA RoomInSteps ==
  ASSUME NEW p \in Traders, RoomInv(p), TypeInv',
         \/ Begin(p) \/ Sync(p) \/ FetchAccount(p) \/ Hold(p) \/ FindCandidates(p) \/ EndCycle(p)
         \/ Sell(p) \/ (\E s \in Symbols : Buy(p, s)) \/ (\E synced \in BOOLEAN : \E id \in {trader[p].order, None} : RecordSell(p, synced, id))
         \/ LoseReply(p) \/ Abort(p)
  PROVE  RoomIsLeft(p)'
<1>1. TypeInv /\ RoomIsLeft(p) /\ BrokerOK /\ trader \in [Traders -> Trader]
      /\ trader' \in [Traders -> Trader]
      /\ \A s \in Symbols : shares[s] \in Int
  BY DEF RoomInv, BuyInv, TypeInv, BrokerOK, BrokerTypeOK
<1>2. ASSUME UNCHANGED <<orders, shares>>, adrift \subseteq adrift' PROVE Accounted' \subseteq Accounted \ adrift'
  BY <1>2 DEF Accounted, Exposed
<1>3. CASE Begin(p) \/ Sync(p) \/ FetchAccount(p) \/ Hold(p) \/ FindCandidates(p) \/ EndCycle(p)
  <2>1. UNCHANGED <<orders, shares, adrift>>
    BY <1>1, <1>3, Reads
  <2>2. PICK t : /\ Goes(p, t)
                 /\ \/ t.at \in {"idle", "sync", "account", "load"}
                    \/ t.at = "sell" /\ trader[p].at = "sell" /\ t.slots = trader[p].slots
                    \/ t.at = "buy" /\ trader[p].at = "sell" /\ t.slots = trader[p].slots
    BY <1>1, <1>3, Reads DEF SamePurse
  <2>3. t \in Trader
    BY <1>1, <2>2, Places
  <2> QED BY <1>1, <1>2, <2>1, <2>2, <2>3, RoomWhenFewer
<1>4. CASE Sell(p)
  <2> DEFINE s == trader[p].mem[Next1(p)].sym
             n == trader[p].mem[Next1(p)].shares
  <2>1. s \in Symbols /\ n \in Nat \ {0} /\ Place(s, "sell", n) /\ UNCHANGED adrift
    BY <1>1, <1>4, SellSent, NextIsLeft
  <2> HIDE DEF s, n
  <2>2. /\ Follow(orders, orders') /\ UNCHANGED shares
        /\ \A j \in DOMAIN orders' : j \in DOMAIN orders \/ orders'[j].side = "sell"
    BY <1>1, <2>1, PlaceKeeps
  <2>3. Accounted' \ {} \subseteq Accounted
    BY <1>1, <2>1, <2>2, AccountedBy
  <2>4. PICK t \in Trader : Goes(p, t) /\ t.at = "sold" /\ t.slots = trader[p].slots
    BY <1>1, <1>4, SellSent DEF SamePurse
  <2>5. trader[p].at = "sell"
    BY <1>1, <1>4, SellSent
  <2> QED BY <1>1, <2>3, <2>4, <2>5, RoomWhenFewer
<1>5. ASSUME NEW s \in Symbols, Buy(p, s) PROVE RoomIsLeft(p)'
  <2>1. Place(s, "buy", Lot) /\ Lot \in Nat \ {0} /\ UNCHANGED adrift /\ trader[p].at = "buy"
    BY <1>1, <1>5, BuySent
  <2>2. /\ Follow(orders, orders') /\ UNCHANGED shares
        /\ \A j \in DOMAIN orders' : j \in DOMAIN orders \/ orders'[j].sym \in {s}
        /\ orders'[Len(orders) + 1].sym = s
    BY <1>1, <2>1, PlaceKeeps
  <2>3. Accounted' \ {s} \subseteq Accounted
    <3> DEFINE S == {s}
    <3>1. \A j \in DOMAIN orders' : orders'[j].live /\ orders'[j].side = "buy" =>
            j \in DOMAIN orders \/ orders'[j].sym \in S
      BY <2>2
    <3> HIDE DEF S
    <3>2. Accounted' \ S \subseteq Accounted
      BY <1>1, <2>1, <2>2, <3>1, AccountedBy
    <3> QED BY <3>2 DEF S
  <2>4. PICK t \in Trader : Goes(p, t) /\ t.at = "bought" /\ t.slots = trader[p].slots
                            /\ t.order = Len(orders) + 1
    BY <1>1, <1>5, BuySent DEF SamePurse
  <2> QED BY <1>1, <2>1, <2>2, <2>3, <2>4, RoomWhenFewer
<1>6. ASSUME NEW synced \in BOOLEAN, NEW id \in {trader[p].order, None}, RecordSell(p, synced, id)
      PROVE  RoomIsLeft(p)'
  <2>1. UNCHANGED <<orders, shares, adrift>> /\ trader[p].at = "sold"
    BY <1>1, <1>6, SellRecorded DEF brokerVars
  <2>2. PICK t \in Trader : Goes(p, t) /\ t.at = "sell" /\ t.slots = trader[p].slots
    BY <1>1, <1>6, SellRecorded DEF SamePurse
  <2> QED BY <1>1, <1>2, <2>1, <2>2, RoomWhenFewer
<1>7. CASE LoseReply(p) \/ Abort(p)
  <2>1. UNCHANGED <<orders, shares>> /\ adrift \subseteq adrift'
        /\ (trader[p].at = "bought" => orders[trader[p].order].sym \in adrift')
    BY <1>1, <1>7, Failed DEF brokerVars
  <2>2. PICK t : /\ Goes(p, t)
                 /\ \/ t.at = "idle"
                    \/ t.at = "sell" /\ trader[p].at = "sold" /\ t.slots = trader[p].slots
                    \/ t.at = "buy" /\ trader[p].at = "bought" /\ t.slots = trader[p].slots
    BY <1>1, <1>7, Failed DEF SamePurse
  <2>3. t \in Trader
    BY <1>1, <2>2, Places
  <2> QED BY <1>1, <1>2, <2>1, <2>2, <2>3, RoomWhenFewer
<1> QED BY <1>3, <1>4, <1>5, <1>6, <1>7

\* A buy is recorded: it takes its slot.
LEMMA RoomWhenBought ==
  ASSUME NEW p \in Traders, RoomInv(p), TypeInv', NEW synced \in BOOLEAN, NEW id \in {trader[p].order, None},
         RecordBuy(p, synced, id)
  PROVE  RoomIsLeft(p)'
<1>1. TypeInv /\ RoomIsLeft(p)
  BY DEF RoomInv, BuyInv
<1>2. trader[p].at = "bought" /\ UNCHANGED <<orders, shares>> /\ adrift \subseteq adrift'
  BY <1>1, BuyRecorded DEF brokerVars
<1>3. PICK t \in Trader : Goes(p, t) /\ t.at = "buy" /\ t.slots = trader[p].slots - 1
  BY <1>1, BuyRecorded
<1>4. trader'[p] = t /\ trader[p].slots \in Int /\ MaxPositions \in Int
  BY <1>1, <1>3, Places, InMemory, AutoAssumption DEF Trader
<1> DEFINE x == orders[trader[p].order].sym
<1>5. Accounted' \subseteq Accounted /\ Accounted \subseteq Symbols
  BY <1>2 DEF Accounted, Exposed
<1>6. Cardinality(Accounted \ {x}) <= MaxPositions - trader[p].slots
  BY <1>1, <1>2 DEF RoomIsLeft
<1> HIDE DEF x
<1>7. /\ Cardinality(Accounted) <= Cardinality(Accounted \ {x}) + 1
      /\ Cardinality(Accounted) \in Nat /\ Cardinality(Accounted \ {x}) \in Nat
      /\ Cardinality(Accounted') \in Nat /\ Cardinality(Accounted') <= Cardinality(Accounted)
  BY <1>5, SomeSymbols
<1>8. Cardinality(Accounted') <= MaxPositions - t.slots
  BY <1>3, <1>4, <1>6, <1>7
<1> QED BY <1>3, <1>4, <1>8 DEF RoomIsLeft

\* The slots are counted: whatever is held or being bought has one.
LEMMA RoomWhenLoading ==
  ASSUME NEW p \in Traders, BuyInv(p), BuyInv(p)', Load(p)
  PROVE  RoomIsLeft(p)'
<1>1. TypeInv /\ TypeInv' /\ BuysKnown(p)'
  BY DEF BuyInv
<1>2. PICK q \in [Symbols -> Nat] :
        /\ \A s \in Symbols : q[s] = IF shares[s] >= 1 THEN shares[s] ELSE 0
        /\ \E t \in Trader : Goes(p, t) /\ t.at = "sell" /\ t.slots = Slots(q, rows')
  BY <1>1, Loaded
<1>3. PICK t \in Trader : Goes(p, t) /\ t.at = "sell" /\ t.slots = Slots(q, rows')
  BY <1>2
<1>4. trader'[p] = t /\ UNCHANGED <<orders, shares>> /\ MaxPositions \in Int
  BY <1>1, <1>3, Places, Loaded, AutoAssumption DEF brokerVars
<1> DEFINE taken == {s \in Symbols : q[s] > 0 \/ OpenRows(rows', s) # {}}
           A == Accounted'
<1>5. A \subseteq taken /\ taken \subseteq Symbols
  <2>1. /\ \A s \in Symbols : shares[s] \in Int
        /\ orders' \in Seq(Order) /\ LiveAreOpen(orders')
    BY <1>1 DEF TypeInv, BrokerOK, BrokerTypeOK
  <2>2. ASSUME NEW s \in A PROVE s \in taken
    <3>1. s \in Symbols /\ s \notin adrift' /\ (shares[s] >= 1 \/ Unfilled(orders', "buy", s) > 0)
      BY <1>4, <2>2 DEF Accounted, Exposed
    <3>2. CASE shares[s] >= 1
      <4>1. q[s] = shares[s]
        BY <1>2, <3>1, <3>2
      <4> QED BY <2>1, <3>1, <3>2, <4>1
    <3>3. CASE Unfilled(orders', "buy", s) > 0
      <4>1. LiveOrders(orders', "buy", s) # {}
        BY <2>1, <3>3, UnfilledIsNat
      <4>2. PICK j \in DOMAIN orders' : orders'[j].live /\ orders'[j].side = "buy" /\ orders'[j].sym = s
        BY <4>1 DEF LiveOrders
      <4>3. OpenRows(rows', s) # {}
        BY <1>1, <1>3, <1>4, <3>1, <4>2 DEF BuysKnown
      <4> QED BY <3>1, <4>3
    <3> QED BY <3>1, <3>2, <3>3
  <2> QED BY <2>2
<1>6. t.slots = MaxPositions - Cardinality(taken)
  BY <1>3 DEF Slots
<1> HIDE DEF taken, A
<1>7. /\ Cardinality(A) <= Cardinality(taken)
      /\ Cardinality(A) \in Nat /\ Cardinality(taken) \in Nat
  BY <1>5, SomeSymbols
<1>8. Cardinality(A) <= MaxPositions - t.slots
  BY <1>4, <1>6, <1>7
<1> QED BY <1>3, <1>4, <1>8 DEF RoomIsLeft, A

\* The broker and the owner make none held or bought that was not.
LEMMA RoomWhenOthersMove ==
  ASSUME NEW p \in Traders, RoomInv(p), TypeInv', UNCHANGED trader, Follow(orders, orders'),
         adrift \subseteq adrift',
         \A j \in DOMAIN orders' : orders'[j].live => j \in DOMAIN orders,
         \A s \in Symbols : shares'[s] <= shares[s] \/ LiveOrders(orders, "buy", s) # {}
  PROVE  RoomIsLeft(p)'
<1>1. TypeInv /\ RoomIsLeft(p) /\ trader \in [Traders -> Trader]
  BY DEF RoomInv, BuyInv, TypeInv
<1>2. Accounted' \ {} \subseteq Accounted
  BY <1>1, AccountedBy
<1>3. trader[p].at = "bought" => orders'[trader[p].order].sym = orders[trader[p].order].sym
  BY <1>1, InMemory DEF InFlight, Follow
<1>4. Goes(p, trader[p]) /\ trader[p] \in Trader
  BY <1>1 DEF Goes
<1>5. trader[p].at \in {"idle", "sync", "account", "load", "sell", "sold", "buy", "bought"}
  BY <1>4 DEF Trader
<1> QED BY <1>1, <1>2, <1>3, <1>4, <1>5, RoomWhenFewer

\* No cycle runs at first.
LEMMA RoomAtFirst == ASSUME NEW p \in Traders PROVE Init => RoomInv(p)
<1> SUFFICES ASSUME Init PROVE RoomInv(p)
  OBVIOUS
<1>1. trader[p].at = "idle"
  <2>1. trader[p] = Idle
    BY DEF Init
  <2>2. Idle.at = "idle"
    BY Zenon DEF Idle
  <2> QED BY <2>1, <2>2
<1> QED BY <1>1, BuyAtFirst DEF RoomInv, RoomIsLeft

\* Every step leaves room.
LEMMA StepsKeepRoom ==
  ASSUME NEW p \in Traders, Traders = {p}
  PROVE  RoomInv(p) /\ [Next]_vars => RoomInv(p)'
<1> SUFFICES ASSUME RoomInv(p), [Next]_vars PROVE RoomInv(p)'
  OBVIOUS
<1>1. BuyInv(p) /\ BuyInv(p)' /\ TypeInv /\ TypeInv'
  BY StepsKeepBuys DEF RoomInv, BuyInv
<1>2. CASE UNCHANGED vars
  <2>1. UNCHANGED <<orders, shares, trader, adrift>>
    BY <1>2 DEF vars, brokerVars, autoVars
  <2>2. \A s \in Symbols : shares[s] \in Int
    BY <1>1 DEF TypeInv, BrokerOK, BrokerTypeOK
  <2> QED BY <1>1, <2>1, <2>2, FollowSelf, RoomWhenOthersMove DEF RoomInv
<1>3. CASE CycleStep(p) \/ Unnamed(p) \/ LoseReply(p) \/ Abort(p)
  BY <1>1, <1>3, RoomInSteps, RoomWhenBought, RoomWhenLoading DEF CycleStep, Unnamed, RoomInv
<1>4. CASE (\E i \in DOMAIN orders : Execute(i) \/ Lapse(i)) \/ (\E s \in Symbols : OwnerSells(s))
  BY <1>1, <1>4, MarketMoves, RoomWhenOthersMove DEF RoomInv
<1>5. ASSUME NEW s \in Symbols, Untrack(s) \/ Track(s) PROVE RoomInv(p)'
  <2>1. UNCHANGED <<orders, shares, trader>>
    BY <1>1, <1>5, OwnedBy DEF brokerVars
  <2>2. adrift \subseteq adrift'
    BY <1>5 DEF Untrack, Track
  <2>3. \A s1 \in Symbols : shares[s1] \in Int
    BY <1>1 DEF TypeInv, BrokerOK, BrokerTypeOK
  <2> QED BY <1>1, <2>1, <2>2, <2>3, FollowSelf, RoomWhenOthersMove DEF RoomInv
<1> QED BY <1>2, <1>3, <1>4, <1>5 DEF Next

\* Positions are limited (max_positions of run_auto_account): with one process, a buy is sent
\* only while fewer symbols are held or being bought, but for those that came adrift.
THEOREM PositionsAreLimited ==
  ASSUME NEW CONSTANT trd, Traders = {trd}
  PROVE  Spec => PositionLimit
<1>1. Init => RoomInv(trd)
  BY RoomAtFirst
<1>2. RoomInv(trd) /\ [Next]_vars => RoomInv(trd)'
  BY StepsKeepRoom
<1>3. RoomInv(trd) /\ [Next]_vars =>
        [\A p \in Traders : Posts(p, "bought") => Cardinality(Accounted) < MaxPositions]_vars
  <2> SUFFICES ASSUME RoomInv(trd), [Next]_vars, Posts(trd, "bought")
               PROVE  Cardinality(Accounted) < MaxPositions
    OBVIOUS
  <2>1. TypeInv
    BY DEF RoomInv, BuyInv
  <2>2. PICK s \in Symbols : Buy(trd, s)
    BY <2>1, OnlyBuyBuys
  <2>3. trader[trd].at = "buy" /\ trader[trd].slots > 0
    BY <2>1, <2>2, BuySent
  <2>4. trader[trd].slots \in Int /\ MaxPositions \in Int
    BY <2>1, InMemory, AutoAssumption DEF Trader
  <2>5. Cardinality(Accounted) <= MaxPositions - trader[trd].slots
    BY <2>3 DEF RoomInv, RoomIsLeft
  <2>6. Cardinality(Accounted) \in Nat
    <3>1. Accounted \in SUBSET Symbols
      BY DEF Accounted, Exposed
    <3> QED BY <3>1, SomeSymbols
  <2> QED BY <2>3, <2>4, <2>5, <2>6
<1>4. Spec => []RoomInv(trd)
  BY <1>1, <1>2, PTL DEF Spec
<1>5. Spec => [][Next]_vars
  BY PTL DEF Spec
<1>6. []RoomInv(trd) /\ [][Next]_vars => PositionLimit
  BY <1>3, PTL DEF PositionLimit
<1> QED BY <1>4, <1>5, <1>6, PTL

-----------------------------------------------------------------------------
(* What is spent: process p is the only one                                   *)

\* The cash that is left when every buy that is live has been paid.
Unspent == cash - TotalUnfilled(orders, "buy")

\* What a cycle may spend is left, whatever filled or expired since it read the orders, the
\* account and the positions, in that order.
CashIsLeft(p) ==
  LET t == trader[p] IN
  /\ t.at \in {"account", "load"} =>
       TotalUnfilled(orders, "buy") <= TotalUnfilled(snap, "buy")
  /\ t.at = "load" => t.acct.equity = cash + Worth
  /\ t.at \in {"sell", "sold", "buy"} /\ ~t.missed => t.rem <= Unspent
  /\ t.at = "bought" /\ ~t.missed => t.rem - Lot <= Unspent

CashInv(p) == BuyInv(p) /\ CashIsLeft(p)

\* The sums and what a cycle has in memory are numbers.
LEMMA CashNumbers ==
  ASSUME TypeInv, NEW p \in Traders
  PROVE  /\ cash \in Int /\ Worth \in Int /\ Unspent \in Int /\ Lot \in Nat
         /\ TotalUnfilled(orders, "buy") \in Int /\ TotalUnfilled(snap, "buy") \in Int
         /\ trader[p].rem \in Int /\ trader[p].acct.cash \in Int /\ trader[p].acct.equity \in Int
<1>1. /\ shares \in [Symbols -> Int] /\ cash \in Int /\ orders \in Seq(Order) /\ snap \in Seq(Order)
      /\ trader[p] \in Trader
  BY InMemory DEF TypeInv, BrokerOK, BrokerTypeOK
<1>2. TotalUnfilled(orders, "buy") \in Int /\ TotalUnfilled(snap, "buy") \in Int
  BY <1>1, SumsAreInts
<1>3. Worth \in Int
  <2>1. \A s \in Symbols : shares[s] \in Int
    BY <1>1
  <2>2. Total(shares, Symbols) \in Int
    BY <2>1, BrokerAssumption, SumOf
  <2> QED BY <2>2, WorthIsSum
<1>4. trader[p].rem \in Int /\ trader[p].acct \in [cash : Int, equity : Int]
  BY <1>1 DEF Trader
<1>5. trader[p].acct.cash \in Int /\ trader[p].acct.equity \in Int
  BY <1>4
<1> QED BY <1>1, <1>2, <1>3, <1>4, <1>5, AutoAssumption DEF Unspent

\* The cash guard: what may be spent is at most the equity without the provider's long shares
\* and without what the copy of the orders says is not filled.
LEMMA GuardBounds ==
  ASSUME TypeInv, NEW acct \in [cash : Int, equity : Int], NEW q \in [Symbols -> Nat],
         NEW rs \in Seq(Row), \A s \in Symbols : q[s] = IF shares[s] >= 1 THEN shares[s] ELSE 0
  PROVE  Deployable(acct, q, rs) <= acct.equity - Worth - TotalUnfilled(snap, "buy")
<1>1. ASSUME NEW a \in Int, NEW b \in Int
      PROVE  /\ Min({a, b}) \in Int /\ Max({a, b}) \in Int
             /\ Min({a, b}) <= b /\ a <= Max({a, b})
  <2>1. /\ \E x \in {a, b} : \A y \in {a, b} : x <= y
        /\ \E x \in {a, b} : \A y \in {a, b} : x >= y
    OBVIOUS
  <2>2. /\ Min({a, b}) \in {a, b} /\ \A y \in {a, b} : Min({a, b}) <= y
        /\ Max({a, b}) \in {a, b} /\ \A y \in {a, b} : Max({a, b}) >= y
    BY <2>1 DEF Min, Max
  <2> QED BY <2>2
<1> DEFINE long == MapThenSumSet(LAMBDA s : q[s], Symbols)
           local == MapThenSumSet(LAMBDA i : rs[i].shares, {i \in DOMAIN rs : rs[i].status = "open"})
           unfilled == TotalUnfilled(snap, "buy")
<1>2. long \in Int /\ local \in Int /\ unfilled \in Int
  <2>1. q \in [Symbols -> Int] /\ {i \in DOMAIN rs : rs[i].status = "open"} \in SUBSET (DOMAIN rs)
    OBVIOUS
  <2>2. snap \in Seq(Order)
    BY DEF TypeInv
  <2>3. long \in Int
    BY <2>1, SumsAreInts
  <2>4. local \in Int
    BY <2>1, SumsAreInts
  <2>5. unfilled \in Int
    BY <2>2, SumsAreInts
  <2> QED BY <2>3, <2>4, <2>5
<1>3. Worth <= long /\ Worth \in Int
  <2>1. \A s \in Symbols : shares[s] \in Int
    BY DEF TypeInv, BrokerOK, BrokerTypeOK
  <2>2. \A s \in Symbols : q[s] \in Int /\ shares[s] <= q[s]
    BY <2>1
  <2>3. Total(shares, Symbols) <= Total(q, Symbols) /\ Total(shares, Symbols) \in Int
    BY <2>1, <2>2, BrokerAssumption, SumGrows, SumOf
  <2>4. long = Total(q, Symbols)
    <3>1. long = (CHOOSE g : IsSum(g, q, Symbols))[Symbols]
      BY DEF MapThenSumSet, MapThenFoldSet, IsSum, AnyOf
    <3> QED BY <3>1 DEF Total
  <2> HIDE DEF long
  <2> QED BY <2>3, <2>4, WorthIsSum
<1>4. Deployable(acct, q, rs) = Min({acct.cash, acct.equity - Max({long, local}) - unfilled})
  BY DEF Deployable
<1> HIDE DEF long, local, unfilled
<1> DEFINE most == Max({long, local})
           cap == acct.equity - most - unfilled
<1>5. most \in Int /\ long <= most
  BY <1>1, <1>2
<1>6. acct.equity \in Int /\ acct.cash \in Int
  OBVIOUS
<1> HIDE DEF most
<1>7. cap \in Int /\ cap <= acct.equity - Worth - unfilled
  BY <1>2, <1>3, <1>5, <1>6
<1>8. Deployable(acct, q, rs) = Min({acct.cash, cap})
  BY <1>4 DEF most
<1> HIDE DEF cap
<1>9. Deployable(acct, q, rs) \in Int /\ Deployable(acct, q, rs) <= cap
  BY <1>1, <1>6, <1>7, <1>8
<1>10. Deployable(acct, q, rs) <= acct.equity - Worth - unfilled
  BY <1>2, <1>3, <1>6, <1>7, <1>9
<1> QED BY <1>10 DEF unfilled

\* Steps of the cycle that read, and failures.
LEMMA CashWhenReading ==
  ASSUME NEW p \in Traders, CashInv(p), TypeInv',
         Begin(p) \/ Sync(p) \/ FetchAccount(p) \/ Hold(p) \/ FindCandidates(p) \/ EndCycle(p)
  PROVE  CashIsLeft(p)'
<1>1. TypeInv /\ CashIsLeft(p)
  BY DEF CashInv, BuyInv
<1>2. UNCHANGED <<orders, shares, cash>>
  BY <1>1, Reads
<1>3. Worth' = Worth /\ Unspent' = Unspent
  BY <1>2, WorthIsSum DEF Unspent
<1>4. PICK t : /\ Goes(p, t)
               /\ \/ t.at \in {"idle", "sync"}
                  \/ t.at = "account" /\ SyncHistory
                  \/ /\ t.at = "load" /\ trader[p].at = "account"
                     /\ t.acct.equity = cash + Worth /\ UNCHANGED snap
                  \/ t.at = "sell" /\ trader[p].at = "sell" /\ SamePurse(t, trader[p])
                  \/ t.at = "buy" /\ trader[p].at = "sell" /\ SamePurse(t, trader[p])
  BY <1>1, Reads
<1>5. trader'[p] = t
  BY <1>1, <1>4, Places
<1>6. /\ t.at \in {"account", "load"} =>
           TotalUnfilled(orders', "buy") <= TotalUnfilled(snap', "buy")
      /\ t.at = "load" => t.acct.equity = cash' + Worth'
  <2>1. TotalUnfilled(orders, "buy") \in Int
    BY <1>1, CashNumbers
  <2>2. ASSUME SyncHistory PROVE TotalUnfilled(orders', "buy") <= TotalUnfilled(snap', "buy")
    <3>1. snap' = orders /\ orders' = orders
      BY <1>2, <2>2 DEF SyncHistory
    <3> QED BY <2>1, <3>1
  <2>3. ASSUME t.at = "load"
        PROVE  TotalUnfilled(orders', "buy") <= TotalUnfilled(snap', "buy")
               /\ t.acct.equity = cash' + Worth'
    <3>1. trader[p].at = "account" /\ t.acct.equity = cash + Worth /\ UNCHANGED snap
      BY <1>4, <2>3
    <3> QED BY <1>1, <1>2, <1>3, <3>1 DEF CashIsLeft
  <2> QED BY <1>4, <2>2, <2>3
<1>7. t.at \in {"sell", "sold", "buy"} /\ ~t.missed => t.rem <= Unspent'
  BY <1>1, <1>3, <1>4 DEF CashIsLeft, SamePurse
<1>8. t.at # "bought"
  BY <1>4
<1> QED BY <1>5, <1>6, <1>7, <1>8 DEF CashIsLeft

\* A lost reply to a sell leaves the cash as it is; after one to a buy nothing
\* is said of it.
LEMMA CashWhenFailing ==
  ASSUME NEW p \in Traders, CashInv(p), TypeInv', LoseReply(p) \/ Abort(p)
  PROVE  CashIsLeft(p)'
<1>1. TypeInv
  BY DEF CashInv, BuyInv
<1>2. PICK t : /\ Goes(p, t)
               /\ \/ t.at = "idle"
                  \/ t.at = "buy" /\ t.missed
                  \/ trader[p].at = "sold" /\ t.at = "sell" /\ SamePurse(t, trader[p])
  <2>1. PICK t : /\ Goes(p, t)
                 /\ \/ t.at = "idle"
                    \/ trader[p].at = "sold" /\ t.at = "sell" /\ SamePurse(t, trader[p])
                    \/ trader[p].at = "bought" /\ t.at = "buy" /\ t.missed
    BY <1>1, Failed
  <2> QED BY <2>1
<1>3. trader'[p] = t
  BY <1>1, <1>2, Places
<1>4. UNCHANGED <<brokerVars>>
  BY DEF LoseReply, Abort
<1>5. CASE trader[p].at = "sold" /\ t.at = "sell" /\ SamePurse(t, trader[p])
  <2>1. Unspent' = Unspent
    BY <1>4 DEF brokerVars, Unspent
  <2>2. ~t.missed => t.rem <= Unspent
    BY <1>5 DEF CashInv, CashIsLeft, SamePurse
  <2> QED BY <1>3, <1>5, <2>1, <2>2 DEF CashIsLeft
<1> QED BY <1>2, <1>3, <1>5 DEF CashIsLeft

\* An order is sent: a sell claims no cash, and a buy what it costs.
LEMMA CashWhenSending ==
  ASSUME NEW p \in Traders, CashInv(p), TypeInv', Sell(p) \/ \E s \in Symbols : Buy(p, s)
  PROVE  CashIsLeft(p)'
<1>1. TypeInv /\ CashIsLeft(p) /\ BrokerOK /\ orders \in Seq(Order)
  BY DEF CashInv, BuyInv, TypeInv, BrokerOK, BrokerTypeOK
<1>2. CASE Sell(p)
  <2> DEFINE s == trader[p].mem[Next1(p)].sym
             n == trader[p].mem[Next1(p)].shares
  <2>1. s \in Symbols /\ n \in Nat \ {0} /\ Place(s, "sell", n) /\ trader[p].at = "sell"
    BY <1>1, <1>2, SellSent, NextIsLeft
  <2> HIDE DEF s, n
  <2>2. /\ UNCHANGED cash
        /\ \A x \in Symbols : Unfilled(orders', "buy", x) = Unfilled(orders, "buy", x)
    <3>1. \A x \in Symbols : Unfilled(orders, "buy", x) \in Int
      BY <1>1, UnfilledMoves
    <3> QED BY <1>1, <2>1, <3>1, PlaceKeeps
  <2>3. TotalUnfilled(orders', "buy") = TotalUnfilled(orders, "buy")
    <3>1. UnfilledOf(orders', "buy") = UnfilledOf(orders, "buy")
      BY <2>2 DEF UnfilledOf
    <3> QED BY <3>1, SumsOfSymbols
  <2>4. Unspent' = Unspent
    BY <2>2, <2>3 DEF Unspent
  <2>5. PICK t \in Trader : Goes(p, t) /\ t.at = "sold" /\ SamePurse(t, trader[p])
    BY <1>1, <1>2, SellSent
  <2>6. trader'[p] = t
    BY <1>1, <2>5, Places
  <2> QED BY <1>1, <2>1, <2>4, <2>5, <2>6 DEF CashIsLeft, SamePurse
<1>3. ASSUME NEW s \in Symbols, Buy(p, s) PROVE CashIsLeft(p)'
  <2>1. Place(s, "buy", Lot) /\ Lot \in Nat \ {0} /\ trader[p].at = "buy"
    BY <1>1, <1>3, BuySent
  <2>2. /\ UNCHANGED cash
        /\ \A x \in Symbols :
             Unfilled(orders', "buy", x) = Unfilled(orders, "buy", x) + (IF x = s THEN Lot ELSE 0)
    BY <1>1, <2>1, PlaceKeeps
  <2>3. TotalUnfilled(orders', "buy") = TotalUnfilled(orders, "buy") + Lot
    BY <1>1, <2>1, <2>2, UnfilledSumMoves
  <2>4. Unspent' = Unspent - Lot /\ Unspent \in Int /\ trader[p].rem \in Int
    <3>1. /\ cash \in Int /\ TotalUnfilled(orders, "buy") \in Int /\ Unspent \in Int
          /\ trader[p].rem \in Int /\ Lot \in Nat
      BY <1>1, CashNumbers
    <3> QED BY <2>2, <2>3, <3>1 DEF Unspent
  <2>5. PICK t \in Trader : Goes(p, t) /\ t.at = "bought" /\ SamePurse(t, trader[p])
    BY <1>1, <1>3, BuySent
  <2>6. trader'[p] = t
    BY <1>1, <2>5, Places
  <2>7. ~trader[p].missed => trader[p].rem <= Unspent
    BY <1>1, <2>1 DEF CashIsLeft
  <2>8. ~t.missed => t.rem - Lot <= Unspent'
    BY <2>1, <2>4, <2>5, <2>7 DEF SamePurse
  <2> QED BY <2>5, <2>6, <2>8 DEF CashIsLeft
<1> QED BY <1>2, <1>3

\* The reply to an order is recorded.
LEMMA CashWhenRecording ==
  ASSUME NEW p \in Traders, CashInv(p), TypeInv', NEW synced \in BOOLEAN, NEW id \in {trader[p].order, None},
         RecordSell(p, synced, id) \/ RecordBuy(p, synced, id)
  PROVE  CashIsLeft(p)'
<1>1. TypeInv /\ CashIsLeft(p)
  BY DEF CashInv, BuyInv
<1>2. UNCHANGED <<orders, cash>>
  BY <1>1, SellRecorded, BuyRecorded DEF brokerVars
<1>3. Unspent' = Unspent
  BY <1>2 DEF Unspent
<1>4. PICK t : /\ Goes(p, t) /\ t.missed = trader[p].missed
               /\ \/ t.at = "sell" /\ trader[p].at = "sold" /\ t.rem = trader[p].rem
                  \/ t.at = "buy" /\ trader[p].at = "bought" /\ t.rem = trader[p].rem - Lot
  BY <1>1, SellRecorded, BuyRecorded DEF SamePurse
<1>5. trader'[p] = t
  BY <1>1, <1>4, Places
<1> QED BY <1>1, <1>3, <1>4, <1>5 DEF CashIsLeft

\* The guard is computed from what was read before.
LEMMA CashWhenLoading ==
  ASSUME NEW p \in Traders, CashInv(p), TypeInv', Load(p)
  PROVE  CashIsLeft(p)'
<1>1. TypeInv /\ CashIsLeft(p) /\ trader[p] \in Trader
  BY InMemory DEF CashInv, BuyInv
<1>2. PICK q \in [Symbols -> Nat] :
        /\ \A s \in Symbols : q[s] = IF shares[s] >= 1 THEN shares[s] ELSE 0
        /\ rows' \in Seq(Row)
        /\ \E t \in Trader : Goes(p, t) /\ t.at = "sell" /\ t.rem = Deployable(trader[p].acct, q, rows')
  BY <1>1, Loaded DEF Repaired
<1>3. PICK t \in Trader : Goes(p, t) /\ t.at = "sell" /\ t.rem = Deployable(trader[p].acct, q, rows')
  BY <1>2
<1>4. trader'[p] = t /\ UNCHANGED <<orders, cash>> /\ trader[p].at = "load"
  BY <1>1, <1>3, Places, Loaded DEF brokerVars
<1>5. Unspent' = Unspent
  BY <1>4 DEF Unspent
<1>6. trader[p].acct \in [cash : Int, equity : Int]
  BY <1>1 DEF Trader
<1>7. t.rem <= trader[p].acct.equity - Worth - TotalUnfilled(snap, "buy")
  BY <1>1, <1>2, <1>3, <1>6, GuardBounds
<1>8. trader[p].acct.equity = cash + Worth
      /\ TotalUnfilled(orders, "buy") <= TotalUnfilled(snap, "buy")
  BY <1>1, <1>4 DEF CashIsLeft
<1>9. /\ cash \in Int /\ Worth \in Int
      /\ TotalUnfilled(orders, "buy") \in Int /\ TotalUnfilled(snap, "buy") \in Int
  BY <1>1, CashNumbers
<1>10. t.rem \in Int
  BY DEF Trader
<1>11. t.rem <= Unspent
  BY <1>7, <1>8, <1>9, <1>10 DEF Unspent
<1> QED BY <1>3, <1>4, <1>5, <1>11 DEF CashIsLeft

\* The broker and the owner leave the cash of the buys that are live.
LEMMA CashWhenOthersMove ==
  ASSUME NEW p \in Traders, CashInv(p), TypeInv', UNCHANGED trader,
         snap' = snap \/ snap' = orders',
         TotalUnfilled(orders', "buy") <= TotalUnfilled(orders, "buy"),
         cash - TotalUnfilled(orders, "buy") <= cash' - TotalUnfilled(orders', "buy"),
         cash' + Worth' = cash + Worth
  PROVE  CashIsLeft(p)'
<1>1. TypeInv /\ CashIsLeft(p)
  BY DEF CashInv, BuyInv
<1> DEFINE u == TotalUnfilled(orders, "buy")
           v == TotalUnfilled(orders', "buy")
           w == TotalUnfilled(snap, "buy")
           x == TotalUnfilled(snap', "buy")
<1>2. /\ u \in Int /\ v \in Int /\ w \in Int /\ Unspent \in Int /\ Unspent' \in Int
      /\ trader[p].rem \in Int /\ Lot \in Nat
  <2>1. u \in Int /\ w \in Int /\ Unspent \in Int /\ trader[p].rem \in Int /\ Lot \in Nat
    BY <1>1, CashNumbers
  <2>2. cash' \in Int /\ orders' \in Seq(Order)
    BY DEF TypeInv, BrokerOK, BrokerTypeOK
  <2>3. v \in Int
    BY <2>2, SumsAreInts
  <2>4. Unspent' \in Int
    BY <2>2, <2>3 DEF Unspent
  <2> QED BY <2>1, <2>3, <2>4
<1>3. v <= u /\ Unspent <= Unspent' /\ (x = w \/ x = v)
  BY DEF Unspent
<1>4. trader[p].at \in {"account", "load"} => u <= w
  BY <1>1 DEF CashIsLeft
<1> HIDE DEF u, v, w, x
<1>5. trader[p].at \in {"account", "load"} => v <= x
  BY <1>2, <1>3, <1>4
<1>6. /\ trader[p].at = "load" => trader[p].acct.equity = cash' + Worth'
      /\ trader[p].at \in {"sell", "sold", "buy"} /\ ~trader[p].missed => trader[p].rem <= Unspent'
      /\ trader[p].at = "bought" /\ ~trader[p].missed => trader[p].rem - Lot <= Unspent'
  BY <1>1, <1>2, <1>3 DEF CashIsLeft
<1> QED BY <1>5, <1>6 DEF CashIsLeft, v, x

\* No cycle runs at first.
LEMMA CashAtFirst == ASSUME NEW p \in Traders PROVE Init => CashInv(p)
<1> SUFFICES ASSUME Init PROVE CashInv(p)
  OBVIOUS
<1>1. trader[p].at = "idle"
  <2>1. trader[p] = Idle
    BY DEF Init
  <2>2. Idle.at = "idle"
    BY Zenon DEF Idle
  <2> QED BY <2>1, <2>2
<1> QED BY <1>1, BuyAtFirst DEF CashInv, CashIsLeft

\* Every step leaves the cash.
LEMMA StepsKeepCash ==
  ASSUME NEW p \in Traders, Traders = {p}
  PROVE  CashInv(p) /\ [Next]_vars => CashInv(p)'
<1> SUFFICES ASSUME CashInv(p), [Next]_vars PROVE CashInv(p)'
  OBVIOUS
<1>1. BuyInv(p) /\ BuyInv(p)' /\ TypeInv /\ TypeInv'
  BY StepsKeepBuys DEF CashInv, BuyInv
<1>2. TotalUnfilled(orders, "buy") \in Int /\ cash \in Int /\ Worth \in Int
  BY <1>1, CashNumbers
<1>3. CASE UNCHANGED <<orders, shares, cash, trader>> /\ (snap' = snap \/ SyncHistory)
  <2>1. Worth' = Worth
    BY <1>3, WorthIsSum
  <2>2. TotalUnfilled(orders', "buy") = TotalUnfilled(orders, "buy") /\ cash' = cash
    BY <1>3
  <2>3. snap' = snap \/ snap' = orders'
    BY <1>3 DEF SyncHistory
  <2> QED BY <1>1, <1>2, <1>3, <2>1, <2>2, <2>3, CashWhenOthersMove DEF CashInv
<1>4. CASE UNCHANGED vars
  BY <1>3, <1>4 DEF vars, brokerVars, autoVars
<1>5. CASE CycleStep(p) \/ Unnamed(p) \/ LoseReply(p) \/ Abort(p)
  BY <1>1, <1>5, CashWhenReading, CashWhenSending, CashWhenRecording, CashWhenLoading,
     CashWhenFailing DEF CycleStep, Unnamed, CashInv
<1>6. CASE (\E i \in DOMAIN orders : Execute(i) \/ Lapse(i)) \/ (\E s \in Symbols : OwnerSells(s))
  BY <1>1, <1>6, MarketMoves, CashWhenOthersMove DEF CashInv
<1>7. ASSUME NEW s \in Symbols, Untrack(s) \/ Track(s) PROVE CashInv(p)'
  <2>1. UNCHANGED <<orders, shares, cash, trader>> /\ SyncHistory
    BY <1>1, <1>7, OwnedBy DEF brokerVars
  <2> QED BY <1>3, <2>1
<1> QED BY <1>4, <1>5, <1>6, <1>7 DEF Next

\* Buys are paid with cash (cash_only_guard): with one process, a buy is sent only if the cash
\* covers it together with every buy that is not filled yet, unless the cycle missed a reply.
THEOREM BuysArePaid ==
  ASSUME NEW CONSTANT trd, Traders = {trd}
  PROVE  Spec => CashOnly
<1>1. Init => CashInv(trd)
  BY CashAtFirst
<1>2. CashInv(trd) /\ [Next]_vars => CashInv(trd)'
  BY StepsKeepCash
<1>3. CashInv(trd) /\ [Next]_vars =>
        [\A p \in Traders : Posts(p, "bought") /\ ~trader[p].missed
           => cash - TotalUnfilled(orders, "buy") >= Posted.qty]_vars
  <2> SUFFICES ASSUME CashInv(trd), [Next]_vars, Posts(trd, "bought"), ~trader[trd].missed
               PROVE  cash - TotalUnfilled(orders, "buy") >= Posted.qty
    OBVIOUS
  <2>1. TypeInv /\ BuyInv(trd)
    BY DEF CashInv, BuyInv
  <2>2. PICK s \in Symbols : Buy(trd, s)
    BY <2>1, OnlyBuyBuys
  <2>3. trader[trd].at = "buy" /\ Lot <= trader[trd].rem /\ Posted.qty = Lot
    BY <2>1, <2>2, BuySent, BoughtOnce
  <2>4. trader[trd].rem <= Unspent
    BY <2>3 DEF CashInv, CashIsLeft
  <2>5. trader[trd].rem \in Int /\ Unspent \in Int /\ Lot \in Nat
    BY <2>1, CashNumbers
  <2>6. Unspent >= Lot
    BY <2>3, <2>4, <2>5
  <2> QED BY <2>3, <2>6 DEF Unspent
<1>4. Spec => []CashInv(trd)
  BY <1>1, <1>2, PTL DEF Spec
<1>5. Spec => [][Next]_vars
  BY PTL DEF Spec
<1>6. []CashInv(trd) /\ [][Next]_vars => CashOnly
  BY <1>3, PTL DEF CashOnly
<1> QED BY <1>4, <1>5, <1>6, PTL
-----------------------------------------------------------------------------
(* The orders that rows name                                                  *)

\* What a process holds in memory is of its rows, and its order is on the side it was sent for.
InHand(p) ==
  LET t == trader[p] IN
  /\ \A i \in DOMAIN t.mem : rows[i].sym = t.mem[i].sym
  /\ t.at = "sold" => /\ orders[t.order].side = "sell"
                      /\ orders[t.order].sym = rows[t.row].sym
  /\ t.at = "bought" => orders[t.order].side = "buy"

NamedInv == TypeInv /\ OrdersAreNamed /\ \A p \in Traders : InHand(p)

\* Rows keep their symbols.
RowsStay == \A i \in DOMAIN rows : i \in DOMAIN rows' /\ rows'[i].sym = rows[i].sym

\* Rows that take their orders from others name orders of their own, as the others did.
LEMMA NamedByDescent ==
  ASSUME OrdersAreNamed, Follow(orders, orders'), Descends(rows', rows)
  PROVE  OrdersAreNamed'
<1>1. \A x, s, side : IdOf(x, s, side) => (IdOf(x, s, side))'
  BY DEF IdOf, Follow
<1>2. \A i \in DOMAIN rows : /\ IdOf(rows[i].order, rows[i].sym, "buy")
                             /\ IdOf(rows[i].exit, rows[i].sym, "sell")
  BY DEF OrdersAreNamed
<1> SUFFICES ASSUME NEW i \in DOMAIN rows'
             PROVE  /\ (IdOf(rows[i].order, rows[i].sym, "buy"))'
                    /\ (IdOf(rows[i].exit, rows[i].sym, "sell"))'
  BY DEF OrdersAreNamed
<1>3. (IdOf(rows[i].order, rows[i].sym, "buy"))'
  <2>1. CASE rows'[i].order = None
    BY <2>1 DEF IdOf
  <2>2. ASSUME NEW k \in DOMAIN rows, rows[k].sym = rows'[i].sym, rows[k].order = rows'[i].order
        PROVE  (IdOf(rows[i].order, rows[i].sym, "buy"))'
    BY <1>2, <2>2 DEF IdOf, Follow
  <2> QED BY <2>1, <2>2 DEF Descends
<1>4. (IdOf(rows[i].exit, rows[i].sym, "sell"))'
  <2>1. CASE rows'[i].exit = None
    BY <2>1 DEF IdOf
  <2>2. ASSUME NEW k \in DOMAIN rows, rows[k].sym = rows'[i].sym, rows[k].exit = rows'[i].exit
        PROVE  (IdOf(rows[i].exit, rows[i].sym, "sell"))'
    BY <1>2, <2>2 DEF IdOf, Follow
  <2> QED BY <2>1, <2>2 DEF Descends
<1> QED BY <1>3, <1>4

\* What the processes that stand still hold stays of the rows.
LEMMA HandsStay ==
  ASSUME NamedInv, Follow(orders, orders'), RowsStay, NEW r \in Traders, UNCHANGED trader[r]
  PROVE  InHand(r)'
<1>1. /\ \A i \in DOMAIN trader[r].mem : i \in DOMAIN rows
      /\ (trader[r].at = "sold" => trader[r].row \in DOMAIN rows)
      /\ (InFlight(r) => trader[r].order \in DOMAIN orders)
  BY InMemory, Places DEF NamedInv
<1> QED BY <1>1 DEF NamedInv, InHand, RowsStay, Follow, InFlight

\* A step of process p: the others stand still.
LEMMA NamedWhenGone ==
  ASSUME NamedInv, TypeInv', Follow(orders, orders'), RowsStay, OrdersAreNamed',
         NEW p \in Traders, NEW t, Goes(p, t), InHand(p)'
  PROVE  NamedInv'
<1>1. \A r \in Traders : r # p => trader'[r] = trader[r]
  BY DEF Goes, NamedInv, TypeInv
<1> QED BY <1>1, HandsStay DEF NamedInv

\* Steps of process p that leave rows and orders alone, and send nothing.
LEMMA NamedWhenQuiet ==
  ASSUME NamedInv, TypeInv', UNCHANGED <<rows, orders>>, NEW p \in Traders, NEW t, Goes(p, t),
         t.at \notin {"sold", "bought"}, t.mem = trader[p].mem \/ t.mem = <<>>
  PROVE  NamedInv'
<1>1. Follow(orders, orders') /\ RowsStay /\ OrdersAreNamed'
  BY FollowSelf DEF RowsStay, NamedInv, OrdersAreNamed, IdOf
<1>2. trader'[p] = t /\ DOMAIN <<>> = {}
  BY Places DEF NamedInv
<1>3. InHand(p)'
  BY <1>2 DEF NamedInv, InHand
<1> QED BY <1>1, <1>3, NamedWhenGone

\* Steps of a cycle that read, and failures.
LEMMA NamedWhenReading ==
  ASSUME NamedInv, TypeInv', NEW p \in Traders,
         \/ Begin(p) \/ Sync(p) \/ FetchAccount(p) \/ Hold(p) \/ FindCandidates(p) \/ EndCycle(p)
         \/ LoseReply(p) \/ Abort(p)
  PROVE  NamedInv'
<1>1. trader[p] \in Trader /\ Idle \in Trader /\ sold \in [Symbols -> Nat]
  BY InMemory, IdleHolds DEF NamedInv, TypeInv, BrokerOK, BrokerTypeOK
<1>2. Idle.at = "idle" /\ Idle.mem = <<>>
  BY Zenon DEF Idle
<1>3. CASE Begin(p)
  <2>1. PICK t : t = [Idle EXCEPT !.at = "sync", !.since = sold]
    BY Zenon
  <2>2. t.at = "sync" /\ t.mem = <<>>
    BY <1>1, <1>2, <2>1 DEF Trader
  <2>3. Goes(p, t) /\ UNCHANGED <<rows, orders>>
    BY <1>3, <2>1 DEF Begin, brokerVars
  <2> QED BY <2>2, <2>3, NamedWhenQuiet
<1>4. CASE Sync(p)
  <2>1. PICK t : t = [trader[p] EXCEPT !.at = "account"]
    BY Zenon
  <2>2. t.at = "account" /\ t.mem = trader[p].mem
    BY <1>1, <2>1 DEF Trader
  <2>3. Goes(p, t) /\ UNCHANGED <<rows, orders>>
    BY <1>4, <2>1 DEF Sync, brokerVars
  <2> QED BY <2>2, <2>3, NamedWhenQuiet
<1>5. CASE FetchAccount(p)
  <2>1. PICK a : Goes(p, [trader[p] EXCEPT !.at = "load", !.acct = a]) /\ UNCHANGED <<rows, orders>>
    BY <1>5, Zenon DEF FetchAccount, brokerVars
  <2>2. PICK t : t = [trader[p] EXCEPT !.at = "load", !.acct = a]
    BY Zenon
  <2>3. t.at = "load" /\ t.mem = trader[p].mem
    BY <1>1, <2>2 DEF Trader
  <2> QED BY <2>1, <2>2, <2>3, NamedWhenQuiet
<1>6. CASE Hold(p)
  <2>1. PICK T : Goes(p, [trader[p] EXCEPT !.todo = T]) /\ UNCHANGED <<rows, orders>>
    BY <1>6 DEF Hold, brokerVars
  <2>2. PICK t : t = [trader[p] EXCEPT !.todo = T]
    BY Zenon
  <2>3. t.at = trader[p].at /\ t.mem = trader[p].mem /\ trader[p].at = "sell"
    BY <1>1, <1>6, <2>2 DEF Trader, Hold
  <2> QED BY <2>1, <2>2, <2>3, NamedWhenQuiet
<1>7. CASE FindCandidates(p)
  <2>1. PICK C : Goes(p, [trader[p] EXCEPT !.at = "buy", !.mem = <<>>, !.held = {}, !.cands = C])
                 /\ UNCHANGED <<rows, orders>>
    BY <1>7 DEF FindCandidates, brokerVars
  <2>2. PICK t : t = [trader[p] EXCEPT !.at = "buy", !.mem = <<>>, !.held = {}, !.cands = C]
    BY Zenon
  <2>3. t.at = "buy" /\ t.mem = <<>>
    BY <1>1, <2>2 DEF Trader
  <2> QED BY <2>1, <2>2, <2>3, NamedWhenQuiet
<1>8. CASE EndCycle(p) \/ Abort(p)
  <2>1. Goes(p, Idle) /\ UNCHANGED <<rows, orders>>
    BY <1>8 DEF EndCycle, Abort, brokerVars
  <2> QED BY <1>2, <2>1, NamedWhenQuiet
<1>9. CASE LoseReply(p)
  <2> DEFINE to == IF trader[p].at = "sold" THEN "sell" ELSE "buy"
  <2>1. PICK yes \in BOOLEAN : yes = (trader[p].missed \/ trader[p].at = "bought")
    OBVIOUS
  <2>2. PICK t : t = [trader[p] EXCEPT !.at = to, !.row = 0, !.order = 0, !.missed = yes]
    BY Zenon
  <2>3. [trader[p] EXCEPT !.at = IF @ = "sold" THEN "sell" ELSE "buy", !.row = 0, !.order = 0, 
                        !.missed = @ \/ trader[p].at = "bought"]
          = [trader[p] EXCEPT !.at = to, !.row = 0, !.order = 0, !.missed = yes]
    BY <2>1, Zenon
  <2>4. Goes(p, t) /\ UNCHANGED <<rows, orders>>
    BY <1>9, <2>2, <2>3 DEF LoseReply, brokerVars
  <2>5. t.at = to /\ t.mem = trader[p].mem /\ to \in {"sell", "buy"}
    <3>1. to \in {"sell", "buy"}
      OBVIOUS
    <3> HIDE DEF to
    <3> QED BY <1>1, <2>2, <3>1 DEF Trader
  <2> QED BY <2>4, <2>5, NamedWhenQuiet
<1> QED BY <1>3, <1>4, <1>5, <1>6, <1>7, <1>8, <1>9

\* An order is sent: its side is known.
LEMMA NamedWhenSending ==
  ASSUME NamedInv, TypeInv', NEW p \in Traders, Sell(p) \/ \E s \in Symbols : Buy(p, s)
  PROVE  NamedInv'
<1>1. TypeInv /\ BrokerOK /\ InHand(p) /\ \A t : Goes(p, t) => trader'[p] = t
  BY Places DEF NamedInv, TypeInv
<1>2. ASSUME UNCHANGED rows, Follow(orders, orders')
      PROVE  RowsStay /\ OrdersAreNamed'
  <2>1. Descends(rows', rows)
    BY <1>2 DEF Descends
  <2> QED BY <1>2, <2>1, NamedByDescent DEF NamedInv, RowsStay
<1>3. CASE Sell(p)
  <2> DEFINE i == Next1(p)
             r == trader[p].mem[i]
  <2>1. Place(r.sym, "sell", r.shares) /\ UNCHANGED rows /\ trader[p].todo # {} /\ trader[p].at = "sell"
    BY <1>1, <1>3, SellSent
  <2>2. PICK t : /\ Goes(p, t) /\ t.at = "sold" /\ t.mem = trader[p].mem
                 /\ t.row = i /\ t.order = Len(orders) + 1
    BY <1>1, <1>3, SellSent
  <2>3. i \in DOMAIN trader[p].mem /\ r.sym \in Symbols /\ r.shares \in Nat \ {0}
    BY <1>1, <2>1, NextIsLeft
  <2> HIDE DEF i, r
  <2>4. /\ Follow(orders, orders') /\ Len(orders') = Len(orders) + 1
        /\ orders'[Len(orders')].sym = r.sym /\ orders'[Len(orders')].side = "sell"
    BY <1>1, <2>1, <2>3, PlaceKeeps
  <2>5. rows[i].sym = r.sym
    BY <1>1, <2>3 DEF InHand, r
  <2>6. InHand(p)'
    BY <1>1, <2>1, <2>2, <2>4, <2>5 DEF InHand
  <2> QED BY <1>2, <2>1, <2>2, <2>4, <2>6, NamedWhenGone
<1>4. ASSUME NEW s \in Symbols, Buy(p, s) PROVE NamedInv'
  <2>1. Place(s, "buy", Lot) /\ Lot \in Nat \ {0} /\ UNCHANGED rows
    BY <1>1, <1>4, BuySent
  <2>2. PICK t : Goes(p, t) /\ t.at = "bought" /\ t.mem = trader[p].mem /\ t.order = Len(orders) + 1
    BY <1>1, <1>4, BuySent
  <2>3. Follow(orders, orders') /\ Len(orders') = Len(orders) + 1 /\ orders'[Len(orders')].side = "buy"
    BY <1>1, <2>1, PlaceKeeps
  <2>4. InHand(p)'
    BY <1>1, <2>1, <2>2, <2>3 DEF InHand
  <2> QED BY <1>2, <2>1, <2>2, <2>3, <2>4, NamedWhenGone
<1> QED BY <1>3, <1>4

\* The reply is recorded: the row takes an order of its own symbol, or none.
LEMMA NamedWhenRecording ==
  ASSUME NamedInv, TypeInv', NEW p \in Traders, NEW synced \in BOOLEAN,
         NEW id \in {trader[p].order, None},
         RecordSell(p, synced, id) \/ RecordBuy(p, synced, id)
  PROVE  NamedInv'
<1>1. TypeInv /\ InHand(p) /\ (\A t : Goes(p, t) => trader'[p] = t)
      /\ (InFlight(p) => trader[p].order \in DOMAIN orders)
      /\ \A i \in DOMAIN rows : /\ IdOf(rows[i].order, rows[i].sym, "buy")
                                /\ IdOf(rows[i].exit, rows[i].sym, "sell")
  BY Places, InMemory DEF NamedInv, OrdersAreNamed
<1>2. DOMAIN trader[p].mem \subseteq DOMAIN rows
  BY <1>1, Places
<1>3. CASE RecordSell(p, synced, id)
  <2>1. /\ trader[p].at = "sold" /\ trader[p].row \in DOMAIN rows /\ DOMAIN rows' = DOMAIN rows
        /\ \A i \in DOMAIN rows :
             /\ rows'[i].sym = rows[i].sym /\ rows'[i].order = rows[i].order
             /\ rows'[i].exit = IF i = trader[p].row /\ rows[i].status = "open" THEN id ELSE rows[i].exit
        /\ UNCHANGED orders
    BY <1>1, <1>3, SellRecorded DEF brokerVars
  <2>2. PICK t : Goes(p, t) /\ t.at = "sell" /\ t.mem = trader[p].mem
    BY <1>1, <1>3, SellRecorded
  <2>3. Follow(orders, orders') /\ RowsStay
    BY <1>1, <2>1, FollowSelf DEF RowsStay
  <2>4. IdOf(id, rows[trader[p].row].sym, "sell")
    BY <1>1, <2>1 DEF IdOf, InHand, InFlight
  <2>5. OrdersAreNamed'
    BY <1>1, <2>1, <2>4 DEF OrdersAreNamed, IdOf
  <2>6. InHand(p)'
    BY <1>1, <1>2, <2>1, <2>2 DEF InHand
  <2> QED BY <2>2, <2>3, <2>5, <2>6, NamedWhenGone
<1>4. CASE RecordBuy(p, synced, id)
  <2> DEFINE n == Len(rows')
  <2>1. /\ trader[p].at = "bought" /\ UNCHANGED orders
        /\ \A i \in DOMAIN rows : i \in DOMAIN rows' /\ rows'[i] = rows[i]
        /\ \A i \in DOMAIN rows' : i \in DOMAIN rows \/ (i = n /\ rows'[i].exit = None)
        /\ rows'[n].order = id /\ rows'[n].sym = orders[trader[p].order].sym
    BY <1>1, <1>4, BuyRecorded DEF brokerVars
  <2> HIDE DEF n
  <2>2. PICK t : Goes(p, t) /\ t.at = "buy" /\ t.mem = trader[p].mem
    BY <1>1, <1>4, BuyRecorded
  <2>3. Follow(orders, orders') /\ RowsStay
    BY <1>1, <2>1, FollowSelf DEF RowsStay
  <2>4. IdOf(id, rows'[n].sym, "buy")
    BY <1>1, <2>1 DEF IdOf, InHand, InFlight
  <2>5. OrdersAreNamed'
    BY <1>1, <2>1, <2>4 DEF OrdersAreNamed, IdOf
  <2>6. InHand(p)'
    BY <1>1, <1>2, <2>1, <2>2 DEF InHand
  <2> QED BY <2>2, <2>3, <2>5, <2>6, NamedWhenGone
<1> QED BY <1>3, <1>4

\* The rows are loaded: each takes its orders from the one that it follows.
LEMMA NamedWhenLoading ==
  ASSUME NamedInv, TypeInv', NEW p \in Traders, Load(p)
  PROVE  NamedInv'
<1>1. TypeInv /\ \A t : Goes(p, t) => trader'[p] = t
  BY Places DEF NamedInv
<1>2. PICK q \in [Symbols -> Nat] :
        /\ Repaired(rows, rows', q)
        /\ \E t \in Trader : Goes(p, t) /\ t.at = "sell" /\ t.mem = rows'
  BY <1>1, Loaded
<1>3. PICK t : Goes(p, t) /\ t.at = "sell" /\ t.mem = rows'
  BY <1>2
<1>4. UNCHANGED orders
  BY <1>1, Loaded DEF brokerVars
<1>5. Follow(orders, orders') /\ RowsStay /\ Descends(rows', rows)
  BY <1>1, <1>2, <1>4, FollowSelf DEF RowsStay, Repaired, Keeps
<1>6. OrdersAreNamed'
  BY <1>5, NamedByDescent DEF NamedInv
<1>7. InHand(p)'
  BY <1>1, <1>3 DEF InHand
<1> QED BY <1>3, <1>5, <1>6, <1>7, NamedWhenGone

\* The broker and the owner move on.
LEMMA NamedWhenOthersMove ==
  ASSUME NamedInv, TypeInv', UNCHANGED trader, Follow(orders, orders'), RowsStay, Descends(rows', rows)
  PROVE  NamedInv'
<1>1. OrdersAreNamed'
  BY NamedByDescent DEF NamedInv
<1> QED BY <1>1, HandsStay DEF NamedInv

\* Every step keeps it.
LEMMA StepsKeepNames == NamedInv /\ [Next]_vars => NamedInv'
<1> SUFFICES ASSUME NamedInv, [Next]_vars PROVE NamedInv'
  OBVIOUS
<1>1. TypeInv /\ TypeInv' /\ BrokerOK
  BY StepsKeepTypes DEF NamedInv, TypeInv
<1>2. UNCHANGED rows => RowsStay /\ Descends(rows', rows)
  BY DEF RowsStay, Descends
<1>3. CASE UNCHANGED vars
  <2>1. UNCHANGED <<orders, rows, trader>>
    BY <1>3 DEF vars, brokerVars, autoVars
  <2> QED BY <1>1, <1>2, <2>1, FollowSelf, NamedWhenOthersMove
<1>4. ASSUME NEW p \in Traders, CycleStep(p) \/ Unnamed(p) \/ LoseReply(p) \/ Abort(p)
      PROVE  NamedInv'
  BY <1>1, <1>4, NamedWhenReading, NamedWhenSending, NamedWhenRecording, NamedWhenLoading
     DEF CycleStep, Unnamed
<1>5. ASSUME NEW i \in DOMAIN orders, Execute(i) \/ Lapse(i) PROVE NamedInv'
  <2>1. UNCHANGED <<rows, trader>> /\ (Fill(i) \/ Expire(i))
    BY <1>5 DEF Execute, Lapse, autoVars
  <2>2. Follow(orders, orders')
    BY <1>1, <2>1, FillKeeps, ExpireKeeps
  <2> QED BY <1>1, <1>2, <2>1, <2>2, NamedWhenOthersMove
<1>6. ASSUME NEW s \in Symbols, OwnerSells(s) PROVE NamedInv'
  <2>1. UNCHANGED <<rows, trader>> /\ SellByHand(s)
    BY <1>6 DEF OwnerSells, autoVars
  <2>2. Follow(orders, orders')
    BY <1>1, <2>1, ByHandKeeps
  <2> QED BY <1>1, <1>2, <2>1, <2>2, NamedWhenOthersMove
<1>7. ASSUME NEW s \in Symbols, Untrack(s) \/ Track(s) PROVE NamedInv'
  <2>1. OwnedRows /\ UNCHANGED <<orders, trader>>
    BY <1>1, <1>7, OwnedBy DEF brokerVars
  <2>2. RowsStay /\ Descends(rows', rows)
    BY <2>1 DEF OwnedRows, RowsStay, Descends
  <2> QED BY <1>1, <2>1, <2>2, FollowSelf, NamedWhenOthersMove
<1> QED BY <1>3, <1>4, <1>5, <1>6, <1>7 DEF Next

\* Rows name their own orders (the INSERT and the UPDATE of run_auto_account, and the rows
\* that reconciliation and recovery copy): with any number of processes and whatever fails.
THEOREM OrdersStayNamed == Spec => []OrdersAreNamed
<1>1. Init => NamedInv
  <2> SUFFICES ASSUME Init PROVE NamedInv
    OBVIOUS
  <2>1. TypeInv /\ rows = <<>> /\ DOMAIN <<>> = {}
    BY TypedAtFirst DEF Init
  <2>2. Idle.at = "idle" /\ Idle.mem = <<>>
    BY Zenon DEF Idle
  <2>3. \A p \in Traders : trader[p] = Idle
    BY DEF Init
  <2>4. \A p \in Traders : InHand(p)
    BY <2>1, <2>2, <2>3 DEF InHand
  <2> QED BY <2>1, <2>4 DEF NamedInv, OrdersAreNamed
<1>2. NamedInv /\ [Next]_vars => NamedInv'
  BY StepsKeepNames
<1>3. NamedInv => OrdersAreNamed
  BY DEF NamedInv
<1> QED BY <1>1, <1>2, <1>3, PTL DEF Spec

\* Covered exits and named orders (the exit loop of run_auto_account): with one process and a
\* broker that refuses a sell that no shares cover, a row that the cycle may send an exit for
\* is covered by shares that no other live sell order claims, under the exceptions that
\* SellsAreCovered names, and no row names an order that is not its own.
THEOREM TradesStayCovered ==
  ASSUME NEW CONSTANT p, Traders = {p}, ~MayShort
  PROVE  Spec => []TradesAreCovered
<1>1. Init => CoverInv(p)
  BY CoverAtFirst
<1>2. CoverInv(p) /\ [Next]_vars => CoverInv(p)'
  BY StepsKeepCover
<1>3. CoverInv(p) => TypeOK /\ SellsAreCovered
  BY CoverImplied, TypesImplied DEF CoverInv
<1>4. Spec => [](TypeOK /\ SellsAreCovered)
  BY <1>1, <1>2, <1>3, PTL DEF Spec
<1>5. Spec => []OrdersAreNamed
  BY OrdersStayNamed
<1>6. TypeOK /\ SellsAreCovered /\ OrdersAreNamed => TradesAreCovered
  BY DEF TradesAreCovered
<1> QED BY <1>4, <1>5, <1>6, PTL

=============================================================================
