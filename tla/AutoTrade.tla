----------------------------- MODULE AutoTrade -----------------------------
(***************************************************************************)
(* The auto-trade cycle of one account, src/auto.rs: run_auto_account      *)
(* under run_auto_cycle, the rows of auto_positions, the synchronized copy *)
(* of the broker's orders, and the commands `auto track` and `auto         *)
(* untrack`.  The database is the only state that outlives a cycle; the    *)
(* broker and its owner move on while a cycle runs.                        *)
(*                                                                         *)
(* Prices, predictions, the market clock, wash-sale windows and the PDT    *)
(* count decide whether a sell or a buy is wanted: any answer is possible  *)
(* at any time.                                                            *)
(***************************************************************************)
EXTENDS Broker, SequencesExt

CONSTANTS
  Traders,       \* processes that run cycles
  MaxPositions,  \* auto.max_positions
  Lot,           \* shares that position_size_pct of the equity buys
  MaxFaults,     \* bound on crashes and lost replies
  MaxUser,       \* bound on what the owner does
  MaxTroubles,   \* bound on both together
  None

ASSUME AutoAssumption ==
  /\ MaxPositions \in Nat /\ Lot \in Nat \ {0}
  /\ MaxFaults \in Nat /\ MaxUser \in Nat /\ MaxTroubles \in Nat
  /\ None \notin Nat

VARIABLES
  rows,      \* auto_positions, by id
  snap,      \* provider_order_snapshots: the orders as of the last sync
  known,     \* per symbol, the shares sold in provider_fill_activities
  released,  \* symbols whose management override says auto_managed = 0
  trader,    \* each process: where it stands, and what it holds in memory
  faults,
  user,
  moved,     \* history: symbols sold at the broker since a process loaded
  lost,      \* history: symbols of sells whose order no open row names
  adrift     \* history: symbols of buys that lost their open row, or got none or one
             \* that does not name them, or whose shares came and were untracked while a cycle ran that had seen none

autoVars == <<rows, snap, known, released, trader>>
vars == <<brokerVars, autoVars, faults, user, moved, lost, adrift>>

Ids == Nat \ {0}

Row == [sym : Symbols, status : {"open", "closed", "manual"}, shares : Nat,
        order : Ids \cup {None}, exit : Ids \cup {None}, entry : Nat]

NoAccount == [cash |-> 0, equity |-> 0]

Idle == [at |-> "idle", since |-> [s \in Symbols |-> 0], mem |-> <<>>, todo |-> {},
         acct |-> NoAccount, row |-> 0, order |-> 0, slots |-> 0, rem |-> 0, held |-> {}, cands |-> {}, missed |-> FALSE]

Init ==
  /\ BrokerInit
  /\ rows = <<>>
  /\ snap = <<>>
  /\ known = [s \in Symbols |-> 0]
  /\ released = {}
  /\ trader = [p \in Traders |-> Idle]
  /\ faults = 0
  /\ user = 0
  /\ moved = [p \in Traders |-> {}]
  /\ lost = {}
  /\ adrift = {}

----------------------------------------------------------------------------
(* What the database says *)

OpenRows(rs, s) == {i \in DOMAIN rs : rs[i].sym = s /\ rs[i].status = "open"}

Closed(r) == [r EXCEPT !.status = "closed", !.shares = 0, !.exit = None]

\* latest_provider_sell_exit() finds a sell since the entry of the row.
SellKnown(r) == known[r.sym] > r.entry

\* Mutant of EntryPending: an expired order is pending as long as it is not
\* filled.
EntryPendingUnlessFilled(r) ==
  /\ r.order # None
  /\ r.order \in DOMAIN snap => snap[r.order].filled < snap[r.order].qty

\* Mutant of EntryPending: no order is waited for.
EntryPendingNever(r) == FALSE

\* entry_order_is_unfilled_or_active()
EntryPending(r) ==
  /\ r.order # None
  /\ r.order \in DOMAIN snap =>
       LET o == snap[r.order] IN o.filled < o.qty /\ (o.live \/ o.filled > 0)

\* Mutant of ExitActive: an exit that was sent does not stop the next one.
ExitActiveNever(id) == FALSE

\* exit_order_is_active()
ExitActive(id) == id \in DOMAIN snap /\ snap[id].live

\* latest_closed_auto_seed()
Seeds(rs, s) == {i \in DOMAIN rs : rs[i].sym = s /\ rs[i].status = "closed"}

Seed(rs, s) ==
  CHOOSE i \in Seeds(rs, s) :
    \A j \in Seeds(rs, s) :
      rs[j].entry < rs[i].entry \/ (rs[j].entry = rs[i].entry /\ j <= i)

\* An open row takes the provider's quantity, be it more or less.
Adjusted(r, q) == [r EXCEPT !.shares = q[r.sym]]

\* Part of the row's shares were sold, and the sell is known.
PartSold(r, q) == r.status = "open" /\ SellKnown(r) /\ 1 <= q[r.sym] /\ q[r.sym] < r.shares

\* Numbers, the least first.
InOrder(S) ==
  CHOOSE list \in [1 .. Cardinality(S) -> S] :
    \A i, j \in DOMAIN list : i < j => list[i] < list[j]

\* reconcile_open_positions_with_provider(), for the long shares q that the
\* provider reports: a row whose shares are gone is closed unless its buy may
\* still fill; any other takes the provider's quantity, and a known sell of
\* part of it leaves a closed row of its own.
Reconciled(q) ==
  LET Fix(r) == IF r.status # "open" THEN r
                ELSE IF q[r.sym] >= 1 THEN Adjusted(r, q)
                ELSE IF ~SellKnown(r) /\ EntryPending(r) THEN r
                ELSE Closed(r)
      parts == InOrder({i \in DOMAIN rows : PartSold(rows[i], q)})
  IN  [i \in DOMAIN rows |-> Fix(rows[i])] \o [n \in DOMAIN parts |-> Closed(rows[parts[n]])]

\* Mutant of Recovered: closed rows stay closed.
RecoveredNot(rs, q) == rs

\* recover_auto_positions_from_provider(): shares that are held for a row that
\* was closed, and was not released, get a new row.
Recovered(rs, q) ==
  LET back == {s \in Symbols : /\ q[s] >= 1 /\ OpenRows(rs, s) = {}
                               /\ s \notin released /\ Seeds(rs, s) # {}}
      list == SetToSeq(back)
      Again(s) == [sym |-> s, status |-> "open", shares |-> q[s],
                   order |-> rs[Seed(rs, s)].order, exit |-> None,
                   entry |-> rs[Seed(rs, s)].entry]
  IN  rs \o [i \in DOMAIN list |-> Again(list[i])]

\* Mutant of Deployable: buys that are not filled yet reserve nothing.
DeployableUnreserved(acct, q, rs) ==
  Min({acct.cash, acct.equity - MapThenSumSet(LAMBDA s : q[s], Symbols)})

\* cash_only_guard(), for what the account said and the positions said later
Deployable(acct, q, rs) ==
  LET long == MapThenSumSet(LAMBDA s : q[s], Symbols)
      local == MapThenSumSet(LAMBDA i : rs[i].shares, {i \in DOMAIN rs : rs[i].status = "open"})
  IN  Min({acct.cash, acct.equity - Max({long, local}) - TotalUnfilled(snap, "buy")})

\* Mutant of Slots: only local rows count.
SlotsOfRows(q, rs) ==
  MaxPositions - Cardinality({rs[i].sym : i \in {j \in DOMAIN rs : rs[j].status = "open"}})

\* Positions that may still be opened, counting those of the provider and the
\* local ones.
Slots(q, rs) ==
  MaxPositions - Cardinality({s \in Symbols : q[s] > 0 \/ OpenRows(rs, s) # {}})

----------------------------------------------------------------------------
(* A cycle *)

Goes(p, t) == trader' = [trader EXCEPT ![p] = t]

Troubled == faults + user >= MaxTroubles

Fault == ~Troubled /\ faults < MaxFaults /\ faults' = faults + 1

\* run_auto_cycle() takes the time.
Begin(p) ==
  /\ trader[p].at = "idle"
  /\ Goes(p, [Idle EXCEPT !.at = "sync", !.since = sold])
  /\ UNCHANGED <<brokerVars, rows, snap, known, released, faults, user, moved, lost, adrift>>

\* sync_provider_history_with_context(): orders, then fills.
SyncHistory == snap' = orders /\ known' = sold

Sync(p) ==
  /\ trader[p].at = "sync"
  /\ SyncHistory
  /\ Goes(p, [trader[p] EXCEPT !.at = "account"])
  /\ UNCHANGED <<brokerVars, rows, released, faults, user, moved, lost, adrift>>

\* GET /account
FetchAccount(p) ==
  /\ trader[p].at = "account"
  /\ Goes(p, [trader[p] EXCEPT !.at = "load",
       !.acct = [cash |-> cash, equity |-> cash + MapThenSumSet(LAMBDA s : shares[s], Symbols)]])
  /\ UNCHANGED <<brokerVars, rows, snap, known, released, faults, user, moved, lost, adrift>>

Buying(r) == r.order # None /\ orders[r.order].live

Selling(r) == r.exit # None /\ orders[r.exit].live

\* GET /positions; then the open rows are loaded, reconciled and recovered, and
\* the cash guard is computed.
Load(p) ==
  LET q == [s \in Symbols |-> Max({shares[s], 0})]
      rs == Recovered(Reconciled(q), q)
      open == {i \in DOMAIN rs : rs[i].status = "open"}
      long == {s \in Symbols : q[s] > 0}
  IN  /\ trader[p].at = "load"
      /\ rows' = rs
      /\ Goes(p, [trader[p] EXCEPT
                    !.at = "sell", !.mem = rs, !.todo = open, !.held = long,
                    !.acct = NoAccount, !.slots = Slots(q, rs),
                    !.rem = Deployable(trader[p].acct, q, rs)])
      /\ moved' = [moved EXCEPT ![p] = {}]
      /\ adrift' = adrift \cup {s \in Symbols : \E i \in OpenRows(rows, s) :
                               /\ rs[i].status = "closed"
                               /\ SellKnown(rows[i]) /\ Buying(rows[i])}
      /\ UNCHANGED <<brokerVars, snap, known, released, faults, user, lost>>

Next1(p) == Min(trader[p].todo)

\* No exit is wanted, no price is found, the sell window is closed, the sell
\* would be a day trade too many, the exit order is active, or the broker
\* refuses the order.
Hold(p) ==
  /\ trader[p].at = "sell"
  /\ trader[p].todo # {}
  /\ Goes(p, [trader[p] EXCEPT !.todo = @ \ {Next1(p)}])
  /\ UNCHANGED <<brokerVars, rows, snap, known, released, faults, user, moved, lost, adrift>>

\* The sell order, for the quantity in memory.
Sell(p) ==
  LET i == Next1(p)
      r == trader[p].mem[i]
  IN  /\ trader[p].at = "sell"
      /\ trader[p].todo # {}
      /\ ~ExitActive(r.exit)
      /\ Place(r.sym, "sell", r.shares)
      /\ Goes(p, [trader[p] EXCEPT !.at = "sold", !.todo = @ \ {i}, !.row = i,
                                      !.order = Len(orders) + 1])
      /\ UNCHANGED <<rows, snap, known, released, faults, user, moved, lost, adrift>>

\* After an order the history is synchronized again; failing is a warning.
Resync(done) == IF done THEN SyncHistory ELSE UNCHANGED <<snap, known>>

\* A reply may leave out the order's id.  It is stored as an empty one then, which
\* exit_order_is_active() and entry_order_is_unfilled_or_active() read as none.
Replied(id) == IF id = None THEN Fault ELSE UNCHANGED faults

\* Mutant of RecordSell: the id of the exit is stored over that of the buy.
RecordSellAsOrder(p, synced, id) ==
  LET i == trader[p].row
  IN  /\ trader[p].at = "sold"
      /\ rows' = IF rows[i].status = "open" THEN [rows EXCEPT ![i].order = id] ELSE rows
      /\ lost' = lost \cup {rows[i].sym}
      /\ Replied(id)
      /\ Resync(synced)
      /\ Goes(p, [trader[p] EXCEPT !.at = "sell", !.row = 0, !.order = 0])
      /\ UNCHANGED <<brokerVars, released, user, moved, adrift>>

\* The id of the reply is stored in the row, which stays open; that of a row
\* which the owner released meanwhile is never read again.
RecordSell(p, synced, id) ==
  LET i == trader[p].row
      open == rows[i].status = "open"
  IN  /\ trader[p].at = "sold"
      /\ rows' = IF open THEN [rows EXCEPT ![i].exit = id] ELSE rows
      /\ lost' = IF open /\ id # None THEN lost ELSE lost \cup {rows[i].sym}
      /\ Replied(id)
      /\ Resync(synced)
      /\ Goes(p, [trader[p] EXCEPT !.at = "sell", !.row = 0, !.order = 0])
      /\ UNCHANGED <<brokerVars, released, user, moved, adrift>>

\* find_buy_candidates(), when there is a slot and cash, the buy window is
\* open and predictions are fresh.  Cooldowns, wash-sale windows and scores only
\* remove candidates, and Buy may pass over any.
FindCandidates(p) ==
  /\ trader[p].at = "sell"
  /\ trader[p].todo = {}
  /\ trader[p].slots > 0 /\ trader[p].rem > 0
  /\ Goes(p, [trader[p] EXCEPT !.at = "buy", !.mem = <<>>, !.held = {},
       !.cands = {s \in Symbols \ trader[p].held : OpenRows(rows, s) = {}}])
  /\ moved' = [moved EXCEPT ![p] = {}]
  /\ UNCHANGED <<brokerVars, rows, snap, known, released, faults, user, lost, adrift>>

\* The buy order for a candidate; candidates may also be passed over.
Buy(p, s) ==
  /\ trader[p].at = "buy"
  /\ s \in trader[p].cands
  /\ trader[p].slots > 0
  /\ Lot <= trader[p].rem /\ 100 * Lot <= 95 * trader[p].rem
  /\ OpenRows(rows, s) = {}
  /\ Place(s, "buy", Lot)
  /\ Goes(p, [trader[p] EXCEPT !.at = "bought", !.cands = @ \ {s}, !.order = Len(orders) + 1])
  /\ UNCHANGED <<rows, snap, known, released, faults, user, moved, lost, adrift>>

\* The new row, and what is left of slots and cash.
RecordBuy(p, synced, id) ==
  LET s == orders[trader[p].order].sym
  IN  /\ trader[p].at = "bought"
      /\ rows' = Append(rows, [sym |-> s, status |-> "open", shares |-> Lot, order |-> id,
                               exit |-> None, entry |-> trader[p].since[s]])
      /\ adrift' = IF id # None THEN adrift ELSE adrift \cup {s}
      /\ Replied(id)
      /\ Goes(p, [trader[p] EXCEPT !.at = "buy", !.order = 0, !.slots = @ - 1, !.rem = @ - Lot])
      /\ Resync(synced)
      /\ UNCHANGED <<brokerVars, released, user, moved, lost>>

EndCycle(p) ==
  /\ trader[p].at = "buy" \/ (trader[p].at = "sell" /\ trader[p].todo = {})
  /\ Goes(p, Idle)
  /\ moved' = [moved EXCEPT ![p] = {}]
  /\ UNCHANGED <<brokerVars, rows, snap, known, released, faults, user, lost, adrift>>

----------------------------------------------------------------------------
(* Failures *)

InFlight(p) == trader[p].at \in {"sold", "bought"}

Forget(p) ==
  /\ lost' = IF trader[p].at = "sold" THEN lost \cup {orders[trader[p].order].sym} ELSE lost
  /\ adrift' = IF trader[p].at = "bought" THEN adrift \cup {orders[trader[p].order].sym} ELSE adrift

\* The broker accepted the order, and the reply is lost: to the program the
\* order has failed.
LoseReply(p) ==
  /\ InFlight(p)
  /\ Fault
  /\ Forget(p)
  /\ Goes(p, [trader[p] EXCEPT !.at = IF @ = "sold" THEN "sell" ELSE "buy", !.row = 0, !.order = 0,
                                  !.missed = @ \/ trader[p].at = "bought"])
  /\ UNCHANGED <<brokerVars, rows, snap, known, released, user, moved>>

\* The process is killed, or a request of the first half of the cycle fails.
Abort(p) ==
  /\ trader[p].at # "idle"
  /\ Fault
  /\ Forget(p)
  /\ Goes(p, Idle)
  /\ moved' = [moved EXCEPT ![p] = {}]
  /\ UNCHANGED <<brokerVars, rows, snap, known, released, user>>

----------------------------------------------------------------------------
(* The broker and the owner *)

SoldAway(s) ==
  moved' = [p \in Traders |-> IF trader[p].at \in {"sell", "sold"} THEN moved[p] \cup {s} ELSE {}]

Execute(i) ==
  /\ Fill(i)
  /\ IF orders[i].side = "sell" THEN SoldAway(orders[i].sym) ELSE UNCHANGED moved
  /\ UNCHANGED <<autoVars, faults, user, lost, adrift>>

Lapse(i) ==
  /\ Expire(i)
  /\ UNCHANGED <<autoVars, faults, user, moved, lost, adrift>>

Owner == ~Troubled /\ user < MaxUser /\ user' = user + 1

OwnerSells(s) ==
  /\ Owner
  /\ SellByHand(s)
  /\ SoldAway(s)
  /\ UNCHANGED <<autoVars, faults, lost, adrift>>

\* A cycle that has yet to look for candidates found no shares of the symbol.
Unseen(s) == \E p \in Traders : trader[p].at \in {"sell", "sold"} /\ s \notin trader[p].held

\* untrack_account_position(): a position that the broker reports goes to
\* manual management.
Untrack(s) ==
  /\ Owner
  /\ SyncHistory
  /\ shares[s] # 0
  /\ rows' = [i \in DOMAIN rows |-> IF i \in OpenRows(rows, s)
                                     THEN [rows[i] EXCEPT !.status = "manual"] ELSE rows[i]]
  /\ released' = released \cup {s}
  /\ adrift' = IF Unseen(s) \/ \E i \in OpenRows(rows, s) : Buying(rows[i])
                 THEN adrift \cup {s} ELSE adrift
  /\ lost' = IF \E i \in OpenRows(rows, s) : Selling(rows[i]) THEN lost \cup {s} ELSE lost
  /\ UNCHANGED <<brokerVars, trader, faults, moved>>

\* track_account_position(): a long position gets a row, unless it has one.
Track(s) ==
  /\ Owner
  /\ SyncHistory
  /\ shares[s] >= 1
  /\ rows' = IF OpenRows(rows, s) # {} THEN rows
             ELSE Append(rows, [sym |-> s, status |-> "open", shares |-> shares[s], order |-> None,
                                exit |-> None, entry |-> sold[s]])
  /\ released' = released \ {s}
  /\ UNCHANGED <<brokerVars, trader, faults, moved, lost, adrift>>

----------------------------------------------------------------------------

CycleStep(p) ==
  \/ Begin(p) \/ Sync(p) \/ FetchAccount(p) \/ Load(p)
  \/ Hold(p) \/ Sell(p) \/ FindCandidates(p) \/ EndCycle(p)
  \/ \E s \in Symbols : Buy(p, s)
  \/ \E synced \in BOOLEAN : \/ RecordSell(p, synced, trader[p].order)
                            \/ RecordBuy(p, synced, trader[p].order)

\* An order is recorded from a reply without its id.
Unnamed(p) ==
  \E synced \in BOOLEAN : RecordSell(p, synced, None) \/ RecordBuy(p, synced, None)

Next ==
  \/ \E p \in Traders : CycleStep(p) \/ Unnamed(p) \/ LoseReply(p) \/ Abort(p)
  \/ \E i \in DOMAIN orders : Execute(i) \/ Lapse(i)
  \/ \E s \in Symbols : OwnerSells(s) \/ Untrack(s) \/ Track(s)

Spec == Init /\ [][Next]_vars

\* The daemon runs cycle after cycle, and every request ends in an answer or an
\* error (the client has no timeout of its own).  Some step of a cycle is always
\* possible, so this is its weak fairness, in a form that needs no ENABLED.
FairSpec == Spec /\ \A p \in Traders : []<><<CycleStep(p)>>_vars

----------------------------------------------------------------------------
(* Properties *)

\* The tables, the memory of a cycle and the history have their types.
TypeOK ==
  /\ BrokerTypeOK
  /\ rows \in Seq(Row)
  /\ snap \in Seq(Order) /\ Len(snap) <= Len(orders)
  /\ known \in [Symbols -> Nat]
  /\ released \in SUBSET Symbols
  /\ trader \in [Traders -> [at : {"idle", "sync", "account", "load", "sell", "sold", "buy", "bought"},
                             since : [Symbols -> Nat], mem : Seq(Row), todo : SUBSET Nat,
                             acct : [cash : Int, equity : Int], row : Nat,
                             order : Nat, slots : Int, rem : Int, held : SUBSET Symbols,
                             cands : SUBSET Symbols, missed : BOOLEAN]]
  /\ faults \in 0..MaxFaults /\ user \in 0..MaxUser
  /\ moved \in [Traders -> SUBSET Symbols]
  /\ lost \in SUBSET Symbols /\ adrift \in SUBSET Symbols

Posts(p, to) == trader[p].at # to /\ trader'[p].at = to

Posted == orders'[Len(orders')]

\* Symbols the account has shares of, or a live buy for.
Exposed == {s \in Symbols : shares[s] >= 1 \/ Unfilled(orders, "buy", s) > 0}

\* Those whose buy has not come adrift: no crash, lost reply or reply without an
\* id kept it from being recorded, and no earlier sell was taken for its exit.
Accounted == Exposed \ adrift

\* README.md:61 and docs/CONFIGURATION.md:120 promise that stale rows never
\* sell shares that are not there.  What the code (the exit loop of
\* run_auto_account) does keep: a row that the cycle may send an exit for is
\* covered by shares that no other live sell order claims, when the provider's
\* snapshot of the cycle showed shares of it, nothing was sold at the broker
\* since, the symbol has one row, and no earlier exit went unrecorded or was
\* recorded without an id.
SellsAreCovered ==
  \A p \in Traders :
    LET r == trader[p].mem[Next1(p)]
    IN  trader[p].at = "sell" /\ trader[p].todo # {} /\ ~ExitActive(r.exit)
          => \/ Free(r.sym) >= r.shares
             \/ r.sym \in lost
             \/ r.sym \in moved[p]
             \/ r.sym \notin trader[p].held
             \/ Cardinality(OpenRows(trader[p].mem, r.sym)) > 1

\* No id, or that of an order of the symbol on that side.
IdOf(id, s, side) ==
  id # None => id \in DOMAIN orders /\ orders[id].sym = s /\ orders[id].side = side

\* The INSERT and the UPDATE of run_auto_account, with the rows that
\* reconciliation and recovery copy: whatever cycle, crash or command wrote a row
\* last, the buy and the exit it names, if any, are a buy and a sell of its own
\* symbol that the broker knows.
OrdersAreNamed ==
  \A i \in DOMAIN rows :
    IdOf(rows[i].order, rows[i].sym, "buy") /\ IdOf(rows[i].exit, rows[i].sym, "sell")

\* The tables and the memory of a cycle have their types, a row names only
\* orders of its own, and the exits that a cycle may send are covered.
TradesAreCovered == TypeOK /\ OrdersAreNamed /\ SellsAreCovered

\* The promise as it is written: an exit order is sent only for shares that the
\* provider's snapshot of the cycle reports (README.md:61, "so stale local rows
\* do not submit invalid short sells").
ExitsMatchSnapshot ==
  [][\A p \in Traders : Posts(p, "sold") => Posted.sym \in trader[p].held]_vars

\* The duplicate-buy guard of run_auto_account, over whole histories: no cycle
\* buys a symbol that the account holds or is buying, whatever was filled,
\* expired, sold by hand or untracked since the row was written.
NoDoubleBuy ==
  [][\A p \in Traders : Posts(p, "bought") => Posted.sym \notin Accounted]_vars

\* The guard as its comment states it (auto.rs:6913): no second buy of a symbol
\* with an open or pending position, also after an exit and a new entry.
NoSecondBuy ==
  [][\A p \in Traders : Posts(p, "bought") => Posted.sym \notin Exposed]_vars

\* max_positions: a buy is sent only while fewer symbols are held or being
\* bought, the ones that were untracked included.
PositionLimit ==
  [][\A p \in Traders : Posts(p, "bought") => Cardinality(Accounted) < MaxPositions]_vars

\* cash_only_guard: a buy is sent only if the cash covers it together with every
\* buy that is not filled yet, also one of an earlier cycle that no row knows.
\* Not in a cycle that missed the reply to a buy: it keeps counting that cash.
CashOnly ==
  [][\A p \in Traders : Posts(p, "bought") /\ ~trader[p].missed
       => cash - TotalUnfilled(orders, "buy") >= Posted.qty]_vars

\* A symbol with an open row, without shares and without a live buy.
Ghost(s) ==
  /\ OpenRows(rows, s) # {}
  /\ shares[s] < 1
  /\ Unfilled(orders, "buy", s) = 0

\* reconcile_open_positions_with_provider: a row whose buy came to nothing, or
\* whose shares were sold, does not stay open for good and block its slot (as the
\* comment in entry_order_is_unfilled_or_active says it once did).
RowsWithoutSharesGo == \A s \in Symbols : Ghost(s) ~> ~Ghost(s)

\* Shares the program bought or tracked, that were not released, and that no
\* open row watches.
Unwatched(s) ==
  /\ shares[s] >= 1
  /\ s \notin released
  /\ \E i \in DOMAIN rows : rows[i].sym = s
  /\ OpenRows(rows, s) = {}

\* recover_auto_positions_from_provider: such shares get a row again, so that
\* stop-loss, take-profit and the other exit rules see them (README.md:65).
SharesAreWatched == \A s \in Symbols : Unwatched(s) ~> ~Unwatched(s)

=============================================================================
