---------------------------- MODULE ProviderSync ----------------------------
(***************************************************************************)
(* The local copy of a broker account's history, src/auto.rs:              *)
(* sync_provider_history_with_context, its two paged loops, the upserts    *)
(* and canonicalize_account_ref_for_broker.                                *)
(*                                                                         *)
(* The broker keeps two lists, of orders and of fills, that a sync reads   *)
(* one after the other in the same way: the model follows either one.  A   *)
(* record has the time its list is sorted by and whether it has ended; a   *)
(* fill has from the start.                                                *)
(* The local rows are keyed by the name the configuration gives the        *)
(* account, and carry the broker's own id of it when the sync knew it.     *)
(***************************************************************************)
EXTENDS Integers, FiniteSets, FiniteSetsExt, Sequences

CONSTANTS
  Day,        \* ticks of the clock that the cursor is set back
  Page,       \* page size of both lists
  MaxRecs,    \* bound on the records of a list
  MaxTime,    \* bound on the clock
  MaxRenames, \* bound on the renames of the account
  MaxFailed   \* bound on the calls that fail

ASSUME SyncAssumption ==
  /\ {Day, Page, MaxTime} \subseteq Nat \ {0}
  /\ {MaxRecs, MaxRenames, MaxFailed} \subseteq Nat

VARIABLES
  clock,
  list,    \* the list that is followed
  recs,    \* the broker's records of it, in the order of their times
  name,    \* the name the configuration gives the account: 0, 1, 2 ...
  rows,    \* provider_order_snapshots and provider_fill_activities
  sync,    \* the running sync: its step, name, cursor, and whether it knows the id
  failed,
  began    \* history: the records the broker had when the last sync began

syncVars == <<clock, list, recs, name, rows, sync, failed, began>>

Lists == {"orders", "fills"}
Row == [ref : Nat, key : Nat, done : BOOLEAN, id : BOOLEAN]
SyncSteps == {"idle", "account", "positions", "page", "ok"}

SyncInit ==
  /\ clock = 0
  /\ list \in Lists
  /\ recs = <<>>
  /\ name = 0
  /\ rows = {}
  /\ sync = [at |-> "idle", id |-> FALSE, ref |-> 0, after |-> 0]
  /\ failed = 0
  /\ began = recs

----------------------------------------------------------------------------
(* The broker and its owner *)

\* A tick is much longer than a sync.  A day order ends within a day of its
\* submission: the clock waits for it.
Passes ==
  /\ sync.at \in {"idle", "ok"}
  /\ clock < MaxTime
  /\ \A k \in DOMAIN recs : recs[k].done \/ recs[k].gtc \/ clock + 1 < recs[k].t + Day
  /\ clock' = clock + 1
  /\ UNCHANGED <<list, recs, name, rows, sync, failed, began>>

\* A new order, open until it is filled, cancelled or expired; or a fill.
Adds(gtc) ==
  /\ Len(recs) < MaxRecs
  /\ list = "fills" => ~gtc
  /\ recs' = Append(recs, [t |-> clock, gtc |-> gtc, done |-> list = "fills"])
  /\ UNCHANGED <<clock, list, name, rows, sync, failed, began>>

Ends(k) ==
  /\ k \in DOMAIN recs /\ ~recs[k].done
  /\ recs' = [recs EXCEPT ![k].done = TRUE]
  /\ UNCHANGED <<clock, list, name, rows, sync, failed, began>>

\* The account gets a new name in the configuration.
Renamed ==
  /\ name < MaxRenames
  /\ name' = name + 1
  /\ UNCHANGED <<clock, list, recs, rows, sync, failed, began>>

----------------------------------------------------------------------------
(* One sync *)

Known(ref) == {r \in rows : r.ref = ref}

\* Mutant of Cursor: the sync goes on where the last one ended.
CursorAtLatest(ref) ==
  IF Known(ref) = {} THEN -1 ELSE Max({recs[r.key].t : r \in Known(ref)})

\* sync_cursor_from_latest(): a day before the newest record of that name,
\* or the oldest history there is.
Cursor(ref) ==
  IF Known(ref) = {} THEN -1 ELSE Max({recs[r.key].t : r \in Known(ref)}) - Day

SyncBegins ==
  /\ sync.at \in {"idle", "ok"}
  /\ sync' = [sync EXCEPT !.at = "account", !.ref = name]
  /\ began' = recs
  /\ UNCHANGED <<clock, list, recs, name, rows, failed>>

\* canonicalize_account_ref_for_broker(): of the rows with the broker's id
\* under another name, those the current name has too are deleted, and the
\* others take the current name.
Moved(ref) ==
  LET old == {r \in rows : r.id /\ r.ref # ref}
      twin(r) == \E q \in rows : q.ref = ref /\ q.key = r.key
  IN  (rows \ old) \cup {[r EXCEPT !.ref = ref] : r \in {q \in old : ~twin(q)}}

\* Mutant of Moved: a row of the old name is not looked for under the new one.
MovedAll(ref) == {IF r.id THEN [r EXCEPT !.ref = ref] ELSE r : r \in rows}

\* The account call tells the broker's id; it may fail, and the sync goes on.
ReadAccount ==
  /\ sync.at = "account"
  /\ \/ /\ sync' = [sync EXCEPT !.at = "positions", !.id = TRUE]
        /\ rows' = Moved(sync.ref)
        /\ UNCHANGED failed
     \/ /\ failed < MaxFailed
        /\ failed' = failed + 1
        /\ sync' = [sync EXCEPT !.at = "positions", !.id = FALSE]
        /\ UNCHANGED rows
  /\ UNCHANGED <<clock, list, recs, name, began>>

\* The snapshot of the positions is replaced; the loop of the list begins.
ReadPositions ==
  /\ sync.at = "positions"
  /\ sync' = [sync EXCEPT !.at = "page", !.after = Cursor(sync.ref)]
  /\ UNCHANGED <<clock, list, recs, name, rows, failed, began>>

\* The keys of the page that begins after time t.
PageAfter(t) ==
  LET later == {k \in DOMAIN recs : recs[k].t > t}
  IN  {k \in later : Cardinality({j \in later : j < k}) < Page}

\* upsert_provider_order(), upsert_provider_fill()
Upserted(keys) ==
  {r \in rows : ~(r.ref = sync.ref /\ r.key \in keys)}
    \cup {[ref |-> sync.ref, key |-> k, done |-> recs[k].done, id |-> sync.id]
            : k \in keys}

\* Mutant of Upserted: a row that is there is left as it is.
UpsertedOnce(keys) ==
  LET there == {r.key : r \in Known(sync.ref)}
  IN  rows \cup {[ref |-> sync.ref, key |-> k, done |-> recs[k].done, id |-> sync.id]
                   : k \in keys \ there}

\* Mutant of NextPage: a list is read no further than its first page.
NextPageNever(keys, last) == FALSE

\* A full page whose last record is beyond the cursor is followed by another.
NextPage(keys, last) == Cardinality(keys) = Page /\ last > sync.after

ReadPage ==
  /\ sync.at = "page"
  /\ LET keys == PageAfter(sync.after)
         last == IF keys = {} THEN sync.after ELSE recs[Max(keys)].t
     IN  /\ rows' = Upserted(keys)
         /\ sync' = IF NextPage(keys, last) THEN [sync EXCEPT !.after = last]
                                            ELSE [sync EXCEPT !.at = "ok"]
  /\ UNCHANGED <<clock, list, recs, name, failed, began>>

\* Any other call that fails ends the sync; what was stored stays.
SyncFails ==
  /\ sync.at \in {"positions", "page"}
  /\ failed < MaxFailed
  /\ failed' = failed + 1
  /\ sync' = [sync EXCEPT !.at = "idle"]
  /\ UNCHANGED <<clock, list, recs, name, rows, began>>

SyncNext ==
  \/ Passes
  \/ \E gtc \in BOOLEAN : Adds(gtc)
  \/ \E k \in 1 .. MaxRecs : Ends(k)
  \/ Renamed
  \/ SyncBegins \/ ReadAccount \/ ReadPositions \/ ReadPage \/ SyncFails

SyncSpec == SyncInit /\ [][SyncNext]_syncVars

----------------------------------------------------------------------------
(* Properties *)

SyncTypeOK ==
  /\ clock \in 0 .. MaxTime
  /\ list \in Lists
  /\ recs \in Seq([t : Nat, gtc : BOOLEAN, done : BOOLEAN])
  /\ name \in 0 .. MaxRenames
  /\ rows \subseteq Row
  /\ sync \in [at : SyncSteps, id : BOOLEAN, ref : Nat, after : Int]
  /\ failed \in 0 .. MaxFailed

\* No two records have the same time.
TimesDiffer == \A i, j \in DOMAIN began : i # j => began[i].t # began[j].t

\* A sync that ended well has every record that the broker had when it began,
\* whatever earlier syncs were broken off in the middle of, and however often
\* the account was renamed - unless two records have the same time, which a
\* page may cut apart.
HistoryIsComplete ==
  sync.at = "ok" /\ TimesDiffer => DOMAIN began \subseteq {r.key : r \in rows}

\* What a sync that ended well says of a day order is at least as new as what
\* the broker said when the sync began: an order that had ended is not taken
\* for a live one, which rows of auto_positions would wait for.
EndsAreKnown ==
  sync.at = "ok" /\ TimesDiffer =>
    \A r \in Known(sync.ref) :
      r.key \in DOMAIN began /\ began[r.key].done /\ ~began[r.key].gtc => r.done

\* After a sync that knew the broker's id, no record that carries the id is
\* stored under two names: a rename doubles no order and no fill.
StoredOnce ==
  sync.at = "ok" /\ sync.id =>
    \A r, q \in rows :
      r.key = q.key /\ r.id /\ q.id => r = q

\* The stored history can be built on: whatever was broken off, failed or renamed
\* in between, a sync that ended well leaves every record, the last state of
\* each day order, and no record twice.
HistoryIsKept == HistoryIsComplete /\ EndsAreKnown /\ StoredOnce
=============================================================================
