----------------------------- MODULE FeedUniverse -----------------------------
(* The symbols that feeds are collected for (src/main.rs): subscriptions that  *)
(* the owner adds and removes, those that the ML pipeline manages, and the     *)
(* price correlations of the subscribed symbols, which are computed again only *)
(* when the fingerprint of their last bars has changed.  Every statement is    *)
(* a transaction of its own, save the one that replaces the correlations.      *)
EXTENDS Naturals

CONSTANTS
  Companies,   \* symbols
  Correlators, \* places, 1 .. n, for the processes that compute correlations at once
  Unpriced,    \* a company without a bar has this as its last one
  MaxBar,      \* bound on the last bar of a company
  MaxChanges,  \* bound on the runs of the pipeline and the owner's commands
  MaxComputed  \* bound on the computations of correlations

ASSUME UniverseAssumption ==
  /\ {Unpriced, MaxBar, MaxChanges, MaxComputed} \cup Correlators \subseteq Nat
  /\ Unpriced = 0

VARIABLES
  subs,         \* company -> "none", "managed" or "manual": feed_subscriptions
  byOwner,      \* companies that the owner has added and not removed
  pipeline,     \* the reconciliation: where it stands, and what it has read
  command,      \* `feeds add` under way
  changes,      \* runs and commands so far
  lastBar,      \* company -> its last bar
  correlations, \* price_correlations and correlation_refresh_state
  correlator,   \* each computation: where it stands, and what it has read
  computed      \* computations so far

universeVars ==
  <<subs, byOwner, pipeline, command, changes, lastBar, correlations, correlator, computed>>

Subscribed == {c \in Companies : subs[c] # "none"}
Managed == {c \in Companies : subs[c] = "managed"}

NotRunning == [at |-> "rest", desired |-> {}, stale |-> {}]
NoCommand == [at |-> "rest", company |-> "none"]
NoBars == [c \in {} |-> Unpriced]
NoComputation == [at |-> "rest", print |-> NoBars, prices |-> NoBars]

UniverseInit ==
  /\ subs = [c \in Companies |-> "none"]
  /\ byOwner = {}
  /\ pipeline = NotRunning /\ command = NoCommand
  /\ changes = 0
  /\ lastBar = [c \in Companies |-> Unpriced]
  /\ correlations = [print |-> NoBars, prices |-> NoBars]
  /\ correlator = [p \in Correlators |-> NoComputation]
  /\ computed = 0

ByPrices == <<lastBar, correlations, correlator, computed>>
Changed == changes < MaxChanges /\ changes' = changes + 1

-----------------------------------------------------------------------------
(* sync_ml_feed_universe() and reconcile_managed_feed_subscriptions()       *)

\* The desired symbols: the lists, tables and settings may each fail or be switched off.
Collected == SUBSET Companies

\* Without any symbol nothing is changed.  The list of SEC's symbols is awaited before the managed ones are read.
CollectsUniverse ==
  /\ pipeline.at = "rest" /\ Changed
  /\ \E desired \in Collected :
       pipeline' = IF desired = {} THEN NotRunning
                   ELSE [at |-> "listing", desired |-> desired, stale |-> {}]
  /\ UNCHANGED <<subs, byOwner, command, ByPrices>>

ListsManaged ==
  /\ pipeline.at = "listing"
  /\ pipeline' = [pipeline EXCEPT !.at = "deleting", !.stale = Managed \ pipeline.desired]
  /\ UNCHANGED <<subs, byOwner, command, changes, ByPrices>>

\* Mutant of DeletesStale: the row is deleted whatever it has become.
DeletesStaleAnyRow(c) ==
  /\ pipeline.at = "deleting" /\ c \in pipeline.stale
  /\ subs' = [subs EXCEPT ![c] = "none"]
  /\ pipeline' = [pipeline EXCEPT !.stale = @ \ {c}]
  /\ UNCHANGED <<byOwner, command, changes, ByPrices>>

\* DELETE ... AND managed=1, of a symbol that was managed when the list was read.
DeletesStale(c) ==
  /\ pipeline.at = "deleting" /\ c \in pipeline.stale
  /\ subs' = [subs EXCEPT ![c] = IF @ = "managed" THEN "none" ELSE @]
  /\ pipeline' = [pipeline EXCEPT !.stale = @ \ {c}]
  /\ UNCHANGED <<byOwner, command, changes, ByPrices>>

\* INSERT ... ON CONFLICT DO UPDATE: a manual subscription stays one.
InsertsDesired(c) ==
  /\ pipeline.at = "deleting" /\ pipeline.stale = {} /\ c \in pipeline.desired
  /\ subs' = [subs EXCEPT ![c] = IF @ = "none" THEN "managed" ELSE @]
  /\ pipeline' = IF pipeline.desired = {c} THEN NotRunning
                 ELSE [pipeline EXCEPT !.desired = @ \ {c}]
  /\ UNCHANGED <<byOwner, command, changes, ByPrices>>

\* A statement fails or the pipeline is killed: what it has done stays.
PipelineBreaks ==
  /\ pipeline.at # "rest"
  /\ pipeline' = NotRunning
  /\ UNCHANGED <<subs, byOwner, command, changes, ByPrices>>

-----------------------------------------------------------------------------
(* cmd_feeds()                                                              *)

\* `feeds add` of a company that has a subscription, a managed one too, does nothing.
AddBegins(c) ==
  /\ command.at = "rest" /\ Changed
  /\ command' = IF subs[c] = "none" THEN [at |-> "lookingUp", company |-> c] ELSE NoCommand
  /\ UNCHANGED <<subs, byOwner, pipeline, ByPrices>>

\* The answer of SEC was awaited; a row that has come meanwhile is made a manual one.
AddInserts ==
  /\ command.at = "lookingUp"
  /\ subs' = [subs EXCEPT ![command.company] = "manual"]
  /\ byOwner' = byOwner \cup {command.company}
  /\ command' = NoCommand
  /\ UNCHANGED <<pipeline, changes, ByPrices>>

Removes(c) ==
  /\ subs[c] # "none" /\ Changed
  /\ subs' = [subs EXCEPT ![c] = "none"]
  /\ byOwner' = byOwner \ {c}
  /\ UNCHANGED <<pipeline, command, ByPrices>>

-----------------------------------------------------------------------------
(* compute_price_correlations_for_subscriptions()                           *)

ByRows == <<subs, byOwner, pipeline, command, changes>>

BarArrives(c) ==
  /\ lastBar[c] < MaxBar
  /\ lastBar' = [lastBar EXCEPT ![c] = @ + 1]
  /\ UNCHANGED <<ByRows, correlations, correlator, computed>>

LastBars(of) == [c \in of |-> lastBar[c]]

\* The symbols, and their last bars one after the other: the fingerprint.  A computation
\* takes the first free place: which one makes no difference.
TakesPrint(p) ==
  /\ correlator[p].at = "rest" /\ computed < MaxComputed
  /\ \A q \in Correlators : q < p => correlator[q].at # "rest"
  /\ computed' = computed + 1
  /\ correlator' = [correlator EXCEPT ![p] =
       [at |-> "printed", print |-> LastBars(Subscribed), prices |-> NoBars]]
  /\ UNCHANGED <<ByRows, lastBar, correlations>>

\* Nothing is computed if the fingerprint is the one that is stored.
SkipsSame(p) ==
  /\ correlator[p].at = "printed" /\ correlator[p].print = correlations.print
  /\ correlator' = [correlator EXCEPT ![p] = NoComputation]
  /\ UNCHANGED <<ByRows, lastBar, correlations, computed>>

\* `feeds correlations` computes in any case.
LoadsPrices(p, forced) ==
  /\ correlator[p].at = "printed"
  /\ forced \/ correlator[p].print # correlations.print
  /\ correlator' = [correlator EXCEPT ![p].at = "loaded",
                                      ![p].prices = LastBars(DOMAIN correlator[p].print)]
  /\ UNCHANGED <<ByRows, lastBar, correlations, computed>>

\* One transaction replaces the pairs, their relations and the fingerprint.
Replaces(p) ==
  /\ correlator[p].at = "loaded"
  /\ correlations' = [print |-> correlator[p].print, prices |-> correlator[p].prices]
  /\ correlator' = [correlator EXCEPT ![p] = NoComputation]
  /\ UNCHANGED <<ByRows, lastBar, computed>>

CorrelatorBreaks(p) ==
  /\ correlator[p].at # "rest"
  /\ correlator' = [correlator EXCEPT ![p] = NoComputation]
  /\ UNCHANGED <<ByRows, lastBar, correlations, computed>>

UniverseNext ==
  \/ CollectsUniverse \/ ListsManaged \/ PipelineBreaks \/ AddInserts
  \/ \E c \in Companies :
       DeletesStale(c) \/ InsertsDesired(c) \/ AddBegins(c) \/ Removes(c) \/ BarArrives(c)
  \/ \E p \in Correlators :
       \/ TakesPrint(p) \/ SkipsSame(p) \/ Replaces(p) \/ CorrelatorBreaks(p)
       \/ \E forced \in BOOLEAN : LoadsPrices(p, forced)

UniverseSpec == UniverseInit /\ [][UniverseNext]_universeVars

-----------------------------------------------------------------------------
UniverseTypeOK ==
  /\ subs \in [Companies -> {"none", "managed", "manual"}]
  /\ byOwner \subseteq Companies /\ pipeline.stale \subseteq Companies
  /\ lastBar \in [Companies -> Unpriced .. MaxBar]
  /\ DOMAIN correlations.prices = DOMAIN correlations.print

\* A subscription that `feeds add` has inserted stays until the owner removes it.
ManualIsKept == \A c \in byOwner : subs[c] = "manual"

\* Correlations are of bars at least as new as those of their fingerprint.
PrintIsNotAhead ==
  \A c \in DOMAIN correlations.print : correlations.print[c] <= correlations.prices[c]

\* What the owner has subscribed to is kept through reconciliations that read the table
\* before he changed it (docs/CONFIGURATION.md:565), and while the stored fingerprint
\* is that of the subscribed companies' last bars, so that computations are skipped,
\* the correlations are of those bars, however computations, new bars and changes of the
\* subscriptions overlap.  Bars that come behind the last one are not in the fingerprint.
UniverseIsTrue ==
  /\ ManualIsKept
  /\ PrintIsNotAhead
  /\ correlations.print = LastBars(Subscribed) => correlations.prices = LastBars(Subscribed)
=============================================================================
