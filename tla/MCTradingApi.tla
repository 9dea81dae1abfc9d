---------------------------- MODULE MCTradingApi ----------------------------
(* Small instances of the records that trading rests on and of the API      *)
(* servers.  They share no state and are checked in one run: `part` says    *)
(* which of them a behaviour is of.  Only that one steps, the others keep   *)
(* one initial state, so their state spaces add up.                         *)
EXTENDS ProviderSync, ExitConfirmation, WashSales, DayTrades, ShareMatching, TaxYear,
        ApiRequests, ApiServer, SslConnections

VARIABLE part

Parts == {"sync", "exit", "wash", "days", "matching", "tax", "api", "servers", "links"}

-----------------------------------------------------------------------------
(* Values of the constants that a configuration file cannot write.          *)
MCStop == -1
MCLevels == {-3, -1, 0, 2, 4}
\* Every exit rule on, two of its settings off, and all rules off.
AllOn == [stopOn |-> TRUE, stopCycles |-> 3, stopMinutes |-> 2, emergency |-> 3,
          takeOn |-> TRUE, takeCycles |-> 2, minHold |-> 1, trailing |-> TRUE, giveback |-> 2]
MCExitRules ==
  {AllOn,
   [AllOn EXCEPT !.stopMinutes = 0, !.trailing = FALSE, !.emergency = 0, !.takeCycles = 3],
   [AllOn EXCEPT !.stopOn = FALSE, !.takeOn = FALSE]}

\* A country whose law blocks replacement buys, and one whose law does not.
MCProfiles == {[blocks |-> TRUE, buffer |-> 0], [blocks |-> FALSE, buffer |-> 0]}

\* Months with exempt and taxable sales, gains and losses of either class.
MCBuckets ==
  {[sales |-> s, normal |-> n, dayTrades |-> d] : s \in {1, 2}, n \in -2..2, d \in {-1, 0, 2}}

\* Tables with an income under, in and over each bracket and threshold.
MCTables ==
  {[ordinary |-> <<[upper |-> 2, rate |-> 10], [upper |-> 5, rate |-> 20],
                   [upper |-> NoEnd, rate |-> 40]>>,
    gains |-> <<[upper |-> 3, rate |-> 0], [upper |-> NoEnd, rate |-> 15]>>,
    threshold |-> 4, investmentRate |-> 3, exempt |-> 2],
   [ordinary |-> <<[upper |-> NoEnd, rate |-> 20]>>,
    gains |-> <<[upper |-> 1, rate |-> 0], [upper |-> 4, rate |-> 15],
                [upper |-> NoEnd, rate |-> 20]>>,
    threshold |-> 0, investmentRate |-> 3, exempt |-> 0]}

\* The estimates of calculate_estimate agree with the tax of every single unit, for
\* every income up to 7 and every pair of net terms from -5 to 5.
ASSUME EstimatesAreByTheBracket ==
  \A table \in MCTables, income \in 0..7 : TaxIsByTheBracket(table, income, -5..5)

\* The Unix server is started on its own; all services are restarted, without the
\* daemon, which has its own files.
MCAsked ==
  LET Does(verb, kind) == [verb |-> verb, kind |-> kind]
  IN  {<<Does("start", "unix")>>,
       <<Does("stop", "ssl"), Does("stop", "unix"), Does("start", "unix"), Does("start", "ssl")>>}

\* One or two accept loops: one of either transport, or two that share a counter.
MCLoops == {loops \in SUBSET Loops : Cardinality(loops) <= 2}

-----------------------------------------------------------------------------
(* One part at a time.  A part with several initial states keeps one of     *)
(* them while another part steps.                                           *)
PartInit ==
  /\ part \in Parts
  /\ SyncInit /\ (part = "sync" \/ list = CHOOSE l \in Lists : TRUE)
  /\ ExitInit
  /\ WashInit /\ (part = "wash" \/ profile = CHOOSE p \in Profiles : TRUE)
  /\ DayInit
  /\ MatchingInit
  /\ TaxInit
  /\ ApiInit
  /\ ServerInit
  /\ LinkInit /\ (IF part = "links" THEN up \in MCLoops ELSE up = Loops)

KeepsSync == UNCHANGED syncVars
KeepsExit == UNCHANGED exitVars
KeepsWash == UNCHANGED washVars
KeepsDays == UNCHANGED dayVars
KeepsMatching == UNCHANGED trades
KeepsTax == UNCHANGED taxVars
KeepsApi == UNCHANGED apiVars
KeepsServers == UNCHANGED serverVars
KeepsLinks == UNCHANGED linkVars

PartNext ==
  /\ UNCHANGED part
  /\ IF part = "sync" THEN SyncNext ELSE KeepsSync
  /\ IF part = "exit" THEN ExitNext ELSE KeepsExit
  /\ IF part = "wash" THEN WashNext ELSE KeepsWash
  /\ IF part = "days" THEN DayNext ELSE KeepsDays
  /\ IF part = "matching" THEN Traded ELSE KeepsMatching
  /\ IF part = "tax" THEN TaxNext ELSE KeepsTax
  /\ IF part = "api" THEN ApiNext ELSE KeepsApi
  /\ IF part = "servers" THEN ServerNext ELSE KeepsServers
  /\ IF part = "links" THEN LinkNext ELSE KeepsLinks

allVars == <<part, syncVars, exitVars, washVars, dayVars, trades, taxVars, apiVars,
             serverVars, linkVars>>

Spec == PartInit /\ [][PartNext]_allVars

-----------------------------------------------------------------------------
\* Every component's state keeps its type: its records, histories, windows, counters and files
\* have the forms that the code's structures and tables give them.
TypesOK ==
  /\ part = "sync" => SyncTypeOK
  /\ part = "exit" => ExitTypeOK
  /\ part = "wash" => WashTypeOK
  /\ part = "days" => DayTypeOK
  /\ part = "matching" => MatchingTypeOK
  /\ part = "tax" => TaxTypeOK
  /\ part = "api" => ApiTypeOK
  /\ part = "servers" => ServerTypeOK
  /\ part = "links" => LinkTypeOK
=============================================================================
