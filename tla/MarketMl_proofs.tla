-------------------------- MODULE MarketMl_proofs --------------------------
(* Proofs about the market data and the ML pipeline, for any number of      *)
(* companies, articles, processes, bars and models.                         *)
EXTENDS MCMarketMl, DataLemmas, FiniteSetTheorems, TLAPS

-----------------------------------------------------------------------------
(* Subscriptions and correlations (FeedUniverse)                            *)

Run == [at : {"rest", "listing", "deleting"}, desired : SUBSET Companies, stale : SUBSET Companies]

SubscriptionsOK ==
  /\ subs \in [Companies -> {"none", "managed", "manual"}]
  /\ byOwner \subseteq Companies
  /\ pipeline \in Run
  /\ command.at = "lookingUp" => command.company \in Companies
  /\ ManualIsKept

\* Last bars of some companies.
SomeBars == UNION {[of -> Nat] : of \in SUBSET Companies}
Computation == [at : {"rest", "printed", "loaded"}, print : SomeBars, prices : SomeBars]

\* Bars that are read one after the other: none is ahead of the one read later.
Behind(print, prices) ==
  DOMAIN print = DOMAIN prices /\ \A x \in DOMAIN print : print[x] <= prices[x]

\* A computation's fingerprint is behind its prices, and both are behind the last bars;
\* so are those that are stored.
CorrelationsOK ==
  /\ lastBar \in [Companies -> Nat]
  /\ correlator \in [Correlators -> Computation]
  /\ \A p \in Correlators : LET c == correlator[p] IN
       /\ c.at # "rest" => \A x \in DOMAIN c.print : c.print[x] <= lastBar[x]
       /\ c.at = "loaded" => /\ Behind(c.print, c.prices)
                             /\ \A x \in DOMAIN c.prices : c.prices[x] <= lastBar[x]
  /\ correlations.print \in SomeBars /\ correlations.prices \in SomeBars
  /\ Behind(correlations.print, correlations.prices)
  /\ \A x \in DOMAIN correlations.prices : correlations.prices[x] <= lastBar[x]

UniverseInv == SubscriptionsOK /\ CorrelationsOK

\* The reconciliation deletes only rows that are still managed, and neither it nor `feeds
\* add` takes a manual subscription back.
LEMMA SubscriptionSteps ==
  ASSUME SubscriptionsOK, UniverseNext
  PROVE  SubscriptionsOK'
<1>0. /\ subs \in [Companies -> {"none", "managed", "manual"}]
      /\ byOwner \subseteq Companies /\ pipeline \in Run
      /\ \A c \in byOwner : subs[c] = "manual"
      /\ command.at = "lookingUp" => command.company \in Companies
  BY DEF SubscriptionsOK, ManualIsKept
<1> USE DEF SubscriptionsOK, ManualIsKept
<1>1. CASE CollectsUniverse
  BY <1>0, <1>1 DEF CollectsUniverse, Collected, Run, NotRunning
<1>2. CASE ListsManaged
  BY <1>0, <1>2 DEF ListsManaged, Run, Managed
<1>3. CASE PipelineBreaks
  BY <1>0, <1>3 DEF PipelineBreaks, Run, NotRunning
<1>4. CASE AddInserts
  BY <1>0, <1>4 DEF AddInserts, NoCommand
<1>5. ASSUME NEW c \in Companies, DeletesStale(c) PROVE SubscriptionsOK'
  BY <1>0, <1>5 DEF DeletesStale, Run
<1>6. ASSUME NEW c \in Companies, InsertsDesired(c) PROVE SubscriptionsOK'
  BY <1>0, <1>6 DEF InsertsDesired, Run, NotRunning
<1>7. ASSUME NEW c \in Companies, AddBegins(c) PROVE SubscriptionsOK'
  BY <1>0, <1>7 DEF AddBegins, NoCommand
<1>8. ASSUME NEW c \in Companies, Removes(c) PROVE SubscriptionsOK'
  BY <1>0, <1>8 DEF Removes
<1>9. UNCHANGED ByRows => SubscriptionsOK'
  BY <1>0 DEF ByRows
<1> QED BY <1>1, <1>2, <1>3, <1>4, <1>5, <1>6, <1>7, <1>8, <1>9
        DEF UniverseNext, BarArrives, TakesPrint, SkipsSame, LoadsPrices, Replaces, CorrelatorBreaks

\* Last bars only grow, and prices are read after their fingerprint.
LEMMA CorrelationSteps ==
  ASSUME CorrelationsOK, UniverseNext, subs \in [Companies -> {"none", "managed", "manual"}]
  PROVE  CorrelationsOK'
<1>0. /\ lastBar \in [Companies -> Nat] /\ correlator \in [Correlators -> Computation]
      /\ correlations.print \in SomeBars /\ correlations.prices \in SomeBars
  BY DEF CorrelationsOK
<1>1. NoComputation \in Computation /\ NoComputation.at = "rest" /\ NoBars \in SomeBars
  <2>1. NoBars \in [{} -> Nat]
    BY UniverseAssumption DEF NoBars
  <2> QED BY <2>1 DEF NoComputation, Computation, SomeBars
<1>2. \A of \in SUBSET Companies :
        LastBars(of) \in [of -> Nat] /\ \A x \in of : LastBars(of)[x] = lastBar[x]
  BY <1>0 DEF LastBars
<1>3. ASSUME NEW c \in Companies, BarArrives(c) PROVE CorrelationsOK'
  <2>1. lastBar' \in [Companies -> Nat] /\ \A x \in Companies : lastBar[x] <= lastBar'[x]
    BY <1>0, <1>3 DEF BarArrives
  <2>2. \A upTo \in SomeBars : (\A x \in DOMAIN upTo : upTo[x] <= lastBar[x])
                               => \A x \in DOMAIN upTo : upTo[x] <= lastBar'[x]
    BY <1>0, <2>1 DEF SomeBars
  <2>3. correlator' = correlator /\ correlations' = correlations
    BY <1>3 DEF BarArrives
  <2>4. \A p \in Correlators : correlator[p].print \in SomeBars /\ correlator[p].prices \in SomeBars
    BY <1>0 DEF Computation
  <2> QED BY <1>0, <2>1, <2>2, <2>3, <2>4 DEF CorrelationsOK
<1>4. ASSUME NEW p \in Correlators, NEW c \in Computation, UNCHANGED lastBar,
             correlator' = [correlator EXCEPT ![p] = c], UNCHANGED correlations,
             c.at # "rest" => \A x \in DOMAIN c.print : c.print[x] <= lastBar[x],
             c.at = "loaded" => /\ Behind(c.print, c.prices)
                                /\ \A x \in DOMAIN c.prices : c.prices[x] <= lastBar[x]
      PROVE  CorrelationsOK'
  BY <1>0, <1>4 DEF CorrelationsOK
<1>5. ASSUME NEW p \in Correlators, TakesPrint(p) PROVE CorrelationsOK'
  <2> DEFINE c == [at |-> "printed", print |-> LastBars(Subscribed), prices |-> NoBars]
  <2>1. Subscribed \in SUBSET Companies
    BY DEF Subscribed
  <2>2. LastBars(Subscribed) \in [Subscribed -> Nat] /\ \A x \in Subscribed : LastBars(Subscribed)[x] = lastBar[x]
    BY <1>2, <2>1
  <2>3. LastBars(Subscribed) \in SomeBars
    BY <2>1, <2>2 DEF SomeBars
  <2>4. c \in Computation /\ c.at = "printed" /\ \A x \in DOMAIN c.print : c.print[x] <= lastBar[x]
    BY <1>0, <1>1, <2>1, <2>2, <2>3 DEF Computation
  <2>5. correlator' = [correlator EXCEPT ![p] = c]
    BY <1>5 DEF TakesPrint
  <2> HIDE DEF c
  <2> QED BY <1>4, <1>5, <2>4, <2>5 DEF TakesPrint, ByRows
<1>6. ASSUME NEW p \in Correlators, SkipsSame(p) PROVE CorrelationsOK'
  BY <1>1, <1>4, <1>6 DEF SkipsSame
<1>7. ASSUME NEW p \in Correlators, NEW forced \in BOOLEAN, LoadsPrices(p, forced) PROVE CorrelationsOK'
  <2> DEFINE old == correlator[p]
             of == DOMAIN old.print
             c == [at |-> "loaded", print |-> old.print, prices |-> LastBars(of)]
  <2>1. old \in Computation /\ old.at = "printed" /\ \A x \in of : old.print[x] <= lastBar[x]
    BY <1>0, <1>7 DEF LoadsPrices, CorrelationsOK
  <2>2. of \in SUBSET Companies /\ old.print \in [of -> Nat]
    BY <2>1 DEF Computation, SomeBars
  <2>3. correlator' = [correlator EXCEPT ![p] = c]
    <3> DEFINE prices == LastBars(DOMAIN correlator[p].print)
    <3>1. correlator' = [correlator EXCEPT ![p].at = "loaded", ![p].prices = prices]
      BY <1>7 DEF LoadsPrices
    <3> HIDE DEF prices
    <3>2. /\ correlator' \in [Correlators -> {correlator'[q] : q \in Correlators}]
          /\ \A q \in Correlators \ {p} : correlator'[q] = correlator[q]
          /\ correlator'[p] = [at |-> "loaded", print |-> correlator[p].print, prices |-> prices]
      BY <1>0, <3>1 DEF Computation
    <3> QED BY <1>0, <3>2 DEF prices
  <2> HIDE DEF old
  <2>4. LastBars(of) \in [of -> Nat] /\ \A x \in of : LastBars(of)[x] = lastBar[x]
    BY <1>2, <2>2
  <2> HIDE DEF of
  <2>5. LastBars(of) \in SomeBars /\ old.print \in SomeBars
    BY <2>2, <2>4 DEF SomeBars
  <2>6. /\ c \in Computation /\ c.at = "loaded" /\ Behind(c.print, c.prices)
        /\ \A x \in DOMAIN c.print : c.print[x] <= lastBar[x]
        /\ \A x \in DOMAIN c.prices : c.prices[x] <= lastBar[x]
    BY <1>0, <2>1, <2>2, <2>4, <2>5 DEF Computation, Behind
  <2> HIDE DEF c
  <2> QED BY <1>4, <1>7, <2>3, <2>6 DEF LoadsPrices
<1>8. ASSUME NEW p \in Correlators, Replaces(p) PROVE CorrelationsOK'
  <2>1. correlator' = [correlator EXCEPT ![p] = NoComputation] /\ UNCHANGED lastBar
    BY <1>8 DEF Replaces
  <2>2. /\ correlations'.print = correlator[p].print /\ correlations'.prices = correlator[p].prices
        /\ correlator[p].at = "loaded"
    BY <1>8 DEF Replaces
  <2>3. correlator[p] \in Computation
    BY <1>0
  <2> QED BY <1>0, <1>1, <2>1, <2>2, <2>3 DEF CorrelationsOK, Computation
<1>9. ASSUME NEW p \in Correlators, CorrelatorBreaks(p) PROVE CorrelationsOK'
  BY <1>1, <1>4, <1>9 DEF CorrelatorBreaks
<1>10. UNCHANGED ByPrices => CorrelationsOK'
  BY DEF ByPrices, CorrelationsOK
<1> QED BY <1>3, <1>5, <1>6, <1>7, <1>8, <1>9, <1>10
        DEF UniverseNext, CollectsUniverse, ListsManaged, PipelineBreaks, AddInserts, DeletesStale,
            InsertsDesired, AddBegins, Removes

\* UniverseInv holds through owners' commands and reconciliations.
LEMMA UniverseKept == UniverseSpec => []UniverseInv
<1>1. UniverseInit => UniverseInv
  <2>1. NoBars \in [{} -> Nat] /\ DOMAIN NoBars = {}
    BY UniverseAssumption DEF NoBars
  <2>2. NoBars \in SomeBars
    BY <2>1 DEF SomeBars
  <2>3. NoComputation \in Computation /\ NoComputation.at = "rest"
    BY <2>2 DEF NoComputation, Computation
  <2>4. UniverseInit => SubscriptionsOK
    BY DEF UniverseInit, SubscriptionsOK, ManualIsKept, NotRunning, Run, NoCommand
  <2>5. UniverseInit => CorrelationsOK
    BY UniverseAssumption, <2>1, <2>2, <2>3 DEF UniverseInit, CorrelationsOK, Behind
  <2> QED BY <2>4, <2>5 DEF UniverseInv
<1>2. UniverseInv /\ UNCHANGED universeVars => UniverseInv'
  BY DEF UniverseInv, SubscriptionsOK, CorrelationsOK, ManualIsKept, universeVars
<1>3. UniverseInv /\ [UniverseNext]_universeVars => UniverseInv'
  BY <1>2, SubscriptionSteps, CorrelationSteps DEF UniverseInv, SubscriptionsOK
<1> QED BY <1>1, <1>3, PTL DEF UniverseSpec

\* What the owner has subscribed to is kept through reconciliations that read the table
\* before he changed it, and while the stored fingerprint is that of the subscribed
\* companies' last bars the correlations are of those bars (main.rs,
\* reconcile_managed_feed_subscriptions, compute_price_correlations_for_subscriptions).
THEOREM UniverseStaysTrue == UniverseSpec => []UniverseIsTrue
<1>1. ASSUME UniverseInv, correlations.print = LastBars(Subscribed)
      PROVE  correlations.prices = LastBars(Subscribed)
  <2> DEFINE of == Subscribed
             prices == correlations.prices
  <2>1. /\ of \subseteq Companies /\ DOMAIN correlations.print = of
        /\ \A x \in of : correlations.print[x] = lastBar[x]
    BY <1>1 DEF Subscribed, LastBars
  <2>2. /\ prices \in SomeBars /\ DOMAIN prices = of
        /\ \A x \in of : lastBar[x] <= prices[x] /\ prices[x] <= lastBar[x] /\ lastBar[x] \in Nat
    BY <1>1, <2>1 DEF UniverseInv, CorrelationsOK, Behind
  <2> HIDE DEF of, prices
  <2>3. prices \in [of -> Nat]
    BY <2>2 DEF SomeBars
  <2>4. \A x \in of : prices[x] = lastBar[x]
    BY <2>2, <2>3
  <2>5. prices = [x \in of |-> lastBar[x]]
    BY <2>3, <2>4
  <2> QED BY <2>5 DEF LastBars, of, prices
<1>2. UniverseInv => ManualIsKept /\ PrintIsNotAhead
  BY DEF UniverseInv, SubscriptionsOK, CorrelationsOK, Behind, PrintIsNotAhead
<1>3. UniverseInv => UniverseIsTrue
  BY <1>1, <1>2 DEF UniverseIsTrue
<1> QED BY <1>3, UniverseKept, PTL

-----------------------------------------------------------------------------
(* Articles and the strengths of pairs (FeedArticles)                       *)

Tried == UNION {[of -> Nat] : of \in SUBSET (1 .. Subscribers)}
Syncer == [at : {"rest", "wave", "counting"}, source : Nat, next : Nat \ {0}, width : 1 .. MaxWidth,
           clean : Nat, tasks : Tried, dirty : BOOLEAN, pairs : SUBSET MentionPairs]

Pending(pair) == {f \in Syncers : pair \in syncer[f].pairs}
Holding(pair) == {u \in Urls : pair \in CountedPairs(articles[u])}

FeedInv ==
  /\ articles \in [Urls -> Mentions \cup {{}}]
  /\ {strength, missed} \subseteq [MentionPairs -> Nat]
  /\ syncer \in [Syncers -> Syncer]
  /\ \A f \in Syncers : syncer[f].at # "counting" => syncer[f].pairs = {}
  /\ ArticlesCountOnce

\* The property in terms of the two sets, which are finite.
LEMMA Sums ==
  /\ ArticlesCountOnce <=>
       \A pair \in MentionPairs :
         strength[pair] + missed[pair] + Cardinality(Pending(pair)) = Cardinality(Holding(pair))
  /\ ArticlesCountOnce' <=>
       \A pair \in MentionPairs :
         strength'[pair] + missed'[pair] + Cardinality(Pending(pair)') = Cardinality(Holding(pair)')
  /\ \A pair : /\ IsFiniteSet(Pending(pair)) /\ Cardinality(Pending(pair)) \in Nat
               /\ IsFiniteSet(Holding(pair)) /\ Cardinality(Holding(pair)) \in Nat
<1>1. /\ ArticlesCountOnce <=>
           \A pair \in MentionPairs :
             strength[pair] + missed[pair] + Cardinality(Pending(pair)) = Cardinality(Holding(pair))
      /\ ArticlesCountOnce' <=>
           \A pair \in MentionPairs :
             strength'[pair] + missed'[pair] + Cardinality(Pending(pair)') = Cardinality(Holding(pair)')
  BY DEF ArticlesCountOnce, Mentioning, Pending, Holding
<1>2. \A pair : Pending(pair) \in SUBSET Syncers /\ Holding(pair) \in SUBSET Urls
  BY DEF Pending, Holding
<1> QED BY <1>1, <1>2, ArticlesAssumption, FS_Subset, FS_CardinalityType

\* The pairs of a mention are pairs of symbols; an article that is not stored has none.
LEMMA PairsAreMentioned ==
  /\ \A m \in Mentions : CountedPairs(m) \subseteq MentionPairs
  /\ CountedPairs({}) = {}
<1>1. \A m \in Mentions : kSubset(2, m) \subseteq kSubset(2, UNION Mentions)
  BY DEF kSubset
<1>2. kSubset(2, {}) = {}
  BY FS_EmptySet DEF kSubset
<1> QED BY <1>1, <1>2 DEF CountedPairs, MentionPairs, PairsOf

\* One process more or less that has a pair still to count.
LEMMA OnePending ==
  ASSUME syncer \in [Syncers -> Syncer], NEW f \in Syncers, NEW s \in Syncer,
         syncer' = [syncer EXCEPT ![f] = s], NEW pair \in MentionPairs
  PROVE  Cardinality(Pending(pair)') =
           Cardinality(Pending(pair)) + (IF pair \in s.pairs THEN 1 ELSE 0)
                                      - (IF pair \in syncer[f].pairs THEN 1 ELSE 0)
<1>1. Pending(pair)' = IF pair \in s.pairs THEN Pending(pair) \cup {f} ELSE Pending(pair) \ {f}
  <2>1. \A g \in Syncers : syncer'[g] = IF g = f THEN s ELSE syncer[g]
    OBVIOUS
  <2> QED BY <2>1 DEF Pending
<1>2. f \in Pending(pair) <=> pair \in syncer[f].pairs
  BY DEF Pending
<1>3. IsFiniteSet(Pending(pair)) /\ Cardinality(Pending(pair)) \in Nat
  BY Sums
<1> DEFINE before == Pending(pair)
<1>4. IsFiniteSet(before) /\ Cardinality(before) \in Nat /\ (f \in before <=> pair \in syncer[f].pairs)
  BY <1>2, <1>3
<1>5. Pending(pair)' = IF pair \in s.pairs THEN before \cup {f} ELSE before \ {f}
  BY <1>1
<1> HIDE DEF before
<1>6. /\ Cardinality(before \cup {f}) = IF f \in before THEN Cardinality(before) ELSE Cardinality(before) + 1
      /\ Cardinality(before \ {f}) = IF f \in before THEN Cardinality(before) - 1 ELSE Cardinality(before)
  BY <1>4, FS_AddElement, FS_RemoveElement
<1>7. Cardinality(Pending(pair)') = IF pair \in s.pairs THEN Cardinality(before \cup {f})
                                    ELSE Cardinality(before \ {f})
  BY <1>5
<1>8. Cardinality(Pending(pair)') = Cardinality(before) + (IF pair \in s.pairs THEN 1 ELSE 0)
                                      - (IF pair \in syncer[f].pairs THEN 1 ELSE 0)
  BY <1>4, <1>6, <1>7
<1> QED BY <1>8 DEF before

\* A step of a process that counts no pair and stores no article.
LEMMA SyncerGoes ==
  ASSUME FeedInv, NEW f \in Syncers, NEW s \in Syncer, syncer' = [syncer EXCEPT ![f] = s],
         s.pairs = syncer[f].pairs, s.at # "counting" => s.pairs = {},
         UNCHANGED <<articles, strength, missed>>
  PROVE  FeedInv'
<1>1. syncer \in [Syncers -> Syncer]
  BY DEF FeedInv
<1>2. syncer' \in [Syncers -> Syncer] /\ \A g \in Syncers : syncer'[g].at # "counting" => syncer'[g].pairs = {}
  BY <1>1 DEF FeedInv
<1>3. \A pair \in MentionPairs : Cardinality(Pending(pair)') = Cardinality(Pending(pair))
  <2> TAKE pair \in MentionPairs
  <2>1. Cardinality(Pending(pair)) \in Nat
    BY Sums
  <2>2. Cardinality(Pending(pair)') =
           Cardinality(Pending(pair)) + (IF pair \in s.pairs THEN 1 ELSE 0)
                                      - (IF pair \in syncer[f].pairs THEN 1 ELSE 0)
    BY <1>1, OnePending
  <2> QED BY <2>1, <2>2
<1>4. \A pair : Holding(pair)' = Holding(pair)
  BY DEF Holding
<1>5. ArticlesCountOnce'
  BY <1>3, <1>4, Sums DEF FeedInv
<1> QED BY <1>2, <1>5 DEF FeedInv

\* The forms a process takes at rest and at the beginning of a wave.
LEMMA SyncerForms ==
  /\ NotSyncing \in Syncer /\ [NotSyncing EXCEPT !.source = Sources] \in Syncer
  /\ NotSyncing.pairs = {} /\ [NotSyncing EXCEPT !.source = Sources].pairs = {}
<1> PICK no \in BOOLEAN : no = FALSE
  OBVIOUS
<1>1. [s \in {} |-> 0] \in Tried
  <2>1. [s \in {} |-> 0] \in [{} -> Nat]
    OBVIOUS
  <2> QED BY <2>1 DEF Tried
<1>3. NotSyncing = [at |-> "rest", source |-> 0, next |-> 1, width |-> MaxWidth, clean |-> 0,
                    tasks |-> [s \in {} |-> 0], dirty |-> no, pairs |-> {}]
  BY Zenon DEF NotSyncing
<1>5. NotSyncing \in Syncer /\ NotSyncing.pairs = {}
  BY <1>1, <1>3, ArticlesAssumption DEF Syncer
<1>6. [NotSyncing EXCEPT !.source = Sources] \in Syncer /\ [NotSyncing EXCEPT !.source = Sources].pairs = {}
  BY <1>5, ArticlesAssumption DEF Syncer
<1> QED BY <1>5, <1>6

\* A wave begins in such a form too.
LEMMA WaveForm ==
  ASSUME NEW source \in Nat, NEW next \in Nat \ {0}, NEW width \in 1 .. MaxWidth, NEW clean \in Nat
  PROVE  WaveFrom(source, next, width, clean) \in Syncer /\ WaveFrom(source, next, width, clean).pairs = {}
<1> PICK no \in BOOLEAN : no = FALSE
  OBVIOUS
<1>0. NotSyncing = [at |-> "rest", source |-> 0, next |-> 1, width |-> MaxWidth, clean |-> 0,
                    tasks |-> [s \in {} |-> 0], dirty |-> no, pairs |-> {}]
  BY Zenon DEF NotSyncing
<1> DEFINE end == Min({next + width, Subscribers + 1})
<1>1. end \in Nat \ {0} /\ end <= Subscribers + 1
  <2>1. \E x \in {next + width, Subscribers + 1} : \A y \in {next + width, Subscribers + 1} : x <= y
    BY ArticlesAssumption
  <2> QED BY <2>1, ArticlesAssumption DEF Min
<1>2. WaveFrom(source, next, width, clean) =
        [at |-> "wave", source |-> source, next |-> end, width |-> width, clean |-> clean,
         tasks |-> [s \in next .. end - 1 |-> 0], dirty |-> no, pairs |-> {}]
  <2> DEFINE tasks == [s \in next .. end - 1 |-> 0]
  <2>1. WaveFrom(source, next, width, clean) =
          [NotSyncing EXCEPT !.at = "wave", !.source = source, !.next = end, !.width = width,
                             !.clean = clean, !.tasks = tasks]
    BY DEF WaveFrom
  <2> HIDE DEF tasks, end
  <2>2. WaveFrom(source, next, width, clean) =
          [at |-> "wave", source |-> source, next |-> end, width |-> width, clean |-> clean,
           tasks |-> tasks, dirty |-> no, pairs |-> {}]
    BY <1>0, <2>1
  <2> QED BY <2>2 DEF tasks
<1> HIDE DEF end
<1>3. [s \in next .. end - 1 |-> 0] \in Tried
  <2>1. next .. end - 1 \in SUBSET (1 .. Subscribers)
    BY <1>1, ArticlesAssumption
  <2>2. [s \in next .. end - 1 |-> 0] \in [next .. end - 1 -> Nat]
    OBVIOUS
  <2> QED BY <2>1, <2>2 DEF Tried
<1> DEFINE tasks == [s \in next .. end - 1 |-> 0]
<1>4. tasks \in Tried /\ WaveFrom(source, next, width, clean) =
        [at |-> "wave", source |-> source, next |-> end, width |-> width, clean |-> clean,
         tasks |-> tasks, dirty |-> no, pairs |-> {}]
  BY <1>2, <1>3
<1> HIDE DEF tasks
<1> QED BY <1>1, <1>4, ArticlesAssumption DEF Syncer

\* A source's width stays within the configured one, and above zero.
LEMMA TunedInRange ==
  ASSUME NEW s \in Syncer
  PROVE  Tuned(s)[1] \in 1 .. MaxWidth /\ Tuned(s)[2] \in Nat
<1> DEFINE down == Max({s.width - 1, 1})
<1>1. s.width \in 1 .. MaxWidth /\ s.clean \in Nat
  BY DEF Syncer
<1>2. down \in 1 .. MaxWidth
  <2>1. \E x \in {s.width - 1, 1} : \A y \in {s.width - 1, 1} : x >= y
    BY <1>1, ArticlesAssumption
  <2> QED BY <1>1, <2>1, ArticlesAssumption DEF Max
<1>3. \/ Tuned(s) = <<down, 0>>
      \/ Tuned(s) = <<s.width + 1, 0>> /\ s.width < MaxWidth
      \/ Tuned(s) = <<s.width, s.clean + 1>>
  BY Zenon DEF Tuned
<1> HIDE DEF down
<1> QED BY <1>1, <1>2, <1>3, ArticlesAssumption

\* A task that ends or is tried again.
LEMMA TasksTried ==
  ASSUME NEW tasks \in Tried, NEW s
  PROVE  Without(tasks, s) \in Tried /\ Retried(tasks, s) \in Tried
<1>1. PICK of \in SUBSET (1 .. Subscribers) : tasks \in [of -> Nat]
  BY DEF Tried
<1>2. Without(tasks, s) \in [of \ {s} -> Nat]
  BY <1>1 DEF Without
<1>3. [tasks EXCEPT ![s] = @ + 1] \in [of -> Nat]
  <2>1. s \in of => tasks[s] + 1 \in Nat
    BY <1>1
  <2> DEFINE more == tasks[s] + 1
  <2>2. [tasks EXCEPT ![s] = more] \in [of -> Nat]
    <3> HIDE DEF more
    <3>1. s \in of => more \in Nat
      BY <2>1 DEF more
    <3> QED BY <1>1, <3>1
  <2> QED BY <2>2
<1> QED BY <1>1, <1>2, <1>3 DEF Tried, Retried

\* The steps of waves and their tasks, which store and count nothing.
LEMMA WavesKeep ==
  ASSUME FeedInv, NEW f \in Syncers,
         \/ SyncStarts(f) \/ WaveEnds(f) \/ AllCounted(f)
         \/ \E s \in 1 .. Subscribers : TaskEnds(f, s) \/ AttemptTimesOut(f, s) \/ AttemptFails(f, s)
  PROVE  FeedInv'
<1> DEFINE old == syncer[f]
<1>0. old \in Syncer /\ syncer \in [Syncers -> Syncer] /\ (old.at # "counting" => old.pairs = {})
  BY DEF FeedInv
<1>1. CASE SyncStarts(f)
  <2> DEFINE new == WaveFrom(1, 1, MaxWidth, 0)
  <2>1. new \in Syncer /\ new.pairs = {}
    <3>1. 1 \in Nat \ {0} /\ 1 \in Nat /\ MaxWidth \in 1 .. MaxWidth /\ 0 \in Nat
      BY ArticlesAssumption
    <3> QED BY <3>1, WaveForm
  <2>2. syncer' = [syncer EXCEPT ![f] = new] /\ old.at = "rest" /\ UNCHANGED <<articles, strength, missed>>
    BY <1>1 DEF SyncStarts
  <2> HIDE DEF new, old
  <2> QED BY <1>0, <2>1, <2>2, SyncerGoes DEF old
<1>2. CASE WaveEnds(f)
  <2> DEFINE tuned == Tuned(old)
             new == IF old.next <= Subscribers THEN WaveFrom(old.source, old.next, tuned[1], tuned[2])
                    ELSE IF old.source < Sources THEN WaveFrom(old.source + 1, 1, MaxWidth, 0)
                    ELSE [NotSyncing EXCEPT !.source = Sources]
  <2>1. syncer' = [syncer EXCEPT ![f] = new] /\ old.at = "wave" /\ UNCHANGED <<articles, strength, missed>>
    BY <1>2 DEF WaveEnds
  <2>2. tuned[1] \in 1 .. MaxWidth /\ tuned[2] \in Nat
    BY <1>0, TunedInRange
  <2> HIDE DEF tuned
  <2>3. old.next \in Nat \ {0} /\ old.source \in Nat
    BY <1>0 DEF Syncer
  <2> HIDE DEF old
  <2>4. new \in Syncer /\ new.pairs = {}
    <3>1. LET w == WaveFrom(old.source, old.next, tuned[1], tuned[2]) IN w \in Syncer /\ w.pairs = {}
      BY <2>2, <2>3, WaveForm
    <3>2. LET w == WaveFrom(old.source + 1, 1, MaxWidth, 0) IN w \in Syncer /\ w.pairs = {}
      <4>1. old.source + 1 \in Nat /\ 1 \in Nat \ {0} /\ MaxWidth \in 1 .. MaxWidth /\ 0 \in Nat
        BY <2>3, ArticlesAssumption
      <4> QED BY <4>1, WaveForm, Zenon
    <3>3. new \in {WaveFrom(old.source, old.next, tuned[1], tuned[2]),
                   WaveFrom(old.source + 1, 1, MaxWidth, 0), [NotSyncing EXCEPT !.source = Sources]}
      BY Zenon
    <3> HIDE DEF new
    <3> QED BY <3>1, <3>2, <3>3, SyncerForms, Zenon
  <2> HIDE DEF new
  <2> QED BY <1>0, <2>1, <2>4, SyncerGoes DEF old
<1>3. CASE AllCounted(f)
  <2> DEFINE new == [old EXCEPT !.at = "wave"]
  <2>1. new \in Syncer /\ new.pairs = old.pairs /\ old.pairs = {}
    BY <1>0, <1>3 DEF Syncer, AllCounted
  <2>2. syncer' = [syncer EXCEPT ![f] = new] /\ UNCHANGED <<articles, strength, missed>>
    BY <1>3 DEF AllCounted
  <2> HIDE DEF new, old
  <2> QED BY <1>0, <2>1, <2>2, SyncerGoes DEF old
<1>4. ASSUME NEW s \in 1 .. Subscribers, TaskEnds(f, s) PROVE FeedInv'
  <2> DEFINE tasks == Without(old.tasks, s)
             new == [old EXCEPT !.tasks = tasks]
  <2>1. syncer' = [syncer EXCEPT ![f] = new] /\ old.at = "wave" /\ UNCHANGED <<articles, strength, missed>>
    BY <1>4 DEF TaskEnds
  <2>2. tasks \in Tried
    BY <1>0, TasksTried DEF Syncer
  <2> HIDE DEF tasks, old
  <2>3. new \in Syncer /\ new.pairs = old.pairs /\ new.at = old.at
    BY <1>0, <2>2 DEF Syncer
  <2> HIDE DEF new
  <2> QED BY <1>0, <2>1, <2>3, SyncerGoes DEF old
<1>5. ASSUME NEW s \in 1 .. Subscribers, AttemptTimesOut(f, s) \/ AttemptFails(f, s) PROVE FeedInv'
  <2> PICK dirty \in BOOLEAN : AttemptEnds(f, s, dirty)
    BY <1>5 DEF AttemptTimesOut, AttemptFails
  <2> PICK yes \in BOOLEAN : yes = (old.dirty \/ dirty)
    OBVIOUS
  <2> DEFINE tasks == Retried(old.tasks, s)
             new == [[old EXCEPT !.dirty = yes] EXCEPT !.tasks = tasks]
  <2>1. syncer' = [syncer EXCEPT ![f] = new] /\ old.at = "wave" /\ UNCHANGED <<articles, strength, missed>>
    <3>1. syncer' = [syncer EXCEPT ![f].dirty = yes, ![f].tasks = tasks]
      BY DEF AttemptEnds
    <3> HIDE DEF tasks
    <3>2. syncer' = [syncer EXCEPT ![f] = new]
      BY <1>0, <3>1
    <3> QED BY <3>2 DEF AttemptEnds
  <2>2. tasks \in Tried
    BY <1>0, TasksTried DEF Syncer
  <2> HIDE DEF tasks, old
  <2>3. new \in Syncer /\ new.pairs = old.pairs /\ new.at = old.at
    BY <1>0, <2>2 DEF Syncer
  <2> HIDE DEF new
  <2> QED BY <1>0, <2>1, <2>3, SyncerGoes DEF old
<1> QED BY <1>1, <1>2, <1>3, <1>4, <1>5

\* An article that is new counts for the pairs it mentions, and those are to be counted.
LEMMA StoresKeep ==
  ASSUME FeedInv, NEW f \in Syncers, NEW url \in Urls, NEW symbols \in Mentions,
         Stores(f, url, symbols)
  PROVE  FeedInv'
<1> DEFINE old == syncer[f]
           pairs == CountedPairs(symbols)
           new == IF articles[url] # {} THEN old ELSE [[old EXCEPT !.at = "counting"] EXCEPT !.pairs = pairs]
<1>0. /\ old \in Syncer /\ syncer \in [Syncers -> Syncer]
      /\ articles \in [Urls -> Mentions \cup {{}}] /\ pairs \subseteq MentionPairs
  BY PairsAreMentioned DEF FeedInv
<1>1. /\ old.at = "wave" /\ old.pairs = {}
      /\ articles' = [articles EXCEPT ![url] = IF articles[url] = {} THEN symbols ELSE articles[url]]
      /\ UNCHANGED <<strength, missed>>
  BY DEF Stores, FeedInv
<1>2. articles' \in [Urls -> Mentions \cup {{}}]
  BY <1>0, <1>1
<1>3. CASE articles[url] # {}
  <2>1. articles' = articles /\ syncer' = syncer
    BY <1>0, <1>1, <1>3 DEF Stores
  <2> QED BY <1>1, <2>1, Sums DEF FeedInv, Pending, Holding
<1>4. CASE articles[url] = {}
  <2> DEFINE counting == [[old EXCEPT !.at = "counting"] EXCEPT !.pairs = pairs]
  <2>1. syncer' = [syncer EXCEPT ![f] = counting]
    <3>1. syncer' = [syncer EXCEPT ![f].at = "counting", ![f].pairs = pairs]
      BY <1>4 DEF Stores
    <3> HIDE DEF pairs
    <3> QED BY <1>0, <3>1
  <2> HIDE DEF pairs, old
  <2>2. counting \in Syncer /\ counting.pairs = pairs /\ counting.at = "counting"
    BY <1>0 DEF Syncer
  <2> HIDE DEF counting
  <2>3. ASSUME NEW pair \in MentionPairs
        PROVE  \E more \in {0, 1} :
                 /\ Cardinality(Pending(pair)') = Cardinality(Pending(pair)) + more
                 /\ Cardinality(Holding(pair)') = Cardinality(Holding(pair)) + more
    <3>1. Cardinality(Pending(pair)') = Cardinality(Pending(pair)) + (IF pair \in pairs THEN 1 ELSE 0)
      <4>1. Cardinality(Pending(pair)') = Cardinality(Pending(pair)) + (IF pair \in counting.pairs THEN 1 ELSE 0)
                                            - (IF pair \in syncer[f].pairs THEN 1 ELSE 0)
        BY <1>0, <2>1, <2>2, OnePending
      <4>2. pair \notin syncer[f].pairs
        BY <1>1 DEF old
      <4>3. Cardinality(Pending(pair)) \in Nat
        BY Sums
      <4> QED BY <2>2, <4>1, <4>2, <4>3
    <3>2. Holding(pair)' = IF pair \in pairs THEN Holding(pair) \cup {url} ELSE Holding(pair)
      <4>1. articles'[url] = symbols /\ \A u \in Urls \ {url} : articles'[u] = articles[u]
        BY <1>0, <1>1, <1>4
      <4>2. pair \notin CountedPairs(articles[url])
        BY <1>4, PairsAreMentioned
      <4> QED BY <4>1, <4>2 DEF Holding, pairs
    <3>3. url \notin Holding(pair)
      BY <1>4, PairsAreMentioned DEF Holding
    <3> DEFINE before == Holding(pair)
    <3>4. IsFiniteSet(before) /\ Cardinality(before) \in Nat /\ url \notin before
      BY <3>3, Sums
    <3>5. Holding(pair)' = IF pair \in pairs THEN before \cup {url} ELSE before
      BY <3>2
    <3> HIDE DEF before
    <3>6. Cardinality(before \cup {url}) = Cardinality(before) + 1
      BY <3>4, FS_AddElement
    <3>7. Cardinality(Holding(pair)') = Cardinality(before) + (IF pair \in pairs THEN 1 ELSE 0)
      BY <3>4, <3>5, <3>6
    <3>8. Cardinality(Holding(pair)') = Cardinality(Holding(pair)) + (IF pair \in pairs THEN 1 ELSE 0)
      BY <3>7 DEF before
    <3> QED BY <3>1, <3>8
  <2>4. ArticlesCountOnce'
    <3>1. ASSUME NEW pair \in MentionPairs
          PROVE  strength'[pair] + missed'[pair] + Cardinality(Pending(pair)') = Cardinality(Holding(pair)')
      <4>1. strength[pair] + missed[pair] + Cardinality(Pending(pair)) = Cardinality(Holding(pair))
        BY Sums DEF FeedInv
      <4>2. /\ strength'[pair] = strength[pair] /\ missed'[pair] = missed[pair]
            /\ strength[pair] \in Nat /\ missed[pair] \in Nat
        BY <1>1 DEF FeedInv
      <4>3. Cardinality(Pending(pair)) \in Nat /\ Cardinality(Holding(pair)) \in Nat
        BY Sums
      <4> QED BY <2>3, <4>1, <4>2, <4>3
    <3> QED BY <3>1, Sums
  <2> QED BY <1>0, <1>1, <1>2, <2>1, <2>2, <2>4 DEF FeedInv
<1> QED BY <1>3, <1>4

\* A pair is counted, or its statement fails: it is no longer to be counted.
LEMMA CountsKeep ==
  ASSUME FeedInv, NEW f \in Syncers, NEW pair \in MentionPairs, NEW fails \in BOOLEAN,
         CountsPair(f, pair, fails)
  PROVE  FeedInv'
<1> DEFINE old == syncer[f]
           new == [old EXCEPT !.pairs = @ \ {pair}]
<1>1. /\ old \in Syncer /\ syncer \in [Syncers -> Syncer]
      /\ {strength, missed} \subseteq [MentionPairs -> Nat]
      /\ old.at = "counting" /\ pair \in old.pairs /\ articles' = articles
  BY DEF FeedInv, CountsPair
<1>2. syncer' = [syncer EXCEPT ![f] = new]
  BY <1>1 DEF CountsPair
<1> HIDE DEF old
<1>3. new \in Syncer /\ new.pairs = old.pairs \ {pair} /\ new.at = "counting"
  BY <1>1 DEF Syncer
<1> HIDE DEF new
<1>4. ASSUME NEW other \in MentionPairs
      PROVE  /\ Cardinality(Pending(other)') = Cardinality(Pending(other)) - (IF other = pair THEN 1 ELSE 0)
             /\ Cardinality(Pending(other)) \in Nat
  <2>1. Cardinality(Pending(other)') = Cardinality(Pending(other)) + (IF other \in new.pairs THEN 1 ELSE 0)
                                            - (IF other \in syncer[f].pairs THEN 1 ELSE 0)
    BY <1>1, <1>2, <1>3, OnePending
  <2>2. Cardinality(Pending(other)) \in Nat
    BY Sums
  <2> QED BY <1>1, <1>3, <2>1, <2>2 DEF old
<1>5. /\ {strength', missed'} \subseteq [MentionPairs -> Nat]
      /\ \A other \in MentionPairs :
           strength'[other] + missed'[other] = strength[other] + missed[other] + (IF other = pair THEN 1 ELSE 0)
  <2>1. CASE fails
    BY <1>1, <2>1 DEF CountsPair
  <2>2. CASE ~fails
    BY <1>1, <2>2 DEF CountsPair
  <2> QED BY <2>1, <2>2
<1>6. \A other : Holding(other)' = Holding(other)
  BY <1>1 DEF Holding
<1>7. ArticlesCountOnce'
  <2>1. ASSUME NEW other \in MentionPairs
        PROVE  strength'[other] + missed'[other] + Cardinality(Pending(other)') = Cardinality(Holding(other)')
    <3>1. strength[other] + missed[other] + Cardinality(Pending(other)) = Cardinality(Holding(other))
      BY Sums DEF FeedInv
    <3>2. strength[other] \in Nat /\ missed[other] \in Nat /\ strength'[other] \in Nat /\ missed'[other] \in Nat
      BY <1>1, <1>5
    <3> QED BY <1>4, <1>5, <1>6, <3>1, <3>2
  <2> QED BY <2>1, Sums
<1>8. syncer' \in [Syncers -> Syncer] /\ \A g \in Syncers : syncer'[g].at # "counting" => syncer'[g].pairs = {}
  BY <1>1, <1>2, <1>3 DEF FeedInv
<1> QED BY <1>1, <1>5, <1>7, <1>8 DEF FeedInv

\* A process that is killed misses the pairs it had still to count.
LEMMA KillKeeps ==
  ASSUME FeedInv, NEW f \in Syncers, SyncKilled(f)
  PROVE  FeedInv'
<1> DEFINE old == syncer[f]
<1>1. /\ old \in Syncer /\ syncer \in [Syncers -> Syncer]
      /\ {strength, missed} \subseteq [MentionPairs -> Nat]
      /\ articles' = articles /\ strength' = strength
      /\ syncer' = [syncer EXCEPT ![f] = NotSyncing]
  BY DEF FeedInv, SyncKilled
<1>2. /\ missed' \in [MentionPairs -> Nat]
      /\ \A pair \in MentionPairs : missed'[pair] = missed[pair] + (IF pair \in old.pairs THEN 1 ELSE 0)
  BY <1>1 DEF SyncKilled
<1>3. ASSUME NEW pair \in MentionPairs
      PROVE  /\ Cardinality(Pending(pair)') = Cardinality(Pending(pair)) - (IF pair \in old.pairs THEN 1 ELSE 0)
             /\ Cardinality(Pending(pair)) \in Nat
  <2>1. Cardinality(Pending(pair)') = Cardinality(Pending(pair)) + (IF pair \in NotSyncing.pairs THEN 1 ELSE 0)
                                            - (IF pair \in syncer[f].pairs THEN 1 ELSE 0)
    BY <1>1, SyncerForms, OnePending
  <2>2. Cardinality(Pending(pair)) \in Nat
    BY Sums
  <2> QED BY <2>1, <2>2, SyncerForms
<1>4. \A pair : Holding(pair)' = Holding(pair)
  BY <1>1 DEF Holding
<1> HIDE DEF old
<1>5. ArticlesCountOnce'
  <2>1. ASSUME NEW pair \in MentionPairs
        PROVE  strength'[pair] + missed'[pair] + Cardinality(Pending(pair)') = Cardinality(Holding(pair)')
    <3>1. strength[pair] + missed[pair] + Cardinality(Pending(pair)) = Cardinality(Holding(pair))
      BY Sums DEF FeedInv
    <3>2. strength[pair] \in Nat /\ missed[pair] \in Nat /\ strength'[pair] = strength[pair]
      BY <1>1
    <3> QED BY <1>2, <1>3, <1>4, <3>1, <3>2
  <2> QED BY <2>1, Sums
<1>6. syncer' \in [Syncers -> Syncer] /\ \A g \in Syncers : syncer'[g].at # "counting" => syncer'[g].pairs = {}
  BY <1>1, SyncerForms DEF FeedInv
<1> QED BY <1>1, <1>2, <1>5, <1>6 DEF FeedInv

\* Nothing is stored, counted or to be counted.
LEMMA FeedsInitially == FeedInit => FeedInv
<1> SUFFICES ASSUME FeedInit PROVE FeedInv
  OBVIOUS
<1>1. \A pair \in MentionPairs : Pending(pair) = {} /\ Holding(pair) = {} /\ strength[pair] = 0 /\ missed[pair] = 0
  BY PairsAreMentioned, SyncerForms DEF FeedInit, Pending, Holding
<1>2. ArticlesCountOnce
  BY <1>1, Sums, FS_EmptySet
<1> QED BY <1>2, SyncerForms DEF FeedInit, FeedInv

\* FeedInv is an inductive invariant of the processes that synchronise feeds.
LEMMA FeedsKept == FeedSpec => []FeedInv
<1>1. ASSUME FeedInv, FeedNext PROVE FeedInv'
  <2>1. ASSUME NEW x \in Sightings PROVE x[1] \in Urls /\ x[2] \in Mentions
    BY <2>1 DEF Sightings
  <2> QED BY <1>1, <2>1, WavesKeep, StoresKeep, CountsKeep, KillKeeps DEF FeedNext
<1>2. FeedInv /\ UNCHANGED feedVars => FeedInv'
  BY DEF FeedInv, feedVars, ArticlesCountOnce, Mentioning
<1> QED BY <1>1, <1>2, FeedsInitially, PTL DEF FeedSpec

\* The strength of a pair of symbols is the number of stored articles that mention it, but
\* for the statements that failed and those still to come, whatever processes, sources and
\* retries see an article (main.rs, upsert_article, detect_co_mentions).
THEOREM ArticlesStayCounted == FeedSpec => []ArticlesCountOnce
<1>1. FeedInv => ArticlesCountOnce
  BY DEF FeedInv
<1> QED BY <1>1, FeedsKept, PTL

\* What the owner's commands, the reconciliation, the correlations and the synchronisations
\* leave for the models is true, however they interleave (main.rs, sync_ml_feed_universe,
\* cmd_feeds, compute_price_correlations_for_subscriptions, upsert_article).
THEOREM FeedsStayTrue == UniverseSpec /\ FeedSpec => []FeedsAreTrue
<1>1. UniverseIsTrue /\ ArticlesCountOnce => FeedsAreTrue
  BY DEF FeedsAreTrue
<1> QED BY <1>1, UniverseStaysTrue, ArticlesStayCounted, PTL

-----------------------------------------------------------------------------
(* The Core ML copy of the LSTM (NeuralArtifact)                            *)

Converting == {"converting", "cleared", "packed", "compiled"}

\* An exporter's record has one of these forms.
Exporter ==
  [at : {"rest", "saving", "asked"}] \cup [at : {"loaded", "named"}, held : Contents]
    \cup [at : Converting, held : Contents, read : Contents, late : BOOLEAN]
    \cup [at : {"examined"}, held : Contents, hash : Contents]
    \cup [at : {"judged"}, hash : Contents, agrees : BOOLEAN]

\* The models that the metadata, or an export that has read them, name.
Knows(e) == Stands(e) \in {"examined", "judged"}
Names(n) == n = metadata.hash \/ \E e \in Exporters : Knows(e) /\ n = export[e].hash

\* What an export has read is the model that there is, until a training saves another.
ReadsOK ==
  \A e \in Exporters : Converts(e) =>
    /\ ~export[e].late => export[e].read = modelFile
    /\ export[e].late => overtaken

\* No model has been named before it was saved.
NamesOK ==
  /\ modelFile <= versions /\ \A n \in Contents : Names(n) => n <= versions
  /\ \A e \in Exporters : Stands(e) = "saving" => modelFile = Torn /\ ~Names(versions)
  /\ \A d, e \in Exporters : Stands(d) = "saving" /\ Stands(e) = "saving" => d = e

\* While an export that has cleared the artifact is under way, what is packed and compiled
\* is the current model; and so is the artifact whenever the current model is named.
ArtifactOK ==
  ~overtaken =>
    /\ \A e \in Exporters : Stands(e) \in Converting \ {"converting"} =>
         {package, compiled} \subseteq {Nothing, modelFile}
    /\ modelFile # Torn /\ Names(modelFile) => compiled \in {Nothing, modelFile}

\* An inference that is about to run the artifact runs what it has checked, or nothing.
VettedOK ==
  vetted # Nothing =>
    /\ vetted = modelFile /\ modelFile # Torn
    /\ ~overtaken => compiled \in {Nothing, vetted}

NeuralInv ==
  /\ {modelFile, package, compiled} \subseteq Contents /\ overtaken \in BOOLEAN
  /\ metadata \in [hash : Contents, validated : BOOLEAN]
  /\ export \in [Exporters -> Exporter]
  /\ versions \in 0 .. MaxTrained
  /\ ReadsOK /\ NamesOK /\ ArtifactOK /\ VettedOK

\* A step of an exporter leaves the others alone.
LEMMA OneExporter ==
  ASSUME NeuralInv, NEW e \in Exporters, NEW r \in Exporter, export' = [export EXCEPT ![e] = r]
  PROVE  /\ export' \in [Exporters -> Exporter]
         /\ export'[e] = r /\ \A d \in Exporters \ {e} : export'[d] = export[d]
BY DEF NeuralInv

\* A save makes the exports late that have read the model and not named it.
LEMMA AllLate ==
  ASSUME NeuralInv
  PROVE  /\ Late(export) \in [Exporters -> Exporter]
         /\ \A d \in Exporters :
              /\ Late(export)[d].at = export[d].at
              /\ Converts(d) => Late(export)[d].late
              /\ ~Converts(d) => Late(export)[d] = export[d]
<1> PICK yes \in BOOLEAN : yes
  OBVIOUS
<1>1. Late(export) = [d \in Exporters |-> IF Converts(d) THEN [export[d] EXCEPT !.late = yes] ELSE export[d]]
  BY Zenon DEF Late
<1>2. ASSUME NEW d \in Exporters, Converts(d)
      PROVE  /\ [export[d] EXCEPT !.late = yes] \in Exporter
             /\ [export[d] EXCEPT !.late = yes].at = export[d].at
             /\ [export[d] EXCEPT !.late = yes].late
  <2>1. export[d] \in [at : Converting, held : Contents, read : Contents, late : BOOLEAN]
    BY <1>2 DEF NeuralInv, Exporter, Converts, Stands, Converting
  <2>2. [export[d] EXCEPT !.late = yes] \in [at : Converting, held : Contents, read : Contents, late : BOOLEAN]
    BY <2>1
  <2>3. [export[d] EXCEPT !.late = yes].at = export[d].at /\ [export[d] EXCEPT !.late = yes].late = yes
    BY <2>1
  <2> QED BY <2>2, <2>3 DEF Exporter
<1> QED BY <1>1, <1>2 DEF NeuralInv

\* The beginning and the end of a save: nobody but the training has the new model.
LEMMA SavesKeep ==
  ASSUME NeuralInv, NEW e \in Exporters, SaveBegins(e) \/ SaveEnds(e)
  PROVE  NeuralInv'
<1> USE DEF Stands
<1>0. /\ export \in [Exporters -> Exporter] /\ versions \in Nat /\ modelFile \in Contents
      /\ metadata \in [hash : Contents, validated : BOOLEAN]
  BY DEF NeuralInv
<1>1. \E place \in {"rest", "saving", "asked"} : export' = [Late(export) EXCEPT ![e] = [at |-> place]]
  BY DEF SaveBegins, SaveEnds
<1>2. /\ export' \in [Exporters -> Exporter] /\ export'[e].at \in {"rest", "saving", "asked"}
      /\ \A d \in Exporters \ {e} : export'[d] = Late(export)[d]
  BY <1>1, AllLate DEF Exporter
<1>3. /\ ~Converts(e) /\ UNCHANGED <<package, compiled, metadata>>
      /\ overtaken' = (overtaken \/ \E d \in Exporters : Converts(d))
  BY DEF SaveBegins, SaveEnds, SavedOver, Converts
<1>4. ReadsOK'
  BY <1>2, <1>3, AllLate DEF ReadsOK, Converts
<1>5. \A n : Names(n)' => Names(n)
  BY <1>2, <1>3, AllLate DEF Names, Knows, Converts
<1>6. /\ NamesOK' /\ versions' \in 0 .. MaxTrained /\ modelFile' \in Contents
      /\ \A n : n = modelFile' => n = Torn \/ ~Names(n)
  <2>1. CASE SaveBegins(e)
    <3>1. modelFile' = Torn /\ versions' = versions + 1 /\ versions' \in 1 .. MaxTrained
      BY <1>0, <2>1, NeuralAssumption DEF SaveBegins, NeuralInv
    <3>2. \A n \in Contents : Names(n) => n < versions'
      BY <1>0, <3>1 DEF NeuralInv, NamesOK, Contents, Versions, Torn, Nothing
    <3>3. versions' \in Contents /\ Torn \in Contents /\ Torn <= versions'
      BY <3>1 DEF Contents, Versions, Torn
    <3>4. \A n \in Contents : Names(n)' => n <= versions'
      BY <1>5, <3>1, <3>2 DEF Contents, Versions, Torn, Nothing
    <3>5. \A d, f \in Exporters : export'[d].at = "saving" /\ export'[f].at = "saving" => d = f
      BY <1>2, <2>1, AllLate DEF SaveBegins
    <3>6. \A n : n = versions' => ~Names(n)
      BY <3>1, <3>2, <3>3
    <3>7. ~Names(versions)'
      BY <1>5, <3>6
    <3> QED BY <3>1, <3>3, <3>4, <3>5, <3>7 DEF NamesOK
  <2>2. CASE SaveEnds(e)
    <3>1. modelFile' = versions /\ versions' = versions /\ Stands(e) = "saving" /\ export'[e].at # "saving"
      BY <1>1, <1>2, <2>2, AllLate DEF SaveEnds
    <3>2. ~Names(versions) /\ versions \in 0 .. MaxTrained
      BY <3>1 DEF NeuralInv, NamesOK
    <3>3. versions \in Contents /\ versions <= versions
      BY <1>0, <3>2 DEF Contents, Versions, Nothing
    <3>4. \A d \in Exporters : export'[d].at # "saving"
      BY <1>2, <3>1, AllLate DEF NeuralInv, NamesOK
    <3>5. \A n \in Contents : Names(n)' => n <= versions'
      BY <1>5, <3>1 DEF NeuralInv, NamesOK
    <3> QED BY <3>1, <3>2, <3>3, <3>4, <3>5 DEF NamesOK
  <2> QED BY <2>1, <2>2
<1>7. ArtifactOK'
  <2> SUFFICES ASSUME ~overtaken' PROVE ArtifactOK'
    BY DEF ArtifactOK
  <2>1. \A d \in Exporters : ~Converts(d)
    BY <1>3
  <2>2. \A d \in Exporters : export'[d].at \notin Converting
    BY <1>2, <2>1, AllLate DEF Converts, Converting
  <2>3. modelFile' = Torn \/ ~Names(modelFile)'
    BY <1>5, <1>6
  <2> QED BY <2>2, <2>3 DEF ArtifactOK
<1>8. VettedOK'
  BY DEF SaveBegins, SaveEnds, VettedOK
<1> QED BY <1>2, <1>3, <1>4, <1>6, <1>7, <1>8 DEF NeuralInv

\* What a step of an export must do besides: it knows the model that it has read, tells of
\* a save that came between, names the current model or one that is named, and leaves the
\* artifact alone, empties it or has the current model in it.
LEMMA ExportGoes ==
  ASSUME NeuralInv, NEW e \in Exporters, NEW r \in Exporter, export' = [export EXCEPT ![e] = r],
         r.at # "saving", UNCHANGED <<modelFile, versions, vetted>>,
         compiled' = Nothing \/ (~overtaken' => ~overtaken /\ compiled' \in {Nothing, compiled, modelFile}),
         {package', compiled'} \subseteq Contents, overtaken' \in BOOLEAN,
         metadata' \in [hash : Contents, validated : BOOLEAN],
         r.at \in Converting => (~r.late => r.read = modelFile) /\ (r.late => overtaken'),
         overtaken => overtaken' \/ \A d \in Exporters : Converts(d) => ~export[d].late,
         \A n : Names(n)' => Names(n) \/ n = modelFile,
         ArtifactOK'
  PROVE  NeuralInv'
<1> USE DEF Stands
<1>1. /\ export' \in [Exporters -> Exporter]
      /\ export'[e] = r /\ \A d \in Exporters \ {e} : export'[d] = export[d]
  BY OneExporter
<1>2. ReadsOK'
  <2>1. ASSUME NEW d \in Exporters, export'[d].at \in Converting
        PROVE  /\ ~export'[d].late => export'[d].read = modelFile'
               /\ export'[d].late => overtaken'
    <3>1. CASE d = e
      <4>1. export'[d] = r /\ modelFile' = modelFile
        BY <1>1, <3>1
      <4>2. r.at \in Converting
        BY <2>1, <4>1
      <4>3. (~r.late => r.read = modelFile) /\ (r.late => overtaken')
        BY <4>2
      <4> QED BY Zenon, <4>1, <4>3
    <3>2. CASE d # e
      <4>1. export'[d] = export[d] /\ Converts(d)
        BY <1>1, <2>1, <3>2 DEF Converts, Converting
      <4> QED BY Zenon, <4>1 DEF NeuralInv, ReadsOK
    <3> QED BY <3>1, <3>2
  <2> QED BY <2>1 DEF ReadsOK, Converts, Converting
<1>3. versions # Torn
  BY NeuralAssumption DEF NeuralInv, Torn
<1>4. \A d \in Exporters : export'[d].at = "saving" => export[d].at = "saving"
  BY <1>1
<1>5. modelFile <= versions /\ \A n \in Contents : Names(n)' => n <= versions
  BY DEF NeuralInv, NamesOK
<1>6. \A d \in Exporters : export'[d].at = "saving" => ~Names(versions)'
  BY <1>3, <1>4 DEF NeuralInv, NamesOK
<1>7. NamesOK'
  BY <1>4, <1>5, <1>6 DEF NeuralInv, NamesOK
<1>8. VettedOK'
  BY DEF NeuralInv, VettedOK
<1> QED BY <1>1, <1>2, <1>7, <1>8 DEF NeuralInv

\* Every step of an export keeps the invariant.
LEMMA ExportSteps ==
  ASSUME NeuralInv, NEW e \in Exporters,
         \/ SetupIsAsked(e) \/ ExportBegins(e) \/ ScriptLoads(e) \/ ScriptClears(e) \/ ScriptPacks(e)
         \/ ScriptCompiles(e) \/ ScriptNames(e) \/ Examines(e) \/ Judges(e) \/ Records(e)
         \/ Breaks(e)
  PROVE  NeuralInv'
<1> USE DEF Stands, Knows
<1>0. /\ export \in [Exporters -> Exporter] /\ export[e] \in Exporter
      /\ {modelFile, package, compiled} \subseteq Contents /\ overtaken \in BOOLEAN
      /\ metadata \in [hash : Contents, validated : BOOLEAN] /\ ReadsOK /\ ArtifactOK
  BY DEF NeuralInv
<1> DEFINE old == export[e]
<1>1. ASSUME NEW r \in Exporter, export' = [export EXCEPT ![e] = r], r.at \notin {"examined", "judged"}, UNCHANGED metadata
      PROVE  \A n : Names(n)' => Names(n)
  BY <1>1, OneExporter DEF Names
<1>2. ASSUME NEW r \in Exporter, export' = [export EXCEPT ![e] = r],
             r.at \notin {"saving", "examined", "judged"} \cup Converting,
             UNCHANGED <<modelFile, package, compiled, metadata, versions, overtaken, vetted>>
      PROVE  NeuralInv'
  <2>1. \A n : Names(n)' => Names(n)
    BY <1>1, <1>2
  <2>2. ArtifactOK'
    BY <1>0, <1>2, <2>1, OneExporter DEF ArtifactOK
  <2> QED BY <1>0, <1>2, <2>1, <2>2, ExportGoes
<1>3. CASE SetupIsAsked(e)
  <2> DEFINE r == [old EXCEPT !.at = "asked"]
  <2>1. r = [at |-> "asked"]
    BY <1>0, <1>3 DEF SetupIsAsked, Exporter, Converting
  <2>2. export' = [export EXCEPT ![e] = r]
    BY <1>0, <1>3 DEF SetupIsAsked, Step
  <2> HIDE DEF r
  <2>3. r \in Exporter /\ r.at = "asked"
    BY <2>1 DEF Exporter
  <2> QED BY <1>2, <1>3, <2>2, <2>3 DEF SetupIsAsked, Converting
<1>4. CASE ExportBegins(e)
  <2> DEFINE r == [at |-> "loaded", held |-> modelFile]
  <2>1. r \in Exporter /\ r.at = "loaded"
    BY <1>0 DEF Exporter
  <2>2. export' = [export EXCEPT ![e] = r]
    BY <1>4 DEF ExportBegins
  <2> HIDE DEF r
  <2> QED BY <1>2, <1>4, <2>1, <2>2 DEF ExportBegins, Converting
<1>5. CASE ScriptLoads(e)
  <2> PICK no \in BOOLEAN : no = FALSE
    OBVIOUS
  <2> DEFINE r == [at |-> "converting", held |-> old.held, read |-> modelFile, late |-> no]
  <2>1. export' = [export EXCEPT ![e] = r]
    BY Zenon, <1>5 DEF ScriptLoads
  <2>2. old.held \in Contents
    BY <1>0, <1>5 DEF ScriptLoads, Exporter, Converting
  <2>3. r \in Exporter /\ r.at = "converting" /\ r.late = no /\ r.read = modelFile
    BY <1>0, <2>2 DEF Exporter, Converting
  <2> HIDE DEF r
  <2>4. UNCHANGED <<modelFile, package, compiled, metadata, versions, overtaken, vetted>>
    BY <1>5 DEF ScriptLoads
  <2>5. \A n : Names(n)' => Names(n)
    BY <1>1, <2>1, <2>3, <2>4
  <2>6. ArtifactOK'
    BY <1>0, <2>1, <2>3, <2>4, <2>5, OneExporter DEF ArtifactOK
  <2>7. ~r.late
    BY <2>3, Zenon
  <2> QED BY <1>0, <2>1, <2>3, <2>4, <2>5, <2>6, <2>7, ExportGoes
<1>6. CASE ScriptClears(e)
  <2> DEFINE r == [old EXCEPT !.at = "cleared"]
  <2>1. /\ export' = [export EXCEPT ![e] = r] /\ old.at = "converting"
        /\ package' = Nothing /\ compiled' = Nothing /\ UNCHANGED <<modelFile, metadata, versions, vetted>>
        /\ overtaken' = \E d \in Exporters : Converts(d) /\ export[d].late
    BY <1>0, <1>6 DEF ScriptClears, Step
  <2>2. r \in Exporter /\ r.at = "cleared" /\ r.late = old.late /\ r.read = old.read
    BY <1>0, <2>1 DEF Exporter, Converting
  <2>3. \A n : Names(n)' => Names(n)
    BY <1>1, <2>1, <2>2
  <2>4. ArtifactOK'
    BY <2>1 DEF ArtifactOK
  <2>5. Converts(e) /\ (~r.late => r.read = modelFile) /\ (r.late => overtaken')
    BY <1>0, <2>1, <2>2 DEF ReadsOK, Converts
  <2>6. {package', compiled'} \subseteq Contents /\ overtaken' \in BOOLEAN
    BY <2>1 DEF Contents
  <2>7. overtaken' \/ \A d \in Exporters : Converts(d) => ~export[d].late
    BY <2>1
  <2> HIDE DEF r
  <2> QED BY <1>0, <2>1, <2>2, <2>3, <2>4, <2>5, <2>6, <2>7, ExportGoes
<1>7. CASE ScriptPacks(e) \/ ScriptCompiles(e)
  <2> DEFINE place == IF old.at = "cleared" THEN "packed" ELSE "compiled"
             r == [old EXCEPT !.at = place]
  <2>1. /\ export' = [export EXCEPT ![e] = r] /\ old.at \in {"cleared", "packed"}
        /\ UNCHANGED <<modelFile, metadata, versions, overtaken, vetted>>
        /\ \/ package' = old.read /\ compiled' = compiled
           \/ package' = package /\ compiled' = package
    BY <1>0, <1>7 DEF ScriptPacks, ScriptCompiles, Step
  <2>2. place \in {"packed", "compiled"}
    OBVIOUS
  <2> HIDE DEF place
  <2>3. /\ r \in Exporter /\ r.at \in {"packed", "compiled"} /\ r.late = old.late /\ r.read = old.read
        /\ old.read \in Contents
    BY <1>0, <2>1, <2>2 DEF Exporter, Converting
  <2> HIDE DEF r
  <2>4. \A n : Names(n)' => Names(n)
    BY <1>1, <2>1, <2>3
  <2>5. Converts(e) /\ (~old.late => old.read = modelFile) /\ (old.late => overtaken)
    BY <1>0, <2>1 DEF ReadsOK, Converts
  <2>6. ArtifactOK'
    <3> SUFFICES ASSUME ~overtaken' PROVE ArtifactOK'
      BY DEF ArtifactOK
    <3>1. ~overtaken /\ old.read = modelFile
      BY <2>1, <2>5
    <3>2. {package, compiled} \subseteq {Nothing, modelFile}
      BY <1>0, <2>1, <3>1 DEF ArtifactOK, Converting
    <3>3. {package', compiled'} \subseteq {Nothing, modelFile'}
      BY <2>1, <3>1, <3>2
    <3> QED BY <3>3 DEF ArtifactOK
  <2>7. {package', compiled'} \subseteq Contents /\ overtaken' = overtaken
    BY <1>0, <2>1, <2>3
  <2>8. /\ ~r.late => r.read = modelFile
        /\ r.late => overtaken'
    BY <2>3, <2>5, <2>7
  <2>9. /\ export' = [export EXCEPT ![e] = r] /\ r.at # "saving" /\ UNCHANGED <<modelFile, versions, metadata, vetted>>
        /\ overtaken => overtaken'
    BY <2>1, <2>3
  <2>10. ~overtaken' => ~overtaken /\ compiled' \in {Nothing, compiled, modelFile}
    <3> SUFFICES ASSUME ~overtaken' PROVE ~overtaken /\ compiled' \in {Nothing, compiled, modelFile}
      OBVIOUS
    <3>1. ~overtaken
      BY <2>7
    <3>2. old.at = "packed" => package \in {Nothing, modelFile}
      BY <1>0, <3>1 DEF ArtifactOK, Converting
    <3>3. compiled' = compiled \/ (old.at = "packed" /\ compiled' = package)
      <4>1. CASE ScriptPacks(e)
        <5>1. compiled' = compiled
          BY Zenon, <4>1 DEF ScriptPacks
        <5> QED BY <5>1
      <4>2. CASE ScriptCompiles(e)
        BY <4>2 DEF ScriptCompiles
      <4> QED BY <1>7, <4>1, <4>2
    <3> QED BY <3>1, <3>2, <3>3
  <2> QED BY <1>0, <2>3, <2>4, <2>6, <2>7, <2>8, <2>9, <2>10, ExportGoes
<1>8. CASE ScriptNames(e)
  <2> PICK no \in BOOLEAN : no = FALSE
    OBVIOUS
  <2> DEFINE r == [at |-> "named", held |-> old.held]
  <2>1. /\ export' = [export EXCEPT ![e] = r] /\ old.at = "compiled"
        /\ UNCHANGED <<modelFile, package, compiled, versions, overtaken, vetted>>
        /\ metadata' = [hash |-> modelFile, validated |-> no]
    BY Zenon, <1>8 DEF ScriptNames
  <2>2. old.held \in Contents
    BY <1>0, <2>1 DEF Exporter, Converting
  <2>3. r \in Exporter /\ r.at = "named"
    BY <2>2 DEF Exporter
  <2> HIDE DEF r
  <2>4. \A n : Names(n)' => Names(n) \/ n = modelFile
    BY <2>1, <2>3, OneExporter DEF Names
  <2>5. ArtifactOK'
    <3> SUFFICES ASSUME ~overtaken' PROVE ArtifactOK'
      BY DEF ArtifactOK
    <3>1. ~overtaken
      BY <2>1
    <3>2. compiled \in {Nothing, modelFile}
      BY <1>0, <2>1, <3>1 DEF ArtifactOK, Converting
    <3> QED BY <1>0, <2>1, <2>3, <3>1, <3>2, OneExporter DEF ArtifactOK, Converting
  <2>6. metadata' \in [hash : Contents, validated : BOOLEAN]
    BY <1>0, <2>1
  <2> QED BY <1>0, <2>1, <2>3, <2>4, <2>5, <2>6, ExportGoes DEF Converting
<1>12. CASE Examines(e)
  <2> DEFINE r == [at |-> "examined", held |-> old.held, hash |-> metadata.hash]
  <2>1. /\ export' = [export EXCEPT ![e] = r] /\ old.at = "named"
        /\ UNCHANGED <<modelFile, package, compiled, metadata, versions, overtaken, vetted>>
    BY Zenon, <1>12 DEF Examines
  <2>2. old.held \in Contents
    BY <1>0, <2>1 DEF Exporter, Converting
  <2>3. r \in Exporter /\ r.at = "examined" /\ r.hash = metadata.hash
    BY <1>0, <2>2 DEF Exporter
  <2> HIDE DEF r
  <2>4. \A n : Names(n)' => Names(n)
    BY <2>1, <2>3, OneExporter DEF Names
  <2>5. ArtifactOK'
    BY <1>0, <2>1, <2>3, <2>4, OneExporter DEF ArtifactOK, Converting
  <2> QED BY <1>0, <2>1, <2>3, <2>4, <2>5, ExportGoes DEF Converting
<1>9. CASE Judges(e)
  <2> DEFINE agrees == compiled = old.held
  <2> PICK same \in BOOLEAN : same = agrees
    OBVIOUS
  <2> DEFINE r == [at |-> "judged", hash |-> old.hash, agrees |-> same]
  <2>1. /\ export' = [export EXCEPT ![e] = r] /\ old.at = "examined"
        /\ UNCHANGED <<modelFile, package, compiled, metadata, versions, overtaken, vetted>>
    BY Zenon, <1>9 DEF Judges
  <2>5. old.hash \in Contents
    BY <1>0, <2>1 DEF Exporter, Converting
  <2>2. r \in Exporter /\ r.at = "judged" /\ r.hash = old.hash
    BY <2>5 DEF Exporter
  <2> HIDE DEF r
  <2>3. \A n : Names(n)' => Names(n)
    BY <2>1, <2>2, OneExporter DEF Names
  <2>4. ArtifactOK'
    BY <1>0, <2>1, <2>2, <2>3, OneExporter DEF ArtifactOK, Converting
  <2> QED BY <1>0, <2>1, <2>2, <2>3, <2>4, ExportGoes DEF Converting
<1>10. CASE Records(e)
  <2>1. /\ export' = [export EXCEPT ![e] = Rest] /\ old.at = "judged"
        /\ UNCHANGED <<modelFile, package, compiled, versions, overtaken, vetted>>
        /\ metadata'.hash = old.hash /\ metadata' \in [hash : Contents, validated : BOOLEAN]
    BY <1>0, <1>10 DEF Records, Exporter, Converting
  <2>2. Rest \in Exporter /\ Rest.at = "rest"
    BY DEF Rest, Exporter
  <2>3. \A n : Names(n)' => Names(n)
    BY <2>1, <2>2, OneExporter DEF Names
  <2>4. ArtifactOK'
    BY <1>0, <2>1, <2>2, <2>3, OneExporter DEF ArtifactOK, Converting
  <2> QED BY <1>0, <2>1, <2>2, <2>3, <2>4, ExportGoes DEF Converting
<1>11. CASE Breaks(e)
  <2>1. Rest \in Exporter /\ Rest.at = "rest"
    BY DEF Rest, Exporter
  <2> QED BY <1>2, <1>11, <2>1 DEF Breaks, Converting
<1> QED BY <1>3, <1>4, <1>5, <1>6, <1>7, <1>8, <1>9, <1>10, <1>11, <1>12

\* NeuralInv is an inductive invariant of trainings and exports.
THEOREM NeuralInvariant == NeuralSpec => []NeuralInv
<1>1. NeuralInit => NeuralInv
  <2> SUFFICES ASSUME NeuralInit PROVE NeuralInv
    OBVIOUS
  <2>1. Rest \in Exporter /\ Rest.at = "rest"
    BY DEF Rest, Exporter
  <2>2. \A e \in Exporters : export[e] = Rest
    BY DEF NeuralInit
  <2>3. NoMetadata \in [hash : Contents, validated : BOOLEAN] /\ NoMetadata.hash = Nothing
    BY DEF NoMetadata, Contents
  <2>4. \A n : Names(n) => n = Nothing
    BY <2>1, <2>2, <2>3 DEF Names, Knows, Stands, NeuralInit
  <2>5. NamesOK
    BY <2>1, <2>2, <2>4 DEF NeuralInit, NamesOK, Stands, Nothing
  <2>6. ReadsOK
    BY <2>1, <2>2 DEF ReadsOK, Converts, Stands
  <2>7. ArtifactOK
    BY <2>1, <2>2 DEF NeuralInit, ArtifactOK, Converting, Stands
  <2>8. export \in [Exporters -> Exporter]
    BY <2>1 DEF NeuralInit
  <2>9. overtaken \in BOOLEAN /\ metadata = NoMetadata /\ {modelFile, package, compiled} = {Nothing} /\ versions = 0
    BY DEF NeuralInit
  <2>10. Nothing \in Contents /\ 0 \in 0 .. MaxTrained
    BY NeuralAssumption DEF Contents
  <2>11. VettedOK
    BY DEF NeuralInit, VettedOK
  <2> QED BY Zenon, <2>3, <2>5, <2>6, <2>7, <2>8, <2>9, <2>10, <2>11 DEF NeuralInv
<1>2. NeuralInv /\ UNCHANGED neuralVars => NeuralInv'
  BY DEF NeuralInv, neuralVars, ReadsOK, NamesOK, ArtifactOK, VettedOK, Converts, Stands, Names, Knows
<1>4. NeuralInv /\ (ArtifactIsChecked \/ ArtifactIsRun) => NeuralInv'
  <2> SUFFICES ASSUME NeuralInv, ArtifactIsChecked \/ ArtifactIsRun PROVE NeuralInv'
    OBVIOUS
  <2>1. UNCHANGED <<modelFile, package, compiled, metadata, export, versions, overtaken>>
    BY DEF ArtifactIsChecked, ArtifactIsRun
  <2>2. ReadsOK' /\ NamesOK' /\ ArtifactOK'
    BY <2>1 DEF NeuralInv, ReadsOK, NamesOK, ArtifactOK, Converts, Stands, Names, Knows
  <2>3. VettedOK'
    <3>1. CASE ArtifactIsChecked
      <4>1. vetted' = modelFile /\ modelFile # Torn /\ Names(modelFile)
        BY <3>1 DEF ArtifactIsChecked, IsUsable, Names
      <4> QED BY <2>1, <4>1 DEF NeuralInv, ArtifactOK, VettedOK
    <3>2. CASE ArtifactIsRun
      BY <3>2 DEF ArtifactIsRun, VettedOK
    <3> QED BY <3>1, <3>2
  <2> QED BY <2>1, <2>2, <2>3 DEF NeuralInv
<1>3. NeuralInv /\ [NeuralNext]_neuralVars => NeuralInv'
  BY <1>2, <1>4, SavesKeep, ExportSteps DEF NeuralNext
<1> QED BY <1>1, <1>3, PTL DEF NeuralSpec

\* What an inference runs on the Neural Engine is the model that it found validated, or
\* nothing, however exports overlap, fail and break between its check and its use, but for
\* a model saved in between and for an export that named a model saved after it had read
\* another (lstm.rs, coreml_inference, export_and_validate_coreml).
THEOREM NeuralEngineStaysCurrent == NeuralSpec => []NeuralEngineRunsTheModel
<1>1. NeuralInv => NeuralEngineRunsTheModel
  BY DEF NeuralInv, VettedOK, NeuralEngineRunsTheModel
<1> QED BY <1>1, NeuralInvariant, PTL

-----------------------------------------------------------------------------
(* A training of the LSTM (LstmTraining)                                    *)

Working == {"loading", "epochs", "saving", "torn", "reporting"}
Training ==
  [at : Working \cup {"rest", "succeeded"}, asked : {"none", "auto", "cpu", "mlx", "tch"},
   engine : {"none", "cpu", "tch", "mlx"}, early : BOOLEAN, orphan : BOOLEAN, attempt : Nat,
   epoch : Nat, best : Nat, bestEpoch : Nat, idle : Nat, least : Nat, alone : BOOLEAN]

\* The best loss of the loop is within MinDelta of the least one, from the first epoch on.
LoopOK(run) ==
  /\ run.at \in Working => run.engine # "none"
  /\ run.epoch = 0 => run.best = Infinity /\ run.least = Infinity
  /\ run.epoch # 0 => run.bestEpoch # 0 /\ run.best <= run.least + MinDelta
  /\ run.at \in {"saving", "torn", "reporting", "succeeded"} => run.epoch # 0 /\ run.engine # "none"

\* What a training that is alone has left in the files.
Leaves(run) ==
  run.alone =>
    /\ run.at \in {"torn", "reporting", "succeeded"} =>
         trainedFile.attempt = run.attempt /\ trainedFile.epoch = KeptEpoch(run)
    /\ run.at \in {"reporting", "succeeded"} => trainedFile.whole
    /\ run.at = "succeeded" => trainReport = run.attempt

TrainInv ==
  /\ training \in [Trainers -> Training]
  /\ trainedFile \in [attempt : Nat, epoch : Nat, whole : BOOLEAN]
  /\ trainReport \in Nat /\ attempts \in Nat /\ built \in {"mlx", "tch", "none"}
  /\ \A t \in Trainers :
       /\ LoopOK(training[t]) /\ Leaves(training[t])
       /\ training[t].alone => \A u \in Trainers \ {t} : training[u].at \notin Working

\* A step of a training under way: whoever is alone beside it is not there.
LEMMA OneTraining ==
  ASSUME TrainInv, NEW t \in Trainers, training[t].at \in Working,
         NEW run \in Training, training' = [training EXCEPT ![t] = run],
         LoopOK(run), run.alone => training[t].alone, Leaves(run)',
         trainedFile' \in [attempt : Nat, epoch : Nat, whole : BOOLEAN],
         trainReport' \in Nat, attempts' \in Nat, UNCHANGED built
  PROVE  TrainInv'
<1>1. /\ training' \in [Trainers -> Training] /\ training'[t] = run
      /\ \A u \in Trainers \ {t} : training'[u] = training[u]
  BY DEF TrainInv
<1>2. \A u \in Trainers \ {t} : ~training[u].alone
  BY DEF TrainInv
<1>3. \A u \in Trainers : LoopOK(training[u])'
  BY <1>1 DEF TrainInv, LoopOK
<1>4. \A u \in Trainers : Leaves(training[u])'
  BY <1>1, <1>2 DEF Leaves
<1>5. \A u \in Trainers : training'[u].alone => \A v \in Trainers \ {u} : training'[v].at \notin Working
  BY <1>1, <1>2 DEF TrainInv
<1> QED BY <1>1, <1>3, <1>4, <1>5 DEF TrainInv

\* The records of no training and of an attempt that begins.
LEMMA TrainingForms ==
  /\ NoTraining \in Training /\ NoTraining.at = "rest" /\ ~NoTraining.alone /\ LoopOK(NoTraining)
  /\ attempts \in Nat =>
       \A t \in Trainers, asked \in {"auto", "cpu", "mlx", "tch"}, engine \in {"cpu", "tch", "mlx"}, soon, alone \in BOOLEAN :
         LET run == Attempted(t, asked, engine, soon, alone)
         IN  run \in Training /\ run.at = "loading" /\ run.alone = alone /\ LoopOK(run)
<1> PICK no \in BOOLEAN : ~no /\ no = FALSE
  OBVIOUS
<1>1. NoTraining =
        [at |-> "rest", asked |-> "none", engine |-> "none", early |-> no, orphan |-> no,
         attempt |-> 0, epoch |-> 0, best |-> Infinity, bestEpoch |-> 0, idle |-> 0,
         least |-> Infinity, alone |-> no]
  BY Zenon DEF NoTraining
<1>2. Infinity \in Nat
  BY DEF Infinity
<1>3. NoTraining \in Training /\ NoTraining.at = "rest" /\ NoTraining.alone = no /\ LoopOK(NoTraining)
  BY <1>1, <1>2 DEF Training, Working, LoopOK
<1>4. ASSUME attempts \in Nat, NEW t \in Trainers, NEW asked \in {"auto", "cpu", "mlx", "tch"}, NEW engine \in {"cpu", "tch", "mlx"},
             NEW soon \in BOOLEAN, NEW alone \in BOOLEAN
      PROVE  LET run == Attempted(t, asked, engine, soon, alone)
             IN  run \in Training /\ run.at = "loading" /\ run.alone = alone /\ LoopOK(run)
  <2>1. Attempted(t, asked, engine, soon, alone) =
          [at |-> "loading", asked |-> asked, engine |-> engine, early |-> soon, orphan |-> no,
           attempt |-> attempts + 1, epoch |-> 0, best |-> Infinity, bestEpoch |-> 0, idle |-> 0,
           least |-> Infinity, alone |-> alone]
    <3>1. Attempted(t, asked, engine, soon, alone) =
            [NoTraining EXCEPT !.at = "loading", !.asked = asked, !.engine = engine, !.early = soon,
                               !.attempt = attempts + 1, !.alone = alone]
      BY DEF Attempted
    <3> DEFINE next == attempts + 1
    <3>2. Attempted(t, asked, engine, soon, alone) =
            [NoTraining EXCEPT !.at = "loading", !.asked = asked, !.engine = engine, !.early = soon,
                               !.attempt = next, !.alone = alone]
      BY <3>1
    <3> HIDE DEF next
    <3>3. Attempted(t, asked, engine, soon, alone) =
          [at |-> "loading", asked |-> asked, engine |-> engine, early |-> soon, orphan |-> no,
           attempt |-> next, epoch |-> 0, best |-> Infinity, bestEpoch |-> 0, idle |-> 0,
           least |-> Infinity, alone |-> alone]
      BY <1>1, <3>2
    <3> QED BY <3>3 DEF next
  <2> QED BY <1>2, <1>4, <2>1 DEF Training, Working, LoopOK
<1> QED BY <1>3, <1>4

EpochEnd(run, loss, at) == [AfterEpoch(run, loss) EXCEPT !.at = at]

\* An epoch keeps the best loss within MinDelta of the least.
LEMMA EpochKeepsBest ==
  ASSUME NEW run \in Training, run.at = "epochs", LoopOK(run), NEW loss \in Losses,
         NEW at \in {"epochs", "saving"}, NEW next, next = EpochEnd(run, loss, at)
  PROVE  next \in Training /\ LoopOK(next) /\ next.alone = run.alone /\ next.at = at
<1>1. /\ loss \in Nat /\ loss + MinDelta < Infinity /\ MinDelta \in Nat
      /\ {run.epoch, run.best, run.least, run.idle, run.bestEpoch} \subseteq Nat
  BY TrainingAssumption DEF Training
<1> DEFINE better == Improves(run, loss)
           best == IF better THEN loss ELSE run.best
           bestEpoch == IF better THEN run.epoch + 1 ELSE run.bestEpoch
           idle == IF better THEN 0 ELSE run.idle + 1
           least == IF loss < run.least THEN loss ELSE run.least
           epoch == run.epoch + 1
<1>2. {best, bestEpoch, idle, least, epoch} \subseteq Nat
  BY <1>1
<1>3. best <= least + MinDelta /\ bestEpoch # 0 /\ epoch # 0
  <2>1. CASE better
    BY <1>1, <2>1 DEF Improves, LoopOK
  <2>2. CASE ~better
    BY <1>1, <2>2 DEF Improves, LoopOK
  <2> QED BY <2>1, <2>2
<1>4. AfterEpoch(run, loss) =
        [run EXCEPT !.epoch = epoch, !.best = best, !.bestEpoch = bestEpoch, !.idle = idle, !.least = least]
  BY DEF AfterEpoch
<1> HIDE DEF better, best, bestEpoch, idle, least, epoch
<1> DEFINE after == AfterEpoch(run, loss)
<1> DEFINE asked == run.asked
           engine == run.engine
           soon == run.early
           orphan == run.orphan
           attempt == run.attempt
           alone == run.alone
           best0 == run.best
           bestEpoch0 == run.bestEpoch
           idle0 == run.idle
           least0 == run.least
           epoch0 == run.epoch
<1>5z. run = [at |-> "epochs", asked |-> asked, engine |-> engine, early |-> soon, orphan |-> orphan,
              attempt |-> attempt, epoch |-> epoch0, best |-> best0, bestEpoch |-> bestEpoch0,
              idle |-> idle0, least |-> least0, alone |-> alone]
  BY DEF Training
<1> HIDE DEF asked, engine, soon, orphan, attempt, alone, best0, bestEpoch0, idle0, least0, epoch0
<1>5a. after = [at |-> "epochs", asked |-> asked, engine |-> engine, early |-> soon, orphan |-> orphan,
               attempt |-> attempt, epoch |-> epoch, best |-> best, bestEpoch |-> bestEpoch,
               idle |-> idle, least |-> least, alone |-> alone]
  BY <1>4, <1>5z
<1>5b. next = [after EXCEPT !.at = at]
  BY DEF EpochEnd
<1> HIDE DEF after
<1>5c. next = [at |-> at, asked |-> asked, engine |-> engine, early |-> soon, orphan |-> orphan,
               attempt |-> attempt, epoch |-> epoch, best |-> best, bestEpoch |-> bestEpoch,
               idle |-> idle, least |-> least, alone |-> alone]
  BY <1>5a, <1>5b
<1>5. next = [at |-> at, asked |-> run.asked, engine |-> run.engine, early |-> run.early,
              orphan |-> run.orphan, attempt |-> run.attempt, epoch |-> epoch, best |-> best,
              bestEpoch |-> bestEpoch, idle |-> idle, least |-> least, alone |-> run.alone]
  BY <1>5z, <1>5c
<1>6. run.engine # "none"
  BY DEF LoopOK, Working
<1>7. next \in Training /\ LoopOK(next) /\ next.alone = run.alone /\ next.at = at
  BY <1>2, <1>3, <1>5, <1>6 DEF Training, Working, LoopOK
<1> QED BY <1>7

\* An attempt that failed is tried on the CPU or over.
LEMMA FailedKeeps ==
  ASSUME TrainInv, NEW t \in Trainers, training[t].at \in Working, Failed(t),
         UNCHANGED <<built, trainedFile, trainReport>>
  PROVE  TrainInv'
<1>1. attempts \in Nat /\ training[t].alone \in BOOLEAN
  BY DEF TrainInv, Training
<1>2. /\ trainedFile' \in [attempt : Nat, epoch : Nat, whole : BOOLEAN]
      /\ trainReport' \in Nat /\ attempts' \in Nat
  BY <1>1 DEF TrainInv, Failed, Gone
<1>3. CASE training' = [training EXCEPT ![t] = NoTraining]
  <2>1. Leaves(NoTraining)'
    BY TrainingForms DEF Leaves
  <2> QED BY <1>2, <1>3, <2>1, TrainingForms, OneTraining
<1>4. ASSUME NEW soon \in BOOLEAN,
             training' = [training EXCEPT ![t] = Attempted(t, "auto", "cpu", soon, training[t].alone)]
      PROVE  TrainInv'
  <2> DEFINE run == Attempted(t, "auto", "cpu", soon, training[t].alone)
  <2>1. run \in Training /\ run.at = "loading" /\ run.alone = training[t].alone /\ LoopOK(run)
    BY <1>1, TrainingForms
  <2>2. training' = [training EXCEPT ![t] = run]
    BY <1>4
  <2> PICK new \in Training : new = run
    BY <2>1
  <2> HIDE DEF run
  <2>3. Leaves(new)'
    BY <2>1 DEF Leaves
  <2> QED BY <1>2, <2>1, <2>2, <2>3, OneTraining
<1> QED BY <1>3, <1>4 DEF Failed, Gone

\* Every step of a training under way.
LEMMA TrainingSteps ==
  ASSUME TrainInv, NEW t \in Trainers,
         \/ ChildCrashes(t) \/ CommandKilled(t) \/ LoadsSequences(t)
         \/ CpuEpoch(t) \/ TchEpoch(t) \/ MlxEpoch(t)
         \/ ModelTruncated(t) \/ ModelWritten(t) \/ ReportWritten(t)
  PROVE  TrainInv'
<1> DEFINE old == training[t]
<1>0. /\ training \in [Trainers -> Training] /\ old \in Training /\ LoopOK(old) /\ Leaves(old)
      /\ trainedFile \in [attempt : Nat, epoch : Nat, whole : BOOLEAN]
      /\ trainReport \in Nat /\ attempts \in Nat
  BY DEF TrainInv
<1>1. IsAtWork(t) <=> old.at \in Working
  BY DEF IsAtWork, Working
<1>2. CASE ChildCrashes(t)
  BY <1>1, <1>2, FailedKeeps DEF ChildCrashes
<1>3. CASE CommandKilled(t)
  <2>1. CASE training' = [training EXCEPT ![t] = NoTraining]
    <3>1. Leaves(NoTraining)'
      BY TrainingForms DEF Leaves
    <3> QED BY <1>0, <1>1, <1>3, <2>1, <3>1, TrainingForms, OneTraining DEF CommandKilled
  <2>2. CASE training' = [training EXCEPT ![t].orphan = TRUE]
    <3> PICK yes \in BOOLEAN : yes = TRUE
      OBVIOUS
    <3> DEFINE run == [old EXCEPT !.orphan = yes]
    <3>1. training' = [training EXCEPT ![t] = run]
      BY <2>2, Zenon
    <3>2. run \in Training /\ run.at = old.at /\ run.alone = old.alone /\ LoopOK(run)
          /\ run.attempt = old.attempt /\ KeptEpoch(run) = KeptEpoch(old)
      BY <1>0 DEF Training, LoopOK, KeptEpoch, CpuKeeps, TchKeeps, MlxKeeps
    <3> PICK new \in Training : new = run
      BY <3>2
    <3> HIDE DEF run
    <3>3. UNCHANGED <<built, trainedFile, trainReport, attempts>>
      BY <1>3 DEF CommandKilled
    <3>4. Leaves(new)'
      BY <1>0, <3>2, <3>3 DEF Leaves
    <3> QED BY <1>0, <1>1, <1>3, <3>1, <3>2, <3>3, <3>4, OneTraining DEF CommandKilled
  <2> QED BY <1>3, <2>1, <2>2 DEF CommandKilled, Gone
<1>4. ASSUME old.at \in Working, NEW place, NEW run \in Training, run = [old EXCEPT !.at = place],
             StaysWith(t, place), LoopOK(run), Leaves(run)',
             trainedFile' \in [attempt : Nat, epoch : Nat, whole : BOOLEAN],
             trainReport' \in Nat, UNCHANGED <<built, attempts>>
      PROVE  TrainInv'
  <2>1. training' = [training EXCEPT ![t] = run]
    BY <1>4 DEF StaysWith
  <2>2. run.alone = old.alone
    BY <1>0, <1>4 DEF Training
  <2>3. attempts' \in Nat
    BY <1>0, <1>4
  <2> QED BY <1>4, <2>1, <2>2, <2>3, OneTraining
<1>5. CASE LoadsSequences(t)
  <2>1. CASE StaysWith(t, "epochs") /\ UNCHANGED attempts
    <3> DEFINE run == [old EXCEPT !.at = "epochs"]
    <3>1. run.at = "epochs" /\ run.alone = old.alone /\ LoopOK(run)
      BY <1>0, <1>5 DEF LoadsSequences, LoopOK, Training, Working
    <3> PICK new \in Training : new = run
      BY <1>0, <3>1 DEF Training, Working
    <3>2. Leaves(new)'
      BY <3>1 DEF Leaves
    <3>3. old.at \in Working
      BY <1>5 DEF LoadsSequences, Working
    <3>4. UNCHANGED <<built, trainedFile, trainReport>>
      BY <1>5 DEF LoadsSequences
    <3> QED BY <1>0, <1>4, <2>1, <3>1, <3>2, <3>3, <3>4
  <2>2. CASE Failed(t)
    BY <1>5, <2>2, FailedKeeps DEF LoadsSequences, Working
  <2> QED BY <1>5, <2>1, <2>2 DEF LoadsSequences
<1>6. CASE CpuEpoch(t) \/ TchEpoch(t) \/ MlxEpoch(t)
  <2>1. PICK loss \in Losses, at \in {"epochs", "saving"} :
          training' = [training EXCEPT ![t] = [AfterEpoch(old, loss) EXCEPT !.at = at]]
    BY <1>6 DEF CpuEpoch, TchEpoch, MlxEpoch, Epoch
  <2>2. old.at = "epochs" /\ UNCHANGED <<built, trainedFile, trainReport, attempts>>
    BY <1>6 DEF CpuEpoch, TchEpoch, MlxEpoch, Epoch
  <2> DEFINE next == EpochEnd(old, loss, at)
  <2>3. next \in Training /\ LoopOK(next) /\ next.alone = old.alone /\ next.at = at
    BY <1>0, <2>2, EpochKeepsBest
  <2>4. training' = [training EXCEPT ![t] = next]
    BY <2>1 DEF EpochEnd
  <2> PICK new \in Training : new = next
    BY <2>3
  <2> HIDE DEF next
  <2>5. Leaves(new)'
    BY <2>3 DEF Leaves
  <2>6. old.at \in Working /\ new.alone = old.alone /\ LoopOK(new) /\ training' = [training EXCEPT ![t] = new]
    BY <2>2, <2>3, <2>4 DEF Working
  <2> QED BY <1>0, <2>2, <2>5, <2>6, OneTraining
<1>7. CASE ModelTruncated(t)
  <2> DEFINE run == [old EXCEPT !.at = "torn"]
  <2>1. old.at = "saving" /\ UNCHANGED <<built, trainReport, attempts>> /\ StaysWith(t, "torn")
        /\ trainedFile' = [attempt |-> old.attempt, epoch |-> KeptEpoch(old), whole |-> FALSE]
    BY <1>7 DEF ModelTruncated
  <2>2. KeptEpoch(old) \in Nat /\ old.attempt \in Nat
    BY <1>0, <2>1 DEF Training, LoopOK, KeptEpoch, CpuKeeps, TchKeeps, MlxKeeps
  <2>3. /\ run.at = "torn" /\ run.alone = old.alone /\ LoopOK(run) /\ run.attempt = old.attempt
        /\ KeptEpoch(run) = KeptEpoch(old)
    BY <1>0, <2>1 DEF Training, LoopOK, KeptEpoch, CpuKeeps, TchKeeps, MlxKeeps, Working
  <2>4. /\ trainedFile' \in [attempt : Nat, epoch : Nat, whole : BOOLEAN]
        /\ trainedFile'.attempt = old.attempt /\ trainedFile'.epoch = KeptEpoch(old)
    <3> PICK no \in BOOLEAN : no = FALSE
      OBVIOUS
    <3>1. trainedFile' = [attempt |-> old.attempt, epoch |-> KeptEpoch(old), whole |-> no]
      BY <2>1, Zenon
    <3> QED BY <2>2, <3>1
  <2> PICK new \in Training : new = run
    BY <1>0, <2>3 DEF Training, Working
  <2> HIDE DEF run
  <2>5. Leaves(new)'
    BY <2>3, <2>4 DEF Leaves
  <2>6. old.at \in Working
    BY <2>1 DEF Working
  <2> QED BY <1>0, <1>4, <2>1, <2>3, <2>4, <2>5, <2>6 DEF run
<1>8. CASE ModelWritten(t)
  <2>1. CASE /\ trainedFile' = [trainedFile EXCEPT !.whole = trainedFile.attempt = old.attempt]
             /\ StaysWith(t, "reporting") /\ UNCHANGED attempts
    <3> DEFINE run == [old EXCEPT !.at = "reporting"]
    <3>1. old.at = "torn" /\ UNCHANGED <<built, trainReport>>
      BY <1>8 DEF ModelWritten
    <3>2. /\ run.at = "reporting" /\ run.alone = old.alone /\ LoopOK(run) /\ run.attempt = old.attempt
          /\ KeptEpoch(run) = KeptEpoch(old)
      BY <1>0, <3>1 DEF Training, LoopOK, KeptEpoch, CpuKeeps, TchKeeps, MlxKeeps, Working
    <3> DEFINE same == trainedFile.attempt = old.attempt
    <3>3. PICK whole \in BOOLEAN : whole = same
      OBVIOUS
    <3>4. trainedFile' = [trainedFile EXCEPT !.whole = whole]
      BY <2>1, <3>3, Zenon
    <3>5. /\ trainedFile' \in [attempt : Nat, epoch : Nat, whole : BOOLEAN]
          /\ trainedFile'.attempt = trainedFile.attempt /\ trainedFile'.epoch = trainedFile.epoch
          /\ trainedFile'.whole = whole
      BY <1>0, <3>4
    <3>6. old.alone => whole
      BY <1>0, <3>1, <3>3 DEF Leaves
    <3>7. old.alone => trainedFile.attempt = old.attempt /\ trainedFile.epoch = KeptEpoch(old)
      BY <1>0, <3>1 DEF Leaves
    <3> PICK new \in Training : new = run
      BY <1>0, <3>2 DEF Training, Working
    <3> HIDE DEF run
    <3>8. Leaves(new)'
      BY <3>2, <3>5, <3>6, <3>7 DEF Leaves
    <3>9. old.at \in Working
      BY <3>1 DEF Working
    <3> QED BY <1>0, <1>4, <2>1, <3>1, <3>2, <3>5, <3>8, <3>9 DEF run
  <2>2. CASE Failed(t) /\ UNCHANGED trainedFile
    BY <1>8, <2>2, FailedKeeps DEF ModelWritten, Working
  <2> QED BY <1>8, <2>1, <2>2 DEF ModelWritten
<1>9. CASE ReportWritten(t)
  <2>1. CASE trainReport' = old.attempt /\ StaysWith(t, "succeeded") /\ UNCHANGED attempts
    <3> DEFINE run == [old EXCEPT !.at = "succeeded"]
    <3>1. old.at = "reporting" /\ UNCHANGED <<built, trainedFile>>
      BY <1>9 DEF ReportWritten
    <3>2. /\ run.at = "succeeded" /\ run.alone = old.alone /\ LoopOK(run) /\ run.attempt = old.attempt
          /\ KeptEpoch(run) = KeptEpoch(old)
      BY <1>0, <3>1 DEF Training, LoopOK, KeptEpoch, CpuKeeps, TchKeeps, MlxKeeps, Working
    <3>3. trainReport' \in Nat
      BY <1>0, <2>1 DEF Training
    <3>4. old.alone => trainedFile.attempt = old.attempt /\ trainedFile.epoch = KeptEpoch(old) /\ trainedFile.whole
      BY <1>0, <3>1 DEF Leaves
    <3> PICK new \in Training : new = run
      BY <1>0, <3>2 DEF Training, Working
    <3> HIDE DEF run
    <3>5. Leaves(new)'
      BY <2>1, <3>1, <3>2, <3>4 DEF Leaves
    <3>6. old.at \in Working
      BY <3>1 DEF Working
    <3> QED BY <1>0, <1>4, <2>1, <3>1, <3>2, <3>3, <3>5, <3>6 DEF run
  <2>2. CASE Failed(t) /\ UNCHANGED trainReport
    BY <1>9, <2>2, FailedKeeps DEF ReportWritten, Working
  <2> QED BY <1>9, <2>1, <2>2 DEF ReportWritten
<1> QED BY <1>2, <1>3, <1>5, <1>6, <1>7, <1>8, <1>9

\* A command that is asked for: from now on nobody else is alone.
LEMMA AskingKeeps ==
  ASSUME TrainInv, NEW t \in Trainers, NEW asked \in {"auto", "cpu", "mlx", "tch"}, NEW soon \in BOOLEAN,
         AsksTraining(t, asked, soon)
  PROVE  TrainInv'
<1>1. PICK alone \in BOOLEAN : alone = ~\E v \in Trainers : IsAtWork(v)
  OBVIOUS
<1> DEFINE run == Attempted(t, asked, EngineFor(asked), soon, alone)
<1> PICK no \in BOOLEAN : ~no /\ no = FALSE
  OBVIOUS
<1>2. UNCHANGED <<built, trainedFile, trainReport>> /\ attempts' = attempts + 1 /\ EngineFor(asked) # "none"
  BY DEF AsksTraining
<1>3. training' = [u \in Trainers |-> IF u = t THEN run ELSE [training[u] EXCEPT !.alone = no]]
  BY <1>1, Zenon DEF AsksTraining
<1>4. EngineFor(asked) \in {"cpu", "tch", "mlx"}
  BY <1>2 DEF EngineFor, TrainInv
<1>5. run \in Training /\ run.at = "loading" /\ run.alone = alone /\ LoopOK(run)
  BY <1>4, TrainingForms DEF TrainInv
<1> PICK new \in Training : new = run
  BY <1>5
<1> HIDE DEF run
<1>6. ASSUME NEW u \in Trainers \ {t}
      PROVE  /\ training'[u] \in Training /\ training'[u].at = training[u].at /\ ~training'[u].alone
             /\ LoopOK(training'[u])
  <2>1. training'[u] = [training[u] EXCEPT !.alone = no] /\ training[u] \in Training /\ LoopOK(training[u])
    BY <1>3 DEF TrainInv
  <2> QED BY <2>1 DEF Training, LoopOK
<1>7. training'[t] = new /\ training' \in [Trainers -> Training]
  BY <1>3, <1>6
<1>8. Leaves(new)'
  BY <1>5 DEF Leaves
<1>9. new.alone => \A u \in Trainers \ {t} : training'[u].at \notin Working
  BY <1>1, <1>5, <1>6 DEF IsAtWork, Working
<1>10. \A u \in Trainers \ {t} : Leaves(training[u])'
  BY <1>6 DEF Leaves
<1> QED BY <1>2, <1>5, <1>6, <1>7, <1>8, <1>9, <1>10 DEF TrainInv

\* The invariant of the trainings: the best loss of a loop is near the least, and what a
\* training that is alone has written so far is still in the files.
THEOREM TrainInvariant == TrainSpec => []TrainInv
<1>1. TrainInit => TrainInv
  <2> SUFFICES ASSUME TrainInit PROVE TrainInv
    OBVIOUS
  <2> PICK no \in BOOLEAN : no = FALSE
    OBVIOUS
  <2>1. trainedFile = [attempt |-> 0, epoch |-> 0, whole |-> no]
    BY Zenon DEF TrainInit
  <2>2. trainedFile \in [attempt : Nat, epoch : Nat, whole : BOOLEAN]
    BY <2>1
  <2>3. Leaves(NoTraining)
    BY TrainingForms DEF Leaves
  <2> QED BY <2>2, <2>3, TrainingForms DEF TrainInit, TrainInv
<1>2. TrainInv /\ [TrainNext]_trainVars => TrainInv'
  <2> SUFFICES ASSUME TrainInv, [TrainNext]_trainVars PROVE TrainInv'
    OBVIOUS
  <2>1. CASE TrainNext
    BY <2>1, AskingKeeps, TrainingSteps DEF TrainNext
  <2>2. CASE UNCHANGED trainVars
    <3>1. UNCHANGED <<built, training, trainedFile, trainReport, attempts>>
      BY <2>2 DEF trainVars
    <3>2. \A t \in Trainers : Leaves(training[t])'
      BY <3>1 DEF TrainInv, Leaves
    <3> QED BY <3>1, <3>2 DEF TrainInv
  <2> QED BY <2>1, <2>2
<1> QED BY <1>1, <1>2, PTL DEF TrainSpec

\* A training that ended well with no other beside it leaves its own model, whole, with its
\* report, and the model is of an epoch near the best (cmd_ml_lstm_train, train_on_data).
THEOREM ReportStaysTrue == TrainSpec => []ReportTellsOfModel
<1>1. TrainInv => ReportTellsOfModel
  <2> SUFFICES ASSUME TrainInv, NEW t \in Trainers, training[t].at = "succeeded", training[t].alone
               PROVE  /\ trainedFile.whole
                      /\ trainedFile.attempt = training[t].attempt /\ trainReport = training[t].attempt
                      /\ trainedFile.epoch = KeptEpoch(training[t])
                      /\ KeepsBest(training[t])
    BY DEF ReportTellsOfModel
  <2>1. training[t] \in Training /\ LoopOK(training[t]) /\ Leaves(training[t])
    BY DEF TrainInv
  <2>2. KeepsBest(training[t])
    BY <2>1 DEF KeepsBest, KeptEpoch, CpuKeeps, TchKeeps, MlxKeeps, LoopOK, Training
  <2> QED BY <2>1, <2>2 DEF Leaves
<1> QED BY <1>1, TrainInvariant, PTL


-----------------------------------------------------------------------------
(* The rows that the auto-trade cycle ranks (MlPredictions)                 *)

\* A row has a quintile of the score that it is ranked by.
Row == [score : Value, quintile : Value, lgb : Value, lstm : Value, xgb : Value, ens : Value]
Ranked(row) == row.quintile = IF row.ens # Unset THEN row.ens ELSE row.score

PredInv ==
  /\ predictions \in [Shares \X FeatureDays -> Row]
  /\ \A x \in Shares \X FeatureDays : Ranked(predictions[x])

\* Rows written pair by pair keep the invariant.
LEMMA RowsKeep ==
  ASSUME PredInv, DOMAIN predictions' = Shares \X FeatureDays,
         predictions' = [x \in DOMAIN predictions' |-> predictions'[x]],
         \A x \in Shares \X FeatureDays : predictions'[x] \in Row /\ Ranked(predictions'[x])
  PROVE  PredInv'
BY DEF PredInv

\* The ensembles' rows: each is ranked by the score it has now.
LEMMA MixedRows ==
  ASSUME NEW row \in Row, NEW mix \in {Mix, MixOfMix}
  PROVE  LET mixed == [row EXCEPT !.lgb = row.score, !.lstm = "lstm", !.ens = mix, !.score = mix, !.quintile = mix]
         IN  mixed \in Row /\ Ranked(mixed)
BY DEF Row, Ranked, Value, Models, Mix, MixOfMix, Unset

\* cmd_ml_ensemble_weighted() ranks the rows that it mixes and leaves the others.
LEMMA WeightedKeeps ==
  ASSUME PredInv, NEW weights, EnsembleWeighted(weights)
  PROVE  PredInv'
<1>1. DOMAIN predictions' = Shares \X FeatureDays /\ predictions' = [x \in DOMAIN predictions' |-> predictions'[x]]
  BY DEF EnsembleWeighted, PredInv
<1>2. ASSUME NEW x \in Shares \X FeatureDays
      PROVE  predictions'[x] \in Row /\ Ranked(predictions'[x])
  <2> DEFINE row == predictions[x]
             mix == EnsembleOf(weights, row.score)
  <2>1. row \in Row /\ Ranked(row) /\ mix \in {Mix, MixOfMix}
    BY DEF PredInv, EnsembleOf
  <2>2. \/ predictions'[x] = row
        \/ predictions'[x] = [row EXCEPT !.lgb = row.score, !.lstm = "lstm", !.ens = mix, !.score = mix, !.quintile = mix]
    BY DEF EnsembleWeighted, PredInv
  <2> HIDE DEF row, mix
  <2> QED BY <2>1, <2>2, MixedRows
<1> QED BY <1>1, <1>2, RowsKeep

\* cmd_ml_ensemble_without_sp500_weighted() replaces the rows of the latest date.
LEMMA WithoutKeeps ==
  ASSUME PredInv, NEW weights, EnsembleWithout(weights)
  PROVE  PredInv'
<1>1. DOMAIN predictions' = Shares \X FeatureDays /\ predictions' = [x \in DOMAIN predictions' |-> predictions'[x]]
  BY DEF EnsembleWithout, PredInv
<1>2. ASSUME NEW x \in Shares \X FeatureDays
      PROVE  predictions'[x] \in Row /\ Ranked(predictions'[x])
  <2> DEFINE xgb == IF "xgb" \in weights THEN "xgb" ELSE Unset
  <2>1. \/ predictions'[x] = predictions[x] \/ predictions'[x] = Blank
        \/ predictions'[x] = [Blank EXCEPT !.score = Mix, !.quintile = Mix, !.lgb = "lgb", !.lstm = "lstm", !.ens = Mix, !.xgb = xgb]
    BY DEF EnsembleWithout, PredInv
  <2>2. xgb \in {"xgb", Unset}
    OBVIOUS
  <2> HIDE DEF xgb
  <2>3. Blank \in Row /\ Ranked(Blank)
    BY DEF Row, Ranked, Value, Models, Mix, MixOfMix, Unset, Blank
  <2> DEFINE mixed == [Blank EXCEPT !.score = Mix, !.quintile = Mix, !.lgb = "lgb", !.lstm = "lstm", !.ens = Mix, !.xgb = xgb]
  <2>4. ASSUME NEW row \in Row, NEW lgb \in Value, NEW lstm \in Value, NEW other \in Value, NEW mix \in Value, mix # Unset
        PROVE  LET new == [row EXCEPT !.score = mix, !.quintile = mix, !.lgb = lgb, !.lstm = lstm, !.ens = mix, !.xgb = other]
               IN  new \in Row /\ Ranked(new)
    BY <2>4 DEF Row, Ranked
  <2>5. mixed \in Row /\ Ranked(mixed)
    <3>1. Mix # Unset /\ {Mix, "lgb", "lstm", xgb} \subseteq Value
      BY <2>2 DEF Value, Models, Mix, Unset
    <3> QED BY <2>3, <2>4, <3>1
  <2>6. predictions[x] \in Row /\ Ranked(predictions[x])
    BY DEF PredInv
  <2> QED BY <2>1, <2>3, <2>5, <2>6
<1> QED BY <1>1, <1>2, RowsKeep

\* PredInv is an inductive invariant: each row written is ranked by its own score.
THEOREM RowsAreRanked == PredSpec => []PredInv
<1>1. PredInit => PredInv
  BY DEF PredInit, PredInv, Row, Ranked, Value, Models, Blank, Unset, Mix, MixOfMix
<1>2. PredInv /\ [PredNext]_predVars => PredInv'
  <2> SUFFICES ASSUME PredInv, [PredNext]_predVars PROVE PredInv'
    OBVIOUS
  <2>1. CASE UNCHANGED predictions
    BY <2>1 DEF PredInv
  <2>2. CASE LgbPredict
    <3>1. DOMAIN predictions' = Shares \X FeatureDays /\ predictions' = [x \in DOMAIN predictions' |-> predictions'[x]]
      BY <2>2 DEF LgbPredict, PredInv
    <3>2. \A x \in Shares \X FeatureDays : predictions'[x] = predictions[x] \/ predictions'[x] = LgbRow(predictions[x])
      BY <2>2 DEF LgbPredict, PredInv
    <3>3. \A old : LgbRow(old) \in Row /\ Ranked(LgbRow(old))
      BY DEF LgbRow, Row, Ranked, Value, Models, Blank, Unset, Mix, MixOfMix
    <3> QED BY <3>1, <3>2, <3>3, RowsKeep DEF PredInv
  <2>3. CASE XgbPredict
    <3>1. DOMAIN predictions' = Shares \X FeatureDays /\ predictions' = [x \in DOMAIN predictions' |-> predictions'[x]]
      BY <2>3 DEF XgbPredict, PredInv
    <3>2. \A x \in Shares \X FeatureDays :
            predictions'[x] = predictions[x] \/ predictions'[x] = [predictions[x] EXCEPT !.xgb = "xgb"]
      BY <2>3 DEF XgbPredict, PredInv
    <3>3. \A row \in Row : Ranked(row) =>
            [row EXCEPT !.xgb = "xgb"] \in Row /\ Ranked([row EXCEPT !.xgb = "xgb"])
      BY DEF Row, Ranked, Value, Models
    <3>4. ASSUME NEW x \in Shares \X FeatureDays
          PROVE  predictions'[x] \in Row /\ Ranked(predictions'[x])
      <4>1. predictions[x] \in Row /\ Ranked(predictions[x])
        BY DEF PredInv
      <4> DEFINE new == [predictions[x] EXCEPT !.xgb = "xgb"]
      <4>2. new \in Row /\ Ranked(new)
        BY <3>3, <4>1
      <4>3. predictions'[x] = predictions[x] \/ predictions'[x] = new
        BY <3>2
      <4> QED BY <4>1, <4>2, <4>3
    <3> QED BY <3>1, <3>4, RowsKeep
  <2>4. CASE EnsembleDefault
    BY <2>4, WeightedKeeps, WithoutKeeps DEF EnsembleDefault
  <2>5. CASE \E weights \in Mixes : EnsembleWeighted(weights)
    BY <2>5, WeightedKeeps
  <2>6. PredNext /\ ~UNCHANGED predictions =>
          LgbPredict \/ XgbPredict \/ EnsembleDefault \/ \E weights \in Mixes : EnsembleWeighted(weights)
    BY DEF PredNext, Train, FeaturesOfNextDay, SelectsDefault, SweepsRobustly, Chooses, SkipTraining, LstmPredict
  <2> QED BY <2>1, <2>2, <2>3, <2>4, <2>5, <2>6 DEF predVars
<1> QED BY <1>1, <1>2, PTL DEF PredSpec

\* The score that find_buy_candidates() ranks by is what the quintile of the row ranks,
\* whichever commands have written it, for any number of symbols and dates.
THEOREM RankStaysOfQuintile == PredSpec => []RankMatchesQuintile
<1>1. PredInv => RankMatchesQuintile
  BY DEF PredInv, RankMatchesQuintile, Ranked
<1> QED BY <1>1, RowsAreRanked, PTL

-----------------------------------------------------------------------------
(* The catch-up of bars (BarScan)                                           *)

\* collapse_missing_dates(): each missing date is in one of the ranges.
LEMMA CollapsedCovers ==
  ASSUME NEW dates, dates \subseteq Dates, NEW d \in dates
  PROVE  \E r \in Collapsed(dates) : r = [first |-> r.first, last |-> r.last] /\ r.first \in Dates /\ r.last \in Dates
                                     /\ r.first <= d /\ d <= r.last
<1>1. MaxDate \in Nat /\ Gap \in Nat /\ dates \subseteq 0 .. MaxDate
  BY ScanAssumption DEF Dates
<1> DEFINE before == {g \in Firsts(dates) : g <= d}
<1>2. before \subseteq 0 .. MaxDate
  BY <1>1 DEF Firsts
<1>3. before # {}
  <2>1. Min(dates) \in dates /\ \A e \in dates : Min(dates) <= e
    BY <1>1, MinAndMax
  <2> PICK m \in dates : m = Min(dates)
    BY <2>1
  <2>2. m \in dates /\ ~\E e \in dates : e < m /\ m - e <= Gap
    BY <1>1, <2>1
  <2>3. m \in Firsts(dates) /\ m <= d
    BY <2>1, <2>2 DEF Firsts
  <2> QED BY <2>3
<1>4. PICK f \in before : \A g \in before : g <= f
  BY <1>1, <1>2, <1>3, Greatest
<1> DEFINE span == {e \in dates : e >= f /\ ~\E g \in Firsts(dates) : f < g /\ g <= e}
<1>5. d \in span
  BY <1>1, <1>2, <1>4 DEF Firsts
<1>6. Max(span) \in span /\ d <= Max(span)
  BY <1>1, <1>5, MinAndMax
<1>7. Spans(dates, f) = Max(span)
  BY DEF Spans
<1> DEFINE r == [first |-> f, last |-> Spans(dates, f)]
<1>8. r \in Collapsed(dates)
  BY DEF Collapsed
<1>9. f \in Dates /\ f <= d
  BY DEF Firsts
<1> QED BY <1>6, <1>7, <1>8, <1>9

\* expected_bar_dates(): dates of the range.
LEMMA ExpectedInRange ==
  ASSUME NEW first \in Dates, NEW last \in Dates
  PROVE  ExpectedDates(first, last) \subseteq Dates \cap (first .. last)
<1>1. MaxDate \in Nat
  BY ScanAssumption
<1>0. first \in Int /\ last \in Int /\ first .. last \subseteq Dates /\ Dates \subseteq 0 .. MaxDate
  BY <1>1 DEF Dates
<1>2. \A a, b \in Int : EdgeDates(a, b) \subseteq a .. b
  BY DEF EdgeDates
<1> DEFINE known == {d \in FredFirst .. fred : d \in first .. last}
<1>3. CASE known = {}
  BY <1>0, <1>3 DEF ExpectedDates
<1>4. CASE known # {}
  <2>1. known \subseteq 0 .. MaxDate /\ known \subseteq first .. last
    BY <1>0
  <2>2. Min(known) \in known /\ Max(known) \in known
    BY <1>1, <1>4, <2>1, MinAndMax
  <2>3. ExpectedDates(first, last) = known \cup EdgeDates(first, Min(known) - 1) \cup EdgeDates(Max(known) + 1, last)
    BY <1>4 DEF ExpectedDates
  <2>4. Min(known) \in first .. last /\ Max(known) \in first .. last
    BY <2>1, <2>2
  <2> HIDE DEF known
  <2>8. Min(known) - 1 \in Int /\ Max(known) + 1 \in Int
    BY <1>0, <2>4
  <2>5. EdgeDates(first, Min(known) - 1) \subseteq first .. (Min(known) - 1)
    BY <1>0, <1>2, <2>8
  <2>6. EdgeDates(Max(known) + 1, last) \subseteq (Max(known) + 1) .. last
    BY <1>0, <1>2, <2>8
  <2>7. first .. (Min(known) - 1) \subseteq first .. last /\ (Max(known) + 1) .. last \subseteq first .. last
    BY <1>0, <2>4
  <2> QED BY <1>0, <2>1, <2>3, <2>5, <2>6, <2>7
<1> QED BY <1>3, <1>4

Ranges == [first : Dates, last : Dates]
InRange(d, r) == r.first <= d /\ d <= r.last
AreKnown(s, d) == <<s, d>> \in bars \cup early

\* What was covered is known, and what the scan expects of that which the provider had is
\* known or still to be asked for.
ScanInv ==
  /\ today \in Dates /\ offered \subseteq Bound(today) /\ had \subseteq offered
  /\ covered \subseteq [ticker : Tickers, first : Dates, last : Dates]
  /\ \A c \in covered, d \in Dates : InRange(d, c) /\ <<c.ticker, d>> \in Bars => AreKnown(c.ticker, d)
  /\ scan.work \subseteq [range : Ranges, tickers : SUBSET Tickers]
  /\ scan = [on |-> scan.on, to |-> scan.to, tickers |-> scan.tickers, dates |-> scan.dates, work |-> scan.work]
  /\ \A s \in scan.tickers, d \in scan.dates :
       <<s, d>> \in had => AreKnown(s, d) \/ \E w \in scan.work : s \in w.tickers /\ InRange(d, w.range)
  /\ scan.tickers \subseteq Tickers /\ (~scan.on => had = {} /\ scan.work = {})
  /\ assets \subseteq Tickers

\* The bars of the provider are of its tickers and of the dates up to today.
LEMMA BarsBound ==
  ASSUME NEW x, NEW y \in Dates, x \in Bound(y)
  PROVE  x = <<x[1], x[2]>> /\ x[1] \in Tickers /\ x[2] \in Dates /\ x[2] <= y /\ x \in Bars
BY DEF Bound, Bars

\* A scan begins: every date that it misses is asked for.
LEMMA BeginningPlans ==
  ASSUME ScanInv, NEW from \in Starts, NEW force \in BOOLEAN, ScanBegins(from, force)
  PROVE  ScanInv'
<1> DEFINE tickers == assets \cup Benchmarks
           dates == ExpectedDates(from, today)
           work == Plan(tickers, dates, from, force)
           of(s) == IF force THEN {[first |-> from, last |-> today]}
                             ELSE Collapsed(MissingDates(s, dates))
<1>0. MaxDate \in Nat /\ from \in Dates /\ today \in Dates /\ tickers \subseteq Tickers /\ from <= today
  BY ScanAssumption DEF ScanInv, ScanBegins
<1>1. dates \subseteq Dates
  BY <1>0, ExpectedInRange
<1>2. \A s : of(s) \subseteq Ranges
  <2>1. \A D : D \subseteq Dates => Collapsed(D) \subseteq Ranges
    <3> SUFFICES ASSUME NEW D, D \subseteq Dates, NEW f \in Firsts(D)
                 PROVE  [first |-> f, last |-> Spans(D, f)] \in Ranges
      BY DEF Collapsed
    <3> DEFINE span == {e \in D : e >= f /\ ~\E g \in Firsts(D) : f < g /\ g <= e}
    <3>1. f \in span
      BY DEF Firsts, Dates
    <3>2. Max(span) \in span
      <4>1. Dates \subseteq 0 .. MaxDate /\ span \subseteq D
        BY <1>0 DEF Dates
      <4> HIDE DEF span
      <4> QED BY <1>0, <3>1, <4>1, MinAndMax
    <3> QED BY <3>1, <3>2 DEF Spans, Ranges, Firsts
  <2>2. \A s : MissingDates(s, dates) \subseteq Dates
    BY <1>1 DEF MissingDates
  <2> QED BY <1>0, <2>1, <2>2 DEF Ranges
<1> HIDE DEF dates, of
<1>3. work = {[range |-> r, tickers |-> {s \in tickers : r \in of(s)}] : r \in UNION {of(s) : s \in tickers}}
  BY DEF Plan, of
<1> HIDE DEF work
<1>4. work \subseteq [range : Ranges, tickers : SUBSET Tickers]
  <2> SUFFICES ASSUME NEW w \in work PROVE w \in [range : Ranges, tickers : SUBSET Tickers]
    OBVIOUS
  <2>1. PICK r \in UNION {of(s) : s \in tickers} : w = [range |-> r, tickers |-> {u \in tickers : r \in of(u)}]
    BY <1>3
  <2> DEFINE users == {u \in tickers : r \in of(u)}
  <2>2. users \in SUBSET Tickers /\ r \in Ranges
    BY <1>0, <1>2
  <2>3. w = [range |-> r, tickers |-> users]
    BY <2>1
  <2> HIDE DEF users
  <2> QED BY <2>2, <2>3
<1> PICK yes \in BOOLEAN : yes = TRUE
  OBVIOUS
<1>5. scan' = [on |-> yes, to |-> today, tickers |-> tickers, dates |-> dates, work |-> work]
  BY Zenon DEF ScanBegins, dates, work
<1>6. had' = {x \in offered : x[1] \in tickers /\ x[2] >= from}
  BY DEF ScanBegins
<1>7. UNCHANGED <<today, offered, fred, assets, bars, covered, broken, early>>
  BY DEF ScanBegins
<1>8. ASSUME NEW s \in tickers, NEW d \in dates, <<s, d>> \in had', ~AreKnown(s, d)
      PROVE  \E w \in work : s \in w.tickers /\ InRange(d, w.range)
  <2>1. <<s, d>> \in offered /\ <<s, d>> \in Bars /\ d \in Dates /\ from <= d /\ d <= today
    BY <1>0, <1>6, <1>8, BarsBound DEF ScanInv, Dates
  <2>2. \E r \in of(s) : InRange(d, r)
    <3>1. CASE force
      BY <2>1, <3>1 DEF InRange, of
    <3>2. CASE ~force
      <4>1. ~IsCovered(s, d)
        BY <1>8, <2>1 DEF IsCovered, ScanInv, InRange, Dates
      <4>2. d \in MissingDates(s, dates) /\ MissingDates(s, dates) \subseteq Dates
        BY <1>1, <1>8, <4>1 DEF MissingDates, AreKnown
      <4>3. \E r \in Collapsed(MissingDates(s, dates)) : r.first <= d /\ d <= r.last
        BY <4>2, CollapsedCovers
      <4> QED BY <3>2, <4>3 DEF InRange, of
    <3> QED BY <3>1, <3>2
  <2>3. PICK r \in of(s) : InRange(d, r)
    BY <2>2
  <2>4. [range |-> r, tickers |-> {u \in tickers : r \in of(u)}] \in work
    BY <1>3
  <2> QED BY <2>3, <2>4
<1>9. /\ scan'.tickers = tickers /\ scan'.dates = dates /\ scan'.work = work /\ scan'.on
      /\ scan' = [on |-> scan'.on, to |-> scan'.to, tickers |-> scan'.tickers, dates |-> scan'.dates, work |-> scan'.work]
  BY <1>5
<1>10. had' \subseteq offered'
  BY <1>6, <1>7
<1>11. \A c \in covered', d \in Dates : InRange(d, c) /\ <<c.ticker, d>> \in Bars => AreKnown(c.ticker, d)'
  BY <1>7 DEF ScanInv, AreKnown
<1>12. \A s \in scan'.tickers, d \in scan'.dates :
       <<s, d>> \in had' => AreKnown(s, d)' \/ \E w \in scan'.work : s \in w.tickers /\ InRange(d, w.range)
  BY <1>7, <1>8, <1>9 DEF AreKnown
<1> HIDE DEF tickers
<1> QED BY <1>0, <1>4, <1>7, <1>9, <1>10, <1>11, <1>12 DEF ScanInv

\* A wave stores what it asked for, or covers it too early.
LEMMA WaveStores ==
  ASSUME ScanInv, NEW w \in scan.work, NEW tickers \in SUBSET w.tickers, StoreWave(w, tickers)
  PROVE  ScanInv'
<1> DEFINE asked == tickers \X (w.range.first .. w.range.last)
           left == (scan.work \ {w})
                     \cup (IF tickers = w.tickers THEN {} ELSE {[w EXCEPT !.tickers = @ \ tickers]})
<1>0. /\ w \in [range : Ranges, tickers : SUBSET Tickers]
      /\ w.range \in Ranges /\ tickers \subseteq Tickers /\ w.range.first \in Dates /\ w.range.last \in Dates
      /\ Dates \subseteq Int
  BY DEF ScanInv, Ranges, Dates
<1>1. /\ bars' = bars \cup (asked \cap offered)
      /\ early' = early \cup ((asked \cap Bars) \ offered)
      /\ covered' = covered \cup {[ticker |-> s, first |-> w.range.first, last |-> w.range.last] : s \in tickers}
      /\ scan' = [scan EXCEPT !.work = left]
      /\ UNCHANGED <<today, offered, fred, assets, broken, had>>
  BY DEF StoreWave
<1>2. \A s, d : AreKnown(s, d) => AreKnown(s, d)'
  BY <1>1 DEF AreKnown
<1>3. \A s \in tickers, d \in Dates : InRange(d, w.range) /\ <<s, d>> \in Bars => AreKnown(s, d)'
  BY <1>0, <1>1 DEF AreKnown, InRange
<1>4. left \subseteq [range : Ranges, tickers : SUBSET Tickers]
  BY <1>0 DEF ScanInv
<1>5. /\ scan'.work = left /\ scan'.on = scan.on /\ scan'.tickers = scan.tickers /\ scan'.dates = scan.dates
      /\ scan' = [on |-> scan'.on, to |-> scan'.to, tickers |-> scan'.tickers, dates |-> scan'.dates, work |-> scan'.work]
  <2> HIDE DEF left
  <2> QED BY <1>1 DEF ScanInv
<1>6. covered' \subseteq [ticker : Tickers, first : Dates, last : Dates]
  BY <1>0, <1>1 DEF ScanInv
<1>7. \A c \in covered', d \in Dates : InRange(d, c) /\ <<c.ticker, d>> \in Bars => AreKnown(c.ticker, d)'
  <2> SUFFICES ASSUME NEW c \in covered', NEW d \in Dates, InRange(d, c), <<c.ticker, d>> \in Bars
               PROVE  AreKnown(c.ticker, d)'
    OBVIOUS
  <2>1. CASE c \in covered
    BY <1>2, <2>1 DEF ScanInv
  <2>2. ASSUME NEW s \in tickers, c = [ticker |-> s, first |-> w.range.first, last |-> w.range.last]
        PROVE  AreKnown(c.ticker, d)'
    <3>1. InRange(d, w.range) /\ c.ticker = s
      BY <2>2 DEF InRange
    <3> QED BY <1>3, <3>1
  <2> QED BY <1>1, <2>1, <2>2
<1>8. ASSUME NEW s \in scan.tickers, NEW d \in scan.dates, <<s, d>> \in had
      PROVE  AreKnown(s, d)' \/ \E v \in left : s \in v.tickers /\ InRange(d, v.range)
  <2>1. d \in Dates /\ <<s, d>> \in Bars
    BY <1>8, BarsBound DEF ScanInv
  <2>2. CASE AreKnown(s, d)
    BY <1>2, <2>2
  <2>3. ASSUME NEW v \in scan.work, s \in v.tickers, InRange(d, v.range)
        PROVE  AreKnown(s, d)' \/ \E u \in left : s \in u.tickers /\ InRange(d, u.range)
    <3>1. CASE v # w
      BY <2>3, <3>1
    <3>2. CASE v = w /\ s \in tickers
      BY <1>3, <2>1, <2>3, <3>2
    <3>3. CASE v = w /\ s \notin tickers
      <4> DEFINE rest == [w EXCEPT !.tickers = @ \ tickers]
      <4>1. rest.tickers = w.tickers \ tickers /\ rest.range = w.range
        BY <1>0
      <4>2. tickers # w.tickers
        BY <2>3, <3>3
      <4>3. rest \in left
        BY <4>2
      <4> HIDE DEF left, rest
      <4> QED BY <2>3, <3>3, <4>1, <4>3
    <3> QED BY <3>1, <3>2, <3>3
  <2> HIDE DEF left
  <2> QED BY <1>8, <2>2, <2>3 DEF ScanInv
<1> HIDE DEF left
<1> QED BY <1>0, <1>1, <1>4, <1>5, <1>6, <1>7, <1>8 DEF ScanInv

\* ScanInv is an inductive invariant of scans and the steps that they depend on.
THEOREM ScanInvariant == ScanSpec => []ScanInv
<1>0. ScanInit => ScanInv
  <2> SUFFICES ASSUME ScanInit PROVE ScanInv
    OBVIOUS
  <2> PICK no \in BOOLEAN : no = FALSE
    OBVIOUS
  <2>1. scan = [on |-> no, to |-> 0, tickers |-> {}, dates |-> {}, work |-> {}]
    BY Zenon DEF ScanInit, NoScan
  <2>2. today \in Dates
    BY ScanAssumption DEF ScanInit, Dates
  <2> QED BY <2>1, <2>2 DEF ScanInit, ScanInv
<1>1. ScanInv /\ [ScanNext]_scanVars => ScanInv'
  <2> SUFFICES ASSUME ScanInv, [ScanNext]_scanVars PROVE ScanInv'
    OBVIOUS
  <2>1. CASE Closes
    <3>1. today \in Dates /\ today' = today + 1 /\ today' \in Dates
      BY <2>1, ScanAssumption DEF Closes, ScanInv, Dates
    <3>2. PICK late : late \subseteq {x \in Bars : x[2] = today'}
                      /\ offered' = (offered \cup {x \in Bars : x[2] = today'}) \ late
      BY <2>1 DEF Closes
    <3>3. offered' \subseteq Bound(today')
      BY <3>1, <3>2 DEF ScanInv, Bound, Bars, Dates
    <3>4. had = {} /\ UNCHANGED <<fred, assets, bars, covered, scan, broken, had, early>>
      BY <2>1 DEF Closes, ScanInv
    <3> QED BY <3>1, <3>3, <3>4 DEF ScanInv, AreKnown
  <2>2. CASE \E x \in Bars : Offers(x)
    <3>1. offered \subseteq offered' /\ offered' \subseteq Bound(today)
      BY <2>2 DEF Offers, ScanInv
    <3>2. UNCHANGED <<today, fred, assets, bars, covered, scan, broken, had, early>>
      BY <2>2 DEF Offers
    <3> QED BY <3>1, <3>2 DEF ScanInv, AreKnown
  <2>3. CASE \E d \in Dates : BenchmarkSync(d)
    BY <2>3 DEF BenchmarkSync, ScanInv, AreKnown
  <2>4. CASE \E tradable \in SUBSET (Tickers \ Benchmarks) : UniverseSync(tradable)
    BY <2>4 DEF UniverseSync, ScanInv, AreKnown
  <2>5. CASE ScanFails \/ ScanEnds
    <3> PICK no \in BOOLEAN : no = FALSE
      OBVIOUS
    <3>1. scan' = [on |-> no, to |-> 0, tickers |-> {}, dates |-> {}, work |-> {}]
      BY <2>5, Zenon DEF ScanFails, ScanEnds, NoScan
    <3>2. had' = {} /\ UNCHANGED <<today, offered, fred, assets, bars, covered, early>>
      BY <2>5 DEF ScanFails, ScanEnds
    <3>3. /\ scan'.tickers = {} /\ scan'.work = {}
          /\ scan' = [on |-> scan'.on, to |-> scan'.to, tickers |-> scan'.tickers, dates |-> scan'.dates, work |-> scan'.work]
      BY <3>1
    <3> QED BY <3>2, <3>3 DEF ScanInv, AreKnown
  <2>6. CASE UNCHANGED scanVars
    BY <2>6 DEF scanVars, ScanInv, AreKnown
  <2> QED BY <2>1, <2>2, <2>3, <2>4, <2>5, <2>6, BeginningPlans, WaveStores DEF ScanNext
<1> QED BY <1>0, <1>1, PTL DEF ScanSpec

\* A scan that has ended well has the bars that the provider had when it began of every date
\* that it expected (cmd_scan, plan_bar_scan_ranges, collapse_missing_dates).
THEOREM ScansStayComplete == ScanSpec => []ExpectedAreFetched
<1>1. ScanInv => ExpectedAreFetched
  BY DEF ScanInv, ExpectedAreFetched, ScanEnded, AreKnown
<1> QED BY <1>1, ScanInvariant, PTL

-----------------------------------------------------------------------------
(* Dataset files, models and folds (ModelTraining)                          *)

StepNames == {"train", "walk", "baselines", "variants", "predict"}
Place(step) ==
  CASE step = "train" -> 1 [] step = "walk" -> 2 [] step = "baselines" -> 3
    [] step = "variants" -> 4 [] OTHER -> 5

\* Steps that are left stand in the pipeline's order.
InOrder(todo) ==
  /\ todo \in Seq(StepNames)
  /\ \A i, j \in 1 .. Len(todo) : i < j => Place(todo[i]) < Place(todo[j])
Lists(todo, step) == \E i \in 1 .. Len(todo) : todo[i] = step

Places == {"rest", "step", "files", "writing", "fitting", "xgb", "predicting"}
Process == [todo : Seq(StepNames), at : Places, set : Sets, folds : Seq(Folds),
            cached : SUBSET Sets, tries : Seq({"cuda", "cpu"}), due : BOOLEAN]

\* Where a process stands fits the step it is at, and so do its files, which it remembers
\* while it trains on them.  No command by hand predicts.
Fits(w, p) ==
  LET step == Head(p.todo) IN
  /\ p \in Process /\ InOrder(p.todo)
  /\ p.at \notin {"rest", "step"} => p.todo # << >>
  /\ p.at = "predicting" => step = "predict"
  /\ w = "hand" => ~Lists(p.todo, "predict")
  /\ p.at \in {"files", "writing", "fitting", "xgb"} =>
       step # "predict" /\ (step \in {"train", "baselines"} <=> p.set = "all")
  /\ p.at = "xgb" => step # "train"
  /\ p.at \in {"fitting", "xgb"} => p.set \in p.cached

ProcessesOK == worker \in [Workers -> Process] /\ \A w \in Workers : Fits(w, worker[w])

Produced == [of |-> "all", chain |-> chain, data |-> "whole", torn |-> FALSE]

\* The files of all years, while no command by hand has written them: the pipeline's own
\* process writes them, or has written them whole.
FilesAreOwn ==
  LET p == worker["run"]
      writes == p.at = "writing" /\ p.set = "all"
  IN  /\ writes => sets["all"].by = "run"
      /\ "all" \in p.cached /\ ~writes => sets["all"].rows \in {"none", "whole"}

\* The pipeline's baselines are done after its folds, and before it predicts.
BaselinesInTime ==
  LET p == worker["run"]
  IN  /\ "baselines" \in completed => ~Lists(p.todo, "walk")
      /\ p.at # "rest" => "baselines" \in completed \/ Lists(p.todo, "baselines")

\* The models that the completed steps of the pipeline left.
ModelsAreOwn ==
  /\ ~spoiled /\ "train" \in completed => models["lgb"] = Produced
  /\ ~spoiled /\ ~replaced /\ ~excused /\ "baselines" \in completed =>
       models["xgb"] = Produced \/ models["xgb"].torn

ModelsInv ==
  /\ ModelTypeOK /\ {chain, runs, hands} \subseteq Nat
  /\ ProcessesOK
  /\ ~spoiled => FilesAreOwn
  /\ ~excused => BaselinesInTime
  /\ ModelsAreOwn
  /\ FoldsDoNotPredict

\* The steps of the first n places, in order, without those skipped.
UpTo(todo, n, skips) ==
  /\ InOrder(todo)
  /\ \A i \in 1 .. Len(todo) : Place(todo[i]) <= n
  /\ \A step \in StepNames : Place(step) <= n => (Lists(todo, step) <=> step \notin skips)

\* The next step is put behind them, or is skipped.
LEMMA OneMore ==
  ASSUME NEW skips, NEW todo, NEW step \in StepNames, UpTo(todo, Place(step) - 1, skips)
  PROVE  UpTo(todo \o Kept(step, skips), Place(step), skips)
<1>1. \A s \in StepNames : Place(s) \in 1 .. 5 /\ (Place(s) = Place(step) => s = step)
  BY DEF StepNames, Place
<1> DEFINE n == Place(step)
<1>2. n \in 1 .. 5
  BY <1>1
<1> DEFINE new == todo \o Kept(step, skips)
<1>3. todo \in Seq(StepNames)
  BY DEF UpTo, InOrder
<1>4. \A i, j \in 1 .. Len(todo) : i < j => Place(todo[i]) < Place(todo[j])
  BY DEF UpTo, InOrder
<1>5. \A i \in 1 .. Len(todo) : Place(todo[i]) <= n - 1
  BY DEF UpTo
<1>6. \A s \in StepNames : Place(s) <= n - 1 => (Lists(todo, s) <=> s \notin skips)
  BY DEF UpTo
<1>7. \A s \in StepNames : Place(s) <= n => Place(s) <= n - 1 \/ s = step
  BY <1>1, <1>2
<1>8. CASE step \in skips
  <2>1. new = todo
    BY <1>3, <1>8 DEF Kept
  <2>2. ~Lists(todo, step)
    BY <1>2, <1>5 DEF Lists
  <2> HIDE DEF n, new
  <2>3. InOrder(new)
    BY <1>3, <1>4, <2>1 DEF InOrder
  <2>4. \A i \in 1 .. Len(todo) : Place(todo[i]) <= n
    <3> SUFFICES ASSUME NEW i \in 1 .. Len(todo) PROVE Place(todo[i]) <= n
      OBVIOUS
    <3>1. todo[i] \in StepNames
      BY <1>3
    <3> QED BY <3>1, <1>1, <1>2, <1>5
  <2>5. \A s \in StepNames : Place(s) <= n => (Lists(new, s) <=> s \notin skips)
    BY <1>6, <1>7, <1>8, <2>1, <2>2
  <2>6. UpTo(new, n, skips)
    BY <2>1, <2>3, <2>4, <2>5 DEF UpTo
  <2> QED BY <2>6 DEF n, new
<1>9. CASE step \notin skips
  <2>1. /\ new \in Seq(StepNames) /\ Len(new) = Len(todo) + 1
        /\ \A i \in 1 .. Len(new) : new[i] = IF i = Len(todo) + 1 THEN step ELSE todo[i]
    BY <1>3, <1>9 DEF Kept
  <2>2. \A i \in 1 .. Len(new) : i = Len(todo) + 1 \/ i \in 1 .. Len(todo)
    BY <1>3, <2>1
  <2>10. Len(todo) + 1 \in 1 .. Len(new)
    BY <1>3, <2>1
  <2> HIDE DEF n, new
  <2>3. \A i \in 1 .. Len(todo) : i \in 1 .. Len(new) /\ i # Len(todo) + 1 /\ new[i] = todo[i]
    BY <1>3, <2>1
  <2>4. \A s : Lists(new, s) <=> Lists(todo, s) \/ s = step
    BY <2>1, <2>2, <2>10, <2>3 DEF Lists
  <2>5. \A i \in 1 .. Len(todo) : Place(todo[i]) \in 1 .. 5
    BY <1>1, <1>3
  <2>6. \A i \in 1 .. Len(new) : Place(new[i]) <= n
    BY <1>2, <1>5, <2>1, <2>2, <2>5 DEF n
  <2>7. InOrder(new)
    <3> SUFFICES ASSUME NEW i \in 1 .. Len(new), NEW j \in 1 .. Len(new), i < j
                 PROVE  Place(new[i]) < Place(new[j])
      BY <2>1 DEF InOrder
    <3>1. i \in 1 .. Len(todo) /\ new[i] = todo[i]
      BY <1>3, <2>1, <2>2
    <3>2. CASE j \in 1 .. Len(todo)
      BY <1>4, <2>3, <3>1, <3>2
    <3>3. CASE j = Len(todo) + 1
      <4>1. new[j] = step
        BY <2>1, <3>3
      <4> QED BY <1>2, <1>5, <2>5, <3>1, <4>1 DEF n
    <3> QED BY <2>2, <3>2, <3>3
  <2>8. \A s \in StepNames : Place(s) <= n => (Lists(new, s) <=> s \notin skips)
    <3> SUFFICES ASSUME NEW s \in StepNames, Place(s) <= n PROVE Lists(new, s) <=> s \notin skips
      OBVIOUS
    <3>1. CASE s = step
      BY <1>9, <2>4, <3>1
    <3>2. CASE Place(s) <= n - 1 /\ s # step
      BY <1>6, <2>4, <3>2
    <3> QED BY <1>7, <3>1, <3>2
  <2>9. UpTo(new, n, skips)
    BY <2>6, <2>7, <2>8 DEF UpTo
  <2> QED BY <2>9 DEF n, new
<1> QED BY <1>8, <1>9

\* A pipeline has the steps it does not skip, in order.
LEMMA StepsAreListed ==
  ASSUME NEW skips
  PROVE  /\ InOrder(Steps(skips))
         /\ \A step \in StepNames : Lists(Steps(skips), step) <=> step \notin skips
<1> DEFINE a == << >> \o Kept("train", skips)
           b == a \o Kept("walk", skips)
           c == b \o Kept("baselines", skips)
           d == c \o Kept("variants", skips)
           e == d \o Kept("predict", skips)
<1>1. /\ Place("train") = 1 /\ Place("walk") = 2 /\ Place("baselines") = 3
      /\ Place("variants") = 4 /\ Place("predict") = 5
      /\ 1 - 1 = 0 /\ 2 - 1 = 1 /\ 3 - 1 = 2 /\ 4 - 1 = 3 /\ 5 - 1 = 4
  BY DEF Place
<1>2. {"train", "walk", "baselines", "variants", "predict"} = StepNames
  BY DEF StepNames
<1>3. UpTo(<< >>, 0, skips)
  <2>1. \A step \in StepNames : ~(Place(step) <= 0)
    BY DEF StepNames, Place
  <2> QED BY <2>1 DEF UpTo, InOrder
<1>4. \A step \in StepNames : Kept(step, skips) \in Seq(StepNames)
  BY DEF Kept
<1>5. e = Steps(skips)
  BY <1>2, <1>4 DEF Steps
<1> HIDE DEF a, b, c, d, e
<1>a. UpTo(a, 1, skips)
  BY <1>1, <1>2, <1>3, OneMore DEF a
<1>b. UpTo(b, 2, skips)
  BY <1>1, <1>2, <1>a, OneMore DEF b
<1>c. UpTo(c, 3, skips)
  BY <1>1, <1>2, <1>b, OneMore DEF c
<1>d. UpTo(d, 4, skips)
  BY <1>1, <1>2, <1>c, OneMore DEF d
<1>e. UpTo(e, 5, skips)
  BY <1>1, <1>2, <1>d, OneMore DEF e
<1>6. \A step \in StepNames : Place(step) <= 5
  BY DEF StepNames, Place
<1> QED BY <1>5, <1>6, <1>e DEF UpTo

\* A pair of files is of all years, the variant or a fold.
LEMMA SetFacts ==
  /\ "all" \in Sets /\ "variant" \in Sets /\ Folds \subseteq Sets
  /\ "all" \notin Folds /\ "none" \notin Sets
  /\ Years \in Seq(Folds) /\ Head(Years) \in Folds /\ Tail(Years) \in Seq(Folds)
<1>1. Years \in Seq(STRING \ {"all", "variant", "none"}) /\ Years # << >>
  BY ModelsAssumption
<1>2. Folds = {Years[i] : i \in DOMAIN Years}
  BY DEF Folds, Range
<1>3. \A i \in 1 .. Len(Years) : Years[i] \in Folds /\ Years[i] \notin {"all", "variant", "none"}
  BY <1>1, <1>2
<1>4. Years \in Seq(Folds)
  BY <1>1, <1>3
<1>5. Head(Years) \in Folds /\ Tail(Years) \in Seq(Folds)
  BY <1>1, <1>4
<1>6. "all" \notin Folds /\ "none" \notin Folds
  BY <1>1, <1>2, <1>3
<1> QED BY <1>4, <1>5, <1>6 DEF Sets

\* The steps after the first one keep the order, and are all the others.
LEMMA RestInOrder ==
  ASSUME NEW todo, InOrder(todo), todo # << >>
  PROVE  /\ Head(todo) \in StepNames /\ InOrder(Tail(todo)) /\ Lists(todo, Head(todo))
         /\ \A step : Lists(Tail(todo), step) => Lists(todo, step) /\ Place(Head(todo)) < Place(step)
         /\ \A step : Lists(todo, step) => step = Head(todo) \/ Lists(Tail(todo), step)
<1> DEFINE rest == Tail(todo)
<1>1. /\ todo \in Seq(StepNames) /\ Len(todo) \in Nat \ {0}
      /\ \A i, j \in 1 .. Len(todo) : i < j => Place(todo[i]) < Place(todo[j])
  BY DEF InOrder
<1>2. /\ rest \in Seq(StepNames) /\ Len(rest) = Len(todo) - 1 /\ Head(todo) = todo[1]
      /\ \A i \in 1 .. Len(rest) : i + 1 \in 1 .. Len(todo) /\ rest[i] = todo[i + 1] /\ 1 < i + 1
  BY <1>1
<1>3. 1 \in 1 .. Len(todo) /\ Head(todo) \in StepNames
  BY <1>1, <1>2
<1>4. \A i \in 1 .. Len(todo) : i = 1 \/ (i - 1 \in 1 .. Len(rest) /\ rest[i - 1] = todo[i])
  BY <1>1, <1>2
<1> HIDE DEF rest
<1>5. InOrder(rest)
  <2> SUFFICES ASSUME NEW i \in 1 .. Len(rest), NEW j \in 1 .. Len(rest), i < j
               PROVE  Place(rest[i]) < Place(rest[j])
    BY <1>2 DEF InOrder
  <2>1. i + 1 < j + 1
    OBVIOUS
  <2> QED BY <1>1, <1>2, <2>1
<1>6. \A step : Lists(rest, step) => Lists(todo, step) /\ Place(Head(todo)) < Place(step)
  <2> SUFFICES ASSUME NEW i \in 1 .. Len(rest)
               PROVE  Lists(todo, rest[i]) /\ Place(Head(todo)) < Place(rest[i])
    BY DEF Lists
  <2> QED BY <1>1, <1>2, <1>3 DEF Lists
<1>7. \A step : Lists(todo, step) => step = Head(todo) \/ Lists(rest, step)
  BY <1>2, <1>4 DEF Lists
<1>8. Lists(todo, Head(todo))
  BY <1>2, <1>3 DEF Lists
<1> QED BY <1>3, <1>5, <1>6, <1>7, <1>8 DEF rest

\* A process at rest, and one that begins with some steps.
LEMMA RestedFits ==
  /\ AtRestW.at = "rest" /\ AtRestW.todo = << >> /\ AtRestW.cached = {} /\ \A w : Fits(w, AtRestW)
  /\ \A w, todo, due : InOrder(todo) /\ (w = "hand" => ~Lists(todo, "predict")) /\ due \in BOOLEAN =>
       LET p == [AtRestW EXCEPT !.todo = todo, !.at = "step", !.due = due]
       IN  p.at = "step" /\ p.todo = todo /\ p.cached = {} /\ Fits(w, p)
<1> PICK no \in BOOLEAN : no = FALSE
  OBVIOUS
<1>1. AtRestW = [todo |-> << >>, at |-> "rest", set |-> "all", folds |-> << >>, cached |-> {},
                 tries |-> << >>, due |-> no]
  BY Zenon DEF AtRestW
<1>2. \A S : << >> \in Seq(S)
  OBVIOUS
<1>3. InOrder(<< >>) /\ \A step : ~Lists(<< >>, step)
  BY DEF InOrder, Lists
<1>4. AtRestW.at = "rest" /\ AtRestW.todo = << >> /\ AtRestW.cached = {}
  BY <1>1
<1>5. AtRestW \in Process
  BY <1>1, <1>2, SetFacts DEF Process, Places
<1>6. \A w : Fits(w, AtRestW)
  BY <1>3, <1>4, <1>5 DEF Fits
<1>7. ASSUME NEW w, NEW todo, NEW due, InOrder(todo),
             w = "hand" => ~Lists(todo, "predict"), due \in BOOLEAN
      PROVE  LET p == [AtRestW EXCEPT !.todo = todo, !.at = "step", !.due = due]
             IN  p.at = "step" /\ p.todo = todo /\ p.cached = {} /\ Fits(w, p)
  <2> DEFINE p == [AtRestW EXCEPT !.todo = todo, !.at = "step", !.due = due]
  <2>1. todo \in Seq(StepNames)
    BY <1>7 DEF InOrder
  <2>2. p \in Process
    BY <1>5, <1>7, <2>1 DEF Process, Places
  <2>3. p.at = "step" /\ p.todo = todo /\ p.cached = {}
    BY <1>4, <1>5 DEF Process
  <2> HIDE DEF p
  <2>4. Fits(w, p)
    BY <1>7, <2>2, <2>3 DEF Fits
  <2> QED BY <2>3, <2>4 DEF p
<1> QED BY <1>4, <1>6, <1>7

\* One process goes on, and the others stay.
LEMMA OneProcess ==
  ASSUME ProcessesOK, NEW w \in Workers, NEW p, Fits(w, p), worker' = [worker EXCEPT ![w] = p]
  PROVE  ProcessesOK' /\ worker'[w] = p /\ \A v \in Workers \ {w} : worker'[v] = worker[v]
<1>1. p \in Process
  BY DEF Fits
<1>2. /\ worker' \in [Workers -> Process] /\ worker'[w] = p
      /\ \A v \in Workers \ {w} : worker'[v] = worker[v]
  BY <1>1 DEF ProcessesOK
<1>3. \A v \in Workers : Fits(v, worker'[v])
  BY <1>2 DEF ProcessesOK
<1>4. ProcessesOK'
  <2>1. ASSUME NEW v \in Workers PROVE Fits(v, worker[v])'
    BY <1>3 DEF Fits
  <2> QED BY <1>2, <2>1 DEF ProcessesOK
<1> QED BY <1>2, <1>4

\* A process moves to another place of the step it is at.
LEMMA PlaceFits ==
  ASSUME NEW w, NEW q, Fits(w, q), NEW place \in Places, q.todo # << >>,
         NEW p, p = [q EXCEPT !.at = place]
  PROVE  /\ p \in Process /\ p.at = place /\ p.todo = q.todo /\ p.set = q.set /\ p.cached = q.cached
         /\ p.folds = q.folds /\ p.tries = q.tries
         /\ InOrder(q.todo) /\ Head(q.todo) \in StepNames
         /\ (place = "predicting" => Head(q.todo) = "predict") /\
            (place \in {"files", "writing", "fitting", "xgb"} =>
               /\ Head(q.todo) # "predict"
               /\ Head(q.todo) \in {"train", "baselines"} <=> q.set = "all") /\
            (place = "xgb" => Head(q.todo) # "train") /\
            (place \in {"fitting", "xgb"} => q.set \in q.cached)
            => Fits(w, p)
<1>1. q \in Process /\ InOrder(q.todo)
  BY DEF Fits
<1>2. p \in Process /\ p.at = place /\ p.todo = q.todo /\ p.set = q.set /\ p.cached = q.cached
      /\ p.folds = q.folds /\ p.tries = q.tries
  BY <1>1 DEF Process
<1>3. Head(q.todo) \in StepNames
  BY <1>1, RestInOrder
<1> QED BY <1>1, <1>2, <1>3 DEF Fits

\* What is left of a process after a step of its own: a step less, or nothing.
Goes(w, q, p) ==
  \/ p = AtRestW
  \/ /\ Fits(w, p) /\ p.at = "step" /\ p.todo = Tail(q.todo) /\ p.cached = q.cached

\* A step that is done, or fails before its checkpoint is written.
LEMMA DoneGoes ==
  ASSUME ProcessesOK, NEW w \in Workers, worker[w].todo # << >>, StepDone(w)
  PROVE  \E p : /\ worker' = [worker EXCEPT ![w] = p] /\ Goes(w, worker[w], p)
                /\ completed' = IF w = "run" /\ p # AtRestW THEN completed \cup {Head(worker[w].todo)}
                                ELSE completed
<1> DEFINE q == worker[w]
           p == [q EXCEPT !.todo = Tail(q.todo), !.at = "step", !.tries = << >>]
<1>1. q \in Process /\ InOrder(q.todo) /\ q.todo # << >>
  BY DEF ProcessesOK, Fits
<1>2. InOrder(Tail(q.todo)) /\ Tail(q.todo) \in Seq(StepNames)
  BY <1>1, RestInOrder DEF InOrder
<1>8. << >> \in Seq({"cuda", "cpu"})
  OBVIOUS
<1>3. p \in Process /\ p.at = "step" /\ p.todo = Tail(q.todo) /\ p.cached = q.cached
  BY <1>1, <1>2, <1>8 DEF Process, Places
<1>4. Goes(w, q, p)
  <2>1. w = "hand" => ~Lists(p.todo, "predict")
    BY <1>1, <1>3, RestInOrder DEF ProcessesOK, Fits
  <2> QED BY <1>2, <1>3, <2>1 DEF Goes, Fits
<1>5. p # AtRestW
  BY <1>3, RestedFits
<1>6. CASE StepFails(w)
  BY <1>6 DEF StepFails, Goes
<1>7. CASE ~StepFails(w)
  <2>1. worker' = [worker EXCEPT ![w].todo = Tail(@), ![w].at = "step", ![w].tries = << >>]
    BY <1>7 DEF StepDone
  <2>2. worker' = [worker EXCEPT ![w] = p]
    BY <2>1 DEF ProcessesOK
  <2>3. completed' = IF w = "run" THEN completed \cup {Head(q.todo)} ELSE completed
    BY <1>7 DEF StepDone, StepOf
  <2> HIDE DEF p
  <2> QED BY <1>4, <1>5, <2>2, <2>3
<1> QED BY <1>6, <1>7

\* A process that goes on with its steps, or with the files of its next fold.
LEMMA AfterXgbGoes ==
  ASSUME ProcessesOK, NEW w \in Workers, worker[w].at = "xgb", AfterXgb(w)
  PROVE  \E p : /\ worker' = [worker EXCEPT ![w] = p] /\ Fits(w, p) /\ p.at \in {"rest", "step", "files"}
                /\ \/ Goes(w, worker[w], p)
                   \/ /\ p.at = "files" /\ p.todo = worker[w].todo /\ p.cached = worker[w].cached
                      /\ Head(p.todo) = "walk"
                /\ completed' = IF w = "run" /\ p.at = "step" THEN completed \cup {Head(worker[w].todo)}
                                ELSE completed
<1> DEFINE q == worker[w]
<1>1. q \in Process /\ InOrder(q.todo) /\ q.todo # << >>
  BY DEF ProcessesOK, Fits
<1>2. CASE StepOf(w) = "walk" /\ q.folds # << >>
  <2> DEFINE p == [q EXCEPT !.at = "files", !.set = Head(q.folds), !.folds = Tail(q.folds), !.tries = << >>]
  <2>1. worker' = [worker EXCEPT ![w].at = "files", ![w].set = Head(q.folds), ![w].folds = Tail(@), ![w].tries = << >>]
        /\ UNCHANGED completed
    BY <1>2 DEF AfterXgb
  <2>2. worker' = [worker EXCEPT ![w] = p]
    BY <2>1 DEF ProcessesOK
  <2>3. Head(q.folds) \in Folds /\ Tail(q.folds) \in Seq(Folds)
    BY <1>1, <1>2 DEF Process
  <2>4. Head(q.folds) \in Sets /\ Head(q.folds) # "all"
    BY <2>3, SetFacts
  <2>5. /\ p \in Process /\ p.at = "files" /\ p.todo = q.todo /\ p.cached = q.cached
        /\ p.set = Head(q.folds)
    <3>1. << >> \in Seq({"cuda", "cpu"})
      OBVIOUS
    <3> QED BY <1>1, <2>3, <2>4, <3>1 DEF Process, Places
  <2>6. Head(q.todo) = "walk"
    BY <1>2 DEF StepOf
  <2>8. w = "hand" => ~Lists(p.todo, "predict")
    BY <2>5 DEF ProcessesOK, Fits
  <2>7. Fits(w, p)
    BY <1>1, <2>4, <2>5, <2>6, <2>8 DEF Fits
  <2> HIDE DEF p
  <2> QED BY <2>1, <2>2, <2>5, <2>6, <2>7
<1>3. CASE StepDone(w)
  <2>1. PICK p : /\ worker' = [worker EXCEPT ![w] = p] /\ Goes(w, q, p)
                 /\ completed' = IF w = "run" /\ p # AtRestW THEN completed \cup {Head(q.todo)} ELSE completed
    BY <1>1, <1>3, DoneGoes
  <2>2. Fits(w, p) /\ (p = AtRestW <=> p.at = "rest") /\ p.at \in {"rest", "step"}
    BY <2>1, RestedFits DEF Goes
  <2> QED BY <2>1, <2>2
<1> QED BY <1>2, <1>3 DEF AfterXgb

\* The actions of a process between its beginning and its end.
Acts(w) ==
  \/ StepBegins(w) \/ Broken(w) \/ ChildLeft(w) \/ Ends(w)
  \/ FilesReused(w) \/ FilesTruncated(w) \/ FilesWritten(w)
  \/ ProductionTrained(w) \/ ComparisonTrained(w) \/ RidgeTrained(w) \/ XgbTrained(w)
  \/ XgbFails(w) \/ Predicts(w)

\* What an action does to its process, and to the checkpoint.
Moved(w, q, p) ==
  /\ worker' = [worker EXCEPT ![w] = p] /\ Fits(w, p)
  /\ p.at = "writing" => FilesTruncated(w)
  /\ FilesTruncated(w) => p.at = "writing" /\ p.set = q.set
  /\ \A s \in p.cached : s \in q.cached \/ (FilesWritten(w) /\ s = q.set)
  /\ \/ /\ p = AtRestW
        /\ completed' = completed \/ (w = "run" /\ completed' = {})
     \/ p.todo = q.todo /\ p.at # "rest" /\ q.at # "rest" /\ completed' = completed
     \/ /\ p.at = "step" /\ q.todo # << >> /\ p.todo = Tail(q.todo)
        /\ completed' = IF w = "run" THEN completed \cup {Head(q.todo)} ELSE completed

\* A step that is done, and one that moves to another place.
LEMMA DoneMoves ==
  ASSUME ProcessesOK, NEW w \in Workers, worker[w].todo # << >>, StepDone(w), worker[w].at # "files"
  PROVE  \E p : Moved(w, worker[w], p)
<1>1. PICK p : /\ worker' = [worker EXCEPT ![w] = p] /\ Goes(w, worker[w], p)
               /\ completed' = IF w = "run" /\ p # AtRestW THEN completed \cup {Head(worker[w].todo)}
                               ELSE completed
  BY DoneGoes
<1>2. Fits(w, p) /\ (p = AtRestW <=> p.at = "rest") /\ p.at \in {"rest", "step"} /\ p.cached \subseteq worker[w].cached
  BY <1>1, RestedFits DEF Goes
<1>3. ~FilesTruncated(w)
  BY DEF FilesTruncated
<1> QED BY <1>1, <1>2, <1>3 DEF Moved, Goes

LEMMA PlaceMoves ==
  ASSUME ProcessesOK, NEW w \in Workers, worker[w].at \notin {"rest", "files"}, worker[w].todo # << >>,
         NEW p, Fits(w, p), worker' = [worker EXCEPT ![w] = p], p.at \notin {"rest", "writing"},
         p.todo = worker[w].todo, UNCHANGED completed,
         \A s \in p.cached : s \in worker[w].cached \/ (FilesWritten(w) /\ s = worker[w].set)
  PROVE  \E r : Moved(w, worker[w], r)
<1>1. ~FilesTruncated(w)
  BY DEF FilesTruncated
<1>2. Moved(w, worker[w], p)
  BY <1>1 DEF Moved
<1> QED BY <1>2

\* The files of a step.
LEMMA FilesFit ==
  ASSUME NEW step \in StepNames \ {"predict"}
  PROVE  /\ Head(FilesOf(step)) \in Sets /\ Tail(FilesOf(step)) \in Seq(Folds)
         /\ step \in {"train", "baselines"} <=> Head(FilesOf(step)) = "all"
<1>1. CASE step = "walk"
  BY <1>1, SetFacts DEF FilesOf
<1>2. CASE step # "walk"
  <2>1. PICK s \in {"all", "variant"} : FilesOf(step) = <<s>> /\ (s = "variant" <=> step = "variants")
    BY <1>2 DEF FilesOf
  <2>2. Head(<<s>>) = s /\ Tail(<<s>>) = << >> /\ << >> \in Seq(Folds)
    OBVIOUS
  <2> QED BY <1>2, <2>1, <2>2, SetFacts DEF StepNames
<1> QED BY <1>1, <1>2

\* Every action moves its process so.
LEMMA Moves ==
  ASSUME ProcessesOK, NEW w \in Workers, Acts(w)
  PROVE  \E p : Moved(w, worker[w], p)
<1> DEFINE q == worker[w]
<1>0. /\ worker \in [Workers -> Process] /\ q \in Process /\ Fits(w, q) /\ InOrder(q.todo)
      /\ q.at \notin {"rest", "step"} => q.todo # << >>
  BY DEF ProcessesOK, Fits
<1>1. CASE StepBegins(w)
  <2>0. q.at = "step" /\ q.todo # << >> /\ Head(q.todo) \in StepNames
    BY <1>0, <1>1, RestInOrder DEF StepBegins
  <2>1. CASE StepDone(w)
    BY <2>0, <2>1, DoneMoves
  <2>2. CASE StepOf(w) = "predict" /\ StandsAt(w, "predicting") /\ UNCHANGED completed
    <3> DEFINE p == [q EXCEPT !.at = "predicting"]
    <3>1. Head(q.todo) = "predict"
      BY <2>2 DEF StepOf
    <3>2. Fits(w, p) /\ p.at = "predicting" /\ p.todo = q.todo /\ p.cached = q.cached
      BY <1>0, <2>0, <3>1, PlaceFits DEF Places
    <3>3. worker' = [worker EXCEPT ![w] = p]
      BY <1>0, <2>2 DEF StandsAt
    <3> HIDE DEF p
    <3> QED BY <2>0, <2>2, <3>2, <3>3, PlaceMoves
  <2>3. CASE /\ StepOf(w) # "predict"
             /\ worker' = [worker EXCEPT ![w].at = "files", ![w].set = Head(FilesOf(StepOf(w))),
                                         ![w].folds = Tail(FilesOf(StepOf(w)))]
             /\ UNCHANGED completed
    <3> DEFINE set == Head(FilesOf(StepOf(w)))
               folds == Tail(FilesOf(StepOf(w)))
               p == [q EXCEPT !.at = "files", !.set = set, !.folds = folds]
    <3>1. set \in Sets /\ folds \in Seq(Folds) /\ (Head(q.todo) \in {"train", "baselines"} <=> set = "all")
      BY <2>0, <2>3, FilesFit DEF StepOf
    <3>2. worker' = [worker EXCEPT ![w] = p]
      BY <1>0, <2>3
    <3>3. Head(q.todo) # "predict"
      BY <2>3 DEF StepOf
    <3> HIDE DEF set, folds
    <3>4. p \in Process /\ p.at = "files" /\ p.todo = q.todo /\ p.cached = q.cached /\ p.set = set
      BY <1>0, <3>1 DEF Process, Places
    <3> HIDE DEF p
    <3>5. Fits(w, p)
      BY <1>0, <2>0, <3>1, <3>3, <3>4 DEF Fits
    <3> QED BY <2>0, <2>3, <3>2, <3>4, <3>5, PlaceMoves
  <2> QED BY <1>1, <2>1, <2>2, <2>3 DEF StepBegins
<1>2. CASE Broken(w) \/ ChildLeft(w) \/ Ends(w)
  <2>1. worker' = [worker EXCEPT ![w] = AtRestW]
    BY <1>2 DEF Broken, ChildLeft, StepFails, Ends
  <2>2. completed' = completed \/ (w = "run" /\ completed' = {})
    BY <1>2 DEF Broken, ChildLeft, StepFails, Ends
  <2>3. ~FilesTruncated(w)
    <3>1. ASSUME FilesTruncated(w) PROVE FALSE
      <4>1. q.at = "files" /\ StandsAt(w, "writing")
        BY <3>1 DEF FilesTruncated
      <4>2. worker'[w].at = "writing"
        BY <1>0, <4>1 DEF StandsAt, Process
      <4>3. worker'[w] = AtRestW
        BY <1>0, <2>1
      <4> QED BY <4>2, <4>3, RestedFits
    <3> QED BY <3>1
  <2>4. Moved(w, q, AtRestW)
    BY <2>1, <2>2, <2>3, RestedFits DEF Moved
  <2> QED BY <2>4
<1>3. CASE FilesReused(w)
  <2> DEFINE p == [q EXCEPT !.at = "fitting"]
  <2>1. q.at = "files" /\ q.set \in q.cached /\ StandsAt(w, "fitting") /\ UNCHANGED completed
    BY <1>3 DEF FilesReused, Remembers, SetOf
  <2>6. q.todo # << >> /\ Head(q.todo) # "predict" /\ (Head(q.todo) \in {"train", "baselines"} <=> q.set = "all")
    BY <2>1, <1>0 DEF Fits
  <2>2. Fits(w, p) /\ p.at = "fitting" /\ p.todo = q.todo /\ p.cached = q.cached
    BY <1>0, <2>1, <2>6, PlaceFits DEF Places
  <2>3. worker' = [worker EXCEPT ![w] = p]
    BY <1>0, <2>1 DEF StandsAt
  <2>4. ~FilesTruncated(w)
    BY <1>3 DEF FilesReused, FilesTruncated
  <2> HIDE DEF p
  <2>5. Moved(w, q, p)
    BY <2>1, <2>2, <2>3, <2>4 DEF Moved
  <2> QED BY <2>5
<1>4. CASE FilesTruncated(w)
  <2> DEFINE p == [q EXCEPT !.at = "writing"]
  <2>1. q.at = "files" /\ StandsAt(w, "writing") /\ UNCHANGED completed
    BY <1>4 DEF FilesTruncated
  <2>6. q.todo # << >> /\ Head(q.todo) # "predict" /\ (Head(q.todo) \in {"train", "baselines"} <=> q.set = "all")
    BY <2>1, <1>0 DEF Fits
  <2>2. Fits(w, p) /\ p.at = "writing" /\ p.todo = q.todo /\ p.cached = q.cached /\ p.set = q.set
    BY <1>0, <2>1, <2>6, PlaceFits DEF Places
  <2>3. worker' = [worker EXCEPT ![w] = p]
    BY <1>0, <2>1 DEF StandsAt
  <2> HIDE DEF p
  <2>5. Moved(w, q, p)
    BY <1>4, <2>1, <2>2, <2>3 DEF Moved
  <2> QED BY <2>5
<1>5. CASE FilesWritten(w)
  <2> DEFINE p == [q EXCEPT !.at = "fitting", !.cached = @ \cup {q.set}]
  <2>1. q.at = "writing" /\ UNCHANGED completed
    BY <1>5 DEF FilesWritten
  <2>2. worker' = [worker EXCEPT ![w] = p]
    BY <1>0, <1>5 DEF FilesWritten, SetOf
  <2>3. /\ p \in Process /\ p.at = "fitting" /\ p.todo = q.todo /\ p.set = q.set
        /\ p.cached = q.cached \cup {q.set}
    BY <1>0 DEF Process, Places
  <2> HIDE DEF p
  <2>4. Fits(w, p)
    BY <1>0, <2>1, <2>3 DEF Fits
  <2> QED BY <1>0, <1>5, <2>1, <2>2, <2>3, <2>4, PlaceMoves
<1>6. CASE ProductionTrained(w)
  <2>1. q.at = "fitting" /\ StepDone(w)
    BY <1>6 DEF ProductionTrained, IsFitting
  <2> QED BY <1>0, <2>1, DoneMoves
<1>7. CASE ComparisonTrained(w) \/ RidgeTrained(w)
  <2>1. q.at = "fitting" /\ StepOf(w) \in {"walk", "variants", "baselines"} /\ BeginsXgb(w)
    BY <1>7 DEF ComparisonTrained, RidgeTrained, IsFitting
  <2>2. PICK tries \in Attempts : worker' = [worker EXCEPT ![w].at = "xgb", ![w].tries = tries]
    BY <2>1 DEF BeginsXgb
  <2>7. /\ <<"cuda", "cpu">> \in Seq({"cuda", "cpu"})
        /\ <<"cuda">> \in Seq({"cuda", "cpu"}) /\ <<"cpu">> \in Seq({"cuda", "cpu"})
    OBVIOUS
  <2>8. tries \in Seq({"cuda", "cpu"})
    BY <2>2, <2>7 DEF Attempts
  <2>3. tries \in Seq({"cuda", "cpu"}) /\ UNCHANGED completed
    BY <2>1, <2>8 DEF BeginsXgb
  <2> DEFINE p == [q EXCEPT !.at = "xgb", !.tries = tries]
  <2>4. worker' = [worker EXCEPT ![w] = p]
    BY <1>0, <2>2
  <2>5. /\ p \in Process /\ p.at = "xgb" /\ p.todo = q.todo /\ p.set = q.set
        /\ p.cached = q.cached
    BY <1>0, <2>3 DEF Process, Places
  <2> HIDE DEF p
  <2>6. Fits(w, p)
    BY <1>0, <2>1, <2>5 DEF Fits, StepOf
  <2> QED BY <1>0, <2>1, <2>3, <2>4, <2>5, <2>6, PlaceMoves
<1>8. CASE XgbTrained(w) \/ XgbFails(w)
  <2>0. q.at = "xgb" /\ q.todo # << >>
    BY <1>0, <1>8 DEF XgbTrained, XgbFails
  <2>1. CASE AfterXgb(w)
    <3>1. PICK p : /\ worker' = [worker EXCEPT ![w] = p] /\ Fits(w, p) /\ p.at \in {"rest", "step", "files"}
                   /\ \/ Goes(w, q, p)
                      \/ /\ p.at = "files" /\ p.todo = q.todo /\ p.cached = q.cached
                         /\ Head(p.todo) = "walk"
                   /\ completed' = IF w = "run" /\ p.at = "step" THEN completed \cup {Head(q.todo)}
                                   ELSE completed
      BY <2>0, <2>1, AfterXgbGoes
    <3>2. ~FilesTruncated(w)
      BY <2>0 DEF FilesTruncated
    <3>3. p.cached \subseteq q.cached /\ (p = AtRestW => p.at = "rest") /\ p.at # "writing"
      BY <3>1, RestedFits DEF Goes
    <3>4. Moved(w, q, p)
      BY <2>0, <3>1, <3>2, <3>3 DEF Moved, Goes
    <3> QED BY <3>4
  <2>2. CASE worker' = [worker EXCEPT ![w].tries = Tail(@)] /\ Len(q.tries) > 1 /\ UNCHANGED completed
    <3> DEFINE p == [q EXCEPT !.tries = Tail(q.tries)]
    <3>1. worker' = [worker EXCEPT ![w] = p]
      BY <1>0, <2>2
    <3>2. Tail(q.tries) \in Seq({"cuda", "cpu"})
      BY <1>0, <2>2 DEF Process
    <3>3. /\ p \in Process /\ p.at = "xgb" /\ p.todo = q.todo /\ p.set = q.set
          /\ p.cached = q.cached
      BY <1>0, <2>0, <3>2 DEF Process
    <3> HIDE DEF p
    <3>4. Fits(w, p)
      BY <1>0, <2>0, <3>3 DEF Fits
    <3> QED BY <2>0, <2>2, <3>1, <3>3, <3>4, PlaceMoves
  <2> QED BY <1>8, <2>1, <2>2 DEF XgbTrained, XgbFails
<1>9. CASE Predicts(w)
  <2>1. q.at = "predicting" /\ StepDone(w)
    BY <1>9 DEF Predicts
  <2> QED BY <1>0, <2>1, DoneMoves
<1> QED BY <1>1, <1>2, <1>3, <1>4, <1>5, <1>6, <1>7, <1>8, <1>9 DEF Acts

ASet == [rows : {"none", "part", "whole"}, by : Workers \cup {"none"}]

\* The pair of files that an action removes: none, or one of all years when the pipeline
\* predicts.
LEMMA RemovedSets ==
  ASSUME ProcessesOK, sets \in [Sets -> ASet], NEW w \in Workers, worker[w].at = "xgb", RemovesSet(w)
  PROVE  sets' \in [Sets -> ASet] /\ \A s \in Sets : sets'[s] = sets[s] \/ (sets'[s] = NoSet /\ s # "all")
<1> DEFINE q == worker[w]
<1>1. q \in Process /\ (Head(q.todo) \in {"train", "baselines"} <=> q.set = "all") /\ Head(q.todo) # "train"
  BY DEF ProcessesOK, Fits
<1>2. NoSet \in ASet
  BY DEF NoSet, ASet
<1>3. CASE sets' = sets
  BY <1>3
<1>4. CASE sets' = [sets EXCEPT ![q.set] = NoSet] /\ Head(q.todo) # "baselines"
  BY <1>1, <1>2, <1>4 DEF Process
<1> QED BY <1>3, <1>4 DEF RemovesSet, SetOf, StepOf

LEMMA SetsMove ==
  ASSUME ProcessesOK, sets \in [Sets -> ASet], NEW w \in Workers, Acts(w)
  PROVE  /\ sets' \in [Sets -> ASet]
         /\ \A s \in Sets :
              \/ sets'[s] = sets[s] /\ ~(FilesWritten(w) /\ s = worker[w].set)
              \/ sets'[s] = NoSet /\ (s # "all" \/ w = "run")
              \/ FilesTruncated(w) /\ s = worker[w].set /\ sets'[s].rows = "part" /\ sets'[s].by = w
              \/ /\ FilesWritten(w) /\ s = worker[w].set /\ sets'[s].by = sets[s].by
                 /\ sets'[s].rows = IF sets[s].by = w THEN "whole" ELSE sets[s].rows
<1> DEFINE q == worker[w]
<1>0. /\ worker \in [Workers -> Process] /\ q \in Process /\ q.set \in Sets
      /\ q.at = "predicting" => w = "run"
  <2>1. worker \in [Workers -> Process] /\ Fits(w, q) /\ q \in Process
    BY DEF ProcessesOK
  <2>2. ASSUME q.at = "predicting" PROVE w = "run"
    <3>1. q.todo # << >> /\ Head(q.todo) = "predict" /\ InOrder(q.todo)
      BY <2>1, <2>2 DEF Fits
    <3>2. Lists(q.todo, "predict")
      BY <3>1, RestInOrder
    <3> QED BY <2>1, <3>2 DEF Fits, Workers
  <2> QED BY <2>1, <2>2 DEF Process
<1>1. CASE FilesTruncated(w)
  <2>1. sets' = [sets EXCEPT ![q.set] = [rows |-> "part", by |-> w]] /\ q.at = "files"
    BY <1>1 DEF FilesTruncated, SetOf
  <2>2. [rows |-> "part", by |-> w] \in ASet
    BY DEF ASet
  <2>3. ~FilesWritten(w)
    BY <2>1 DEF FilesWritten
  <2> QED BY <1>0, <1>1, <2>1, <2>2, <2>3
<1>2. CASE FilesWritten(w)
  <2>1. sets' = [sets EXCEPT ![q.set].rows = IF sets[q.set].by = w THEN "whole" ELSE @]
    BY <1>2 DEF FilesWritten, SetOf
  <2> DEFINE row == IF sets[q.set].by = w THEN "whole" ELSE sets[q.set].rows
             new == [sets[q.set] EXCEPT !.rows = row]
  <2>2. sets' = [sets EXCEPT ![q.set] = new]
    BY <1>0, <2>1
  <2>3. row \in {"none", "part", "whole"}
    BY <1>0 DEF ASet
  <2>4. new \in ASet /\ new.rows = row /\ new.by = sets[q.set].by
    BY <1>0, <2>3 DEF ASet
  <2> HIDE DEF new
  <2>5. sets' \in [Sets -> ASet] /\ sets'[q.set] = new /\ \A s \in Sets \ {q.set} : sets'[s] = sets[s]
    BY <1>0, <2>2, <2>4
  <2> QED BY <1>0, <1>2, <2>4, <2>5
<1>3. CASE ~FilesTruncated(w) /\ ~FilesWritten(w)
  <2>1. CASE UNCHANGED sets
    BY <1>3, <2>1
  <2>2. CASE Predicts(w)
    <3>1. sets' = [s \in Sets |-> NoSet] /\ q.at = "predicting"
      BY <2>2 DEF Predicts
    <3>2. NoSet \in ASet
      BY DEF NoSet, ASet
    <3> QED BY <1>0, <3>1, <3>2
  <2>3. CASE q.at = "xgb" /\ RemovesSet(w)
    BY <1>3, <2>3, RemovedSets
  <2>4. UNCHANGED sets \/ Predicts(w) \/ (q.at = "xgb" /\ RemovesSet(w))
    <3>1. CASE StepBegins(w) \/ Broken(w) \/ ChildLeft(w) \/ Ends(w) \/ FilesReused(w) \/ ProductionTrained(w)
      BY <3>1 DEF StepBegins, Broken, ChildLeft, Ends, FilesReused, ProductionTrained
    <3>2. CASE ComparisonTrained(w) \/ RidgeTrained(w)
      BY <3>2 DEF ComparisonTrained, RidgeTrained, BeginsXgb
    <3>3. CASE XgbTrained(w) \/ XgbFails(w)
      BY <3>3 DEF XgbTrained, XgbFails
    <3> QED BY <1>3, <3>1, <3>2, <3>3 DEF Acts
  <2> QED BY <2>1, <2>2, <2>3, <2>4
<1> QED BY <1>1, <1>2, <1>3

\* While no command by hand has written them, the files stay the pipeline's own.
LEMMA FilesStayOwn ==
  ASSUME ProcessesOK, sets \in [Sets -> ASet], NEW w \in Workers, Acts(w),
         ~spoiled' => ~spoiled /\ FilesAreOwn, ~spoiled'
  PROVE  FilesAreOwn'
<1> DEFINE q == worker["run"]
           p == worker'["run"]
<1>1. PICK r : Moved(w, worker[w], r)
  BY Moves
<1>2. worker'[w] = r /\ \A v \in Workers \ {w} : worker'[v] = worker[v]
  BY <1>1, OneProcess DEF Moved
<1>3. "all" \in Sets /\ {"run", "hand"} = Workers
  BY SetFacts DEF Workers
<1>4. /\ q.at = "writing" /\ q.set = "all" => sets["all"].by = "run"
      /\ "all" \in q.cached /\ ~(q.at = "writing" /\ q.set = "all") => sets["all"].rows \in {"none", "whole"}
  BY DEF FilesAreOwn
<1>5. NoSet.rows = "none"
  BY DEF NoSet
<1>6. CASE w = "hand"
  <2>1. p = q
    BY <1>2, <1>3, <1>6
  <2>2. ~(FilesTruncated(w) /\ worker[w].set = "all") /\ ~(FilesWritten(w) /\ worker[w].set = "all")
    BY <1>6 DEF FilesTruncated, FilesWritten, Spoils, SetOf
  <2>3. sets'["all"] = sets["all"]
    BY <1>3, <1>6, <2>2, SetsMove
  <2> QED BY <1>4, <2>1, <2>3 DEF FilesAreOwn
<1>7. CASE w = "run"
  <2>1. p = r
    BY <1>2, <1>7
  <2>2. /\ p.at = "writing" => FilesTruncated(w)
        /\ FilesTruncated(w) => p.at = "writing" /\ p.set = q.set
        /\ \A s \in p.cached : s \in q.cached \/ (FilesWritten(w) /\ s = q.set)
    BY <1>1, <1>7, <2>1 DEF Moved
  <2>3. ASSUME p.at = "writing", p.set = "all" PROVE sets'["all"].by = "run"
    <3>1. FilesTruncated(w) /\ q.set = "all"
      BY <2>2, <2>3
    <3>2. sets' = [sets EXCEPT !["all"] = [rows |-> "part", by |-> w]]
      BY <1>7, <3>1 DEF FilesTruncated, SetOf
    <3> QED BY <1>3, <1>7, <3>2
  <2>4. ASSUME "all" \in p.cached, ~(p.at = "writing" /\ p.set = "all")
        PROVE  sets'["all"].rows \in {"none", "whole"}
    <3>1. ~(FilesTruncated(w) /\ q.set = "all")
      BY <2>2, <2>4
    <3>2. CASE FilesWritten(w) /\ q.set = "all"
      <4>1. q.at = "writing"
        BY <1>7, <3>2 DEF FilesWritten
      <4>2. sets["all"].by = w
        BY <1>4, <1>7, <3>2, <4>1
      <4> QED BY <1>3, <1>5, <1>7, <3>1, <3>2, <4>2, SetsMove
    <3>3. CASE ~(FilesWritten(w) /\ q.set = "all")
      <4>1. "all" \in q.cached
        BY <2>2, <2>4, <3>3
      <4>2. CASE sets'["all"] = NoSet
        BY <1>5, <4>2
      <4>3. CASE sets'["all"] = sets["all"]
        <5>1. ~(q.at = "writing" /\ q.set = "all")
          <6> SUFFICES ASSUME q.at = "writing", q.set = "all" PROVE FALSE
            OBVIOUS
          <6>1. Broken(w)
            <7>1. worker[w].at = "writing"
              BY <1>7
            <7> QED BY <1>7, <3>3, <7>1 DEF Acts, StepBegins, ChildLeft, Ends, FilesReused, FilesTruncated, ProductionTrained,
                   IsFitting, ComparisonTrained, RidgeTrained, XgbTrained, XgbFails, Predicts
          <6>2. worker' = [worker EXCEPT ![w] = AtRestW]
            BY <6>1 DEF Broken, StepFails
          <6>3. p = AtRestW
            BY <1>7, <6>2 DEF ProcessesOK
          <6> QED BY <2>4, <6>3, RestedFits
        <5> QED BY <1>4, <4>1, <4>3, <5>1
      <4> QED BY <1>3, <1>7, <3>1, <3>3, <4>2, <4>3, SetsMove
    <3> QED BY <3>2, <3>3
  <2> QED BY <2>3, <2>4 DEF FilesAreOwn
<1> QED BY <1>3, <1>6, <1>7

\* The order of the steps keeps the folds before the baselines, and these before the
\* predictions.
LEMMA BaselinesStayInTime ==
  ASSUME ProcessesOK, NEW w \in Workers, Acts(w), BaselinesInTime
  PROVE  BaselinesInTime'
<1> DEFINE q == worker["run"]
           p == worker'["run"]
<1>1. PICK r : Moved(w, worker[w], r)
  BY Moves
<1>2. worker'[w] = r /\ \A v \in Workers \ {w} : worker'[v] = worker[v]
  BY <1>1, OneProcess DEF Moved
<1>3. /\ "baselines" \in completed => ~Lists(q.todo, "walk")
      /\ q.at # "rest" => "baselines" \in completed \/ Lists(q.todo, "baselines")
  BY DEF BaselinesInTime
<1>4. CASE w = "hand"
  <2>1. p = q /\ completed' = completed
    BY <1>1, <1>2, <1>4 DEF Moved, Workers
  <2> QED BY <1>3, <2>1 DEF BaselinesInTime
<1>5. CASE w = "run"
  <2>1. p = r
    BY <1>2, <1>5
  <2>2. CASE p = AtRestW
    <3>1. p.at = "rest" /\ p.todo = << >>
      BY <2>2, RestedFits
    <3>2. ~Lists(p.todo, "walk")
      BY <3>1 DEF Lists
    <3> QED BY <3>1, <3>2 DEF BaselinesInTime
  <2>3. CASE p.todo = q.todo /\ q.at # "rest" /\ completed' = completed
    BY <1>3, <2>3 DEF BaselinesInTime
  <2>4. CASE q.todo # << >> /\ p.todo = Tail(q.todo) /\ completed' = completed \cup {Head(q.todo)} /\ q.at # "rest"
    <3>1. /\ Head(q.todo) \in StepNames
          /\ \A step : Lists(p.todo, step) => Lists(q.todo, step) /\ Place(Head(q.todo)) < Place(step)
          /\ \A step : Lists(q.todo, step) => step = Head(q.todo) \/ Lists(p.todo, step)
      BY <2>4, RestInOrder DEF ProcessesOK, Fits, Workers
    <3>2. Place("walk") = 2 /\ Place("baselines") = 3 /\ ~(3 < 2)
      BY DEF Place
    <3>3. Head(q.todo) = "baselines" => ~Lists(p.todo, "walk")
      BY <3>1, <3>2
    <3> QED BY <1>3, <2>4, <3>1, <3>3 DEF BaselinesInTime
  <2>5. q.at # "rest"
    BY <1>5 DEF Acts, StepBegins, Broken, ChildLeft, Ends, FilesReused, FilesTruncated, FilesWritten, ProductionTrained,
       IsFitting, ComparisonTrained, RidgeTrained, XgbTrained, XgbFails, Predicts
  <2> QED BY <1>1, <1>5, <2>1, <2>2, <2>3, <2>4, <2>5 DEF Moved
<1> QED BY <1>4, <1>5 DEF Workers

\* Which actions complete the training and the baselines.
LEMMA NewlyDone ==
  ASSUME ProcessesOK, NEW w \in Workers, Acts(w)
  PROVE  /\ "train" \in completed' => "train" \in completed \/ (w = "run" /\ ProductionTrained(w))
         /\ "baselines" \in completed' =>
              \/ "baselines" \in completed
              \/ w = "run" /\ StepOf(w) = "baselines" /\ (XgbTrained(w) \/ (XgbFails(w) /\ excused'))
<1>1. StepDone(w) => completed' \subseteq completed \cup {StepOf(w)} /\ (w # "run" => completed' = completed)
  BY DEF StepDone, StepFails
<1>2. CASE StepBegins(w)
  <2>1. completed' = completed \/ (StepDone(w) /\ StepOf(w) \in {"walk", "variants"})
    BY <1>2 DEF StepBegins
  <2> QED BY <1>1, <2>1
<1>3. CASE Broken(w) \/ ChildLeft(w) \/ Ends(w) \/ FilesReused(w) \/ FilesTruncated(w) \/ FilesWritten(w)
           \/ ComparisonTrained(w) \/ RidgeTrained(w)
  <2>1. completed' = completed \/ completed' = {}
    BY <1>3 DEF Broken, ChildLeft, StepFails, Ends, FilesReused, FilesTruncated, FilesWritten, ComparisonTrained,
                RidgeTrained, BeginsXgb
  <2> QED BY <2>1
<1>4. CASE ProductionTrained(w)
  <2>1. StepDone(w) /\ StepOf(w) = "train"
    BY <1>4 DEF ProductionTrained
  <2> QED BY <1>1, <1>4, <2>1
<1>5. CASE XgbTrained(w) \/ XgbFails(w)
  <2>1. worker[w].at = "xgb" /\ StepOf(w) # "train"
    BY <1>5 DEF XgbTrained, XgbFails, ProcessesOK, Fits, StepOf
  <2>2. completed' = completed \/ StepDone(w)
    BY <1>5 DEF XgbTrained, XgbFails, AfterXgb
  <2>3. XgbFails(w) /\ completed' # completed /\ w = "run" /\ StepOf(w) = "baselines" => excused'
    BY DEF XgbFails
  <2> QED BY <1>1, <1>5, <2>1, <2>2, <2>3
<1>6. CASE Predicts(w)
  <2>1. worker[w].at = "predicting" /\ StepDone(w)
    BY <1>6 DEF Predicts
  <2>2. StepOf(w) = "predict"
    BY <2>1 DEF ProcessesOK, Fits, StepOf
  <2> QED BY <1>1, <2>1, <2>2
<1> QED BY <1>2, <1>3, <1>4, <1>5, <1>6 DEF Acts

\* The models of an action's files.
LEMMA ModelOfFits ==
  ASSUME ProcessesOK, sets \in [Sets -> ASet], chain \in 0 .. MaxRuns, NEW w \in Workers
  PROVE  /\ ModelOf(w) \in AModel
         /\ \A torn \in BOOLEAN : LET m == [ModelOf(w) EXCEPT !.torn = torn]
                                  IN  m \in AModel /\ (m.torn \/ m = ModelOf(w))
         /\ w = "run" /\ SetOf(w) = "all" /\ sets["all"].rows = "whole" => ModelOf(w) = Produced
<1> PICK no \in BOOLEAN : no = FALSE
  OBVIOUS
<1> DEFINE set == SetOf(w)
           of == IF w = "run" THEN chain ELSE 0
           data == sets[SetOf(w)].rows
<1>1. set \in Sets
  BY DEF ProcessesOK, Process, SetOf
<1>2. of \in 0 .. MaxRuns /\ data \in {"none", "part", "whole"}
  BY <1>1, ModelsAssumption DEF ASet
<1>3. ModelOf(w) = [of |-> set, chain |-> of, data |-> data, torn |-> no]
  BY Zenon DEF ModelOf
<1>4. Produced = [of |-> "all", chain |-> chain, data |-> "whole", torn |-> no]
  BY Zenon DEF Produced
<1>5. w = "run" /\ SetOf(w) = "all" /\ sets["all"].rows = "whole" => ModelOf(w) = Produced
  BY <1>3, <1>4
<1> HIDE DEF set, of, data
<1>6. ModelOf(w) \in AModel
  BY <1>1, <1>2, <1>3 DEF AModel
<1>7. ASSUME NEW torn \in BOOLEAN
      PROVE  LET m == [ModelOf(w) EXCEPT !.torn = torn]
             IN  m \in AModel /\ (m.torn \/ m = ModelOf(w))
  <2> DEFINE m == [ModelOf(w) EXCEPT !.torn = torn]
  <2>1. m \in AModel /\ m.torn = torn
    BY <1>6 DEF AModel
  <2>2. ~torn => m = ModelOf(w)
    BY <1>3
  <2> QED BY <2>1, <2>2
<1> QED BY <1>5, <1>6, <1>7

\* Which actions leave a model, and of what.
LEMMA ModelsMove ==
  ASSUME ProcessesOK, sets \in [Sets -> ASet], chain \in 0 .. MaxRuns,
         models \in [{"lgb", "xgb"} -> AModel], NEW w \in Workers, Acts(w)
  PROVE  /\ models' \in [{"lgb", "xgb"} -> AModel]
         /\ UNCHANGED chain /\ (spoiled => spoiled') /\ (excused => excused')
         /\ models'["lgb"] # models["lgb"] \/ ProductionTrained(w) =>
              /\ worker[w].at = "fitting" /\ StepOf(w) = "train" /\ sets[SetOf(w)].rows # "none"
              /\ models'["lgb"] = ModelOf(w) /\ (w = "hand" /\ SetOf(w) = "all" => spoiled')
         /\ models'["xgb"] # models["xgb"] \/ XgbTrained(w) \/ ~(replaced' <=> replaced) =>
              /\ worker[w].at = "xgb"
              /\ w = "hand" => spoiled' \/ (models' = models /\ (replaced' <=> replaced))
              /\ \/ models'["xgb"].torn /\ ~XgbTrained(w)
                 \/ StepOf(w) = "variants"
                 \/ models'["xgb"] = ModelOf(w) /\ sets[SetOf(w)].rows # "none"
<1> DEFINE Wrote(torn) == [ModelOf(w) EXCEPT !.torn = torn]
<1>1. ModelOf(w) \in AModel /\ \A t \in BOOLEAN : Wrote(t) \in AModel /\ (Wrote(t).torn \/ Wrote(t) = ModelOf(w))
  BY ModelOfFits
<1> HIDE DEF Wrote
<1>2. CASE ProductionTrained(w)
  <2>1. /\ models' = [models EXCEPT !["lgb"] = ModelOf(w)] /\ UNCHANGED <<chain, replaced, excused>>
        /\ worker[w].at = "fitting" /\ StepOf(w) = "train" /\ sets[SetOf(w)].rows # "none"
        /\ Spoils(w, "all")
    BY <1>2 DEF ProductionTrained, IsFitting, ByRuns
  <2>2. (spoiled => spoiled') /\ (w = "hand" => spoiled')
    BY <2>1 DEF Spoils
  <2>3. ~XgbTrained(w)
    BY <2>1 DEF XgbTrained
  <2> QED BY <1>1, <2>1, <2>2, <2>3
<1>3. ~ProductionTrained(w) /\ (XgbTrained(w) \/ XgbFails(w)) => models'["lgb"] = models["lgb"]
  BY DEF XgbTrained, XgbFails, Saved
<1>4. CASE XgbTrained(w)
  <2>1. /\ worker[w].at = "xgb" /\ sets[SetOf(w)].rows # "none" /\ UNCHANGED <<chain, excused>>
        /\ models' = IF StepOf(w) = "variants" THEN models ELSE [models EXCEPT !["xgb"] = ModelOf(w)]
        /\ spoiled' = (spoiled \/ (w = "hand" /\ StepOf(w) # "variants"))
        /\ replaced' = (replaced /\ StepOf(w) = "variants")
    BY <1>4 DEF XgbTrained, Saved, ByRuns
  <2>2. ~ProductionTrained(w)
    BY <2>1 DEF ProductionTrained, IsFitting
  <2>3. CASE StepOf(w) = "variants"
    BY <1>4, <2>1, <2>2, <2>3
  <2>4. CASE StepOf(w) # "variants"
    BY <1>1, <2>1, <2>2, <2>4
  <2> QED BY <2>3, <2>4
<1>5. CASE XgbFails(w)
  <2>1. worker[w].at = "xgb" /\ UNCHANGED chain /\ (excused => excused')
    BY <1>5 DEF XgbFails, ByRuns
  <2>2. ~ProductionTrained(w) /\ (XgbTrained(w) => XgbTrained(w))
    BY <2>1 DEF ProductionTrained, IsFitting
  <2>3. CASE XgbTrained(w)
    BY <1>4, <2>3
  <2>4. CASE ~XgbTrained(w) /\ UNCHANGED <<models, spoiled, replaced>>
    BY <2>1, <2>2, <2>4
  <2>5. ASSUME ~XgbTrained(w), sets[SetOf(w)].rows # "none", NEW t \in BOOLEAN, Saved(w, Wrote(t))
        PROVE  /\ models' \in [{"lgb", "xgb"} -> AModel] /\ models'["lgb"] = models["lgb"]
               /\ (spoiled => spoiled') /\ (w = "hand" => spoiled' \/ (models' = models /\ (replaced' <=> replaced)))
               /\ \/ models'["xgb"].torn /\ ~XgbTrained(w)
                  \/ StepOf(w) = "variants"
                  \/ models'["xgb"] = ModelOf(w) /\ sets[SetOf(w)].rows # "none"
    <3>1. /\ models' = IF StepOf(w) = "variants" THEN models ELSE [models EXCEPT !["xgb"] = Wrote(t)]
          /\ spoiled' = (spoiled \/ (w = "hand" /\ StepOf(w) # "variants"))
          /\ replaced' = (replaced /\ StepOf(w) = "variants")
      BY <2>5 DEF Saved
    <3>2. CASE StepOf(w) = "variants"
      BY <2>1, <2>2, <2>5, <3>1, <3>2
    <3>3. CASE StepOf(w) # "variants"
      BY <1>1, <2>1, <2>2, <2>5, <3>1, <3>3
    <3> QED BY <3>2, <3>3
  <2> QED BY <1>5, <2>1, <2>2, <2>3, <2>4, <2>5 DEF XgbFails, Wrote
<1>6. CASE ~ProductionTrained(w) /\ ~XgbTrained(w) /\ ~XgbFails(w)
  <2>1. CASE StepBegins(w) \/ Broken(w) \/ ChildLeft(w) \/ Ends(w) \/ FilesReused(w) \/ Predicts(w)
    <3>1. UNCHANGED <<models, chain, spoiled, replaced, excused>>
      BY <2>1 DEF StepBegins, Broken, ChildLeft, Ends, FilesReused, Predicts, ByRuns
    <3> QED BY <1>6, <3>1
  <2>2. CASE FilesTruncated(w) \/ FilesWritten(w)
    <3>1. UNCHANGED <<models, chain, replaced, excused>> /\ (spoiled => spoiled')
      BY <2>2 DEF FilesTruncated, FilesWritten, ByRuns, Spoils
    <3> QED BY <1>6, <3>1
  <2>3. CASE ComparisonTrained(w) \/ RidgeTrained(w)
    <3>1. UNCHANGED <<models, chain, spoiled, replaced, excused>>
      BY <2>3 DEF ComparisonTrained, RidgeTrained, BeginsXgb, ByRuns
    <3> QED BY <1>6, <3>1
  <2> QED BY <1>6, <2>1, <2>2, <2>3 DEF Acts
<1> QED BY <1>2, <1>4, <1>5, <1>6

\* The completed steps of the pipeline keep their models.
LEMMA ModelsStayOwn ==
  ASSUME ModelsInv, NEW w \in Workers, Acts(w)
  PROVE  ModelsAreOwn'
<1> DEFINE q == worker[w]
<1>0. /\ ProcessesOK /\ sets \in [Sets -> ASet] /\ chain \in 0 .. MaxRuns
      /\ models \in [{"lgb", "xgb"} -> AModel]
  BY ModelsAssumption DEF ModelsInv, ModelTypeOK, ASet
<1>1. /\ UNCHANGED chain /\ (spoiled => spoiled') /\ (excused => excused')
      /\ models'["lgb"] # models["lgb"] \/ ProductionTrained(w) =>
           /\ q.at = "fitting" /\ StepOf(w) = "train" /\ sets[SetOf(w)].rows # "none"
           /\ models'["lgb"] = ModelOf(w) /\ (w = "hand" /\ SetOf(w) = "all" => spoiled')
      /\ models'["xgb"] # models["xgb"] \/ XgbTrained(w) \/ ~(replaced' <=> replaced) =>
           /\ q.at = "xgb"
           /\ w = "hand" => spoiled' \/ (models' = models /\ (replaced' <=> replaced))
           /\ \/ models'["xgb"].torn /\ ~XgbTrained(w)
              \/ StepOf(w) = "variants"
              \/ models'["xgb"] = ModelOf(w) /\ sets[SetOf(w)].rows # "none"
  BY <1>0, ModelsMove
<1>2. Produced' = Produced
  BY <1>1 DEF Produced
<1>3. /\ ~spoiled /\ "train" \in completed => models["lgb"] = Produced
      /\ ~spoiled /\ ~replaced /\ ~excused /\ "baselines" \in completed =>
           models["xgb"] = Produced \/ models["xgb"].torn
      /\ ~spoiled => FilesAreOwn
      /\ ~excused => BaselinesInTime
  BY DEF ModelsInv, ModelsAreOwn
<1>4. /\ q.at \in {"fitting", "xgb"} => q.set \in q.cached /\ q.todo # << >> /\ InOrder(q.todo)
                                        /\ (StepOf(w) \in {"train", "baselines"} <=> q.set = "all")
      /\ q.at = "xgb" => StepOf(w) # "train" /\ StepOf(w) # "predict" /\ StepOf(w) \in StepNames
  <2>1. Fits(w, q)
    BY <1>0 DEF ProcessesOK
  <2>2. InOrder(q.todo) /\ q.todo # << >> => Head(q.todo) \in StepNames
    BY RestInOrder
  <2> QED BY <2>1, <2>2 DEF Fits, StepOf
<1>5. ASSUME w = "run", ~spoiled, q.at \in {"fitting", "xgb"}, StepOf(w) \in {"train", "baselines"},
             sets[SetOf(w)].rows # "none"
      PROVE  ModelOf(w) = Produced
  <2>1. q.set = "all" /\ "all" \in q.cached
    BY <1>4, <1>5
  <2>2. sets["all"].rows \in {"none", "whole"}
    BY <1>3, <1>5, <2>1 DEF FilesAreOwn
  <2>3. SetOf(w) = "all" /\ sets["all"].rows = "whole"
    BY <1>5, <2>1, <2>2 DEF SetOf
  <2> QED BY <1>0, <1>5, <2>3, ModelOfFits
<1>6. /\ "train" \in completed' => "train" \in completed \/ (w = "run" /\ ProductionTrained(w))
      /\ "baselines" \in completed' =>
           \/ "baselines" \in completed
           \/ w = "run" /\ StepOf(w) = "baselines" /\ (XgbTrained(w) \/ (XgbFails(w) /\ excused'))
  BY <1>0, NewlyDone
<1>7. ASSUME ~spoiled', "train" \in completed' PROVE models'["lgb"] = Produced
  <2>1. CASE models'["lgb"] # models["lgb"] \/ ProductionTrained(w)
    <3>1. q.at = "fitting" /\ StepOf(w) = "train" /\ sets[SetOf(w)].rows # "none" /\ models'["lgb"] = ModelOf(w)
      BY <1>1, <2>1
    <3>2. w = "run"
      BY <1>1, <1>4, <1>7, <2>1, <3>1 DEF SetOf, Workers
    <3> QED BY <1>1, <1>5, <1>7, <3>1, <3>2
  <2>2. CASE models'["lgb"] = models["lgb"] /\ ~ProductionTrained(w)
    BY <1>1, <1>3, <1>6, <1>7, <2>2
  <2> QED BY <2>1, <2>2
<1>8. ASSUME ~spoiled', ~replaced', ~excused', "baselines" \in completed'
      PROVE  models'["xgb"] = Produced \/ models'["xgb"].torn
  <2>1. CASE w = "run" /\ StepOf(w) = "baselines" /\ XgbTrained(w)
    <3>1. q.at = "xgb" /\ models'["xgb"] = ModelOf(w) /\ sets[SetOf(w)].rows # "none"
      BY <1>1, <2>1
    <3> QED BY <1>1, <1>5, <1>8, <2>1, <3>1
  <2>2. CASE "baselines" \in completed
    <3>1. CASE models'["xgb"] = models["xgb"] /\ ~replaced
      BY <1>1, <1>3, <1>8, <2>2, <3>1
    <3>2. CASE models'["xgb"] # models["xgb"] \/ replaced
      <4>1. q.at = "xgb" /\ w = "run"
        BY <1>1, <1>8, <3>2 DEF Workers
      <4>2. CASE models'["xgb"].torn
        BY <4>2
      <4>3. CASE StepOf(w) = "variants"
        <5>1. UNCHANGED models /\ (replaced' <=> replaced)
          <6>1. worker[w].at = "xgb"
            BY <4>1
          <6>2. XgbTrained(w) \/ XgbFails(w) \/ UNCHANGED <<models, replaced>>
            BY <6>1 DEF Acts, StepBegins, Broken, ChildLeft, Ends, FilesReused, FilesTruncated, FilesWritten,
                        ProductionTrained, IsFitting, ComparisonTrained, RidgeTrained, BeginsXgb, Predicts
          <6>3. CASE UNCHANGED <<models, replaced>>
            BY <6>3
          <6>4. ASSUME NEW m, Saved(w, m) PROVE UNCHANGED models /\ (replaced' <=> replaced)
            BY <4>3, <6>4 DEF Saved
          <6> QED BY <6>2, <6>3, <6>4 DEF XgbTrained, XgbFails
        <5> QED BY <1>8, <3>2, <5>1
      <4>4. CASE StepOf(w) \notin {"variants"} /\ models'["xgb"] = ModelOf(w) /\ sets[SetOf(w)].rows # "none"
        <5>1. ~Lists(q.todo, "walk")
          BY <1>1, <1>3, <1>8, <2>2, <4>1 DEF BaselinesInTime
        <5>2. Lists(q.todo, StepOf(w))
          BY <1>4, <4>1, RestInOrder DEF StepOf
        <5>3. StepOf(w) = "baselines"
          BY <1>4, <4>1, <4>4, <5>1, <5>2 DEF StepNames
        <5> QED BY <1>1, <1>5, <1>8, <4>1, <4>4, <5>3
      <4> QED BY <1>1, <1>8, <3>2, <4>2, <4>3, <4>4
    <3> QED BY <3>1, <3>2
  <2> QED BY <1>6, <1>8, <2>1, <2>2
<1> QED BY <1>2, <1>7, <1>8 DEF ModelsAreOwn

\* What the predictions are of.
LEMMA PredictedOwn ==
  ASSUME ModelsInv, NEW w \in Workers, Acts(w)
  PROVE  /\ FoldsDoNotPredict'
         /\ predicted' \in [with : [{"lgb", "xgb"} -> AModel], chain : 0 .. MaxRuns]
<1> DEFINE q == worker[w]
           Predictions == [with : [{"lgb", "xgb"} -> AModel], chain : 0 .. MaxRuns]
<1>0. /\ ProcessesOK /\ chain \in 0 .. MaxRuns /\ models \in [{"lgb", "xgb"} -> AModel]
      /\ predicted \in Predictions /\ FoldsDoNotPredict
  BY ModelsAssumption DEF ModelsInv, ModelTypeOK
<1>1. CASE UNCHANGED predicted
  BY <1>0, <1>1 DEF FoldsDoNotPredict
<1>2. CASE Predicts(w)
  <2>1. q.at = "predicting" /\ UNCHANGED <<models, chain, spoiled, replaced, excused>>
        /\ predicted' = IF spoiled \/ excused \/ replaced \/ models["xgb"].torn \/ (w = "run" /\ "train" \notin completed)
                        THEN NoPrediction ELSE [with |-> models, chain |-> chain]
    BY <1>2 DEF Predicts, ByRuns
  <2>2. CASE predicted' = NoPrediction
    <3>1. NoModel \in AModel
      <4> PICK no \in BOOLEAN : no = FALSE
        OBVIOUS
      <4>1. NoModel = [of |-> "none", chain |-> 0, data |-> "whole", torn |-> no]
        BY Zenon DEF NoModel
      <4> QED BY <4>1, ModelsAssumption DEF AModel
    <3>2. None \in [{"lgb", "xgb"} -> AModel]
      BY <3>1 DEF None
    <3>3. NoPrediction \in Predictions /\ NoPrediction.chain = 0
      BY <3>2, ModelsAssumption DEF NoPrediction
    <3> QED BY <2>2, <3>3 DEF FoldsDoNotPredict
  <2>3. CASE ~spoiled /\ ~replaced /\ ~excused /\ ~models["xgb"].torn /\ ~(w = "run" /\ "train" \notin completed)
             /\ predicted' = [with |-> models, chain |-> chain]
    <3>1. Fits(w, q) /\ InOrder(q.todo) /\ q.todo # << >> /\ Head(q.todo) = "predict"
      BY <1>0, <2>1 DEF ProcessesOK, Fits
    <3>2. w = "run"
      <4>1. Lists(q.todo, "predict")
        BY <3>1, RestInOrder
      <4> QED BY <3>1, <4>1 DEF Fits, Workers
    <3>3. "baselines" \in completed
      <4>1. "baselines" \in completed \/ Lists(q.todo, "baselines")
        BY <2>1, <2>3, <3>2 DEF ModelsInv, BaselinesInTime
      <4>2. Place("predict") = 5 /\ Place("baselines") = 3 /\ ~(5 < 3)
        BY DEF Place
      <4>3. ~Lists(q.todo, "baselines")
        BY <3>1, <4>2, RestInOrder
      <4> QED BY <4>1, <4>3
    <3>4. models["lgb"] = Produced /\ models["xgb"] = Produced
      BY <2>3, <3>2, <3>3 DEF ModelsInv, ModelsAreOwn
    <3>5. predicted'.with = models /\ predicted'.chain = chain /\ predicted' \in Predictions
      BY <1>0, <2>3
    <3>6. \A m \in {"lgb", "xgb"} : predicted'.with[m] =
            [of |-> "all", chain |-> predicted'.chain, data |-> "whole", torn |-> FALSE]
      BY <3>4, <3>5 DEF Produced
    <3> QED BY <3>5, <3>6 DEF FoldsDoNotPredict
  <2> QED BY <2>1, <2>2, <2>3
<1>3. UNCHANGED predicted \/ Predicts(w)
  BY DEF Acts, StepBegins, Broken, ChildLeft, Ends, FilesReused, FilesTruncated, FilesWritten, ProductionTrained,
         ComparisonTrained, RidgeTrained, BeginsXgb, XgbTrained, XgbFails
<1> QED BY <1>1, <1>2, <1>3

Orphans == [saves : {m \in AModel : m.of # "none"}, nr : 0 .. MaxRuns + MaxHands]

\* A child that is left is of its process and of its attempt.
LEMMA OrphansStay ==
  ASSUME ModelsInv, NEW w \in Workers, Acts(w)
  PROVE  orphans' \subseteq Orphans
<1>0. /\ ProcessesOK /\ sets \in [Sets -> ASet] /\ chain \in 0 .. MaxRuns /\ orphans \subseteq Orphans
      /\ {runs, hands, MaxRuns, MaxHands} \subseteq Nat /\ runs <= MaxRuns /\ hands <= MaxHands
  BY ModelsAssumption DEF ModelsInv, ModelTypeOK, ASet, Orphans
<1>1. CASE UNCHANGED orphans
  BY <1>0, <1>1
<1>2. CASE ChildLeft(w)
  <2>1. PICK data \in {"none", sets[SetOf(w)].rows} :
          orphans' = orphans \cup {[saves |-> [ModelOf(w) EXCEPT !.data = data], nr |-> runs + hands]}
    BY <1>2 DEF ChildLeft
  <2>2. ModelOf(w) \in AModel /\ SetOf(w) \in Sets
    BY <1>0, ModelOfFits DEF ProcessesOK, Process, SetOf
  <2>3. data \in {"none", "part", "whole"}
    BY <1>0, <2>1, <2>2 DEF ASet
  <2> DEFINE saves == [ModelOf(w) EXCEPT !.data = data]
  <2>6. ModelOf(w).of \in Sets
    BY <2>2 DEF ModelOf
  <2>4. saves \in AModel /\ saves.of # "none"
    BY <2>2, <2>3, <2>6, SetFacts DEF AModel
  <2> HIDE DEF saves
  <2>5. [saves |-> saves, nr |-> runs + hands] \in Orphans
    BY <1>0, <2>4 DEF Orphans
  <2> QED BY <1>0, <2>1, <2>5 DEF saves
<1>3. UNCHANGED orphans \/ ChildLeft(w)
  BY DEF Acts, StepBegins, Broken, Ends, FilesReused, FilesTruncated, FilesWritten, ProductionTrained,
         ComparisonTrained, RidgeTrained, BeginsXgb, XgbTrained, XgbFails, Predicts, ByRuns
<1> QED BY <1>1, <1>2, <1>3

\* An orphan reads its files, or ends.  A model that it saves is excepted.
LEMMA OrphansKeep ==
  ASSUME ModelsInv, NEW o \in orphans, OrphanReads(o) \/ OrphanEnds(o)
  PROVE  ModelsInv'
<1>0. /\ orphans \subseteq Orphans /\ sets \in [Sets -> ASet] /\ models \in [{"lgb", "xgb"} -> AModel]
      /\ o.saves \in AModel /\ o \in Orphans /\ o.saves.of \in Sets
  <2>1. orphans \subseteq Orphans /\ sets \in [Sets -> ASet] /\ models \in [{"lgb", "xgb"} -> AModel]
    BY DEF ModelsInv, ModelTypeOK, ASet, Orphans
  <2>2. o \in Orphans /\ o.saves \in AModel /\ o.saves.of # "none"
    BY <2>1 DEF Orphans
  <2> QED BY <2>1, <2>2 DEF AModel
<1>1. UNCHANGED <<sets, worker, completed, chain, runs, hands, spoiled, excused, predicted>>
  BY DEF OrphanReads, OrphanEnds
<1>2. orphans' \subseteq Orphans
  <2>3. o.saves.of # "none"
    BY <1>0 DEF Orphans
  <2>1. CASE OrphanReads(o)
    <3> DEFINE data == sets[o.saves.of].rows
               saves == [o.saves EXCEPT !.data = data]
    <3>1. data \in {"none", "part", "whole"}
      BY <1>0, <2>1 DEF OrphanReads, ASet
    <3>2. saves \in AModel /\ saves.of # "none"
      BY <1>0, <3>1, <2>3 DEF AModel
    <3>3. orphans' = (orphans \ {o}) \cup {[o EXCEPT !.saves = saves]}
      BY <1>0, <2>1 DEF OrphanReads, Orphans
    <3> HIDE DEF saves
    <3>4. [o EXCEPT !.saves = saves] \in Orphans
      BY <1>0, <3>2 DEF Orphans
    <3> QED BY <1>0, <3>3, <3>4
  <2>2. CASE OrphanEnds(o)
    BY <1>0, <2>2 DEF OrphanEnds
  <2> QED BY <2>1, <2>2
<1>3. /\ models' \in [{"lgb", "xgb"} -> AModel] /\ models'["lgb"] = models["lgb"]
      /\ UNCHANGED <<models, replaced>> \/ replaced'
  <2>1. CASE UNCHANGED <<models, replaced>>
    BY <1>0, <2>1
  <2>2. ASSUME NEW torn \in BOOLEAN, models' = [models EXCEPT !["xgb"] = [o.saves EXCEPT !.torn = torn]],
               replaced' = TRUE
        PROVE  models' \in [{"lgb", "xgb"} -> AModel] /\ models'["lgb"] = models["lgb"] /\ replaced'
    <3>1. [o.saves EXCEPT !.torn = torn] \in AModel
      BY <1>0 DEF AModel
    <3> QED BY <1>0, <2>2, <3>1
  <2> QED BY <2>1, <2>2 DEF OrphanReads, OrphanEnds
<1>4. ProcessesOK' /\ (~spoiled' => FilesAreOwn') /\ (~excused' => BaselinesInTime') /\ FoldsDoNotPredict'
  BY <1>1 DEF ModelsInv, ProcessesOK, FilesAreOwn, BaselinesInTime, FoldsDoNotPredict
<1>5. ModelsAreOwn'
  BY <1>1, <1>3 DEF ModelsInv, ModelsAreOwn, Produced
<1>6. ModelTypeOK' /\ {chain, runs, hands}' \subseteq Nat
  BY <1>1, <1>2, <1>3 DEF ModelsInv, ModelTypeOK, Orphans
<1> QED BY <1>4, <1>5, <1>6 DEF ModelsInv

LEMMA ActsKeep ==
  ASSUME ModelsInv, NEW w \in Workers, Acts(w)
  PROVE  ModelsInv'
<1>0. /\ ProcessesOK /\ sets \in [Sets -> ASet] /\ chain \in 0 .. MaxRuns
      /\ models \in [{"lgb", "xgb"} -> AModel] /\ {chain, runs, hands} \subseteq Nat /\ chain <= runs /\ runs <= MaxRuns
  BY ModelsAssumption DEF ModelsInv, ModelTypeOK, ASet
<1>1. ProcessesOK'
  <2>1. PICK p : Moved(w, worker[w], p)
    BY <1>0, Moves
  <2> QED BY <1>0, <2>1, OneProcess DEF Moved
<1>2. UNCHANGED <<runs, hands>>
  BY DEF Acts, StepBegins, Broken, ChildLeft, Ends, FilesReused, FilesTruncated, FilesWritten, ProductionTrained,
         ComparisonTrained, RidgeTrained, BeginsXgb, XgbTrained, XgbFails, Predicts, ByRuns
<1>3. UNCHANGED chain /\ (spoiled => spoiled') /\ (excused => excused')
      /\ models' \in [{"lgb", "xgb"} -> AModel]
  BY <1>0, ModelsMove
<1>4. sets' \in [Sets -> ASet]
  BY <1>0, SetsMove
<1>5. /\ FoldsDoNotPredict'
      /\ predicted' \in [with : [{"lgb", "xgb"} -> AModel], chain : 0 .. MaxRuns]
  BY PredictedOwn
<1>10. orphans' \subseteq Orphans
  BY <1>0, OrphansStay DEF ModelsInv, ModelTypeOK, Orphans
<1>6. ModelTypeOK'
  BY <1>0, <1>2, <1>3, <1>4, <1>5, <1>10 DEF ModelsInv, ModelTypeOK, ASet, Orphans
<1>7. ~spoiled' => FilesAreOwn'
  BY <1>0, <1>3, FilesStayOwn DEF ModelsInv
<1>8. ~excused' => BaselinesInTime'
  BY <1>0, <1>3, BaselinesStayInTime DEF ModelsInv
<1>9. ModelsAreOwn'
  BY ModelsStayOwn
<1> QED BY <1>0, <1>1, <1>2, <1>3, <1>5, <1>6, <1>7, <1>8, <1>9 DEF ModelsInv

\* A pipeline begins or resumes.  One that resumes after its baselines leaves the folds
\* out, or is excused.
LEMMA RunBeginsKeeps ==
  ASSUME ModelsInv, RunBegins
  PROVE  ModelsInv'
<1>1. PICK skips \in SkipSets, due \in BOOLEAN, restart \in BOOLEAN :
        LET resumes == completed # {} /\ ~restart
            done == IF resumes THEN completed ELSE {}
        IN  /\ worker' = [worker EXCEPT !["run"] =
                 [AtRestW EXCEPT !.todo = Steps(skips \cup done), !.at = "step", !.due = due]]
            /\ completed' = done
            /\ chain' = IF resumes THEN chain ELSE chain + 1
            /\ spoiled' = (resumes /\ spoiled)
            /\ excused' = IF "baselines" \in done THEN excused \/ "walk" \notin skips \cup done
                          ELSE "baselines" \in skips
  BY DEF RunBegins
<1> DEFINE resumes == completed # {} /\ ~restart
           done == IF resumes THEN completed ELSE {}
           left == skips \cup done
           p == [AtRestW EXCEPT !.todo = Steps(left), !.at = "step", !.due = due]
<1>2. /\ runs < MaxRuns /\ runs' = runs + 1 /\ UNCHANGED <<sets, models, orphans, hands, replaced, predicted>>
      /\ ProcessesOK /\ {chain, runs, hands} \subseteq Nat /\ chain <= runs /\ MaxRuns \in Nat
  BY ModelsAssumption DEF RunBegins, ModelsInv, ModelTypeOK
<1>3. p.at = "step" /\ p.todo = Steps(left) /\ p.cached = {} /\ Fits("run", p)
  <2> DEFINE todo == Steps(left)
  <2>1. InOrder(todo)
    BY StepsAreListed
  <2> HIDE DEF todo
  <2>2. "run" = "hand" => ~Lists(todo, "predict")
    OBVIOUS
  <2>3. LET r == [AtRestW EXCEPT !.todo = todo, !.at = "step", !.due = due]
        IN  r.at = "step" /\ r.todo = todo /\ r.cached = {} /\ Fits("run", r)
    BY <2>1, <2>2, RestedFits, Zenon
  <2> QED BY <2>3, Zenon DEF todo
<1>4. worker' = [worker EXCEPT !["run"] = p]
  BY <1>1
<1> HIDE DEF p
<1>5. ProcessesOK' /\ worker'["run"] = p
  BY <1>2, <1>3, <1>4, OneProcess DEF Workers
<1>6. {chain', runs', hands'} \subseteq Nat /\ chain' <= runs' /\ runs' <= MaxRuns /\ (resumes => chain' = chain)
  BY <1>1, <1>2
<1>7. ModelTypeOK' /\ FoldsDoNotPredict'
  BY <1>2, <1>6 DEF ModelsInv, ModelTypeOK, FoldsDoNotPredict
<1>8. FilesAreOwn'
  BY <1>3, <1>5 DEF FilesAreOwn
<1>9. ~excused' => BaselinesInTime'
  <2>1. \A step \in StepNames : Lists(p.todo, step) <=> step \notin left
    BY <1>3, StepsAreListed
  <2>2. "walk" \in StepNames /\ "baselines" \in StepNames
    BY DEF StepNames
  <2>3. ASSUME ~excused' PROVE BaselinesInTime'
    <3>1. CASE "baselines" \in done
      <4>1. "walk" \in left
        BY <1>1, <2>3, <3>1
      <4> QED BY <1>1, <1>5, <2>1, <2>2, <3>1, <4>1 DEF BaselinesInTime
    <3>2. CASE "baselines" \notin done
      <4>1. "baselines" \notin left
        BY <1>1, <2>3, <3>2
      <4> QED BY <1>1, <1>5, <2>1, <2>2, <3>2, <4>1 DEF BaselinesInTime
    <3> QED BY <3>1, <3>2
  <2> QED BY <2>3
<1>10. ModelsAreOwn'
  <2>1. CASE resumes
    <3>1. completed' = completed /\ Produced' = Produced /\ UNCHANGED models
      BY <1>1, <1>2, <1>6, <2>1 DEF Produced
    <3>3. spoiled => spoiled'
      BY <1>1, <2>1
    <3>2. "baselines" \in completed /\ ~excused' => ~excused
      BY <1>1, <2>1
    <3>4. replaced' <=> replaced
      BY <1>2
    <3> QED BY <3>1, <3>3, <3>2, <3>4 DEF ModelsInv, ModelsAreOwn
  <2>2. CASE ~resumes
    <3>1. completed' = {}
      BY <1>1, <2>2
    <3> QED BY <3>1 DEF ModelsAreOwn
  <2> QED BY <2>1, <2>2
<1> QED BY <1>5, <1>6, <1>7, <1>8, <1>9, <1>10 DEF ModelsInv

LEMMA HandBeginsKeeps ==
  ASSUME ModelsInv, NEW step \in ByHand, HandBegins(step)
  PROVE  ModelsInv'
<1>1. UNCHANGED <<sets, models, orphans, completed, chain, runs, spoiled, replaced, excused, predicted>>
      /\ hands < MaxHands /\ hands' = hands + 1
  BY DEF HandBegins
<1>2. step \in StepNames /\ step # "predict"
  BY ModelsAssumption DEF StepNames
<1>3. InOrder(<<step>>) /\ ~Lists(<<step>>, "predict")
  BY <1>2 DEF InOrder, Lists
<1> PICK yes \in BOOLEAN : yes = TRUE
  OBVIOUS
<1> DEFINE p == [AtRestW EXCEPT !.todo = <<step>>, !.at = "step", !.due = yes]
<1>4. Fits("hand", p)
  BY <1>3, RestedFits
<1>5. worker' = [worker EXCEPT !["hand"] = p]
  BY Zenon DEF HandBegins
<1> HIDE DEF p
<1>6. ProcessesOK' /\ worker'["run"] = worker["run"]
  BY <1>4, <1>5, OneProcess DEF ModelsInv, Workers
<1>7. /\ FilesAreOwn <=> FilesAreOwn'
      /\ BaselinesInTime <=> BaselinesInTime'
      /\ ModelsAreOwn <=> ModelsAreOwn'
  BY <1>1, <1>6 DEF FilesAreOwn, BaselinesInTime, ModelsAreOwn, Produced
<1>8. ModelTypeOK' /\ FoldsDoNotPredict' /\ {chain, runs, hands}' \subseteq Nat
  BY <1>1, ModelsAssumption DEF ModelsInv, ModelTypeOK, FoldsDoNotPredict
<1> QED BY <1>1, <1>6, <1>7, <1>8 DEF ModelsInv

\* The processes, the files, the models, the checkpoint and the predictions have the
\* forms of the code's structures, the pipeline's own files and models among them stay
\* its own, and its baselines are in time.
THEOREM ModelsInvariant == ModelSpec => []ModelsInv
<1>1. ModelInit => ModelsInv
  <2> SUFFICES ASSUME ModelInit PROVE ModelsInv
    OBVIOUS
  <2> PICK no \in BOOLEAN : no = FALSE
    OBVIOUS
  <2>1. NoModel = [of |-> "none", chain |-> 0, data |-> "whole", torn |-> no]
    BY Zenon DEF NoModel
  <2>2. NoModel \in AModel
    BY <2>1, ModelsAssumption DEF AModel
  <2>3. None \in [{"lgb", "xgb"} -> AModel]
    BY <2>2 DEF None
  <2>4. NoPrediction \in [with : [{"lgb", "xgb"} -> AModel], chain : 0 .. MaxRuns] /\ NoPrediction.chain = 0
    BY <2>3, ModelsAssumption DEF NoPrediction
  <2>5. NoSet \in ASet
    BY DEF NoSet, ASet
  <2>6. sets = [s \in Sets |-> NoSet] /\ models = None /\ predicted = NoPrediction /\ completed = {}
        /\ chain = 0 /\ runs = 0 /\ hands = 0 /\ worker = [w \in Workers |-> AtRestW] /\ orphans = {}
    BY DEF ModelInit
  <2>7. ModelTypeOK /\ {chain, runs, hands} \subseteq Nat /\ FoldsDoNotPredict
    BY <2>3, <2>4, <2>5, <2>6, ModelsAssumption DEF ModelTypeOK, FoldsDoNotPredict, ASet
  <2>8. ProcessesOK /\ worker["run"] = AtRestW
    BY <2>6, RestedFits DEF ProcessesOK, Fits, Workers
  <2>9. FilesAreOwn /\ BaselinesInTime /\ ModelsAreOwn
    BY <2>6, <2>8, RestedFits DEF FilesAreOwn, BaselinesInTime, ModelsAreOwn
  <2> QED BY <2>7, <2>8, <2>9 DEF ModelsInv
<1>2. ModelsInv /\ [ModelNext]_modelVars => ModelsInv'
  <2> SUFFICES ASSUME ModelsInv, [ModelNext]_modelVars PROVE ModelsInv'
    OBVIOUS
  <2>1. CASE RunBegins
    BY <2>1, RunBeginsKeeps
  <2>2. ASSUME NEW step \in ByHand, HandBegins(step) PROVE ModelsInv'
    BY <2>2, HandBeginsKeeps
  <2>3. ASSUME NEW w \in Workers, Acts(w) PROVE ModelsInv'
    BY <2>3, ActsKeep
  <2>5. ASSUME NEW o \in orphans, OrphanReads(o) \/ OrphanEnds(o) PROVE ModelsInv'
    BY <2>5, OrphansKeep
  <2>4. CASE UNCHANGED modelVars
    BY <2>4 DEF modelVars, ModelsInv, ModelTypeOK, ProcessesOK, FilesAreOwn, BaselinesInTime, ModelsAreOwn,
                Produced, FoldsDoNotPredict
  <2> QED BY <2>1, <2>2, <2>3, <2>4, <2>5 DEF ModelNext, Acts
<1> QED BY <1>1, <1>2, PTL DEF ModelSpec

\* No fold of the walk-forward validation, and no model of an earlier pipeline or of files
\* in part, predicts for a pipeline that trained its models itself.
THEOREM FoldsNeverPredict == ModelSpec => []FoldsDoNotPredict
<1>1. ModelsInv => FoldsDoNotPredict
  BY DEF ModelsInv
<1> QED BY <1>1, ModelsInvariant, PTL
-----------------------------------------------------------------------------
(* Labels and features (MlDatasets)                                         *)

\* The farthest label of a row, and the bars that it needs.
Farthest(x) == x[2] + LongHorizon
Span(x) == {x[1]} \X (x[2] .. Farthest(x))

\* Of a stock with its bars in time the farthest labels are set as far as a labelling
\* could know them; the dates that the last labelling saw are still there.
LabelsInv ==
  /\ priced \subseteq Cells
  /\ sizes.last \in Nat /\ sizes.newest \in Nat
  /\ sizes.last = 0 => DOMAIN labels = {}
  /\ sizes.last <= Cardinality({d \in DatesOf(priced) : d <= sizes.newest})
  /\ ~sizes.apart => \A x \in priced :
       Span(x) \subseteq priced \ backfill /\ Farthest(x) <= sizes.newest =>
         x \in DOMAIN labels /\ labels[x].long = Farthest(x)

\* A row that the runs of features owe: it could be computed when its date got its first
\* features, and no run for its date ended in the middle.
Owed(x) == x \in Computable(priced) /\ x \notin passed /\ x[2] \notin partial.dates

\* A date with features has all that are owed, in ranks, unless a run is at it; such a run
\* has stored those of the stocks it is done with; and without new bars no date is left out.
FeaturesInv ==
  /\ priced \subseteq Cells /\ features \subseteq Cells
  /\ batch \in [on : BOOLEAN, dates : SUBSET MarketDates, left : SUBSET Stocks, stored : BOOLEAN, current : BOOLEAN]
  /\ partial \in [n : Nat, dates : SUBSET MarketDates]
  /\ \A x \in priced : Owed(x) /\ x[2] \in DatesOf(features) /\ ~(batch.on /\ x[2] \in batch.dates) => x \in ranked
  /\ batch.on => \A x \in priced :
       Owed(x) /\ x[2] \in batch.dates /\ x[1] \notin batch.left => x \in features /\ batch.stored
  /\ batch.on /\ batch.current => \A x \in Computable(priced) : x[2] \in batch.dates \cup DatesOf(features)
  /\ FeaturesAreComplete

Batch == [on : BOOLEAN, dates : SUBSET MarketDates, left : SUBSET Stocks, stored : BOOLEAN, current : BOOLEAN]

\* Dates are numbers up to a bound.
LEMMA DatesAreNumbers ==
  \E last \in Nat : MarketDates = 1 .. last
<1> DEFINE lasts == {LastMarket[j] : j \in Jobs}
           n == LastMarket["labels"] + LastMarket["features"]
<1>1. n \in Nat /\ lasts \subseteq 0 .. n /\ lasts # {}
  BY DatasetsAssumption DEF Jobs
<1> HIDE DEF n
<1>2. Max(lasts) \in lasts
  BY <1>1, MinAndMax
<1>3. Max(lasts) \in Nat
  BY <1>1, <1>2
<1> QED BY <1>3 DEF MarketDates

\* Bars that come make rows passed, or leave them as they were.
LEMMA BarsKeepFeatures ==
  ASSUME FeaturesInv, NEW d \in MarketDates, NEW stocks \in SUBSET Stocks, BarsCome(d, stocks)
  PROVE  FeaturesInv'
<1> PICK no \in BOOLEAN : no = FALSE
  OBVIOUS
<1> DEFINE new == (stocks \X {d}) \ priced
<1>1. /\ priced' = priced \cup new /\ UNCHANGED <<features, ranked, partial>>
      /\ passed' = passed \cup {x \in Computable(priced \cup new) \ Computable(priced) :
                                  x[2] \in DatesOf(features) \cup batch.dates}
      /\ priced \subseteq Cells /\ batch \in Batch
  BY DEF BarsCome, FeaturesInv, Batch
<1>2. batch' = [batch EXCEPT !.current = no]
  BY Zenon DEF BarsCome
<1>3. /\ batch' \in Batch /\ batch'.on = batch.on /\ batch'.dates = batch.dates
      /\ batch'.left = batch.left /\ batch'.stored = batch.stored /\ ~batch'.current
  BY <1>1, <1>2 DEF Batch
<1>4. priced' \subseteq Cells
  BY <1>1 DEF Cells
<1> HIDE DEF new
<1>5. Computable(priced) \subseteq priced
  BY DEF Computable
<1>6. \A x : Owed(x)' /\ x[2] \in DatesOf(features) \cup batch.dates => Owed(x)
  BY <1>1 DEF Owed
<1>7. \A x \in priced' : Owed(x)' /\ x[2] \in DatesOf(features)' /\ ~(batch'.on /\ x[2] \in batch'.dates) => x \in ranked'
  <2> SUFFICES ASSUME NEW x \in priced', Owed(x)', x[2] \in DatesOf(features)', ~(batch'.on /\ x[2] \in batch'.dates)
               PROVE  x \in ranked'
    OBVIOUS
  <2>1. x[2] \in DatesOf(features)
    BY <1>1 DEF DatesOf
  <2>2. Owed(x) /\ x \in priced
    BY <1>5, <1>6, <2>1 DEF Owed
  <2> QED BY <1>1, <1>3, <2>1, <2>2 DEF FeaturesInv
<1>8. batch'.on => \A x \in priced' :
        Owed(x)' /\ x[2] \in batch'.dates /\ x[1] \notin batch'.left => x \in features' /\ batch'.stored
  <2> SUFFICES ASSUME batch'.on, NEW x \in priced', Owed(x)', x[2] \in batch'.dates, x[1] \notin batch'.left
               PROVE  x \in features' /\ batch'.stored
    OBVIOUS
  <2>1. Owed(x) /\ x \in priced
    BY <1>3, <1>5, <1>6 DEF Owed
  <2> QED BY <1>1, <1>3, <2>1 DEF FeaturesInv
<1>9. FeaturesAreComplete'
  BY <1>3 DEF FeaturesAreComplete
<1>10. partial' \in [n : Nat, dates : SUBSET MarketDates] /\ features' \subseteq Cells
  BY <1>1 DEF FeaturesInv
<1> QED BY <1>3, <1>4, <1>7, <1>8, <1>9, <1>10 DEF FeaturesInv, Batch

\* A run begins with every date that lacks features, the first one aside.
LEMMA BeginKeepsFeatures ==
  ASSUME FeaturesInv, NEW stocks \in SUBSET Stocks, NEW all \in BOOLEAN, FeaturesBegin(stocks, all)
  PROVE  FeaturesInv'
<1> PICK no \in BOOLEAN, yes \in BOOLEAN : no = FALSE /\ yes = TRUE /\ ~no /\ yes
  OBVIOUS
<1> DEFINE dates == IF all THEN DatesOf(priced) ELSE FeatureDates
           whole == stocks = {x[1] : x \in priced}
<1>1. /\ ~batch.on /\ priced # {} /\ (~whole => all) /\ stocks \subseteq {x[1] : x \in priced}
      /\ partial' = IF whole THEN partial ELSE [partial EXCEPT !.dates = @ \cup dates]
      /\ UNCHANGED <<priced, features, ranked, passed>>
      /\ priced \subseteq Cells /\ features \subseteq Cells
      /\ partial \in [n : Nat, dates : SUBSET MarketDates]
  BY DEF FeaturesBegin, FeaturesInv
<1>2. batch' = [on |-> yes, dates |-> dates, left |-> stocks, stored |-> no, current |-> yes]
  BY Zenon DEF FeaturesBegin
<1>3. DatesOf(priced) \subseteq MarketDates /\ DatesOf(priced) # {}
  BY <1>1 DEF DatesOf, Cells
<1>4. PICK last \in Nat : MarketDates = 1 .. last
  BY DatesAreNumbers
<1>5. /\ Min(DatesOf(priced)) \in DatesOf(priced) /\ \A d \in DatesOf(priced) : Min(DatesOf(priced)) <= d
      /\ Max(DatesOf(priced)) \in DatesOf(priced)
  BY <1>3, <1>4, MinAndMax
<1>6. \A x \in Computable(priced) : x \in priced /\ x[2] \in DatesOf(priced) /\ x[2] # Min(DatesOf(priced))
  <2> SUFFICES ASSUME NEW x \in Computable(priced)
               PROVE  x \in priced /\ x[2] \in DatesOf(priced) /\ x[2] # Min(DatesOf(priced))
    OBVIOUS
  <2>1. x \in priced /\ \E y \in priced : y[2] < x[2]
    BY DEF Computable
  <2>2. PICK y \in priced : y[2] < x[2]
    BY <2>1
  <2>3. x[2] \in DatesOf(priced) /\ y[2] \in DatesOf(priced)
    BY <2>1 DEF DatesOf
  <2> QED BY <1>3, <1>4, <1>5, <2>1, <2>2, <2>3
<1>7. \A x \in Computable(priced) : x[2] \in dates \cup DatesOf(features)
  BY <1>6 DEF FeatureDates
<1>8. dates \subseteq MarketDates
  <2>1. DatesOf(features) \subseteq MarketDates
    BY <1>1 DEF DatesOf, Cells
  <2>2. DatesOf(features) # {} => Max(DatesOf(features)) \in DatesOf(features)
    BY <1>4, <2>1, MinAndMax
  <2> QED BY <1>3, <1>5, <2>1, <2>2 DEF FeatureDates
<1> HIDE DEF dates, whole
<1>9. /\ batch' \in Batch /\ batch'.on /\ batch'.dates = dates /\ batch'.left = stocks
  BY <1>2, <1>8 DEF Batch
<1>10. partial' \in [n : Nat, dates : SUBSET MarketDates] /\ partial.dates \subseteq partial'.dates
       /\ (~whole => dates \subseteq partial'.dates)
  <2>1. CASE whole
    BY <1>1, <2>1
  <2>2. CASE ~whole
    <3> DEFINE some == partial.dates \cup dates
    <3>1. partial' = [partial EXCEPT !.dates = some]
      BY <1>1, <2>2
    <3>2. some \in SUBSET MarketDates
      BY <1>1, <1>8
    <3> HIDE DEF some
    <3>3. partial' \in [n : Nat, dates : SUBSET MarketDates] /\ partial'.dates = some
      BY <1>1, <3>1, <3>2
    <3> QED BY <3>3 DEF some
  <2> QED BY <2>1, <2>2
<1>11. \A x : Owed(x)' => Owed(x) /\ x[2] \notin partial'.dates
  BY <1>1, <1>10 DEF Owed
<1>12. \A x \in priced' : Owed(x)' /\ x[2] \in DatesOf(features)' /\ ~(batch'.on /\ x[2] \in batch'.dates) => x \in ranked'
  BY <1>1, <1>11 DEF FeaturesInv, DatesOf
<1>13. \A x \in priced' :
        Owed(x)' /\ x[2] \in batch'.dates /\ x[1] \notin batch'.left => x \in features' /\ batch'.stored
  <2> SUFFICES ASSUME NEW x \in priced', Owed(x)', x[2] \in batch'.dates, x[1] \notin batch'.left PROVE FALSE
    OBVIOUS
  <2>1. x \in priced /\ x[2] \in dates /\ x[1] \notin stocks /\ x[2] \notin partial'.dates
    BY <1>1, <1>9, <1>11
  <2>2. ~whole
    BY <2>1 DEF whole
  <2> QED BY <1>10, <2>1, <2>2
<1>14. \A x \in Computable(priced)' : x[2] \in batch'.dates \cup DatesOf(features)'
  BY <1>1, <1>7, <1>9 DEF DatesOf, Computable
<1>15. FeaturesAreComplete'
  BY <1>9 DEF FeaturesAreComplete
<1> QED BY <1>1, <1>9, <1>10, <1>12, <1>13, <1>14, <1>15 DEF FeaturesInv, Batch

\* A stock that is done has its rows stored, which get their ranks in the end.
LEMMA StoreKeepsFeatures ==
  ASSUME FeaturesInv, NEW s \in Stocks, StoreBatch(s)
  PROVE  FeaturesInv'
<1> DEFINE new == {x \in Computable(priced) : x[1] = s /\ x[2] \in batch.dates}
           left == batch.left \ {s}
<1>1. /\ batch.on /\ features' = features \cup new /\ ranked' = ranked \ new
      /\ UNCHANGED <<priced, passed, partial>> /\ priced \subseteq Cells /\ features \subseteq Cells
      /\ batch \in Batch /\ partial \in [n : Nat, dates : SUBSET MarketDates]
  BY DEF StoreBatch, FeaturesInv, Batch
<1> PICK stored \in BOOLEAN : stored = (batch.stored \/ new # {})
  OBVIOUS
<1>2. batch' = [batch EXCEPT !.left = left, !.stored = stored]
  BY DEF StoreBatch
<1>3. /\ batch' \in Batch /\ batch'.on = batch.on /\ batch'.dates = batch.dates /\ batch'.left = left
      /\ batch'.stored = stored /\ batch'.current = batch.current
  BY <1>1, <1>2 DEF Batch
<1>4. new \subseteq priced /\ \A x \in new : x[2] \in batch.dates
  BY DEF Computable
<1>5. features' \subseteq Cells
  BY <1>1, <1>4
<1>6. \A x : Owed(x)' <=> Owed(x)
  BY <1>1 DEF Owed, Computable
<1>7. \A x \in priced' : Owed(x)' /\ x[2] \in DatesOf(features)' /\ ~(batch'.on /\ x[2] \in batch'.dates) => x \in ranked'
  <2> SUFFICES ASSUME NEW x \in priced, Owed(x), x[2] \in DatesOf(features'), x[2] \notin batch.dates
               PROVE  x \in ranked'
    BY <1>1, <1>3, <1>6 DEF DatesOf
  <2>1. x[2] \in DatesOf(features)
    BY <1>1, <1>4 DEF DatesOf
  <2>2. x \in ranked
    BY <2>1 DEF FeaturesInv
  <2> QED BY <1>1, <1>4, <2>2
<1>8. \A x \in priced' :
        Owed(x)' /\ x[2] \in batch'.dates /\ x[1] \notin batch'.left => x \in features' /\ batch'.stored
  <2> SUFFICES ASSUME NEW x \in priced, Owed(x), x[2] \in batch.dates, x[1] \notin left
               PROVE  x \in features' /\ stored
    BY <1>1, <1>3, <1>6
  <2>1. CASE x[1] = s
    <3>1. x \in new
      BY <2>1 DEF Owed
    <3> QED BY <1>1, <3>1
  <2>2. CASE x[1] # s
    <3>1. x \in features /\ batch.stored
      BY <1>1, <2>2 DEF FeaturesInv
    <3> QED BY <1>1, <3>1
  <2> QED BY <2>1, <2>2
<1>9. batch'.current => \A x \in Computable(priced)' : x[2] \in batch'.dates \cup DatesOf(features)'
  <2> SUFFICES ASSUME batch.current, NEW x \in Computable(priced)
               PROVE  x[2] \in batch.dates \cup DatesOf(features')
    BY <1>1, <1>3 DEF DatesOf, Computable
  <2>1. x[2] \in batch.dates \cup DatesOf(features)
    BY <1>1 DEF FeaturesInv
  <2> QED BY <1>1, <2>1 DEF DatesOf
<1>10. FeaturesAreComplete'
  BY <1>1, <1>3 DEF FeaturesAreComplete
<1> HIDE DEF left
<1> QED BY <1>1, <1>3, <1>5, <1>7, <1>8, <1>9, <1>10 DEF FeaturesInv, Batch

\* With its ranks a run ends, and nothing that is owed is left.
LEMMA RankKeepsFeatures ==
  ASSUME FeaturesInv, Rank
  PROVE  FeaturesInv'
<1> PICK no \in BOOLEAN : no = FALSE /\ ~no
  OBVIOUS
<1> DEFINE current == batch.current
<1>1. /\ batch.on /\ batch.left = {}
      /\ ranked' = IF batch.stored THEN ranked \cup {x \in features : x[2] \in batch.dates} ELSE ranked
      /\ UNCHANGED <<priced, features, passed, partial>> /\ priced \subseteq Cells /\ features \subseteq Cells
      /\ batch \in Batch /\ partial \in [n : Nat, dates : SUBSET MarketDates]
  BY DEF Rank, FeaturesInv, Batch
<1>2. NoBatch = [on |-> no, dates |-> {}, left |-> {}, stored |-> no, current |-> no]
  BY Zenon DEF NoBatch
<1>3. NoBatch \in Batch /\ ~NoBatch.on
  BY <1>2 DEF Batch
<1>4. batch' = [NoBatch EXCEPT !.current = current] /\ current \in BOOLEAN
  BY <1>1 DEF Rank, Batch
<1> HIDE DEF current
<1>5. batch' \in Batch /\ ~batch'.on /\ batch'.current = current
  BY <1>3, <1>4 DEF Batch
<1>6. \A x : Owed(x)' <=> Owed(x)
  BY <1>1 DEF Owed, Computable
<1>7. \A x \in priced : Owed(x) /\ x[2] \in DatesOf(features) \cup batch.dates => x \in ranked'
  <2> SUFFICES ASSUME NEW x \in priced, Owed(x), x[2] \in DatesOf(features) \cup batch.dates
               PROVE  x \in ranked'
    OBVIOUS
  <2>1. CASE x[2] \in batch.dates
    <3>1. x \in features /\ batch.stored
      BY <1>1, <2>1 DEF FeaturesInv
    <3> QED BY <1>1, <2>1, <3>1
  <2>2. CASE x[2] \notin batch.dates
    <3>1. x \in ranked
      BY <2>2 DEF FeaturesInv
    <3> QED BY <1>1, <3>1
  <2> QED BY <2>1, <2>2
<1>8. \A x \in priced' : Owed(x)' /\ x[2] \in DatesOf(features)' => x \in ranked'
  BY <1>1, <1>6, <1>7 DEF DatesOf
<1>9. FeaturesAreComplete'
  <2> SUFFICES ASSUME current, NEW x \in Computable(priced), x \notin passed, x[2] \notin partial.dates
               PROVE  x \in ranked'
    BY <1>1, <1>5 DEF FeaturesAreComplete, Computable
  <2>1. Owed(x) /\ x \in priced
    BY DEF Owed, Computable
  <2>2. x[2] \in batch.dates \cup DatesOf(features)
    BY <1>1 DEF FeaturesInv, current
  <2> QED BY <1>7, <2>1, <2>2
<1> QED BY <1>1, <1>5, <1>8, <1>9 DEF FeaturesInv, Batch

\* The dates of a run that ends in the middle are excused.
LEMMA TearKeepsFeatures ==
  ASSUME FeaturesInv, Tears
  PROVE  FeaturesInv'
<1> PICK no \in BOOLEAN : no = FALSE /\ ~no
  OBVIOUS
<1>1. /\ batch.on /\ batch' = NoBatch
      /\ partial' = [n |-> partial.n + 1, dates |-> partial.dates \cup batch.dates]
      /\ UNCHANGED <<priced, features, ranked, passed>> /\ priced \subseteq Cells /\ features \subseteq Cells
      /\ batch \in Batch /\ partial \in [n : Nat, dates : SUBSET MarketDates]
  BY DEF Tears, FeaturesInv, Batch
<1>2. NoBatch = [on |-> no, dates |-> {}, left |-> {}, stored |-> no, current |-> no]
  BY Zenon DEF NoBatch
<1>3. batch' \in Batch /\ ~batch'.on /\ ~batch'.current
  BY <1>1, <1>2 DEF Batch
<1>4. /\ partial' \in [n : Nat, dates : SUBSET MarketDates]
      /\ partial'.dates = partial.dates \cup batch.dates
  BY <1>1 DEF Batch
<1>5. \A x : Owed(x)' => Owed(x) /\ x[2] \notin batch.dates
  BY <1>1, <1>4 DEF Owed, Computable
<1>6. \A x \in priced' : Owed(x)' /\ x[2] \in DatesOf(features)' => x \in ranked'
  BY <1>1, <1>5 DEF FeaturesInv, DatesOf
<1>7. FeaturesAreComplete'
  BY <1>3 DEF FeaturesAreComplete
<1> QED BY <1>1, <1>3, <1>4, <1>6, <1>7 DEF FeaturesInv, Batch

\* Sets of numbers up to a bound are finite, and so are their parts.
LEMMA NumbersAreFinite ==
  ASSUME NEW n \in Nat, NEW S, S \subseteq 1 .. n
  PROVE  IsFiniteSet(S) /\ \A T \in SUBSET S : IsFiniteSet(T) /\ Cardinality(T) \in Nat
<1>1. IsFiniteSet(1 .. n)
  BY FS_Interval
<1>2. IsFiniteSet(S)
  BY <1>1, FS_Subset
<1> QED BY <1>2, FS_Subset, FS_CardinalityType

\* A run of numbers has its length.
LEMMA RunLength ==
  ASSUME NEW a \in Nat, NEW b \in Nat, a <= b
  PROVE  IsFiniteSet(a + 1 .. b) /\ Cardinality(a + 1 .. b) = b - a
<1> DEFINE c == a + 1
<1>1. c \in Int /\ b \in Int /\ (c > b <=> a = b) /\ b - c + 1 = b - a
  OBVIOUS
<1> HIDE DEF c
<1>2. IsFiniteSet(c .. b) /\ Cardinality(c .. b) = IF c > b THEN 0 ELSE b - c + 1
  BY <1>1, FS_Interval
<1>3. IsFiniteSet(c .. b) /\ Cardinality(c .. b) = b - a
  BY <1>1, <1>2
<1> QED BY <1>3 DEF c

\* Two finite sets without a common element have the sum of their sizes.
LEMMA DisjointUnion ==
  ASSUME NEW S, IsFiniteSet(S), NEW T, IsFiniteSet(T), S \cap T = {}
  PROVE  Cardinality(S \cup T) = Cardinality(S) + Cardinality(T)
<1>1. Cardinality(S) \in Nat /\ Cardinality(T) \in Nat /\ Cardinality(S \cap T) = 0
  BY FS_CardinalityType, FS_EmptySet
<1>2. Cardinality(S \cup T) = Cardinality(S) + Cardinality(T) - Cardinality(S \cap T)
  BY FS_Union
<1> QED BY <1>1, <1>2

\* A date with as many dates after it as the horizon has is not among the newest.
LEMMA FarFromNewest ==
  ASSUME NEW n \in Nat, NEW dates, dates \subseteq 1 .. n, NEW d \in Nat, NEW h \in Nat,
         d + 1 .. d + h \subseteq dates
  PROVE  d \notin Newest(h, dates)
<1> DEFINE after == {e \in dates : e > d}
<1>1. d + 1 .. d + h \subseteq after
  OBVIOUS
<1>2. IsFiniteSet(after)
  BY NumbersAreFinite
<1>3. Cardinality(d + 1 .. d + h) = h
  BY RunLength
<1>4. Cardinality(after) \in Nat /\ Cardinality(after) >= h
  <2> HIDE DEF after
  <2>1. Cardinality(d + 1 .. d + h) <= Cardinality(after) /\ Cardinality(after) \in Nat
    BY <1>1, <1>2, FS_Subset, FS_CardinalityType
  <2> QED BY <1>3, <2>1
<1> QED BY <1>4 DEF Newest

\* Without the h newest dates, a date has h fewer after it.
LEMMA NewestOfEligible ==
  ASSUME NEW n \in Nat, NEW dates, dates \subseteq 1 .. n, NEW d \in dates, NEW h \in Nat, NEW r \in Nat \ {0},
         d \notin Newest(h, dates), Cardinality({e \in dates : e > d}) < r + h
  PROVE  d \in Newest(r, dates \ Newest(h, dates))
<1> DEFINE after == {e \in dates : e > d}
           eligible == dates \ Newest(h, dates)
           rest == {e \in eligible : e > d}
<1>1. IsFiniteSet(dates) /\ \A S \in SUBSET dates : IsFiniteSet(S) /\ Cardinality(S) \in Nat
  BY NumbersAreFinite
<1>2. rest \subseteq after /\ after \subseteq dates /\ d \in eligible
  OBVIOUS
<1>3. CASE rest = {}
  <2>1. Cardinality(rest) = 0
    BY <1>3, FS_EmptySet
  <2> QED BY <1>2, <2>1 DEF Newest
<1>4. CASE rest # {}
  <2>1. rest \subseteq 0 .. n
    <3>1. rest \subseteq 1 .. n
      BY <1>2
    <3> HIDE DEF rest
    <3> QED BY <3>1
  <2>2. PICK m \in rest : \A e \in rest : e <= m
    BY <1>4, <2>1, Greatest
  <2> DEFINE top == {e \in dates : e > m}
  <2>3. ~(Cardinality(top) < h) /\ m \in Nat /\ m > d
    BY <2>2 DEF Newest
  <2>4. top \subseteq after /\ top \cap rest = {}
    <3>1. \A e \in dates : e \in Nat
      OBVIOUS
    <3>2. \A e \in top : e \in dates /\ e > m
      OBVIOUS
    <3>3. top \subseteq after
      <4> SUFFICES ASSUME NEW e \in top PROVE e \in after
        OBVIOUS
      <4>1. e > d
        BY <2>3, <3>1, <3>2
      <4> QED BY <3>2, <4>1
    <3>4. \A e \in top : e \notin rest
      <4> SUFFICES ASSUME NEW e \in top, e \in rest PROVE FALSE
        OBVIOUS
      <4>1. e <= m
        BY <2>2
      <4>2. e \in Nat /\ e > m
        BY <3>1, <3>2
      <4> QED BY <2>3, <4>1, <4>2
    <3> QED BY <3>3, <3>4
  <2> HIDE DEF top, rest, after
  <2>5. Cardinality(top \cup rest) = Cardinality(top) + Cardinality(rest)
    BY <1>1, <1>2, <2>4, DisjointUnion
  <2>6. Cardinality(top \cup rest) <= Cardinality(after)
    BY <1>1, <1>2, <2>4, FS_Subset
  <2>7. Cardinality(top) \in Nat /\ Cardinality(rest) \in Nat /\ Cardinality(after) \in Nat
    BY <1>1, <1>2, <2>4
  <2>8. Cardinality(after) < r + h
    BY DEF after
  <2>9. Cardinality(rest) < r
    BY <2>3, <2>5, <2>6, <2>7, <2>8
  <2> QED BY <1>2, <2>9 DEF Newest, rest
<1> QED BY <1>3, <1>4

\* How many dates come after one whose farthest label the last labelling could not know.
LEMMA DatesSince ==
  ASSUME NEW n \in Nat, NEW dates, dates \subseteq 1 .. n, NEW d \in Nat, NEW newest \in Nat,
         NEW last \in Nat, last <= Cardinality({e \in dates : e <= newest}), d + LongHorizon > newest,
         Cardinality(dates) - last <= Recent - (LongHorizon - Horizon)
  PROVE  Cardinality({e \in dates : e > d}) < Recent + Horizon
<1> DEFINE after == {e \in dates : e > d}
           old == {e \in dates : e <= newest}
           late == {e \in dates : e >= d + LongHorizon}
           near == d + 1 .. d + LongHorizon - 1
<1>1. Horizon \in Nat /\ LongHorizon \in Nat \ {0} /\ Recent \in Nat
  BY DatasetsAssumption
<1>2. IsFiniteSet(dates) /\ \A S \in SUBSET dates : IsFiniteSet(S) /\ Cardinality(S) \in Nat
  BY NumbersAreFinite
<1>3. IsFiniteSet(near) /\ Cardinality(near) = LongHorizon - 1
  <2> DEFINE b == d + LongHorizon - 1
  <2>1. b \in Nat /\ d <= b /\ b - d = LongHorizon - 1
    BY <1>1
  <2> HIDE DEF b
  <2>2. IsFiniteSet(d + 1 .. b) /\ Cardinality(d + 1 .. b) = LongHorizon - 1
    BY <2>1, RunLength
  <2> QED BY <2>2 DEF b
<1>4. old \cap late = {} /\ old \subseteq dates /\ late \subseteq dates /\ after \subseteq dates
  <2>1. \A e \in dates : e \in Nat
    OBVIOUS
  <2>2. \A e \in dates : ~(e <= newest /\ e >= d + LongHorizon)
    BY <1>1, <2>1
  <2> QED BY <2>2
<1>5. after \subseteq near \cup late
  <2> SUFFICES ASSUME NEW e \in after, e \notin late PROVE e \in near
    OBVIOUS
  <2>1. e \in dates /\ e \in Nat /\ e > d /\ ~(e >= d + LongHorizon)
    OBVIOUS
  <2> HIDE DEF after, late
  <2> QED BY <1>1, <2>1
<1>6. last <= Cardinality(old)
  OBVIOUS
<1> HIDE DEF after, old, late, near
<1>7. Cardinality(old \cup late) = Cardinality(old) + Cardinality(late)
  BY <1>2, <1>4, DisjointUnion
<1>8. Cardinality(old \cup late) <= Cardinality(dates)
  BY <1>2, <1>4, FS_Subset
<1>9. IsFiniteSet(near \cup late) /\ Cardinality(near \cup late) <= Cardinality(near) + Cardinality(late)
  <2>1. IsFiniteSet(late)
    BY <1>2, <1>4
  <2>2. IsFiniteSet(near \cap late) /\ Cardinality(near \cap late) \in Nat /\ Cardinality(near) \in Nat /\ Cardinality(late) \in Nat
    BY <1>3, <2>1, FS_Subset, FS_CardinalityType
  <2>3. /\ IsFiniteSet(near \cup late)
        /\ Cardinality(near \cup late) = Cardinality(near) + Cardinality(late) - Cardinality(near \cap late)
    BY <1>3, <2>1, FS_Union
  <2> QED BY <2>2, <2>3
<1>10. Cardinality(after) <= Cardinality(near \cup late)
  BY <1>5, <1>9, FS_Subset
<1>11. {Cardinality(old), Cardinality(late), Cardinality(dates), Cardinality(after)} \subseteq Nat
  BY <1>2, <1>4
<1>12. Cardinality(near \cup late) \in Nat
  BY <1>9, FS_CardinalityType
<1> DEFINE o == Cardinality(old)
           l == Cardinality(late)
           a == Cardinality(after)
           u == Cardinality(near \cup late)
           c == Cardinality(dates)
           ol == Cardinality(old \cup late)
<1>13. /\ o \in Nat /\ l \in Nat /\ a \in Nat /\ u \in Nat /\ c \in Nat
       /\ ol = o + l /\ ol <= c /\ u <= LongHorizon - 1 + l /\ a <= u /\ last <= o
       /\ c - last <= Recent - (LongHorizon - Horizon)
  BY <1>3, <1>6, <1>7, <1>8, <1>9, <1>10, <1>11, <1>12
<1> HIDE DEF o, l, a, u, c, ol
<1>14. a < Recent + Horizon
  BY <1>1, <1>13
<1> QED BY <1>14 DEF a, after

\* Bars of one stock, one on every date of an interval.
LEMMA BarsOfStock ==
  ASSUME NEW s, NEW a \in Nat, NEW b \in Nat, a <= b
  PROVE  /\ IsFiniteSet({s} \X (a + 1 .. b))
         /\ Cardinality({s} \X (a + 1 .. b)) = b - a
<1> DEFINE S == {s}
           T == a + 1 .. b
           c == b - a
<1>1. IsFiniteSet(S) /\ Cardinality(S) = 1
  BY FS_Singleton
<1>2. IsFiniteSet(T) /\ Cardinality(T) = c /\ c \in Nat
  BY RunLength
<1> HIDE DEF S, T, c
<1>3. IsFiniteSet(S \X T) /\ Cardinality(S \X T) = 1 * c
  BY <1>1, <1>2, FS_Product
<1>4. IsFiniteSet(S \X T) /\ Cardinality(S \X T) = c
  BY <1>2, <1>3
<1> QED BY <1>4 DEF S, T, c

\* The farthest label of a stock that has all bars up to it.
LEMMA FarthestLabel ==
  ASSUME priced \subseteq Cells, NEW x \in priced, Span(x) \subseteq priced
  PROVE  DateAfter(x, LongHorizon) = Farthest(x)
<1> PICK last \in Nat : MarketDates = 1 .. last
  BY DatesAreNumbers
<1> DEFINE s == x[1]
           d == x[2]
           far == Farthest(x)
           after == {y \in priced : y[1] = x[1] /\ y[2] > x[2]}
           Before(y) == {z \in after : z[2] < y[2]}
           nth == {y \in after : Cardinality(Before(y)) = LongHorizon - 1}
<1>1. /\ d \in Nat /\ LongHorizon \in Nat \ {0} /\ far = d + LongHorizon /\ far \in Nat /\ d < far
  BY DatasetsAssumption DEF Cells, Farthest
<1>2. \A y \in after : y \in Stocks \X (1 .. last) /\ y = <<s, y[2]>> /\ y[2] \in Nat /\ y[2] > d
  BY DEF Cells
<1>3. \A e \in d + 1 .. far : <<s, e>> \in after
  BY <1>1 DEF Span
<1>4. IsFiniteSet(after)
  <2>1. IsFiniteSet(Stocks) /\ IsFiniteSet(1 .. last)
    BY DatasetsAssumption, NumbersAreFinite
  <2>2. IsFiniteSet(Stocks \X (1 .. last))
    BY <2>1, FS_Product
  <2> QED BY <2>2, FS_Subset DEF Cells
<1> HIDE DEF after, far
<1>5. ASSUME NEW y \in after, y[2] <= far
      PROVE  Cardinality(Before(y)) = y[2] - d - 1
  <2>1. Before(y) = {s} \X (d + 1 .. y[2] - 1)
    <3>1. ASSUME NEW z \in Before(y) PROVE z \in {s} \X (d + 1 .. y[2] - 1)
      <4>1. z = <<s, z[2]>> /\ z[2] \in Nat /\ z[2] > d /\ z[2] < y[2] /\ y[2] \in Nat
        BY <1>2
      <4>2. z[2] \in d + 1 .. y[2] - 1
        BY <1>1, <4>1
      <4> QED BY <4>1, <4>2
    <3>2. ASSUME NEW e \in d + 1 .. y[2] - 1 PROVE <<s, e>> \in Before(y)
      <4>1. e \in d + 1 .. far /\ e < y[2]
        BY <1>1, <1>2, <1>5
      <4> QED BY <1>3, <4>1
    <3> QED BY <3>1, <3>2
  <2>2. y[2] \in Nat /\ y[2] > d
    BY <1>2
  <2> HIDE DEF s, d, Before
  <2> DEFINE b == y[2] - 1
  <2>3. b \in Nat /\ d <= b /\ d \in Nat /\ b - d = y[2] - d - 1
    BY <1>1, <2>2
  <2> HIDE DEF b
  <2>4. Cardinality({s} \X (d + 1 .. b)) = b - d
    BY <2>3, BarsOfStock
  <2> QED BY <2>1, <2>3, <2>4 DEF b
<1>6. ASSUME NEW y \in after, y[2] > far
      PROVE  Cardinality(Before(y)) >= LongHorizon /\ Cardinality(Before(y)) \in Nat
  <2>1. {s} \X (d + 1 .. far) \subseteq Before(y)
    <3>1. ASSUME NEW e \in d + 1 .. far PROVE <<s, e>> \in Before(y)
      BY <1>1, <1>2, <1>3, <1>6
    <3> QED BY <3>1
  <2>2. IsFiniteSet(Before(y)) /\ Cardinality(Before(y)) \in Nat
    BY <1>4, FS_Subset, FS_CardinalityType
  <2> HIDE DEF s, d, Before
  <2>3. Cardinality({s} \X (d + 1 .. far)) = LongHorizon
    <3>1. d \in Nat /\ far \in Nat /\ d <= far
      BY <1>1
    <3>2. Cardinality({s} \X (d + 1 .. far)) = far - d
      BY <3>1, BarsOfStock
    <3> QED BY <1>1, <3>2
  <2>4. Cardinality({s} \X (d + 1 .. far)) <= Cardinality(Before(y))
    BY <2>1, <2>2, FS_Subset
  <2> QED BY <1>1, <2>2, <2>3, <2>4
<1> DEFINE top == <<s, far>>
<1>7. top \in after /\ top[2] = far
  BY <1>1, <1>3
<1>8. nth = {top}
  <2>1. top \in nth
    BY <1>1, <1>5, <1>7
  <2>2. ASSUME NEW y \in nth PROVE y = top
    <3>1. y \in after /\ Cardinality(Before(y)) = LongHorizon - 1
      OBVIOUS
    <3>2. y[2] <= far
      <4>1. CASE y[2] > far
        <5>1. Cardinality(Before(y)) >= LongHorizon
          BY <1>6, <3>1, <4>1
        <5> QED BY <1>1, <3>1, <5>1
      <4>2. y[2] \in Nat
        BY <1>2, <3>1
      <4> QED BY <1>1, <4>1, <4>2
    <3>3. Cardinality(Before(y)) = y[2] - d - 1
      BY <1>5, <3>1, <3>2
    <3>4. y[2] \in Nat /\ y = <<s, y[2]>>
      BY <1>2, <3>1
    <3>5. y[2] = far
      BY <1>1, <3>1, <3>3, <3>4
    <3> QED BY <3>4, <3>5
  <2> QED BY <2>1, <2>2
<1>9. DateAfter(x, LongHorizon) = IF nth = {} THEN 0 ELSE Min(DatesOf(nth))
  BY DEF DateAfter, after
<1> HIDE DEF nth, top
<1>10. DatesOf(nth) = {far}
  BY <1>7, <1>8 DEF DatesOf
<1>11. Min({far}) = far
  <2> DEFINE S == {far}
  <2>1. S \subseteq 0 .. far /\ S # {} /\ far \in Nat
    BY <1>1
  <2>2. \A z \in S : z = far
    OBVIOUS
  <2> HIDE DEF S
  <2>3. Min(S) \in S
    BY <2>1, MinAndMax
  <2> QED BY <2>2, <2>3 DEF S
<1>12. nth # {}
  BY <1>8
<1> QED BY <1>9, <1>10, <1>11, <1>12 DEF far

\* A bar that comes late is backfill: no stock has its bars in time with it.
LEMMA BarsKeepLabels ==
  ASSUME LabelsInv, NEW d \in MarketDates, NEW stocks \in SUBSET Stocks, BarsCome(d, stocks)
  PROVE  LabelsInv'
<1> DEFINE new == (stocks \X {d}) \ priced
           later == d <= sizes.newest \/ {x \in priced : x[2] > d} # {}
<1>1. /\ priced' = priced \cup new /\ UNCHANGED <<labels, sizes>> /\ priced \subseteq Cells
      /\ backfill' = IF later THEN backfill \cup new ELSE backfill
  BY DEF BarsCome, LabelsInv
<1>2. new \subseteq Cells /\ \A y \in new : y[2] = d
  BY DEF Cells
<1>3. d <= sizes.newest => later
  OBVIOUS
<1> HIDE DEF new, later
<1>4. priced' \subseteq Cells
  BY <1>1, <1>2
<1>5. sizes.last <= Cardinality({e \in DatesOf(priced') : e <= sizes.newest})
  <2> DEFINE S == {e \in DatesOf(priced) : e <= sizes.newest}
             T == {e \in DatesOf(priced') : e <= sizes.newest}
  <2>1. PICK last \in Nat : MarketDates = 1 .. last
    BY DatesAreNumbers
  <2>2. S \subseteq T
    BY <1>1 DEF DatesOf
  <2>3. T \subseteq 1 .. last
    BY <1>4, <2>1 DEF DatesOf, Cells
  <2>4. sizes.last <= Cardinality(S) /\ sizes.last \in Nat
    BY DEF LabelsInv
  <2> HIDE DEF S, T
  <2>5. IsFiniteSet(T) /\ Cardinality(S) \in Nat /\ Cardinality(T) \in Nat
    BY <2>2, <2>3, NumbersAreFinite
  <2>6. Cardinality(S) <= Cardinality(T)
    BY <2>2, <2>5, FS_Subset
  <2>7. sizes.last <= Cardinality(T)
    BY <2>4, <2>5, <2>6
  <2> QED BY <2>7 DEF T
<1>6. ASSUME ~sizes.apart, NEW x \in priced', Span(x) \subseteq priced' \ backfill', Farthest(x) <= sizes.newest
      PROVE  x \in DOMAIN labels /\ labels[x].long = Farthest(x)
  <2>1. x[2] \in Nat /\ LongHorizon \in Nat /\ Farthest(x) \in Nat /\ sizes.newest \in Nat /\ x = <<x[1], x[2]>>
    <3>1. PICK last \in Nat : MarketDates = 1 .. last
      BY DatesAreNumbers
    <3> QED BY <1>4, <3>1, DatasetsAssumption DEF Cells, Farthest, LabelsInv
  <2>2. ASSUME NEW y \in Span(x) PROVE y \in priced \ backfill
    <3>1. y \in priced' /\ y \notin backfill' /\ y[2] \in x[2] .. Farthest(x)
      BY <1>6 DEF Span
    <3>2. y \notin backfill
      BY <1>1, <3>1
    <3>3. y \notin new
      <4> SUFFICES ASSUME y \in new PROVE FALSE
        OBVIOUS
      <4>1. d = y[2] /\ d <= Farthest(x) /\ d \in Nat
        BY <1>2, <2>1, <3>1
      <4>2. later
        BY <1>3, <1>6, <2>1, <4>1
      <4> QED BY <1>1, <3>1, <4>2
    <3> QED BY <1>1, <3>1, <3>2, <3>3
  <2>3. x \in Span(x)
    BY <2>1 DEF Span, Farthest
  <2>4. x \in priced
    BY <2>2, <2>3
  <2> QED BY <1>6, <2>2, <2>4 DEF LabelsInv
<1>7. /\ sizes' = sizes /\ labels' = labels /\ sizes.last \in Nat /\ sizes.newest \in Nat
      /\ (sizes.last = 0 => DOMAIN labels = {})
  BY <1>1 DEF LabelsInv
<1> QED BY <1>4, <1>5, <1>6, <1>7 DEF LabelsInv, Span, Farthest

\* The length of the dates that are labelled again.
LEMMA RecentReaches ==
  ASSUME NEW h \in {Horizon, LongHorizon}
  PROVE  RecentLength(h) \in Nat \ {0} /\ RecentLength(h) >= Recent
<1> DEFINE S == {Recent, h}
           n == Recent + h
<1>1. h \in Nat /\ Recent \in Nat \ {0} /\ n \in Nat
  BY DatasetsAssumption
<1>2. S \subseteq 0 .. n /\ S # {} /\ Recent \in S /\ S \subseteq Nat
  BY <1>1
<1> HIDE DEF S, n
<1>3. Max(S) \in S /\ Recent <= Max(S)
  BY <1>1, <1>2, MinAndMax
<1>4. Max(S) \in Nat
  BY <1>2, <1>3
<1>5. Max(S) \in Nat \ {0} /\ Max(S) >= Recent
  BY <1>1, <1>3, <1>4
<1> QED BY <1>5 DEF RecentLength, S

\* A labelling sets the farthest label of the rows that could not have it before.
LEMMA LabelKeepsLabels ==
  ASSUME LabelsInv, NEW h \in {Horizon, LongHorizon}, Label(h)
  PROVE  LabelsInv'
<1> DEFINE all == DatesOf(priced)
           new == {x \in priced : x[2] \in LabelDates(h)}
           c == Cardinality(all)
           far == sizes.last > 0 /\ c - sizes.last > Recent - (LongHorizon - Horizon)
<1>1. PICK n \in Nat : MarketDates = 1 .. n
  BY DatesAreNumbers
<1>2. /\ priced \subseteq Cells /\ all # {} /\ UNCHANGED <<priced, backfill>>
      /\ labels' = [x \in DOMAIN labels \cup new |->
                      IF x \in new THEN [short |-> DateAfter(x, Horizon), long |-> DateAfter(x, LongHorizon)]
                                   ELSE labels[x]]
  BY DEF Label, LabelsInv
<1>3. all \subseteq 1 .. n
  BY <1>1, <1>2 DEF DatesOf, Cells
<1> PICK apart \in BOOLEAN : apart = (sizes.apart \/ far)
  OBVIOUS
<1>4. sizes' = [last |-> c, newest |-> Max(all), apart |-> apart]
  BY DEF Label
<1>5. sizes'.last = c /\ sizes'.newest = Max(all) /\ sizes'.apart = apart
  BY <1>4
<1>6. ASSUME NEW x \in priced
      PROVE  x[2] \in all /\ x[2] \in Nat /\ x = <<x[1], x[2]>>
  BY <1>1, <1>2 DEF DatesOf, Cells
<1> HIDE DEF all
<1>7. IsFiniteSet(all) /\ c \in Nat /\ c # 0
  BY <1>2, <1>3, NumbersAreFinite, FS_EmptySet
<1>8. Max(all) \in all /\ \A e \in all : e <= Max(all)
  <2>1. all \subseteq 0 .. n
    BY <1>3
  <2> QED BY <1>2, <2>1, MinAndMax
<1>9. Max(all) \in Nat
  <2>1. \A e \in all : e \in Nat
    BY <1>3
  <2> QED BY <1>8, <2>1
<1>10. c <= Cardinality({e \in all : e <= Max(all)})
  <2>1. {e \in all : e <= Max(all)} = all
    BY <1>8
  <2> QED BY <1>7, <2>1
<1>11. ASSUME ~apart, NEW x \in priced, Span(x) \subseteq priced \ backfill
       PROVE  x \in DOMAIN labels' /\ labels'[x].long = Farthest(x)
  <2>1. DateAfter(x, LongHorizon) = Farthest(x)
    BY <1>2, <1>11, FarthestLabel
  <2>2. CASE x \in new
    <3>1. x \in DOMAIN labels' /\ labels'[x] = [short |-> DateAfter(x, Horizon), long |-> DateAfter(x, LongHorizon)]
      BY <1>2, <2>2
    <3> QED BY <2>1, <3>1
  <2>3. CASE x \notin new
    <3>1. x[2] \notin LabelDates(h)
      BY <2>3
    <3>2. x \in DOMAIN labels => labels'[x] = labels[x] /\ x \in DOMAIN labels'
      BY <1>2, <2>3
    <3>3. CASE Farthest(x) <= sizes.newest
      <4>1. ~sizes.apart
        BY <1>11
      <4>2. x \in DOMAIN labels /\ labels[x].long = Farthest(x)
        BY <1>11, <3>3, <4>1 DEF LabelsInv
      <4> QED BY <3>2, <4>2
    <3>4. CASE ~(Farthest(x) <= sizes.newest)
      <4> DEFINE d == x[2]
                 eligible == all \ Newest(h, all)
      <4>1. /\ h \in Nat /\ Horizon \in Nat /\ LongHorizon \in Nat /\ Horizon <= h /\ h <= LongHorizon /\ Recent \in Nat
            /\ d \in Nat /\ d \in all
        BY <1>6, DatasetsAssumption
      <4>2. ASSUME NEW e \in d + 1 .. d + h PROVE e \in all
        <5>1. e \in x[2] .. Farthest(x)
          BY <4>1 DEF Farthest
        <5>2. <<x[1], e>> \in priced
          BY <1>11, <5>1 DEF Span
        <5> QED BY <5>2 DEF all, DatesOf
      <4>3. d \notin Newest(h, all)
        <5>1. d + 1 .. d + h \subseteq all
          BY <4>2
        <5> HIDE DEF d
        <5> QED BY <1>3, <4>1, <5>1, FarFromNewest
      <4>4. d \in LabelDates(h)
        <5>1. CASE sizes.last = 0
          <6>1. DatesOf(DOMAIN labels) = {}
            BY <5>1 DEF LabelsInv, DatesOf
          <6> QED BY <4>1, <4>3, <6>1 DEF LabelDates, all
        <5>2. CASE sizes.last # 0
          <6> DEFINE last == sizes.last
                     newest == sizes.newest
          <6>1. last \in Nat /\ newest \in Nat /\ last <= Cardinality({e \in all : e <= newest})
            BY DEF LabelsInv, all
          <6>2. d + LongHorizon > newest
            BY <3>4, <4>1, <6>1 DEF Farthest
          <6>3. last > 0
            BY <5>2, <6>1
          <6>4. c - last <= Recent - (LongHorizon - Horizon)
            <7>1. ~far
              BY <1>11
            <7>2. ~(c - last > Recent - (LongHorizon - Horizon))
              BY <6>3, <7>1
            <7> HIDE DEF last, c
            <7> QED BY <1>7, <4>1, <6>1, <7>2
          <6> HIDE DEF last, newest, d
          <6>5. Cardinality({e \in all : e > d}) < Recent + Horizon
            BY <1>3, <4>1, <6>1, <6>2, <6>4, DatesSince
          <6> DEFINE r == RecentLength(h)
                     k == Cardinality({e \in all : e > d})
          <6>6. r \in Nat \ {0} /\ r >= Recent
            BY RecentReaches
          <6>7. k \in Nat
            <7>1. {e \in all : e > d} \subseteq all
              OBVIOUS
            <7> QED BY <1>3, <7>1, NumbersAreFinite
          <6>8. k < Recent + Horizon
            BY <6>5
          <6> HIDE DEF r, k
          <6>9. k < r + h
            BY <4>1, <6>6, <6>7, <6>8
          <6>10. d \in Newest(r, all \ Newest(h, all))
            BY <1>3, <4>1, <4>3, <6>6, <6>9, NewestOfEligible DEF k
          <6> QED BY <6>10 DEF LabelDates, all, r
        <5> QED BY <5>1, <5>2
      <4> QED BY <3>1, <4>4
    <3> QED BY <3>3, <3>4
  <2> QED BY <2>2, <2>3
<1>12. DatesOf(priced)' = all
  BY <1>2 DEF all, DatesOf
<1> HIDE DEF c
<1>13. priced' \subseteq Cells /\ sizes'.last \in Nat /\ sizes'.newest \in Nat /\ ~(sizes'.last = 0)
  BY <1>2, <1>5, <1>7, <1>9
<1>14. sizes'.last <= Cardinality({d \in DatesOf(priced)' : d <= sizes'.newest})
  BY <1>5, <1>10, <1>12
<1>15. ~sizes'.apart => \A x \in priced' :
         Span(x) \subseteq priced' \ backfill' /\ Farthest(x) <= sizes'.newest =>
           x \in DOMAIN labels' /\ labels'[x].long = Farthest(x)
  BY <1>2, <1>5, <1>11
<1> QED BY <1>13, <1>14, <1>15 DEF LabelsInv, Span, Farthest, DatesOf

\* Both parts hold of the datasets in every state.
RowsInv == LabelsInv /\ FeaturesInv

LEMMA RowsInitially == MlInit => RowsInv
<1> SUFFICES ASSUME MlInit PROVE RowsInv
  OBVIOUS
<1> PICK no \in BOOLEAN : no = FALSE /\ ~no
  OBVIOUS
<1>1. /\ priced = {} /\ features = {} /\ DOMAIN labels = {} /\ batch = NoBatch
      /\ partial = [n |-> 0, dates |-> {}]
  BY DEF MlInit
<1>2. NoBatch = [on |-> no, dates |-> {}, left |-> {}, stored |-> no, current |-> no]
  BY Zenon DEF NoBatch
<1>3. batch \in Batch /\ ~batch.on /\ ~batch.current
  BY <1>1, <1>2 DEF Batch
<1>4. sizes = [last |-> 0, newest |-> 0, apart |-> no]
  BY Zenon DEF MlInit
<1>5. sizes.last = 0 /\ sizes.newest = 0
  BY <1>4
<1>6. LabelsInv
  <2>1. {d \in DatesOf(priced) : d <= sizes.newest} = {}
    BY <1>1 DEF DatesOf
  <2>2. Cardinality({d \in DatesOf(priced) : d <= sizes.newest}) = 0
    BY <2>1, FS_EmptySet
  <2> QED BY <1>1, <1>5, <2>2 DEF LabelsInv
<1>7. partial \in [n : Nat, dates : SUBSET MarketDates]
  BY <1>1
<1>8. FeaturesAreComplete
  BY <1>3 DEF FeaturesAreComplete
<1> QED BY <1>1, <1>3, <1>6, <1>7, <1>8 DEF RowsInv, FeaturesInv, Batch

LEMMA RowsAlways == RowsInv /\ [MlNext]_mlVars => RowsInv'
<1> SUFFICES ASSUME RowsInv, [MlNext]_mlVars PROVE RowsInv'
  OBVIOUS
<1>1. LabelsInv /\ FeaturesInv
  BY DEF RowsInv
<1>2. UNCHANGED <<priced, labels, sizes, backfill>> => LabelsInv'
  BY <1>1 DEF LabelsInv, DatesOf, Span, Farthest
<1>3. UNCHANGED <<priced, features, ranked, batch, passed, partial>> => FeaturesInv'
  BY <1>1 DEF FeaturesInv, FeaturesAreComplete, Owed, Computable, DatesOf
<1>4. ASSUME NEW d \in MarketDates, NEW stocks \in SUBSET Stocks, BarsCome(d, stocks)
      PROVE  RowsInv'
  BY <1>1, <1>4, BarsKeepLabels, BarsKeepFeatures DEF RowsInv
<1>5. ASSUME NEW h \in {Horizon, LongHorizon}, Label(h)
      PROVE  RowsInv'
  <2>1. LabelsInv'
    BY <1>1, <1>5, LabelKeepsLabels
  <2>2. UNCHANGED <<priced, features, ranked, batch, passed, partial>>
    BY <1>5 DEF Label
  <2> QED BY <1>3, <2>1, <2>2 DEF RowsInv
<1>6. ASSUME NEW stocks \in SUBSET Stocks, NEW all \in BOOLEAN, FeaturesBegin(stocks, all)
      PROVE  RowsInv'
  <2>1. UNCHANGED <<priced, labels, sizes, backfill>>
    BY <1>6 DEF FeaturesBegin
  <2>2. FeaturesInv'
    BY <1>1, <1>6, BeginKeepsFeatures
  <2> QED BY <1>2, <2>1, <2>2 DEF RowsInv
<1>7. ASSUME NEW s \in Stocks, StoreBatch(s)
      PROVE  RowsInv'
  <2>1. UNCHANGED <<priced, labels, sizes, backfill>>
    BY <1>7 DEF StoreBatch
  <2>2. FeaturesInv'
    BY <1>1, <1>7, StoreKeepsFeatures
  <2> QED BY <1>2, <2>1, <2>2 DEF RowsInv
<1>8. CASE Rank
  <2>1. UNCHANGED <<priced, labels, sizes, backfill>>
    BY <1>8 DEF Rank
  <2> QED BY <1>1, <1>2, <1>8, <2>1, RankKeepsFeatures DEF RowsInv
<1>9. CASE Tears
  <2>1. UNCHANGED <<priced, labels, sizes, backfill>>
    BY <1>9 DEF Tears
  <2> QED BY <1>1, <1>2, <1>9, <2>1, TearKeepsFeatures DEF RowsInv
<1>10. CASE UNCHANGED mlVars
  BY <1>1, <1>2, <1>3, <1>10 DEF RowsInv, mlVars
<1> QED BY <1>4, <1>5, <1>6, <1>7, <1>8, <1>9, <1>10 DEF MlNext

\* What both jobs keep of their tables (ml.rs, upsert_labels_for_dates and
\* compute_ranks_for_dates).
THEOREM RowsInvariant == MlSpec => []RowsInv
<1> QED BY RowsInitially, RowsAlways, PTL DEF MlSpec

\* Incremental runs leave no row behind that a full run would have: long labels within
\* reach are set, and the features of a date are complete and in ranks (ml.rs,
\* cmd_ml_labels and cmd_ml_features).
THEOREM RowsStayInTime == MlSpec => []RowsAreInTime
<1>1. RowsInv => RowsAreInTime
  <2>1. LabelsInv => LongLabelsInReach
    BY DEF LabelsInv, LongLabelsInReach, Span, Farthest
  <2> QED BY <2>1 DEF RowsInv, FeaturesInv, RowsAreInTime
<1> QED BY <1>1, RowsInvariant, PTL

-----------------------------------------------------------------------------
(* The cache of bars (BarCache)                                            *)

BarRow == [asOf : Nat, fetchedAt : Nat, newest : Nat, with : SUBSET Moments]
BarTable == [Charted -> [Timeframes -> [Moments -> BarRow]]]
Ask == [symbol : Charted, timeframe : Timeframes, from : Int, to : Int, limit : Nat, fresh : Nat]
ChartPlaces == {"rest", "checks", "loads", "asks", "stores", "falls back", "answered"}
BarAnswers == UNION {[times -> BarRow] : times \in SUBSET Moments}
ChartProcess ==
  [at : ChartPlaces, asks : Seq(Ask), verb : {"bars", "warm"}, feed : 0 .. Feeds + 1, failed : BOOLEAN,
   bars : SUBSET Moments, asOf : Nat, trusted : SUBSET BarRow, answer : BarAnswers,
   source : {"provider", "cache", "cache_fresh"}]

BarsFor(table, ask) == table[ask.symbol][ask.timeframe]

\* The rows of one symbol and timeframe: each bar of the fetch that stored a row is there,
\* and some row of it was of that answer or a later one.
RowsAgree(rows, now) ==
  \A t \in Moments :
    /\ rows[t].fetchedAt <= now
    /\ IsBar(rows[t]) => t \in rows[t].with /\ t <= rows[t].asOf /\ rows[t].asOf <= rows[t].fetchedAt
    /\ \A u \in rows[t].with : IsBar(rows[u]) /\ rows[t].asOf <= rows[u].newest

\* Rows that a command trusts: its window has a row that was fetched no earlier than each, and
\* every bar of their fetch is there, of that answer or a later one.
Trusts(c, table) ==
  LET ask  == Head(c.asks)
      rows == BarsFor(table, ask)
  IN  /\ c.trusted # {}
      /\ \A r \in c.trusted :
           /\ \E t \in Moments : /\ t \in ask.from .. ask.to /\ IsBar(rows[t])
                                 /\ r.fetchedAt <= rows[t].fetchedAt
           /\ \A u \in r.with : IsBar(rows[u]) /\ r.asOf <= rows[u].newest

IsCached(c) == c.at = "answered" /\ c.source = "cache_fresh"

ChartOK(c, table, now) ==
  /\ c.at # "rest" => c.asks # << >>
  /\ c.at = "stores" => c.asOf <= now /\ \A t \in c.bars : t <= c.asOf
  /\ c.at = "loads" \/ IsCached(c) => Trusts(c, table)
  /\ IsCached(c) => \A fetch \in c.trusted : Owes(c.answer, Head(c.asks), fetch)

ChartsInv ==
  /\ moment \in Nat
  /\ chartRows \in BarTable
  /\ chart \in [Charts -> ChartProcess]
  /\ \A s \in Charted, f \in Timeframes : RowsAgree(chartRows[s][f], moment)
  /\ \A p \in Charts : ChartOK(chart[p], chartRows, moment)

\* Quotients stay below the number of times that a divisor fits.
LEMMA QuotientBelow ==
  ASSUME NEW n \in Nat \ {0}, NEW m \in Nat, NEW a \in Nat, a < n * m
  PROVE  a \div n \in 0 .. m - 1 /\ a % n \in 0 .. n - 1
<1> DEFINE q == a \div n
           r == a % n
<1>1. q \in Int /\ r \in 0 .. n - 1 /\ a = n * q + r
  OBVIOUS
<1> HIDE DEF q, r
<1>2. q >= 0
  <2>1. CASE q < 0
    <3>1. n * q <= 0 - n
      BY <1>1, <2>1
    <3> QED BY <1>1, <3>1
  <2> QED BY <1>1, <2>1
<1>3. q < m
  <2>1. CASE q >= m
    <3>1. n * q >= n * m
      BY <1>1, <2>1
    <3> QED BY <1>1, <3>1
  <2> QED BY <1>1, <2>1
<1> QED BY <1>1, <1>2, <1>3 DEF q, r

\* What a command asks is of charted symbols and known timeframes.
LEMMA AsksAreAsks ==
  ASSUME NEW c \in ChartCommands
  PROVE  AsksOf(c) \in Seq(Ask)
<1> DEFINE n == Len(c.symbols)
           m == Len(WarmSpecs)
<1>1. /\ c.verb \in {"bars", "warm"} /\ c.symbols \in Seq(Charted) /\ n \in Nat /\ m \in Nat
      /\ c.from \in Int /\ c.to \in Int /\ c.limit \in Nat /\ Interval \in Nat
      /\ WarmSpecs \in Seq([timeframe : STRING, back : Nat, limit : Nat, fresh : Nat])
  BY ChartAssumption
<1>2. CASE c.verb = "warm"
  <2> DEFINE spec(k) == WarmSpecs[((k - 1) \div n) + 1]
             symbol(k) == c.symbols[((k - 1) % n) + 1]
  <2>1. ASSUME NEW k \in 1 .. n * m
        PROVE  WarmAsk(spec(k), symbol(k), c.to) \in Ask
    <3>1. n # 0
      <4>1. CASE n = 0
        <5>1. n * m = 0
          BY <1>1, <4>1
        <5> QED BY <5>1
      <4> QED BY <4>1
    <3>2. n * m \in Nat /\ k - 1 \in Nat /\ k - 1 < n * m
      BY <1>1
    <3> HIDE DEF n, m
    <3>3. (k - 1) \div n \in 0 .. m - 1 /\ (k - 1) % n \in 0 .. n - 1
      BY <1>1, <3>1, <3>2, QuotientBelow
    <3> DEFINE i == ((k - 1) \div n) + 1
               j == ((k - 1) % n) + 1
    <3>4. i \in 1 .. m /\ j \in 1 .. n
      BY <1>1, <3>3
    <3> HIDE DEF i, j
    <3>5. i \in DOMAIN WarmSpecs /\ WarmSpecs[i] \in [timeframe : STRING, back : Nat, limit : Nat, fresh : Nat]
      <4> DEFINE Specs == [timeframe : STRING, back : Nat, limit : Nat, fresh : Nat]
      <4>1. WarmSpecs \in Seq(Specs)
        BY <1>1
      <4> HIDE DEF Specs
      <4>2. i \in DOMAIN WarmSpecs /\ WarmSpecs[i] \in Specs
        BY <3>4, <4>1 DEF m
      <4> QED BY <4>2 DEF Specs
    <3>6. c.symbols[j] \in Charted
      BY <1>1, <3>4 DEF n
    <3> DEFINE sp == WarmSpecs[i]
               sy == c.symbols[j]
               fr == Max({Interval, sp.fresh})
    <3>7. sp.timeframe \in Timeframes
      BY <3>5 DEF Timeframes
    <3>8. fr \in Nat
      <4> DEFINE spf == sp.fresh
                 S == {Interval, spf}
                 top == Interval + spf
      <4>0. spf \in Nat
        BY <3>5
      <4> HIDE DEF spf
      <4>1. S \subseteq 0 .. top /\ S # {} /\ top \in Nat /\ \A x \in S : x \in Nat
        BY <1>1, <4>0
      <4> HIDE DEF S, top
      <4>2. Max(S) \in S
        BY <4>1, MinAndMax
      <4> QED BY <4>1, <4>2 DEF S, spf
    <3>9. WarmAsk(sp, sy, c.to) = [symbol |-> sy, timeframe |-> sp.timeframe, from |-> c.to - sp.back,
                                  to |-> c.to, limit |-> sp.limit, fresh |-> fr]
      BY DEF WarmAsk
    <3>10. c.to - sp.back \in Int /\ sp.limit \in Nat
      BY <1>1, <3>5
    <3> HIDE DEF fr
    <3>11. WarmAsk(sp, sy, c.to) \in Ask
      BY <1>1, <3>6, <3>7, <3>8, <3>9, <3>10 DEF Ask
    <3> QED BY <3>11 DEF i, j
  <2>2. AsksOf(c) = [k \in 1 .. n * m |-> WarmAsk(spec(k), symbol(k), c.to)]
    BY <1>2 DEF AsksOf
  <2>3. n * m \in Nat
    BY <1>1
  <2> HIDE DEF n, m, spec, symbol
  <2> QED BY <2>1, <2>2, <2>3
<1>3. CASE c.verb = "bars"
  <2> DEFINE ask(k) == [symbol |-> c.symbols[k], timeframe |-> c.timeframe, from |-> c.from,
                        to |-> c.to, limit |-> c.limit, fresh |-> Interval]
  <2>1. ASSUME NEW k \in 1 .. n
        PROVE  ask(k) \in Ask
    <3>1. c.symbols[k] \in Charted /\ c.timeframe \in Timeframes
      BY <1>1 DEF Timeframes
    <3> QED BY <1>1, <3>1 DEF Ask
  <2>2. AsksOf(c) = [k \in 1 .. n |-> ask(k)]
    BY <1>3 DEF AsksOf
  <2> HIDE DEF n, ask
  <2> QED BY <1>1, <2>1, <2>2
<1> QED BY <1>1, <1>2, <1>3

\* The last n of a set of at least n numbers are n.
LEMMA LastOfMany ==
  ASSUME NEW m \in Nat, NEW S, S \subseteq 0 .. m, NEW n \in Nat, n <= Cardinality(S)
  PROVE  Cardinality(LastOf(S, n)) = n
<1> DEFINE Above(t) == {u \in S : u > t}
           bad == {k \in Nat : k <= Cardinality(S) /\ Cardinality(LastOf(S, k)) # k}
<1>1. IsFiniteSet(S)
  <2>1. IsFiniteSet(0 .. m)
    BY FS_Interval
  <2> QED BY <2>1, FS_Subset
<1>2. \A T \in SUBSET S : IsFiniteSet(T) /\ Cardinality(T) \in Nat
  BY <1>1, FS_Subset, FS_CardinalityType
<1>3. ASSUME bad # {} PROVE FALSE
  <2>1. PICK k \in bad : \A j \in bad : k <= j
    <3>1. bad \subseteq Nat
      OBVIOUS
    <3> HIDE DEF bad
    <3> QED BY <1>3, <3>1, Least
  <2>2. k \in Nat /\ k <= Cardinality(S) /\ Cardinality(LastOf(S, k)) # k
    OBVIOUS
  <2>3. k # 0
    <3>1. CASE k = 0
      <4>1. \A t \in S : ~(Cardinality(Above(t)) < 0)
        BY <1>2
      <4>2. LastOf(S, k) = {}
        BY <3>1, <4>1 DEF LastOf
      <4> QED BY <2>2, <3>1, <4>2, FS_EmptySet
    <3> QED BY <3>1
  <2> DEFINE j == k - 1
             less == LastOf(S, j)
             rest == S \ less
  <2>4. j \in Nat /\ j < k /\ j < Cardinality(S) /\ Cardinality(S) \in Nat
    BY <1>2, <2>2, <2>3
  <2>5. Cardinality(less) = j
    <3>1. j \notin bad
      BY <2>1, <2>4
    <3> HIDE DEF less
    <3> QED BY <2>4, <3>1 DEF less
  <2>6. less \subseteq S /\ rest \subseteq 0 .. m /\ \A t \in S : t \in less <=> Cardinality(Above(t)) < j
    BY DEF LastOf
  <2>7. rest # {}
    <3>1. CASE rest = {}
      <4>1. less = S
        BY <2>6, <3>1
      <4> QED BY <2>4, <2>5, <4>1
    <3> QED BY <3>1
  <2> HIDE DEF j, less
  <2>8. PICK top \in rest : \A t \in rest : t <= top
    BY <2>6, <2>7, Greatest
  <2>9. \A t \in S : t \in Nat
    OBVIOUS
  <2>10. Above(top) = less
    <3>1. ASSUME NEW u \in Above(top) PROVE u \in less
      <4>1. u \in S /\ u > top
        OBVIOUS
      <4>2. ~(u \in rest)
        BY <2>8, <2>9, <4>1
      <4> QED BY <4>1, <4>2
    <3>2. ASSUME NEW u \in less, ~(u > top) PROVE FALSE
      <4>1. Above(top) \subseteq Above(u)
        <5> SUFFICES ASSUME NEW v \in S, v > top PROVE v > u
          OBVIOUS
        <5>1. u \in Nat /\ top \in Nat /\ v \in Nat
          BY <2>6, <2>8, <2>9
        <5> QED BY <3>2, <5>1
      <4>2. /\ Above(u) \in SUBSET S /\ Above(top) \in SUBSET S
        OBVIOUS
      <4> DEFINE a == Cardinality(Above(u))
                 b == Cardinality(Above(top))
      <4>3. a < j /\ ~(b < j)
        BY <2>6, <2>8
      <4>4. a \in Nat /\ b \in Nat /\ b <= a
        <5>1. IsFiniteSet(Above(u)) /\ a \in Nat /\ b \in Nat
          BY <1>2, <4>2
        <5> HIDE DEF Above
        <5> QED BY <4>1, <5>1, FS_Subset
      <4> HIDE DEF a, b
      <4> QED BY <2>4, <4>3, <4>4
    <3> QED BY <2>6, <3>1, <3>2
  <2>11. LastOf(S, k) = less \cup {top}
    <3>1. ASSUME NEW t \in less PROVE t \in LastOf(S, k)
      <4> DEFINE a == Cardinality(Above(t))
      <4>1. t \in S /\ a < j
        BY <2>6
      <4>2. a \in Nat
        BY <1>2
      <4>3. a < k
        <5> HIDE DEF a
        <5> QED BY <2>2, <2>4, <4>1, <4>2
      <4> QED BY <4>1, <4>3 DEF LastOf
    <3>2. top \in LastOf(S, k)
      <4>1. Cardinality(Above(top)) < k
        BY <2>4, <2>5, <2>10
      <4> QED BY <2>8, <4>1 DEF LastOf
    <3>3. ASSUME NEW t \in LastOf(S, k), t \notin less, t # top PROVE FALSE
      <4>1. t \in S /\ Cardinality(Above(t)) < k /\ t \in rest
        BY <3>3 DEF LastOf
      <4>2. t < top /\ t \in Nat /\ top \in Nat /\ top \in S
        BY <2>8, <2>9, <3>3, <4>1
      <4>3. less \cup {top} \subseteq Above(t)
        <5> SUFFICES ASSUME NEW u \in less PROVE u > t
          BY <2>6, <4>2
        <5>1. u \in Above(top)
          BY <2>10
        <5>2. u \in Nat /\ u > top
          BY <2>9, <5>1
        <5> QED BY <4>2, <5>2
      <4>4. IsFiniteSet(less) /\ IsFiniteSet(Above(t)) /\ Cardinality(Above(t)) \in Nat
        BY <1>2, <2>6
      <4>5. Cardinality(less \cup {top}) = j + 1
        BY <2>5, <2>8, <4>4, FS_AddElement
      <4>6. Cardinality(less \cup {top}) <= Cardinality(Above(t))
        <5> HIDE DEF Above
        <5> QED BY <4>3, <4>4, FS_Subset
      <4> QED BY <2>2, <2>4, <4>1, <4>4, <4>5, <4>6 DEF j
    <3> QED BY <3>1, <3>2, <3>3
  <2>12. Cardinality(LastOf(S, k)) = j + 1
    <3>1. IsFiniteSet(less) /\ top \notin less
      BY <1>2, <2>6, <2>8
    <3> QED BY <2>5, <2>11, <3>1, FS_AddElement
  <2> QED BY <2>2, <2>12 DEF j
<1>4. n \notin bad
  BY <1>3
<1> HIDE DEF Above
<1> QED BY <1>4

\* An answer from the cache owes nothing to a fetch all of whose bars are in the rows.
LEMMA CacheOwes ==
  ASSUME chartRows \in BarTable, NEW ask \in Ask, NEW fetch \in BarRow,
         \A u \in fetch.with : IsBar(RowsOf(ask)[u]) /\ fetch.asOf <= RowsOf(ask)[u].newest
  PROVE  Owes(FromCache(ask), ask, fetch)
<1> DEFINE rows == RowsOf(ask)
           T == RowsIn(ask)
           n == ask.limit
           asOf == fetch.asOf
           answer == FromCache(ask)
<1>1. /\ n \in Nat /\ ask.from \in Int /\ ask.to \in Int /\ asOf \in Nat /\ LastMoment \in Nat
      /\ rows \in [Moments -> BarRow]
  BY ChartAssumption DEF Ask, BarRow, BarTable, RowsOf
<1>2. T = {t \in ask.from .. ask.to : t \in Moments /\ IsBar(rows[t])}
  BY DEF RowsIn
<1>3. DOMAIN answer = LastOf(T, n) /\ \A t \in LastOf(T, n) : answer[t] = rows[t]
  BY DEF FromCache
<1>4. Min({ask.to, asOf}) \in Int /\ Min({ask.to, asOf}) <= ask.to
  <2> DEFINE S == {ask.to, asOf}
  <2>1. \E x \in S : \A y \in S : x <= y
    BY <1>1
  <2>2. Min(S) \in S /\ \A y \in S : Min(S) <= y
    <3> HIDE DEF S
    <3> QED BY <2>1 DEF Min
  <2>3. \A x \in S : x \in Int
    BY <1>1
  <2>4. ask.to \in S
    OBVIOUS
  <2> HIDE DEF S
  <2> QED BY <2>2, <2>3, <2>4 DEF S
<1>5. ASSUME Given(ask, asOf) \subseteq fetch.with, NEW t \in Given(ask, asOf)
      PROVE  IF t \in DOMAIN answer
             THEN answer[t].asOf >= asOf \/ answer[t].asOf < answer[t].newest
             ELSE Cardinality({u \in DOMAIN answer : u > t}) = n
  <2>1. t \in ask.from .. Min({ask.to, asOf}) /\ t \in Moments
    BY DEF Given, LastOf
  <2>2. IsBar(rows[t]) /\ asOf <= rows[t].newest
    BY <1>5
  <2>3. t \in T
    BY <1>1, <1>2, <1>4, <2>1, <2>2
  <2>4. CASE t \in DOMAIN answer
    <3>1. answer[t] = rows[t]
      BY <1>3, <2>4
    <3>2. rows[t].asOf \in Nat /\ rows[t].newest \in Nat
      BY <1>1, <2>1 DEF BarRow
    <3> HIDE DEF rows, asOf, answer
    <3>3. rows[t].asOf >= asOf \/ rows[t].asOf < rows[t].newest
      BY <1>1, <2>2, <3>2
    <3> QED BY <2>4, <3>1, <3>3
  <2>5. CASE t \notin DOMAIN answer
    <3> DEFINE Above(u) == {v \in T : v > u}
    <3>1. T \subseteq 0 .. LastMoment
      BY <1>2 DEF Moments
    <3>2. IsFiniteSet(T)
      <4>1. IsFiniteSet(0 .. LastMoment)
        BY <1>1, FS_Interval
      <4> QED BY <3>1, <4>1, FS_Subset
    <3>3. \A u \in T : u \in Nat
      BY <3>1
    <3> HIDE DEF T, n, answer, rows, asOf
    <3>4. \A u \in T : Above(u) \in SUBSET T /\ IsFiniteSet(Above(u)) /\ Cardinality(Above(u)) \in Nat
      BY <3>2, FS_Subset, FS_CardinalityType
    <3>5. \A u \in T : u \in LastOf(T, n) <=> Cardinality(Above(u)) < n
      BY DEF LastOf
    <3>6. Cardinality(Above(t)) >= n
      <4> DEFINE b == Cardinality(Above(t))
      <4>1. ~(b < n) /\ b \in Nat
        BY <1>3, <2>3, <2>5, <3>4, <3>5
      <4> HIDE DEF b
      <4>2. b >= n
        BY <1>1, <4>1
      <4> QED BY <4>2 DEF b
    <3>7. n <= Cardinality(T)
      <4>1. Above(t) \in SUBSET T /\ Cardinality(Above(t)) \in Nat /\ Cardinality(T) \in Nat
        BY <2>3, <3>2, <3>4, FS_CardinalityType
      <4>2. Cardinality(Above(t)) <= Cardinality(T)
        <5> HIDE DEF Above
        <5> QED BY <3>2, <4>1, FS_Subset
      <4> QED BY <1>1, <3>6, <4>1, <4>2
    <3>8. Cardinality(LastOf(T, n)) = n
      BY <1>1, <3>1, <3>7, LastOfMany
    <3>9. ASSUME NEW u \in LastOf(T, n) PROVE u > t
      <4>1. u \in T /\ u \in Nat /\ t \in Nat
        BY <2>3, <3>3 DEF LastOf
      <4>2. CASE ~(u > t)
        <5>1. Above(t) \subseteq Above(u)
          <6> SUFFICES ASSUME NEW v \in T, v > t PROVE v > u
            OBVIOUS
          <6>1. v \in Nat
            BY <3>3
          <6> QED BY <4>1, <4>2, <6>1
        <5> DEFINE a == Cardinality(Above(u))
                   b == Cardinality(Above(t))
        <5>2. a < n /\ b >= n /\ a \in Nat /\ b \in Nat
          BY <2>3, <3>4, <3>5, <3>6, <4>1
        <5>3. b <= a
          <6>1. IsFiniteSet(Above(u))
            BY <3>4, <4>1
          <6> HIDE DEF Above
          <6> QED BY <5>1, <6>1, FS_Subset
        <5> HIDE DEF a, b
        <5> QED BY <1>1, <5>2, <5>3
      <4> QED BY <4>2
    <3>10. {u \in DOMAIN answer : u > t} = LastOf(T, n)
      BY <1>3, <3>9
    <3> QED BY <2>5, <3>8, <3>10
  <2> QED BY <2>4, <2>5
<1> QED BY <1>5 DEF Owes

\* A table whose rows are later ones.
Newer(old, new) ==
  \A s \in Charted, f \in Timeframes, t \in Moments :
    LET r == old[s][f][t]
        q == new[s][f][t]
    IN  (IsBar(r) => IsBar(q)) /\ r.fetchedAt <= q.fetchedAt /\ r.newest <= q.newest

\* What is true of a process stays so with newer rows and a later time.
LEMMA ProcessStays ==
  ASSUME NEW c \in ChartProcess, NEW old \in BarTable, NEW new \in BarTable, Newer(old, new),
         NEW now \in Nat, NEW later \in Nat, now <= later, ChartOK(c, old, now)
  PROVE  ChartOK(c, new, later)
<1> DEFINE ask == Head(c.asks)
           rows == BarsFor(old, ask)
           fresh == BarsFor(new, ask)
<1>1. /\ c.asOf \in Nat /\ c.asks \in Seq(Ask) /\ c.trusted \in SUBSET BarRow
  BY DEF ChartProcess
<1>2. ASSUME c.at = "stores"
      PROVE  c.asOf <= later
  BY <1>1, <1>2 DEF ChartOK
<1>3. ASSUME c.at # "rest", Trusts(c, old)
      PROVE  Trusts(c, new)
  <2>1. ask \in Ask
    BY <1>1, <1>3 DEF ChartOK
  <2>2. ask.symbol \in Charted /\ ask.timeframe \in Timeframes
    BY <2>1 DEF Ask
  <2>3. /\ rows \in [Moments -> BarRow] /\ fresh \in [Moments -> BarRow]
        /\ \A t \in Moments : /\ IsBar(rows[t]) => IsBar(fresh[t])
                              /\ rows[t].fetchedAt <= fresh[t].fetchedAt
                              /\ rows[t].newest <= fresh[t].newest
    BY <2>2 DEF BarTable, BarsFor, Newer
  <2>4. \A t \in Moments : /\ rows[t].fetchedAt \in Nat /\ rows[t].newest \in Nat
                           /\ fresh[t].fetchedAt \in Nat /\ fresh[t].newest \in Nat
    BY <2>3 DEF BarRow
  <2> SUFFICES ASSUME NEW r \in c.trusted
               PROVE  /\ \E t \in Moments : /\ t \in ask.from .. ask.to /\ IsBar(fresh[t])
                                            /\ r.fetchedAt <= fresh[t].fetchedAt
                      /\ \A u \in r.with : IsBar(fresh[u]) /\ r.asOf <= fresh[u].newest
    BY <1>3 DEF Trusts
  <2>5. r.fetchedAt \in Nat /\ r.asOf \in Nat /\ r.with \subseteq Moments
    BY <1>1 DEF BarRow
  <2>6. /\ \E t \in Moments : /\ t \in ask.from .. ask.to /\ IsBar(rows[t])
                              /\ r.fetchedAt <= rows[t].fetchedAt
        /\ \A u \in r.with : IsBar(rows[u]) /\ r.asOf <= rows[u].newest
    BY <1>3 DEF Trusts
  <2> HIDE DEF rows, fresh, ask
  <2>7. PICK t \in Moments : t \in ask.from .. ask.to /\ IsBar(rows[t]) /\ r.fetchedAt <= rows[t].fetchedAt
    BY <2>6
  <2>8. IsBar(fresh[t]) /\ r.fetchedAt <= fresh[t].fetchedAt
    BY <2>3, <2>4, <2>5, <2>7
  <2>9. ASSUME NEW u \in r.with PROVE IsBar(fresh[u]) /\ r.asOf <= fresh[u].newest
    <3>1. u \in Moments
      BY <2>5
    <3>2. IsBar(rows[u]) /\ r.asOf <= rows[u].newest
      BY <2>6
    <3>3. IsBar(fresh[u]) /\ rows[u].newest <= fresh[u].newest
      BY <2>3, <3>1, <3>2
    <3>4. rows[u].newest \in Nat /\ fresh[u].newest \in Nat
      BY <2>4, <3>1
    <3> QED BY <2>5, <3>2, <3>3, <3>4
  <2> QED BY <2>7, <2>8, <2>9
<1> QED BY <1>2, <1>3 DEF ChartOK, IsCached

\* A step of one process, which may store rows.
LEMMA MoveKeeps ==
  ASSUME ChartsInv, chartRows' \in BarTable, Newer(chartRows, chartRows'), moment' \in Nat, moment <= moment',
         \A s \in Charted, f \in Timeframes : RowsAgree(chartRows'[s][f], moment'),
         NEW p \in Charts, NEW c \in ChartProcess, ChartMoves(p, c), ChartOK(c, chartRows', moment')
  PROVE  ChartsInv'
<1>1. chart' = [chart EXCEPT ![p] = c] /\ chart \in [Charts -> ChartProcess] /\ chartRows \in BarTable /\ moment \in Nat
  BY DEF ChartMoves, ChartsInv
<1>2. chart' \in [Charts -> ChartProcess] /\ \A q \in Charts : chart'[q] = IF q = p THEN c ELSE chart[q]
  BY <1>1
<1>3. ASSUME NEW q \in Charts PROVE ChartOK(chart'[q], chartRows', moment')
  <2>1. CASE q = p
    BY <1>2, <2>1
  <2>2. CASE q # p
    <3>1. ChartOK(chart[q], chartRows, moment) /\ chart[q] \in ChartProcess
      BY <1>1 DEF ChartsInv
    <3>2. ChartOK(chart[q], chartRows', moment')
      BY <1>1, <3>1, ProcessStays
    <3> QED BY <1>2, <2>2, <3>2
  <2> QED BY <2>1, <2>2
<1> QED BY <1>2, <1>3 DEF ChartsInv

\* Nothing is newer than what has not changed.
LEMMA RowsStay ==
  ASSUME ChartsInv, UNCHANGED <<moment, chartRows>>
  PROVE  /\ chartRows' \in BarTable /\ Newer(chartRows, chartRows') /\ moment' \in Nat /\ moment <= moment'
         /\ \A s \in Charted, f \in Timeframes : RowsAgree(chartRows'[s][f], moment')
<1>1. \A s \in Charted, f \in Timeframes, t \in Moments :
        chartRows[s][f][t].fetchedAt \in Nat /\ chartRows[s][f][t].newest \in Nat
  BY DEF ChartsInv, BarTable, BarRow
<1>2. Newer(chartRows, chartRows)
  BY <1>1 DEF Newer
<1> QED BY <1>2 DEF ChartsInv

LEMMA OnlyMoves ==
  ASSUME ChartsInv, UNCHANGED <<moment, chartRows>>, NEW p \in Charts, NEW c \in ChartProcess,
         ChartMoves(p, c), ChartOK(c, chartRows, moment)
  PROVE  ChartsInv'
<1>1. ChartOK(c, chartRows', moment')
  OBVIOUS
<1> QED BY <1>1, RowsStay, MoveKeeps

LEMMA RestedChart ==
  /\ NoBar \in BarRow /\ ~IsBar(NoBar) /\ NoBar.fetchedAt = 0 /\ NoBar.with = {}
  /\ [t \in {} |-> NoBar] \in BarAnswers
  /\ NoChart \in ChartProcess /\ NoChart.at = "rest" /\ NoChart.trusted = {}
<1> PICK no \in BOOLEAN : no = FALSE
  OBVIOUS
<1> DEFINE none == [t \in {} |-> NoBar]
<1>1. NoBar \in BarRow /\ NoBar.with = {} /\ NoBar.fetchedAt = 0
  BY DEF NoBar, BarRow
<1>2. ~IsBar(NoBar)
  BY <1>1 DEF IsBar
<1>3. none \in [{} -> BarRow]
  OBVIOUS
<1>4. none \in BarAnswers
  BY <1>3 DEF BarAnswers
<1>5. NoChart = [at |-> "rest", asks |-> << >>, verb |-> "bars", feed |-> 0, failed |-> no, bars |-> {},
                 asOf |-> 0, trusted |-> {}, answer |-> none, source |-> "provider"]
  BY Zenon DEF NoChart
<1> HIDE DEF none
<1>6. << >> \in Seq(Ask) /\ 0 \in 0 .. Feeds + 1 /\ "rest" \in ChartPlaces
  BY ChartAssumption DEF ChartPlaces
<1>7. NoChart \in ChartProcess /\ NoChart.at = "rest" /\ NoChart.trusted = {}
  BY <1>4, <1>5, <1>6 DEF ChartProcess
<1> QED BY <1>1, <1>2, <1>4, <1>7 DEF none

\* A process that is about to check a window.
LEMMA ChecksAreOK ==
  ASSUME NEW asks \in Seq(Ask), asks # << >>, NEW verb \in {"bars", "warm"}
  PROVE  LET c == [NoChart EXCEPT !.at = "checks", !.asks = asks, !.verb = verb]
         IN  c \in ChartProcess /\ c.at = "checks" /\ c.asks # << >>
<1> DEFINE c == [NoChart EXCEPT !.at = "checks", !.asks = asks, !.verb = verb]
<1>1. "checks" \in ChartPlaces
  BY DEF ChartPlaces
<1>2. c \in ChartProcess /\ c.at = "checks" /\ c.asks = asks
  BY <1>1, RestedChart DEF ChartProcess
<1> QED BY <1>2

\* What comes after a question.
LEMMA AfterAskIsOK ==
  ASSUME NEW c \in ChartProcess, c.asks # << >>, NEW table, NEW now
  PROVE  AfterAsk(c) \in ChartProcess /\ ChartOK(AfterAsk(c), table, now)
<1>1. c.asks \in Seq(Ask) /\ c.verb \in {"bars", "warm"}
  BY DEF ChartProcess
<1>2. CASE Len(c.asks) = 1
  <2>1. AfterAsk(c) = NoChart
    BY <1>2 DEF AfterAsk
  <2> QED BY <2>1, RestedChart DEF ChartOK, IsCached
<1>3. CASE Len(c.asks) # 1
  <2> DEFINE asks == Tail(c.asks)
             verb == c.verb
             d == [NoChart EXCEPT !.at = "checks", !.asks = asks, !.verb = verb]
  <2>1. asks \in Seq(Ask) /\ asks # << >>
    <3>1. ASSUME NEW q \in Seq(Ask), q # << >>, Len(q) # 1
          PROVE  Tail(q) \in Seq(Ask) /\ Len(Tail(q)) # 0
      BY <3>1
    <3>2. Tail(c.asks) \in Seq(Ask) /\ Len(Tail(c.asks)) # 0
      BY <1>1, <1>3, <3>1
    <3>3. Len(<< >>) = 0
      OBVIOUS
    <3> QED BY <3>2, <3>3
  <2>2. AfterAsk(c) = d
    BY <1>3 DEF AfterAsk
  <2>3. verb \in {"bars", "warm"}
    BY <1>1
  <2> HIDE DEF asks, verb
  <2>4. d \in ChartProcess /\ d.at = "checks" /\ d.asks # << >>
    BY <2>1, <2>3, ChecksAreOK
  <2> HIDE DEF d
  <2> QED BY <2>2, <2>4 DEF ChartOK, IsCached
<1> QED BY <1>2, <1>3

LEMMA ChartsBegin ==
  ASSUME ChartInit
  PROVE  ChartsInv
<1>1. /\ moment = 0 /\ chart = [p \in Charts |-> NoChart]
      /\ chartRows = [s \in Charted |-> [f \in Timeframes |-> [t \in Moments |-> NoBar]]]
  BY DEF ChartInit
<1>2. chart \in [Charts -> ChartProcess] /\ chartRows \in BarTable
  BY <1>1, RestedChart DEF BarTable
<1>3. \A p \in Charts : ChartOK(chart[p], chartRows, moment)
  BY <1>1, RestedChart DEF ChartOK, IsCached
<1>4. ASSUME NEW s \in Charted, NEW f \in Timeframes PROVE RowsAgree(chartRows[s][f], moment)
  <2>1. \A t \in Moments : chartRows[s][f][t] = NoBar
    BY <1>1
  <2> QED BY <1>1, <2>1, RestedChart DEF RowsAgree
<1> QED BY <1>1, <1>2, <1>3, <1>4 DEF ChartsInv

LEMMA TimeKeepsCharts ==
  ASSUME ChartsInv, TimePasses
  PROVE  ChartsInv'
<1>1. moment' = moment + 1 /\ UNCHANGED <<chartRows, chart>> /\ moment \in Nat /\ moment' \in Nat /\ moment <= moment'
  BY DEF TimePasses, ChartsInv
<1>2. chart \in [Charts -> ChartProcess] /\ chartRows \in BarTable
  BY DEF ChartsInv
<1>3. ASSUME NEW p \in Charts PROVE ChartOK(chart[p], chartRows, moment')
  <2>1. Newer(chartRows, chartRows)
    <3>1. \A s \in Charted, f \in Timeframes, t \in Moments :
            chartRows[s][f][t].fetchedAt \in Nat /\ chartRows[s][f][t].newest \in Nat
      BY <1>2 DEF BarTable, BarRow
    <3> QED BY <3>1 DEF Newer
  <2>2. chart[p] \in ChartProcess /\ ChartOK(chart[p], chartRows, moment)
    BY <1>2 DEF ChartsInv
  <2> QED BY <1>1, <1>2, <2>1, <2>2, ProcessStays
<1>4. ASSUME NEW s \in Charted, NEW f \in Timeframes PROVE RowsAgree(chartRows[s][f], moment')
  <2>1. RowsAgree(chartRows[s][f], moment)
    BY DEF ChartsInv
  <2>2. \A t \in Moments : chartRows[s][f][t].fetchedAt \in Nat
    BY <1>2 DEF BarTable, BarRow
  <2> DEFINE rows == chartRows[s][f]
  <2> HIDE DEF rows
  <2>3. \A t \in Moments : rows[t].fetchedAt <= moment'
    BY <1>1, <2>1, <2>2 DEF RowsAgree, rows
  <2> QED BY <2>1, <2>3 DEF RowsAgree, rows
<1> QED BY <1>1, <1>2, <1>3, <1>4 DEF ChartsInv

LEMMA StartsKeepsCharts ==
  ASSUME ChartsInv, NEW p \in Charts, NEW c \in ChartCommands, ChartStarts(p, c)
  PROVE  ChartsInv'
<1> DEFINE asks == AsksOf(c)
           verb == c.verb
           d == [NoChart EXCEPT !.at = "checks", !.asks = asks, !.verb = verb]
<1>1. UNCHANGED <<moment, chartRows>>
  BY DEF ChartStarts
<1>2. UNCHANGED chart \/ (asks # << >> /\ ChartMoves(p, d))
  BY DEF ChartStarts
<1>3. asks \in Seq(Ask) /\ verb \in {"bars", "warm"}
  BY AsksAreAsks, ChartAssumption
<1> HIDE DEF asks, verb
<1>4. CASE UNCHANGED chart
  BY <1>1, <1>4 DEF ChartsInv
<1>5. CASE asks # << >> /\ ChartMoves(p, d)
  <2>1. d \in ChartProcess /\ d.at = "checks" /\ d.asks # << >>
    BY <1>3, <1>5, ChecksAreOK
  <2> HIDE DEF d
  <2>2. ChartOK(d, chartRows, moment)
    BY <2>1 DEF ChartOK, IsCached
  <2> QED BY <1>1, <1>5, <2>1, <2>2, OnlyMoves
<1> QED BY <1>2, <1>4, <1>5

\* A step to the next question or to the end.
LEMMA EndsKeepCharts ==
  ASSUME ChartsInv, NEW p \in Charts, NextChart(p) \/ ChartFails(p) \/ ChartKilled(p)
  PROVE  ChartsInv'
<1> DEFINE c == chart[p]
           d == AfterAsk(c)
<1>1. c \in ChartProcess /\ ChartOK(c, chartRows, moment)
  BY DEF ChartsInv
<1>2. UNCHANGED <<moment, chartRows>> /\ c.at # "rest" /\ (ChartMoves(p, d) \/ ChartMoves(p, NoChart))
  BY DEF NextChart, ChartFails, ChartKilled
<1>3. c.asks # << >>
  BY <1>1, <1>2 DEF ChartOK
<1>4. d \in ChartProcess /\ ChartOK(d, chartRows, moment)
  BY <1>1, <1>3, AfterAskIsOK
<1>5. NoChart \in ChartProcess /\ ChartOK(NoChart, chartRows, moment)
  BY RestedChart DEF ChartOK, IsCached
<1> HIDE DEF c, d
<1> QED BY <1>2, <1>4, <1>5, OnlyMoves

\* What a process asks, and the rows for it.
LEMMA RowsForAsk ==
  ASSUME ChartsInv, NEW p \in Charts, chart[p].at # "rest"
  PROVE  /\ chart[p] \in ChartProcess /\ ChartOK(chart[p], chartRows, moment)
         /\ chart[p].asks \in Seq(Ask) /\ chart[p].asks # << >> /\ Head(chart[p].asks) \in Ask
         /\ RowsOf(Head(chart[p].asks)) \in [Moments -> BarRow]
         /\ RowsAgree(RowsOf(Head(chart[p].asks)), moment)
<1>1. chart[p] \in ChartProcess /\ ChartOK(chart[p], chartRows, moment) /\ chartRows \in BarTable
  BY DEF ChartsInv
<1>2. chart[p].asks \in Seq(Ask) /\ chart[p].asks # << >>
  BY <1>1 DEF ChartProcess, ChartOK
<1>3. Head(chart[p].asks) \in Ask
  BY <1>2
<1> DEFINE ask == Head(chart[p].asks)
<1> HIDE DEF ask
<1>4. ask.symbol \in Charted /\ ask.timeframe \in Timeframes
  BY <1>3 DEF Ask, ask
<1>5. RowsOf(ask) \in [Moments -> BarRow]
  BY <1>1, <1>4 DEF RowsOf, BarTable
<1>6. RowsAgree(RowsOf(ask), moment)
  BY <1>4 DEF RowsOf, ChartsInv
<1> QED BY <1>1, <1>2, <1>3, <1>5, <1>6 DEF ask

\* A process that asks the provider.
LEMMA AsksIsOK ==
  ASSUME NEW c \in ChartProcess, c.asks # << >>, NEW d \in ChartProcess, d.asks = c.asks,
         d.at \in {"checks", "asks", "falls back"}, NEW table, NEW now
  PROVE  ChartOK(d, table, now)
BY DEF ChartOK, IsCached

LEMMA ChecksKeepsCharts ==
  ASSUME ChartsInv, NEW p \in Charts, ChartChecks(p)
  PROVE  ChartsInv'
<1> DEFINE c == chart[p]
           ask == Head(c.asks)
           rows == RowsOf(ask)
           fresh == {r \in NewestIn(ask) : moment - r.fetchedAt <= ask.fresh}
           asking == [c EXCEPT !.at = "asks", !.feed = 1]
           loading == [c EXCEPT !.at = "loads", !.trusted = fresh]
<1>1. /\ UNCHANGED <<moment, chartRows>> /\ c.at = "checks"
      /\ ChartMoves(p, IF fresh = {} THEN asking ELSE loading)
  BY DEF ChartChecks
<1>2. /\ c \in ChartProcess /\ c.asks # << >> /\ ask \in Ask /\ rows \in [Moments -> BarRow]
      /\ RowsAgree(rows, moment)
  BY <1>1, RowsForAsk
<1>3. fresh \subseteq NewestIn(ask)
  OBVIOUS
<1>4. "asks" \in ChartPlaces /\ "loads" \in ChartPlaces /\ 1 \in 0 .. Feeds + 1
  BY ChartAssumption DEF ChartPlaces
<1>5. ASSUME NEW r \in NewestIn(ask)
      PROVE  /\ r \in BarRow
             /\ \E t \in Moments : t \in ask.from .. ask.to /\ IsBar(rows[t]) /\ r = rows[t]
  BY <1>2 DEF NewestIn, RowsIn
<1>6. NewestIn(ask) \subseteq BarRow
  BY <1>5
<1>7. CASE fresh = {}
  <2>1. asking \in ChartProcess /\ asking.at = "asks" /\ asking.asks = c.asks
    BY <1>2, <1>4 DEF ChartProcess
  <2> HIDE DEF asking, c
  <2>2. ChartOK(asking, chartRows, moment)
    BY <1>2, <2>1, AsksIsOK
  <2> QED BY <1>1, <1>7, <2>1, <2>2, OnlyMoves
<1>8. CASE fresh # {}
  <2> HIDE DEF fresh
  <2>1. loading \in ChartProcess /\ loading.at = "loads" /\ loading.asks = c.asks /\ loading.trusted = fresh
    BY <1>2, <1>3, <1>4, <1>6 DEF ChartProcess
  <2>2. ASSUME NEW r \in fresh
        PROVE  /\ \E t \in Moments : t \in ask.from .. ask.to /\ IsBar(rows[t]) /\ r.fetchedAt <= rows[t].fetchedAt
               /\ \A u \in r.with : IsBar(rows[u]) /\ r.asOf <= rows[u].newest
    <3>1. PICK t \in Moments : t \in ask.from .. ask.to /\ IsBar(rows[t]) /\ r = rows[t]
      BY <1>3, <1>5
    <3>2. r.fetchedAt \in Nat
      BY <1>3, <1>6 DEF BarRow
    <3>3. r.fetchedAt <= rows[t].fetchedAt
      BY <3>1, <3>2
    <3>4. \A u \in r.with : IsBar(rows[u]) /\ r.asOf <= rows[u].newest
      BY <1>2, <3>1 DEF RowsAgree
    <3> QED BY <3>1, <3>3, <3>4
  <2>3. BarsFor(chartRows, ask) = rows
    BY DEF BarsFor, RowsOf
  <2> HIDE DEF loading, rows
  <2>4. Trusts(loading, chartRows)
    BY <1>8, <2>1, <2>2, <2>3 DEF Trusts
  <2>5. ChartOK(loading, chartRows, moment)
    BY <1>2, <2>1, <2>4 DEF ChartOK, IsCached
  <2> HIDE DEF c
  <2> QED BY <1>1, <1>8, <2>1, <2>5, OnlyMoves
<1> QED BY <1>7, <1>8

\* An answer of the cache.
LEMMA AnsweredIsOK ==
  ASSUME NEW c \in ChartProcess, c.asks # << >>, NEW answer \in BarAnswers,
         NEW source \in {"provider", "cache", "cache_fresh"}, NEW table, NEW now,
         source = "cache_fresh" => /\ Trusts(c, table)
                                   /\ \A fetch \in c.trusted : Owes(answer, Head(c.asks), fetch)
  PROVE  Answered(c, answer, source) \in ChartProcess /\ ChartOK(Answered(c, answer, source), table, now)
<1> DEFINE asks == c.asks
           verb == c.verb
           trusted == c.trusted
           d == [NoChart EXCEPT !.at = "answered", !.asks = asks, !.verb = verb, !.trusted = trusted,
                                !.answer = answer, !.source = source]
<1>1. Answered(c, answer, source) = d
  BY DEF Answered
<1>2. asks \in Seq(Ask) /\ verb \in {"bars", "warm"} /\ trusted \in SUBSET BarRow /\ "answered" \in ChartPlaces
  BY DEF ChartProcess, ChartPlaces
<1> HIDE DEF asks, verb, trusted
<1>3. /\ d \in ChartProcess /\ d.at = "answered" /\ d.asks = asks /\ d.trusted = trusted
      /\ d.answer = answer /\ d.source = source
  BY <1>2, RestedChart DEF ChartProcess
<1> HIDE DEF d
<1>4. Trusts(c, table) => Trusts(d, table)
  BY <1>3 DEF Trusts, asks, trusted
<1>5. ChartOK(d, table, now)
  BY <1>3, <1>4 DEF ChartOK, IsCached, asks, trusted
<1> QED BY <1>1, <1>3, <1>5

LEMMA CacheAnswers ==
  ASSUME NEW ask \in Ask, RowsOf(ask) \in [Moments -> BarRow]
  PROVE  FromCache(ask) \in BarAnswers
<1> DEFINE T == LastOf(RowsIn(ask), ask.limit)
           rows == RowsOf(ask)
<1>1. T \in SUBSET Moments
  BY DEF LastOf, RowsIn
<1>2. FromCache(ask) = [t \in T |-> rows[t]]
  BY DEF FromCache
<1> HIDE DEF T, rows
<1>3. FromCache(ask) \in [T -> BarRow]
  BY <1>1, <1>2 DEF rows
<1> QED BY <1>1, <1>3 DEF BarAnswers

LEMMA LoadsKeepsCharts ==
  ASSUME ChartsInv, NEW p \in Charts, LoadsChart(p)
  PROVE  ChartsInv'
<1> DEFINE c == chart[p]
           ask == Head(c.asks)
           answer == FromCache(ask)
           asking == [c EXCEPT !.at = "asks", !.feed = 1]
<1>1. /\ UNCHANGED <<moment, chartRows>> /\ c.at = "loads"
      /\ ChartMoves(p, IF DOMAIN answer = {} THEN asking ELSE Answered(c, answer, "cache_fresh"))
  BY DEF LoadsChart
<1>2. /\ c \in ChartProcess /\ c.asks # << >> /\ ask \in Ask /\ RowsOf(ask) \in [Moments -> BarRow]
      /\ ChartOK(c, chartRows, moment)
  BY <1>1, RowsForAsk
<1>3. chartRows \in BarTable
  BY DEF ChartsInv
<1>4. CASE DOMAIN answer = {}
  <2>1. "asks" \in ChartPlaces /\ 1 \in 0 .. Feeds + 1
    BY ChartAssumption DEF ChartPlaces
  <2>2. asking \in ChartProcess /\ asking.at = "asks" /\ asking.asks = c.asks
    BY <1>2, <2>1 DEF ChartProcess
  <2> HIDE DEF asking, c
  <2>3. ChartOK(asking, chartRows, moment)
    BY <1>2, <2>2, AsksIsOK
  <2> QED BY <1>1, <1>4, <2>2, <2>3, OnlyMoves
<1>5. CASE DOMAIN answer # {}
  <2>1. Trusts(c, chartRows)
    BY <1>1, <1>2 DEF ChartOK
  <2>2. ASSUME NEW fetch \in c.trusted PROVE Owes(answer, ask, fetch)
    <3>1. fetch \in BarRow
      BY <1>2 DEF ChartProcess
    <3>2. \A u \in fetch.with : IsBar(RowsOf(ask)[u]) /\ fetch.asOf <= RowsOf(ask)[u].newest
      BY <2>1 DEF Trusts, BarsFor, RowsOf
    <3> HIDE DEF ask, c
    <3> QED BY <1>2, <1>3, <3>1, <3>2, CacheOwes
  <2>3. answer \in BarAnswers
    BY <1>2, CacheAnswers
  <2> DEFINE d == Answered(c, answer, "cache_fresh")
  <2>4. d \in ChartProcess /\ ChartOK(d, chartRows, moment)
    <3> HIDE DEF c, answer
    <3> QED BY <1>2, <2>1, <2>2, <2>3, AnsweredIsOK
  <2>5. ChartMoves(p, d)
    BY <1>1, <1>5
  <2> HIDE DEF d
  <2> QED BY <1>1, <2>4, <2>5, OnlyMoves
<1> QED BY <1>4, <1>5

LEMMA FallsBackKeepsCharts ==
  ASSUME ChartsInv, NEW p \in Charts, FallsBack(p)
  PROVE  ChartsInv'
<1> DEFINE c == chart[p]
           ask == Head(c.asks)
           answer == FromCache(ask)
           source == IF DOMAIN answer = {} THEN "provider" ELSE "cache"
           d == Answered(c, answer, source)
<1>1. UNCHANGED <<moment, chartRows>> /\ c.at = "falls back" /\ ChartMoves(p, d)
  BY DEF FallsBack
<1>2. c \in ChartProcess /\ c.asks # << >> /\ ask \in Ask /\ RowsOf(ask) \in [Moments -> BarRow]
  BY <1>1, RowsForAsk
<1>3. answer \in BarAnswers
  BY <1>2, CacheAnswers
<1>4. source \in {"provider", "cache", "cache_fresh"} /\ source # "cache_fresh"
  OBVIOUS
<1>5. d \in ChartProcess /\ ChartOK(d, chartRows, moment)
  <2> HIDE DEF c, answer, source
  <2> QED BY <1>2, <1>3, <1>4, AnsweredIsOK
<1> HIDE DEF d
<1> QED BY <1>1, <1>5, OnlyMoves

\* What the provider gives is of its window and not ahead of the time.
LEMMA GivenInTime ==
  ASSUME NEW ask \in Ask, NEW now \in Nat
  PROVE  Given(ask, now) \subseteq Moments /\ \A t \in Given(ask, now) : t <= now
<1> DEFINE S == {ask.to, now}
<1>1. ask.to \in Int /\ ask.from \in Int
  BY DEF Ask
<1>2. \E x \in S : \A y \in S : x <= y
  BY <1>1
<1>3. (\A x \in S : x \in Int) /\ now \in S
  BY <1>1
<1> HIDE DEF S
<1>4. Min(S) \in S /\ \A y \in S : Min(S) <= y
  BY <1>2 DEF Min
<1>5. Min(S) \in Int /\ Min(S) <= now
  BY <1>3, <1>4
<1>6. ASSUME NEW t \in Given(ask, now) PROVE t \in Moments /\ t <= now
  <2>1. t \in ask.from .. Min(S) /\ t \in Moments
    BY DEF Given, LastOf, S
  <2> QED BY <1>1, <1>5, <2>1
<1> QED BY <1>6

\* Bars from the provider are about to be stored.
LEMMA GivesIsOK ==
  ASSUME NEW c \in ChartProcess, c.asks # << >>, NEW now \in Nat, NEW table,
         NEW got \in SUBSET Moments, \A t \in got : t <= now
  PROVE  LET d == [c EXCEPT !.at = "stores", !.bars = got, !.asOf = now]
         IN  d \in ChartProcess /\ ChartOK(d, table, now)
<1> DEFINE d == [c EXCEPT !.at = "stores", !.bars = got, !.asOf = now]
<1>1. "stores" \in ChartPlaces
  BY DEF ChartPlaces
<1>2. d \in ChartProcess /\ d.at = "stores" /\ d.asks = c.asks /\ d.bars = got /\ d.asOf = now
  BY <1>1 DEF ChartProcess
<1> HIDE DEF d
<1>3. ChartOK(d, table, now)
  BY <1>2 DEF ChartOK, IsCached
<1> QED BY <1>2, <1>3 DEF d

LEMMA GivesKeepsCharts ==
  ASSUME ChartsInv, NEW p \in Charts,
         \/ \E fails \in BOOLEAN : FeedGives(p, fails)
         \/ \E got \in SUBSET Moments : PairGives(p, got)
  PROVE  ChartsInv'
<1> DEFINE c == chart[p]
           ask == Head(c.asks)
           given == Given(ask, moment)
           storing == [c EXCEPT !.at = "stores", !.bars = given, !.asOf = moment]
           back == [c EXCEPT !.at = "falls back"]
           next(failed) == [c EXCEPT !.feed = @ + 1, !.failed = failed]
<1>1. UNCHANGED <<moment, chartRows>> /\ c.at = "asks" /\ moment \in Nat
  BY DEF FeedGives, PairGives, ChartsInv
<1>2. c \in ChartProcess /\ c.asks # << >> /\ ask \in Ask
  BY <1>1, RowsForAsk
<1>3. given \in SUBSET Moments /\ \A t \in given : t <= moment
  BY <1>1, <1>2, GivenInTime
<1>4. storing \in ChartProcess /\ ChartOK(storing, chartRows, moment)
  <2> HIDE DEF c, given
  <2> QED BY <1>1, <1>2, <1>3, GivesIsOK
<1>5. back \in ChartProcess /\ ChartOK(back, chartRows, moment)
  <2>1. "falls back" \in ChartPlaces
    BY DEF ChartPlaces
  <2>2. back \in ChartProcess /\ back.at = "falls back" /\ back.asks = c.asks
    BY <1>2, <2>1 DEF ChartProcess
  <2> HIDE DEF back, c
  <2> QED BY <1>2, <2>2, AsksIsOK
<1>6. ASSUME NEW failed \in BOOLEAN, c.feed <= Feeds
      PROVE  next(failed) \in ChartProcess /\ ChartOK(next(failed), chartRows, moment)
  <2> DEFINE d == next(failed)
             feed == c.feed + 1
  <2>1. feed \in 0 .. Feeds + 1
    <3>1. c.feed \in 0 .. Feeds + 1
      BY <1>2 DEF ChartProcess
    <3>2. Feeds \in Nat
      BY ChartAssumption
    <3> HIDE DEF c
    <3> QED BY <1>6, <3>1, <3>2
  <2>2. d = [c EXCEPT !.feed = feed, !.failed = failed]
    OBVIOUS
  <2> HIDE DEF d, feed
  <2>3. d \in ChartProcess /\ d.at = "asks" /\ d.asks = c.asks
    BY <1>1, <1>2, <2>1, <2>2 DEF ChartProcess
  <2> HIDE DEF c
  <2>4. ChartOK(d, chartRows, moment)
    BY <1>2, <2>3, AsksIsOK
  <2> QED BY <2>3, <2>4 DEF d
<1>7. ASSUME NEW fails \in BOOLEAN, FeedGives(p, fails)
      PROVE  \/ ChartMoves(p, storing) \/ ChartMoves(p, back)
             \/ c.feed <= Feeds /\ \E failed \in BOOLEAN : ChartMoves(p, next(failed))
  <2> DEFINE got == IF fails THEN {} ELSE given
             failed == c.failed \/ fails
  <2>1. /\ c.feed <= Feeds
        /\ ChartMoves(p, IF got # {} THEN [c EXCEPT !.at = "stores", !.bars = got, !.asOf = moment]
                         ELSE IF c.feed = Feeds /\ ~failed THEN back
                         ELSE next(failed))
    BY <1>7 DEF FeedGives
  <2>2. got # {} => got = given
    OBVIOUS
  <2>3. failed \in BOOLEAN
    OBVIOUS
  <2> HIDE DEF got, failed, given, c
  <2>4. CASE got # {}
    BY <2>1, <2>2, <2>4
  <2>5. CASE got = {}
    BY <2>1, <2>3, <2>5
  <2> QED BY <2>4, <2>5
<1>8. ASSUME NEW got \in SUBSET Moments, PairGives(p, got)
      PROVE  ChartMoves(p, storing) \/ ChartMoves(p, back)
  <2>1. /\ got \in {{}, given}
        /\ ChartMoves(p, IF got = {} THEN back
                         ELSE [c EXCEPT !.at = "stores", !.bars = got, !.asOf = moment])
    BY <1>8 DEF PairGives
  <2> HIDE DEF given, c
  <2> QED BY <2>1
<1> HIDE DEF c, storing, back, next
<1>9. \/ ChartMoves(p, storing) \/ ChartMoves(p, back)
      \/ c.feed <= Feeds /\ \E failed \in BOOLEAN : ChartMoves(p, next(failed))
  BY <1>7, <1>8
<1>10. CASE ChartMoves(p, storing)
  BY <1>1, <1>4, <1>10, OnlyMoves
<1>11. CASE ChartMoves(p, back)
  BY <1>1, <1>5, <1>11, OnlyMoves
<1>12. CASE c.feed <= Feeds /\ \E failed \in BOOLEAN : ChartMoves(p, next(failed))
  <2>1. PICK failed \in BOOLEAN : ChartMoves(p, next(failed))
    BY <1>12
  <2> DEFINE d == next(failed)
  <2>2. d \in ChartProcess /\ ChartOK(d, chartRows, moment) /\ ChartMoves(p, d)
    BY <1>6, <1>12, <2>1
  <2> HIDE DEF d
  <2> QED BY <1>1, <2>2, OnlyMoves
<1> QED BY <1>9, <1>10, <1>11, <1>12

LEMMA StoresKeepsCharts ==
  ASSUME ChartsInv, NEW p \in Charts, StoresChart(p)
  PROVE  ChartsInv'
<1> DEFINE c == chart[p]
           ask == Head(c.asks)
           old == RowsOf(ask)
           Stored(row) == [asOf |-> c.asOf, fetchedAt |-> moment,
                           newest |-> Max({row.newest, c.asOf}), with |-> c.bars]
           new == [t \in Moments |-> IF t \in c.bars THEN Stored(old[t]) ELSE old[t]]
           d == Answered(c, [t \in {} |-> NoBar], "provider")
<1>1. /\ UNCHANGED moment /\ c.at = "stores" /\ moment \in Nat /\ chartRows \in BarTable
      /\ chartRows' = [chartRows EXCEPT ![ask.symbol][ask.timeframe] = new]
      /\ ChartMoves(p, d)
  BY DEF StoresChart, ChartsInv, RowsOf
<1>2. /\ c \in ChartProcess /\ c.asks # << >> /\ ask \in Ask /\ old \in [Moments -> BarRow]
      /\ RowsAgree(old, moment) /\ ChartOK(c, chartRows, moment)
  BY <1>1, RowsForAsk
<1>3. /\ c.asOf \in Nat /\ c.bars \in SUBSET Moments /\ c.asOf <= moment
      /\ \A t \in c.bars : t <= c.asOf
  BY <1>1, <1>2 DEF ChartProcess, ChartOK
<1> DEFINE asOf == c.asOf
           got == c.bars
<1>4. ASSUME NEW t \in got
      PROVE  /\ new[t] \in BarRow /\ new[t].asOf = asOf /\ new[t].fetchedAt = moment /\ new[t].with = got
             /\ IsBar(new[t]) /\ asOf <= new[t].newest /\ old[t].newest <= new[t].newest
  <2> DEFINE n == old[t].newest
             S == {n, asOf}
             top == Max(S)
  <2>1. t \in Moments /\ n \in Nat
    BY <1>2, <1>3 DEF BarRow
  <2>2. new[t] = [asOf |-> asOf, fetchedAt |-> moment, newest |-> top, with |-> got]
    BY <2>1
  <2> HIDE DEF n
  <2>3. \E x \in S : \A y \in S : x >= y
    BY <1>3, <2>1
  <2>4. (\A x \in S : x \in Nat) /\ n \in S /\ asOf \in S
    BY <1>3, <2>1
  <2>5. Max(S) \in S /\ \A y \in S : Max(S) >= y
    <3> HIDE DEF S
    <3> QED BY <2>3 DEF Max
  <2> HIDE DEF S, asOf
  <2>6. top \in Nat /\ n <= top /\ asOf <= top
    <3>1. asOf \in Nat
      BY <2>4
    <3> QED BY <2>1, <2>4, <2>5, <3>1
  <2> HIDE DEF top, got, new
  <2>7. new[t] \in BarRow /\ new[t].asOf = asOf /\ new[t].fetchedAt = moment /\ new[t].with = got /\ new[t].newest = top
    <3>1. asOf \in Nat /\ got \in SUBSET Moments
      BY <1>3 DEF asOf, got
    <3> QED BY <1>1, <2>2, <2>6, <3>1 DEF BarRow
  <2>8. got # {}
    OBVIOUS
  <2> QED BY <2>6, <2>7, <2>8 DEF IsBar, n
<1>5. ASSUME NEW t \in Moments, t \notin got
      PROVE  new[t] = old[t]
  BY <1>5
<1>6. new \in [Moments -> BarRow]
  <2>1. \A t \in Moments : new[t] \in BarRow
    BY <1>2, <1>4, <1>5
  <2>2. new = [t \in Moments |-> new[t]]
    OBVIOUS
  <2> HIDE DEF new
  <2> QED BY <2>1, <2>2
<1>7. got \subseteq Moments /\ asOf \in Nat /\ asOf <= moment /\ \A t \in got : t <= asOf
  BY <1>3
<1> HIDE DEF new, old, asOf, got
<1>8. ASSUME NEW t \in Moments
      PROVE  /\ IsBar(old[t]) => IsBar(new[t])
             /\ old[t].fetchedAt <= new[t].fetchedAt /\ old[t].newest <= new[t].newest
             /\ old[t].newest \in Nat /\ new[t].newest \in Nat
  <2>1. old[t].fetchedAt \in Nat /\ old[t].newest \in Nat /\ new[t].newest \in Nat /\ old[t].fetchedAt <= moment
    BY <1>2, <1>6 DEF BarRow, RowsAgree
  <2>2. CASE t \in got
    BY <1>4, <2>1, <2>2
  <2>3. CASE t \notin got
    BY <1>5, <2>1, <2>3
  <2> QED BY <2>2, <2>3
<1>9. RowsAgree(new, moment)
  <2> SUFFICES ASSUME NEW t \in Moments
               PROVE  /\ new[t].fetchedAt <= moment
                      /\ IsBar(new[t]) => t \in new[t].with /\ t <= new[t].asOf /\ new[t].asOf <= new[t].fetchedAt
                      /\ \A u \in new[t].with : IsBar(new[u]) /\ new[t].asOf <= new[u].newest
    BY DEF RowsAgree
  <2>1. CASE t \in got
    BY <1>1, <1>4, <1>7, <2>1
  <2>2. CASE t \notin got
    <3>1. new[t] = old[t] /\ old[t] \in BarRow
      BY <1>2, <1>5, <2>2
    <3>2. /\ old[t].fetchedAt <= moment
          /\ IsBar(old[t]) => t \in old[t].with /\ t <= old[t].asOf /\ old[t].asOf <= old[t].fetchedAt
          /\ \A u \in old[t].with : IsBar(old[u]) /\ old[t].asOf <= old[u].newest
      BY <1>2 DEF RowsAgree
    <3>3. old[t].asOf \in Nat /\ old[t].with \subseteq Moments
      BY <3>1 DEF BarRow
    <3>4. ASSUME NEW u \in old[t].with PROVE IsBar(new[u]) /\ old[t].asOf <= new[u].newest
      <4>1. u \in Moments /\ IsBar(old[u]) /\ old[t].asOf <= old[u].newest
        BY <3>2, <3>3
      <4>2. IsBar(new[u]) /\ old[u].newest <= new[u].newest /\ old[u].newest \in Nat /\ new[u].newest \in Nat
        BY <1>8, <4>1
      <4> QED BY <3>3, <4>1, <4>2
    <3> QED BY <3>1, <3>2, <3>4
  <2> QED BY <2>1, <2>2
<1>10. ask.symbol \in Charted /\ ask.timeframe \in Timeframes
  BY <1>2 DEF Ask
<1>11. chartRows' \in BarTable
  BY <1>1, <1>6, <1>10 DEF BarTable
<1>12. \A s \in Charted, f \in Timeframes :
         \/ s = ask.symbol /\ f = ask.timeframe /\ chartRows'[s][f] = new /\ chartRows[s][f] = old
         \/ chartRows'[s][f] = chartRows[s][f]
  BY <1>1, <1>10 DEF BarTable, old, RowsOf
<1> HIDE DEF ask
<1>13. ASSUME NEW s \in Charted, NEW f \in Timeframes PROVE RowsAgree(chartRows'[s][f], moment')
  <2>1. RowsAgree(chartRows[s][f], moment)
    BY DEF ChartsInv
  <2> QED BY <1>1, <1>9, <1>12, <2>1
<1>14. Newer(chartRows, chartRows')
  <2> SUFFICES ASSUME NEW s \in Charted, NEW f \in Timeframes, NEW t \in Moments
               PROVE  /\ IsBar(chartRows[s][f][t]) => IsBar(chartRows'[s][f][t])
                      /\ chartRows[s][f][t].fetchedAt <= chartRows'[s][f][t].fetchedAt
                      /\ chartRows[s][f][t].newest <= chartRows'[s][f][t].newest
    BY DEF Newer
  <2>1. CASE chartRows'[s][f] = chartRows[s][f]
    <3>1. chartRows[s][f][t].fetchedAt \in Nat /\ chartRows[s][f][t].newest \in Nat
      BY <1>1 DEF BarTable, BarRow
    <3> QED BY <2>1, <3>1
  <2>2. CASE chartRows'[s][f] = new /\ chartRows[s][f] = old
    BY <1>8, <2>2
  <2> QED BY <1>12, <2>1, <2>2
<1>15. d \in ChartProcess /\ \A table, now : ChartOK(d, table, now)
  <2> DEFINE none == [t \in {} |-> NoBar]
  <2>1. none \in BarAnswers
    BY RestedChart
  <2> HIDE DEF none, c
  <2> QED BY <1>2, <2>1, AnsweredIsOK DEF none
<1> HIDE DEF d
<1> QED BY <1>1, <1>11, <1>13, <1>14, <1>15, MoveKeeps

\* What is kept of the rows, and of every process with its answer (src/main.rs,
\* fetch_market_bars_with_cache).
THEOREM ChartsInvariant == ChartSpec => []ChartsInv
<1>1. ChartsInv /\ [ChartNext]_chartVars => ChartsInv'
  <2> SUFFICES ASSUME ChartsInv, [ChartNext]_chartVars PROVE ChartsInv'
    OBVIOUS
  <2>1. CASE UNCHANGED chartVars
    BY <2>1 DEF chartVars, ChartsInv
  <2>2. CASE TimePasses
    BY <2>2, TimeKeepsCharts
  <2>3. ASSUME NEW p \in Charts, NEW c \in ChartCommands, ChartStarts(p, c) PROVE ChartsInv'
    BY <2>3, StartsKeepsCharts
  <2>4. ASSUME NEW p \in Charts, NextChart(p) \/ ChartFails(p) \/ ChartKilled(p) PROVE ChartsInv'
    BY <2>4, EndsKeepCharts
  <2>5. ASSUME NEW p \in Charts, ChartChecks(p) PROVE ChartsInv'
    BY <2>5, ChecksKeepsCharts
  <2>6. ASSUME NEW p \in Charts, LoadsChart(p) PROVE ChartsInv'
    BY <2>6, LoadsKeepsCharts
  <2>7. ASSUME NEW p \in Charts, StoresChart(p) PROVE ChartsInv'
    BY <2>7, StoresKeepsCharts
  <2>8. ASSUME NEW p \in Charts, FallsBack(p) PROVE ChartsInv'
    BY <2>8, FallsBackKeepsCharts
  <2>9. ASSUME NEW p \in Charts,
               \/ \E fails \in BOOLEAN : FeedGives(p, fails)
               \/ \E got \in SUBSET Moments : PairGives(p, got)
        PROVE  ChartsInv'
    BY <2>9, GivesKeepsCharts
  <2> QED BY <2>1, <2>2, <2>3, <2>4, <2>5, <2>6, <2>7, <2>8, <2>9 DEF ChartNext
<1> QED BY <1>1, ChartsBegin, PTL DEF ChartSpec

\* An answer from the cache rests on rows of its window that were fresh, and is complete and
\* current as of the fetch that stored them if that asked for all of the window, whatever
\* other commands store meanwhile (src/main.rs:6499).
THEOREM ChartsStayCurrent == ChartSpec => []ChartsAreCurrent
<1>1. ChartsInv => ChartsAreCurrent
  <2> SUFFICES ASSUME ChartsInv, NEW p \in Charts, chart[p].at = "answered", chart[p].source = "cache_fresh"
               PROVE  LET c == chart[p] IN
                      /\ \E t \in RowsIn(Head(c.asks)) :
                           \E r \in c.trusted : RowsOf(Head(c.asks))[t].fetchedAt >= r.fetchedAt
                      /\ \A fetch \in c.trusted : Owes(c.answer, Head(c.asks), fetch)
    BY DEF ChartsAreCurrent
  <2> DEFINE c == chart[p]
             ask == Head(c.asks)
             rows == RowsOf(ask)
  <2>1. /\ c \in ChartProcess /\ ChartOK(c, chartRows, moment) /\ rows \in [Moments -> BarRow]
    BY RowsForAsk
  <2>2. Trusts(c, chartRows) /\ \A fetch \in c.trusted : Owes(c.answer, ask, fetch)
    BY <2>1 DEF ChartOK, IsCached
  <2>3. BarsFor(chartRows, ask) = rows
    BY DEF BarsFor, RowsOf
  <2>4. PICK r \in c.trusted :
          \E t \in Moments : t \in ask.from .. ask.to /\ IsBar(rows[t]) /\ r.fetchedAt <= rows[t].fetchedAt
    BY <2>2, <2>3 DEF Trusts
  <2>5. PICK t \in Moments : t \in ask.from .. ask.to /\ IsBar(rows[t]) /\ r.fetchedAt <= rows[t].fetchedAt
    BY <2>4
  <2>6. r.fetchedAt \in Nat /\ rows[t].fetchedAt \in Nat
    <3>1. r \in BarRow /\ rows[t] \in BarRow
      BY <2>1 DEF ChartProcess
    <3> QED BY <3>1 DEF BarRow
  <2>7. t \in RowsIn(ask) /\ rows[t].fetchedAt >= r.fetchedAt
    BY <2>5, <2>6 DEF RowsIn
  <2> QED BY <2>2, <2>7
<1> QED BY <1>1, ChartsInvariant, PTL

-----------------------------------------------------------------------------
(* Types                                                                    *)

\* The catch-up of bars keeps its types: what it has the provider had.
LEMMA ScanTypes == ScanSpec => []ScanTypeOK
<1>1. ScanInit => ScanTypeOK
  BY ScanAssumption DEF ScanInit, NoScan, ScanTypeOK, Dates, Bound
<1>2. ScanInv /\ ScanTypeOK /\ [ScanNext]_scanVars => ScanTypeOK'
  <2> SUFFICES ASSUME ScanInv, ScanTypeOK, [ScanNext]_scanVars PROVE ScanTypeOK'
    OBVIOUS
  <2>0. /\ today \in Dates /\ Dates \subseteq Int /\ FredFirst \in Int /\ MaxBroken \in Nat
        /\ \A d \in Dates : d <= MaxDate /\ MaxDate \in Nat /\ d >= 1
    BY ScanAssumption DEF ScanTypeOK, Dates
  <2>1. CASE Closes
    <3>1. PICK late : late \subseteq {x \in Bars : x[2] = today'}
                      /\ offered' = (offered \cup {x \in Bars : x[2] = today'}) \ late
      BY <2>1 DEF Closes
    <3>2. today' = today + 1 /\ today' \in Dates /\ \A x \in offered : x[2] # today'
      BY <2>0, <2>1 DEF Closes, ScanInv, Bound, Bars, Dates
    <3>3. offered \subseteq offered' /\ offered' \subseteq Bars
      BY <3>1, <3>2 DEF ScanTypeOK
    <3>4. scan.to \in 0 .. today' /\ fred \in {0} \cup (FredFirst .. today')
      BY <2>0, <3>2 DEF ScanTypeOK
    <3>5. UNCHANGED <<fred, assets, bars, covered, scan, broken, had, early>>
      BY <2>1 DEF Closes
    <3> QED BY <3>2, <3>3, <3>4, <3>5 DEF ScanTypeOK
  <2>2. CASE \E x \in Bars : Offers(x)
    BY <2>2 DEF Offers, ScanTypeOK
  <2>3. CASE \E d \in Dates : BenchmarkSync(d)
    BY <2>0, <2>3 DEF BenchmarkSync, ScanTypeOK
  <2>4. CASE \E tradable \in SUBSET (Tickers \ Benchmarks) : UniverseSync(tradable)
    BY <2>4 DEF UniverseSync, ScanTypeOK
  <2>5. ASSUME NEW from \in Starts, NEW force \in BOOLEAN, ScanBegins(from, force)
        PROVE  ScanTypeOK'
    <3>1. from \in Dates /\ ExpectedDates(from, today) \subseteq from .. today
      BY <2>0, ExpectedInRange, ScanAssumption
    <3>2. from .. today \subseteq 1 .. today
      BY <2>0, <3>1
    <3>3. /\ scan'.to = today /\ scan'.tickers = assets \cup Benchmarks
          /\ scan'.dates = ExpectedDates(from, today) /\ had' \subseteq offered
          /\ UNCHANGED <<today, offered, fred, assets, bars, covered, broken, early>>
      BY <2>5 DEF ScanBegins
    <3> QED BY <2>0, <3>1, <3>2, <3>3, ScanAssumption DEF ScanTypeOK
  <2>6. ASSUME NEW w \in scan.work, NEW tickers \in SUBSET w.tickers, StoreWave(w, tickers)
        PROVE  ScanTypeOK'
    <3>1. /\ scan'.to = scan.to /\ scan'.tickers = scan.tickers /\ scan'.dates = scan.dates
          /\ bars' \subseteq bars \cup offered /\ early' \subseteq early \cup Bars
          /\ covered' = covered \cup {[ticker |-> s, first |-> w.range.first, last |-> w.range.last] : s \in tickers}
          /\ UNCHANGED <<today, offered, fred, assets, broken, had>>
      BY <2>6 DEF StoreWave, ScanInv
    <3>2. w.range.first \in Dates /\ w.range.last \in Dates /\ tickers \subseteq Tickers
      BY DEF ScanInv, Ranges
    <3> QED BY <3>1, <3>2 DEF ScanTypeOK
  <2>7. CASE ScanFails \/ ScanEnds
    BY <2>0, <2>7 DEF ScanFails, ScanEnds, NoScan, ScanTypeOK
  <2>8. CASE UNCHANGED scanVars
    BY <2>8 DEF scanVars, ScanTypeOK
  <2> QED BY <2>1, <2>2, <2>3, <2>4, <2>5, <2>6, <2>7, <2>8 DEF ScanNext
<1> QED BY <1>1, <1>2, ScanInvariant, PTL DEF ScanSpec

\* The types of the cache of bars.
LEMMA ChartTypes == ChartSpec => []ChartTypeOK
<1>1. ChartsInv => ChartTypeOK
  BY DEF ChartsInv, ChartTypeOK, ChartProcess, ChartPlaces, RowsAgree
<1> QED BY <1>1, ChartsInvariant, PTL

\* The types of the subscriptions and of the correlations.
LEMMA UniverseTypes == UniverseSpec => []UniverseTypeOK
<1> DEFINE Bounded == lastBar \in [Companies -> Unpriced .. MaxBar]
<1>1. UniverseInit => Bounded
  BY UniverseAssumption DEF UniverseInit
<1>2. Bounded /\ [UniverseNext]_universeVars => Bounded'
  <2> SUFFICES ASSUME Bounded, [UniverseNext]_universeVars PROVE Bounded'
    OBVIOUS
  <2>1. ASSUME NEW c \in Companies, BarArrives(c) PROVE Bounded'
    BY <2>1, UniverseAssumption DEF BarArrives
  <2>2. CASE UNCHANGED lastBar
    BY <2>2
  <2>3. UniverseNext => UNCHANGED lastBar \/ \E c \in Companies : BarArrives(c)
    BY DEF UniverseNext, CollectsUniverse, ListsManaged, PipelineBreaks, AddInserts, DeletesStale,
           InsertsDesired, AddBegins, Removes, TakesPrint, SkipsSame, LoadsPrices, Replaces, CorrelatorBreaks, ByPrices
  <2> QED BY <2>1, <2>2, <2>3 DEF universeVars
<1>3. UniverseInv /\ Bounded => UniverseTypeOK
  BY DEF UniverseInv, SubscriptionsOK, CorrelationsOK, Behind, Run, UniverseTypeOK
<1> QED BY <1>1, <1>2, <1>3, UniverseKept, PTL DEF UniverseSpec

\* The types of the single models' predictions and of what they are computed from.
PredBases ==
  /\ trained \subseteq Files /\ latest \in FeatureDays /\ seasoned \subseteq Shares
  /\ choice \in [variant : Variants, weights : SUBSET Models] /\ skipped \subseteq Models
  /\ lstmRows \subseteq [variant : Variants, share : Shares, date : FeatureDays]

LEMMA PredTypes == PredSpec => []PredTypeOK
<1>0. LastFeature \in Nat \ {0} /\ Mixes \subseteq SUBSET Models /\ Skips \subseteq SUBSET Models
  BY PredictionsAssumption
<1>1. PredInit => PredBases
  BY <1>0 DEF PredInit, PredBases, FeatureDays, Variants, Models
<1>2. PredBases /\ [PredNext]_predVars => PredBases'
  <2> SUFFICES ASSUME PredBases, [PredNext]_predVars PROVE PredBases'
    OBVIOUS
  <2>1. \A variant \in Variants : LstmRowsAfter(variant) \subseteq [variant : Variants, share : Shares, date : FeatureDays]
    BY DEF LstmRowsAfter, PredBases
  <2>2. ASSUME NEW file \in Files, Train(file) PROVE PredBases'
    BY <2>2 DEF Train, PredBases
  <2>3. ASSUME NEW old \in SUBSET Shares, FeaturesOfNextDay(old) PROVE PredBases'
    BY <1>0, <2>3 DEF FeaturesOfNextDay, PredBases, FeatureDays
  <2>4. ASSUME NEW variant \in Variants, NEW weights \in Mixes, Chooses(variant, weights) PROVE PredBases'
    BY <1>0, <2>4 DEF Chooses, PredBases
  <2>4a. ASSUME NEW weights \in Mixes, SelectsDefault(weights) PROVE PredBases'
    BY <2>4, <2>4a DEF SelectsDefault, Variants
  <2>4b. ASSUME NEW variant \in Variants, NEW weights \in Mixes, SweepsRobustly(variant, weights)
         PROVE PredBases'
    BY <2>4, <2>4b DEF SweepsRobustly
  <2>5. ASSUME NEW left \in Skips, SkipTraining(left) PROVE PredBases'
    BY <1>0, <2>5 DEF SkipTraining, PredBases
  <2>6. CASE LgbPredict \/ XgbPredict
    BY <2>6 DEF LgbPredict, XgbPredict, PredBases
  <2>7. ASSUME NEW variant \in Variants, LstmPredict(variant) PROVE PredBases'
    BY <2>1, <2>7 DEF LstmPredict, PredBases
  <2>8. ASSUME NEW weights, EnsembleWeighted(weights) PROVE PredBases'
    BY <2>8 DEF EnsembleWeighted, PredBases
  <2>9. ASSUME NEW weights, EnsembleWithout(weights) PROVE PredBases'
    <3>1. lstmRows' \in {lstmRows, LstmRowsAfter("without_sp500")}
          /\ UNCHANGED <<trained, latest, seasoned, choice, skipped>>
      BY <2>9 DEF EnsembleWithout
    <3>2. "without_sp500" \in Variants
      BY DEF Variants
    <3> QED BY <2>1, <3>1, <3>2 DEF PredBases
  <2>10. CASE EnsembleDefault
    BY <2>8, <2>9, <2>10 DEF EnsembleDefault
  <2>11. CASE UNCHANGED predVars
    BY <2>11 DEF predVars, PredBases
  <2> QED BY <2>2, <2>3, <2>4a, <2>4b, <2>5, <2>6, <2>7, <2>8, <2>10, <2>11 DEF PredNext
<1>3. PredInv /\ PredBases => PredTypeOK
  BY DEF PredInv, PredBases, PredTypeOK, Row
<1> QED BY <1>1, <1>2, <1>3, RowsAreRanked, PTL DEF PredSpec

LEMMA ModelTypes == ModelSpec => []ModelTypeOK
<1>1. ModelsInv => ModelTypeOK
  BY DEF ModelsInv
<1> QED BY <1>1, ModelsInvariant, PTL

\* The types of the exports.
LEMMA NeuralTypes == NeuralSpec => []NeuralTypeOK
<1> DEFINE Bounded == exports \in 0 .. MaxExports
<1>1. NeuralInit => Bounded
  BY NeuralAssumption DEF NeuralInit
<1>2. Bounded /\ [NeuralNext]_neuralVars => Bounded'
  <2> SUFFICES ASSUME Bounded, [NeuralNext]_neuralVars PROVE Bounded'
    OBVIOUS
  <2>1. ASSUME NEW e \in Exporters, ExportBegins(e) PROVE Bounded'
    BY <2>1, NeuralAssumption DEF ExportBegins
  <2>2. CASE UNCHANGED exports
    BY <2>2
  <2>3. NeuralNext => UNCHANGED exports \/ \E e \in Exporters : ExportBegins(e)
    BY DEF NeuralNext, SaveBegins, SaveEnds, SetupIsAsked, ScriptLoads, ScriptClears, ScriptPacks,
           ScriptCompiles, ScriptNames, Examines, Judges, Records, Breaks, ArtifactIsChecked, ArtifactIsRun
  <2> QED BY <2>1, <2>2, <2>3 DEF neuralVars
<1>3. NeuralInv /\ Bounded => NeuralTypeOK
  BY DEF NeuralInv, VettedOK, NeuralTypeOK, Contents, Exporter, Converting, Stands
<1> QED BY <1>1, <1>2, <1>3, NeuralInvariant, PTL DEF NeuralSpec

\* The types of the articles and of their counting.
LEMMA FeedTypes == FeedSpec => []FeedTypeOK
<1>1. FeedInv => FeedTypeOK
  <2> SUFFICES ASSUME FeedInv PROVE FeedTypeOK
    OBVIOUS
  <2>1. ASSUME NEW pair \in MentionPairs PROVE strength[pair] <= Cardinality(Urls)
    <3>1. strength[pair] + missed[pair] + Cardinality(Pending(pair)) = Cardinality(Holding(pair))
      BY Sums DEF FeedInv
    <3>2. IsFiniteSet(Urls) /\ Holding(pair) \subseteq Urls
      BY ArticlesAssumption DEF Holding
    <3>3. Cardinality(Holding(pair)) <= Cardinality(Urls) /\ Cardinality(Urls) \in Nat
      BY <3>2, FS_Subset, FS_CardinalityType
    <3> QED BY <3>1, <3>3, Sums DEF FeedInv
  <2>2. \A f \in Syncers : DOMAIN syncer[f].tasks \subseteq 1 .. Subscribers
    BY DEF FeedInv, Syncer, Tried
  <2> QED BY <2>1, <2>2 DEF FeedInv, Syncer, FeedTypeOK
<1> QED BY <1>1, FeedsKept, PTL

\* Numbers of attempts and epochs are within their bounds.
RunBounded(run, n) ==
  /\ run.attempt <= n /\ run.bestEpoch <= run.epoch /\ run.epoch <= Epochs
  /\ run.at = "loading" => run.epoch = 0
  /\ run.at = "epochs" => run.epoch < Epochs
TrainBounded ==
  /\ attempts <= MaxAttempts /\ trainReport <= attempts
  /\ trainedFile.attempt <= attempts /\ trainedFile.epoch <= Epochs
  /\ \A t \in Trainers : RunBounded(training[t], attempts)

\* Every command keeps its attempt and its epochs within their bounds.
LEMMA AttemptIsBounded ==
  ASSUME NEW t, NEW asked, NEW engine, NEW soon, NEW alone, attempts \in Nat
  PROVE  RunBounded(Attempted(t, asked, engine, soon, alone), attempts + 1)
<1>1. /\ Attempted(t, asked, engine, soon, alone).at = "loading"
      /\ Attempted(t, asked, engine, soon, alone).epoch = 0
      /\ Attempted(t, asked, engine, soon, alone).bestEpoch = 0
      /\ Attempted(t, asked, engine, soon, alone).attempt = attempts + 1
  BY DEF Attempted, NoTraining
<1> QED BY <1>1, TrainingAssumption DEF RunBounded

LEMMA FailedIsBounded ==
  ASSUME TrainInv, TrainBounded, NEW t \in Trainers, Failed(t), trainedFile' = trainedFile, trainReport' = trainReport
  PROVE  TrainBounded'
<1>0. /\ training \in [Trainers -> Training] /\ attempts \in Nat /\ trainReport \in Nat
      /\ trainedFile.attempt \in Nat /\ MaxAttempts \in Nat
      /\ \A u \in Trainers : training[u].attempt \in Nat
  BY TrainingAssumption DEF TrainInv, Training
<1>1. ASSUME attempts < MaxAttempts, attempts' = attempts + 1, NEW stops \in BOOLEAN,
             training' = [training EXCEPT ![t] = Attempted(t, "auto", "cpu", stops, training[t].alone)]
      PROVE  TrainBounded'
  <2>1. \A u \in Trainers : RunBounded(training[u], attempts + 1)
    BY <1>0 DEF TrainBounded, RunBounded
  <2>2. \A u \in Trainers : RunBounded(training'[u], attempts + 1)
    BY <1>0, <1>1, <2>1, AttemptIsBounded
  <2> QED BY <1>0, <1>1, <2>2 DEF TrainBounded
<1>2. ASSUME Gone(t), UNCHANGED attempts PROVE TrainBounded'
  <2>1. RunBounded(NoTraining, attempts)
    BY <1>0, TrainingAssumption DEF RunBounded, NoTraining
  <2> QED BY <1>0, <1>2, <2>1 DEF TrainBounded, Gone
<1> QED BY <1>1, <1>2 DEF Failed

\* A step of one training within its bounds.
LEMMA OneBounded ==
  ASSUME TrainInv, TrainBounded, NEW t \in Trainers, NEW run, training' = [training EXCEPT ![t] = run],
         RunBounded(run, attempts), UNCHANGED attempts, trainReport' <= attempts,
         trainedFile'.attempt <= attempts, trainedFile'.epoch <= Epochs
  PROVE  TrainBounded'
BY DEF TrainInv, TrainBounded

LEMMA TrainIsBounded == TrainSpec => []TrainBounded
<1>1. TrainInit => TrainBounded
  <2>1. RunBounded(NoTraining, 0)
    BY TrainingAssumption DEF RunBounded, NoTraining
  <2> QED BY <2>1, TrainingAssumption DEF TrainInit, TrainBounded
<1>2. ASSUME TrainInv, TrainBounded, TrainNext PROVE TrainBounded'
  <2>0. /\ training \in [Trainers -> Training] /\ attempts \in Nat /\ trainReport \in Nat
        /\ trainedFile.attempt \in Nat /\ trainedFile.epoch \in Nat
        /\ MaxAttempts \in Nat /\ Epochs \in Nat \ {0}
    BY <1>2, TrainingAssumption DEF TrainInv
  <2>1. \A t \in Trainers : /\ RunBounded(training[t], attempts) /\ training[t] \in Training
                            /\ training[t].attempt \in Nat /\ training[t].epoch \in Nat
                            /\ training[t].bestEpoch \in Nat
    BY <1>2, <2>0 DEF TrainBounded, Training
  <2>2. ASSUME NEW t \in Trainers, NEW asked \in {"auto", "cpu", "mlx", "tch"}, NEW stops \in BOOLEAN,
               AsksTraining(t, asked, stops)
        PROVE  TrainBounded'
    <3>1. /\ attempts < MaxAttempts /\ attempts' = attempts + 1 /\ UNCHANGED <<trainedFile, trainReport>>
      BY <2>2 DEF AsksTraining
    <3>2. RunBounded(training'[t], attempts + 1)
      BY <2>0, <2>2, AttemptIsBounded DEF AsksTraining
    <3>3. ASSUME NEW u \in Trainers \ {t} PROVE RunBounded(training'[u], attempts + 1)
      <4>1. training'[u] = [training[u] EXCEPT !.alone = FALSE]
        BY <2>2 DEF AsksTraining
      <4>2. /\ training'[u].at = training[u].at /\ training'[u].attempt = training[u].attempt
            /\ training'[u].epoch = training[u].epoch /\ training'[u].bestEpoch = training[u].bestEpoch
        BY <2>1, <4>1, Zenon DEF Training
      <4> QED BY <2>0, <2>1, <4>2 DEF RunBounded
    <3> QED BY <1>2, <2>0, <3>1, <3>2, <3>3 DEF TrainBounded
  <2>3. ASSUME NEW t \in Trainers, ChildCrashes(t) PROVE TrainBounded'
    BY <1>2, <2>3, FailedIsBounded DEF ChildCrashes
  <2>4. ASSUME NEW t \in Trainers, NEW place, StaysWith(t, place), UNCHANGED attempts,
               place = "epochs" => training[t].epoch = 0, place # "loading",
               trainReport' <= attempts, trainedFile'.attempt <= attempts, trainedFile'.epoch <= Epochs
        PROVE  TrainBounded'
    <3> DEFINE run == [training[t] EXCEPT !.at = place]
    <3>1. /\ run.at = place /\ run.attempt = training[t].attempt
          /\ run.epoch = training[t].epoch /\ run.bestEpoch = training[t].bestEpoch
      BY <2>1 DEF Training
    <3>2. training' = [training EXCEPT ![t] = run]
      BY <2>4 DEF StaysWith
    <3>3. RunBounded(run, attempts)
      BY <2>0, <2>1, <2>4, <3>1 DEF RunBounded
    <3> HIDE DEF run
    <3> QED BY <1>2, <2>4, <3>2, <3>3, OneBounded
  <2>5. /\ trainReport <= attempts /\ trainedFile.attempt <= attempts /\ trainedFile.epoch <= Epochs
    BY <1>2 DEF TrainBounded
  <2>6. ASSUME NEW t \in Trainers, CommandKilled(t) PROVE TrainBounded'
    <3>1. RunBounded(NoTraining, attempts)
      BY <2>0, TrainingAssumption DEF RunBounded, NoTraining
    <3> DEFINE run == [training[t] EXCEPT !.orphan = TRUE]
    <3>2. /\ run.at = training[t].at /\ run.attempt = training[t].attempt
          /\ run.epoch = training[t].epoch /\ run.bestEpoch = training[t].bestEpoch
      BY <2>1, Zenon DEF Training
    <3>3. RunBounded(run, attempts)
      BY <2>1, <3>2 DEF RunBounded
    <3>4. UNCHANGED <<built, trainedFile, trainReport, attempts>>
          /\ (training' = [training EXCEPT ![t] = run] \/ training' = [training EXCEPT ![t] = NoTraining])
      BY <2>6, Zenon DEF CommandKilled, Gone
    <3> HIDE DEF run
    <3> QED BY <1>2, <2>5, <3>1, <3>3, <3>4, OneBounded
  <2>7. ASSUME NEW t \in Trainers, LoadsSequences(t) PROVE TrainBounded'
    <3>1. training[t].at = "loading" /\ training[t].epoch = 0 /\ UNCHANGED <<built, trainedFile, trainReport>>
      BY <2>1, <2>7 DEF LoadsSequences, RunBounded
    <3>2. CASE Failed(t)
      BY <1>2, <3>1, <3>2, FailedIsBounded
    <3>3. CASE StaysWith(t, "epochs") /\ UNCHANGED attempts
      BY <2>4, <2>5, <3>1, <3>3
    <3> QED BY <2>7, <3>2, <3>3 DEF LoadsSequences
  <2>8. ASSUME NEW t \in Trainers, CpuEpoch(t) \/ TchEpoch(t) \/ MlxEpoch(t) PROVE TrainBounded'
    <3> DEFINE old == training[t]
    <3>1. PICK loss \in Losses :
            training' = [training EXCEPT ![t] = [AfterEpoch(old, loss) EXCEPT
                           !.at = IF LoopIsOver(AfterEpoch(old, loss)) THEN "saving" ELSE "epochs"]]
      BY <2>8 DEF CpuEpoch, TchEpoch, MlxEpoch, Epoch
    <3> DEFINE at == IF LoopIsOver(AfterEpoch(old, loss)) THEN "saving" ELSE "epochs"
               run == [AfterEpoch(old, loss) EXCEPT !.at = at]
    <3>2. old.at = "epochs" /\ UNCHANGED <<built, trainedFile, trainReport, attempts>>
      BY <2>8 DEF CpuEpoch, TchEpoch, MlxEpoch, Epoch
    <3>3. /\ AfterEpoch(old, loss).epoch = old.epoch + 1 /\ AfterEpoch(old, loss).attempt = old.attempt
          /\ AfterEpoch(old, loss).bestEpoch \in {old.epoch + 1, old.bestEpoch}
          /\ DOMAIN AfterEpoch(old, loss) = DOMAIN old
      BY <2>1 DEF AfterEpoch, Training
    <3>4. at \in {"saving", "epochs"} /\ (at = "epochs" => old.epoch + 1 # Epochs)
      BY <3>3 DEF LoopIsOver
    <3>5. DOMAIN old = DOMAIN NoTraining
      BY <2>1, Zenon DEF Training, NoTraining
    <3> HIDE DEF at
    <3>6. /\ run.at = at /\ run.attempt = old.attempt /\ run.epoch = old.epoch + 1
          /\ run.bestEpoch \in {old.epoch + 1, old.bestEpoch}
      BY <2>1, <3>3 DEF AfterEpoch, Training
    <3>7. RunBounded(run, attempts)
      BY <2>0, <2>1, <3>2, <3>4, <3>6 DEF RunBounded
    <3>8. training' = [training EXCEPT ![t] = run]
      BY <3>1 DEF at
    <3> HIDE DEF run
    <3> QED BY <1>2, <2>5, <3>2, <3>7, <3>8, OneBounded
  <2>9. ASSUME NEW t \in Trainers, ModelTruncated(t) PROVE TrainBounded'
    <3>1. /\ training[t].at = "saving" /\ UNCHANGED <<built, trainReport, attempts>> /\ StaysWith(t, "torn")
          /\ trainedFile'.attempt = training[t].attempt /\ trainedFile'.epoch = KeptEpoch(training[t])
      BY <2>9 DEF ModelTruncated
    <3>2. training[t].engine \in {"cpu", "tch", "mlx"}
      BY <1>2, <2>1, <3>1 DEF TrainInv, LoopOK, Training
    <3>3. KeptEpoch(training[t]) \in {training[t].bestEpoch, training[t].epoch}
      BY <3>2 DEF KeptEpoch, CpuKeeps, TchKeeps, MlxKeeps
    <3>4. trainedFile'.attempt <= attempts /\ trainedFile'.epoch <= Epochs
      BY <2>0, <2>1, <3>1, <3>3 DEF RunBounded
    <3> QED BY <2>4, <2>5, <3>1, <3>4
  <2>10. ASSUME NEW t \in Trainers, ModelWritten(t) PROVE TrainBounded'
    <3>1. CASE Failed(t) /\ UNCHANGED trainedFile
      BY <1>2, <2>10, <3>1, FailedIsBounded DEF ModelWritten
    <3>2. ASSUME trainedFile' = [trainedFile EXCEPT !.whole = trainedFile.attempt = training[t].attempt],
                 StaysWith(t, "reporting"), UNCHANGED attempts
          PROVE  TrainBounded'
      <4>1. trainedFile \in [attempt : Nat, epoch : Nat, whole : BOOLEAN]
        BY <1>2 DEF TrainInv
      <4>2. trainedFile'.attempt = trainedFile.attempt /\ trainedFile'.epoch = trainedFile.epoch
        BY <3>2, <4>1, Zenon
      <4>3. trainReport' = trainReport
        BY <2>10 DEF ModelWritten
      <4> QED BY <2>4, <2>5, <3>2, <4>2, <4>3
    <3> QED BY <2>10, <3>1, <3>2 DEF ModelWritten
  <2>11. ASSUME NEW t \in Trainers, ReportWritten(t) PROVE TrainBounded'
    <3>1. CASE Failed(t) /\ UNCHANGED trainReport
      BY <1>2, <2>11, <3>1, FailedIsBounded DEF ReportWritten
    <3>2. CASE trainReport' = training[t].attempt /\ StaysWith(t, "succeeded") /\ UNCHANGED attempts
      BY <2>1, <2>4, <2>5, <2>11, <3>2 DEF ReportWritten, RunBounded
    <3> QED BY <2>11, <3>1, <3>2 DEF ReportWritten
  <2> QED BY <1>2, <2>2, <2>3, <2>6, <2>7, <2>8, <2>9, <2>10, <2>11 DEF TrainNext
<1>3. TrainBounded /\ UNCHANGED trainVars => TrainBounded'
  BY DEF TrainBounded, trainVars
<1> QED BY <1>1, <1>2, <1>3, TrainInvariant, PTL DEF TrainSpec

\* The types of the trainings.
LEMMA TrainTypes == TrainSpec => []TrainTypeOK
<1>1. TrainInv /\ TrainBounded => TrainTypeOK
  <2> SUFFICES ASSUME TrainInv, TrainBounded PROVE TrainTypeOK
    OBVIOUS
  <2>1. /\ trainedFile \in [attempt : Nat, epoch : Nat, whole : BOOLEAN] /\ MaxAttempts \in Nat /\ Epochs \in Nat
        /\ attempts \in Nat /\ trainReport \in Nat
    BY TrainingAssumption DEF TrainInv
  <2>2. trainReport \in 0 .. MaxAttempts /\ attempts \in 0 .. MaxAttempts
    BY <2>1 DEF TrainBounded
  <2>3. trainedFile \in [attempt : 0 .. MaxAttempts, epoch : 0 .. Epochs, whole : BOOLEAN]
    BY <2>1 DEF TrainBounded
  <2> QED BY <2>2, <2>3 DEF TrainInv, TrainBounded, RunBounded, TrainTypeOK, Training
<1> QED BY <1>1, TrainInvariant, TrainIsBounded, PTL

LEMMA CellsAreFinite == IsFiniteSet(Cells)
<1> PICK last \in Nat : MarketDates = 1 .. last
  BY DatesAreNumbers
<1>1. IsFiniteSet(MarketDates) /\ IsFiniteSet(Stocks)
  BY FS_Interval, DatasetsAssumption
<1> QED BY <1>1, FS_Product DEF Cells

\* What can be computed of some bars can be of more.
LEMMA ComputableGrows ==
  ASSUME NEW A, NEW B, A \subseteq B, B \subseteq Cells
  PROVE  Computable(A) \subseteq Computable(B)
<1> SUFFICES ASSUME NEW x \in Computable(A) PROVE x \in Computable(B)
  OBVIOUS
<1>1. IsFiniteSet(Cells)
  BY CellsAreFinite
<1> DEFINE own(C) == {y \in C : y[1] = x[1]}
<1>2. IsFiniteSet(own(B)) /\ own(A) \subseteq own(B)
  <2>1. own(B) \subseteq Cells
    OBVIOUS
  <2> HIDE DEF own
  <2>2. IsFiniteSet(own(B))
    BY <1>1, <2>1, FS_Subset
  <2> QED BY <2>2 DEF own
<1>3. /\ Cardinality(own(A)) <= Cardinality(own(B))
      /\ Cardinality(own(A)) \in Nat /\ Cardinality(own(B)) \in Nat
  <2> HIDE DEF own
  <2> QED BY <1>2, FS_Subset, FS_CardinalityType
<1>4. x \in A /\ Cardinality(own(A)) >= MinBars /\ \E y \in A : y[1] = x[1] /\ y[2] < x[2]
  BY DEF Computable
<1>5. x \in B /\ Cardinality(own(B)) >= MinBars /\ \E y \in B : y[1] = x[1] /\ y[2] < x[2]
  <2> HIDE DEF own
  <2> QED BY <1>3, <1>4, DatasetsAssumption
<1> QED BY <1>5 DEF Computable

\* The least and the greatest of dates are among them.
LEMMA DateEnds ==
  ASSUME NEW dates, dates \subseteq MarketDates, dates # {}
  PROVE  Min(dates) \in dates /\ Max(dates) \in dates
<1> PICK last \in Nat : MarketDates = 1 .. last
  BY DatesAreNumbers
<1>1. dates \subseteq 0 .. last
  OBVIOUS
<1> QED BY <1>1, MinAndMax

\* The types of the labels and of the features.
LEMMA MlTypes == MlSpec => []MlTypeOK
<1>0. /\ MarketDates \subseteq Nat \ {0} /\ MaxMishaps \in Nat
      /\ \A cells : cells \subseteq Cells => DatesOf(cells) \subseteq MarketDates
  BY DatesAreNumbers, DatasetsAssumption DEF DatesOf, Cells
<1>1. MlInit => MlTypeOK
  BY <1>0 DEF MlInit, MlTypeOK, Computable, DatesOf, NoBatch
<1>2. ASSUME RowsInv, MlTypeOK, MlNext PROVE MlTypeOK'
  <2>0. /\ priced \subseteq Cells /\ backfill \subseteq priced /\ DOMAIN labels \subseteq priced /\ job \in Jobs
        /\ features \subseteq Computable(priced) /\ ranked \subseteq features /\ passed \subseteq priced
        /\ batch.dates \subseteq DatesOf(priced) /\ batch.left \subseteq Stocks
        /\ partial.n \in 0 .. MaxMishaps
        /\ \A x \in DOMAIN labels : labels[x] \in [short : {0} \cup MarketDates, long : {0} \cup MarketDates]
    BY <1>2 DEF MlTypeOK
  <2>9. /\ partial \in [n : Nat, dates : SUBSET MarketDates]
         /\ batch \in [on : BOOLEAN, dates : SUBSET MarketDates, left : SUBSET Stocks, stored : BOOLEAN, current : BOOLEAN]
    BY <1>2 DEF RowsInv, FeaturesInv
  <2>1. ASSUME NEW d \in MarketDates, NEW stocks \in SUBSET Stocks, BarsCome(d, stocks) PROVE MlTypeOK'
    <3>1. /\ priced' = priced \cup (stocks \X {d}) /\ priced \subseteq priced' /\ priced' \subseteq Cells
          /\ UNCHANGED <<job, labels, features, ranked, sizes, partial>>
      BY <2>0, <2>1 DEF BarsCome, Cells
    <3>2. backfill' \subseteq priced' /\ passed' \subseteq priced'
      BY <2>0, <2>1, <3>1 DEF BarsCome, Computable
    <3>3. batch'.dates = batch.dates /\ batch'.left = batch.left
      BY <2>9, <2>1 DEF BarsCome
    <3>4. features' \subseteq Computable(priced')
      BY <2>0, <3>1, ComputableGrows
    <3>5. batch'.dates \subseteq DatesOf(priced')
      BY <2>0, <3>1, <3>3 DEF DatesOf
    <3> QED BY <2>0, <3>1, <3>2, <3>3, <3>4, <3>5 DEF MlTypeOK
  <2>2. ASSUME NEW h \in {Horizon, LongHorizon}, Label(h) PROVE MlTypeOK'
    <3> DEFINE new == {x \in priced : x[2] \in LabelDates(h)}
    <3>1. ASSUME NEW x, NEW n PROVE DateAfter(x, n) \in {0} \cup MarketDates
      <4> DEFINE after == {y \in priced : y[1] = x[1] /\ y[2] > x[2]}
                 nth == {y \in after : Cardinality({z \in after : z[2] < y[2]}) = n - 1}
      <4>1. DateAfter(x, n) = IF nth = {} THEN 0 ELSE Min(DatesOf(nth))
        BY DEF DateAfter
      <4>2. nth \subseteq priced
        OBVIOUS
      <4> HIDE DEF nth
      <4>3. CASE nth # {}
        <5>1. DatesOf(nth) # {} /\ DatesOf(nth) \subseteq MarketDates
          BY <1>0, <2>0, <4>2, <4>3 DEF DatesOf
        <5> QED BY <4>1, <4>3, <5>1, DateEnds
      <4> QED BY <4>1, <4>3
    <3>2. /\ labels' = [x \in DOMAIN labels \cup new |->
                          IF x \in new THEN [short |-> DateAfter(x, Horizon), long |-> DateAfter(x, LongHorizon)]
                                       ELSE labels[x]]
          /\ UNCHANGED <<job, priced, features, ranked, batch, backfill, passed, partial>>
      BY <2>2 DEF Label
    <3>3. DOMAIN labels' \subseteq priced
      BY <2>0, <3>2
    <3> HIDE DEF new
    <3>4. \A x \in DOMAIN labels' : labels'[x] \in [short : {0} \cup MarketDates, long : {0} \cup MarketDates]
      BY <2>0, <3>1, <3>2
    <3> QED BY <2>0, <3>2, <3>3, <3>4 DEF MlTypeOK
  <2>3. ASSUME NEW stocks \in SUBSET Stocks, NEW all \in BOOLEAN, FeaturesBegin(stocks, all) PROVE MlTypeOK'
    <3>1. FeatureDates \subseteq DatesOf(priced)
      <4>1. DatesOf(features) \subseteq DatesOf(priced) /\ DatesOf(priced) \subseteq MarketDates
        BY <1>0, <2>0 DEF DatesOf, Computable
      <4>2. priced # {} /\ DatesOf(priced) # {}
        BY <2>3 DEF FeaturesBegin, DatesOf
      <4>3. Max(DatesOf(priced)) \in DatesOf(priced)
            /\ (DatesOf(features) # {} => Max(DatesOf(features)) \in DatesOf(features))
        BY <4>1, <4>2, DateEnds
      <4> QED BY <4>1, <4>3 DEF FeatureDates
    <3> DEFINE dates == IF all THEN DatesOf(priced) ELSE FeatureDates
    <3>2. /\ batch' = [on |-> TRUE, dates |-> dates, left |-> stocks, stored |-> FALSE, current |-> TRUE]
          /\ UNCHANGED <<job, priced, labels, features, ranked, backfill, sizes, passed>>
          /\ partial' \in {partial, [partial EXCEPT !.dates = @ \cup dates]}
      BY <2>3 DEF FeaturesBegin
    <3>3. dates \subseteq DatesOf(priced)
      BY <3>1
    <3> HIDE DEF dates
    <3>4. batch'.dates = dates /\ batch'.left = stocks /\ partial'.n = partial.n
      BY <2>9, <3>2
    <3>5. batch'.dates \subseteq DatesOf(priced') /\ batch'.left \subseteq Stocks
      BY <3>2, <3>3, <3>4
    <3>6. features' \subseteq Computable(priced')
      BY <2>0, <3>2
    <3>7. \A x \in DOMAIN labels' : labels'[x] \in [short : {0} \cup MarketDates, long : {0} \cup MarketDates]
      BY <2>0, <3>2
    <3>8. job' \in Jobs /\ priced' \subseteq Cells /\ backfill' \subseteq priced' /\ DOMAIN labels' \subseteq priced'
      BY <2>0, <3>2
    <3>9. partial'.n \in 0 .. MaxMishaps /\ ranked' \subseteq features' /\ passed' \subseteq priced'
      BY <2>0, <3>2, <3>4
    <3> QED BY <3>5, <3>6, <3>7, <3>8, <3>9 DEF MlTypeOK
  <2>4. ASSUME NEW s \in Stocks, StoreBatch(s) PROVE MlTypeOK'
    <3>1. /\ features' \subseteq features \cup Computable(priced) /\ ranked' \subseteq ranked /\ features \subseteq features'
          /\ batch'.dates = batch.dates /\ batch'.left = batch.left \ {s}
          /\ UNCHANGED <<job, priced, labels, backfill, sizes, passed, partial>>
      BY <2>9, <2>4 DEF StoreBatch
    <3> QED BY <2>0, <3>1 DEF MlTypeOK
  <2>5. CASE Rank
    BY <2>0, <2>5 DEF Rank, NoBatch, MlTypeOK
  <2>6. CASE Tears
    <3>1. IsFiniteSet(Cells)
      BY CellsAreFinite
    <3>2. Cardinality(backfill) \in Nat
      BY <2>0, <3>1, FS_Subset, FS_CardinalityType
    <3>3. partial'.n = partial.n + 1 /\ partial.n + Cardinality(backfill) < MaxMishaps
      BY <2>6 DEF Tears
    <3>4. partial'.n \in 0 .. MaxMishaps
      BY <1>0, <2>0, <3>2, <3>3
    <3> QED BY <2>0, <2>6, <3>4 DEF Tears, NoBatch, MlTypeOK
  <2> QED BY <1>2, <2>1, <2>2, <2>3, <2>4, <2>5, <2>6 DEF MlNext
<1>3. MlTypeOK /\ UNCHANGED mlVars => MlTypeOK'
  BY DEF MlTypeOK, mlVars
<1> QED BY <1>1, <1>2, <1>3, RowsInvariant, PTL DEF MlSpec

-----------------------------------------------------------------------------
(* The parts together (MCMarketMl)                                          *)

\* A behaviour of the whole is a behaviour of every part: the part that steps takes its own
\* steps and the others stutter. What is proved of a part so holds of the whole.
THEOREM PartsKeepTheirSpecs ==
  Spec => /\ ScanSpec /\ ChartSpec /\ UniverseSpec
          /\ FeedSpec /\ MlSpec /\ PredSpec
          /\ ModelSpec /\ TrainSpec /\ NeuralSpec
<1>1. Spec => ScanSpec
  <2>1. PartInit => ScanInit
    BY DEF PartInit
  <2>2. [PartNext]_allVars => [ScanNext]_scanVars
    BY DEF PartNext, allVars, KeepsScan
  <2> QED BY <2>1, <2>2, PTL DEF Spec, ScanSpec
<1>2. Spec => ChartSpec
  <2>1. PartInit => ChartInit
    BY DEF PartInit
  <2>2. [PartNext]_allVars => [ChartNext]_chartVars
    BY DEF PartNext, allVars, KeepsBars
  <2> QED BY <2>1, <2>2, PTL DEF Spec, ChartSpec
<1>3. Spec => UniverseSpec
  <2>1. PartInit => UniverseInit
    BY DEF PartInit
  <2>2. [PartNext]_allVars => [UniverseNext]_universeVars
    BY DEF PartNext, allVars, KeepsUniverse
  <2> QED BY <2>1, <2>2, PTL DEF Spec, UniverseSpec
<1>4. Spec => FeedSpec
  <2>1. PartInit => FeedInit
    BY DEF PartInit
  <2>2. [PartNext]_allVars => [FeedNext]_feedVars
    BY DEF PartNext, allVars, KeepsArticles
  <2> QED BY <2>1, <2>2, PTL DEF Spec, FeedSpec
<1>5. Spec => MlSpec
  <2>1. PartInit => MlInit
    BY DEF PartInit
  <2>2. [PartNext]_allVars => [MlNext]_mlVars
    BY DEF PartNext, allVars, KeepsDatasets
  <2> QED BY <2>1, <2>2, PTL DEF Spec, MlSpec
<1>6. Spec => PredSpec
  <2>1. PartInit => PredInit
    BY DEF PartInit
  <2>2. [PartNext]_allVars => [PredNext]_predVars
    BY DEF PartNext, allVars, KeepsPredictions
  <2> QED BY <2>1, <2>2, PTL DEF Spec, PredSpec
<1>7. Spec => ModelSpec
  <2>1. PartInit => ModelInit
    BY DEF PartInit
  <2>2. [PartNext]_allVars => [ModelNext]_modelVars
    BY DEF PartNext, allVars, KeepsModels
  <2> QED BY <2>1, <2>2, PTL DEF Spec, ModelSpec
<1>8. Spec => TrainSpec
  <2>1. PartInit => TrainInit
    BY DEF PartInit
  <2>2. [PartNext]_allVars => [TrainNext]_trainVars
    BY DEF PartNext, allVars, KeepsTraining
  <2> QED BY <2>1, <2>2, PTL DEF Spec, TrainSpec
<1>9. Spec => NeuralSpec
  <2>1. PartInit => NeuralInit
    BY DEF PartInit
  <2>2. [PartNext]_allVars => [NeuralNext]_neuralVars
    BY DEF PartNext, allVars, KeepsNeural
  <2> QED BY <2>1, <2>2, PTL DEF Spec, NeuralSpec
<1> QED BY <1>1, <1>2, <1>3, <1>4, <1>5, <1>6, <1>7, <1>8, <1>9

\* The state of every part keeps the forms that the code's structures and tables give it, for
\* any values of the constants (TypesOK of the run market_and_ml).
THEOREM TypesStayCorrect == Spec => []TypesOK
<1>1. Spec => []ScanTypeOK
  <2>1. Spec => ScanSpec
    BY PartsKeepTheirSpecs
  <2> QED BY <2>1, ScanTypes, PTL
<1>2. Spec => []ChartTypeOK
  <2>1. Spec => ChartSpec
    BY PartsKeepTheirSpecs
  <2> QED BY <2>1, ChartTypes, PTL
<1>3. Spec => []UniverseTypeOK
  <2>1. Spec => UniverseSpec
    BY PartsKeepTheirSpecs
  <2> QED BY <2>1, UniverseTypes, PTL
<1>4. Spec => []FeedTypeOK
  <2>1. Spec => FeedSpec
    BY PartsKeepTheirSpecs
  <2> QED BY <2>1, FeedTypes, PTL
<1>5. Spec => []MlTypeOK
  <2>1. Spec => MlSpec
    BY PartsKeepTheirSpecs
  <2> QED BY <2>1, MlTypes, PTL
<1>6. Spec => []PredTypeOK
  <2>1. Spec => PredSpec
    BY PartsKeepTheirSpecs
  <2> QED BY <2>1, PredTypes, PTL
<1>7. Spec => []ModelTypeOK
  <2>1. Spec => ModelSpec
    BY PartsKeepTheirSpecs
  <2> QED BY <2>1, ModelTypes, PTL
<1>8. Spec => []TrainTypeOK
  <2>1. Spec => TrainSpec
    BY PartsKeepTheirSpecs
  <2> QED BY <2>1, TrainTypes, PTL
<1>9. Spec => []NeuralTypeOK
  <2>1. Spec => NeuralSpec
    BY PartsKeepTheirSpecs
  <2> QED BY <2>1, NeuralTypes, PTL
<1>10. ASSUME ScanTypeOK, ChartTypeOK, UniverseTypeOK, FeedTypeOK, MlTypeOK, PredTypeOK,
              ModelTypeOK, TrainTypeOK, NeuralTypeOK
       PROVE  TypesOK
  BY <1>10 DEF TypesOK
<1> QED BY <1>1, <1>2, <1>3, <1>4, <1>5, <1>6, <1>7, <1>8, <1>9, <1>10, PTL
=============================================================================
