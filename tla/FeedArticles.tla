----------------------------- MODULE FeedArticles -----------------------------
(* The articles of the feeds (src/main.rs): `feeds sync` and the ML pipeline   *)
(* ask every source for every subscribed symbol, in waves whose width follows  *)
(* the timeouts; an article is stored under its URL the first time it is seen, *)
(* and then every pair of the symbols it mentions is counted, a statement for  *)
(* each.  Tasks of a process give way to one another only while they wait for  *)
(* an answer; two processes interleave between any two statements.             *)
EXTENDS Naturals, FiniteSets, FiniteSetsExt

CONSTANTS
  Urls,         \* articles
  Mentions,     \* sets of symbols that a sighting of an article may come with
  MaxMention,   \* an article of more symbols counts for no pair
  Syncers,      \* processes that may synchronise feeds at once
  Subscribers,  \* number of subscribed symbols
  Sources,      \* number of sources, asked one after the other
  MaxWidth,     \* configured concurrency of a source
  CleanWaves,   \* clean waves after which a source is asked for one more at once
  MaxRetries,   \* retries of a task
  MaxSightings, \* bound on the articles in answers
  MaxMissed     \* bound on statements that fail and on crashes

ASSUME ArticlesAssumption ==
  /\ {MaxMention, Subscribers, Sources, MaxWidth, CleanWaves, MaxRetries, MaxSightings,
      MaxMissed} \subseteq Nat
  /\ Subscribers > 0 /\ Sources > 0 /\ MaxWidth > 0
  /\ \A m \in Mentions : m # {} /\ IsFiniteSet(m)
  /\ IsFiniteSet(Urls) /\ IsFiniteSet(Syncers)

VARIABLES
  articles,  \* url -> the symbols it was stored with, none if it is not stored
  strength,  \* pair of symbols -> strength of their co_mention
  missed,    \* pair of symbols -> articles that were stored and never counted (history)
  syncer,    \* each process: where it stands
  sightings, \* articles in answers so far
  mishaps     \* statements that failed and crashes so far

feedVars == <<articles, strength, missed, syncer, sightings, mishaps>>

PairsOf(symbols) == kSubset(2, symbols)
MentionPairs == PairsOf(UNION Mentions)

\* The pairs that detect_co_mentions() counts for an article.
CountedPairs(symbols) == IF Cardinality(symbols) > MaxMention THEN {} ELSE PairsOf(symbols)

NotSyncing ==
  [at |-> "rest", source |-> 0, next |-> 1, width |-> MaxWidth, clean |-> 0,
   tasks |-> [s \in {} |-> 0], dirty |-> FALSE, pairs |-> {}]

FeedInit ==
  /\ articles = [u \in Urls |-> {}]
  /\ strength = [p \in MentionPairs |-> 0]
  /\ missed = [p \in MentionPairs |-> 0]
  /\ syncer = [f \in Syncers |-> NotSyncing]
  /\ sightings = 0 /\ mishaps = 0

-----------------------------------------------------------------------------
(* sync_all_feed_subscriptions(), sync_feed_source_parallel()               *)

\* A wave of tasks, one for each of the next symbols.
WaveFrom(source, next, width, clean) ==
  LET end == Min({next + width, Subscribers + 1})
  IN  [NotSyncing EXCEPT !.at = "wave", !.source = source, !.next = end, !.width = width,
                         !.clean = clean, !.tasks = [s \in next .. end - 1 |-> 0]]

SyncStarts(f) ==
  /\ syncer[f].at = "rest" /\ syncer[f].source = 0
  /\ syncer' = [syncer EXCEPT ![f] = WaveFrom(1, 1, MaxWidth, 0)]
  /\ UNCHANGED <<articles, strength, missed, sightings, mishaps>>

\* Mutant of Tuned: a source grows wider without end.
TunedUnbounded(s) ==
  IF s.dirty THEN <<Max({s.width - 1, 1}), 0>>
  ELSE IF s.clean + 1 >= CleanWaves THEN <<s.width + 1, 0>>
  ELSE <<s.width, s.clean + 1>>

\* With auto_tune_sources: narrower after a wave with a timeout or a final error, wider again
\* after enough clean ones.  <<width, clean waves since>>.
Tuned(s) ==
  IF s.dirty THEN <<Max({s.width - 1, 1}), 0>>
  ELSE IF s.clean + 1 >= CleanWaves /\ s.width < MaxWidth THEN <<s.width + 1, 0>>
  ELSE <<s.width, s.clean + 1>>

\* All tasks of a wave have ended: the next wave, the next source or the end.
WaveEnds(f) ==
  /\ syncer[f].at = "wave" /\ DOMAIN syncer[f].tasks = {}
  /\ LET s == syncer[f] tuned == Tuned(s)
     IN  syncer' = [syncer EXCEPT ![f] =
           IF s.next <= Subscribers THEN WaveFrom(s.source, s.next, tuned[1], tuned[2])
           ELSE IF s.source < Sources THEN WaveFrom(s.source + 1, 1, MaxWidth, 0)
           ELSE [NotSyncing EXCEPT !.source = Sources]]
  /\ UNCHANGED <<articles, strength, missed, sightings, mishaps>>

Without(tasks, s) == [t \in DOMAIN tasks \ {s} |-> tasks[t]]

\* The last answer has been stored; a refusal of the provider is an empty answer.
TaskEnds(f, s) ==
  /\ syncer[f].at = "wave" /\ s \in DOMAIN syncer[f].tasks
  /\ syncer' = [syncer EXCEPT ![f].tasks = Without(@, s)]
  /\ UNCHANGED <<articles, strength, missed, sightings, mishaps>>

\* What is left of the tasks when one has failed: it is tried again, or given up.
Retried(tasks, s) ==
  IF tasks[s] < MaxRetries THEN [tasks EXCEPT ![s] = @ + 1] ELSE Without(tasks, s)

\* An attempt fails, also between the two requests to SEC EDGAR: what was stored stays,
\* and the task asks again from the beginning.
AttemptEnds(f, s, dirty) ==
  /\ syncer[f].at = "wave" /\ s \in DOMAIN syncer[f].tasks
  /\ syncer' = [syncer EXCEPT ![f].dirty = @ \/ dirty, ![f].tasks = Retried(@, s)]
  /\ UNCHANGED <<articles, strength, missed, sightings, mishaps>>

\* A timeout tells on the wave, even if the task succeeds in the end.
AttemptTimesOut(f, s) == AttemptEnds(f, s, TRUE)

\* An error (the database does not open) tells only when it is the task's last.
AttemptFails(f, s) == AttemptEnds(f, s, syncer[f].tasks[s] = MaxRetries)

-----------------------------------------------------------------------------
(* upsert_article() and detect_co_mentions()                                *)

\* The same article comes with the source's symbols, or with the one that was asked
\* for and the tickers found in its text.
Sightings == Urls \X Mentions

\* Mutant of Stores: an article that is stored already is counted again.
StoresAndCounts(f, url, symbols) ==
  /\ syncer[f].at = "wave" /\ DOMAIN syncer[f].tasks # {}
  /\ sightings < MaxSightings /\ sightings' = sightings + 1
  /\ articles' = [articles EXCEPT ![url] = IF @ = {} THEN symbols ELSE @]
  /\ syncer' = [syncer EXCEPT ![f].at = "counting", ![f].pairs = CountedPairs(symbols)]
  /\ UNCHANGED <<strength, missed, mishaps>>

\* INSERT OR IGNORE: what is stored stays as it was first seen, under whatever symbol it
\* is seen again, and is not counted again.
Stores(f, url, symbols) ==
  /\ syncer[f].at = "wave" /\ DOMAIN syncer[f].tasks # {}
  /\ sightings < MaxSightings /\ sightings' = sightings + 1
  /\ articles' = [articles EXCEPT ![url] = IF @ = {} THEN symbols ELSE @]
  /\ syncer' = IF articles[url] # {} THEN syncer
               ELSE [syncer EXCEPT ![f].at = "counting", ![f].pairs = CountedPairs(symbols)]
  /\ UNCHANGED <<strength, missed, mishaps>>

\* One pair, in one statement; its error is dropped.
CountsPair(f, pair, fails) ==
  /\ syncer[f].at = "counting" /\ pair \in syncer[f].pairs
  /\ fails => mishaps < MaxMissed
  /\ mishaps' = IF fails THEN mishaps + 1 ELSE mishaps
  /\ strength' = IF fails THEN strength ELSE [strength EXCEPT ![pair] = @ + 1]
  /\ missed' = IF fails THEN [missed EXCEPT ![pair] = @ + 1] ELSE missed
  /\ syncer' = [syncer EXCEPT ![f].pairs = @ \ {pair}]
  /\ UNCHANGED <<articles, sightings>>

AllCounted(f) ==
  /\ syncer[f].at = "counting" /\ syncer[f].pairs = {}
  /\ syncer' = [syncer EXCEPT ![f].at = "wave"]
  /\ UNCHANGED <<articles, strength, missed, sightings, mishaps>>

\* The process is killed: its pairs are never counted, since the article is stored.
SyncKilled(f) ==
  /\ syncer[f].at # "rest" /\ mishaps < MaxMissed
  /\ mishaps' = mishaps + 1
  /\ missed' = [p \in MentionPairs |-> missed[p] + (IF p \in syncer[f].pairs THEN 1 ELSE 0)]
  /\ syncer' = [syncer EXCEPT ![f] = NotSyncing]
  /\ UNCHANGED <<articles, strength, sightings>>

FeedNext == \E f \in Syncers :
  \/ SyncStarts(f) \/ WaveEnds(f) \/ AllCounted(f) \/ SyncKilled(f)
  \/ \E s \in 1 .. Subscribers : TaskEnds(f, s) \/ AttemptTimesOut(f, s) \/ AttemptFails(f, s)
  \/ \E x \in Sightings : Stores(f, x[1], x[2])
  \/ \E pair \in MentionPairs, fails \in BOOLEAN : CountsPair(f, pair, fails)

FeedSpec == FeedInit /\ [][FeedNext]_feedVars

-----------------------------------------------------------------------------
FeedTypeOK ==
  /\ articles \in [Urls -> Mentions \cup {{}}]
  /\ \A p \in MentionPairs : strength[p] <= Cardinality(Urls)
  /\ \A f \in Syncers :
       /\ syncer[f].at \in {"rest", "wave", "counting"} /\ syncer[f].width \in 1 .. MaxWidth
       /\ DOMAIN syncer[f].tasks \subseteq 1 .. Subscribers

\* The stored articles that detect_co_mentions() counts a pair for: those that mention it
\* among at most MaxMention symbols.
Mentioning(pair) == Cardinality({u \in Urls : pair \in CountedPairs(articles[u])})

\* The strength of a pair, counted as articles come in, is the number of stored articles
\* that detect_co_mentions() counts it for, but for the statements that failed and
\* those still to come: each article counts once, whatever the processes, sources,
\* symbols and retried attempts that see it, and in whatever order.
ArticlesCountOnce ==
  \A pair \in MentionPairs :
    LET underWay == Cardinality({f \in Syncers : pair \in syncer[f].pairs})
    IN  strength[pair] + missed[pair] + underWay = Mentioning(pair)
=============================================================================
