---------------------------- MODULE FeedRecords ----------------------------
(* What the feeds leave for the models: subscriptions and correlations        *)
(* (module FeedUniverse), and articles with the strengths of pairs of symbols *)
(* (module FeedArticles).  The two share no table that either writes.         *)
EXTENDS FeedUniverse, FeedArticles

\* What the feeds leave for the models: the owner's subscriptions stay, correlations are of
\* the bars of their fingerprint (module FeedUniverse), and each article counts once for
\* the strengths of its pairs (module FeedArticles).
FeedsAreTrue == UniverseIsTrue /\ ArticlesCountOnce
=============================================================================
