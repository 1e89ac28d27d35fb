----------------------------- MODULE MCFeedSync -----------------------------
\* FeedSync for TLC: requests, and configurations, are interchangeable.
EXTENDS FeedSync, TLC

Alike == Permutations(Requests) \cup Permutations(Urls)
=============================================================================
