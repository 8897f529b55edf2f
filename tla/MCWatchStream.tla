----------------------------- MODULE MCWatchStream -----------------------------
EXTENDS WatchStream, TLC

\* Subscription identities and writers are interchangeable (safety runs only).
Symm == Permutations(Subs) \cup Permutations(Writers)
=============================================================================
