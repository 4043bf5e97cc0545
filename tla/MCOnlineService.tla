--------------------------- MODULE MCOnlineService ---------------------------
\* Instances of OnlineService: users, sessions and threads are interchangeable.
EXTENDS OnlineService, TLC

Symmetry == Permutations(Users) \cup Permutations(Sessions) \cup Permutations(Threads)
=============================================================================
