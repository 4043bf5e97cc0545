------------------------------- MODULE Business -------------------------------
\* What the service modules share: the workers of the business ThreadPool, and
\* whether MySQL or Redis may answer a command with an error.
CONSTANTS None, Threads, StorageMayFail

ASSUME BusinessAssumption == StorageMayFail \in BOOLEAN /\ None \notin Threads
=============================================================================
