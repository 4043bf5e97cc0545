-------------------------- MODULE MCPrivateDelivery --------------------------
\* Instances of PrivateDelivery.
EXTENDS PrivateDelivery, TLC

Symmetry == Permutations(Threads)
=============================================================================
