---------------------------- MODULE MCTimedLease ----------------------------
EXTENDS TimedLease, TLC

Symmetry == Permutations(Worker)
=============================================================================
