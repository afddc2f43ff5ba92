------------------------- MODULE MCStreamIdentity -------------------------
EXTENDS StreamIdentity, TLC

Symmetry == Permutations(Start)
=============================================================================
