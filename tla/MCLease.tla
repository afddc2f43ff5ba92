------------------------------ MODULE MCLease ------------------------------
(* The lease without the timing assumption: durations are what the cfg says. *)
EXTENDS Lease, TLC

Symmetry == Permutations(Worker)
=============================================================================
