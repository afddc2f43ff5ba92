---------------------------- MODULE MCMigrations ----------------------------
(* Migrations for TLC: two jobs of any two releases of three file names, the *)
(* third numbered with more digits than the others.                          *)
EXTENDS Migrations, TLC

Names == {[number |-> 1, width |-> 3], [number |-> 2, width |-> 3],
          [number |-> 2, width |-> 4]}

Symmetry == Permutations(Checksum)
=============================================================================
