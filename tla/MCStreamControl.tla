-------------------------- MODULE MCStreamControl --------------------------
(* StreamControl for TLC.  A behaviour is followed until MaxRaces + 1 of the *)
(* named races have happened in it; after the first of them, only while no   *)
(* more than one sweep is under way.                                         *)
EXTENDS StreamControl, Naturals, FiniteSets, TLC

MaxRaces == 1

SweepsUnderWay == {w \in Sweeper : sweepPc[w] # "index"}

Bounded ==
    /\ Cardinality(overtaken) <= MaxRaces
    /\ overtaken = {} \/ Cardinality(SweepsUnderWay) <= 1

Symmetry == Permutations(Start) \cup Permutations(Stop)
            \cup Permutations(Instance) \cup Permutations(Sweeper)
=============================================================================
