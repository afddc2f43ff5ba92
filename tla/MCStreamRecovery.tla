-------------------------- MODULE MCStreamRecovery --------------------------
(* StreamRecovery with the numbers of the code.                              *)
EXTENDS StreamRecovery

CONSTANTS MaxQuiet,    \* bound: failures in a row
          MaxOpened    \* bound: openings in a row

Bounded == quiet <= MaxQuiet /\ opened <= MaxOpened
=============================================================================
