----------------------------- MODULE ResumePoint -----------------------------
(* What a reader with a durable resume point promises (README.md,            *)
(* "Processing guarantees": at-least-once recovery).  What a reader has      *)
(* taken and not seen through is owed.  A reader may end at any moment and   *)
(* forget what it owes: the next one takes everything above the point again. *)
(* So the point moves only over what is settled and only while nothing is    *)
(* owed, and nothing that is owed and unsettled lies below it.               *)
EXTENDS Naturals

CONSTANT None      \* no resume point: nothing is below it

VARIABLES
    settled,       \* nobody needs to read these again
    owed,          \* taken by the reader there is, and not seen through
    point,         \* where the next reader resumes
    carried        \* the point a reader that ended may still write back

vars == <<settled, owed, point, carried>>

Init == settled = {} /\ owed = {} /\ point = None /\ carried = None

Take ==
    /\ owed \subseteq owed'
    /\ \A c \in owed' \ owed : c > 0
    /\ UNCHANGED <<settled, point, carried>>

\* What is no longer owed has been settled.
Settle ==
    /\ settled \subseteq settled'
    /\ owed' \subseteq owed /\ owed \ owed' \subseteq settled'
    /\ UNCHANGED <<point, carried>>

Move ==
    /\ owed = {}
    /\ 1 .. point' \subseteq settled
    /\ UNCHANGED <<settled, owed, carried>>

\* The reader ends; it may still hold the point as it is now.
End ==
    /\ \A c \in owed \ settled : c > point
    /\ owed' = {}
    /\ carried' \in {carried, point, None}
    /\ UNCHANGED <<settled, point>>

WriteBack ==
    /\ point' = carried /\ carried' = None
    /\ UNCHANGED <<settled, owed>>

Next == Take \/ Settle \/ Move \/ End \/ WriteBack

Spec == Init /\ [][Next]_vars
=============================================================================
