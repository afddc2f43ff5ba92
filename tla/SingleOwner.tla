---------------------------- MODULE SingleOwner ----------------------------
(* What the lease promises the rest of the system: the subreddit is streamed *)
(* by at most one acquisition at a time, control passes from one to the next *)
(* only through a moment in which nobody streams, and an acquisition streams *)
(* once - a token that was given up, lost or wasted never comes back.        *)
CONSTANTS Worker, NoOne

VARIABLES
    active,      \* the acquisition that streams, NoOne between two of them
    spent        \* acquisitions that have streamed or never will

Init == active = NoOne /\ spent = {}

Take(w) ==
    /\ active = NoOne
    /\ w \notin spent
    /\ active' = w
    /\ spent' = spent \cup {w}

Leave ==
    /\ active # NoOne
    /\ active' = NoOne
    /\ UNCHANGED spent

\* An acquisition that is refused, or that dies before it streams.
Waste(w) ==
    /\ w \notin spent
    /\ spent' = spent \cup {w}
    /\ UNCHANGED active

Next == Leave \/ \E w \in Worker : Take(w) \/ Waste(w)

Spec == Init /\ [][Next]_<<active, spent>>
=============================================================================
