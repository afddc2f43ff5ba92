----------------------------- MODULE TimedLease -----------------------------
(* The lease with the durations the repository relies on: what a worker may  *)
(* do between two confirmations fits into the time to live of the key.       *)
EXTENDS Lease

ASSUME TimingAssumption ==
    /\ NoOne \notin Worker
    /\ TTL \in Nat /\ Interval \in Nat /\ Timeout \in Nat
    /\ Startup \in Nat /\ Heartbeat \in Nat /\ Lag \in Nat
    /\ LeaseTiming
=============================================================================
