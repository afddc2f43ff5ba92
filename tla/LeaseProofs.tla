---------------------------- MODULE LeaseProofs ----------------------------
(* What the lease guarantees for every number of workers and every choice of *)
(* durations that satisfies LeaseTiming.                                     *)
EXTENDS TimedLease, TLAPS

USE TimingAssumption

\* The key exists exactly while it has time to live.
KeyHasTtl == holder = NoOne <=> ttl = 0

\* The wait_for around a refresh is what bounds a confirmation's age.
RefreshBounded ==
    \A w \in Worker : pc[w] = "refreshing" => timer[w] <= Timeout + Lag

\* A worker sends its release as the last thing it does.
ReleaseIsLast ==
    \A w \in Worker : Release(w) \in wire => Finished(w)

IInv ==
    /\ TypeOK
    /\ KeyHasTtl
    /\ RefreshBounded
    /\ ReleaseIsLast
    /\ FailsClosed

-----------------------------------------------------------------------------
\* The initial state satisfies the inductive invariant: no key, no worker.
LEMMA InitIInv == Init => IInv
BY DEF Init, IInv, TypeOK, KeyHasTtl, RefreshBounded, ReleaseIsLast,
       FailsClosed, Timed, Streaming, Phase, Finished

\* Every step keeps the state well typed.
LEMMA NextTypeOK == TypeOK /\ [Next]_vars => TypeOK'
<1> SUFFICES ASSUME TypeOK, [Next]_vars PROVE TypeOK'
    OBVIOUS
<1> USE DEF TypeOK, Phase, Goto
<1>1. CASE Tick
    BY <1>1 DEF Tick
<1>2. ASSUME NEW w \in Worker, Step(w) PROVE TypeOK'
  <2>1. CASE Acquire(w)       BY <2>1 DEF Acquire
  <2>2. CASE Refused(w)       BY <2>2 DEF Refused
  <2>3. CASE Progress(w)
    <3>1. CASE StartStreaming(w)   BY <3>1 DEF StartStreaming
    <3>2. CASE SendRefresh(w)      BY <3>2 DEF SendRefresh, Command, Refresh
    <3>3. CASE RefreshConfirmed(w) BY <3>3 DEF RefreshConfirmed
    <3>4. CASE RefreshDenied(w)    BY <3>4 DEF RefreshDenied
    <3>5. CASE RefreshFails(w)     BY <3>5 DEF RefreshFails
    <3>6. CASE HeartbeatEnds(w)    BY <3>6 DEF HeartbeatEnds
    <3>7. CASE ShutDown(w)         BY <3>7 DEF ShutDown
    <3> QED BY <2>3, <3>1, <3>2, <3>3, <3>4, <3>5, <3>6, <3>7 DEF Progress
  <2>4. CASE ResendRefresh(w) BY <2>4 DEF ResendRefresh, Command, Refresh
  <2>5. CASE ExecRefresh(w)   BY <2>5 DEF ExecRefresh
  <2>6. CASE ShutDown(w)      BY <2>6 DEF ShutDown
  <2>7. CASE StreamFails(w)   BY <2>7 DEF StreamFails
  <2>8. CASE Saved(w)         BY <2>8 DEF Saved
  <2>9. CASE SendRelease(w)   BY <2>9 DEF SendRelease, Command, Release
  <2>10. CASE ExecRelease(w)  BY <2>10 DEF ExecRelease
  <2>11. CASE Abandon(w)      BY <2>11 DEF Abandon
  <2> QED BY <1>2, <2>1, <2>2, <2>3, <2>4, <2>5, <2>6, <2>7, <2>8, <2>9,
             <2>10, <2>11 DEF Step
<1>3. ASSUME NEW c \in wire, Drop(c) PROVE TypeOK'
    BY <1>3 DEF Drop
<1>4. CASE UNCHANGED vars
    BY <1>4 DEF vars
<1> QED BY <1>1, <1>2, <1>3, <1>4 DEF Next

\* The lease variables always have their types, whatever the durations.
THEOREM LeaseTypes == Spec => []TypeOK
<1>1. Init => TypeOK
    BY DEF Init, TypeOK, Phase
<1> QED BY <1>1, NextTypeOK, PTL DEF Spec

-----------------------------------------------------------------------------
\* A step of the clock keeps the inductive invariant: a worker with time left
\* has a key with more of it, so the key of a streaming worker never expires.
LEMMA TickIInv == IInv /\ Tick => IInv'
<1> SUFFICES ASSUME IInv, Tick PROVE IInv'
    OBVIOUS
<1>1. TypeOK'
    BY NextTypeOK DEF IInv, Next
<1>2. \A w \in Worker : Timed(w)' = Timed(w) /\ (Timed(w) => timer'[w] = timer[w] - 1)
    BY DEF Tick, Timed, Streaming, IInv, TypeOK
<1>3. KeyHasTtl'
    BY DEF Tick, IInv, TypeOK, KeyHasTtl
<1>4. RefreshBounded'
    BY <1>2 DEF Tick, IInv, TypeOK, RefreshBounded, Timed, Streaming
<1>5. ReleaseIsLast'
    BY DEF Tick, IInv, ReleaseIsLast, Finished
<1>6. FailsClosed'
  <2> SUFFICES ASSUME NEW w \in Worker, Timed(w)'
               PROVE  (holder = w /\ Remaining(w) < ttl)'
      BY DEF FailsClosed
  <2>1. Timed(w) /\ timer[w] \in Nat /\ timer[w] > 0 /\ timer'[w] = timer[w] - 1
      BY <1>2 DEF Tick, IInv, TypeOK
  <2>2. holder = w /\ Remaining(w) < ttl
      BY <2>1 DEF IInv, FailsClosed
  <2>3. Remaining(w) \in Nat /\ Remaining(w) >= timer[w]
      BY <2>1 DEF Remaining, RenewalCycle
  <2>4. Remaining(w)' = Remaining(w) - 1
      BY <2>1 DEF Remaining, RenewalCycle, Tick
  <2>5. ttl \in Nat /\ ttl > 1 /\ ttl' = ttl - 1 /\ holder' = holder
      BY <2>1, <2>2, <2>3 DEF Tick, IInv, TypeOK
  <2> QED BY <2>2, <2>3, <2>4, <2>5
<1> QED BY <1>1, <1>3, <1>4, <1>5, <1>6 DEF IInv

\* Every step of a worker, or of Redis on its behalf, keeps the invariant.
LEMMA StepIInv == ASSUME NEW w \in Worker, IInv, Step(w) PROVE IInv'
<1> TypeOK' /\ TypeOK
    BY NextTypeOK DEF IInv, Next
<1> USE DEF IInv, Goto
<1>1. ASSUME Progress(w) \/ ShutDown(w) \/ StreamFails(w) \/ Saved(w) \/ Abandon(w)
      PROVE  IInv'
  <2> USE DEF TypeOK, KeyHasTtl, RefreshBounded, ReleaseIsLast, Finished,
          FailsClosed, Timed, Streaming, Remaining, RenewalCycle
  <2>1. CASE StartStreaming(w)   BY <2>1 DEF StartStreaming
  <2>2. CASE SendRefresh(w)      BY <2>2 DEF SendRefresh, Refresh, Release
  <2>3. CASE RefreshConfirmed(w) BY <2>3 DEF RefreshConfirmed
  <2>4. CASE RefreshDenied(w)    BY <2>4 DEF RefreshDenied
  <2>5. CASE RefreshFails(w)     BY <2>5 DEF RefreshFails
  <2>6. CASE HeartbeatEnds(w)    BY <2>6 DEF HeartbeatEnds
  <2>7. CASE ShutDown(w)         BY <2>7 DEF ShutDown
  <2>8. CASE StreamFails(w)      BY <2>8 DEF StreamFails
  <2>9. CASE Saved(w)            BY <2>9 DEF Saved
  <2>10. CASE Abandon(w)         BY <2>10 DEF Abandon
  <2> QED BY <1>1, <2>1, <2>2, <2>3, <2>4, <2>5, <2>6, <2>7, <2>8, <2>9,
             <2>10 DEF Progress
<1>2. CASE Acquire(w) \/ Refused(w)
    BY <1>2 DEF Acquire, Refused, TypeOK, KeyHasTtl, RefreshBounded,
        ReleaseIsLast, Finished, FailsClosed, Timed, Streaming, Remaining,
        RenewalCycle, LeaseTiming
<1>3. CASE ResendRefresh(w)
    BY <1>3 DEF ResendRefresh, TypeOK, KeyHasTtl, RefreshBounded, ReleaseIsLast,
        Finished, FailsClosed, Timed, Streaming, Remaining, RenewalCycle,
        Refresh, Release
<1>4. CASE ExecRefresh(w)
  <2>1. KeyHasTtl'
      BY <1>4 DEF ExecRefresh, KeyHasTtl, TypeOK, LeaseTiming
  <2>2. RefreshBounded' /\ ReleaseIsLast'
      BY <1>4 DEF ExecRefresh, RefreshBounded, ReleaseIsLast, Finished
  <2>3. FailsClosed'
    <3> SUFFICES ASSUME NEW v \in Worker, Timed(v)'
                 PROVE  (holder = v /\ Remaining(v) < ttl)'
        BY DEF FailsClosed
    <3>1. Timed(v) /\ holder = v /\ Remaining(v) < ttl /\ ttl \in Nat /\ ttl <= TTL
        BY <1>4 DEF ExecRefresh, Timed, Streaming, FailsClosed, TypeOK
    <3>2. ttl' \in Nat /\ ttl <= ttl' /\ holder' = v
        BY <1>4, <3>1 DEF ExecRefresh
    <3>3. CASE reply'[v] = reply[v]
        BY <1>4, <3>1, <3>2, <3>3 DEF ExecRefresh, Remaining, RenewalCycle, TypeOK
    <3>4. CASE reply'[v] # reply[v]
      <4>1. v = w /\ pc[w] = "refreshing" /\ reply'[w] = "owner" /\ ttl' = TTL
          BY <1>4, <3>1, <3>4 DEF ExecRefresh, TypeOK
      <4>2. timer[w] \in Nat /\ timer[w] <= Timeout + Lag
          BY <4>1 DEF RefreshBounded, TypeOK
      <4>3. Remaining(w)' = timer[w] + Heartbeat + RenewalCycle
          BY <1>4, <4>1, <4>2 DEF ExecRefresh, Remaining, RenewalCycle
      <4> QED BY <3>2, <4>1, <4>2, <4>3 DEF LeaseTiming, RenewalCycle
    <3> QED BY <3>3, <3>4
  <2> QED BY <2>1, <2>2, <2>3
<1>5. CASE SendRelease(w)
    BY <1>5 DEF SendRelease, TypeOK, KeyHasTtl, RefreshBounded, ReleaseIsLast,
        Finished, FailsClosed, Timed, Streaming, Remaining, Release
<1>6. CASE ExecRelease(w)
  <2>1. Finished(w)
      BY <1>6 DEF ExecRelease, ReleaseIsLast
  <2> QED BY <1>6, <2>1 DEF ExecRelease, TypeOK, KeyHasTtl, RefreshBounded,
        ReleaseIsLast, Finished, FailsClosed, Timed, Streaming, Remaining
<1> QED BY <1>1, <1>2, <1>3, <1>4, <1>5, <1>6 DEF Step

\* The inductive invariant holds in every reachable state.
THEOREM LeaseInvariant == Spec => []IInv
<1>1. IInv /\ [Next]_vars => IInv'
  <2> SUFFICES ASSUME IInv, [Next]_vars PROVE IInv'
      OBVIOUS
  <2>1. CASE Tick
      BY <2>1, TickIInv
  <2>2. ASSUME NEW w \in Worker, Step(w) PROVE IInv'
      BY <2>2, StepIInv
  <2>3. ASSUME NEW c \in wire, Drop(c) PROVE IInv'
      BY <2>3, NextTypeOK DEF Next, Drop, IInv, TypeOK, KeyHasTtl, RefreshBounded,
          ReleaseIsLast, Finished, FailsClosed, Timed, Streaming, Remaining
  <2>4. CASE UNCHANGED vars
      BY <2>4 DEF vars, IInv, TypeOK, KeyHasTtl, RefreshBounded, ReleaseIsLast,
          Finished, FailsClosed, Timed, Streaming, Remaining
  <2> QED BY <2>1, <2>2, <2>3, <2>4 DEF Next
<1> QED BY <1>1, InitIInv, PTL DEF Spec

\* A worker that streams owns a key that outlives its own watchdog.
THEOREM LeaseFailsClosed == Spec => []FailsClosed
<1>1. IInv => FailsClosed
    BY DEF IInv
<1> QED BY <1>1, LeaseInvariant, PTL

\* Two workers never stream the subreddit at the same time.
THEOREM LeaseExclusion == Spec => []MutualExclusion
<1>1. IInv => MutualExclusion
    BY DEF IInv, FailsClosed, MutualExclusion, Timed
<1> QED BY <1>1, LeaseInvariant, PTL

-----------------------------------------------------------------------------
\* A lease ends by expiry or by its own worker's release, is never handed over
\* directly, and is extended only by a refresh of its own worker.
THEOREM LeaseStaleOwner == Spec => StaleOwnerHarmless
<1>1. IInv /\ [Next]_vars => \A w \in Worker : KeepsLease(w)
  <2> SUFFICES ASSUME IInv, [Next]_vars, NEW w \in Worker, holder = w PROVE KeepsLease(w)
      BY Zenon DEF KeepsLease
  <2>1. ttl \in Nat /\ ttl > 0
      BY DEF IInv, TypeOK, KeyHasTtl
  <2>2. CASE Tick
      BY <2>1, <2>2 DEF Tick, KeepsLease
  <2>3. ASSUME NEW v \in Worker, ExecRefresh(v) PROVE KeepsLease(w)
      BY <2>1, <2>3 DEF ExecRefresh, KeepsLease
  <2>4. ASSUME NEW v \in Worker, ExecRelease(v) PROVE KeepsLease(w)
      BY <2>1, <2>4 DEF ExecRelease, IInv, ReleaseIsLast, KeepsLease
  <2>5. CASE UNCHANGED <<holder, ttl>>
      BY <2>1, <2>5 DEF KeepsLease
  <2>6. ASSUME NEW v \in Worker, Step(v),
               ~ExecRefresh(v), ~ExecRelease(v)
        PROVE  UNCHANGED <<holder, ttl>>
      BY <2>6 DEF Step, Progress, Acquire, Refused, ResendRefresh, ShutDown,
          StreamFails, Saved, SendRelease, Abandon, StartStreaming, SendRefresh,
          RefreshConfirmed, RefreshDenied, RefreshFails, HeartbeatEnds
  <2>7. ASSUME NEW c \in wire, Drop(c) PROVE UNCHANGED <<holder, ttl>>
      BY <2>7 DEF Drop
  <2>8. UNCHANGED vars => UNCHANGED <<holder, ttl>>
      BY DEF vars
  <2> QED BY <2>2, <2>3, <2>4, <2>5, <2>6, <2>7, <2>8 DEF Next
<1> QED BY <1>1, LeaseInvariant, PTL DEF Spec, StaleOwnerHarmless

-----------------------------------------------------------------------------
(* The lease implements SingleOwner.                                         *)

\* In a state with at most one streaming worker, Active is that worker.
LEMMA ActiveIs ==
    MutualExclusion => \A w \in Worker : Streaming(w) => Active = w
BY Zenon DEF MutualExclusion, Active

\* Active is NoOne when nobody streams.
LEMMA ActiveNone == (\A w \in Worker : ~Streaming(w)) => Active = NoOne
BY Zenon DEF Active

\* A step that moves no worker in or out of the streaming phases is a stutter
\* of SingleOwner.
LEMMA SameActive ==
    ASSUME MutualExclusion, MutualExclusion',
           \A w \in Worker : Streaming(w)' = Streaming(w)
    PROVE  Active' = Active
<1>1. /\ \A w \in Worker : Streaming(w)' => Active' = w
      /\ (\A w \in Worker : ~Streaming(w)') => Active' = NoOne
    BY Zenon DEF Active, MutualExclusion
<1>2. CASE \E w \in Worker : Streaming(w)
  <2>1. PICK w \in Worker : Streaming(w)
      BY <1>2
  <2>2. Active = w /\ Active' = w
      BY <2>1, <1>1, ActiveIs
  <2> QED BY <2>2
<1>3. CASE \A w \in Worker : ~Streaming(w)
    BY <1>3, <1>1, ActiveNone
<1> QED BY <1>2, <1>3

\* A step that ends the streaming worker's phase leaves nobody streaming.
LEMMA StopsActive ==
    ASSUME MutualExclusion, NEW w \in Worker, Streaming(w),
           \A v \in Worker : Streaming(v)' => Streaming(v) /\ v # w
    PROVE  Active # NoOne /\ Active' = NoOne
<1>1. Active = w /\ w # NoOne
    BY ActiveIs, TimingAssumption
<1>2. \A v \in Worker : ~Streaming(v)'
    BY DEF MutualExclusion
<1>3. Active' = NoOne
    BY <1>2, Zenon DEF Active
<1> QED BY <1>1, <1>3

\* Every step of one worker is a step or a stutter of SingleOwner.
LEMMA StepRefines ==
    ASSUME IInv, IInv', MutualExclusion, MutualExclusion', NEW w \in Worker, Step(w)
    PROVE  [Abstract!Next]_<<Active, Spent>>
<1> TypeOK /\ TypeOK'
    BY DEF IInv
<1>1. CASE StartStreaming(w)
  <2>1. \A v \in Worker : ~Streaming(v)
      BY <1>1 DEF StartStreaming, IInv, FailsClosed, Timed, Streaming
  <2>2. Streaming(w)' /\ Active = NoOne /\ w \notin Spent /\ Spent' = Spent \cup {w}
      BY <1>1, <2>1, ActiveNone DEF StartStreaming, Goto, Streaming, Spent, TypeOK
  <2>3. Active' = w
      BY <2>2, Zenon DEF Active, MutualExclusion
  <2> QED BY <2>2, <2>3 DEF Abstract!Next, Abstract!Take
<1>2. CASE SendRefresh(w) \/ RefreshConfirmed(w) \/ RefreshDenied(w)
           \/ RefreshFails(w) \/ HeartbeatEnds(w) \/ Acquire(w)
           \/ Saved(w) \/ SendRelease(w)
  <2>1. \A v \in Worker : Streaming(v)' = Streaming(v)
      BY <1>2 DEF SendRefresh, RefreshConfirmed, RefreshDenied, RefreshFails,
          HeartbeatEnds, Acquire, Saved, SendRelease, Goto, Streaming, TypeOK
  <2>2. Spent' = Spent
      BY <1>2 DEF SendRefresh, RefreshConfirmed, RefreshDenied, RefreshFails,
          HeartbeatEnds, Acquire, Saved, SendRelease, Goto, Spent, TypeOK
  <2> QED BY <2>1, <2>2, SameActive
<1>3. CASE ResendRefresh(w) \/ ExecRefresh(w) \/ ExecRelease(w)
  <2>1. pc' = pc
      BY <1>3 DEF ResendRefresh, ExecRefresh, ExecRelease
  <2> QED BY <2>1, SameActive DEF Streaming, Spent
<1>4. ASSUME Streaming(w), ShutDown(w) \/ StreamFails(w) \/ Abandon(w)
      PROVE  [Abstract!Next]_<<Active, Spent>>
  <2>1. \A v \in Worker : Streaming(v)' => Streaming(v) /\ v # w
      BY <1>4 DEF ShutDown, StreamFails, Abandon, Goto, Streaming, TypeOK
  <2>2. Spent' = Spent
      BY <1>4 DEF ShutDown, StreamFails, Abandon, Goto, Streaming, Spent, TypeOK
  <2> QED BY <1>4, <2>1, <2>2, StopsActive DEF Abstract!Next, Abstract!Leave
<1>5. ASSUME ~Streaming(w), Abandon(w) \/ Refused(w)
      PROVE  [Abstract!Next]_<<Active, Spent>>
  <2>1. \A v \in Worker : Streaming(v)' = Streaming(v)
      BY <1>5 DEF Abandon, Refused, Goto, Streaming, TypeOK
  <2>2. Spent' = Spent \/ (w \notin Spent /\ Spent' = Spent \cup {w})
      BY <1>5 DEF Abandon, Refused, Goto, Streaming, Spent, TypeOK
  <2> QED BY <2>1, <2>2, SameActive DEF Abstract!Next, Abstract!Waste
<1>6. ShutDown(w) \/ StreamFails(w) => Streaming(w)
    BY DEF ShutDown, StreamFails
<1>7. Refused(w) => ~Streaming(w)
    BY DEF Refused, Streaming
<1> QED BY <1>1, <1>2, <1>3, <1>4, <1>5, <1>6, <1>7 DEF Step, Progress

\* The lease implements its abstract specification: exclusive, handed over
\* only through an idle moment, one use per token.
THEOREM LeaseRefines == Spec => ImplementsSingleOwner
<1>1. Init => Abstract!Init
  <2> SUFFICES ASSUME Init PROVE Abstract!Init
      OBVIOUS
  <2>1. Active = NoOne
      BY ActiveNone DEF Init, Streaming
  <2>2. Spent = {}
      BY DEF Init, Spent
  <2> QED BY <2>1, <2>2 DEF Abstract!Init
<1>2. ASSUME IInv, IInv', MutualExclusion, MutualExclusion', [Next]_vars
      PROVE  [Abstract!Next]_<<Active, Spent>>
  <2>1. ASSUME NEW w \in Worker, Step(w) PROVE [Abstract!Next]_<<Active, Spent>>
      BY <1>2, <2>1, StepRefines
  <2>2. ASSUME pc' = pc PROVE [Abstract!Next]_<<Active, Spent>>
      BY <1>2, <2>2, SameActive DEF Streaming, Spent
  <2>3. Tick \/ UNCHANGED vars \/ (\E c \in wire : Drop(c)) => pc' = pc
      BY DEF Tick, vars, Drop
  <2> QED BY <1>2, <2>1, <2>2, <2>3 DEF Next
<1> QED BY <1>1, <1>2, LeaseInvariant, LeaseExclusion, PTL
        DEF Spec, ImplementsSingleOwner, Abstract!Spec
=============================================================================
