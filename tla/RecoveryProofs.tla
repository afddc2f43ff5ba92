--------------------------- MODULE RecoveryProofs ---------------------------
(* Theorems about StreamRecovery for any threshold, any timeouts and any     *)
(* time an error takes to be recorded.  The breaker's count is the count of  *)
(* failures since the last comment, as long as the stream lives; from it     *)
(* follow when the circuit can be open and when a session can begin.  The    *)
(* length of a backoff is a power of the multiplier; what Power computes is  *)
(* shown by induction, from the least element of a set of naturals.          *)
EXTENDS StreamRecovery, WellFoundedInduction, TLAPS

\* The breaker counts the failures since the last comment.
CountsFailures ==
    /\ pc # "ended" => failures = quiet
    /\ pc # "ended" /\ state = "closed" => failures < Threshold

\* A session runs in a closed circuit or tests it; a call finds it decided.
StateMatchesStep ==
    /\ pc = "session" => state # "open"
    /\ pc \in {"call", "handle"} => state # "half_open"
    /\ state = "half_open" => successes < Successes

\* Whatever opened the circuit: enough failures in a row, or a failed test.
OpenForCause ==
    /\ state # "closed" => opened >= 1
    /\ pc # "ended" /\ state = "open" => quiet >= Threshold \/ opened >= 2
    /\ error = "circuit" => /\ pc \in {"handle", "ended"}
                            /\ quiet >= Threshold \/ opened >= 2

IInv == TypeOK /\ CountsFailures /\ StateMatchesStep /\ OpenForCause

\* The initial states satisfy the invariant.
LEMMA RecoveryInit == Init => IInv
  BY RecoveryAssumption DEF Init, IInv, TypeOK, CountsFailures, StateMatchesStep, OpenForCause, Error, Transient

\* The backoff of an opening is between the first one and the cap.
LEMMA LongerBackoffBounds ==
  ASSUME backoff \in Recovery .. MaxBackoff, NEW e
  PROVE  LongerBackoff(e) \in Recovery .. MaxBackoff
  <1>1. /\ Recovery \in Nat /\ Multiplier \in Nat /\ MaxBackoff \in Nat /\ backoff \in Nat
        /\ Multiplier >= 1 /\ backoff >= Recovery /\ Recovery <= MaxBackoff
        /\ Suggested(e) \in Nat
    BY RecoveryAssumption DEF Suggested
  <1>2. backoff * Multiplier \in Nat /\ backoff * Multiplier >= Recovery
    <2>1. \A b, m \in Nat : m >= 1 => b * m \in Nat /\ b * m >= b
      OBVIOUS
    <2> QED
      BY <1>1, <2>1
  <1> QED
    BY <1>1, <1>2 DEF LongerBackoff, Least, Greatest

\* A success keeps types and state, whoever reports it.
LEMMA SuccessInv ==
  ASSUME TypeOK, state # "open", state = "half_open" => successes < Successes, RecordSuccess
  PROVE  /\ state' \in {"closed", "half_open"} /\ (state' = "closed" \/ state = "half_open")
         /\ failures' = 0 /\ successes' \in 0 .. Successes
         /\ backoff' \in Recovery .. MaxBackoff
         /\ state' = "half_open" => successes' < Successes /\ backoff' = backoff
  BY RecoveryAssumption DEF TypeOK, RecordSuccess

\* A failure opens the circuit for cause.
LEMMA FailureInv ==
  ASSUME IInv, NEW e \in Error, Fail(e)
  PROVE  IInv'
  <1> USE RecoveryAssumption DEF IInv
  <1>1. /\ pc = "session" /\ pc' = "handle" /\ error' = e /\ e # "circuit"
        /\ quiet' = quiet + 1 /\ failures' = failures + 1 /\ successes' = 0 /\ elapsed' = 0
        /\ failures = quiet /\ state \in {"closed", "half_open"}
        /\ quiet \in Nat /\ opened \in Nat
    BY DEF Fail, RecordFailure, TypeOK, CountsFailures, StateMatchesStep, Error, Transient
  <1>2. CASE state = "half_open" \/ failures + 1 >= Threshold
    <2>1. /\ state' = "open" /\ opened' = opened + 1
          /\ backoff' \in Recovery .. MaxBackoff
      BY <1>2, LongerBackoffBounds DEF Fail, RecordFailure, TypeOK
    <2>2. quiet' >= Threshold \/ opened' >= 2
      BY <1>1, <1>2, <2>1 DEF OpenForCause
    <2> QED
      BY <1>1, <2>1, <2>2 DEF TypeOK, CountsFailures, StateMatchesStep, OpenForCause
  <1>3. CASE ~(state = "half_open" \/ failures + 1 >= Threshold)
    <2>1. state' = "closed" /\ opened' = opened /\ backoff' = backoff
      BY <1>1, <1>3 DEF Fail, RecordFailure
    <2> QED
      BY <1>1, <1>3, <2>1 DEF TypeOK, CountsFailures, StateMatchesStep, OpenForCause
  <1> QED
    BY <1>2, <1>3

\* Every step keeps the invariant.
LEMMA RecoveryStep == IInv /\ [Next]_vars => IInv'
  <1> SUFFICES ASSUME IInv, [Next]_vars PROVE IInv'
    OBVIOUS
  <1> USE RecoveryAssumption DEF IInv
  <1>1. CASE Admit \/ Refuse
    BY <1>1 DEF Admit, Refuse, breaker, TypeOK, CountsFailures, StateMatchesStep, OpenForCause
  <1>2. CASE Progress
    <2>1. pc = "session" /\ quiet' = 0 /\ UNCHANGED <<elapsed, pc, error>>
          /\ opened' = (IF state' = "closed" THEN 0 ELSE opened)
      BY <1>2 DEF Progress
    <2>2. /\ state' \in {"closed", "half_open"} /\ (state' = "closed" \/ state = "half_open")
          /\ failures' = 0 /\ successes' \in 0 .. Successes
          /\ backoff' \in Recovery .. MaxBackoff
          /\ state' = "half_open" => successes' < Successes /\ backoff' = backoff
      BY <1>2, <2>1, SuccessInv DEF Progress, StateMatchesStep
    <2> QED
      BY <2>1, <2>2 DEF TypeOK, CountsFailures, StateMatchesStep, OpenForCause
  <1>3. ASSUME NEW e \in Error, Fail(e)
        PROVE  IInv'
    BY <1>3, FailureInv
  <1>4. CASE Resume
    <2>1. elapsed' \in Nat
      BY <1>4 DEF Resume
    <2> QED
      BY <1>4, <2>1 DEF Resume, breaker, Transient, TypeOK, CountsFailures, StateMatchesStep, OpenForCause
  <1>5. CASE GiveUp \/ RecordingFails
    BY <1>5 DEF GiveUp, RecordingFails, breaker, TypeOK, CountsFailures, StateMatchesStep, OpenForCause
  <1>6. CASE Stop
    <2>1. /\ pc' = "ended" /\ error' = "stopped" /\ UNCHANGED <<elapsed, quiet>>
          /\ opened' = (IF state' = "closed" THEN 0 ELSE opened)
      BY <1>6 DEF Stop
    <2>2. CASE UNCHANGED breaker
      BY <2>1, <2>2 DEF breaker, TypeOK, CountsFailures, StateMatchesStep, OpenForCause
    <2>3. CASE pc = "session" /\ RecordSuccess
      <3>1. /\ state' \in {"closed", "half_open"} /\ (state' = "closed" \/ state = "half_open")
            /\ failures' = 0 /\ successes' \in 0 .. Successes
            /\ backoff' \in Recovery .. MaxBackoff
            /\ state' = "half_open" => successes' < Successes /\ backoff' = backoff
        BY <2>3, SuccessInv DEF StateMatchesStep
      <3> QED
        BY <2>1, <3>1 DEF TypeOK, CountsFailures, StateMatchesStep, OpenForCause
    <2> QED
      BY <1>6, <2>2, <2>3 DEF Stop
  <1>7. CASE UNCHANGED vars
    BY <1>7 DEF vars, breaker, TypeOK, CountsFailures, StateMatchesStep, OpenForCause
  <1> QED
    BY <1>1, <1>2, <1>3, <1>4, <1>5, <1>6, <1>7 DEF Next

\* The invariant holds in every reachable state.
THEOREM RecoveryInvariant == Spec => []IInv
  BY RecoveryInit, RecoveryStep, PTL DEF Spec

\* Type correctness, for any settings of the breaker.
THEOREM RecoveryTypes == Spec => []TypeOK
  BY RecoveryInvariant, PTL DEF IInv

\* The circuit ends a stream only after Threshold failures in a row or a failed
\* test (circuit_breaker.py, _record_failure; worker.py records the success of
\* each comment), for any settings of the breaker.
THEOREM BlipsSurvived == Spec => []SurvivesBlips
  <1>1. IInv => SurvivesBlips
    BY DEF IInv, OpenForCause, SurvivesBlips
  <1> QED
    BY <1>1, RecoveryInvariant, PTL

-----------------------------------------------------------------------------
(* The length of a backoff.                                                  *)

\* The naturals have no infinite descent.
LEMMA NatDescent == IsWellFoundedOn({ss \in Nat \X Nat : ss[1] < ss[2]}, Nat)
  BY NatLessThanWellFounded DEF OpToRel

\* A set of naturals that is not empty has a least element.
LEMMA LeastNatural ==
  ASSUME NEW S \in SUBSET Nat, S # {}
  PROVE  \E m \in S : \A k \in S : m <= k
  <1> DEFINE R == {ss \in Nat \X Nat : ss[1] < ss[2]}
  <1>1. \E m \in S : \A k \in S : <<k, m>> \notin R
    <2> HIDE DEF R
    <2>1. IsWellFoundedOn(R, Nat)
      BY NatDescent DEF R
    <2> QED
      BY <2>1, WFMin
  <1>2. PICK m \in S : \A k \in S : <<k, m>> \notin R
    BY <1>1
  <1>3. ASSUME NEW k \in S PROVE m <= k
    <2>1. k \in Nat /\ m \in Nat /\ <<k, m>> \notin R
      BY <1>2
    <2> QED
      BY <2>1
  <1> QED
    BY <1>2, <1>3

\* A set that contains 0, and with a number the next one, contains every
\* number.
LEMMA NatSetInduction ==
  ASSUME NEW S, 0 \in S, \A n \in Nat : n \in S => n + 1 \in S
  PROVE  Nat \subseteq S
  <1> SUFFICES ASSUME Nat \ S # {} PROVE FALSE
    OBVIOUS
  <1>1. PICK m \in Nat \ S : \A k \in Nat \ S : m <= k
    BY LeastNatural
  <1>2. m - 1 \in Nat /\ m - 1 \notin Nat \ S
    BY <1>1
  <1> QED
    BY <1>1, <1>2

\* The powers up to n, as a function.
Ladder(n) ==
    {g \in [0 .. n -> Nat] : g[0] = 1 /\ \A i \in 1 .. n : g[i] = Multiplier * g[i - 1]}

LEMMA LaddersAgree ==
  ASSUME NEW m \in Nat, NEW n \in Nat, NEW g \in Ladder(m), NEW h \in Ladder(n)
  PROVE  \A i \in Nat : i <= m /\ i <= n => g[i] = h[i]
  <1> DEFINE Same == {i \in Nat : i <= m /\ i <= n => g[i] = h[i]}
  <1>1. 0 \in Same
    BY DEF Ladder
  <1>2. ASSUME NEW i \in Nat, i \in Same PROVE i + 1 \in Same
    <2> SUFFICES ASSUME i + 1 <= m, i + 1 <= n PROVE g[i + 1] = h[i + 1]
      OBVIOUS
    <2>1. g[i] = h[i] /\ i + 1 \in 1 .. m /\ i + 1 \in 1 .. n /\ (i + 1) - 1 = i
      BY <1>2
    <2> QED
      BY <2>1 DEF Ladder
  <1>3. Nat \subseteq Same
    <2> HIDE DEF Same
    <2> QED
      BY <1>1, <1>2, NatSetInduction
  <1> QED
    BY <1>3

LEMMA LaddersExist == \A n \in Nat : Ladder(n) # {}
  <1> DEFINE Built == {n \in Nat : Ladder(n) # {}}
  <1> USE RecoveryAssumption
  <1>1. 0 \in Built
    <2>1. [i \in 0 .. 0 |-> 1] \in Ladder(0)
      BY DEF Ladder
    <2> QED
      BY <2>1
  <1>2. ASSUME NEW n \in Nat, n \in Built PROVE n + 1 \in Built
    <2>1. PICK g : g \in Ladder(n)
      BY <1>2
    <2> DEFINE h == [i \in 0 .. n + 1 |-> IF i = n + 1 THEN Multiplier * g[n] ELSE g[i]]
    <2>2. g \in [0 .. n -> Nat] /\ g[0] = 1 /\ \A i \in 1 .. n : g[i] = Multiplier * g[i - 1]
      BY <2>1 DEF Ladder
    <2>3. Multiplier * g[n] \in Nat
      <3>1. g[n] \in Nat /\ Multiplier \in Nat
        BY <2>2
      <3> QED
        BY <3>1
    <2>4. h \in [0 .. n + 1 -> Nat]
      BY <2>2, <2>3
    <2>5. h[0] = 1
      BY <2>2
    <2>6. ASSUME NEW i \in 1 .. n + 1 PROVE h[i] = Multiplier * h[i - 1]
      <3>1. CASE i = n + 1
        BY <3>1
      <3>2. CASE i # n + 1
        BY <3>2, <2>2
      <3> QED
        BY <3>1, <3>2
    <2>7. h \in Ladder(n + 1)
      BY <2>4, <2>5, <2>6 DEF Ladder
    <2> QED
      BY <2>7
  <1>3. Nat \subseteq Built
    <2> HIDE DEF Built
    <2> QED
      BY <1>1, <1>2, NatSetInduction
  <1> QED
    BY <1>3

\* Power is the function its recursive definition describes.
LEMMA PowerDef ==
  /\ \A n \in Nat : Power[n] \in Nat \ {0}
  /\ Power[0] = 1 /\ \A n \in Nat : Power[n + 1] = Multiplier * Power[n]
  <1> DEFINE Top(n) == (CHOOSE g \in Ladder(n) : TRUE)
             P == [n \in Nat |-> Top(n)[n]]
  <1>1. \A n \in Nat : Top(n) \in Ladder(n)
    BY LaddersExist
  <1>2. P[0] = 1
    <2> HIDE DEF Top
    <2> QED
      BY <1>1 DEF Ladder
  <1>3. ASSUME NEW n \in Nat PROVE P[n + 1] = Multiplier * P[n]
    <2> DEFINE g == Top(n + 1)
               h == Top(n)
    <2>1. g \in Ladder(n + 1) /\ h \in Ladder(n)
      BY <1>1
    <2> HIDE DEF g, h
    <2>2. n <= n + 1 /\ n <= n
      OBVIOUS
    <2>3. g[n] = h[n]
      BY <2>1, <2>2, LaddersAgree
    <2>4. g[n + 1] = Multiplier * g[n]
      <3>1. n + 1 \in 1 .. n + 1 /\ (n + 1) - 1 = n
        OBVIOUS
      <3> QED
        BY <2>1, <3>1 DEF Ladder
    <2> QED
      BY <2>3, <2>4 DEF g, h
  <1>9. P = [n \in Nat |-> P[n]]
    OBVIOUS
  <1> HIDE DEF P
  <1>4. P = [n \in Nat |-> IF n = 0 THEN 1 ELSE Multiplier * P[n - 1]]
    <2>1. ASSUME NEW n \in Nat, n # 0 PROVE P[n] = Multiplier * P[n - 1]
      <3>1. n - 1 \in Nat /\ (n - 1) + 1 = n
        BY <2>1
      <3> QED
        BY <1>3, <3>1
    <2> QED
      BY <1>2, <1>9, <2>1
  <1>5. Power = [n \in Nat |-> IF n = 0 THEN 1 ELSE Multiplier * Power[n - 1]]
    BY <1>4, Zenon DEF Power
  <1>6. Power[0] = 1 /\ \A n \in Nat : Power[n + 1] = Multiplier * Power[n]
    <2> HIDE DEF Top
    <2>1. \A n \in Nat : Power[n] = IF n = 0 THEN 1 ELSE Multiplier * Power[n - 1]
      BY <1>5
    <2>2. ASSUME NEW n \in Nat PROVE n + 1 \in Nat /\ n + 1 # 0 /\ (n + 1) - 1 = n
      OBVIOUS
    <2> QED
      BY <2>1, <2>2
  <1> DEFINE Typed == {n \in Nat : Power[n] \in Nat \ {0}}
  <1>7. Nat \subseteq Typed
    <2>1. Multiplier \in Nat \ {0} /\ \A m, n \in Nat \ {0} : m * n \in Nat \ {0}
      BY RecoveryAssumption
    <2>2. 0 \in Typed /\ \A n \in Nat : n \in Typed => n + 1 \in Typed
      BY <1>6, <2>1
    <2> HIDE DEF Typed
    <2> QED
      BY <2>2, NatSetInduction
  <1> QED
    BY <1>6, <1>7

\* One opening more multiplies the backoff, below the cap and at the cap,
\* whatever the error suggests.
LEMMA BackoffGrows ==
  ASSUME NEW n \in Nat, NEW e, backoff = Least(Recovery * Power[n], MaxBackoff)
  PROVE  LongerBackoff(e) = Least(Recovery * Power[n + 1], MaxBackoff)
  <1> DEFINE b == Recovery * Power[n]
  <1>1. /\ Recovery \in Nat \ {0} /\ Multiplier \in Nat \ {0} /\ MaxBackoff \in Nat
        /\ Recovery <= MaxBackoff /\ Power[n] \in Nat \ {0}
        /\ Suggested(e) \in Nat /\ Suggested(e) <= Multiplier * Recovery
    BY RecoveryAssumption, PauseAssumption, PowerDef DEF Suggested
  <1>2. b \in Nat /\ b >= Recovery /\ Recovery * Power[n + 1] = b * Multiplier
    <2>1. \A r, p, m \in Nat \ {0} : r * p \in Nat /\ r * p >= r /\ r * (m * p) = (r * p) * m
      OBVIOUS
    <2>2. Power[n + 1] = Multiplier * Power[n]
      BY PowerDef
    <2> QED
      BY <1>1, <2>1, <2>2
  <1> HIDE DEF b
  <1>3. \A x, y, m \in Nat : x <= y => x * m \in Nat /\ y * m \in Nat /\ x * m <= y * m
    OBVIOUS
  <1>4. Recovery * Multiplier = Multiplier * Recovery
    BY <1>1
  <1>5. CASE b <= MaxBackoff
    <2>1. backoff = b
      BY <1>1, <1>2, <1>5 DEF Least, b
    <2>2. b * Multiplier \in Nat /\ Recovery * Multiplier <= b * Multiplier
      BY <1>1, <1>2, <1>3
    <2>3. Greatest(backoff * Multiplier, Suggested(e)) = b * Multiplier
      BY <1>1, <1>4, <2>1, <2>2 DEF Greatest
    <2> QED
      BY <1>2, <2>3 DEF LongerBackoff
  <1>6. CASE ~(b <= MaxBackoff)
    <2>1. backoff = MaxBackoff /\ MaxBackoff < b
      BY <1>1, <1>2, <1>6 DEF Least, b
    <2>2. \A x, m \in Nat \ {0} : x <= x * m
      OBVIOUS
    <2>3. /\ MaxBackoff * Multiplier \in Nat /\ b * Multiplier \in Nat
          /\ MaxBackoff <= MaxBackoff * Multiplier /\ b <= b * Multiplier
      BY <1>1, <1>2, <1>3, <2>1, <2>2
    <2>4. Least(b * Multiplier, MaxBackoff) = MaxBackoff
      BY <1>1, <1>2, <2>1, <2>3 DEF Least
    <2>5. LongerBackoff(e) = MaxBackoff
      BY <1>1, <2>1, <2>3 DEF LongerBackoff, Least, Greatest
    <2> QED
      BY <1>2, <2>4, <2>5
  <1> QED
    BY <1>5, <1>6

\* A closed circuit has forgotten how often it was open.
BackoffCounts == BackoffLaw /\ (state = "closed" => opened = 0)

\* A success keeps the law, whoever reports it.
LEMMA SuccessCounts ==
  ASSUME IInv, state # "open", BackoffCounts, RecordSuccess,
         opened' = IF state' = "closed" THEN 0 ELSE opened
  PROVE  BackoffCounts'
  BY DEF IInv, TypeOK, BackoffCounts, BackoffLaw, RecordSuccess

\* Every step keeps the law.
LEMMA BackoffStep == IInv /\ BackoffCounts /\ [Next]_vars => BackoffCounts'
  <1> SUFFICES ASSUME IInv, BackoffCounts, [Next]_vars PROVE BackoffCounts'
    OBVIOUS
  <1>1. ASSUME NEW e \in Error, Fail(e)
        PROVE  BackoffCounts'
    <2>1. RecordFailure(e) /\ opened' = (IF state' = "open" THEN opened + 1 ELSE opened)
      BY <1>1 DEF Fail
    <2>2. opened \in Nat /\ state \in {"closed", "half_open"}
      BY <1>1 DEF Fail, IInv, TypeOK, StateMatchesStep
    <2>3. backoff = Least(Recovery * Power[opened], MaxBackoff)
      <3>1. CASE state = "closed"
        <4>1. backoff = Recovery /\ opened = 0 /\ Power[0] = 1
          BY <3>1, PowerDef DEF BackoffCounts, BackoffLaw
        <4>2. /\ Recovery \in Nat /\ MaxBackoff \in Nat /\ Recovery <= MaxBackoff
              /\ Recovery * 1 = Recovery
          BY RecoveryAssumption
        <4>3. Recovery * Power[opened] = Recovery
          BY <4>1, <4>2
        <4> QED
          BY <4>1, <4>2, <4>3 DEF Least
      <3>2. CASE state = "half_open"
        BY <3>2 DEF BackoffCounts, BackoffLaw
      <3> QED
        BY <2>2, <3>1, <3>2
    <2>4. LongerBackoff(e) = Least(Recovery * Power[opened + 1], MaxBackoff)
      BY <2>2, <2>3, BackoffGrows
    <2>5. CASE state' = "open"
      <3>1. backoff' = LongerBackoff(e)
        BY <2>1, <2>2, <2>5 DEF RecordFailure
      <3> QED
        BY <2>1, <2>4, <2>5, <3>1 DEF BackoffCounts, BackoffLaw
    <2>6. CASE state' # "open"
      <3>1. state' = state /\ backoff' = backoff /\ opened' = opened
        BY <2>1, <2>6 DEF RecordFailure
      <3> QED
        BY <3>1 DEF BackoffCounts, BackoffLaw
    <2> QED
      BY <2>5, <2>6
  <1>2. CASE Progress
    BY <1>2, SuccessCounts DEF Progress, IInv, StateMatchesStep
  <1>3. CASE Stop
    <2>1. CASE pc = "session" /\ RecordSuccess
      BY <1>3, <2>1, SuccessCounts DEF Stop, IInv, StateMatchesStep
    <2>2. CASE UNCHANGED breaker
      BY <1>3, <2>2 DEF Stop, breaker, BackoffCounts, BackoffLaw
    <2> QED
      BY <1>3, <2>1, <2>2 DEF Stop
  <1>4. CASE Admit
    BY <1>4 DEF Admit, BackoffCounts, BackoffLaw
  <1>5. CASE Refuse \/ Resume \/ GiveUp \/ RecordingFails \/ UNCHANGED vars
    BY <1>5 DEF Refuse, Resume, GiveUp, RecordingFails, vars, breaker, BackoffCounts, BackoffLaw
  <1> QED
    BY <1>1, <1>2, <1>3, <1>4, <1>5 DEF Next

\* A circuit that opened for the n-th time in a row waits for the recovery
\* timeout times the n-th power of the multiplier, up to the cap, and starts
\* afresh once it has closed (circuit_breaker.py, _record_failure and
\* _record_success), for any settings of the breaker whose first backoff is no
\* shorter than the pauses that error_handler.py suggests.
THEOREM BackoffFollowsLaw == Spec => []BackoffLaw
  <1>1. Init => BackoffCounts
    BY DEF Init, BackoffCounts, BackoffLaw
  <1>2. BackoffCounts => BackoffLaw
    BY DEF BackoffCounts
  <1> QED
    BY <1>1, <1>2, BackoffStep, RecoveryInvariant, PTL DEF Spec
\* After Threshold failures in a row Reddit is left alone for the recovery
\* timeout doubled once for each opening of the circuit, for any settings of
\* the breaker: a call that goes through finds the circuit open, its backoff
\* over, and that backoff what the law says.
THEOREM UpstreamSpared == Spec => SparesUpstream
  <1>1. IInv /\ BackoffCounts /\ [Next]_vars =>
           [ (pc = "call" /\ pc' = "session" /\ quiet >= Threshold)
               => /\ opened >= 1
                  /\ elapsed >= Least(Recovery * Power[opened], MaxBackoff) ]_vars
    <2> SUFFICES ASSUME IInv, BackoffCounts, Next, pc = "call", pc' = "session", quiet >= Threshold
                 PROVE  opened >= 1 /\ elapsed >= Least(Recovery * Power[opened], MaxBackoff)
      OBVIOUS
    <2>1. Admit
      BY DEF Next, Refuse, Progress, Fail, Resume, GiveUp, RecordingFails, Stop
    <2>2. state = "open"
      BY RecoveryAssumption DEF IInv, TypeOK, CountsFailures, StateMatchesStep
    <2>3. elapsed >= backoff /\ opened >= 1
      BY <2>1, <2>2 DEF Admit, IInv, OpenForCause
    <2>4. backoff = Least(Recovery * Power[opened], MaxBackoff)
      BY <2>2 DEF BackoffCounts, BackoffLaw
    <2> QED
      BY <2>3, <2>4
  <1>2. Init => BackoffCounts
    BY DEF Init, BackoffCounts, BackoffLaw
  <1> QED
    BY <1>1, <1>2, BackoffStep, RecoveryInvariant, PTL DEF SparesUpstream, Spec
=============================================================================
