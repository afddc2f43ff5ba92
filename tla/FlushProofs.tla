----------------------------- MODULE FlushProofs ----------------------------
(* Theorems about CheckpointFlush for any instances and any bounds.  A flush *)
(* that nothing has overtaken holds the newest checkpoint of all flushes that *)
(* are about to write: a flush that read a newer one did so as the owner, or *)
(* beside it in the same process.  During a shutdown that nothing impedes,   *)
(* every flush that is about to write holds the last checkpoint.             *)
EXTENDS CheckpointFlush, TLAPS

Undisturbed(f) == step[f] = "upsert" /\ f \notin overtaken

NewestInFlight ==
    \A f \in Flush : Undisturbed(f) =>
        /\ owner \in {f[1], None}
        /\ durable <= seen[f]
        /\ \A g \in Flush : step[g] = "upsert" => seen[g] <= seen[f]

NothingAhead == durable <= hot /\ \A f \in Flush : seen[f] <= hot

\* The final flush runs only in its phase of the shutdown.
FinalInItsPhase == \A i \in Instance : step[<<i, "final">>] # "idle" => phase[i] = "final"

Unimpeded(i) == Closing(i) /\ owner = i /\ i \notin impeded

LastCheckpoint ==
    \A i \in Instance : Unimpeded(i) =>
        /\ status \notin {"starting", "active"}
        /\ step[<<i, "final">>] # "prune"
        /\ \A g \in Flush : step[g] = "upsert" => seen[g] = hot
        /\ phase[i] = "stop" => durable = hot

IInv == TypeOK /\ NothingAhead /\ NewestInFlight /\ FinalInItsPhase /\ LastCheckpoint

\* The initial states satisfy the invariant.
LEMMA FlushInit == Init => IInv
  BY FlushAssumption DEF Init, IInv, TypeOK, NothingAhead, NewestInFlight, Undisturbed,
                         FinalInItsPhase, LastCheckpoint, Unimpeded, Closing, Flush

\* A flush is one of an instance.
LEMMA FlushPairs == \A f \in Flush : f[1] \in Instance /\ f[2] \in {"loop", "final"} /\ f = <<f[1], f[2]>>
  BY DEF Flush

\* Every step of the stream's life, of a flush and of a shutdown keeps the types.
LEMMA FlushTypes == TypeOK /\ [Next]_vars => TypeOK'
  <1> SUFFICES ASSUME TypeOK, [Next]_vars PROVE TypeOK'
    OBVIOUS
  <1> USE FlushAssumption, FlushPairs DEF TypeOK, stream, flush, vars
  <1>1. CASE End \/ Delete \/ Unindex
    BY <1>1 DEF End, Delete, Unindex
  <1>2. ASSUME NEW i \in Instance, Claim(i) \/ Activate(i) \/ SaveCheckpoint(i) \/ Heartbeat(i)
        PROVE  TypeOK'
    BY <1>2 DEF Claim, Activate, SaveCheckpoint, Heartbeat
  <1>3. ASSUME NEW i \in Instance, StartFinalFlush(i) \/ LeaveWorker(i) \/ StopFlusher(i) \/ Crash(i)
        PROVE  TypeOK'
    BY <1>3 DEF StartFinalFlush, LeaveWorker, StopFlusher, Crash, Drop
  <1>4. ASSUME NEW f \in Flush, FlushStep(f)
        PROVE  TypeOK'
    <2>1. CASE ReadIndex(f)
      BY <2>1 DEF ReadIndex
    <2>2. CASE Fetch(f)
      BY <2>2 DEF Fetch, Found, Returns
    <2>3. CASE ReadsNothing(f) \/ Prune(f) \/ Upsert(f) \/ FlushFails(f)
      BY <2>3 DEF ReadsNothing, Prune, Upsert, FlushFails, Returns
    <2> QED
      BY <1>4, <2>1, <2>2, <2>3 DEF FlushStep
  <1>5. CASE UNCHANGED vars
    BY <1>5
  <1> QED
    BY <1>1, <1>2, <1>3, <1>4, <1>5 DEF Next

\* Neither a flush nor Postgres is ahead of Redis, and every step keeps an
\* undisturbed flush the newest one.
LEMMA FlushNewest == IInv /\ [Next]_vars => NothingAhead' /\ NewestInFlight'
  <1> SUFFICES ASSUME IInv, [Next]_vars PROVE NothingAhead' /\ NewestInFlight'
    OBVIOUS
  <1> USE FlushAssumption, FlushPairs DEF IInv, TypeOK, NothingAhead, NewestInFlight, Undisturbed,
                                          stream, flush, vars
  <1>1. CASE End \/ Delete \/ Unindex
    BY <1>1 DEF End, Delete, Unindex
  <1>2. ASSUME NEW k \in Instance, Claim(k)
        PROVE  NothingAhead' /\ NewestInFlight'
    <2>1. ASSUME NEW f \in Flush, Undisturbed(f)' PROVE f[1] = k /\ Undisturbed(f)
      BY <1>2, <2>1 DEF Claim
    <2> QED
      BY <1>2, <2>1 DEF Claim
  <1>3. ASSUME NEW k \in Instance, Activate(k) \/ SaveCheckpoint(k) \/ Heartbeat(k)
        PROVE  NothingAhead' /\ NewestInFlight'
    BY <1>3 DEF Activate, SaveCheckpoint, Heartbeat
  <1>4. ASSUME NEW k \in Instance, StartFinalFlush(k) \/ LeaveWorker(k)
        PROVE  NothingAhead' /\ NewestInFlight'
    BY <1>4 DEF StartFinalFlush, LeaveWorker
  <1>5. ASSUME NEW k \in Instance, StopFlusher(k) \/ Crash(k)
        PROVE  NothingAhead' /\ NewestInFlight'
    <2>1. UNCHANGED <<owner, durable, hot>>
      BY <1>5 DEF StopFlusher, Crash, Drop
    <2>2. \A f \in Flush : seen'[f] <= hot
      BY <1>5 DEF StopFlusher, Crash, Drop
    <2>3. \A f \in Flush : step'[f] = "upsert" =>
             /\ step[f] = "upsert" /\ seen'[f] = seen[f]
             /\ f \notin overtaken' => f \notin overtaken
      BY <1>5 DEF StopFlusher, Crash, Drop
    <2> QED
      BY <2>1, <2>2, <2>3
  <1>6. ASSUME NEW f \in Flush, Fetch(f)
        PROVE  NothingAhead' /\ NewestInFlight'
    <2>1. UNCHANGED <<owner, durable, hot>>
      BY <1>6 DEF Fetch
    <2>2. \A g \in Flush \ {f} : seen'[g] = seen[g] /\ step'[g] = step[g]
      BY <1>6 DEF Fetch, Found, Returns
    <2>3. \A g \in Flush \ {f} : g \notin overtaken' => g \notin overtaken
      BY <1>6 DEF Fetch, Found, Returns
    <2>4. seen'[f] <= hot
      BY <1>6 DEF Fetch, Found, Returns
    <2>5. step'[f] = "upsert" =>
             /\ seen'[f] = hot /\ owner = f[1]
             /\ \A g \in Flush \ {f} : step[g] = "upsert" /\ g[1] = f[1] => g \in overtaken'
      BY <1>6 DEF Fetch, Found, Returns
    <2>6. NothingAhead'
      BY <2>1, <2>2, <2>4
    <2>7. ASSUME NEW g \in Flush, Undisturbed(g)'
          PROVE  /\ owner' \in {g[1], None}
                 /\ durable' <= seen'[g]
                 /\ \A h \in Flush : step'[h] = "upsert" => seen'[h] <= seen'[g]
      <3>1. CASE g = f
        BY <3>1, <2>1, <2>2, <2>5, <2>7
      <3>2. CASE g # f /\ step'[f] # "upsert"
        BY <3>2, <2>1, <2>2, <2>3, <2>7
      <3>3. CASE g # f /\ step'[f] = "upsert"
        <4>1. Undisturbed(g)
          BY <3>3, <2>2, <2>3, <2>7
        <4>2. owner \in {g[1], None} /\ owner = f[1]
          BY <3>3, <4>1, <2>5
        <4>3. g[1] = f[1]
          BY <4>2
        <4> QED
          BY <4>1, <4>3, <3>3, <2>5, <2>7
      <3> QED
        BY <3>1, <3>2, <3>3
    <2> QED
      BY <2>6, <2>7
  <1>7. ASSUME NEW f \in Flush, ReadIndex(f) \/ ReadsNothing(f) \/ Prune(f) \/ Upsert(f) \/ FlushFails(f)
        PROVE  NothingAhead' /\ NewestInFlight'
    <2>1. owner' = owner /\ hot' = hot /\ durable' \in {durable, seen[f]}
      BY <1>7 DEF ReadIndex, ReadsNothing, Prune, Upsert, FlushFails
    <2>2. durable' # durable => step[f] = "upsert" /\ durable' = seen[f]
      BY <1>7 DEF ReadIndex, ReadsNothing, Prune, Upsert, FlushFails
    <2>3. \A g \in Flush : step'[g] = "upsert" =>
             /\ step[g] = "upsert" /\ seen'[g] = seen[g]
             /\ g \notin overtaken' => g \notin overtaken
      BY <1>7 DEF ReadIndex, ReadsNothing, Prune, Upsert, FlushFails, Returns
    <2>4. \A g \in Flush : seen'[g] <= hot
      BY <1>7 DEF ReadIndex, ReadsNothing, Prune, Upsert, FlushFails, Returns
    <2>5. NothingAhead'
      BY <2>1, <2>4
    <2>6. NewestInFlight'
      BY <2>1, <2>2, <2>3
    <2> QED
      BY <2>5, <2>6
  <1>8. CASE UNCHANGED vars
    BY <1>8
  <1> QED
    BY <1>1, <1>2, <1>3, <1>4, <1>5, <1>6, <1>7, <1>8 DEF Next, FlushStep

\* The final flush starts in its phase of the shutdown, and ends it.
LEMMA FlushFinal == IInv /\ [Next]_vars => FinalInItsPhase'
  <1> SUFFICES ASSUME IInv, [Next]_vars, NEW i \in Instance, step'[<<i, "final">>] # "idle"
               PROVE  phase'[i] = "final"
    BY DEF FinalInItsPhase
  <1> DEFINE f == <<i, "final">>
  <1>0. f \in Flush /\ f[1] = i /\ f[2] = "final"
    BY DEF Flush
  <1> HIDE DEF f
  <1> USE FlushAssumption, FlushPairs DEF IInv, TypeOK, FinalInItsPhase, stream, flush, vars
  <1>1. CASE End \/ Delete \/ Unindex
    BY <1>1 DEF End, Delete, Unindex
  <1>2. ASSUME NEW k \in Instance, Claim(k) \/ Activate(k) \/ SaveCheckpoint(k) \/ Heartbeat(k)
        PROVE  phase'[i] = "final"
    BY <1>2 DEF Claim, Activate, SaveCheckpoint, Heartbeat
  <1>3. ASSUME NEW k \in Instance, StartFinalFlush(k) \/ LeaveWorker(k)
        PROVE  phase'[i] = "final"
    BY <1>3 DEF StartFinalFlush, LeaveWorker, Up
  <1>4. ASSUME NEW k \in Instance, StopFlusher(k) \/ Crash(k)
        PROVE  phase'[i] = "final"
    <2>1. step'[f] # "idle"
      BY DEF f
    <2>2. step[f] # "idle" /\ k # i
      BY <1>0, <1>4, <2>1 DEF StopFlusher, Crash, Drop
    <2>3. phase[i] = "final"
      BY <2>2 DEF f
    <2> QED
      BY <1>4, <2>2, <2>3 DEF StopFlusher, Crash, Drop
  <1>5. ASSUME NEW g \in Flush, FlushStep(g)
        PROVE  phase'[i] = "final"
    <2>1. step'[f] # "idle"
      BY DEF f
    <2>2. CASE g = f
      <3>1. phase[i] = "final"
        BY <1>0, <1>5, <2>1, <2>2 DEF f, FlushStep, ReadIndex, ReadsNothing, Fetch, Prune, Upsert, FlushFails, Runs
      <3>2. ~Returns(g)
        BY <2>1, <2>2 DEF Returns
      <3>3. phase' = phase
        BY <1>5, <3>2 DEF FlushStep, ReadIndex, ReadsNothing, Fetch, Found, Prune, Upsert, FlushFails
      <3> QED
        BY <3>1, <3>3
    <2>3. CASE g # f
      <3>1. step'[f] = step[f]
        BY <1>0, <1>5, <2>3 DEF FlushStep, ReadIndex, ReadsNothing, Fetch, Found, Prune, Upsert, FlushFails, Returns
      <3>2. phase[i] = "final"
        BY <2>1, <3>1 DEF f
      <3>3. g[2] = "final" => g[1] # i
        BY <1>0, <2>3 DEF f
      <3>4. phase' = phase \/ (g[2] = "final" /\ phase' = [phase EXCEPT ![g[1]] = "stop"])
        BY <1>5 DEF FlushStep, ReadIndex, ReadsNothing, Fetch, Found, Prune, Upsert, FlushFails, Returns
      <3> QED
        BY <3>2, <3>3, <3>4
    <2> QED
      BY <2>2, <2>3
  <1>6. CASE UNCHANGED vars
    BY <1>6
  <1> QED
    BY <1>1, <1>2, <1>3, <1>4, <1>5, <1>6 DEF Next

\* What a shutdown needs stays true until flusher.stop, unless it is impeded.
LEMMA FlushLast == IInv /\ [Next]_vars => LastCheckpoint'
  <1> SUFFICES ASSUME IInv, [Next]_vars, NEW i \in Instance, Unimpeded(i)'
               PROVE  /\ status' \notin {"starting", "active"}
                      /\ step'[<<i, "final">>] # "prune"
                      /\ \A g \in Flush : step'[g] = "upsert" => seen'[g] = hot'
                      /\ phase'[i] = "stop" => durable' = hot'
    BY DEF LastCheckpoint
  <1> DEFINE f == <<i, "final">>
             Kept == /\ status' \notin {"starting", "active"}
                     /\ step'[f] # "prune"
                     /\ \A g \in Flush : step'[g] = "upsert" => seen'[g] = hot'
                     /\ phase'[i] = "stop" => durable' = hot'
  <1>0. /\ f \in Flush /\ f[1] = i /\ f[2] = "final"
        /\ step[f] # "idle" => phase[i] = "final"
        /\ Unimpeded(i) => /\ status \notin {"starting", "active"}
                           /\ step[f] # "prune"
                           /\ \A g \in Flush : step[g] = "upsert" => seen[g] = hot
                           /\ phase[i] = "stop" => durable = hot
    BY DEF Flush, IInv, FinalInItsPhase, LastCheckpoint
  <1> HIDE DEF f
  <1> USE FlushAssumption, FlushPairs, <1>0 DEF IInv, TypeOK, stream, flush, vars, Unimpeded, Closing
  <1>1. CASE End \/ Delete \/ Unindex
    BY <1>1 DEF End, Delete, Unindex
  <1>2. ASSUME NEW k \in Instance, Claim(k) \/ Activate(k) \/ Heartbeat(k)
        PROVE  Kept
    BY <1>2 DEF Claim, Activate, Heartbeat, Up
  <1>3. ASSUME NEW k \in Instance, SaveCheckpoint(k)
        PROVE  Kept
    <2>1. k = i
      BY <1>3 DEF SaveCheckpoint
    <2>2. Unimpeded(i) /\ ~Up(i)
      BY <1>3, <2>1 DEF SaveCheckpoint, Up
    <2>3. Live
      BY <1>3, <2>1, <2>2 DEF SaveCheckpoint, Works
    <2> QED
      BY <2>2, <2>3 DEF Live
  <1>4. ASSUME NEW k \in Instance, StartFinalFlush(k) \/ LeaveWorker(k)
        PROVE  Kept
    <2>1. CASE k = i
      BY <1>4, <2>1 DEF StartFinalFlush, LeaveWorker, Up
    <2>2. CASE k # i
      BY <1>4, <2>2 DEF StartFinalFlush, LeaveWorker
    <2> QED
      BY <2>1, <2>2
  <1>5. ASSUME NEW k \in Instance, StopFlusher(k) \/ Crash(k)
        PROVE  Kept
    <2>1. k # i
      BY <1>5 DEF StopFlusher, Crash, Drop
    <2>2. Unimpeded(i) /\ phase'[i] = phase[i]
      BY <1>5, <2>1 DEF StopFlusher, Crash, Drop
    <2>3. UNCHANGED <<status, hot, durable>> /\ step'[f] = step[f]
      BY <1>5, <2>1 DEF StopFlusher, Crash, Drop
    <2>4. \A g \in Flush : step'[g] = "upsert" => step[g] = "upsert" /\ seen'[g] = seen[g]
      BY <1>5 DEF StopFlusher, Crash, Drop
    <2> QED
      BY <2>2, <2>3, <2>4
  <1>6. ASSUME NEW g \in Flush, FlushStep(g)
        PROVE  Kept
    <2>1. /\ UNCHANGED <<owner, status, hot>> /\ impeded \subseteq impeded'
          /\ durable' # durable => Upsert(g)
      BY <1>6 DEF FlushStep, ReadIndex, ReadsNothing, Fetch, Prune, Upsert, FlushFails
    <2>2. /\ phase' = phase \/ (g[2] = "final" /\ phase' = [phase EXCEPT ![g[1]] = "stop"])
          /\ g[2] = "final" => phase[g[1]] = "final"
      <3>1. g[2] = "final" => g = <<g[1], "final">>
        OBVIOUS
      <3> QED
        BY <1>6, <3>1 DEF FlushStep, ReadIndex, ReadsNothing, Fetch, Found, Prune, Upsert, FlushFails, Returns, Runs, FinalInItsPhase
    <2>3. Unimpeded(i)
      BY <2>1, <2>2
    <2>4. \A h \in Flush \ {g} : step'[h] = step[h] /\ seen'[h] = seen[h]
      BY <1>6 DEF FlushStep, ReadIndex, ReadsNothing, Fetch, Found, Prune, Upsert, FlushFails, Returns
    <2>5. step'[g] = "upsert" => seen'[g] = hot
      BY <1>6 DEF FlushStep, ReadIndex, ReadsNothing, Fetch, Found, Prune, Upsert, FlushFails, Returns
    <2>6. step'[g] = "prune" => owner # g[1]
      BY <1>6 DEF FlushStep, ReadIndex, ReadsNothing, Fetch, Found, Prune, Upsert, FlushFails, Returns
    <2>7. step'[f] # "prune"
      BY <2>3, <2>4, <2>6
    <2>8. Upsert(g) => durable' = hot
      BY <2>3 DEF Upsert
    <2>9. phase'[i] = "stop" => durable' = hot
      <3>1. CASE phase[i] = "stop"
        BY <3>1, <2>1, <2>3, <2>8
      <3>2. CASE phase[i] # "stop" /\ phase'[i] = "stop"
        <4>1. g = f
          BY <3>2, <2>2 DEF f
        <4>2. ~ReadIndex(g) /\ ~ReadsNothing(g) /\ ~FlushFails(g) /\ ~Prune(g)
          BY <4>1, <3>2, <2>3 DEF ReadIndex, ReadsNothing, FlushFails, Prune
        <4>3. Fetch(g) => hot = 0 /\ durable = 0
          BY <4>1, <3>2, <2>3 DEF Fetch, Found, NothingAhead
        <4> QED
          BY <1>6, <4>2, <4>3, <2>1, <2>8 DEF FlushStep, Fetch
      <3> QED
        BY <3>1, <3>2
    <2> QED
      BY <2>1, <2>3, <2>4, <2>5, <2>7, <2>9
  <1>7. CASE UNCHANGED vars
    BY <1>7
  <1> QED
    BY <1>1, <1>2, <1>3, <1>4, <1>5, <1>6, <1>7 DEF Next, f

\* The invariant holds in every reachable state.
THEOREM FlushInvariant == Spec => []IInv
  <1>1. IInv /\ [Next]_vars => IInv'
    BY FlushTypes, FlushNewest, FlushFinal, FlushLast DEF IInv
  <1> QED
    BY <1>1, FlushInit, PTL DEF Spec

\* Postgres goes back to an older checkpoint only by the write of a flush that
\* was overtaken: the stream moved to another instance meanwhile, or the other
\* flush of the process read more (checkpoint_flusher.py, the ownership test of
\* flush).  Otherwise the durable checkpoint never regresses, however flushes,
\* saves, crashes and shutdowns interleave.
THEOREM FlushRegress == Spec => RegressNeedsRace
  <1>1. IInv /\ [Next]_vars =>
           [durable' < durable => \E f \in overtaken : step[f] = "upsert" /\ step'[f] = "idle"]_vars
    <2> SUFFICES ASSUME IInv, Next, durable' < durable
                 PROVE  \E f \in overtaken : step[f] = "upsert" /\ step'[f] = "idle"
      OBVIOUS
    <2> USE DEF IInv, TypeOK, NewestInFlight, Undisturbed, stream, flush, vars
    <2>1. PICK f \in Flush : Upsert(f)
      BY DEF Next, FlushStep, SaveCheckpoint, End, Delete, Unindex, Claim, Activate, Heartbeat,
             ReadIndex, ReadsNothing, Fetch, Prune, FlushFails, StartFinalFlush, LeaveWorker,
             StopFlusher, Crash, Drop
    <2>2. step[f] = "upsert" /\ step'[f] = "idle" /\ durable' = seen[f]
      BY <2>1 DEF Upsert, Returns
    <2>3. f \in overtaken
      BY <2>2
    <2> QED
      BY <2>2, <2>3
  <1> QED
    BY <1>1, FlushInvariant, PTL DEF Spec, RegressNeedsRace

\* A shutdown that nothing impedes leaves the last checkpoint in Postgres
\* (app.py, lifespan after its yield), for any number of instances and saves.
THEOREM FlushShutdown == Spec => ShutdownPersists
  <1>1. IInv /\ [Next]_vars =>
           [\A i \in Instance : StopFlusher(i) /\ owner = i /\ i \notin impeded => durable = hot]_vars
    BY DEF IInv, LastCheckpoint, Unimpeded, Closing, StopFlusher
  <1> QED
    BY <1>1, FlushInvariant, PTL DEF Spec, ShutdownPersists
=============================================================================
