--------------------------- MODULE ControlProofs ---------------------------
(* What StreamControl guarantees without excusing any race: for any number   *)
(* of starts, stops, sweeps and processes, who streams holds the lock.       *)
EXTENDS StreamControl, TLAPS

USE RegistryAssumption

\* The attempts whose lock is refreshed, or has not been handed to the runner.
Kept(c) == startPc[c] = "launch" \/ task[c] \in {"resolving", "streaming", "erring"}

\* A task exists only after its start has launched it.
LaunchedOnly ==
    \A c \in Start : task[c] # "none" => startPc[c] \in {"activate", "ok", "crashed"}

KeptHoldsLock == \A c \in Start : Kept(c) => lock = c

IInv == TypeOK /\ LaunchedOnly /\ KeptHoldsLock

\* The initial states satisfy the invariant.
LEMMA ControlInit == Init => IInv
<1> SUFFICES ASSUME Init PROVE IInv
    OBVIOUS
<1> USE DEF Init, RegistryInit
<1>1. RegistryTypeOK
    BY DEF RegistryTypeOK
<1>2. seen \in [Stop -> [by : Start \cup {None}, at : Instance \cup {None}]]
    OBVIOUS
<1>3. TypeOK
    BY <1>1, <1>2 DEF TypeOK, StartPhase, TaskPhase, StopPhase
<1> QED
    BY <1>3 DEF IInv, LaunchedOnly, KeptHoldsLock, Kept

-----------------------------------------------------------------------------
\* Every command of the registry keeps its keys well typed.
LEMMA CommandTypes ==
    ASSUME RegistryTypeOK,
           \/ Claim \/ List \/ SetStopKey \/ Unlist
           \/ \E c \in Start, i \in Instance : WriteEntry(c, i)
           \/ \E status \in Status, i \in Instance \cup {None}, late \in SUBSET Late :
                 UpdateStatus(status, i, late)
           \/ \E late \in SUBSET Late : DeleteEntry(late) \/ NoteOnly(late)
           \/ \E w \in Sweeper : Remember(w)
           \/ \E v \in Start \cup {None} : SetLock(v)
           \/ UNCHANGED registry
    PROVE  RegistryTypeOK'
<1> USE DEF RegistryTypeOK, registry, Note
<1>1. CASE Claim BY <1>1 DEF Claim
<1>2. CASE List BY <1>2 DEF List
<1>3. CASE SetStopKey BY <1>3 DEF SetStopKey
<1>4. CASE Unlist BY <1>4 DEF Unlist, Late
<1>5. ASSUME NEW c \in Start, NEW i \in Instance, WriteEntry(c, i) PROVE RegistryTypeOK'
    BY <1>5 DEF WriteEntry, Entry, Status
<1>6. ASSUME NEW status \in Status, NEW i \in Instance \cup {None}, NEW late \in SUBSET Late,
             UpdateStatus(status, i, late)
      PROVE  RegistryTypeOK'
  <2>1. CASE ~Exists
      BY <1>6, <2>1 DEF UpdateStatus, Entry
  <2>2. CASE Exists /\ i = None
    <3>1. entry \in Entry /\ entry' = [entry EXCEPT !.status = status]
        BY <1>6, <2>2 DEF UpdateStatus, Exists
    <3>2. entry' \in Entry
        BY <3>1 DEF Entry
    <3> QED
        BY <1>6, <3>2 DEF UpdateStatus
  <2>3. CASE Exists /\ i # None
    <3>1. entry \in Entry /\ entry' = [entry EXCEPT !.status = status, !.at = i]
        BY <1>6, <2>3 DEF UpdateStatus, Exists
    <3>2. entry' \in Entry
        BY <3>1 DEF Entry
    <3> QED
        BY <1>6, <3>2 DEF UpdateStatus
  <2> QED
      BY <2>1, <2>2, <2>3
<1>7. ASSUME NEW late \in SUBSET Late, DeleteEntry(late) \/ NoteOnly(late)
      PROVE  RegistryTypeOK'
    BY <1>7 DEF DeleteEntry, NoteOnly
<1>8. ASSUME NEW w \in Sweeper, Remember(w) PROVE RegistryTypeOK'
    BY <1>8 DEF Remember
<1>9. ASSUME NEW v \in Start \cup {None}, SetLock(v) PROVE RegistryTypeOK'
    BY <1>9 DEF SetLock
<1>10. CASE UNCHANGED registry BY <1>10
<1> QED
    BY <1>1, <1>2, <1>3, <1>4, <1>5, <1>6, <1>7, <1>8, <1>9, <1>10

\* What a cancellation leaves undone is a named race.
LEMMA CutShortIsLate == \A c \in Start : CutShort(c) \in SUBSET Late
BY DEF CutShort, Late

\* Every step sends the registry one of these commands, or none.
LEMMA RegistryStep == TypeOK /\ [Next]_vars => RegistryTypeOK'
<1> SUFFICES ASSUME TypeOK, [Next]_vars PROVE RegistryTypeOK'
    OBVIOUS
<1> USE DEF TypeOK
<1>1. ASSUME NEW c \in Start, StartStep(c) PROVE RegistryTypeOK'
  <2>1. CASE CheckClaim(c) BY <2>1, CommandTypes DEF CheckClaim
  <2>2. CASE ClaimStream(c) BY <2>2, CommandTypes DEF ClaimStream
  <2>3. CASE CreateEntry(c) BY <2>3, CommandTypes DEF CreateEntry
  <2>4. CASE ListEntry(c) BY <2>4, CommandTypes DEF ListEntry
  <2>5. CASE AcquireLock(c) BY <2>5, CommandTypes DEF AcquireLock
  <2>6. CASE UndoCreate(c)
    <3>1. {} \in SUBSET Late /\ {"undo"} \in SUBSET Late
        BY DEF Late
    <3> QED
        BY <2>6, <3>1, CommandTypes DEF UndoCreate
  <2>7. CASE Launch(c)
    <3>1. {"skipped"} \in SUBSET Late
        BY DEF Late
    <3> QED
        BY <2>7, <3>1, CommandTypes DEF Launch
  <2>8. CASE Activate(c)
    <3>1. {"active"} \in SUBSET Late /\ "active" \in Status /\ at[c] \in Instance
        BY DEF Late, Status
    <3> QED
        BY <2>8, <3>1, CommandTypes DEF Activate
  <2> QED
      BY <1>1, <2>1, <2>2, <2>3, <2>4, <2>5, <2>6, <2>7, <2>8 DEF StartStep
<1>2. ASSUME NEW c \in Start, RunnerStep(c) \/ WatcherStops(c) \/ FatalError(c) \/ LockLoss(c)
      PROVE  RegistryTypeOK'
  <2>1. CASE \/ Resolve(c) \/ SaveCheckpoint(c) \/ RaiseFatal(c)
             \/ NoticeFailure(c) \/ EndTask(c) \/ LockLoss(c)
      BY <2>1, CommandTypes DEF Resolve, SaveCheckpoint, RaiseFatal, NoticeFailure, EndTask,
         LockLoss
  <2>4. CASE ResolveFails(c) \/ WatcherStops(c)
    <3>1. CutShort(c) \in SUBSET Late /\ {"abandoned"} \in SUBSET Late
        BY CutShortIsLate DEF Late
    <3> QED
        BY <2>4, <3>1, CommandTypes DEF ResolveFails, WatcherStops
  <2>2. CASE ReleaseLock(c)
      BY <2>2, CommandTypes DEF ReleaseLock
  <2>3. CASE Report(c) \/ FatalError(c)
    <3>1. {} \in SUBSET Late /\ {"terminal"} \in SUBSET Late
        BY DEF Late
    <3>2. "error" \in Status /\ Outcome(c) \in Status
        BY DEF Status, Outcome
    <3> QED
        BY <2>3, <3>1, <3>2, CommandTypes DEF Report, FatalError
  <2> QED
      BY <1>2, <2>1, <2>2, <2>3, <2>4 DEF RunnerStep
<1>3. ASSUME NEW s \in Stop, StopCall(s) PROVE RegistryTypeOK'
  <2>1. CASE CheckStop(s) \/ StopAll(s) \/ ReadEntry(s) \/ PublishStop(s)
      BY <2>1, CommandTypes DEF CheckStop, StopAll, ReadEntry, PublishStop
  <2>2. CASE WriteStopping(s)
    <3>1. {} \in SUBSET Late /\ {"stop"} \in SUBSET Late /\ "stopping" \in Status
        BY DEF Late, Status
    <3>2. seen[s].at \in Instance \cup {None}
        OBVIOUS
    <3> QED
        BY <2>2, <3>1, <3>2, CommandTypes DEF WriteStopping
  <2>3. CASE CancelLocal(s)
      BY <2>3, CutShortIsLate, CommandTypes DEF CancelLocal
  <2> QED
      BY <1>3, <2>1, <2>2, <2>3 DEF StopCall
<1>4. ASSUME NEW w \in Sweeper, Sweep(w) PROVE RegistryTypeOK'
  <2>1. {} \in SUBSET Late
      OBVIOUS
  <2> QED
      BY <1>4, <2>1, CommandTypes DEF Sweep, ScanIndex, ScanEntry, UnlistStale, DeleteDead
<1>5. CASE LockExpires
    BY <1>5, CommandTypes DEF LockExpires
<1>6. CASE (\E i \in Instance : Crash(i)) \/ UNCHANGED vars
    BY <1>6, CommandTypes DEF Crash, vars
<1> QED
    BY <1>1, <1>2, <1>3, <1>4, <1>5, <1>6 DEF Next

-----------------------------------------------------------------------------
\* The calls themselves: what is left of TypeOK.
CallTypes ==
    /\ at \in [Start \cup Stop -> Instance]
    /\ startPc \in [Start -> StartPhase]
    /\ task \in [Start -> TaskPhase]
    /\ cause \in [Start -> {"none", "watcher", "cancel", "failure"}]
    /\ stopPc \in [Stop -> StopPhase]
    /\ seen \in [Stop -> [by : Start \cup {None}, at : Instance \cup {None}]]
    /\ sweepPc \in [Sweeper -> {"index", "read", "unlist", "delete"}]
    /\ closing \subseteq Instance

\* A cancelled runner goes on to its save or to what follows its end.
LEMMA CancelledPhase ==
    ASSUME NEW c \in Start, NEW why
    PROVE  CancelledRunner(c, why) \in {"saving", "report", "lastReport", "failed"}
BY DEF CancelledRunner, AfterRunner

\* Every step keeps the calls, tasks and sweeps well typed.
LEMMA CallStep == RegistryTypeOK /\ CallTypes /\ [Next]_vars => CallTypes'
<1> SUFFICES ASSUME RegistryTypeOK, CallTypes, [Next]_vars PROVE CallTypes'
    OBVIOUS
<1> USE DEF CallTypes, calls, StartPhase, TaskPhase, RunnerPhase, StopPhase
<1>1. ASSUME NEW c \in Start, StartStep(c) PROVE CallTypes'
    BY <1>1 DEF StartStep, CheckClaim, ClaimStream, CreateEntry, ListEntry, AcquireLock,
       UndoCreate, Launch, Activate, StartGoes, TaskGoes
<1>2. ASSUME NEW c \in Start, RunnerStep(c) \/ FatalError(c) \/ LockLoss(c)
      PROVE  CallTypes'
    BY <1>2 DEF RunnerStep, Resolve, ResolveFails, SaveCheckpoint, ReleaseLock, RaiseFatal,
       NoticeFailure, Report, EndTask, FatalError, LockLoss, TaskStep, TaskGoes, AfterRunner
<1>3. ASSUME NEW c \in Start, WatcherStops(c) PROVE CallTypes'
    BY <1>3, CancelledPhase DEF WatcherStops, TaskStep, TaskGoes
<1>4. ASSUME NEW s \in Stop, CheckStop(s) \/ StopAll(s) \/ PublishStop(s) \/ WriteStopping(s)
      PROVE  CallTypes'
    BY <1>4 DEF CheckStop, StopAll, PublishStop, WriteStopping, StopStep, StopGoes
<1>5. ASSUME NEW s \in Stop, ReadEntry(s) PROVE CallTypes'
    BY <1>5 DEF ReadEntry, StopStep, StopGoes, RegistryTypeOK, Exists, Entry
<1>6. ASSUME NEW s \in Stop, CancelLocal(s) PROVE CallTypes'
  <2>1. CASE UNCHANGED <<task, cause>>
      BY <1>6, <2>1 DEF CancelLocal, StopGoes
  <2>2. ASSUME NEW c \in Start, Cancelled(c) PROVE CallTypes'
    <3>1. \E phase \in {"saving", "report", "lastReport", "failed", "ended"},
             why \in {"none", "watcher", "cancel", "failure"} : TaskGoes(c, phase, why)
        BY <2>2, CancelledPhase DEF Cancelled
    <3> QED
        BY <1>6, <3>1 DEF CancelLocal, StopGoes, TaskGoes
  <2> QED
      BY <1>6, <2>1, <2>2 DEF CancelLocal
<1>7. ASSUME NEW w \in Sweeper, Sweep(w) PROVE CallTypes'
    BY <1>7 DEF Sweep, ScanIndex, ScanEntry, UnlistStale, DeleteDead, SweepGoes
<1>8. CASE LockExpires \/ (\E i \in Instance : Crash(i)) \/ UNCHANGED vars
    BY <1>8 DEF LockExpires, Crash, vars
<1> QED
    BY <1>1, <1>2, <1>3, <1>4, <1>5, <1>6, <1>7, <1>8 DEF Next, StopCall

-----------------------------------------------------------------------------
\* A step that neither touches the lock nor makes an attempt kept.
LEMMA NothingKept ==
    ASSUME KeptHoldsLock, lock' = lock, \A c \in Start : Kept(c)' => Kept(c)
    PROVE  KeptHoldsLock'
BY DEF KeptHoldsLock

\* Only AcquireLock makes an attempt kept, and it finds the lock free; only the
\* attempt itself, once it is no longer kept, or the expiry takes it away.
LEMMA LockStep == IInv /\ [Next]_vars => LaunchedOnly' /\ KeptHoldsLock'
<1> SUFFICES ASSUME IInv, [Next]_vars PROVE LaunchedOnly' /\ KeptHoldsLock'
    OBVIOUS
<1>0. CallTypes /\ lock \in Start \cup {None} /\ LaunchedOnly /\ KeptHoldsLock
    BY DEF IInv, TypeOK, CallTypes, RegistryTypeOK
<1> USE <1>0 DEF CallTypes, LaunchedOnly, Kept, calls
<1>1. ASSUME NEW c \in Start, StartStep(c) PROVE LaunchedOnly' /\ KeptHoldsLock'
  <2>1. CASE CheckClaim(c) \/ ClaimStream(c) \/ CreateEntry(c) \/ ListEntry(c)
             \/ UndoCreate(c) \/ Activate(c)
    <3>1. lock' = lock
        BY <2>1 DEF CheckClaim, ClaimStream, CreateEntry, ListEntry, UndoCreate, Activate,
           Claim, WriteEntry, List, DeleteEntry, UpdateStatus, registry
    <3>2. task' = task /\ \E phase \in StartPhase \ {"launch"} :
             /\ startPc' = [startPc EXCEPT ![c] = phase]
             /\ startPc[c] = "activate" => phase = "ok"
             /\ startPc[c] \in {"check", "claim", "create", "list", "undo", "activate"}
        BY <2>1 DEF CheckClaim, ClaimStream, CreateEntry, ListEntry, UndoCreate, Activate,
           StartGoes, StartPhase
    <3> QED
        BY <3>1, <3>2, NothingKept
  <2>2. CASE AcquireLock(c)
    <3>1. CASE lock = None
        BY <2>2, <3>1 DEF AcquireLock, StartGoes, SetLock, KeptHoldsLock
    <3>2. CASE lock # None
      <4>1. lock' = lock /\ task' = task /\ startPc' = [startPc EXCEPT ![c] = "undo"]
          BY <2>2, <3>2 DEF AcquireLock, StartGoes, registry
      <4> QED
          BY <2>2, <4>1, NothingKept DEF AcquireLock
    <3> QED
        BY <3>1, <3>2
  <2>3. CASE Launch(c)
    <3>1. lock' = lock
        BY <2>3 DEF Launch, NoteOnly, registry
    <3>2. startPc[c] = "launch" /\ \A d \in Start \ {c} : startPc'[d] = startPc[d] /\ task'[d] = task[d]
        BY <2>3 DEF Launch, StartGoes, TaskGoes
    <3>3. startPc'[c] \in {"ok", "activate"} /\ task'[c] \in {task[c], "resolving"}
        BY <2>3 DEF Launch, StartGoes, TaskGoes
    <3> QED
        BY <3>1, <3>2, <3>3, NothingKept
  <2> QED
      BY <1>1, <2>1, <2>2, <2>3 DEF StartStep
<1>2. ASSUME NEW c \in Start, RunnerStep(c) \/ WatcherStops(c) \/ FatalError(c) \/ LockLoss(c)
      PROVE  LaunchedOnly' /\ KeptHoldsLock'
  <2>1. startPc' = startPc
      BY <1>2 DEF RunnerStep, Resolve, ResolveFails, SaveCheckpoint, ReleaseLock, RaiseFatal,
         NoticeFailure, Report, EndTask, WatcherStops, FatalError, LockLoss, TaskStep
  <2>2. task[c] # "none" /\ \E phase \in TaskPhase \ {"none"} :
           /\ task' = [task EXCEPT ![c] = phase]
           /\ phase \in {"resolving", "streaming", "erring"}
                => task[c] \in {"resolving", "streaming", "erring"}
      BY <1>2, CancelledPhase DEF RunnerStep, Resolve, ResolveFails, SaveCheckpoint,
         ReleaseLock, RaiseFatal, NoticeFailure, Report, EndTask, WatcherStops, FatalError,
         LockLoss, TaskStep, TaskGoes, AfterRunner, TaskPhase, RunnerPhase, Streaming
  <2>3. LaunchedOnly' /\ \A d \in Start : Kept(d)' => Kept(d)
      BY <2>1, <2>2
  <2>4. CASE lock' = lock
      BY <2>3, <2>4, NothingKept
  <2>5. CASE lock' # lock
    <3>1. ReleaseLock(c) /\ lock = c
        BY <1>2, <2>5 DEF RunnerStep, Resolve, ResolveFails, SaveCheckpoint, ReleaseLock,
           RaiseFatal, NoticeFailure, Report, EndTask, WatcherStops, FatalError, LockLoss,
           UpdateStatus, NoteOnly, registry
    <3>2. ~Kept(c)
        BY <3>1 DEF ReleaseLock
    <3> QED
        BY <2>3, <3>1, <3>2 DEF KeptHoldsLock
  <2> QED
      BY <2>3, <2>4, <2>5
<1>3. ASSUME NEW s \in Stop, StopCall(s) PROVE LaunchedOnly' /\ KeptHoldsLock'
  <2>1. lock' = lock /\ startPc' = startPc
      BY <1>3 DEF StopCall, CheckStop, StopAll, ReadEntry, PublishStop, WriteStopping, CancelLocal,
         StopStep, SetStopKey, UpdateStatus, NoteOnly, registry
  <2>2. CASE task' = task
      BY <2>1, <2>2, NothingKept
  <2>3. CASE task' # task
    <3>1. PICK c \in Start : Local(c, at[s]) /\ Cancelled(c)
        BY <1>3, <2>3 DEF StopCall, CheckStop, StopAll, ReadEntry, PublishStop, WriteStopping,
           CancelLocal, StopStep
    <3>2. task[c] # "none" /\ \E phase \in {"saving", "report", "lastReport", "failed", "ended"} :
             task' = [task EXCEPT ![c] = phase]
        BY <3>1, CancelledPhase DEF Local, Cancelled, TaskGoes
    <3> QED
        BY <2>1, <3>2, NothingKept
  <2> QED
      BY <2>2, <2>3
<1>4. ASSUME NEW w \in Sweeper, Sweep(w) PROVE LaunchedOnly' /\ KeptHoldsLock'
  <2>1. lock' = lock /\ startPc' = startPc /\ task' = task
      BY <1>4 DEF Sweep, ScanIndex, ScanEntry, UnlistStale, DeleteDead, SweepGoes, Remember,
         Unlist, DeleteEntry, registry
  <2> QED
      BY <2>1, NothingKept
<1>5. CASE LockExpires
    BY <1>5 DEF LockExpires, Unkept, SetLock, KeptHoldsLock
<1>6. ASSUME NEW i \in Instance, Crash(i) PROVE LaunchedOnly' /\ KeptHoldsLock'
  <2>1. lock' = lock /\ \A c \in Start :
           /\ startPc'[c] \in {startPc[c], "crashed"}
           /\ task'[c] = IF at[c] = i /\ task[c] # "none" THEN "ended" ELSE task[c]
      BY <1>6 DEF Crash, Local, registry
  <2> QED
      BY <2>1, NothingKept
<1>7. CASE UNCHANGED vars
    BY <1>7, NothingKept DEF vars, registry
<1> QED
    BY <1>1, <1>2, <1>3, <1>4, <1>5, <1>6, <1>7 DEF Next

\* The invariant holds in every reachable state.
THEOREM ControlInvariant == Spec => []IInv
<1>1. IInv /\ [Next]_vars => IInv'
    BY RegistryStep, CallStep, LockStep DEF IInv, TypeOK, CallTypes
<1> QED
    BY <1>1, ControlInit, PTL DEF Spec

\* Type correctness of registry, calls, tasks and sweeps.
THEOREM ControlTypes == Spec => []TypeOK
<1>1. IInv => TypeOK
    BY DEF IInv
<1> QED
    BY <1>1, ControlInvariant, PTL

\* Who streams holds the lock, so at most one attempt streams, whichever of the
\* races of the registry have happened (stream/manager.py, lock.py).
THEOREM ControlExclusion == Spec => []RunnerHoldsLock
<1>1. IInv => RunnerHoldsLock
    BY DEF IInv, KeptHoldsLock, Kept, RunnerHoldsLock, Streaming
<1> QED
    BY <1>1, ControlInvariant, PTL

-----------------------------------------------------------------------------
(* The refinement of SingleOwner.                                            *)

Spent == {c \in Start : task[c] \notin {"none", "resolving"}}

\* The active attempt is the one that streams.
ActiveStreams ==
    /\ \A c \in Start : Streaming(c) => Active = c
    /\ (\A c \in Start : ~Streaming(c)) => Active = None

\* Kept attempts are one at most.
LEMMA OneKept == IInv => \A c, d \in Start : Kept(c) /\ Kept(d) => c = d
BY DEF IInv, KeptHoldsLock

\* So is the one that streams.
LEMMA OneActive == IInv => ActiveStreams
<1>1. IInv => \A c, d \in Start : Streaming(c) /\ Streaming(d) => c = d
    BY OneKept DEF Kept, Streaming
<1> QED
    BY <1>1 DEF Active, ActiveStreams

\* The tasks on the way to a stream or in it, and nothing else, matter here:
\* a step that keeps them is a stutter.
LEMMA OwnersStutter ==
    ASSUME ActiveStreams, ActiveStreams', Spent' = Spent,
           \A c \in Start : Streaming(c)' <=> Streaming(c)
    PROVE  Active' = Active
BY DEF ActiveStreams

\* A task goes on from its start, into its stream, out of it, or to its end;
\* a process takes at most one task with it that is on the way or streams.
OneMoves ==
    \/ Spent' = Spent /\ \A c \in Start : Streaming(c)' <=> Streaming(c)
    \/ \E c \in Start : Resolve(c)
    \/ \E c \in Start : /\ task[c] \in {"resolving", "streaming"}
                       /\ task'[c] \notin {"none", "resolving", "streaming"}
                       /\ \A d \in Start \ {c} : /\ Streaming(d)' <=> Streaming(d)
                                                 /\ d \in Spent' <=> d \in Spent

\* Every step is of this kind.
LEMMA OwnersMove == IInv /\ [Next]_vars => OneMoves
<1> SUFFICES ASSUME IInv, [Next]_vars PROVE OneMoves
    OBVIOUS
<1>0. task \in [Start -> TaskPhase]
    BY DEF IInv, TypeOK
<1> USE <1>0 DEF OneMoves, Spent, Streaming
<1>1. CASE task' = task
    BY <1>1
<1>2. ASSUME NEW c \in Start, NEW phase \in TaskPhase \ {"none", "resolving", "streaming"},
             task' = [task EXCEPT ![c] = phase], task[c] # "none"
      PROVE  OneMoves
  <2>1. CASE task[c] \in {"resolving", "streaming"}
      BY <1>2, <2>1
  <2>2. CASE task[c] \notin {"resolving", "streaming"}
      BY <1>2, <2>2
  <2> QED
      BY <2>1, <2>2
<1>3. ASSUME NEW c \in Start, StartStep(c) PROVE OneMoves
  <2>1. CASE Launch(c)
    <3>1. task[c] = "none" \/ task' = task
        BY <2>1 DEF Launch, StartGoes, IInv, LaunchedOnly
    <3> QED
        BY <1>1, <2>1, <3>1 DEF Launch, StartGoes, TaskGoes
  <2>2. CASE ~Launch(c)
      BY <1>1, <1>3, <2>2 DEF StartStep, CheckClaim, ClaimStream, CreateEntry, ListEntry,
         AcquireLock, UndoCreate, Activate, StartGoes
  <2> QED
      BY <2>1, <2>2
<1>4. ASSUME NEW c \in Start, RunnerStep(c) \/ WatcherStops(c) \/ FatalError(c) \/ LockLoss(c)
      PROVE  OneMoves
  <2>1. CASE Resolve(c)
      BY <2>1
  <2>2. CASE ~Resolve(c)
    <3>1. task[c] # "none" /\ \E phase \in TaskPhase \ {"none", "resolving", "streaming"} :
             task' = [task EXCEPT ![c] = phase]
        BY <1>4, <2>2, CancelledPhase DEF RunnerStep, ResolveFails, SaveCheckpoint,
           ReleaseLock, RaiseFatal, NoticeFailure, Report, EndTask, WatcherStops, FatalError,
           LockLoss, TaskStep, TaskGoes, AfterRunner, TaskPhase, RunnerPhase
    <3> QED
        BY <1>2, <3>1
  <2> QED
      BY <2>1, <2>2
<1>5. ASSUME NEW s \in Stop, StopCall(s) PROVE OneMoves
  <2>1. CASE \E c \in Start : Local(c, at[s]) /\ Cancelled(c)
    <3>1. PICK c \in Start : Local(c, at[s]) /\ Cancelled(c)
        BY <2>1
    <3>2. task[c] # "none" /\ \E phase \in {"saving", "report", "lastReport", "failed", "ended"} :
             task' = [task EXCEPT ![c] = phase]
        BY <3>1, CancelledPhase DEF Local, Cancelled, TaskGoes
    <3>3. {"saving", "report", "lastReport", "failed", "ended"}
             \subseteq TaskPhase \ {"none", "resolving", "streaming"}
        BY DEF TaskPhase, RunnerPhase
    <3> QED
        BY <1>2, <3>2, <3>3
  <2>2. CASE ~\E c \in Start : Local(c, at[s]) /\ Cancelled(c)
      BY <1>1, <1>5, <2>2 DEF StopCall, CheckStop, StopAll, ReadEntry, PublishStop,
         WriteStopping, CancelLocal, StopStep
  <2> QED
      BY <2>1, <2>2
<1>6. ASSUME NEW w \in Sweeper, Sweep(w) PROVE OneMoves
    BY <1>1, <1>6 DEF Sweep, ScanIndex, ScanEntry, UnlistStale, DeleteDead, SweepGoes
<1>7. ASSUME NEW i \in Instance, Crash(i) PROVE OneMoves
  <2>1. \A c \in Start : task'[c] = IF Local(c, i) THEN "ended" ELSE task[c]
      BY <1>7 DEF Crash
  <2>2. CASE \E c \in Start : Local(c, i) /\ task[c] \in {"resolving", "streaming"}
    <3>1. PICK c \in Start : Local(c, i) /\ task[c] \in {"resolving", "streaming"}
        BY <2>2
    <3>2. \A d \in Start \ {c} : task[d] \notin {"resolving", "streaming"}
        BY <3>1, OneKept DEF Kept
    <3>3. \A d \in Start \ {c} : /\ Streaming(d)' <=> Streaming(d)
                                 /\ d \in Spent' <=> d \in Spent
        BY <2>1, <3>2 DEF Local
    <3> QED
        BY <2>1, <3>1, <3>3
  <2>3. CASE ~\E c \in Start : Local(c, i) /\ task[c] \in {"resolving", "streaming"}
      BY <2>1, <2>3 DEF Local
  <2> QED
      BY <2>2, <2>3
<1>8. CASE LockExpires \/ UNCHANGED vars
    BY <1>1, <1>8 DEF LockExpires, calls, vars
<1> QED
    BY <1>3, <1>4, <1>5, <1>6, <1>7, <1>8 DEF Next

\* Such a step takes or leaves the stream, spends an attempt, or stutters.
LEMMA OwnersStep ==
    ASSUME IInv, IInv', ActiveStreams, ActiveStreams', OneMoves
    PROVE  [Owners!Next]_<<Active, Spent>>
<1> USE DEF Owners!Next, Owners!Take, Owners!Leave, Owners!Waste
<1>0. task \in [Start -> TaskPhase] /\ task' \in [Start -> TaskPhase] /\ None \notin Start
    BY DEF IInv, TypeOK
<1>1. CASE Spent' = Spent /\ \A c \in Start : Streaming(c)' <=> Streaming(c)
    BY <1>1, OwnersStutter
<1>2. ASSUME NEW c \in Start, Resolve(c) PROVE Owners!Take(c)
  <2>1. task' = [task EXCEPT ![c] = "streaming"] /\ task[c] = "resolving"
      BY <1>2 DEF Resolve, TaskStep, TaskGoes
  <2>2. \A d \in Start : ~Streaming(d)
      BY <2>1, OneKept DEF Kept, Streaming
  <2>3. Active = None
      BY <2>2 DEF ActiveStreams
  <2>4. Streaming(c)'
      BY <1>0, <2>1 DEF Streaming
  <2>5. Active' = c
      BY <2>4 DEF ActiveStreams
  <2>6. c \notin Spent /\ Spent' = Spent \cup {c}
      BY <1>0, <2>1 DEF Spent
  <2> QED
      BY <2>3, <2>5, <2>6 DEF Spent
<1>3. ASSUME NEW c \in Start, task[c] \in {"resolving", "streaming"},
             task'[c] \notin {"none", "resolving", "streaming"},
             \A d \in Start \ {c} : /\ Streaming(d)' <=> Streaming(d)
                                    /\ d \in Spent' <=> d \in Spent
      PROVE  [Owners!Next]_<<Active, Spent>>
  <2>1. \A d \in Start \ {c} : ~Streaming(d)
      BY <1>3, OneKept DEF Kept, Streaming
  <2>2. \A d \in Start : ~Streaming(d)'
    <3>1. ~Streaming(c)'
        BY <1>3 DEF Streaming
    <3>2. ASSUME NEW d \in Start, d # c PROVE ~Streaming(d)'
      <4>1. Streaming(d)' <=> Streaming(d)
          BY <1>3, <3>2
      <4> QED
          BY <2>1, <3>2, <4>1
    <3> QED
        BY <3>1, <3>2
  <2>3. Active' = None
      BY <2>2 DEF ActiveStreams
  <2>4. c \in Spent' /\ Spent \subseteq Start /\ Spent' \subseteq Start
      BY <1>3 DEF Spent
  <2>5. CASE task[c] = "streaming"
    <3>1. Active = c /\ c \in Spent
        BY <2>5 DEF ActiveStreams, Streaming, Spent
    <3>2. \A d : d \in Spent' <=> d \in Spent
      <4>1. \A d \in Start \ {c} : d \in Spent' <=> d \in Spent
          BY <1>3
      <4> QED
          BY <2>4, <3>1, <4>1
    <3>3. Spent' = Spent
        BY <3>2
    <3> QED
        BY <1>0, <2>3, <3>1, <3>3 DEF Spent
  <2>6. CASE task[c] = "resolving"
    <3>1. c \notin Spent
        BY <2>6 DEF Spent
    <3>2. Active = None
        BY <2>1, <2>6 DEF ActiveStreams, Streaming
    <3>3. \A d : d \in Spent' <=> d \in Spent \cup {c}
      <4>1. \A d \in Start \ {c} : d \in Spent' <=> d \in Spent
          BY <1>3
      <4> QED
          BY <2>4, <3>1, <4>1
    <3>4. Spent' = Spent \cup {c}
        BY <3>3
    <3> QED
        BY <2>3, <3>1, <3>2, <3>4 DEF Spent
  <2> QED
      BY <1>3, <2>5, <2>6
<1> QED
    BY <1>1, <1>2, <1>3 DEF OneMoves

\* The stream passes from attempt to attempt as SingleOwner says, as the lease
\* does (module LeaseProofs), whatever becomes of its registry entry.
THEOREM ControlRefines == Spec => ImplementsSingleOwner
<1>1. Init => Owners!Init
  <2>1. Init => Active = None
      BY DEF Init, Active, Streaming
  <2>2. Init => Spent = {}
      BY DEF Init, Spent
  <2> QED
      BY <2>1, <2>2 DEF Owners!Init, Spent
<1>2. IInv /\ IInv' /\ [Next]_vars /\ ActiveStreams /\ ActiveStreams'
        => [Owners!Next]_<<Active, Spent>>
    BY OwnersMove, OwnersStep
<1> QED
    BY <1>1, <1>2, OneActive, ControlInvariant, PTL DEF Spec, ImplementsSingleOwner, Owners!Spec, Spent
=============================================================================
