--------------------------- MODULE RegistryProofs ---------------------------
(* What StreamControl guarantees of the registry once its races are named:   *)
(* each property holds in every behaviour without the races it excuses, for  *)
(* any number of starts, stops, sweeps and processes.                        *)
EXTENDS ControlProofs

\* The attempt is on its way to a stream of its own, or streams.
Holding(c) ==
    startPc[c] \in {"create", "list", "lock", "undo", "launch"} \/ task[c] \in {"resolving", "streaming"}

\* The entry is as create_stream wrote it, apart from its status and process.
Complete == Exists /\ entry.full

\* Whichever races have happened: a complete entry, and no other, has a
\* creator, and only a dead one is about to be swept.
EntryCreated ==
    /\ creator # None <=> Complete
    /\ fresh # {} => Dead /\ Complete

\* A creator, and what a stop call has read of one, is past its create_stream.
CreatorStarted ==
    /\ \A c \in Start : creator = c => startPc[c] \notin {"check", "claim", "create"}
    /\ \A s \in Stop : stopPc[s] \in {"check", "read"} => seen[s].by = None
    /\ \A s \in Stop, c \in Start :
          seen[s].by = c => startPc[c] \notin {"check", "claim", "create"}

\* _tasks of a process holds one task of the subreddit at most.
OneLocal == \A c, d \in Start : Local(c, at[c]) /\ Local(d, at[c]) => c = d

\* One attempt holds the subreddit: it has the claim and, once it is written,
\* the entry, which is alive.
ClaimHeld ==
    Without({"terminal"}) =>
        /\ creator # None => claimed
        /\ \A c, d \in Start : Holding(c) /\ Holding(d) => c = d
        /\ \A c \in Start : Holding(c) =>
              /\ claimed
              /\ startPc[c] = "create" => creator = None
              /\ startPc[c] # "create" => creator = c /\ ~Dead

\* A stop request lasts as long as the attempt it was published for holds.
RequestHeld ==
    Without({"terminal"}) =>
        \A s \in Stop, c \in Start :
            /\ seen[s].by = c
            /\ stopPc[s] \in {"write", "cancel", "done"}
            /\ Holding(c)
            => stopKey

\* The entry names the process of its creator, and so does what was read of it.
CreatorNamed ==
    Without({"active", "stop"}) =>
        /\ \A c \in Start : creator = c => entry.at = at[c]
        /\ \A s \in Stop, c \in Start :
              seen[s].by = c /\ stopPc[s] \in {"setKey", "write"} => seen[s].at = at[c]

\* No start call is under way in a process that shuts down, and what still runs
\* there is about to be cancelled.
ClosingStops ==
    /\ \A c \in Start : at[c] \in closing => startPc[c] \in {"check", "ok", "refused"}
    /\ Without({"terminal"}) =>
          \A c \in Start : at[c] \in closing /\ task[c] \in {"resolving", "streaming"}
             => \E s \in Stop : at[s] = at[c] /\ stopPc[s] \in {"read", "setKey", "write", "cancel"}

\* The lease is with a start about to launch, or with a runner.
LeaseInUse ==
    Without({"interrupted", "abandoned", "skipped"}) =>
        \A c \in Start : lock = c => startPc[c] \in {"launch", "crashed"} \/ task[c] \in RunnerPhase

\* An entry is complete and claimed; it is dead, or somebody is still to make
\* it so; and a claim without an entry is about to get one.
Settling ==
    Without(Late \ {"interrupted", "abandoned"}) =>
        /\ Exists => Complete /\ claimed
        /\ \A s \in Stop : stopPc[s] \in {"setKey", "write"} => seen[s].by # None
        /\ claimed /\ ~Exists => \E c \in Start : startPc[c] \in {"create", "crashed"}
        /\ \A c \in Start : creator = c =>
              \/ Dead
              \/ startPc[c] \in {"list", "lock", "undo", "launch", "crashed"}
              \/ task[c] \notin {"none", "reported", "lastReported", "ended"}

RInv ==
    /\ EntryCreated /\ CreatorStarted /\ OneLocal
    /\ ClaimHeld /\ RequestHeld /\ EntryListed /\ CreatorNamed
    /\ ClosingStops /\ LeaseInUse /\ Settling

-----------------------------------------------------------------------------
(* What the steps have in common.                                            *)

\* Attempts keep their process, and a race that has happened has happened.
LEMMA RacesStay == [Next]_vars => at' = at /\ overtaken \subseteq overtaken'
<1> SUFFICES ASSUME [Next]_vars PROVE at' = at /\ overtaken \subseteq overtaken'
    OBVIOUS
<1> USE DEF registry, calls, Note
<1>1. ASSUME NEW c \in Start, StartStep(c) PROVE at' = at /\ overtaken \subseteq overtaken'
    BY <1>1 DEF StartStep, CheckClaim, ClaimStream, CreateEntry, ListEntry, AcquireLock,
       UndoCreate, Launch, Activate, StartGoes, Claim, WriteEntry, List, SetLock, DeleteEntry,
       NoteOnly, UpdateStatus
<1>2. ASSUME NEW c \in Start, RunnerStep(c) \/ WatcherStops(c) \/ FatalError(c) \/ LockLoss(c)
      PROVE  at' = at /\ overtaken \subseteq overtaken'
    BY <1>2 DEF RunnerStep, Resolve, ResolveFails, SaveCheckpoint, ReleaseLock, RaiseFatal,
       NoticeFailure, Report, EndTask, WatcherStops, FatalError, LockLoss, TaskStep,
       NoteOnly, UpdateStatus, SetLock
<1>3. ASSUME NEW s \in Stop, StopCall(s) PROVE at' = at /\ overtaken \subseteq overtaken'
    BY <1>3 DEF StopCall, CheckStop, StopAll, ReadEntry, PublishStop, WriteStopping, CancelLocal,
       StopStep, SetStopKey, UpdateStatus, NoteOnly
<1>4. ASSUME NEW w \in Sweeper, Sweep(w) PROVE at' = at /\ overtaken \subseteq overtaken'
    BY <1>4 DEF Sweep, ScanIndex, ScanEntry, UnlistStale, DeleteDead, SweepGoes, Remember,
       Unlist, DeleteEntry
<1>5. CASE LockExpires \/ (\E i \in Instance : Crash(i)) \/ UNCHANGED vars
    BY <1>5 DEF LockExpires, SetLock, Crash, vars
<1> QED
    BY <1>1, <1>2, <1>3, <1>4, <1>5 DEF Next

\* What update_status leaves: the status it was given, in an entry that is
\* complete only if it was complete before.
LEMMA StatusWritten ==
    ASSUME RegistryTypeOK, NEW status \in Status, NEW i \in Instance \cup {None}, NEW late,
           UpdateStatus(status, i, late)
    PROVE  /\ Exists' /\ entry'.status = status
           /\ Dead' <=> status \in DeadStatus
           /\ Complete' <=> Complete
           /\ Exists => entry'.at = IF i = None THEN entry.at ELSE i
           /\ fresh' = {} /\ overtaken' = overtaken \cup late
           /\ UNCHANGED <<claimed, listed, stopKey, lock, creator>>
<1>0. /\ fresh' = {} /\ overtaken' = overtaken \cup late
      /\ UNCHANGED <<claimed, listed, stopKey, lock, creator>>
    BY DEF UpdateStatus, Note
<1>1. CASE ~Exists
  <2>1. entry' = [status |-> status, at |-> i, full |-> FALSE]
      BY <1>1 DEF UpdateStatus
  <2>2. entry' \in Entry /\ entry'.status = status
      BY <2>1 DEF Entry
  <2>3. ~entry'.full
      BY <2>1, Zenon
  <2> QED
      BY <1>0, <1>1, <2>2, <2>3, EntryAssumption DEF Exists, Dead, Complete
<1>2. CASE Exists /\ i = None
  <2>1. entry \in Entry /\ entry' = [entry EXCEPT !.status = status]
      BY <1>2 DEF UpdateStatus, RegistryTypeOK, Exists
  <2>2. entry' \in Entry /\ entry'.status = status /\ entry'.at = entry.at /\ entry'.full = entry.full
      BY <2>1 DEF Entry
  <2> QED
      BY <1>0, <1>2, <2>2, EntryAssumption DEF Exists, Dead, Complete
<1>3. CASE Exists /\ i # None
  <2>1. entry \in Entry /\ entry' = [entry EXCEPT !.status = status, !.at = i]
      BY <1>3 DEF UpdateStatus, RegistryTypeOK, Exists
  <2>2. entry' \in Entry /\ entry'.status = status /\ entry'.at = i /\ entry'.full = entry.full
      BY <2>1 DEF Entry
  <2> QED
      BY <1>0, <1>3, <2>2, EntryAssumption DEF Exists, Dead, Complete
<1> QED
    BY <1>1, <1>2, <1>3

\* create_stream leaves a complete entry that is alive.
LEMMA EntryWritten ==
    ASSUME NEW c \in Start, NEW i \in Instance, WriteEntry(c, i)
    PROVE  /\ Exists' /\ ~Dead' /\ Complete' /\ entry'.at = i
           /\ creator' = c /\ fresh' = {}
           /\ UNCHANGED <<claimed, listed, stopKey, lock, overtaken>>
<1>1. entry' = [status |-> "starting", at |-> i, full |-> TRUE]
    BY DEF WriteEntry
<1>2. entry' \in Entry /\ entry'.status = "starting" /\ entry'.at = i
    BY <1>1 DEF Entry, Status
<1>3. entry'.full
    BY <1>1, Zenon
<1>4. Exists' /\ ~Dead' /\ Complete'
    BY <1>2, <1>3, EntryAssumption DEF Exists, Dead, DeadStatus, Complete
<1> QED
    BY <1>2, <1>4 DEF WriteEntry

\* What is not written does not change, and nothing is left of a deleted entry.
LEMMA EntryKept ==
    /\ entry' = entry => (Exists' <=> Exists) /\ (Dead' <=> Dead) /\ (Complete' <=> Complete)
    /\ entry' = None => ~Exists' /\ ~Dead' /\ ~Complete'
    /\ Dead => Exists
    /\ Complete => Exists
BY DEF Exists, Dead, Complete

\* The entry is created by its creator, deleted by an undo or a sweep, and given
\* a status by the rest.
EntryMoves ==
    \/ /\ entry' = entry /\ creator' = creator
       /\ fresh' = fresh \/ (Dead /\ Complete)
       /\ claimed' = claimed \/ (~claimed /\ \E c \in Start : ClaimStream(c))
       /\ stopKey => stopKey'
       /\ Exists /\ listed => listed' \/ "unlist" \in overtaken'
    \/ \E c \in Start : \/ CreateEntry(c) \/ Activate(c) \/ Report(c) \/ FatalError(c)
                        \/ UndoCreate(c) /\ Complete /\ entry' = None
    \/ \E s \in Stop : WriteStopping(s)
    \/ \E w \in Sweeper : DeleteDead(w) /\ w \in fresh

\* Every step is of this kind.
LEMMA EntryMove == [Next]_vars => EntryMoves
<1> SUFFICES ASSUME [Next]_vars PROVE EntryMoves
    OBVIOUS
<1> DEFINE Same == /\ entry' = entry /\ creator' = creator /\ fresh' = fresh /\ claimed' = claimed
                   /\ stopKey => stopKey'
                   /\ Exists /\ listed => listed' \/ "unlist" \in overtaken'
<1>0. Same => EntryMoves
    BY DEF EntryMoves
<1> USE DEF registry
<1>1. ASSUME NEW c \in Start, StartStep(c) PROVE EntryMoves
  <2>1. CASE UndoCreate(c)
    <3>1. CASE Complete
      <4>1. entry' = None
          BY <2>1, <3>1 DEF UndoCreate, DeleteEntry, Complete
      <4> QED
          BY <2>1, <3>1, <4>1 DEF EntryMoves
    <3>2. CASE ~Complete
      <4>1. Same
          BY <2>1, <3>2 DEF UndoCreate, Complete
      <4> QED
          BY <4>1, <1>0
    <3> QED
        BY <3>1, <3>2
  <2>2. CASE CreateEntry(c) \/ Activate(c)
      BY <2>2 DEF EntryMoves
  <2>3. CASE CheckClaim(c) \/ ListEntry(c) \/ AcquireLock(c) \/ Launch(c)
    <3>1. Same
        BY <2>3 DEF CheckClaim, ListEntry, AcquireLock, Launch, List, SetLock, NoteOnly
    <3> QED
        BY <3>1, <1>0
  <2>4. CASE ClaimStream(c)
    <3>1. Same \/ (~claimed /\ Claim)
        BY <2>4 DEF ClaimStream
    <3>2. CASE ~claimed /\ Claim
      <4>1. entry' = entry /\ creator' = creator /\ fresh' = fresh /\ stopKey' = stopKey /\ listed' = listed
          BY <3>2 DEF Claim
      <4> QED
          BY <2>4, <3>2, <4>1 DEF EntryMoves
    <3> QED
        BY <3>1, <3>2, <1>0
  <2> QED
      BY <1>1, <2>1, <2>2, <2>3, <2>4 DEF StartStep
<1>2. ASSUME NEW c \in Start, RunnerStep(c) \/ WatcherStops(c) \/ FatalError(c) \/ LockLoss(c)
      PROVE  EntryMoves
  <2>1. CASE Report(c) \/ FatalError(c)
      BY <2>1 DEF EntryMoves
  <2>2. CASE ~(Report(c) \/ FatalError(c))
    <3>1. Same
        BY <1>2, <2>2 DEF RunnerStep, Resolve, ResolveFails, SaveCheckpoint, ReleaseLock, RaiseFatal,
           NoticeFailure, EndTask, WatcherStops, LockLoss, NoteOnly, SetLock
    <3> QED
        BY <3>1, <1>0
  <2> QED
      BY <2>1, <2>2
<1>3. ASSUME NEW s \in Stop, StopCall(s) PROVE EntryMoves
  <2>1. CASE WriteStopping(s)
      BY <2>1 DEF EntryMoves
  <2>2. CASE ~WriteStopping(s)
    <3>1. Same
        BY <1>3, <2>2 DEF StopCall, CheckStop, StopAll, ReadEntry, PublishStop, CancelLocal,
           SetStopKey, NoteOnly
    <3> QED
        BY <3>1, <1>0
  <2> QED
      BY <2>1, <2>2
<1>4. ASSUME NEW w \in Sweeper, Sweep(w) PROVE EntryMoves
  <2>1. CASE DeleteDead(w) /\ w \in fresh
      BY <2>1 DEF EntryMoves
  <2>2. CASE ScanEntry(w) /\ Remember(w) /\ Dead /\ entry.full
      BY <2>2 DEF EntryMoves, Remember, Complete, Dead
  <2>4. CASE UnlistStale(w)
    <3>1. Same
        BY <2>4 DEF UnlistStale, Unlist, Note
    <3> QED
        BY <3>1, <1>0
  <2>3. CASE ~UnlistStale(w) /\ ~(DeleteDead(w) /\ w \in fresh) /\ ~(ScanEntry(w) /\ Remember(w) /\ Dead /\ entry.full)
    <3>1. Same
        BY <1>4, <2>3 DEF Sweep, ScanIndex, ScanEntry, DeleteDead
    <3> QED
        BY <3>1, <1>0
  <2> QED
      BY <2>1, <2>2, <2>3, <2>4
<1>5. CASE LockExpires \/ (\E i \in Instance : Crash(i)) \/ UNCHANGED vars
  <2>1. Same
      BY <1>5 DEF LockExpires, SetLock, Crash, vars
  <2> QED
      BY <2>1, <1>0
<1> QED
    BY <1>1, <1>2, <1>3, <1>4, <1>5 DEF Next

\* The last status of an attempt, and its fatal error: the entry is dead.
LEMMA LastStatus ==
    ASSUME TypeOK, NEW c \in Start, Report(c) \/ FatalError(c)
    PROVE  /\ Exists' /\ Dead' /\ (Complete' <=> Complete) /\ (Exists => entry'.at = entry.at)
           /\ UNCHANGED <<claimed, listed, stopKey, lock, creator>> /\ fresh' = {}
           /\ creator # c => "terminal" \in overtaken'
<1>0. RegistryTypeOK
    BY DEF TypeOK
<1>1. PICK status \in {"error", "stopped"} :
         UpdateStatus(status, None, IF creator = c THEN {} ELSE {"terminal"})
    BY DEF Report, FatalError, Outcome
<1> QED
    BY <1>0, <1>1, StatusWritten DEF Status, DeadStatus

\* The end of a start: the entry is alive, and of its process.
LEMMA ActiveStatus ==
    ASSUME TypeOK, NEW c \in Start, Activate(c)
    PROVE  /\ Exists' /\ ~Dead' /\ (Complete' <=> Complete) /\ (Exists => entry'.at = at[c])
           /\ UNCHANGED <<claimed, listed, stopKey, lock, creator>> /\ fresh' = {}
           /\ creator # c \/ Dead => "active" \in overtaken'
<1>0. RegistryTypeOK /\ at[c] \in Instance
    BY DEF TypeOK
<1>1. UpdateStatus("active", at[c], IF creator # c \/ Dead THEN {"active"} ELSE {})
    BY DEF Activate
<1>2. at[c] # None
    BY <1>0, RegistryAssumption
<1> QED
    BY <1>0, <1>1, <1>2, StatusWritten DEF Status, DeadStatus

\* A stop request: the entry is alive, and of the process read before, if any.
LEMMA StoppingStatus ==
    ASSUME TypeOK, NEW s \in Stop, WriteStopping(s)
    PROVE  /\ Exists' /\ ~Dead' /\ (Complete' <=> Complete)
           /\ Exists => entry'.at = IF seen[s].at = None THEN entry.at ELSE seen[s].at
           /\ UNCHANGED <<claimed, listed, stopKey, lock, creator>> /\ fresh' = {}
           /\ creator # seen[s].by \/ Dead => "stop" \in overtaken'
<1>0. RegistryTypeOK /\ seen[s].at \in Instance \cup {None}
    BY DEF TypeOK
<1>1. UpdateStatus("stopping", seen[s].at, IF creator # seen[s].by \/ Dead THEN {"stop"} ELSE {})
    BY DEF WriteStopping
<1> QED
    BY <1>0, <1>1, StatusWritten DEF Status, DeadStatus

\* A deletion by an undo or a sweep takes everything but the lock.
LEMMA Deletion ==
    ASSUME \/ \E c \in Start : UndoCreate(c) /\ Complete /\ entry' = None
           \/ \E w \in Sweeper : DeleteDead(w) /\ w \in fresh /\ Exists
    PROVE  /\ ~Exists' /\ ~Dead' /\ ~Complete' /\ fresh' = {} /\ creator' = None
           /\ ~claimed' /\ ~listed' /\ ~stopKey' /\ lock' = lock
BY DEF UndoCreate, DeleteDead, DeleteEntry, Complete, Exists, Dead

-----------------------------------------------------------------------------
(* Whichever races have happened.                                            *)

\* Only create_stream makes a creator; a status keeps it; a deletion ends it.
LEMMA EntryCreatedStep == IInv /\ EntryCreated /\ [Next]_vars => EntryCreated'
<1> SUFFICES ASSUME IInv, EntryCreated, [Next]_vars PROVE EntryCreated'
    OBVIOUS
<1>0. TypeOK /\ EntryMoves
    BY EntryMove DEF IInv
<1> USE <1>0, EntryKept, RegistryAssumption DEF EntryCreated
<1>1. CASE entry' = entry /\ creator' = creator /\ (fresh' = fresh \/ (Dead /\ Complete))
    BY <1>1
<1>2. ASSUME NEW c \in Start, CreateEntry(c) PROVE EntryCreated'
  <2>1. WriteEntry(c, at[c]) /\ at[c] \in Instance
      BY <1>2 DEF CreateEntry, TypeOK
  <2> QED
      BY <2>1, EntryWritten
<1>3. ASSUME NEW c \in Start, Activate(c) \/ Report(c) \/ FatalError(c) PROVE EntryCreated'
    BY <1>3, ActiveStatus, LastStatus
<1>4. ASSUME NEW s \in Stop, WriteStopping(s) PROVE EntryCreated'
    BY <1>4, StoppingStatus
<1>5. CASE \/ \E c \in Start : UndoCreate(c) /\ Complete /\ entry' = None
           \/ \E w \in Sweeper : DeleteDead(w) /\ w \in fresh
    BY <1>5, Deletion
<1> QED
    BY <1>1, <1>2, <1>3, <1>4, <1>5 DEF EntryMoves

\* The steps of a start before its entry, and from its claim to its launch.
Early == {"check", "claim", "create"}
OnTheWay == {"create", "list", "lock", "undo", "launch"}

\* A start call moves on, from its claim to its entry and to its launch.
LEMMA StartMoves ==
    ASSUME TypeOK, [Next]_vars, NEW c \in Start
    PROVE  /\ startPc'[c] \in Early => startPc[c] \in Early
           /\ startPc'[c] = "create" => startPc[c] = "create" \/ (ClaimStream(c) /\ ~claimed /\ Claim)
           /\ startPc[c] = "create" => startPc'[c] \in {"create", "crashed"} \/ CreateEntry(c)
           /\ startPc'[c] \in OnTheWay
                => startPc[c] \in OnTheWay \/ (ClaimStream(c) /\ ~claimed /\ Claim)
           /\ startPc[c] \in {"create", "list"} => \/ startPc'[c] \in {startPc[c], "crashed"}
                                                   \/ CreateEntry(c) /\ startPc'[c] = "list"
                                                   \/ ListEntry(c)
           /\ at[c] \in closing /\ startPc[c] \in {"check", "ok", "refused"}
                => startPc'[c] = startPc[c] \/ Crash(at[c])
           /\ startPc[c] = "crashed" => startPc'[c] = "crashed"
<1> USE DEF Early, OnTheWay, calls, TypeOK
<1>1. ASSUME NEW d \in Start, StartStep(d)
      PROVE  /\ startPc'[c] \in Early => startPc[c] \in Early
             /\ startPc'[c] = "create" => startPc[c] = "create" \/ (ClaimStream(c) /\ ~claimed /\ Claim)
             /\ startPc[c] = "create" => startPc'[c] = "create" \/ CreateEntry(c)
             /\ startPc'[c] \in OnTheWay
                  => startPc[c] \in OnTheWay \/ (ClaimStream(c) /\ ~claimed /\ Claim)
             /\ startPc[c] \in {"create", "list"} => \/ startPc'[c] = startPc[c]
                                                     \/ CreateEntry(c) /\ startPc'[c] = "list"
                                                     \/ ListEntry(c)
             /\ at[c] \in closing /\ startPc[c] \in {"check", "ok", "refused"}
                  => startPc'[c] = startPc[c]
             /\ startPc[c] = "crashed" => startPc'[c] = "crashed"
  <2>1. CASE ClaimStream(d)
      BY <2>1 DEF ClaimStream, StartGoes
  <2>2. CASE CreateEntry(d)
      BY <2>2 DEF CreateEntry, StartGoes
  <2>3. CASE CheckClaim(d) \/ ListEntry(d) \/ AcquireLock(d) \/ UndoCreate(d) \/ Launch(d) \/ Activate(d)
      BY <2>3 DEF CheckClaim, ListEntry, AcquireLock, UndoCreate, Launch, Activate, StartGoes
  <2> QED
      BY <1>1, <2>1, <2>2, <2>3 DEF StartStep
<1>2. ASSUME NEW i \in Instance, Crash(i)
      PROVE  startPc'[c] = startPc[c] \/ (startPc'[c] = "crashed" /\ Crash(at[c]))
    BY <1>2 DEF Crash
<1>3. CASE startPc' = startPc
    BY <1>3
<1>4. \/ \E d \in Start : StartStep(d)
      \/ \E i \in Instance : Crash(i)
      \/ startPc' = startPc
    BY DEF Next, RunnerStep, Resolve, ResolveFails, SaveCheckpoint, ReleaseLock, RaiseFatal,
       NoticeFailure, Report, EndTask, WatcherStops, FatalError, LockLoss, TaskStep, StopCall,
       CheckStop, StopAll, ReadEntry, PublishStop, WriteStopping, CancelLocal, StopStep, Sweep,
       ScanIndex, ScanEntry, UnlistStale, DeleteDead, SweepGoes, LockExpires, vars
<1> QED
    BY <1>1, <1>2, <1>3, <1>4

\* What a stop call knows of a creator it has read in one step.
LEMMA SeenMoves ==
    ASSUME TypeOK, [Next]_vars, NEW s \in Stop
    PROVE  \/ /\ seen'[s].by = seen[s].by
              /\ stopPc'[s] \in {"check", "read"} => stopPc[s] \in {"check", "read"}
              /\ stopPc'[s] \in {"setKey"} => stopPc[s] = "setKey" /\ seen'[s] = seen[s]
              /\ stopPc'[s] \in {"write"} => /\ stopPc[s] \in {"setKey", "write"}
                                             /\ seen'[s] = seen[s]
                                             /\ stopPc[s] = "setKey" => stopKey'
              /\ stopPc'[s] \in {"cancel"} => stopPc[s] \in {"write", "cancel"}
              /\ stopPc'[s] = "done" => stopPc[s] \in {"check", "cancel", "done"}
           \/ /\ ReadEntry(s) /\ stopPc[s] = "read"
              /\ stopPc'[s] = IF Exists THEN "setKey" ELSE "done"
              /\ seen'[s].by = creator
              /\ Exists => seen'[s].at = entry.at
<1> USE DEF calls, TypeOK
<1>1. ASSUME NEW r \in Stop, ReadEntry(r)
      PROVE  \/ stopPc'[s] = stopPc[s] /\ seen'[s] = seen[s]
             \/ /\ r = s /\ ReadEntry(s) /\ stopPc[s] = "read"
                /\ stopPc'[s] = IF Exists THEN "setKey" ELSE "done"
                /\ seen'[s].by = creator
                /\ Exists => seen'[s].at = entry.at
    BY <1>1 DEF ReadEntry, StopStep, StopGoes
<1>2. ASSUME NEW r \in Stop, WriteStopping(r)
      PROVE  \/ stopPc'[s] = stopPc[s] /\ seen'[s] = seen[s]
             \/ stopPc[s] = "write" /\ stopPc'[s] = "cancel" /\ seen'[s].by = seen[s].by
    BY <1>2 DEF WriteStopping, StopStep, StopGoes
<1>3. ASSUME NEW r \in Stop, CheckStop(r) \/ StopAll(r) \/ CancelLocal(r)
      PROVE  /\ seen'[s] = seen[s]
             /\ \/ stopPc'[s] = stopPc[s]
                \/ stopPc[s] = "check" /\ stopPc'[s] \in {"read", "done"}
                \/ stopPc[s] = "cancel" /\ stopPc'[s] = "done"
    BY <1>3 DEF CheckStop, StopAll, CancelLocal, StopStep, StopGoes
<1>4. ASSUME NEW r \in Stop, PublishStop(r)
      PROVE  /\ seen'[s] = seen[s]
             /\ \/ stopPc'[s] = stopPc[s]
                \/ stopPc[s] = "setKey" /\ stopPc'[s] = "write" /\ stopKey'
    BY <1>4 DEF PublishStop, SetStopKey, StopStep, StopGoes
<1>5. ASSUME NEW i \in Instance, Crash(i)
      PROVE  seen'[s] = seen[s] /\ stopPc'[s] \in {stopPc[s], "crashed"}
    BY <1>5 DEF Crash
<1>6. \/ \E r \in Stop : StopCall(r)
      \/ \E i \in Instance : Crash(i)
      \/ stopPc' = stopPc /\ seen' = seen
    BY DEF Next, StartStep, CheckClaim, ClaimStream, CreateEntry, ListEntry, AcquireLock,
       UndoCreate, Launch, Activate, StartGoes, RunnerStep, Resolve, ResolveFails, SaveCheckpoint,
       ReleaseLock, RaiseFatal, NoticeFailure, Report, EndTask, WatcherStops, FatalError, LockLoss,
       TaskStep, Sweep, ScanIndex, ScanEntry, UnlistStale, DeleteDead, SweepGoes, LockExpires, vars
<1> QED
    BY <1>1, <1>2, <1>3, <1>4, <1>5, <1>6 DEF StopCall

\* Nobody is, or is read as, a creator before its create_stream.
LEMMA CreatorStartedStep ==
    IInv /\ EntryCreated /\ CreatorStarted /\ [Next]_vars => CreatorStarted'
<1> SUFFICES ASSUME IInv, EntryCreated, CreatorStarted, [Next]_vars PROVE CreatorStarted'
    OBVIOUS
<1>0. TypeOK /\ EntryMoves /\ None \notin Start
    BY EntryMove, RegistryAssumption DEF IInv
<1> USE <1>0
<1>1. ASSUME NEW c \in Start, creator' = c PROVE startPc'[c] \notin Early
  <2>1. creator = c => startPc[c] \notin Early
      BY DEF CreatorStarted, Early
  <2>2. ASSUME NEW d \in Start, CreateEntry(d) PROVE creator' = d /\ startPc'[d] = "list"
      BY <2>2 DEF CreateEntry, WriteEntry, StartGoes, TypeOK
  <2>3. creator' = creator \/ creator' = None \/ \E d \in Start : CreateEntry(d)
      BY LastStatus, ActiveStatus, StoppingStatus, Deletion, EntryKept DEF EntryMoves, EntryCreated
  <2>4. CASE \E d \in Start : CreateEntry(d)
      BY <1>1, <2>2, <2>4 DEF Early
  <2>5. CASE creator' = creator
      BY <1>1, <2>1, <2>5, StartMoves
  <2> QED
      BY <1>1, <2>3, <2>4, <2>5
<1>2. ASSUME NEW s \in Stop, stopPc'[s] \in {"check", "read"} PROVE seen'[s].by = None
    BY <1>2, SeenMoves DEF CreatorStarted
<1>3. ASSUME NEW s \in Stop, NEW c \in Start, seen'[s].by = c PROVE startPc'[c] \notin Early
    BY <1>3, SeenMoves, StartMoves DEF CreatorStarted, Early
<1> QED
    BY <1>1, <1>2, <1>3 DEF CreatorStarted, Early

\* A task is launched where none runs, and never comes back.
LEMMA TaskMoves ==
    ASSUME TypeOK, LaunchedOnly, [Next]_vars, NEW c \in Start
    PROVE  \/ /\ Launch(c) /\ startPc[c] = "launch" /\ task'[c] = "resolving"
              /\ \A d \in Start : ~Local(d, at[c])
              /\ \A d \in Start \ {c} : task'[d] = task[d]
           \/ /\ task'[c] = "none" <=> task[c] = "none"
              /\ task[c] = "ended" => task'[c] = "ended"
              /\ task'[c] \in {"resolving", "streaming"} => task[c] \in {"resolving", "streaming"}
<1> DEFINE Goal(d) == /\ task'[d] = "none" <=> task[d] = "none"
                      /\ task[d] = "ended" => task'[d] = "ended"
                      /\ task'[d] \in {"resolving", "streaming"} => task[d] \in {"resolving", "streaming"}
<1>0. task \in [Start -> TaskPhase]
    BY DEF TypeOK
<1>1. CASE task' = task
    BY <1>1
<1>2. ASSUME NEW d \in Start, Launch(d)
      PROVE  \/ task' = task
             \/ /\ startPc[d] = "launch" /\ task' = [task EXCEPT ![d] = "resolving"]
                /\ \A e \in Start : ~Local(e, at[d])
    BY <1>2 DEF Launch, StartGoes, TaskGoes
<1>3. ASSUME NEW d \in Start, NEW phase \in TaskPhase \ {"none"},
             task' = [task EXCEPT ![d] = phase], task[d] \notin {"none", "ended"},
             phase \in {"resolving", "streaming"} => task[d] = "resolving"
      PROVE  Goal(c)
    BY <1>0, <1>3
<1>4. ASSUME NEW d \in Start, RunnerStep(d) \/ WatcherStops(d) \/ FatalError(d) \/ LockLoss(d)
      PROVE  Goal(c)
  <2>1. task[d] \notin {"none", "ended"} /\ \E phase \in TaskPhase \ {"none"} :
           /\ task' = [task EXCEPT ![d] = phase]
           /\ phase \in {"resolving", "streaming"} => task[d] = "resolving"
      BY <1>4, CancelledPhase DEF RunnerStep, Resolve, ResolveFails, SaveCheckpoint,
         ReleaseLock, RaiseFatal, NoticeFailure, Report, EndTask, WatcherStops, FatalError,
         LockLoss, TaskStep, TaskGoes, AfterRunner, TaskPhase, RunnerPhase, Streaming
  <2> QED
      BY <1>3, <2>1
<1>5. ASSUME NEW s \in Stop, CancelLocal(s) PROVE Goal(c)
  <2>1. CASE \E d \in Start : Local(d, at[s]) /\ Cancelled(d)
    <3>1. PICK d \in Start : Local(d, at[s]) /\ Cancelled(d)
        BY <2>1
    <3>2. task[d] \notin {"none", "ended"}
          /\ \E phase \in {"saving", "report", "lastReport", "failed", "ended"} :
             task' = [task EXCEPT ![d] = phase]
        BY <3>1, CancelledPhase DEF Local, Cancelled, TaskGoes
    <3>3. {"saving", "report", "lastReport", "failed", "ended"}
             \subseteq TaskPhase \ {"none", "resolving", "streaming"}
        BY DEF TaskPhase, RunnerPhase
    <3> QED
        BY <1>3, <3>2, <3>3
  <2>2. CASE ~\E d \in Start : Local(d, at[s]) /\ Cancelled(d)
    <3>1. task' = task
        BY <1>5, <2>2 DEF CancelLocal
    <3> QED
        BY <1>1, <3>1
  <2> QED
      BY <2>1, <2>2
<1>6. ASSUME NEW i \in Instance, Crash(i) PROVE Goal(c)
    BY <1>0, <1>6 DEF Crash, Local
<1>7. \/ \E d \in Start : Launch(d)
      \/ \E d \in Start : RunnerStep(d) \/ WatcherStops(d) \/ FatalError(d) \/ LockLoss(d)
      \/ \E s \in Stop : CancelLocal(s)
      \/ \E i \in Instance : Crash(i)
      \/ task' = task
    BY DEF Next, StartStep, CheckClaim, ClaimStream, CreateEntry, ListEntry, AcquireLock,
       UndoCreate, Activate, StartGoes, StopCall, CheckStop, StopAll, ReadEntry, PublishStop,
       WriteStopping, StopStep, Sweep, ScanIndex, ScanEntry, UnlistStale, DeleteDead, SweepGoes,
       LockExpires, calls, vars
<1>8. ASSUME NEW d \in Start, startPc[d] = "launch", task' = [task EXCEPT ![d] = "resolving"]
      PROVE  c # d => Goal(c)
    BY <1>0, <1>8
<1>9. ASSUME NEW d \in Start, startPc[d] = "launch", task' = [task EXCEPT ![d] = "resolving"]
      PROVE  task'[d] = "resolving" /\ \A e \in Start \ {d} : task'[e] = task[e]
    BY <1>0, <1>9
<1> QED
    BY <1>1, <1>2, <1>4, <1>5, <1>6, <1>7, <1>8, <1>9

\* launch_stream refuses a second task of the subreddit.
LEMMA OneLocalStep == IInv /\ OneLocal /\ [Next]_vars => OneLocal'
<1> SUFFICES ASSUME IInv, OneLocal, [Next]_vars, NEW c \in Start, NEW d \in Start,
                    Local(c, at[c])', Local(d, at[c])'
             PROVE  c = d
    BY DEF OneLocal
<1>0. TypeOK /\ LaunchedOnly /\ at' = at
    BY RacesStay DEF IInv
<1>1. at[d] = at[c] /\ task'[c] \notin {"none", "ended"} /\ task'[d] \notin {"none", "ended"}
    BY <1>0 DEF Local
<1>2. CASE Launch(c) /\ (\A e \in Start : ~Local(e, at[c])) /\ \A e \in Start \ {c} : task'[e] = task[e]
    BY <1>1, <1>2 DEF Local
<1>3. CASE Launch(d) /\ (\A e \in Start : ~Local(e, at[d])) /\ \A e \in Start \ {d} : task'[e] = task[e]
    BY <1>1, <1>3 DEF Local
<1>4. CASE task[c] \notin {"none", "ended"} /\ task[d] \notin {"none", "ended"}
    BY <1>1, <1>4 DEF OneLocal, Local
<1> QED
    BY <1>0, <1>1, <1>2, <1>3, <1>4, TaskMoves

\* An attempt begins to hold the subreddit with its claim.
LEMMA HoldingMoves ==
    ASSUME IInv, [Next]_vars, NEW c \in Start, Holding(c)'
    PROVE  \/ Holding(c)
           \/ startPc'[c] = "create" /\ ClaimStream(c) /\ ~claimed /\ Claim
<1>0. TypeOK /\ LaunchedOnly
    BY DEF IInv
<1>1. CASE startPc'[c] \in OnTheWay
  <2>1. startPc[c] \in OnTheWay \/ (ClaimStream(c) /\ ~claimed /\ Claim)
      BY <1>0, <1>1, StartMoves
  <2>2. ClaimStream(c) /\ ~claimed => startPc'[c] = "create"
      BY <1>0 DEF ClaimStream, StartGoes, TypeOK
  <2> QED
      BY <2>1, <2>2 DEF Holding, OnTheWay
<1>2. CASE task'[c] \in {"resolving", "streaming"}
    BY <1>0, <1>2, TaskMoves DEF Holding
<1> QED
    BY <1>1, <1>2 DEF Holding, OnTheWay

-----------------------------------------------------------------------------
(* Without a last status written too late, one attempt holds the subreddit.  *)

\* The attempt that reports its end holds nothing from then on.
LEMMA ReporterLetsGo ==
    ASSUME IInv, NEW c \in Start, Report(c) \/ FatalError(c)
    PROVE  ~Holding(c)'
<1>1. task[c] # "none" /\ task'[c] \in {"reported", "lastReported", "erring"} /\ startPc' = startPc
    BY DEF Report, FatalError, TaskStep, TaskGoes, Streaming, IInv, TypeOK
<1>2. startPc[c] \in {"activate", "ok", "crashed"}
    BY <1>1 DEF IInv, LaunchedOnly
<1> QED
    BY <1>1, <1>2 DEF Holding

\* Nor does the one that undoes its create_stream.
LEMMA UndoerLetsGo ==
    ASSUME IInv, NEW c \in Start, UndoCreate(c)
    PROVE  Holding(c) /\ ~Holding(c)'
<1>1. startPc[c] = "undo" /\ startPc'[c] = "refused" /\ task' = task
    BY DEF UndoCreate, StartGoes, IInv, TypeOK
<1>2. task[c] = "none"
    BY <1>1 DEF IInv, LaunchedOnly
<1> QED
    BY <1>1, <1>2 DEF Holding

\* The entry is written by the holder.
LEMMA CreatorHolds ==
    ASSUME IInv, NEW c \in Start, CreateEntry(c)
    PROVE  /\ Holding(c) /\ startPc[c] = "create" /\ startPc'[c] = "list"
           /\ Exists' /\ ~Dead' /\ Complete' /\ entry'.at = at[c]
           /\ creator' = c /\ fresh' = {}
           /\ UNCHANGED <<claimed, listed, stopKey, lock, overtaken>>
<1>1. startPc[c] = "create" /\ startPc'[c] = "list" /\ WriteEntry(c, at[c]) /\ at[c] \in Instance
    BY DEF CreateEntry, StartGoes, IInv, TypeOK
<1> QED
    BY <1>1, EntryWritten DEF Holding

\* A claim is made where nobody holds one; the holder's entry dies or goes with
\* its hold.
LEMMA ClaimHeldStep ==
    IInv /\ EntryCreated /\ ClaimHeld /\ [Next]_vars => ClaimHeld'
<1> SUFFICES ASSUME IInv, EntryCreated, ClaimHeld, [Next]_vars,
                    "terminal" \notin overtaken'
             PROVE  /\ creator' # None => claimed'
                    /\ \A c, d \in Start : Holding(c)' /\ Holding(d)' => c = d
                    /\ \A c \in Start : Holding(c)' =>
                          /\ claimed'
                          /\ startPc'[c] = "create" => creator' = None
                          /\ startPc'[c] # "create" => creator' = c /\ ~Dead'
    BY DEF ClaimHeld, Without
<1> DEFINE Goal == /\ creator' # None => claimed'
                   /\ \A c, d \in Start : Holding(c)' /\ Holding(d)' => c = d
                   /\ \A c \in Start : Holding(c)' =>
                         /\ claimed'
                         /\ startPc'[c] = "create" => creator' = None
                         /\ startPc'[c] # "create" => creator' = c /\ ~Dead'
<1>0. TypeOK /\ EntryMoves /\ LaunchedOnly /\ None \notin Start
    BY EntryMove, RegistryAssumption DEF IInv
<1>1. /\ creator # None => claimed
      /\ \A c, d \in Start : Holding(c) /\ Holding(d) => c = d
      /\ \A c \in Start : Holding(c) =>
            /\ claimed
            /\ startPc[c] = "create" => creator = None
            /\ startPc[c] # "create" => creator = c /\ ~Dead
    BY RacesStay DEF ClaimHeld, Without
<1>2. ASSUME NEW c \in Start, Holding(c)'
      PROVE  Holding(c) \/ (startPc'[c] = "create" /\ ClaimStream(c) /\ ~claimed /\ Claim)
    BY <1>2, HoldingMoves
<1>3. ASSUME NEW c \in Start, Holding(c), Holding(c)'
      PROVE  /\ startPc'[c] = "create" => startPc[c] = "create"
             /\ startPc'[c] # "create" => startPc[c] # "create" \/ CreateEntry(c)
  <2>1. CASE startPc[c] = "create"
    <3>1. task[c] = "none"
        BY <1>0, <2>1 DEF LaunchedOnly
    <3>2. startPc'[c] # "crashed"
      <4>1. task'[c] \notin {"resolving", "streaming"}
          BY <1>0, <2>1, <3>1, TaskMoves
      <4> QED
          BY <1>3, <4>1 DEF Holding
    <3> QED
        BY <1>0, <2>1, <3>2, StartMoves
  <2>2. CASE startPc[c] # "create"
    <3>1. ~claimed => ~Holding(c)
        BY <1>1
    <3> QED
        BY <1>0, <1>3, <2>2, <3>1, StartMoves
  <2> QED
      BY <2>1, <2>2
<1>4. ASSUME NEW c \in Start, ClaimStream(c), ~claimed, Claim PROVE Goal
  <2>1. /\ claimed' /\ entry' = entry /\ creator' = creator /\ task' = task
        /\ startPc'[c] = "create" /\ \A d \in Start \ {c} : startPc'[d] = startPc[d]
      BY <1>0, <1>4 DEF ClaimStream, Claim, StartGoes, TypeOK
  <2>2. \A d \in Start : ~Holding(d)
      BY <1>1, <1>4
  <2>3. ASSUME NEW d \in Start, Holding(d)' PROVE d = c
      BY <2>1, <2>2, <2>3 DEF Holding
  <2> QED
      BY <1>1, <1>4, <2>1, <2>3
<1>5. CASE ~\E c \in Start : ClaimStream(c) /\ ~claimed /\ Claim
  <2>1. \A c \in Start : Holding(c)' => Holding(c)
      BY <1>2, <1>5
  <2>2. \A c, d \in Start : Holding(c)' /\ Holding(d)' => c = d
      BY <1>1, <2>1
  <2>3. ASSUME entry' = entry, creator' = creator,
               claimed' = claimed \/ (~claimed /\ \E c \in Start : ClaimStream(c))
        PROVE  Goal
    <3>1. claimed' = claimed
        BY <1>5, <2>3 DEF ClaimStream
    <3>2. ASSUME NEW c \in Start, CreateEntry(c) PROVE FALSE
      <4>1. Holding(c) /\ startPc[c] = "create" /\ creator' = c
          BY <3>2, CreatorHolds
      <4> QED
          BY <1>0, <1>1, <2>3, <4>1
    <3> QED
        BY <1>1, <1>3, <2>1, <2>2, <2>3, <3>1, <3>2, EntryKept
  <2>4. ASSUME NEW c \in Start, CreateEntry(c) PROVE Goal
    <3>1. /\ Holding(c) /\ startPc'[c] = "list" /\ creator' = c /\ ~Dead' /\ claimed' = claimed
        BY <2>4, CreatorHolds
    <3>2. \A d \in Start : Holding(d)' => d = c
        BY <1>1, <2>1, <3>1
    <3> QED
        BY <1>1, <2>2, <3>1, <3>2
  <2>5. ASSUME NEW c \in Start, Activate(c) PROVE Goal
    <3>1. ~Dead' /\ claimed' = claimed /\ creator' = creator /\ \A d \in Start : ~CreateEntry(d)
      <4>1. startPc[c] = "activate" /\ startPc'[c] = "ok" /\ \A d \in Start \ {c} : startPc'[d] = startPc[d]
          BY <1>0, <2>5 DEF Activate, StartGoes, TypeOK
      <4>2. ASSUME NEW d \in Start, CreateEntry(d) PROVE FALSE
          BY <4>1, <4>2, CreatorHolds
      <4> QED
          BY <1>0, <2>5, <4>2, ActiveStatus
    <3> QED
        BY <1>1, <1>3, <2>1, <2>2, <3>1
  <2>6. ASSUME NEW c \in Start, Report(c) \/ FatalError(c) PROVE Goal
    <3>1. creator = c /\ creator' = creator /\ claimed' = claimed /\ ~Holding(c)'
        BY <1>0, <2>6, LastStatus, ReporterLetsGo
    <3>2. \A d \in Start : ~Holding(d)'
        BY <1>0, <1>1, <2>1, <3>1
    <3> QED
        BY <1>1, <3>1, <3>2
  <2>7. ASSUME NEW s \in Stop, WriteStopping(s) PROVE Goal
    <3>1. ~Dead' /\ claimed' = claimed /\ creator' = creator
        BY <1>0, <2>7, StoppingStatus
    <3>2. ASSUME NEW d \in Start, CreateEntry(d) PROVE FALSE
      <4>1. startPc' = startPc
          BY <2>7 DEF WriteStopping, StopStep
      <4> QED
          BY <3>2, <4>1, CreatorHolds
    <3> QED
        BY <1>1, <1>3, <2>1, <2>2, <3>1, <3>2
  <2>8. ASSUME NEW c \in Start, UndoCreate(c), Complete, entry' = None PROVE Goal
    <3>1. creator' = None /\ Holding(c) /\ ~Holding(c)'
        BY <2>8, Deletion, UndoerLetsGo
    <3> QED
        BY <1>1, <2>1, <3>1
  <2>9. ASSUME NEW w \in Sweeper, DeleteDead(w), w \in fresh PROVE Goal
    <3>1. Dead /\ Complete
        BY <2>9 DEF EntryCreated
    <3>2. creator' = None
        BY <2>9, <3>1, Deletion, EntryKept
    <3>3. \A c \in Start : ~Holding(c)
        BY <1>1, <3>1 DEF EntryCreated
    <3> QED
        BY <2>1, <3>2, <3>3
  <2> QED
      BY <1>0, <2>3, <2>4, <2>5, <2>6, <2>7, <2>8, <2>9 DEF EntryMoves
<1> QED
    BY <1>4, <1>5

\* A stop request goes with the entry, and the entry with its holder.
LEMMA RequestHeldStep ==
    IInv /\ EntryCreated /\ CreatorStarted /\ ClaimHeld /\ RequestHeld /\ [Next]_vars => RequestHeld'
<1> SUFFICES ASSUME IInv, EntryCreated, CreatorStarted, ClaimHeld, RequestHeld, [Next]_vars,
                    "terminal" \notin overtaken', NEW s \in Stop, NEW c \in Start,
                    seen'[s].by = c, stopPc'[s] \in {"write", "cancel", "done"}, Holding(c)'
             PROVE  stopKey'
    BY DEF RequestHeld, Without
<1>0. TypeOK /\ EntryMoves /\ None \notin Start
    BY EntryMove, RegistryAssumption DEF IInv
<1>1. stopKey' \/ (seen[s].by = c /\ stopPc[s] \in {"write", "cancel", "done"})
    BY <1>0, SeenMoves, EntryKept DEF CreatorStarted, EntryCreated
<1>2. CASE seen[s].by = c /\ stopPc[s] \in {"write", "cancel", "done"}
  <2>1. startPc[c] \notin {"check", "claim", "create"}
      BY <1>2 DEF CreatorStarted
  <2>2. Holding(c)
      BY <2>1, HoldingMoves DEF ClaimStream
  <2>3. "terminal" \notin overtaken
      BY RacesStay
  <2>4. stopKey
      BY <1>2, <2>2, <2>3 DEF RequestHeld, Without
  <2>5. creator = c /\ ~Dead /\ \A d \in Start : Holding(d) => d = c
      BY <2>1, <2>2, <2>3 DEF ClaimHeld, Without
  <2>6. ASSUME NEW d \in Start, UndoCreate(d) PROVE FALSE
      BY <2>5, <2>6, UndoerLetsGo
  <2>7. ASSUME NEW w \in Sweeper, w \in fresh PROVE FALSE
      BY <2>5, <2>7 DEF EntryCreated
  <2> QED
      BY <1>0, <2>4, <2>6, <2>7, CreatorHolds, ActiveStatus, LastStatus, StoppingStatus DEF EntryMoves
<1> QED
    BY <1>1, <1>2

\* An entry is listed by its creator, and taken off the index with its deletion.
LEMMA EntryListedStep ==
    IInv /\ EntryCreated /\ CreatorStarted /\ EntryListed /\ [Next]_vars => EntryListed'
<1> SUFFICES ASSUME IInv, EntryCreated, CreatorStarted, EntryListed, [Next]_vars,
                    "unlist" \notin overtaken', NEW c \in Start,
                    creator' = c, startPc'[c] \notin {"create", "list", "crashed"}
             PROVE  listed'
    BY DEF EntryListed, Without
<1>0. TypeOK /\ EntryMoves /\ None \notin Start
    BY EntryMove, RegistryAssumption DEF IInv
<1>1. ListEntry(c) => listed'
    BY DEF ListEntry, List
<1>2. ASSUME creator = c, ~ListEntry(c) PROVE listed /\ Exists
  <2>1. startPc[c] \notin {"create", "list", "crashed"}
      BY <1>0, <1>2, StartMoves DEF CreatorStarted
  <2>2. "unlist" \notin overtaken
      BY RacesStay
  <2> QED
      BY <1>0, <1>2, <2>1, <2>2, EntryKept DEF EntryListed, Without, EntryCreated
<1>3. ASSUME NEW w \in Sweeper, DeleteDead(w), w \in fresh PROVE creator' = None
  <2>1. Exists
      BY <1>3, EntryKept DEF EntryCreated
  <2> QED
      BY <1>3, <2>1, Deletion
<1>4. ASSUME NEW d \in Start, UndoCreate(d), Complete, entry' = None PROVE creator' = None
    BY <1>4, Deletion
<1>5. ASSUME NEW d \in Start, CreateEntry(d) PROVE creator' = d /\ startPc'[d] = "list"
    BY <1>5, CreatorHolds
<1> QED
    BY <1>0, <1>1, <1>2, <1>3, <1>4, <1>5, ActiveStatus, LastStatus, StoppingStatus DEF EntryMoves

\* Without late "active" and "stopping", every status is written by the
\* creator's process or names it.
LEMMA CreatorNamedStep ==
    IInv /\ EntryCreated /\ CreatorNamed /\ [Next]_vars => CreatorNamed'
<1> SUFFICES ASSUME IInv, EntryCreated, CreatorNamed, [Next]_vars,
                    "active" \notin overtaken', "stop" \notin overtaken'
             PROVE  /\ \A c \in Start : creator' = c => entry'.at = at'[c]
                    /\ \A s \in Stop, c \in Start :
                          seen'[s].by = c /\ stopPc'[s] \in {"setKey", "write"}
                             => seen'[s].at = at'[c]
    BY DEF CreatorNamed, Without
<1>0. TypeOK /\ EntryMoves /\ None \notin Start /\ at' = at
    BY EntryMove, RacesStay, RegistryAssumption DEF IInv
<1>1. /\ \A c \in Start : creator = c => entry.at = at[c] /\ Exists
      /\ \A s \in Stop, c \in Start :
            seen[s].by = c /\ stopPc[s] \in {"setKey", "write"} => seen[s].at = at[c]
    BY <1>0, RacesStay, EntryKept DEF CreatorNamed, Without, EntryCreated
<1>2. ASSUME NEW c \in Start, creator' = c PROVE entry'.at = at[c]
  <2>1. CASE entry' = entry /\ creator' = creator
      BY <1>1, <1>2, <2>1
  <2>2. ASSUME NEW d \in Start, CreateEntry(d) PROVE entry'.at = at[c]
      BY <1>2, <2>2, CreatorHolds
  <2>3. ASSUME NEW d \in Start, Activate(d) PROVE entry'.at = at[c]
      BY <1>0, <1>1, <1>2, <2>3, ActiveStatus
  <2>4. ASSUME NEW d \in Start, Report(d) \/ FatalError(d) PROVE entry'.at = at[c]
      BY <1>0, <1>1, <1>2, <2>4, LastStatus
  <2>5. ASSUME NEW s \in Stop, WriteStopping(s) PROVE entry'.at = at[c]
    <3>1. stopPc[s] = "write"
        BY <2>5 DEF WriteStopping
    <3>2. at[c] \in Instance /\ at[c] # None
        BY <1>0, RegistryAssumption DEF TypeOK
    <3>3. creator = c /\ seen[s].by = c
        BY <1>0, <1>2, <2>5, StoppingStatus
    <3> QED
        BY <1>0, <1>1, <2>5, <3>1, <3>2, <3>3, StoppingStatus
  <2>6. ASSUME NEW d \in Start, UndoCreate(d), Complete, entry' = None PROVE FALSE
      BY <1>0, <1>2, <2>6, Deletion
  <2>7. ASSUME NEW w \in Sweeper, DeleteDead(w), w \in fresh PROVE FALSE
    <3>1. Exists
        BY <2>7, EntryKept DEF EntryCreated
    <3> QED
        BY <1>0, <1>2, <2>7, <3>1, Deletion
  <2> QED
      BY <1>0, <2>1, <2>2, <2>3, <2>4, <2>5, <2>6, <2>7 DEF EntryMoves
<1>3. ASSUME NEW s \in Stop, NEW c \in Start, seen'[s].by = c, stopPc'[s] \in {"setKey", "write"}
      PROVE  seen'[s].at = at[c]
    BY <1>0, <1>1, <1>3, SeenMoves
<1> QED
    BY <1>0, <1>2, <1>3

-----------------------------------------------------------------------------
(* The shutdown and the lease.                                               *)

\* A stop call goes on to its cancellation, unless there is nothing to stop.
LEMMA StopForward ==
    ASSUME TypeOK, [Next]_vars, NEW s \in Stop, stopPc[s] \in {"read", "setKey", "write", "cancel"}
    PROVE  \/ stopPc'[s] \in {"read", "setKey", "write", "cancel"}
           \/ ReadEntry(s) /\ ~Exists
           \/ CancelLocal(s)
           \/ Crash(at[s])
<1> USE DEF calls, TypeOK
<1>1. ASSUME NEW r \in Stop, StopCall(r)
      PROVE  \/ stopPc'[s] \in {"read", "setKey", "write", "cancel"}
             \/ ReadEntry(s) /\ ~Exists
             \/ CancelLocal(s)
  <2>1. CASE r = s
      BY <1>1, <2>1 DEF StopCall, CheckStop, StopAll, ReadEntry, PublishStop, WriteStopping, StopStep, StopGoes
  <2>2. CASE r # s
      BY <1>1, <2>2 DEF StopCall, CheckStop, StopAll, ReadEntry, PublishStop, WriteStopping, CancelLocal,
         StopStep, StopGoes
  <2> QED
      BY <2>1, <2>2
<1>2. ASSUME NEW i \in Instance, Crash(i) PROVE stopPc'[s] = stopPc[s] \/ Crash(at[s])
    BY <1>2 DEF Crash
<1>3. \/ \E r \in Stop : StopCall(r)
      \/ \E i \in Instance : Crash(i)
      \/ stopPc' = stopPc
    BY DEF Next, StartStep, CheckClaim, ClaimStream, CreateEntry, ListEntry, AcquireLock,
       UndoCreate, Launch, Activate, StartGoes, RunnerStep, Resolve, ResolveFails, SaveCheckpoint,
       ReleaseLock, RaiseFatal, NoticeFailure, Report, EndTask, WatcherStops, FatalError, LockLoss,
       TaskStep, Sweep, ScanIndex, ScanEntry, UnlistStale, DeleteDead, SweepGoes, LockExpires, vars
<1> QED
    BY <1>1, <1>2, <1>3

\* A process begins its shutdown with StopAll, and comes back after a crash.
LEMMA ClosingMoves ==
    ASSUME [Next]_vars
    PROVE  \/ closing' = closing
           \/ \E s \in Stop : StopAll(s)
           \/ \E i \in Instance : Crash(i) /\ closing' = closing \ {i}
BY DEF Next, StartStep, CheckClaim, ClaimStream, CreateEntry, ListEntry, AcquireLock,
   UndoCreate, Launch, Activate, StartGoes, RunnerStep, Resolve, ResolveFails, SaveCheckpoint,
   ReleaseLock, RaiseFatal, NoticeFailure, Report, EndTask, WatcherStops, FatalError, LockLoss,
   TaskStep, StopCall, CheckStop, ReadEntry, PublishStop, WriteStopping, CancelLocal, StopStep,
   Sweep, ScanIndex, ScanEntry, UnlistStale, DeleteDead, SweepGoes, LockExpires, Crash, calls, vars

\* stop_all waits for the start calls and stops what runs.
LEMMA ClosingStopsStep ==
    IInv /\ EntryCreated /\ OneLocal /\ ClaimHeld /\ ClosingStops /\ [Next]_vars => ClosingStops'
<1> SUFFICES ASSUME IInv, EntryCreated, OneLocal, ClaimHeld, ClosingStops, [Next]_vars,
                    NEW c \in Start, at'[c] \in closing'
             PROVE  /\ startPc'[c] \in {"check", "ok", "refused"}
                    /\ "terminal" \notin overtaken' /\ task'[c] \in {"resolving", "streaming"}
                       => \E s \in Stop : /\ at'[s] = at'[c]
                                          /\ stopPc'[s] \in {"read", "setKey", "write", "cancel"}
    BY DEF ClosingStops, Without
<1>0. TypeOK /\ LaunchedOnly /\ at' = at /\ None \notin Start
    BY RacesStay, RegistryAssumption DEF IInv
<1>1. ASSUME NEW s \in Stop, StopAll(s), at[c] = at[s]
      PROVE  /\ startPc'[c] \in {"check", "ok", "refused"}
             /\ task'[c] \in {"resolving", "streaming"} => stopPc'[s] = "read"
    BY <1>0, <1>1 DEF StopAll, StopGoes, Local, TypeOK
<1>2. at[c] \in closing \/ \E s \in Stop : StopAll(s) /\ at[c] = at[s]
    BY <1>0, ClosingMoves DEF StopAll
<1>3. ASSUME at[c] \in closing
      PROVE  /\ startPc'[c] = startPc[c] /\ startPc[c] \in {"check", "ok", "refused"} /\ ~Crash(at[c])
  <2>1. Crash(at[c]) => at[c] \notin closing'
      BY DEF Crash
  <2> QED
      BY <1>0, <1>3, <2>1, StartMoves DEF ClosingStops
<1>4. ASSUME at[c] \in closing, "terminal" \notin overtaken', task'[c] \in {"resolving", "streaming"}
      PROVE  \E s \in Stop : at[s] = at[c] /\ stopPc'[s] \in {"read", "setKey", "write", "cancel"}
  <2>1. task[c] \in {"resolving", "streaming"}
      BY <1>0, <1>3, <1>4, TaskMoves
  <2>2. "terminal" \notin overtaken
      BY <1>4, RacesStay
  <2>3. PICK s \in Stop : at[s] = at[c] /\ stopPc[s] \in {"read", "setKey", "write", "cancel"}
      BY <1>4, <2>1, <2>2 DEF ClosingStops, Without
  <2>4. Exists
    <3>1. Holding(c) /\ startPc[c] # "create"
        BY <1>3, <1>4, <2>1 DEF Holding
    <3>2. creator = c
        BY <2>2, <3>1 DEF ClaimHeld, Without
    <3> QED
        BY <1>0, <3>2, EntryKept DEF EntryCreated
  <2>5. ~CancelLocal(s)
    <3>1. SUFFICES ASSUME CancelLocal(s) PROVE FALSE
        OBVIOUS
    <3>2. Local(c, at[s])
        BY <2>1, <2>3 DEF Local
    <3>3. PICK d \in Start : Local(d, at[s]) /\ Cancelled(d)
        BY <3>1, <3>2 DEF CancelLocal
    <3>4. d = c
        BY <2>3, <3>2, <3>3 DEF OneLocal
    <3>5. task'[c] \in {"saving", "report", "lastReport", "failed"}
        BY <1>0, <2>1, <3>3, <3>4, CancelledPhase DEF Cancelled, RunnerPhase, TaskGoes, TypeOK
    <3> QED
        BY <1>4, <3>5
  <2> QED
      BY <1>0, <1>3, <1>4, <2>3, <2>4, <2>5, StopForward
<1> QED
    BY <1>0, <1>1, <1>2, <1>3, <1>4

\* How one attempt goes on in one step.
LEMMA AttemptForward ==
    ASSUME IInv, [Next]_vars, NEW c \in Start
    PROVE  /\ startPc[c] \in {"list", "lock", "undo", "launch"}
                => \/ startPc'[c] \in {"list", "lock", "undo", "launch", "crashed"}
                   \/ UndoCreate(c)
                   \/ task'[c] = "resolving" \/ "skipped" \in overtaken'
           /\ startPc[c] = "launch"
                => \/ startPc'[c] \in {"launch", "crashed"}
                   \/ task'[c] = "resolving" \/ "skipped" \in overtaken'
           /\ task[c] \in RunnerPhase
                => \/ task'[c] \in RunnerPhase \/ startPc'[c] = "crashed"
                   \/ ReleaseLock(c)
                   \/ "abandoned" \in overtaken' \/ "interrupted" \in overtaken'
           /\ task[c] \notin {"none", "reported", "lastReported", "ended"}
                => \/ task'[c] \notin {"none", "reported", "lastReported", "ended"}
                   \/ startPc'[c] = "crashed"
                   \/ Report(c) \/ "unreported" \in overtaken'
<1> DEFINE Forward ==
             /\ startPc[c] \in {"list", "lock", "undo", "launch"}
                  => \/ startPc'[c] \in {"list", "lock", "undo", "launch", "crashed"}
                     \/ UndoCreate(c)
                     \/ task'[c] = "resolving" \/ "skipped" \in overtaken'
             /\ startPc[c] = "launch"
                  => \/ startPc'[c] \in {"launch", "crashed"}
                     \/ task'[c] = "resolving" \/ "skipped" \in overtaken'
             /\ task[c] \in RunnerPhase
                  => \/ task'[c] \in RunnerPhase \/ startPc'[c] = "crashed"
                     \/ ReleaseLock(c)
                     \/ "abandoned" \in overtaken' \/ "interrupted" \in overtaken'
             /\ task[c] \notin {"none", "reported", "lastReported", "ended"}
                  => \/ task'[c] \notin {"none", "reported", "lastReported", "ended"}
                     \/ startPc'[c] = "crashed"
                     \/ Report(c) \/ "unreported" \in overtaken'
<1>0. CallTypes /\ LaunchedOnly
    BY DEF IInv, TypeOK, CallTypes
<1>1. CASE startPc'[c] = startPc[c] /\ task'[c] = task[c]
    BY <1>1
<1>2. ASSUME startPc[c] \in {"list", "lock", "undo", "launch"} PROVE task[c] = "none"
    BY <1>0, <1>2 DEF LaunchedOnly
<1>3. ASSUME NEW d \in Start, StartStep(d) PROVE Forward
  <2>1. CASE d # c
    <3>1. startPc'[c] = startPc[c] /\ task'[c] = task[c]
        BY <1>0, <1>3, <2>1 DEF CallTypes, StartStep, CheckClaim, ClaimStream, CreateEntry, ListEntry,
           AcquireLock, UndoCreate, Launch, Activate, StartGoes, TaskGoes
    <3> QED
        BY <1>1, <3>1
  <2>2. CASE d = c /\ Launch(c)
    <3>1. startPc[c] = "launch" /\ (task'[c] = "resolving" \/ "skipped" \in overtaken')
        BY <1>0, <2>2 DEF CallTypes, Launch, StartGoes, TaskGoes, NoteOnly, Note
    <3>2. task[c] = "none"
        BY <1>2, <3>1
    <3> QED
        BY <3>1, <3>2 DEF RunnerPhase
  <2>3. CASE d = c /\ ~Launch(c)
    <3>1. task' = task /\ startPc[c] # "launch"
             /\ (startPc[c] \in {"list", "lock"} => startPc'[c] \in {"lock", "undo", "launch"})
             /\ (startPc[c] = "undo" => UndoCreate(c))
        BY <1>0, <1>3, <2>3 DEF CallTypes, StartStep, CheckClaim, ClaimStream, CreateEntry, ListEntry,
           AcquireLock, UndoCreate, Activate, StartGoes
    <3> QED
        BY <3>1
  <2> QED
      BY <2>1, <2>2, <2>3
<1>4. ASSUME NEW d \in Start, RunnerStep(d) \/ WatcherStops(d) \/ FatalError(d) \/ LockLoss(d)
      PROVE  Forward
  <2>1. startPc' = startPc /\ \A e \in Start \ {d} : task'[e] = task[e]
      BY <1>0, <1>4 DEF CallTypes, RunnerStep, Resolve, ResolveFails, SaveCheckpoint, ReleaseLock,
         RaiseFatal, NoticeFailure, Report, EndTask, WatcherStops, FatalError, LockLoss, TaskStep,
         TaskGoes
  <2>2. CASE d # c
      BY <1>1, <2>1, <2>2
  <2>3. CASE d = c
    <3>1. task[c] # "none" /\ startPc[c] \notin {"list", "lock", "undo", "launch"}
        BY <1>0, <1>2, <1>4, <2>3 DEF RunnerStep, Resolve, ResolveFails, SaveCheckpoint, ReleaseLock,
           RaiseFatal, NoticeFailure, Report, EndTask, WatcherStops, FatalError, LockLoss,
           RunnerPhase, Streaming
    <3>2. CASE WatcherStops(c)
      <4>1. task[c] \in RunnerPhase /\ task'[c] = CancelledRunner(c, "watcher")
            /\ overtaken' = overtaken \cup CutShort(c)
          BY <1>0, <3>2 DEF CallTypes, WatcherStops, TaskStep, TaskGoes, NoteOnly, Note
      <4>2. CASE task[c] \in {"streaming", "erring"}
          BY <3>1, <4>1, <4>2 DEF CancelledRunner, RunnerPhase
      <4>3. CASE task[c] \in {"resolving", "saving", "releasing"}
          BY <3>1, <4>1, <4>3 DEF CancelledRunner, CutShort, AfterRunner
      <4> QED
          BY <4>1, <4>2, <4>3 DEF RunnerPhase
    <3>3. CASE ResolveFails(c)
      <4>1. task'[c] = "failed" /\ "abandoned" \in overtaken'
          BY <1>0, <3>3 DEF CallTypes, ResolveFails, TaskStep, TaskGoes, NoteOnly, Note
      <4> QED
          BY <3>1, <4>1
    <3>4. CASE Resolve(c) \/ SaveCheckpoint(c) \/ RaiseFatal(c) \/ FatalError(c) \/ LockLoss(c)
      <4>1. task'[c] \in RunnerPhase
          BY <1>0, <3>4 DEF CallTypes, Resolve, SaveCheckpoint, RaiseFatal, FatalError, LockLoss,
             TaskStep, TaskGoes, RunnerPhase
      <4> QED
          BY <3>1, <4>1 DEF RunnerPhase
    <3>5. CASE ReleaseLock(c) \/ NoticeFailure(c)
      <4>1. task'[c] \in {"report", "lastReport", "failed"}
            /\ (task[c] \in RunnerPhase => ReleaseLock(c))
          BY <1>0, <3>5 DEF CallTypes, ReleaseLock, NoticeFailure, TaskStep, TaskGoes, AfterRunner,
             RunnerPhase
      <4> QED
          BY <3>1, <4>1
    <3>6. CASE Report(c) \/ EndTask(c)
      <4>1. task[c] \notin RunnerPhase /\ (Report(c) \/ task[c] \in {"reported", "lastReported"})
          BY <3>6 DEF Report, EndTask, RunnerPhase
      <4> QED
          BY <3>1, <4>1
    <3> QED
        BY <1>4, <2>3, <3>2, <3>3, <3>4, <3>5, <3>6 DEF RunnerStep
  <2> QED
      BY <2>2, <2>3
<1>5. ASSUME NEW s \in Stop, CancelLocal(s) PROVE Forward
  <2>1. startPc' = startPc
      BY <1>5 DEF CancelLocal
  <2>2. CASE task' = task
      BY <1>1, <2>1, <2>2
  <2>3. ASSUME NEW d \in Start, Local(d, at[s]), Cancelled(d), NoteOnly(CutShort(d)) PROVE Forward
    <3>1. \A e \in Start \ {d} : task'[e] = task[e]
        BY <1>0, <2>3 DEF CallTypes, Cancelled, TaskGoes
    <3>2. CASE d # c
        BY <1>1, <2>1, <3>1, <3>2
    <3>3. CASE d = c
      <4>1. task[c] \notin {"none", "ended"} /\ startPc[c] \notin {"list", "lock", "undo", "launch"}
            /\ overtaken' = overtaken \cup CutShort(c)
          BY <1>2, <2>3, <3>3 DEF Local, NoteOnly, Note
      <4>2. CASE task[c] \in {"streaming", "erring"}
        <5>1. task'[c] = "saving"
            BY <1>0, <2>3, <3>3, <4>2 DEF CallTypes, Cancelled, TaskGoes, CancelledRunner, RunnerPhase
        <5> QED
            BY <4>1, <5>1 DEF RunnerPhase
      <4>3. CASE task[c] \in {"resolving", "saving", "releasing"}
        <5>1. task'[c] \in {"report", "lastReport", "failed"}
            BY <1>0, <2>3, <3>3, <4>3 DEF CallTypes, Cancelled, TaskGoes, CancelledRunner, AfterRunner,
               RunnerPhase
        <5> QED
            BY <4>1, <4>3, <5>1 DEF CutShort
      <4>4. CASE task[c] \in {"report", "reported"}
        <5>1. task'[c] = "lastReport"
            BY <1>0, <2>3, <3>3, <4>4 DEF CallTypes, Cancelled, TaskGoes, RunnerPhase
        <5> QED
            BY <4>1, <4>4, <5>1 DEF RunnerPhase
      <4>5. CASE task[c] \in {"failed", "lastReport"}
          BY <2>1, <4>1, <4>5 DEF CutShort, RunnerPhase
      <4>6. CASE task[c] = "lastReported"
          BY <2>1, <4>1, <4>6 DEF RunnerPhase
      <4> QED
          BY <1>0, <4>1, <4>2, <4>3, <4>4, <4>5, <4>6 DEF CallTypes, TaskPhase, RunnerPhase
    <3> QED
        BY <3>2, <3>3
  <2> QED
      BY <1>5, <2>2, <2>3 DEF CancelLocal
<1>6. ASSUME NEW i \in Instance, Crash(i) PROVE Forward
  <2>1. (startPc'[c] = "crashed") \/ (startPc'[c] = startPc[c] /\ task'[c] = task[c])
      BY <1>6 DEF Crash, Local
  <2> QED
      BY <1>1, <1>2, <2>1 DEF RunnerPhase
<1>7. \/ \E d \in Start : StartStep(d)
      \/ \E d \in Start : RunnerStep(d) \/ WatcherStops(d) \/ FatalError(d) \/ LockLoss(d)
      \/ \E s \in Stop : CancelLocal(s)
      \/ \E i \in Instance : Crash(i)
      \/ task' = task /\ startPc' = startPc
    BY DEF Next, StopCall, CheckStop, StopAll, ReadEntry, PublishStop, WriteStopping, StopStep,
       Sweep, ScanIndex, ScanEntry, UnlistStale, DeleteDead, SweepGoes, LockExpires, calls, vars
<1> QED
    BY <1>1, <1>3, <1>4, <1>5, <1>6, <1>7

\* The lock is taken by a start that is to launch, and released by its runner.
LEMMA LeaseMoves ==
    ASSUME TypeOK, [Next]_vars, NEW c \in Start, lock' = c
    PROVE  \/ lock = c /\ ~ReleaseLock(c)
           \/ startPc'[c] = "launch"
<1>0. None \notin Start
    BY RegistryAssumption
<1>1. ASSUME NEW d \in Start, AcquireLock(d) PROVE lock' = lock \/ (lock' = d /\ startPc'[d] = "launch")
    BY <1>1 DEF AcquireLock, StartGoes, SetLock, TypeOK, registry
<1>2. ASSUME NEW d \in Start, ReleaseLock(d) PROVE lock' = None \/ (lock' = lock /\ lock # d)
    BY <1>2 DEF ReleaseLock, SetLock, registry
<1>3. LockExpires => lock' = None
    BY DEF LockExpires, SetLock
<1>4. \/ \E d \in Start : AcquireLock(d) \/ ReleaseLock(d)
      \/ LockExpires
      \/ lock' = lock
  <2>1. ASSUME NEW d \in Start, StartStep(d) PROVE AcquireLock(d) \/ lock' = lock
      BY <2>1 DEF StartStep, CheckClaim, ClaimStream, CreateEntry, ListEntry, UndoCreate, Launch,
         Activate, Claim, WriteEntry, List, DeleteEntry, NoteOnly, UpdateStatus, registry
  <2>2. ASSUME NEW d \in Start, RunnerStep(d) \/ WatcherStops(d) \/ FatalError(d) \/ LockLoss(d)
        PROVE  ReleaseLock(d) \/ lock' = lock
      BY <2>2 DEF RunnerStep, Resolve, ResolveFails, SaveCheckpoint, RaiseFatal, NoticeFailure,
         Report, EndTask, WatcherStops, FatalError, LockLoss, NoteOnly, UpdateStatus, registry
  <2>3. ASSUME NEW s \in Stop, StopCall(s) PROVE lock' = lock
      BY <2>3 DEF StopCall, CheckStop, StopAll, ReadEntry, PublishStop, WriteStopping, CancelLocal,
         SetStopKey, NoteOnly, UpdateStatus, registry
  <2>4. ASSUME NEW w \in Sweeper, Sweep(w) PROVE lock' = lock
      BY <2>4 DEF Sweep, ScanIndex, ScanEntry, UnlistStale, DeleteDead, Remember, Unlist,
         DeleteEntry, registry
  <2>5. (\E i \in Instance : Crash(i)) \/ UNCHANGED vars => lock' = lock
      BY DEF Crash, vars, registry
  <2> QED
      BY <2>1, <2>2, <2>3, <2>4, <2>5 DEF Next
<1>5. ReleaseLock(c) => lock' = None \/ lock # c
    BY DEF ReleaseLock, SetLock
<1> QED
    BY <1>0, <1>1, <1>2, <1>3, <1>4, <1>5

\* The lease passes from its start to its runner, whose end returns it.
LEMMA LeaseInUseStep == IInv /\ LeaseInUse /\ [Next]_vars => LeaseInUse'
<1> SUFFICES ASSUME IInv, LeaseInUse, [Next]_vars,
                    overtaken' \cap {"interrupted", "abandoned", "skipped"} = {},
                    NEW c \in Start, lock' = c
             PROVE  startPc'[c] \in {"launch", "crashed"} \/ task'[c] \in RunnerPhase
    BY DEF LeaseInUse, Without
<1>0. TypeOK
    BY DEF IInv
<1>1. overtaken \cap {"interrupted", "abandoned", "skipped"} = {}
    BY RacesStay
<1>2. CASE lock = c /\ ~ReleaseLock(c)
  <2>1. startPc[c] \in {"launch", "crashed"} \/ task[c] \in RunnerPhase
      BY <1>1, <1>2 DEF LeaseInUse, Without
  <2>2. startPc[c] = "crashed" => startPc'[c] = "crashed"
      BY <1>0, StartMoves
  <2>3. "resolving" \in RunnerPhase
      BY DEF RunnerPhase
  <2> QED
      BY <1>2, <2>1, <2>2, <2>3, AttemptForward
<1> QED
    BY <1>0, <1>2, LeaseMoves

-----------------------------------------------------------------------------
(* What is left when nothing is under way.                                   *)

\* Without a race, the entry has a claim and a creator at every step, and it
\* dies with the last step of its creator.
LEMMA SettlingStep ==
    IInv /\ EntryCreated /\ CreatorStarted /\ ClaimHeld /\ Settling /\ [Next]_vars => Settling'
<1> DEFINE Races == {"terminal", "active", "stop", "undo", "unlist", "skipped", "unreported"}
           Ended == {"none", "reported", "lastReported", "ended"}
           Starting == {"list", "lock", "undo", "launch", "crashed"}
<1> SUFFICES ASSUME IInv, EntryCreated, CreatorStarted, ClaimHeld, Settling, [Next]_vars,
                    overtaken' \cap Races = {}
             PROVE  /\ Exists' => Complete' /\ claimed'
                    /\ \A s \in Stop : stopPc'[s] \in {"setKey", "write"} => seen'[s].by # None
                    /\ claimed' /\ ~Exists' => \E c \in Start : startPc'[c] \in {"create", "crashed"}
                    /\ \A c \in Start : creator' = c =>
                          Dead' \/ startPc'[c] \in Starting \/ task'[c] \notin Ended
    BY DEF Settling, Without, Late
<1>0. TypeOK /\ EntryMoves /\ None \notin Start /\ creator \in Start \cup {None}
    BY EntryMove, RegistryAssumption DEF IInv, TypeOK, RegistryTypeOK
<1>1. overtaken \cap Races = {}
    BY RacesStay
<1>2. /\ Exists => Complete /\ claimed
      /\ \A s \in Stop : stopPc[s] \in {"setKey", "write"} => seen[s].by # None
      /\ claimed /\ ~Exists => \E c \in Start : startPc[c] \in {"create", "crashed"}
      /\ \A c \in Start : creator = c =>
            Dead \/ startPc[c] \in Starting \/ task[c] \notin Ended
    BY <1>1 DEF Settling, Without, Late
<1>3. ASSUME NEW s \in Stop, stopPc'[s] \in {"setKey", "write"} PROVE seen'[s].by # None
    BY <1>0, <1>2, <1>3, SeenMoves DEF EntryCreated
<1>4. ASSUME NEW w \in Sweeper, DeleteDead(w), w \in fresh
      PROVE  ~Exists' /\ ~claimed' /\ creator' = None
  <2>1. Exists
      BY <1>4, EntryKept DEF EntryCreated
  <2> QED
      BY <1>4, <2>1, Deletion
<1>5. ASSUME NEW c \in Start, UndoCreate(c), Complete, entry' = None
      PROVE  ~Exists' /\ ~claimed' /\ creator' = None
    BY <1>5, Deletion
<1>6. ASSUME NEW c \in Start, CreateEntry(c)
      PROVE  Exists' /\ Complete' /\ claimed' /\ creator' = c /\ startPc'[c] = "list"
  <2>1. claimed
      BY <1>1, <1>6, CreatorHolds DEF ClaimHeld, Without
  <2> QED
      BY <1>6, <2>1, CreatorHolds
<1>7. ASSUME NEW c \in Start, Report(c) \/ FatalError(c)
      PROVE  Dead' /\ Exists /\ Complete' /\ claimed' /\ creator' = creator
  <2>1. creator = c
      BY <1>0, <1>7, LastStatus
  <2>2. Complete /\ Exists
      BY <1>0, <2>1, EntryKept DEF EntryCreated
  <2> QED
      BY <1>0, <1>2, <1>7, <2>2, LastStatus
<1>8. ASSUME NEW c \in Start, Activate(c)
      PROVE  Exists' /\ ~Dead /\ Exists /\ Complete' /\ claimed' /\ creator' = creator
  <2>1. creator = c /\ ~Dead
      BY <1>0, <1>8, ActiveStatus
  <2>2. Complete /\ Exists
      BY <1>0, <2>1, EntryKept DEF EntryCreated
  <2> QED
      BY <1>0, <1>2, <1>8, <2>1, <2>2, ActiveStatus
<1>9. ASSUME NEW s \in Stop, WriteStopping(s)
      PROVE  Exists' /\ ~Dead /\ Exists /\ Complete' /\ claimed' /\ creator' = creator
  <2>1. creator = seen[s].by /\ ~Dead
      BY <1>0, <1>9, StoppingStatus
  <2>2. creator # None
      BY <1>2, <1>9, <2>1 DEF WriteStopping
  <2>3. Complete /\ Exists
      BY <2>2, EntryKept DEF EntryCreated
  <2> QED
      BY <1>0, <1>2, <1>9, <2>1, <2>3, StoppingStatus
<1>10. ASSUME entry' = entry, creator' = creator,
              claimed' = claimed \/ (~claimed /\ \E c \in Start : ClaimStream(c))
       PROVE  /\ Exists' => Complete' /\ claimed'
              /\ claimed' /\ ~Exists' => \E c \in Start : startPc'[c] \in {"create", "crashed"}
  <2>1. CASE claimed' = claimed
    <3>1. (Exists' <=> Exists) /\ (Complete' <=> Complete)
        BY <1>10, EntryKept
    <3>2. ASSUME claimed, ~Exists PROVE \E c \in Start : startPc'[c] \in {"create", "crashed"}
      <4>1. PICK c \in Start : startPc[c] \in {"create", "crashed"}
          BY <1>2, <3>2
      <4>2. CreateEntry(c) => Exists'
          BY CreatorHolds
      <4> QED
          BY <1>0, <3>1, <3>2, <4>1, <4>2, StartMoves
    <3> QED
        BY <1>2, <2>1, <3>1, <3>2
  <2>2. ASSUME ~claimed, NEW c \in Start, ClaimStream(c)
        PROVE  claimed' /\ startPc'[c] = "create"
      BY <1>0, <2>2 DEF ClaimStream, Claim, StartGoes, TypeOK
  <2> QED
      BY <1>2, <1>10, <2>1, <2>2, EntryKept
<1>11. /\ Exists' => Complete' /\ claimed'
       /\ claimed' /\ ~Exists' => \E c \in Start : startPc'[c] \in {"create", "crashed"}
  <2>1. Dead' => Exists'
      BY EntryKept DEF Dead
  <2>2. \/ entry' = entry /\ creator' = creator
             /\ (claimed' = claimed \/ (~claimed /\ \E c \in Start : ClaimStream(c)))
        \/ Exists' /\ Complete' /\ claimed'
        \/ ~Exists' /\ ~claimed'
      BY <1>0, <1>4, <1>5, <1>6, <1>7, <1>8, <1>9, <2>1 DEF EntryMoves
  <2>3. CASE entry' = entry /\ creator' = creator
             /\ (claimed' = claimed \/ (~claimed /\ \E c \in Start : ClaimStream(c)))
      BY <1>10, <2>3
  <2> QED
      BY <2>2, <2>3
<1>12. ASSUME NEW c \in Start, creator' = c
       PROVE  Dead' \/ startPc'[c] \in Starting \/ task'[c] \notin Ended
  <2>1. CASE \E d \in Start : CreateEntry(d)
      BY <1>6, <1>12, <2>1
  <2>2. CASE \E d \in Start : Report(d) \/ FatalError(d)
      BY <1>7, <2>2
  <2>3. ASSUME creator = c, ~Dead, ~UndoCreate(c), ~Report(c)
        PROVE  startPc'[c] \in Starting \/ task'[c] \notin Ended
    <3>1. startPc[c] \in Starting \/ task[c] \notin Ended
        BY <1>2, <2>3
    <3>2. startPc[c] = "crashed" => startPc'[c] = "crashed"
        BY <1>0, StartMoves
    <3> QED
        BY <2>3, <3>1, <3>2, AttemptForward
  <2>4. CASE (\E d \in Start : Activate(d)) \/ (\E s \in Stop : WriteStopping(s))
    <3>1. creator = c /\ ~Dead /\ Exists'
        BY <1>8, <1>9, <1>12, <2>4
    <3>2. ~UndoCreate(c)
      <4>1. UndoCreate(c) /\ Exists => entry' = None
        <5>1. Complete
            BY <1>0, <3>1 DEF EntryCreated
        <5> QED
            BY <5>1 DEF UndoCreate, DeleteEntry, Complete
      <4> QED
          BY <1>8, <1>9, <2>4, <3>1, <4>1, EntryKept
    <3>3. Report(c) => Dead'
        BY <1>7
    <3> QED
        BY <2>3, <3>1, <3>2, <3>3
  <2>5. CASE entry' = entry /\ creator' = creator
    <3>1. creator = c /\ Complete
        BY <1>0, <1>12, <2>5 DEF EntryCreated
    <3>2. UndoCreate(c) => creator' = None
        BY <3>1 DEF UndoCreate, DeleteEntry, Complete
    <3>3. Report(c) => Dead'
        BY <1>7
    <3> QED
        BY <1>0, <1>12, <2>3, <2>5, <3>1, <3>2, <3>3, EntryKept
  <2> QED
      BY <1>0, <1>4, <1>5, <1>12, <2>1, <2>2, <2>4, <2>5 DEF EntryMoves
<1> QED
    BY <1>3, <1>11, <1>12

-----------------------------------------------------------------------------
(* The theorems.                                                             *)

\* The initial states satisfy the invariant.
LEMMA RegistryInitial == Init => RInv
<1> SUFFICES ASSUME Init PROVE RInv
    OBVIOUS
<1>0. None \notin Start
    BY RegistryAssumption
<1>1. \A c \in Start : ~Holding(c)
    BY DEF Init, Holding
<1>2. EntryCreated /\ CreatorStarted /\ OneLocal
    BY <1>0 DEF Init, RegistryInit, EntryCreated, CreatorStarted, OneLocal, Local, Complete, Exists
<1>3. ClaimHeld /\ RequestHeld /\ EntryListed
    BY <1>0, <1>1 DEF Init, RegistryInit, ClaimHeld, RequestHeld, EntryListed
<1>4. CreatorNamed /\ ClosingStops /\ LeaseInUse /\ Settling
    BY <1>0 DEF Init, RegistryInit, CreatorNamed, ClosingStops, LeaseInUse, Settling, Exists
<1> QED
    BY <1>2, <1>3, <1>4 DEF RInv

\* In every reachable state each part holds in the absence of its races.
THEOREM RegistryInvariant == Spec => [](IInv /\ RInv)
<1>1. IInv /\ RInv /\ [Next]_vars => RInv'
    BY EntryCreatedStep, CreatorStartedStep, OneLocalStep, ClaimHeldStep, RequestHeldStep,
       EntryListedStep, CreatorNamedStep, ClosingStopsStep, LeaseInUseStep, SettlingStep DEF RInv
<1> QED
    BY <1>1, RegistryInitial, ControlInvariant, PTL DEF Spec

\* A streaming worker keeps its own entry and claim, unless an attempt that
\* lost its entry writes a last status over it (stream/manager.py, _run).
THEOREM RegistryRunner == Spec => []RunnerRegistered
<1>1. IInv /\ RInv => RunnerRegistered
  <2> SUFFICES ASSUME IInv, RInv, Without({"terminal"}), NEW c \in Start, Streaming(c)
               PROVE  claimed /\ Exists /\ creator = c
      BY DEF RunnerRegistered
  <2>1. Holding(c) /\ startPc[c] # "create"
      BY DEF Streaming, Holding, IInv, LaunchedOnly
  <2>2. claimed /\ creator = c
      BY <2>1 DEF RInv, ClaimHeld
  <2> QED
      BY <2>2, RegistryAssumption, EntryKept DEF RInv, EntryCreated
<1> QED
    BY <1>1, RegistryInvariant, PTL

\* Every finished entry is in streams:all, unless a sweep took it off late.
THEOREM RegistryIndex == Spec => []EntryListed
<1>1. IInv /\ RInv => EntryListed
    BY DEF RInv
<1> QED
    BY <1>1, RegistryInvariant, PTL

\* The entry of a streaming worker names its process, so that the heartbeat
\* script and the checkpoint flusher recognise it.
THEOREM RegistryName == Spec => []RunnerNamed
<1>1. IInv /\ RInv => RunnerNamed
  <2> SUFFICES ASSUME IInv, RInv, overtaken \cap {"terminal", "active", "stop"} = {},
                      NEW c \in Start, Streaming(c)
               PROVE  entry.at = at[c]
      BY DEF RunnerNamed, Without
  <2>1. Holding(c) /\ startPc[c] # "create"
      BY DEF Streaming, Holding, IInv, LaunchedOnly
  <2>2. creator = c
      BY <2>1 DEF RInv, ClaimHeld, Without
  <2> QED
      BY <2>2 DEF RInv, CreatorNamed, Without
<1> QED
    BY <1>1, RegistryInvariant, PTL

\* A published stop request outlives the stream it is meant for, so the watcher
\* finds it (stream/manager.py, _watch_stop_request).
THEOREM RegistryStop == Spec => []StopRequestKept
<1>1. IInv /\ RInv => StopRequestKept
    BY DEF RInv, RequestHeld, StopRequestKept, Streaming, Holding
<1> QED
    BY <1>1, RegistryInvariant, PTL

\* stop_all leaves no stream behind, for any number of starts and stop calls.
THEOREM RegistryShutdown == Spec => []ShutdownStopsWorkers
<1>1. IInv /\ RInv => ShutdownStopsWorkers
  <2> SUFFICES ASSUME IInv, RInv, Without({"terminal"}), NEW i \in closing,
                      \A s \in Stop : at[s] = i => stopPc[s] \in {"check", "done"},
                      NEW c \in Start, at[c] = i, Streaming(c)
               PROVE  FALSE
      BY DEF ShutdownStopsWorkers
  <2>1. \E s \in Stop : at[s] = at[c] /\ stopPc[s] \in {"read", "setKey", "write", "cancel"}
      BY DEF RInv, ClosingStops, Streaming
  <2> QED
      BY <2>1
<1> QED
    BY <1>1, RegistryInvariant, PTL

\* With nothing under way the lease is free, unless a second cancellation, a
\* runner without a worker or a start without a runner kept it.
THEOREM RegistryLease == Spec => []LeaseReturned
<1>1. IInv /\ RInv => LeaseReturned
  <2> SUFFICES ASSUME IInv, RInv, Without({"interrupted", "abandoned", "skipped"}), Quiet
               PROVE  lock = None
      BY DEF LeaseReturned
  <2>1. lock \in Start \cup {None}
      BY DEF IInv, TypeOK, RegistryTypeOK
  <2>2. ASSUME NEW c \in Start, lock = c PROVE FALSE
      BY <2>2 DEF RInv, LeaseInUse, Quiet, RunnerPhase
  <2> QED
      BY <2>1, <2>2
<1> QED
    BY <1>1, RegistryInvariant, PTL

\* With nothing under way the registry claims nothing that the cleanup will not
\* remove: without a race, no subreddit is left unstartable.
THEOREM RegistrySettles == Spec => []Settled
<1>1. IInv /\ RInv => Settled
  <2> SUFFICES ASSUME IInv, RInv, Without(Late \ {"interrupted", "abandoned"}), Quiet
               PROVE  (claimed <=> Exists) /\ (Exists => Dead /\ entry.full)
      BY DEF Settled
  <2>1. /\ Exists => Complete /\ claimed
        /\ claimed /\ ~Exists => \E c \in Start : startPc[c] \in {"create", "crashed"}
        /\ \A c \in Start : creator = c =>
              \/ Dead
              \/ startPc[c] \in {"list", "lock", "undo", "launch", "crashed"}
              \/ task[c] \notin {"none", "reported", "lastReported", "ended"}
      BY DEF RInv, Settling
  <2>2. claimed => Exists
      BY <2>1 DEF Quiet
  <2>3. ASSUME Exists PROVE Dead
    <3>1. creator # None /\ creator \in Start \cup {None}
        BY <2>1, <2>3 DEF RInv, EntryCreated, IInv, TypeOK, RegistryTypeOK
    <3> QED
        BY <2>1, <3>1 DEF Quiet
  <2>4. Exists => entry.full
      BY <2>1, Zenon DEF Complete
  <2> QED
      BY <2>1, <2>2, <2>3, <2>4
<1> QED
    BY <1>1, RegistryInvariant, PTL
=============================================================================
