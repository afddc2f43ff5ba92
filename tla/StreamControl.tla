--------------------------- MODULE StreamControl ---------------------------
(* The life of one subreddit's stream over several API processes: start      *)
(* calls, the manager's task around each worker, its stop watcher, stop      *)
(* calls and the cleanup sweeps, interleaved between any two Redis commands. *)
(*   stream/manager.py, app.py (runner and handlers), stream/worker.py (run, *)
(*   _handle_error, _handle_fetch_exception), tasks/dead_stream_cleanup.py.  *)
(* The lease itself is module Lease: here the lock of an attempt that is     *)
(* starting or streaming does not expire, which is what Lease guarantees.    *)
EXTENDS StreamRegistry

CONSTANTS Stop,        \* calls of the stop endpoint
          Faults       \* subset of {"fatal", "loss", "startup", "crash"}

VARIABLES
    at,          \* the process that serves each start and stop call
    startPc,     \* next step of each start_stream
    task,        \* phase of the task _run of each attempt
    cause,       \* why its runner is ending
    stopPc,      \* next step of each stop call
    seen,        \* what each stop call read: instance_id and (history) creator
    sweepPc,     \* next step of each sweep
    closing      \* processes whose lifespan has begun its shutdown

calls == <<at, startPc, task, cause, stopPc, seen, sweepPc, closing>>
vars  == <<registry, calls>>

RunnerPhase == {"resolving", "streaming", "erring", "saving", "releasing"}
TaskPhase   == RunnerPhase \cup {"none", "failed", "report", "reported",
                                 "lastReport", "lastReported", "ended"}
StartPhase  == {"check", "claim", "create", "list", "lock", "undo", "launch",
                "activate", "ok", "refused", "crashed"}
StopPhase   == {"check", "read", "setKey", "write", "cancel", "done", "crashed"}

TypeOK ==
    /\ RegistryTypeOK
    /\ at \in [Start \cup Stop -> Instance]
    /\ startPc \in [Start -> StartPhase]
    /\ task \in [Start -> TaskPhase]
    /\ cause \in [Start -> {"none", "watcher", "cancel", "failure"}]
    /\ stopPc \in [Stop -> StopPhase]
    /\ seen \in [Stop -> [by : Start \cup {None}, at : Instance \cup {None}]]
    /\ sweepPc \in [Sweeper -> {"index", "read", "unlist", "delete"}]
    /\ closing \subseteq Instance

Init ==
    /\ RegistryInit
    /\ at \in [Start \cup Stop -> Instance]
    /\ startPc = [c \in Start |-> "check"]
    /\ task = [c \in Start |-> "none"]
    /\ cause = [c \in Start |-> "none"]
    /\ stopPc = [s \in Stop |-> "check"]
    /\ seen = [s \in Stop |-> [by |-> None, at |-> None]]
    /\ sweepPc = [w \in Sweeper |-> "index"]
    /\ closing = {}

Streaming(c) == task[c] = "streaming"

\* The attempt is in _tasks of its process.
Local(c, i) == at[c] = i /\ task[c] \notin {"none", "ended"}

StartGoes(c, phase) ==
    /\ startPc' = [startPc EXCEPT ![c] = phase]
    /\ UNCHANGED <<at, task, cause, stopPc, seen, sweepPc, closing>>

TaskGoes(c, phase, why) ==
    /\ task' = [task EXCEPT ![c] = phase]
    /\ cause' = [cause EXCEPT ![c] = why]

StopGoes(s, phase) == stopPc' = [stopPc EXCEPT ![s] = phase]

SweepGoes(w, phase) ==
    /\ sweepPc' = [sweepPc EXCEPT ![w] = phase]
    /\ UNCHANGED <<at, startPc, task, cause, stopPc, seen, closing>>

-----------------------------------------------------------------------------
(* start_stream: create_stream, acquire_lock, launch, update_status.         *)

\* GET stream:subreddit: an existing claim is a conflict.
CheckClaim(c) ==
    /\ startPc[c] = "check" /\ at[c] \notin closing
    /\ StartGoes(c, IF claimed THEN "refused" ELSE "claim")
    /\ UNCHANGED registry

\* SET NX decides between creators that both found nothing.
ClaimStream(c) ==
    /\ startPc[c] = "claim"
    /\ \/ claimed /\ StartGoes(c, "refused") /\ UNCHANGED registry
       \/ ~claimed /\ StartGoes(c, "create") /\ Claim

CreateEntry(c) ==
    /\ startPc[c] = "create"
    /\ WriteEntry(c, at[c])
    /\ StartGoes(c, "list")

\* Mutant: the id is added to the index of the instance only.
ListByInstanceOnly(c) ==
    /\ startPc[c] = "list"
    /\ UNCHANGED registry
    /\ StartGoes(c, "lock")

ListEntry(c) ==
    /\ startPc[c] = "list"
    /\ List
    /\ StartGoes(c, "lock")

\* Mutant: the result of acquire_lock is not looked at.
AcquireLockUnchecked(c) ==
    /\ startPc[c] = "lock"
    /\ IF lock = None THEN SetLock(c) ELSE UNCHANGED registry
    /\ StartGoes(c, "launch")

AcquireLock(c) ==
    /\ startPc[c] = "lock"
    /\ \/ lock = None /\ SetLock(c) /\ StartGoes(c, "launch")
       \/ lock # None /\ UNCHANGED registry /\ StartGoes(c, "undo")

\* Mutant: a start refused by the lock leaves its entry behind.
RefuseWithoutUndo(c) ==
    /\ startPc[c] = "undo"
    /\ StartGoes(c, "refused")
    /\ UNCHANGED registry

\* The lock is held elsewhere: delete_stream without an expected status.
UndoCreate(c) ==
    /\ startPc[c] = "undo"
    /\ StartGoes(c, "refused")
    /\ IF Exists /\ entry.full
       THEN DeleteEntry(IF creator = c THEN {} ELSE {"undo"})
       ELSE UNCHANGED registry

\* "already running locally" returns success although nothing is launched.
Launch(c) ==
    /\ startPc[c] = "launch"
    /\ IF \E d \in Start : Local(d, at[c])
       THEN StartGoes(c, "ok") /\ NoteOnly({"skipped"})
       ELSE /\ startPc' = [startPc EXCEPT ![c] = "activate"]
            /\ TaskGoes(c, "resolving", "none")
            /\ UNCHANGED <<registry, at, stopPc, seen, sweepPc, closing>>

\* update_status("active") races with the task it has just launched.
Activate(c) ==
    /\ startPc[c] = "activate"
    /\ UpdateStatus("active", at[c],
                    IF creator # c \/ Dead THEN {"active"} ELSE {})
    /\ StartGoes(c, "ok")

-----------------------------------------------------------------------------
(* The runner inside the task.                                               *)

TaskStep(c, phase, why) ==
    /\ TaskGoes(c, phase, why)
    /\ UNCHANGED <<at, startPc, stopPc, seen, sweepPc, closing>>

\* What follows the end of a runner, by the reason it ended for.
AfterRunner(why) ==
    IF why = "watcher" THEN "report"
    ELSE IF why = "cancel" THEN "lastReport" ELSE "failed"

\* get_stream_by_subreddit and the StreamWorker constructor.
Resolve(c) ==
    /\ task[c] = "resolving"
    /\ claimed /\ Exists
    /\ TaskStep(c, "streaming", "none")
    /\ UNCHANGED registry

\* The stream is not found, or no serializer can be built: the runner raises
\* before StreamWorker.run, whose finally would release the lease.
ResolveFails(c) ==
    /\ task[c] = "resolving"
    /\ "startup" \in Faults \/ ~claimed \/ ~Exists
    /\ TaskStep(c, "failed", "failure")
    /\ NoteOnly({"abandoned"})

\* A fatal stream error is written to the registry by the worker itself,
\* before run() releases the lease and before _run writes it once more.
FatalError(c) ==
    /\ "fatal" \in Faults
    /\ Streaming(c)
    /\ UpdateStatus("error", None, IF creator = c THEN {} ELSE {"terminal"})
    /\ TaskStep(c, "erring", "none")

\* Mutant: a worker that ends by a fatal error does not release its lease.
RaiseUnreleased(c) ==
    /\ task[c] = "erring"
    /\ TaskStep(c, "failed", "failure")
    /\ UNCHANGED registry

\* The stream task re-raises it: run() goes to its release without a save.
RaiseFatal(c) ==
    /\ task[c] = "erring"
    /\ TaskStep(c, "releasing", "failure")
    /\ UNCHANGED registry

\* LockLostError: run() saves its checkpoint and releases; the lease may or
\* may not be gone by then.
LockLoss(c) ==
    /\ "loss" \in Faults
    /\ Streaming(c) \/ task[c] = "erring"
    /\ TaskStep(c, "saving", "failure")
    /\ UNCHANGED registry

SaveCheckpoint(c) ==
    /\ task[c] = "saving"
    /\ TaskStep(c, "releasing", cause[c])
    /\ UNCHANGED registry

\* release_lock deletes the key if it still holds this token.
ReleaseLock(c) ==
    /\ task[c] = "releasing"
    /\ TaskStep(c, AfterRunner(cause[c]), cause[c])
    /\ IF lock = c THEN SetLock(None) ELSE UNCHANGED registry

\* Where a runner goes when it is cancelled: a worker in run() starts its
\* final save, anything else ends there, with the lease kept.
CancelledRunner(c, why) ==
    IF task[c] \in {"streaming", "erring"} THEN "saving" ELSE AfterRunner(why)

\* What that cancellation, or that of a task at its end, leaves undone.
CutShort(c) ==
    IF task[c] = "resolving" THEN {"abandoned"}
    ELSE IF task[c] \in {"saving", "releasing"} THEN {"interrupted"}
    ELSE IF task[c] \in {"failed", "lastReport"} THEN {"unreported"} ELSE {}

-----------------------------------------------------------------------------
(* _run: the watcher, the last status, the end of the task.                  *)

\* The watcher's poll finds the stop request and _run cancels the runner.
WatcherStops(c) ==
    /\ task[c] \in RunnerPhase
    /\ cause[c] \in {"none", "failure"}
    /\ stopKey
    /\ TaskStep(c, CancelledRunner(c, "watcher"), "watcher")
    /\ NoteOnly(CutShort(c))

\* Mutant: a failed runner is invoked again with the token it had.
RetryWithSameToken(c) ==
    /\ task[c] = "failed"
    /\ TaskStep(c, "resolving", "none")
    /\ UNCHANGED registry

\* _run resumes after its runner failed.
NoticeFailure(c) ==
    /\ task[c] = "failed"
    /\ TaskStep(c, "lastReport", cause[c])
    /\ UNCHANGED registry

Outcome(c) == IF cause[c] = "failure" THEN "error" ELSE "stopped"

\* Mutant: the reason a runner ended for is written as its status.
ReportCause(c) ==
    /\ task[c] \in {"report", "lastReport"}
    /\ UpdateStatus(cause[c], None, {})
    /\ TaskStep(c, IF task[c] = "report" THEN "reported" ELSE "lastReported",
                cause[c])

\* The HSET of update_status("stopped") or ("error"); its caller still waits
\* for the answer and for Postgres.
Report(c) ==
    /\ task[c] \in {"report", "lastReport"}
    /\ UpdateStatus(Outcome(c), None,
                    IF creator = c THEN {} ELSE {"terminal"})
    /\ TaskStep(c, IF task[c] = "report" THEN "reported" ELSE "lastReported",
                cause[c])

\* finally: the watcher is cancelled and the task leaves _tasks.
EndTask(c) ==
    /\ task[c] \in {"reported", "lastReported"}
    /\ TaskStep(c, "ended", "none")
    /\ UNCHANGED registry

\* task.cancel() of stop_stream, by what _run is waiting for.  In the wait or
\* in the await of its runner the cancellation reaches the runner (once more,
\* if it is already ending).  In the first status write it leads to a second
\* one; in the last, or when the runner has failed unnoticed, to none.
Cancelled(c) ==
    IF task[c] \in RunnerPhase
    THEN LET why == IF cause[c] = "watcher" THEN "watcher" ELSE "cancel"
         IN TaskGoes(c, CancelledRunner(c, why), why)
    ELSE IF task[c] \in {"report", "reported"} THEN TaskGoes(c, "lastReport", cause[c])
    ELSE TaskGoes(c, "ended", "none")

-----------------------------------------------------------------------------
(* The stop endpoint and stop_stream.                                        *)

StopStep(s, phase) ==
    /\ StopGoes(s, phase)
    /\ UNCHANGED <<at, startPc, task, cause, sweepPc, closing>>

\* The handler answers at once for an unknown or finished stream.
CheckStop(s) ==
    /\ stopPc[s] = "check" /\ at[s] \notin closing
    /\ StopStep(s, IF ~Exists \/ Dead THEN "done" ELSE "read")
    /\ UNCHANGED <<registry, seen>>

\* The lifespan of a process ends, after its requests: stop_all makes a stop
\* call for a stream that runs here, whatever its status is.
StopAll(s) ==
    /\ stopPc[s] = "check" /\ at[s] \notin closing
    /\ \A c \in Start : at[c] = at[s] => startPc[c] \in {"check", "ok", "refused"}
    /\ \A r \in Stop : at[r] = at[s] => stopPc[r] \in {"check", "done"}
    /\ StopGoes(s, IF \E c \in Start : Local(c, at[s]) THEN "read" ELSE "done")
    /\ closing' = closing \cup {at[s]}
    /\ UNCHANGED <<registry, at, startPc, task, cause, seen, sweepPc>>

\* request_stop reads the metadata, and raises if there is none.
ReadEntry(s) ==
    /\ stopPc[s] = "read"
    /\ StopStep(s, IF Exists THEN "setKey" ELSE "done")
    /\ seen' = [seen EXCEPT ![s] = [by |-> creator, at |-> IF Exists THEN entry.at ELSE None]]
    /\ UNCHANGED registry

\* Mutant: a stream of this process is stopped without publishing a request.
PublishStopIfRemote(s) ==
    /\ stopPc[s] = "setKey"
    /\ IF \E c \in Start : Local(c, at[s]) THEN UNCHANGED registry ELSE SetStopKey
    /\ StopStep(s, "write")
    /\ UNCHANGED seen

PublishStop(s) ==
    /\ stopPc[s] = "setKey"
    /\ SetStopKey
    /\ StopStep(s, "write")
    /\ UNCHANGED seen

\* Mutant: the process that serves the call writes its own instance_id.
WriteStoppingAsOwn(s) ==
    /\ stopPc[s] = "write"
    /\ UpdateStatus("stopping", at[s],
                    IF creator # seen[s].by \/ Dead THEN {"stop"} ELSE {})
    /\ StopStep(s, "cancel")
    /\ UNCHANGED seen

WriteStopping(s) ==
    /\ stopPc[s] = "write"
    /\ UpdateStatus("stopping", seen[s].at,
                    IF creator # seen[s].by \/ Dead THEN {"stop"} ELSE {})
    /\ StopStep(s, "cancel")
    /\ seen' = [seen EXCEPT ![s].at = None]

\* Mutant: the cancellation is left to the watcher here, too.
LeaveToWatcher(s) ==
    /\ stopPc[s] = "cancel"
    /\ StopGoes(s, "done")
    /\ UNCHANGED <<registry, task, cause>>
    /\ UNCHANGED <<at, startPc, seen, sweepPc, closing>>

\* A stream of this process is cancelled, any other is left to its watcher.
CancelLocal(s) ==
    /\ stopPc[s] = "cancel"
    /\ StopGoes(s, "done")
    /\ \/ \E c \in Start :
             /\ Local(c, at[s])
             /\ Cancelled(c)
             /\ NoteOnly(CutShort(c))
       \/ /\ \A c \in Start : ~Local(c, at[s])
          /\ UNCHANGED <<registry, task, cause>>
    /\ UNCHANGED <<at, startPc, seen, sweepPc, closing>>

-----------------------------------------------------------------------------
(* DeadStreamCleanup.cleanup: list_streams, then delete_stream.              *)

\* SMEMBERS streams:all.
ScanIndex(w) ==
    /\ sweepPc[w] = "index"
    /\ listed
    /\ SweepGoes(w, "read")
    /\ UNCHANGED registry

\* HGETALL of a listed id.  A dead entry with an id is remembered with the
\* status and updated_at it has now.
ScanEntry(w) ==
    /\ sweepPc[w] = "read"
    /\ \/ ~Exists /\ SweepGoes(w, "unlist") /\ UNCHANGED registry
       \/ Dead /\ entry.full /\ SweepGoes(w, "delete") /\ Remember(w)
       \/ Exists /\ ~(Dead /\ entry.full) /\ SweepGoes(w, "index") /\ UNCHANGED registry

UnlistStale(w) ==
    /\ sweepPc[w] = "unlist"
    /\ Unlist
    /\ SweepGoes(w, "index")

\* Mutant: a dead entry is deleted without comparing what was scanned.
DeleteScanned(w) ==
    /\ sweepPc[w] = "delete"
    /\ IF Exists THEN DeleteEntry({}) ELSE UNCHANGED registry
    /\ SweepGoes(w, "index")

\* The delete script compares the remembered status and updated_at.
DeleteDead(w) ==
    /\ sweepPc[w] = "delete"
    /\ IF Exists /\ w \in fresh THEN DeleteEntry({}) ELSE UNCHANGED registry
    /\ SweepGoes(w, "index")

-----------------------------------------------------------------------------
(* Environment.                                                              *)

\* The lease of an attempt whose worker is not, or no longer, refreshing it.
Unkept(c) ==
    /\ startPc[c] \in {"ok", "crashed", "activate"}
    /\ task[c] \notin {"resolving", "streaming", "erring"}

LockExpires ==
    /\ lock # None
    /\ Unkept(lock)
    /\ SetLock(None)
    /\ UNCHANGED calls

\* A process dies with its calls and tasks; Redis keeps what they wrote.
Crash(i) ==
    /\ "crash" \in Faults
    /\ \E c \in Start : at[c] = i /\ startPc[c] # "crashed"
    /\ startPc' = [c \in Start |-> IF at[c] = i THEN "crashed" ELSE startPc[c]]
    /\ task' = [c \in Start |-> IF Local(c, i) THEN "ended" ELSE task[c]]
    /\ cause' = [c \in Start |-> IF Local(c, i) THEN "none" ELSE cause[c]]
    /\ stopPc' = [s \in Stop |-> IF at[s] = i THEN "crashed" ELSE stopPc[s]]
    /\ closing' = closing \ {i}
    /\ UNCHANGED <<registry, at, seen, sweepPc>>

-----------------------------------------------------------------------------
StartStep(c) ==
    \/ CheckClaim(c) \/ ClaimStream(c) \/ CreateEntry(c) \/ ListEntry(c)
    \/ AcquireLock(c) \/ UndoCreate(c) \/ Launch(c) \/ Activate(c)

RunnerStep(c) ==
    \/ Resolve(c) \/ ResolveFails(c) \/ SaveCheckpoint(c) \/ ReleaseLock(c)
    \/ RaiseFatal(c) \/ NoticeFailure(c) \/ Report(c) \/ EndTask(c)

StopCall(s) ==
    CheckStop(s) \/ StopAll(s) \/ ReadEntry(s) \/ PublishStop(s) \/ WriteStopping(s) \/ CancelLocal(s)

Sweep(w) == ScanIndex(w) \/ ScanEntry(w) \/ UnlistStale(w) \/ DeleteDead(w)

Next ==
    \/ \E c \in Start : \/ StartStep(c) \/ RunnerStep(c) \/ WatcherStops(c)
                        \/ FatalError(c) \/ LockLoss(c)
    \/ \E s \in Stop : StopCall(s)
    \/ \E w \in Sweeper : Sweep(w)
    \/ \E i \in Instance : Crash(i)
    \/ LockExpires

Spec == Init /\ [][Next]_vars

-----------------------------------------------------------------------------
(* Properties.  Late names the races the code is exposed to; each property   *)
(* says which of them, and only which, can break it.                         *)

Without(late) == overtaken \cap late = {}

\* Only the attempt whose token the lock holds streams, so at most one does,
\* whatever is stopped, swept, refused, restarted or killed meanwhile.
RunnerHoldsLock ==
    \A c \in Start : Streaming(c) => lock = c

\* A streaming worker has its own registry entry and the claim on the
\* subreddit, so that it can be listed and stopped and no second entry be made.
\* Only a last status written by an attempt that lost its entry can undo it.
RunnerRegistered ==
    Without({"terminal"}) =>
        \A c \in Start : Streaming(c) => claimed /\ Exists /\ creator = c

\* Every entry create_stream finished is in the index the cleanup scans.
EntryListed ==
    Without({"unlist"}) =>
        \A c \in Start :
            creator = c /\ startPc[c] \notin {"create", "list", "crashed"} => listed

\* The entry names the process that streams: the heartbeat script and the
\* checkpoint flusher compare instance_id with their own.
RunnerNamed ==
    Without({"terminal", "active", "stop"}) =>
        \A c \in Start : Streaming(c) => entry.at = at[c]

\* A stop request that was published for a running attempt stays published
\* until the attempt no longer streams: the watcher cannot miss it.
StopRequestKept ==
    Without({"terminal"}) =>
        \A s \in Stop, c \in Start :
            /\ seen[s].by = c
            /\ stopPc[s] \in {"write", "cancel", "done"}
            /\ Streaming(c)
            => stopKey

\* Nothing is under way on the subreddit.
Quiet ==
    /\ \A c \in Start : /\ startPc[c] \in {"check", "ok", "refused"}
                        /\ task[c] \in {"none", "ended"}
    /\ \A s \in Stop : stopPc[s] \in {"check", "done"}

\* When nothing is under way, the registry does not claim that something is:
\* what is left is an entry the cleanup will remove, so the subreddit can be
\* started again.  It takes one of the races, or a crash, to break this; those
\* that only leave the lease behind do not.
Settled ==
    Without(Late \ {"interrupted", "abandoned"}) /\ Quiet => (claimed <=> Exists) /\ (Exists => Dead /\ entry.full)

\* What README.md says of cleanup: "A cleanup sweep cannot delete a concurrently
\* restarted stream snapshot."
CleanupSparesRunner ==
    [][ \A w \in Sweeper : DeleteDead(w) /\ Exists /\ entry' = None
                           => \A c \in Start : ~Streaming(c) ]_vars

\* A process that has stopped all its streams streams nothing: a worker whose
\* entry was taken away from it is the only one stop_all cannot stop
\* (manager.py, stop_all swallows StreamNotFoundError).
ShutdownStopsWorkers ==
    Without({"terminal"}) =>
        \A i \in closing :
            (\A s \in Stop : at[s] = i => stopPc[s] \in {"check", "done"})
                => \A c \in Start : at[c] = i => ~Streaming(c)

\* When nothing is under way the lease is free, so that the subreddit can be
\* started at once and need not wait for its expiry ("stopping local workers so
\* they can ... release locks", app.py; src/README.md, "releases owned leases").
\* A second cancellation, a runner that never got to its worker and a start
\* that launched nothing are the ways in which the lease is left behind.
LeaseReturned ==
    Without({"interrupted", "abandoned", "skipped"}) /\ Quiet => lock = None

\* The attempt that streams.
Active == IF \E c \in Start : Streaming(c) THEN CHOOSE c \in Start : Streaming(c) ELSE None

\* Whatever happens to registry and calls, the subreddit passes from one owner
\* to the next as SingleOwner says, which Lease implements too: through a
\* moment without an owner, and never back to an attempt that has streamed.
Owners == INSTANCE SingleOwner
            WITH Worker <- Start, NoOne <- None, active <- Active,
                 spent <- {c \in Start : task[c] \notin {"none", "resolving"}}
ImplementsSingleOwner == Owners!Spec
=============================================================================
