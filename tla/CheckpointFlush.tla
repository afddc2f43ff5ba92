--------------------------- MODULE CheckpointFlush --------------------------
(* The write-behind path of one stream's checkpoint: the worker saves it in  *)
(* Redis, and the flusher of the instance that owns the stream copies it to  *)
(* Postgres (tasks/checkpoint_flusher.py), every few seconds in its loop and *)
(* once more when the process shuts down (lifespan in app.py).  A flush finds *)
(* its streams in its instance's index, which the registry, the heartbeat,   *)
(* the cleanup and the flushers themselves change one command at a time.     *)
EXTENDS Integers

CONSTANTS Instance, None,
          MaxSaves,    \* bound: saves of the checkpoint
          MaxClaims    \* bound: starts of the stream

ASSUME FlushAssumption == None \notin Instance /\ MaxSaves \in Nat /\ MaxClaims \in Nat

\* An instance flushes in its loop and, at last, in its shutdown.
Flush == Instance \X {"loop", "final"}

VARIABLES
    owner,     \* instance_id in stream:meta:{id}; None: no metadata
    status,    \* its status; the owner's worker runs while it is active
    index,     \* instances i with the id in streams:instance:{i}
    unindex,   \* a cleanup has yet to take the id off this instance's index
    hot,       \* stream:checkpoint:{id} in Redis, by how often it was written
    durable,   \* the row in stream_checkpoints
    step,      \* of each flush
    seen,      \* the checkpoint a flush is about to write
    phase,     \* of each process: up, at its final flush, at flusher.stop, down
    claims,    \* starts so far
    overtaken, \* history: flushes another one may have overtaken
    impeded       \* history: shutdowns something has come in the way of

vars == <<owner, status, index, unindex, hot, durable, step, seen, phase, claims, overtaken, impeded>>

TypeOK ==
    /\ {owner, unindex} \subseteq Instance \cup {None}
    /\ status \in {"none", "starting", "active", "ended"}
    /\ index \subseteq Instance /\ overtaken \subseteq Flush /\ impeded \subseteq Instance
    /\ hot \in 0 .. MaxSaves /\ durable \in 0 .. MaxSaves
    /\ step \in [Flush -> {"idle", "fetch", "prune", "upsert"}]
    /\ seen \in [Flush -> 0 .. MaxSaves]
    /\ phase \in [Instance -> {"up", "final", "stop", "down"}]
    /\ claims \in 0 .. MaxClaims

Init ==
    /\ owner = None /\ status = "none" /\ index = {} /\ unindex = None
    /\ hot = 0 /\ durable = 0
    /\ step = [f \in Flush |-> "idle"] /\ seen = [f \in Flush |-> 0]
    /\ phase = [i \in Instance |-> "up"]
    /\ claims = 0 /\ overtaken = {} /\ impeded = {}

flush == <<step, seen>>
stream == <<owner, status, unindex, claims>>

Live == status = "active"
Up(i) == phase[i] = "up"
Closing(i) == phase[i] \in {"final", "stop"}
Works(i) == owner = i /\ Live /\ phase[i] # "down"

-----------------------------------------------------------------------------
(* The life of the stream.                                                   *)

\* create_stream writes the metadata.
Claim(i) ==
    /\ owner = None /\ claims < MaxClaims /\ Up(i)
    /\ owner' = i /\ status' = "starting"
    /\ claims' = claims + 1
    /\ overtaken' = overtaken \cup {f \in Flush : f[1] # i /\ step[f] # "idle"}
    /\ UNCHANGED <<index, unindex, hot, durable, flush, phase, impeded>>

\* It lists the id, and update_status("active") lists it again.
Activate(i) ==
    /\ owner = i /\ status = "starting" /\ phase[i] # "down"
    /\ index' = index \cup {i}
    /\ status' = "active"
    /\ UNCHANGED <<owner, unindex, claims, hot, durable, flush, phase, overtaken, impeded>>

\* set_checkpoint, at a batch boundary or by a worker that is ending, which may
\* be late enough for the stream to be deleted or restarted meanwhile.
SaveCheckpoint(i) ==
    /\ hot < MaxSaves
    /\ Up(i) \/ Works(i)
    /\ hot' = hot + 1
    /\ impeded' = impeded \cup {k \in Instance \ {i} : Closing(k)}
    /\ UNCHANGED <<stream, index, durable, flush, phase, overtaken>>

\* Mutant: the heartbeat only touches updated_at, which is not modelled.
HeartbeatOfStatus(i) ==
    /\ Works(i)
    /\ UNCHANGED vars

\* The heartbeat script also puts the id back on the owner's index.
Heartbeat(i) ==
    /\ Works(i)
    /\ index' = index \cup {i}
    /\ UNCHANGED <<stream, hot, durable, flush, phase, overtaken, impeded>>

\* Stopped, or failed: the metadata stays.
End ==
    /\ \E i \in Instance : Works(i)
    /\ status' = "ended"
    /\ UNCHANGED <<owner, unindex, claims, index, hot, durable, flush, phase, overtaken, impeded>>

\* A sweep deletes the metadata of an ended stream; the index comes after.
Delete ==
    /\ status = "ended" /\ unindex = None
    /\ status' = "none" /\ owner' = None
    /\ unindex' = owner
    /\ UNCHANGED <<claims, index, hot, durable, flush, phase, overtaken, impeded>>

Unindex ==
    /\ unindex # None
    /\ index' = index \ {unindex}
    /\ unindex' = None
    /\ UNCHANGED <<owner, status, claims, hot, durable, flush, phase, overtaken, impeded>>

-----------------------------------------------------------------------------
(* One flush: index, metadata with checkpoint, then Redis or Postgres.       *)

\* The loop flushes until it is stopped, the shutdown once.
Runs(f) == IF f[2] = "loop" THEN phase[f[1]] # "down" ELSE phase[f[1]] = "final"

\* A flush returns; the shutdown goes on to flusher.stop.
Returns(f) ==
    /\ overtaken' = overtaken \ {f}
    /\ step' = [step EXCEPT ![f] = "idle"]
    /\ seen' = [seen EXCEPT ![f] = 0]
    /\ phase' = IF f[2] = "final" THEN [phase EXCEPT ![f[1]] = "stop"] ELSE phase

ReadIndex(f) ==
    /\ Runs(f) /\ step[f] = "idle" /\ f[1] \in index
    /\ step' = [step EXCEPT ![f] = "fetch"]
    /\ UNCHANGED <<stream, index, hot, durable, seen, phase, overtaken, impeded>>

\* The final flush finds nothing to do, or cannot read the index.
ReadsNothing(f) ==
    /\ Runs(f) /\ step[f] = "idle" /\ f[2] = "final"
    /\ Returns(f)
    /\ impeded' = impeded \cup {f[1]}
    /\ UNCHANGED <<stream, index, hot, durable>>

\* What a flush found, and with a checkpoint of this instance will write.  The
\* other flush of the instance, if it is about to write, has read less.
Found(f, mine) ==
    \/ /\ ~mine
       /\ step' = [step EXCEPT ![f] = "prune"]
       /\ UNCHANGED <<seen, phase, overtaken>>
    \/ /\ mine /\ hot = 0
       /\ Returns(f)
    \/ /\ mine /\ hot # 0
       /\ step' = [step EXCEPT ![f] = "upsert"]
       /\ seen' = [seen EXCEPT ![f] = hot]
       /\ overtaken' = overtaken \cup {g \in Flush : g[1] = f[1] /\ g # f /\ step[g] = "upsert"}
       /\ UNCHANGED phase

\* Mutant: the owner in the metadata is not compared.
FetchFromAnyOwner(f) ==
    /\ step[f] = "fetch"
    /\ Found(f, owner # None)
    /\ UNCHANGED <<stream, index, hot, durable, impeded>>

\* The pipeline is one transaction.
Fetch(f) ==
    /\ step[f] = "fetch"
    /\ Found(f, owner = f[1])
    /\ UNCHANGED <<stream, index, hot, durable, impeded>>

\* SREM of a stream that was not this instance's.
Prune(f) ==
    /\ step[f] = "prune"
    /\ index' = index \ {f[1]}
    /\ Returns(f)
    /\ UNCHANGED <<stream, hot, durable, impeded>>

Upsert(f) ==
    /\ step[f] = "upsert"
    /\ durable' = seen[f]
    /\ Returns(f)
    /\ UNCHANGED <<stream, index, hot, impeded>>

\* Any command of a flush fails: it is logged, and the next flush starts over.
FlushFails(f) ==
    /\ step[f] # "idle"
    /\ Returns(f)
    /\ impeded' = IF f[2] = "final" THEN impeded \cup {f[1]} ELSE impeded
    /\ UNCHANGED <<stream, index, hot, durable>>

-----------------------------------------------------------------------------
(* The end of a process.                                                     *)

\* Mutant: the final flush comes before the workers are stopped.
FlushBeforeStopping(i) ==
    /\ Up(i)
    /\ phase' = [phase EXCEPT ![i] = "final"]
    /\ impeded' = IF \E f \in Flush : step[f] = "upsert" THEN impeded \cup {i} ELSE impeded
    /\ UNCHANGED <<stream, index, hot, durable, flush, overtaken>>

\* stop_all has waited for the worker: its last save and last status are
\* written.  A flush may be under way that has read an older checkpoint.
StartFinalFlush(i) ==
    /\ Up(i) /\ ~(owner = i /\ status \in {"starting", "active"})
    /\ phase' = [phase EXCEPT ![i] = "final"]
    /\ impeded' = IF \E f \in Flush : step[f] = "upsert" THEN impeded \cup {i} ELSE impeded
    /\ UNCHANGED <<stream, index, hot, durable, flush, overtaken>>

\* The stop of the worker fails (a database does, or the metadata is gone):
\* stop_all logs it and goes on beside the worker.
LeaveWorker(i) ==
    /\ Up(i) /\ owner = i /\ status \in {"starting", "active"}
    /\ phase' = [phase EXCEPT ![i] = "final"]
    /\ impeded' = impeded \cup {i}
    /\ UNCHANGED <<stream, index, hot, durable, flush, overtaken>>

\* The flushes of a process end with it, wherever they are.
Drop(i) ==
    /\ step' = [f \in Flush |-> IF f[1] = i THEN "idle" ELSE step[f]]
    /\ seen' = [f \in Flush |-> IF f[1] = i THEN 0 ELSE seen[f]]
    /\ phase' = [phase EXCEPT ![i] = "down"]
    /\ overtaken' = {f \in overtaken : f[1] # i}
    /\ impeded' = impeded \ {i}
    /\ UNCHANGED <<stream, index, hot, durable>>

\* flusher.stop: the loop is asked to end and after 5 s cancelled.
StopFlusher(i) == phase[i] = "stop" /\ Drop(i)

\* The process dies.
Crash(i) == phase[i] \in {"up", "final"} /\ Drop(i)

-----------------------------------------------------------------------------

FlushStep(f) == ReadIndex(f) \/ ReadsNothing(f) \/ Fetch(f) \/ Prune(f) \/ Upsert(f) \/ FlushFails(f)

Next ==
    \/ End \/ Delete \/ Unindex
    \/ \E i \in Instance : \/ Claim(i) \/ Activate(i) \/ SaveCheckpoint(i) \/ Heartbeat(i)
                           \/ StartFinalFlush(i) \/ LeaveWorker(i) \/ StopFlusher(i) \/ Crash(i)
    \/ \E f \in Flush : FlushStep(f)

Spec == Init /\ [][Next]_vars

\* Flush loop and heartbeat run periodically, and neither database fails every
\* time it is asked.
FairSpec ==
    /\ Spec
    /\ WF_vars(Unindex)
    /\ \A i \in Instance : WF_vars(Heartbeat(i))
    /\ \A f \in Instance \X {"loop"} :
        WF_vars(ReadIndex(f)) /\ SF_vars(Fetch(f)) /\ SF_vars(Prune(f)) /\ SF_vars(Upsert(f))

-----------------------------------------------------------------------------
(* Properties.                                                               *)

\* However the index is raced, a worker that keeps running has its checkpoint
\* in Postgres in the end: the heartbeat repairs the index (stream_registry.py,
\* the heartbeat script).  So has a worker that has ended, as long as no sweep
\* deletes its metadata and no race takes it off the index: nothing else
\* flushes what it saved last (flush_stream_on_stop has no caller).
WorkerIsFlushed ==
    <>[]( /\ owner # None /\ Up(owner)
          /\ Live \/ (status = "ended" /\ owner \in index) ) => <>[](durable = hot)

\* Postgres goes back to an older save of the checkpoint only by a flush during
\* which the stream went to another instance (checkpoint_flusher.py, "Ownership
\* can move between instances"), or the other flush of its process read more.
RegressNeedsRace ==
    [][ durable' < durable => \E f \in overtaken : step[f] = "upsert" /\ step'[f] = "idle" ]_vars

\* "immediately flush Redis checkpoints to Postgres so we don't lose the final
\* state" (app.py, lifespan): when flusher.stop returns, Postgres has the last
\* checkpoint of a stream that is still this instance's, unless a flush was
\* already about to write when the final one began, the index had lost the
\* stream, a command failed, stop_all left the worker running, or a worker of
\* another instance saved meanwhile.
ShutdownPersists ==
    [][ \A i \in Instance : StopFlusher(i) /\ owner = i /\ i \notin impeded => durable = hot ]_vars
=============================================================================
