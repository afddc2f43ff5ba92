--------------------------- MODULE CommentPipeline --------------------------
(* The comments of one subreddit on their way from Reddit to Kafka           *)
(* (stream/worker.py): reading sessions, the asynchronous producer, the      *)
(* flush at every checkpoint boundary and the checkpoint in Redis.  At most  *)
(* one worker streams at a time, which is what Lease shows; a worker that    *)
(* lost its lease may still finish the save of its final checkpoint.         *)
(* Comments are numbered in the order they are posted.                       *)
EXTENDS Integers, FiniteSets

CONSTANTS MaxComments,   \* bound: comments posted
          Interval,      \* checkpoint_interval
          Window,        \* how many existing comments Reddit's listing returns
          MaxSessions    \* bound: reading sessions opened, over all workers

ASSUME PipelineAssumption ==
    MaxComments \in Nat /\ Interval \in Nat \ {0} /\ Window \in Nat /\ MaxSessions \in Nat

None == 0                \* no last_comment_id

VARIABLES
    posted,        \* comments on Reddit so far
    worker,        \* what the live worker does
    next,          \* the comment its session yields next
    resumedAt,     \* the checkpoint its session was opened with
    since,         \* comments_since_checkpoint
    inflight,      \* messages of the worker in the producer: <<session, comment>>
    failed,        \* _delivery_errors: comments whose delivery it heard fail
    stray,         \* comments of earlier workers still in a producer
    late,          \* a displaced worker is about to write this checkpoint back
    checkpoint,    \* stream:checkpoint:{id}.last_comment_id
    delivered,     \* comments Kafka has
    rejected,      \* comments given up with a recorded CommentProcessingError
    taken,         \* history: comments handed to the producer
    passed,        \* history: comments between a resumed checkpoint and the listing
    sessions       \* sessions opened so far

vars == <<posted, worker, next, resumedAt, since, inflight, failed, stray, late,
          checkpoint, delivered, rejected, taken, passed, sessions>>

InFlight == {m[2] : m \in inflight}

\* Nobody has to read these again.
Settled == delivered \cup rejected \cup passed

TypeOK ==
    /\ posted \in 0 .. MaxComments
    /\ worker \in {"none", "connect", "list", "stream", "flush", "save"}
    /\ next \in 1 .. MaxComments + 1
    /\ {resumedAt, late, checkpoint} \subseteq 0 .. posted
    /\ since \in 0 .. Interval
    /\ inflight \subseteq (1 .. sessions) \X (1 .. posted)
    /\ \A s \in {failed, stray, delivered, rejected, taken, passed} : s \subseteq 1 .. posted
    /\ sessions \in 0 .. MaxSessions

Init ==
    /\ posted = 0 /\ worker = "none" /\ next = 1 /\ resumedAt = None /\ since = 0
    /\ inflight = {} /\ failed = {} /\ stray = {} /\ late = None /\ checkpoint = None
    /\ delivered = {} /\ rejected = {} /\ taken = {} /\ passed = {} /\ sessions = 0

progress == <<delivered, rejected, taken, passed>>
source == <<posted, sessions>>

Post ==
    /\ posted < MaxComments
    /\ posted' = posted + 1
    /\ UNCHANGED <<worker, next, resumedAt, since, inflight, failed, stray, late,
                   checkpoint, progress, sessions>>

-----------------------------------------------------------------------------
(* Workers and sessions.                                                     *)

\* The worker object goes; its messages stay in the producer unheard.
Gone ==
    /\ worker' = "none"
    /\ stray' = stray \cup InFlight
    /\ inflight' = {}
    /\ failed' = {}
    /\ since' = 0

StartWorker ==
    /\ worker = "none" /\ sessions < MaxSessions
    /\ worker' = "connect"
    /\ UNCHANGED <<source, next, resumedAt, since, inflight, failed, stray, late,
                   checkpoint, progress>>

\* get_checkpoint, and from it skip_existing.
ReadCheckpoint ==
    /\ worker = "connect" /\ sessions < MaxSessions
    /\ worker' = "list"
    /\ resumedAt' = checkpoint
    /\ sessions' = sessions + 1
    /\ UNCHANGED <<posted, next, since, inflight, failed, stray, late, checkpoint, progress>>

\* The first listing: nothing that exists, or the latest Window comments.
OpenStream ==
    /\ worker = "list"
    /\ worker' = "stream"
    /\ next' = IF resumedAt = None THEN posted + 1
               ELSE IF posted > Window THEN posted - Window + 1 ELSE 1
    /\ passed' = passed \cup resumedAt + 1 .. next' - 1
    /\ UNCHANGED <<source, resumedAt, since, inflight, failed, stray, late,
                   checkpoint, delivered, rejected, taken>>

\* Mutant: the count starts over with every session.
DisconnectAfresh ==
    /\ worker \in {"list", "stream"}
    /\ worker' = "connect"
    /\ since' = 0
    /\ UNCHANGED <<source, next, resumedAt, inflight, failed, stray, late, checkpoint, progress>>

\* A retryable error ends the session: the same worker opens another one.
Disconnect ==
    /\ worker \in {"list", "stream"}
    /\ worker' = "connect"
    /\ UNCHANGED <<source, next, resumedAt, since, inflight, failed, stray, late,
                   checkpoint, progress>>

\* Cancelled, or ended by a fatal error, with the lease held throughout: the
\* final save writes back what it reads.
StopWorker ==
    /\ worker # "none"
    /\ Gone
    /\ UNCHANGED <<source, next, resumedAt, late, checkpoint, progress>>

\* Mutant: the final save of a displaced worker writes where it was.
LoseLeaseSavingPosition ==
    /\ worker # "none" /\ late = None
    /\ Gone
    /\ late' = next - 1
    /\ UNCHANGED <<source, next, resumedAt, checkpoint, progress>>

\* The lease is lost: the final save may interleave with the next worker.
LoseLease ==
    /\ worker # "none" /\ late = None
    /\ Gone
    /\ late' = checkpoint
    /\ UNCHANGED <<source, next, resumedAt, checkpoint, progress>>

WriteBack ==
    /\ late # None
    /\ checkpoint' = late
    /\ late' = None
    /\ UNCHANGED <<source, worker, next, resumedAt, since, inflight, failed, stray, progress>>

\* The process dies with whatever its producer held.
Crash ==
    /\ worker' = "none"
    /\ inflight' = {} /\ stray' = {} /\ failed' = {} /\ since' = 0 /\ late' = None
    /\ UNCHANGED <<source, next, resumedAt, checkpoint, progress>>

-----------------------------------------------------------------------------
(* One comment: _process_comment.                                            *)

Yielded ==
    /\ worker = "stream" /\ next <= posted
    /\ next' = next + 1

\* The comment of the checkpoint itself.
SkipCheckpointed ==
    /\ Yielded /\ next = resumedAt
    /\ UNCHANGED <<source, worker, resumedAt, since, inflight, failed, stray, late,
                   checkpoint, progress>>

Produce ==
    /\ Yielded /\ next # resumedAt
    /\ inflight' = inflight \cup {<<sessions, next>>}
    /\ taken' = taken \cup {next}
    /\ since' = since + 1
    /\ worker' = IF since + 1 >= Interval THEN "flush" ELSE "stream"
    /\ UNCHANGED <<source, resumedAt, failed, stray, late, checkpoint,
                   delivered, rejected, passed>>

\* Validation or serialization fails: recorded, and the session goes on.
Unprocessable ==
    /\ Yielded /\ next # resumedAt
    /\ rejected' = rejected \cup {next}
    /\ UNCHANGED <<source, worker, resumedAt, since, inflight, failed, stray, late,
                   checkpoint, delivered, taken, passed>>

\* produce raises (its queue is full): fatal.
QueueFull ==
    /\ Yielded /\ next # resumedAt
    /\ Gone
    /\ UNCHANGED <<source, resumedAt, late, checkpoint, progress>>

\* Kafka answers for a message of the worker (_on_delivery), or of an old one.
Deliver(m) ==
    /\ m \in inflight
    /\ inflight' = inflight \ {m}
    /\ \/ delivered' = delivered \cup {m[2]} /\ UNCHANGED failed
       \/ failed' = failed \cup {m[2]} /\ UNCHANGED delivered
    /\ UNCHANGED <<source, worker, next, resumedAt, since, stray, late, checkpoint,
                   rejected, taken, passed>>

DeliverStray(c) ==
    /\ c \in stray
    /\ stray' = stray \ {c}
    /\ delivered' \in {delivered, delivered \cup {c}}
    /\ UNCHANGED <<source, worker, next, resumedAt, since, inflight, failed, late,
                   checkpoint, rejected, taken, passed>>

-----------------------------------------------------------------------------
(* A checkpoint boundary.                                                    *)

\* Mutant: delivery errors are cleared without being looked at.
FlushIgnoringErrors ==
    /\ worker = "flush" /\ InFlight = {}
    /\ worker' = "save" /\ failed' = {}
    /\ UNCHANGED <<source, next, resumedAt, since, inflight, stray, late, checkpoint, progress>>

\* The producer is empty and no delivery was reported as failed.
Flush ==
    /\ worker = "flush" /\ InFlight = {} /\ failed = {}
    /\ worker' = "save"
    /\ UNCHANGED <<source, next, resumedAt, since, inflight, failed, stray, late,
                   checkpoint, progress>>

\* A delivery failed, or flush itself raised: fatal.
FlushFails ==
    /\ worker = "flush"
    /\ Gone
    /\ UNCHANGED <<source, next, resumedAt, late, checkpoint, progress>>

\* Mutant: the count is reset only by a save that worked.
SaveKeepingCount ==
    /\ worker = "save"
    /\ worker' = "stream"
    /\ \/ checkpoint' = next - 1 /\ since' = 0
       \/ UNCHANGED <<checkpoint, since>>
    /\ UNCHANGED <<source, next, resumedAt, inflight, failed, stray, late, progress>>

\* _save_checkpoint_for_comment_id; its failure is logged and forgotten.
Save ==
    /\ worker = "save"
    /\ worker' = "stream"
    /\ checkpoint' \in {next - 1, checkpoint}
    /\ since' = 0
    /\ UNCHANGED <<source, next, resumedAt, inflight, failed, stray, late, progress>>

-----------------------------------------------------------------------------

Next ==
    \/ Post
    \/ StartWorker \/ ReadCheckpoint \/ OpenStream \/ Disconnect
    \/ StopWorker \/ LoseLease \/ WriteBack \/ Crash
    \/ SkipCheckpointed \/ Produce \/ Unprocessable \/ QueueFull
    \/ \E m \in inflight : Deliver(m)
    \/ \E c \in stray : DeliverStray(c)
    \/ Flush \/ FlushFails \/ Save

Spec == Init /\ [][Next]_vars

\* Whatever the order of sessions, failures, crashes and late saves, no comment
\* at or below the checkpoint is still owed to Kafka: it was delivered, given up
\* with a recorded error, or lay between the checkpoint a session resumed from
\* and what Reddit listed for it (worker.py, _flush_delivery_batch before the
\* save).
CheckpointCovers ==
    1 .. checkpoint \subseteq Settled

Resume == INSTANCE ResumePoint WITH
            settled <- Settled, owed <- InFlight \cup failed,
            point <- checkpoint, carried <- late

\* Sessions, producer, flush and save implement a resume point: it moves only
\* while nothing is in flight and no failure was heard, a displaced worker puts
\* back only a point that there was, and whatever a worker forgets when it ends
\* lies above the point (worker.py, _process_comment and
\* _save_checkpoint_for_comment_id; README.md, "Processing guarantees").
ImplementsResumePoint == Resume!Spec

\* At most one interval of messages is unconfirmed, however often the worker
\* reconnects: comments_since_checkpoint lives as long as the worker, not as
\* long as the session (worker.py, _process_comment).
UnconfirmedBounded ==
    Cardinality(inflight) + Cardinality(failed) <= Interval

\* README.md, "Processing guarantees": recovery is at-least-once.  No session
\* starts behind a comment that a worker took and that Kafka neither has nor
\* may still get.
AtLeastOnce ==
    worker = "stream" =>
        \A c \in taken \ (delivered \cup InFlight \cup stray \cup failed) : c >= next
=============================================================================
