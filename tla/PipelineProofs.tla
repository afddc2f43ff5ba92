--------------------------- MODULE PipelineProofs ---------------------------
(* Theorems about CommentPipeline for any number of comments, sessions and   *)
(* any interval.  The argument: what a session has read is, up to the        *)
(* comment it yields next, delivered, given up, out of reach or still the    *)
(* worker's to hear about; an empty producer and no error heard make it the  *)
(* first three, and only then the checkpoint moves.                          *)
EXTENDS CommentPipeline, FiniteSetTheorems, TLAPS

\* No comment up to n is still owed to Kafka.
Covered(n) == \A c \in 1 .. n : c \in Settled

Open == worker \in {"stream", "flush", "save"}

CheckpointsCovered ==
    /\ Covered(checkpoint) /\ Covered(late)
    /\ worker \in {"list", "stream", "flush", "save"} => Covered(resumedAt)

ReadAccounted ==
    Open => /\ next <= posted + 1
            /\ \A c \in 1 .. next - 1 : c \in Settled \cup InFlight \cup failed

SavesNothingOwed == worker = "save" => inflight = {} /\ failed = {}

CountMatchesStep ==
    IF worker \in {"flush", "save"} THEN since = Interval ELSE since < Interval

\* No two messages of a worker are the same: a session yields a comment once.
MessagesDistinct ==
    /\ worker = "list" => \A m \in inflight : m[1] < sessions
    /\ Open => \A m \in inflight : m[1] = sessions => m[2] < next

SessionNumbered == worker \in {"list", "stream", "flush", "save"} => sessions >= 1

\* What is unconfirmed was produced since the last checkpoint.
CountsUnconfirmed == Cardinality(inflight) + Cardinality(failed) <= since

IInv ==
    /\ TypeOK /\ SessionNumbered /\ MessagesDistinct
    /\ CheckpointsCovered /\ ReadAccounted /\ SavesNothingOwed /\ CountMatchesStep

\* The initial states satisfy the invariant.
LEMMA PipelineInit == Init => IInv
  BY PipelineAssumption DEF Init, IInv, TypeOK, CheckpointsCovered, ReadAccounted, SavesNothingOwed,
                            CountMatchesStep, Covered, Open, MessagesDistinct, SessionNumbered, InFlight, None

\* What is settled stays settled, however the lists of comments grow.
LEMMA SettledGrows ==
  ASSUME [Next]_vars
  PROVE  Settled \subseteq Settled'
  <1> USE DEF Settled, progress, source, vars
  <1>1. CASE Post \/ StartWorker \/ ReadCheckpoint \/ OpenStream \/ Disconnect \/ StopWorker
    BY <1>1 DEF Post, StartWorker, ReadCheckpoint, OpenStream, Disconnect, StopWorker
  <1>2. CASE LoseLease \/ WriteBack \/ Crash \/ SkipCheckpointed \/ Produce \/ Unprocessable
    BY <1>2 DEF LoseLease, WriteBack, Crash, SkipCheckpointed, Produce, Unprocessable
  <1>3. CASE QueueFull \/ Flush \/ FlushFails \/ Save
    BY <1>3 DEF QueueFull, Flush, FlushFails, Save
  <1>4. CASE (\E m \in inflight : Deliver(m)) \/ (\E c \in stray : DeliverStray(c))
    BY <1>4 DEF Deliver, DeliverStray
  <1>5. CASE UNCHANGED vars
    BY <1>5
  <1> QED
    BY <1>1, <1>2, <1>3, <1>4, <1>5 DEF Next

\* A step that ends a worker keeps the invariant.
LEMMA WorkerGone ==
  ASSUME IInv, [Next]_vars, Gone \/ Crash,
         Covered(checkpoint'), Covered(late'), {checkpoint', late'} \subseteq 0 .. posted,
         next' \in 1 .. MaxComments + 1,
         UNCHANGED <<source, resumedAt, progress>>
  PROVE  IInv'
  <1> USE PipelineAssumption DEF IInv, source, progress, Gone, Crash
  <1>1. MessagesDistinct' /\ SessionNumbered'
    BY DEF MessagesDistinct, SessionNumbered, Open
  <1>2. TypeOK'
    <2>1. worker' = "none" /\ inflight' = {} /\ failed' = {} /\ since' = 0
      OBVIOUS
    <2>2. stray' \subseteq 1 .. posted
      BY DEF TypeOK, InFlight
    <2>3. posted' = posted /\ resumedAt' = resumedAt /\ sessions' = sessions
      OBVIOUS
    <2>4. delivered' = delivered /\ rejected' = rejected /\ taken' = taken /\ passed' = passed
      OBVIOUS
    <2> QED
      BY <2>1, <2>2, <2>3, <2>4 DEF TypeOK
  <1>3. CheckpointsCovered'
    BY DEF CheckpointsCovered, Covered, Settled
  <1>4. ReadAccounted' /\ SavesNothingOwed' /\ CountMatchesStep'
    <2>1. worker' = "none" /\ since' = 0 /\ 0 < Interval
      OBVIOUS
    <2> QED
      BY <2>1 DEF ReadAccounted, SavesNothingOwed, CountMatchesStep, Open
  <1> QED
    BY <1>1, <1>2, <1>3, <1>4

\* The steps that end a worker: stopped, displaced, killed, or failed.
LEMMA EndSteps ==
  ASSUME IInv, StopWorker \/ LoseLease \/ Crash \/ QueueFull \/ FlushFails
  PROVE  IInv'
  <1> USE PipelineAssumption DEF IInv
  <1>1. [Next]_vars
    BY DEF Next
  <1>2. /\ {checkpoint, late, None} \subseteq 0 .. posted
        /\ Covered(checkpoint) /\ Covered(late) /\ Covered(None)
        /\ next \in 1 .. MaxComments + 1 /\ posted \in 0 .. MaxComments
    BY DEF TypeOK, CheckpointsCovered, Covered, None
  <1>3. CASE StopWorker \/ FlushFails
    BY <1>1, <1>2, <1>3, WorkerGone DEF StopWorker, FlushFails, source
  <1>4. CASE LoseLease
    <2>1. checkpoint' = checkpoint /\ late' = checkpoint /\ Gone
          /\ UNCHANGED <<source, next, resumedAt, progress>>
      BY <1>4 DEF LoseLease
    <2> QED
      BY <2>1, <1>1, <1>2, WorkerGone
  <1>5. CASE Crash
    <2>1. checkpoint' = checkpoint /\ late' = None
          /\ UNCHANGED <<source, next, resumedAt, progress>>
      BY <1>5 DEF Crash
    <2> QED
      BY <1>5, <2>1, <1>1, <1>2, WorkerGone
  <1>6. CASE QueueFull
    <2>1. checkpoint' = checkpoint /\ late' = late /\ Gone
          /\ UNCHANGED <<source, resumedAt, progress>>
      BY <1>6 DEF QueueFull
    <2>2. next' = next + 1 /\ next <= posted
      BY <1>6 DEF QueueFull, Yielded
    <2>3. next' \in 1 .. MaxComments + 1
      BY <1>2, <2>2
    <2> QED
      BY <2>1, <2>3, <1>1, <1>2, WorkerGone
  <1> QED
    BY <1>3, <1>4, <1>5, <1>6

\* An interval from 1 lies up to a point or above it.
LEMMA IntervalSplit ==
  ASSUME NEW m \in Nat, NEW n \in Nat, NEW c \in 1 .. n - 1
  PROVE  c \in 1 .. m \/ c \in m + 1 .. n - 1
  OBVIOUS

\* A comment is posted, a session opens or closes, a displaced worker writes.
LEMMA SessionSteps ==
  ASSUME IInv, Post \/ StartWorker \/ ReadCheckpoint \/ OpenStream \/ Disconnect \/ WriteBack
  PROVE  IInv'
  <1> USE PipelineAssumption DEF IInv, source, progress
  <1>1. Settled \subseteq Settled'
    BY SettledGrows DEF Next
  <1>2. CASE Post
    <2>1. TypeOK' /\ MessagesDistinct' /\ SessionNumbered'
      BY <1>2 DEF Post, TypeOK, MessagesDistinct, SessionNumbered, Open
    <2> QED
      BY <1>2, <2>1 DEF Post, TypeOK, CheckpointsCovered, ReadAccounted, SavesNothingOwed, CountMatchesStep,
                        Covered, Settled, Open, InFlight
  <1>3. CASE StartWorker \/ ReadCheckpoint \/ Disconnect
    <2>1. TypeOK' /\ MessagesDistinct' /\ SessionNumbered' /\ CountMatchesStep'
      BY <1>3 DEF StartWorker, ReadCheckpoint, Disconnect, TypeOK, MessagesDistinct, SessionNumbered, Open, CountMatchesStep
    <2>2. CheckpointsCovered' /\ ReadAccounted' /\ SavesNothingOwed'
      BY <1>3 DEF StartWorker, ReadCheckpoint, Disconnect, CheckpointsCovered, ReadAccounted,
                  SavesNothingOwed, Covered, Settled, Open
    <2> QED
      BY <2>1, <2>2
  <1>4. CASE OpenStream
    <2>1. next' \in 1 .. posted + 1
      BY <1>4 DEF OpenStream, TypeOK
    <2>2. /\ worker = "list" /\ worker' = "stream" /\ passed' = passed \cup resumedAt + 1 .. next' - 1
          /\ UNCHANGED <<posted, resumedAt, since, inflight, failed, stray, late, checkpoint,
                         delivered, rejected, taken, sessions>>
      BY <1>4 DEF OpenStream
    <2>3. TypeOK'
      <3>1. posted \in Nat /\ posted <= MaxComments /\ resumedAt \in 0 .. posted
        BY DEF TypeOK
      <3>2. passed' \subseteq 1 .. posted
        BY <2>1, <2>2, <3>1 DEF TypeOK
      <3>3. next' \in 1 .. MaxComments + 1
        BY <2>1, <3>1
      <3> QED
        BY <2>2, <3>2, <3>3 DEF TypeOK
    <2>4. \A c \in 1 .. next' - 1 : c \in Settled'
      <3>1. SUFFICES ASSUME NEW c \in 1 .. next' - 1 PROVE c \in Settled'
        OBVIOUS
      <3>2. resumedAt \in Nat /\ next' \in Nat
        BY <2>1 DEF TypeOK
      <3>3. c \in 1 .. resumedAt \/ c \in resumedAt + 1 .. next' - 1
        BY <3>2, IntervalSplit
      <3>4. 1 .. resumedAt \subseteq Settled /\ resumedAt + 1 .. next' - 1 \subseteq Settled'
        BY <2>2 DEF CheckpointsCovered, Covered, Settled
      <3> QED
        BY <1>1, <3>3, <3>4
    <2>5. MessagesDistinct' /\ SessionNumbered' /\ CountMatchesStep' /\ SavesNothingOwed'
      BY <2>2 DEF MessagesDistinct, SessionNumbered, TypeOK, CountMatchesStep, SavesNothingOwed
    <2>6. CheckpointsCovered'
      BY <1>1, <2>2 DEF CheckpointsCovered, Covered
    <2>7. ReadAccounted'
      <3>1. posted' = posted /\ next' <= posted + 1
        BY <2>1, <2>2 DEF TypeOK
      <3> QED
        BY <2>4, <3>1 DEF ReadAccounted
    <2> QED
      BY <2>3, <2>5, <2>6, <2>7
  <1>5. CASE WriteBack
    <2>1. TypeOK' /\ MessagesDistinct' /\ SessionNumbered' /\ CountMatchesStep'
      BY <1>5 DEF WriteBack, TypeOK, MessagesDistinct, SessionNumbered, Open, CountMatchesStep, None
    <2>2. CheckpointsCovered' /\ ReadAccounted' /\ SavesNothingOwed'
      BY <1>5 DEF WriteBack, CheckpointsCovered, ReadAccounted, SavesNothingOwed, Covered, Settled,
                  Open, InFlight, None
    <2> QED
      BY <2>1, <2>2
  <1> QED
    BY <1>2, <1>3, <1>4, <1>5

\* The next comment is skipped, produced or given up: all that was read before
\* it keeps its place, and it gets one.
LEMMA CommentSteps ==
  ASSUME IInv, SkipCheckpointed \/ Produce \/ Unprocessable
  PROVE  IInv'
  <1> USE PipelineAssumption DEF IInv, source, progress
  <1>1. Settled \subseteq Settled'
    BY SettledGrows DEF Next
  <1>2. /\ worker = "stream" /\ next' = next + 1 /\ next \in 1 .. posted
        /\ posted \in 0 .. MaxComments
        /\ UNCHANGED <<posted, resumedAt, failed, stray, late, checkpoint, delivered, passed, sessions>>
    <2>1. posted \in 0 .. MaxComments /\ next \in 1 .. MaxComments + 1 /\ MaxComments \in Nat
      BY DEF TypeOK
    <2> QED
      BY <2>1 DEF SkipCheckpointed, Produce, Unprocessable, Yielded
  <1>3. next' \in 1 .. posted + 1 /\ next' \in 1 .. MaxComments + 1 /\ next' - 1 = next
    BY <1>2
  <1>4. /\ inflight \subseteq inflight' /\ inflight' \subseteq inflight \cup {<<sessions, next>>}
        /\ InFlight \subseteq InFlight'
    BY DEF SkipCheckpointed, Produce, Unprocessable, InFlight
  <1>5. next \in Settled' \cup InFlight' \cup failed'
    <2>1. CASE SkipCheckpointed
      <3>1. next \in 1 .. resumedAt
        BY <1>2, <2>1 DEF SkipCheckpointed
      <3> QED
        BY <1>1, <1>2, <3>1 DEF CheckpointsCovered, Covered
    <2>2. CASE Produce
      <3>1. <<sessions, next>> \in inflight' /\ <<sessions, next>>[2] = next
        BY <2>2 DEF Produce
      <3> QED
        BY <3>1 DEF InFlight
    <2>3. CASE Unprocessable
      BY <2>3 DEF Unprocessable, Settled
    <2> QED
      BY <2>1, <2>2, <2>3
  <1>6. CountMatchesStep' /\ since' \in 0 .. Interval /\ worker' \in {"stream", "flush"}
    BY <1>2 DEF SkipCheckpointed, Produce, Unprocessable, CountMatchesStep, TypeOK
  <1>7. TypeOK'
    <2>1. inflight' \subseteq (1 .. sessions) \X (1 .. posted)
      <3>1. sessions \in 1 .. sessions
        BY <1>2 DEF SessionNumbered, Open, TypeOK
      <3> QED
        BY <1>2, <1>4, <3>1 DEF TypeOK
    <2>2. taken' \subseteq 1 .. posted /\ rejected' \subseteq 1 .. posted
      BY <1>2 DEF SkipCheckpointed, Produce, Unprocessable, TypeOK
    <2> QED
      BY <1>2, <1>3, <1>6, <2>1, <2>2 DEF TypeOK
  <1>8. MessagesDistinct' /\ SessionNumbered'
    <2>1. \A m \in inflight : m[1] = sessions => m[2] < next
      BY <1>2 DEF MessagesDistinct, SessionNumbered, Open
    <2>2. \A m \in inflight' : m[1] = sessions => m[2] < next + 1
      BY <1>2, <1>4, <2>1 DEF TypeOK
    <2> QED
      BY <1>2, <1>6, <2>2 DEF MessagesDistinct, SessionNumbered
  <1>9. CheckpointsCovered' /\ SavesNothingOwed'
    BY <1>1, <1>2, <1>6 DEF CheckpointsCovered, SavesNothingOwed, Covered
  <1>10. ReadAccounted'
    <2>1. \A c \in 1 .. next - 1 : c \in Settled' \cup InFlight' \cup failed'
      BY <1>1, <1>2, <1>4 DEF ReadAccounted, Open
    <2>2. \A c \in 1 .. next : c \in 1 .. next - 1 \/ c = next
      BY <1>2
    <2> QED
      BY <1>2, <1>3, <1>5, <2>1, <2>2 DEF ReadAccounted
  <1> QED
    BY <1>6, <1>7, <1>8, <1>9, <1>10

\* Kafka answers: a message in flight becomes delivered or an error heard.
LEMMA DeliverySteps ==
  ASSUME IInv, (\E m \in inflight : Deliver(m)) \/ (\E c \in stray : DeliverStray(c))
  PROVE  IInv'
  <1> USE PipelineAssumption DEF IInv, source, progress
  <1>1. Settled \subseteq Settled'
    BY SettledGrows DEF Next
  <1>2. UNCHANGED <<posted, worker, next, resumedAt, since, late, checkpoint, sessions>>
    BY DEF Deliver, DeliverStray
  <1>3. inflight' \subseteq inflight
    BY DEF Deliver, DeliverStray
  <1>4. InFlight \cup failed \subseteq InFlight' \cup failed' \cup Settled'
    BY DEF Deliver, DeliverStray, InFlight, Settled
  <1>5. TypeOK'
    <2>1. inflight' \subseteq (1 .. sessions) \X (1 .. posted)
      BY <1>3 DEF TypeOK
    <2>2. InFlight \subseteq 1 .. posted /\ stray \subseteq 1 .. posted
      BY DEF TypeOK, InFlight
    <2>3. \A s \in {failed', stray', delivered', rejected', taken', passed'} : s \subseteq 1 .. posted
      BY <2>2 DEF Deliver, DeliverStray, TypeOK, InFlight
    <2> QED
      BY <1>2, <2>1, <2>3 DEF TypeOK
  <1>6. MessagesDistinct' /\ SessionNumbered' /\ CountMatchesStep'
    BY <1>2, <1>3 DEF MessagesDistinct, SessionNumbered, CountMatchesStep, Open
  <1>7. CheckpointsCovered' /\ SavesNothingOwed'
    <2>1. CheckpointsCovered'
      BY <1>1, <1>2 DEF CheckpointsCovered, Covered
    <2>2. worker = "save" => failed' = {}
      BY DEF Deliver, DeliverStray, SavesNothingOwed
    <2> QED
      BY <1>2, <1>3, <2>1, <2>2 DEF SavesNothingOwed
  <1>8. ReadAccounted'
    BY <1>1, <1>2, <1>4 DEF ReadAccounted, Open
  <1> QED
    BY <1>5, <1>6, <1>7, <1>8

\* A boundary: only a producer without messages and without errors leads to the
\* save, and the save covers what was read.
LEMMA BoundarySteps ==
  ASSUME IInv, Flush \/ Save
  PROVE  IInv'
  <1> USE PipelineAssumption DEF IInv, source, progress
  <1>1. UNCHANGED <<posted, next, resumedAt, inflight, failed, stray, late, delivered, rejected, taken, passed, sessions>>
    BY DEF Flush, Save
  <1>2. Settled' = Settled /\ InFlight' = InFlight
    BY <1>1 DEF Settled, InFlight
  <1>3. ReadAccounted' /\ MessagesDistinct' /\ SessionNumbered'
    BY <1>1, <1>2 DEF Flush, Save, ReadAccounted, Open, MessagesDistinct, SessionNumbered
  <1>4. CASE Flush
    <2>1. TypeOK' /\ CountMatchesStep'
      BY <1>1, <1>4 DEF Flush, TypeOK, CountMatchesStep
    <2>2. CheckpointsCovered'
      BY <1>1, <1>2, <1>4 DEF Flush, CheckpointsCovered, Covered
    <2>3. SavesNothingOwed'
      BY <1>1, <1>4 DEF Flush, SavesNothingOwed, InFlight
    <2> QED
      BY <1>3, <2>1, <2>2, <2>3
  <1>5. CASE Save
    <2>1. Covered(checkpoint') /\ checkpoint' \in 0 .. posted
      BY <1>5 DEF Save, SavesNothingOwed, CheckpointsCovered, ReadAccounted, Open, InFlight, Covered, TypeOK
    <2>2. TypeOK'
      BY <1>1, <1>5, <2>1 DEF Save, TypeOK
    <2>3. CheckpointsCovered' /\ SavesNothingOwed'
      BY <1>1, <1>2, <1>5, <2>1 DEF Save, CheckpointsCovered, SavesNothingOwed, Covered
    <2>4. CountMatchesStep'
      BY <1>5 DEF Save, CountMatchesStep
    <2> QED
      BY <1>3, <2>2, <2>3, <2>4
  <1> QED
    BY <1>4, <1>5

\* The invariant holds in every reachable state.
THEOREM PipelineInvariant == Spec => []IInv
  <1>1. IInv /\ [Next]_vars => IInv'
    <2>1. IInv /\ UNCHANGED vars => IInv'
      BY DEF IInv, vars, TypeOK, MessagesDistinct, SessionNumbered, InFlight, CheckpointsCovered, ReadAccounted,
             SavesNothingOwed, CountMatchesStep, Covered, Settled, Open
    <2> QED
      BY <2>1, EndSteps, SessionSteps, CommentSteps, DeliverySteps, BoundarySteps DEF Next
  <1> QED
    BY <1>1, PipelineInit, PTL DEF Spec

\* Type correctness, for any number of comments and sessions.
THEOREM PipelineTypes == Spec => []TypeOK
  BY PipelineInvariant, PTL DEF IInv

\* No comment at or below the checkpoint is still owed to Kafka, whatever the
\* interval, the listing window and the number of comments: a save happens only
\* after a flush that left no message and no error (worker.py,
\* _flush_delivery_batch), and a displaced worker writes back what was covered.
THEOREM CheckpointSound == Spec => []CheckpointCovers
  <1>1. IInv => CheckpointCovers
    BY DEF IInv, CheckpointsCovered, Covered, Settled, CheckpointCovers
  <1> QED
    BY <1>1, PipelineInvariant, PTL

-----------------------------------------------------------------------------
(* How much is unconfirmed.                                                  *)

\* Producer and error list are finite, and no message, no count.
LEMMA UnconfirmedFinite ==
  ASSUME TypeOK
  PROVE  /\ IsFiniteSet(inflight) /\ IsFiniteSet(failed)
         /\ Cardinality(inflight) \in Nat /\ Cardinality(failed) \in Nat
  <1>1. posted \in Int /\ sessions \in Int /\ 1 \in Int
    BY PipelineAssumption DEF TypeOK
  <1>2. IsFiniteSet(1 .. posted) /\ IsFiniteSet(1 .. sessions)
    BY <1>1, FS_Interval
  <1>3. IsFiniteSet((1 .. sessions) \X (1 .. posted))
    BY <1>2, FS_Product
  <1>4. inflight \subseteq (1 .. sessions) \X (1 .. posted) /\ failed \subseteq 1 .. posted
    BY DEF TypeOK
  <1>5. IsFiniteSet(inflight) /\ IsFiniteSet(failed)
    BY <1>2, <1>3, <1>4, FS_Subset
  <1> QED
    BY <1>5, FS_CardinalityType

\* A worker that ends, or that saves, leaves nothing to count.
LEMMA NothingCounted ==
  ASSUME TypeOK, TypeOK', inflight' = {}, failed' = {}
  PROVE  CountsUnconfirmed'
  <1>1. Cardinality(inflight') = 0 /\ Cardinality(failed') = 0
    BY FS_EmptySet
  <1> QED
    BY <1>1 DEF CountsUnconfirmed, TypeOK

\* Every step keeps the count: a message counts when it is produced, an error
\* takes the place of its message, and the count starts over only with nothing
\* unconfirmed.
LEMMA CountStep == IInv /\ IInv' /\ CountsUnconfirmed /\ [Next]_vars => CountsUnconfirmed'
  <1> SUFFICES ASSUME IInv, IInv', CountsUnconfirmed, [Next]_vars PROVE CountsUnconfirmed'
    OBVIOUS
  <1> USE DEF source, progress
  <1>1. TypeOK /\ TypeOK' /\ since \in Nat
    BY DEF IInv, TypeOK
  <1>2. /\ IsFiniteSet(inflight) /\ IsFiniteSet(failed)
        /\ Cardinality(inflight) \in Nat /\ Cardinality(failed) \in Nat
    BY <1>1, UnconfirmedFinite
  <1>3. CASE Post \/ StartWorker \/ ReadCheckpoint \/ OpenStream \/ Disconnect \/ WriteBack \/ UNCHANGED vars
    BY <1>3 DEF Post, StartWorker, ReadCheckpoint, OpenStream, Disconnect, WriteBack, vars, CountsUnconfirmed
  <1>4. CASE SkipCheckpointed \/ Unprocessable \/ Flush
    BY <1>4 DEF SkipCheckpointed, Unprocessable, Flush, CountsUnconfirmed
  <1>5. CASE StopWorker \/ LoseLease \/ Crash \/ QueueFull \/ FlushFails
    <2>1. inflight' = {} /\ failed' = {}
      BY <1>5 DEF StopWorker, LoseLease, Crash, QueueFull, FlushFails, Gone
    <2> QED
      BY <1>1, <2>1, NothingCounted
  <1>6. CASE Save
    <2>1. inflight' = {} /\ failed' = {}
      BY <1>6 DEF Save, IInv, SavesNothingOwed
    <2> QED
      BY <1>1, <2>1, NothingCounted
  <1>7. CASE Produce
    <2>1. inflight' = inflight \cup {<<sessions, next>>} /\ failed' = failed /\ since' = since + 1
      BY <1>7 DEF Produce
    <2>2. Cardinality(inflight') = Cardinality(inflight) \/ Cardinality(inflight') = Cardinality(inflight) + 1
      BY <1>2, <2>1, FS_AddElement
    <2> QED
      BY <1>1, <1>2, <2>1, <2>2 DEF CountsUnconfirmed
  <1>8. ASSUME NEW m \in inflight, Deliver(m)
        PROVE  CountsUnconfirmed'
    <2>1. /\ inflight' = inflight \ {m} /\ since' = since
          /\ failed' = failed \/ failed' = failed \cup {m[2]}
      BY <1>8 DEF Deliver
    <2>2. Cardinality(inflight') = Cardinality(inflight) - 1
      BY <1>2, <2>1, FS_RemoveElement
    <2>3. Cardinality(failed') \in {Cardinality(failed), Cardinality(failed) + 1}
      BY <1>2, <2>1, FS_AddElement
    <2> QED
      BY <1>1, <1>2, <2>1, <2>2, <2>3 DEF CountsUnconfirmed
  <1>9. ASSUME NEW c \in stray, DeliverStray(c)
        PROVE  CountsUnconfirmed'
    BY <1>9 DEF DeliverStray, CountsUnconfirmed
  <1> QED
    BY <1>3, <1>4, <1>5, <1>6, <1>7, <1>8, <1>9 DEF Next

\* At most one interval of messages is unconfirmed, for any interval and however
\* often a worker reconnects (worker.py, _process_comment): the count of comments
\* since the last checkpoint counts every message in flight and every error
\* heard, because it outlives the session and is reset only at a boundary that
\* found neither.
THEOREM UnconfirmedWithinInterval == Spec => []UnconfirmedBounded
  <1>1. Init => CountsUnconfirmed
    <2> SUFFICES ASSUME Init PROVE CountsUnconfirmed
      OBVIOUS
    <2>1. inflight = {} /\ failed = {} /\ since = 0 /\ Cardinality({}) = 0
      BY FS_EmptySet DEF Init
    <2> QED
      BY <2>1 DEF CountsUnconfirmed
  <1>2. IInv /\ CountsUnconfirmed => UnconfirmedBounded
    <2> SUFFICES ASSUME IInv, CountsUnconfirmed PROVE UnconfirmedBounded
      OBVIOUS
    <2>1. since \in Nat /\ since <= Interval /\ Interval \in Nat
      BY PipelineAssumption DEF IInv, TypeOK
    <2>2. Cardinality(inflight) \in Nat /\ Cardinality(failed) \in Nat
      BY UnconfirmedFinite DEF IInv
    <2> QED
      BY <2>1, <2>2 DEF CountsUnconfirmed, UnconfirmedBounded
  <1> QED
    BY <1>1, <1>2, CountStep, PipelineInvariant, PTL DEF Spec

\* A message is told apart from all that are in flight: no two of them are the
\* same session's message of the same comment, so that the count above counts
\* messages (worker.py, _process_comment).
THEOREM MessagesAreNew == Spec => [][Produce => <<sessions, next>> \notin inflight]_vars
  <1>1. IInv => (Produce => <<sessions, next>> \notin inflight)
    <2> SUFFICES ASSUME IInv, Produce, <<sessions, next>> \in inflight PROVE FALSE
      OBVIOUS
    <2>1. worker = "stream" /\ next \in Nat
      BY DEF Produce, Yielded, IInv, TypeOK
    <2>2. <<sessions, next>>[1] = sessions => <<sessions, next>>[2] < next
      BY <2>1 DEF IInv, MessagesDistinct, Open
    <2> QED
      BY <2>1, <2>2
  <1> QED
    BY <1>1, PipelineInvariant, PTL DEF Spec

-----------------------------------------------------------------------------
(* The refinement of ResumePoint.                                            *)

Owed == InFlight \cup failed

\* A worker that ends forgets only what lies above the checkpoint.
LEMMA EndsAboveThePoint ==
  ASSUME IInv, inflight' = {}, failed' = {}, late' \in {late, checkpoint, None},
         UNCHANGED <<checkpoint, progress>>
  PROVE  Resume!End
  <1>1. ASSUME NEW c \in Owed \ Settled PROVE c > checkpoint
    <2>1. c \in 1 .. posted
      BY DEF Owed, InFlight, IInv, TypeOK
    <2>2. checkpoint \in Nat /\ posted \in Nat
      BY PipelineAssumption DEF IInv, TypeOK
    <2>3. c \notin 1 .. checkpoint
      BY DEF IInv, CheckpointsCovered, Covered
    <2> QED
      BY <2>1, <2>2, <2>3
  <1>2. Owed' = {} /\ Settled' = Settled
    BY DEF Owed, InFlight, Settled, progress
  <1> QED
    BY <1>1, <1>2 DEF Resume!End, Owed, Settled, InFlight

\* Every step of the pipeline is a step of ResumePoint, or none.
LEMMA ResumeStep == IInv /\ [Next]_vars => [Resume!Next]_<<Settled, Owed, checkpoint, late>>
  <1> DEFINE Goal == [Resume!Next]_<<Settled, Owed, checkpoint, late>>
  <1> SUFFICES ASSUME IInv, [Next]_vars PROVE Goal
    OBVIOUS
  <1> USE DEF source, progress
  <1>1. CASE Post \/ StartWorker \/ ReadCheckpoint \/ Disconnect \/ SkipCheckpointed \/ Flush \/ UNCHANGED vars
    BY <1>1 DEF Post, StartWorker, ReadCheckpoint, Disconnect, SkipCheckpointed, Flush, vars,
                Settled, Owed, InFlight
  <1>2. CASE OpenStream \/ Unprocessable \/ \E c \in stray : DeliverStray(c)
    <2>1. Settled \subseteq Settled' /\ Owed' = Owed /\ UNCHANGED <<checkpoint, late>>
      BY <1>2 DEF OpenStream, Unprocessable, DeliverStray, Settled, Owed, InFlight
    <2>2. Resume!Settle
      BY <2>1 DEF Resume!Settle, Owed, Settled, InFlight
    <2> QED
      BY <2>2 DEF Resume!Next
  <1>3. ASSUME NEW m \in inflight, Deliver(m)
        PROVE  Goal
    <2>1. /\ inflight' = inflight \ {m}
          /\ \/ delivered' = delivered \cup {m[2]} /\ failed' = failed
             \/ failed' = failed \cup {m[2]} /\ delivered' = delivered
          /\ UNCHANGED <<rejected, passed, checkpoint, late>>
      BY <1>3 DEF Deliver
    <2>2. InFlight' \subseteq InFlight /\ InFlight \subseteq InFlight' \cup {m[2]} /\ m[2] \in InFlight
      <3>1. \A o \in inflight : o \in inflight' \/ o = m
        BY <2>1
      <3> QED
        BY <2>1, <3>1 DEF InFlight
    <2>3. Settled \subseteq Settled' /\ Owed' \subseteq Owed /\ Owed \ Owed' \subseteq Settled'
      BY <2>1, <2>2 DEF Settled, Owed
    <2>4. Resume!Settle
      BY <2>1, <2>3 DEF Resume!Settle, Owed
    <2> QED
      BY <2>4 DEF Resume!Next
  <1>4. CASE Produce
    <2>1. /\ inflight' = inflight \cup {<<sessions, next>>}
          /\ UNCHANGED <<failed, delivered, rejected, passed, checkpoint, late>>
      BY <1>4 DEF Produce
    <2>2. InFlight \subseteq InFlight' /\ InFlight' \subseteq InFlight \cup {next}
      BY <2>1 DEF InFlight
    <2>3. Owed \subseteq Owed' /\ Owed' \ Owed \subseteq {next} /\ Settled' = Settled
      BY <2>1, <2>2 DEF Owed, Settled
    <2>4. next > 0
      BY PipelineAssumption DEF IInv, TypeOK
    <2>5. Resume!Take
      BY <2>1, <2>3, <2>4 DEF Resume!Take, Owed
    <2> QED
      BY <2>5 DEF Resume!Next
  <1>5. CASE StopWorker \/ LoseLease \/ Crash \/ QueueFull \/ FlushFails
    <2>1. inflight' = {} /\ failed' = {} /\ late' \in {late, checkpoint, None}
          /\ UNCHANGED <<checkpoint, progress>>
      BY <1>5 DEF StopWorker, LoseLease, Crash, QueueFull, FlushFails, Gone
    <2>2. Resume!End
      BY <2>1, EndsAboveThePoint
    <2> QED
      BY <2>2 DEF Resume!Next
  <1>6. CASE WriteBack
    <2>1. checkpoint' = late /\ late' = None /\ UNCHANGED <<inflight, failed, delivered, rejected, passed>>
      BY <1>6 DEF WriteBack
    <2>2. Settled' = Settled /\ Owed' = Owed
      BY <2>1 DEF Settled, Owed, InFlight
    <2>3. Resume!WriteBack
      BY <2>1, <2>2 DEF Resume!WriteBack, Owed
    <2> QED
      BY <2>3 DEF Resume!Next
  <1>7. CASE Save
    <2>1. /\ worker = "save" /\ checkpoint' \in {next - 1, checkpoint}
          /\ UNCHANGED <<inflight, failed, delivered, rejected, passed, late>>
      BY <1>7 DEF Save
    <2>2. Owed = {} /\ Owed' = Owed /\ Settled' = Settled
      BY <2>1 DEF IInv, SavesNothingOwed, Owed, InFlight, Settled
    <2>3. 1 .. checkpoint' \subseteq Settled
      BY <2>1, <2>2 DEF IInv, CheckpointsCovered, Covered, ReadAccounted, Open, Owed
    <2>4. Resume!Move
      BY <2>1, <2>2, <2>3 DEF Resume!Move, Owed
    <2> QED
      BY <2>4 DEF Resume!Next
  <1> QED
    BY <1>1, <1>2, <1>3, <1>4, <1>5, <1>6, <1>7 DEF Next

\* The pipeline implements ResumePoint, for any number of comments and sessions
\* and any interval and window: the checkpoint moves only while nothing is owed,
\* and whatever a worker forgets lies above it (worker.py, _process_comment,
\* _flush_delivery_batch, _save_checkpoint_for_comment_id).
THEOREM PipelineRefines == Spec => ImplementsResumePoint
  <1>1. Init => Resume!Init
    BY DEF Init, Resume!Init, Settled, InFlight
  <1>2. IInv /\ [Next]_vars => [Resume!Next]_<<Settled, Owed, checkpoint, late>>
    BY ResumeStep
  <1> QED
    BY <1>1, <1>2, PipelineInvariant, PTL DEF Spec, ImplementsResumePoint, Resume!Spec, Resume!vars, Owed
=============================================================================
