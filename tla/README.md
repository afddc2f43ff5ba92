# TLA+ verification of the Reddit streaming service

This directory models the coordination core of `apps/reddit-kafka`: the service
that streams the comments of subreddits into Kafka from several API processes,
which share one Redis and one Postgres. The modules are translated from the
source; file names below are relative to `src/apps/reddit-kafka/src/`.
`PROJECT.json` lists the runs, the source lines behind every definition, the
hazards and the findings in machine-readable form.

Run a model with `tlc -config X.cfg Module` and a proof with `tlapm Module.tla`
inside this directory.

## 1. The system

| Component | State it keeps | Operations | Interacts with |
| --- | --- | --- | --- |
| Lock manager (`stream/lock.py`) | the Redis key `stream:lock:{subreddit}`: token and expiry | `acquire_lock` (SET NX EX), `refresh_lock`, `release_lock` (Lua compare-and-set scripts) | manager acquires, worker refreshes and releases |
| Stream worker (`stream/worker.py`) | stream and refresh tasks, count since the last checkpoint, failed deliveries | `run`, `_lock_refresh_loop`, `_run_stream_loop`, `_process_comment`, `_on_delivery`, `_flush_delivery_batch`, `_save_checkpoint`, `_handle_error` | lock manager, registry, Reddit, Kafka producer, breaker, error handler |
| Circuit breaker (`stream/circuit_breaker.py`) | state, failure and success counts, backoff, time of the last failure | `call`, `record_success`, `record_failure` | wraps the worker's reading session |
| Error handler (`stream/error_handler.py`) | a bounded Redis list and a Postgres table of errors | `record_error`, classification, suggested backoff | called by the worker |
| Stream registry (`repositories/stream_registry.py`) | Redis: identity, claim, metadata, global and per-instance index, stop request, checkpoint; mirror rows in Postgres | `create_stream`, `update_status`, heartbeat, `request_stop`, `delete_stream`, `list_streams`, `set_checkpoint` | everybody |
| Stream manager (`stream/manager.py`) | `_tasks`: the local runners by subreddit | `start_stream`, `_run`, the stop watcher, `stop_stream`, `stop_all` | registry, lock manager, runner |
| API and lifespan (`app.py`) | the process's singletons | `POST /streams`, `POST /streams/{id}/stop`, runner factory, shutdown | manager, registry |
| Dead-stream cleanup (`tasks/dead_stream_cleanup.py`) | nothing of its own | a sweep: scan, then conditional deletes | registry |
| Checkpoint flusher (`tasks/checkpoint_flusher.py`) | its loop task | `flush`: instance index, metadata with checkpoint, prune, upsert; once more when the process shuts down, beside the loop; `stop` | registry's keys, Postgres |
| Migrations (`migrations.py`) | `schema_migrations`: version and checksum of every script that was run | a one-shot job: lock, read, run what is missing, record, commit; retries until one deadline | Postgres; other jobs, through the advisory lock |
| Models, Avro serializer, settings, clients, Terraform, schemas | data and wiring | validation, encoding | everybody |

Nothing is shared between processes but Redis, Postgres and Kafka. Inside a
process everything runs on one asyncio loop, so an interleaving point is an
`await`; between processes it is a Redis command or script. Cancellation is
delivered at awaits and can be delivered twice.

What is hard here:

* **Time.** A worker may stream only while it owns a lease that Redis expires
  by itself; sleeps, `wait_for` and the untimed heartbeat all use it up.
* **Check-then-act over Redis.** Most registry operations are several commands
  that other processes' commands fall between; only the deletes, refresh and
  heartbeat are scripts.
* **Cancellation and double writes.** The watcher, the stop call and the
  shutdown cancel the same runner; worker and manager both write its last status.
* **Asynchronous delivery.** A comment is counted when it is produced and
  confirmed, or not, much later, perhaps in another reading session.
* **The end of a process.** The lifespan stops the workers, flushes once more
  beside a flush that may be under way, and stops the flusher; each step goes on
  when the one before it failed.
* **Jobs that do not know what they did.** A migration job whose connection is
  lost in its commit runs again.
* **Recovery from a lagging point.** A new session starts at a checkpoint, or
  with nothing that exists; Postgres follows Redis with a delay.
* **A breaker around a call that never returns**, with a caller that retries.

What makes each part correct: at most one worker per subreddit, which stops
before Redis can give its lease away (lease); registry, index and stop request
agree with who really streams, and settle when nothing is under way (registry,
manager, API, cleanup); one stream id per subreddit for ever (identity); the
checkpoint never covers a comment still owed to Kafka (pipeline); Reddit is
spared after repeated failures and a healthy stream is not ended (recovery); the
durable checkpoint follows the hot one, and is the last one after a shutdown
(flusher); a release of migrations is applied as a whole or not at all, once, and
in order (migrations).

## 2. Modules

| Module | Models | State and actions, in terms of the code |
| --- | --- | --- |
| `Lease` | `lock.py`, and `run` / `_lock_refresh_loop` of the worker | A `Worker` is one acquisition attempt with its token. `pc` is where the attempt is: `starting` from SET NX to `run`, then `sleeping`, `refreshing`, `beating` (registry heartbeat), `losing` (LockLostError on its way to `run`), `saving`, `releasing`. `wire` holds commands sent and not executed: they can be lost (`Drop`), repeated by the client (`ResendRefresh`) or executed long after the worker gave up. `timer[w]` bounds how long the worker can stay where it is; `Tick` lowers every timer and the key's `ttl` and cannot pass a deadline that is due. `Abandon` is death, or an end that skips the release. |
| `TimedLease` | the durations | `Lease` under `TimingAssumption`. |
| `SingleOwner` | abstract specification | One acquisition streams at a time, with a gap between two, and none streams twice. `Lease` and `StreamControl` both implement it. |
| `StreamRegistry` | the Redis keys of one subreddit | One operator per command or script. |
| `StreamControl` | manager, handlers, runner, watcher, cleanup, composed with the registry | `startPc` walks through `start_stream` command by command, `task` is the phase of `_run` and its runner, `cause` why the runner is ending, `stopPc` the stop endpoint, `sweepPc` a sweep. `StopAll` is the shutdown of a process (`closing`): it waits for its requests and becomes a stop call for what runs there. `Cancelled` is `task.cancel()` by what the task is waiting for. |
| `StreamIdentity` | `create_stream`'s identity key and the delete script | Creators that each draw a candidate id, the backfill of a stream older than the identity key, deletes at any moment. |
| `CommentPipeline` | sessions, producing, delivery reports, flush and save | Comments are numbers in posting order. `inflight` holds the live worker's messages in the producer, each with the session that sent it, since a session that resumes may send a comment again; `failed` is `_delivery_errors`; `stray` what earlier workers left in a producer. `late` is the final save of a displaced worker between its read and its write. |
| `ResumePoint` | abstract specification | A resume point moves only over what is settled and only while nothing is owed; a reader may end and forget what it owes, and put back a point that there was. `CommentPipeline` implements it. |
| `StreamRecovery` | breaker, `_run_stream_loop`, `_handle_error` | `pc` is the loop; `state`, `failures`, `successes`, `backoff` are the breaker's fields and `elapsed` the time since its last failure. |
| `CheckpointFlush` | flusher, index maintenance of registry, heartbeat and cleanup, and the shutdown of `lifespan` | One stream, several instances. `hot` counts the writes of the Redis checkpoint (a write-back by a displaced worker is one more write, whatever it says). A flush is `<<i, "loop">>` or `<<i, "final">>`; `step` and `seen` are where it is and what it read. `phase[i]` is the process: up, in its final flush (`StartFinalFlush` after `stop_all`, or `LeaveWorker` when that failed), in `flusher.stop`, down. `overtaken` and `impeded` record the races of flushes and shutdowns. |
| `Migrations` | `migrations.py` | Jobs built from any releases (`files`). `TakeLock`, `ReadApplied`, `VisitNext`, `AskCommit`, `Commit` are one attempt; `tx` is the one transaction that is past the advisory lock, which the server ends by itself (`SessionEnds`) when its client is gone; `StatementFails` and `late` are `_run_with_retry` with its one deadline. File names are numbers with a width, sorted as `sorted()` sorts their characters. |
| `MigrationLedger` | abstract specification | A release is applied as a whole or not at all, and never over an edited script. |
| `LeaseProofs`, `ControlProofs`, `RegistryProofs`, `IdentityProofs`, `FlushProofs`, `PipelineProofs`, `RecoveryProofs`, `MigrationProofs` | theorems | see section 5 |
| `MCLease`, `MCTimedLease`, `MCStreamControl`, `MCStreamIdentity`, `MCStreamRecovery`, `MCMigrations` | instances for TLC | symmetry sets and state bounds only |

How they fit together: `StreamControl` extends `StreamRegistry` and takes from
`Lease` that the lock of a streaming attempt does not expire (`Unkept`).
`StreamControl`, `CommentPipeline` and `CheckpointFlush` take from
`StreamIdentity` that the keys need no stream id. `CommentPipeline` takes from
`Lease` that one worker streams at a time, and keeps the displaced worker's late
save, which the lease does not exclude. `CheckpointFlush` abstracts the worker
to writes of the checkpoint. Lease and control are tied by `SingleOwner`: both are
shown to pass the stream of a subreddit on in the same way. What a worker may
forget when its lease passes on is what `ResumePoint` says: nothing at or below
the checkpoint. `Migrations` runs
before everything else and shares only Postgres with it.

Operators with a comment that begins with "Mutant:" are deliberate faults: each
is an edited copy of the action that follows it, or of a neighbouring one, and
`PROJECT.json` ("mutants") pairs it with the property that fails when it takes
that action's place. They are in no `Next`; they show that each property depends
on the code it is about.

### Abstractions

* Contents of comments, errors, schemas and log lines are left out; validation
  and serialization "can fail".
* Postgres rows for streams and errors are written and never read by the
  program; `stream_checkpoints` and `schema_migrations` are modelled. What a
  migration script does to the schema is one effect, present or not.
* Real time exists in `Lease` (one tick is a second) and `StreamRecovery`
  (seconds); elsewhere a delay is an arbitrary interleaving.
* Subreddits are independent of each other, so one is modelled. The exceptions
  are batching in flush and sweep, which treat streams one by one.
* Redis commands that fail are modelled in the lease, the pipeline, recording of
  errors and the flusher. In `StreamControl` a failing start is the fault
  `startup` or a crash at that point.

### Named races in `StreamControl`

The registry protocol has races its invariants cannot survive. Rather than
excluding them, the model records each, when it happens, in the history variable
`overtaken`, and each invariant names the ones that can break it:

| Race | Where | What happens |
| --- | --- | --- |
| `terminal` | `manager.py:126`, `worker.py:401` | a last status lands on the entry of a later attempt |
| `active` | `manager.py:80` | "active" is written after the attempt ended or was replaced |
| `stop` | `stream_registry.py:313` | "stopping" lands on a finished or replaced entry |
| `undo` | `manager.py:68` | a refused start deletes an entry that is no longer its own |
| `unlist` | `stream_registry.py:257` | an id that was just created is taken off the index |
| `skipped` | `manager.py:72` | "already running locally" after the lock was acquired |
| `unreported` | `manager.py:119` | a task is cancelled before it writes its last status |
| `interrupted` | `manager.py:161` | a runner is cancelled once more during its last save or its release |
| `abandoned` | `app.py:87` | a runner ends before the worker whose end releases the lease |

`RunnerHoldsLock` and the refinement of `SingleOwner` excuse none of them
(`ControlProofs`). What each of the other invariants excuses is exactly what it
needs: `RegistryProofs` proves it in every behaviour without those races.

A scenario worth knowing is `interrupted`: the watcher acts on the stop request
that `stop_stream` has published and cancels the runner; `stop_stream` then
cancels the same task, and the second cancellation lands in the runner's final
save or its release. The lease then stays until it expires, and the subreddit
cannot be started for a minute. `LeaseReturned` says that this, a runner that
never reached its worker, and a start that launched nothing are the only ways.

## 3. Runs

| Run | Module, cfg | Checks | Shows |
| --- | --- | --- | --- |
| `lease_real` | `MCTimedLease`, `LeaseReal` | TypeOK, MutualExclusion, FailsClosed, StaleOwnerHarmless, ImplementsSingleOwner | With the code's 60 / 30 / 10 s, a heartbeat of at most 5 s and a second of event-loop lag, two attempts never stream together, and the lease implements `SingleOwner`. |
| `lease_slow` | `MCLease`, `LeaseSlow` | LossIsNoticed, LeaseIsFreed | With a heartbeat so slow that leases are lost, the loser notices and stops, and every lease is freed. |
| `lease_overlap` | `MCLease`, `LeaseOverlap` | MutualExclusion (violated) | With a heartbeat of 10 s, two workers stream. |
| `control` | `MCStreamControl`, `Control` | TypeOK, RunnerHoldsLock, RunnerRegistered, EntryListed, RunnerNamed, StopRequestKept, Settled, ShutdownStopsWorkers, LeaseReturned, ImplementsSingleOwner | Two starts, a stop call or a shutdown, and two cleanup tasks over two processes, with every fault: registry, worker and lease agree except after the races named, a shutdown leaves no stream behind, and the stream passes on as `SingleOwner` says. |
| `control_cleanup` | `MCStreamControl`, `ControlCleanup` | CleanupSparesRunner (violated) | A sweep deletes the entry of a restarted stream. |
| `identity` | `MCStreamIdentity`, `Identity` | OneIdForEver, IdentityKept | Four creators and deletes of a new or old subreddit agree on one id. |
| `pipeline` | `CommentPipeline`, `Pipeline` | TypeOK, CheckpointCovers, UnconfirmedBounded, ImplementsResumePoint | No session, failure, crash or late save makes the checkpoint cover an owed comment; at most one interval is unconfirmed; the checkpoint moves and is put back as `ResumePoint` says. |
| `pipeline_loss` | `CommentPipeline`, `PipelineLoss` | AtLeastOnce (violated) | Comments taken before the first checkpoint are never read again. |
| `recovery` | `MCStreamRecovery`, `Recovery` | TypeOK, BackoffLaw, SurvivesBlips, SparesUpstream | The breaker's arithmetic, quiet time for Reddit that grows with each opening, and no stream ended by scattered failures. |
| `recovery_retry` | `MCStreamRecovery`, `RecoveryRetry` | OpenIsRetried (violated) | An open circuit ends the stream before it is ever tested. |
| `flush` | `CheckpointFlush`, `Flush` | WorkerIsFlushed, RegressNeedsRace, ShutdownPersists | A running worker is flushed in the end; Postgres goes back only by a flush that another one overtook; a shutdown that nothing impedes leaves the last checkpoint in Postgres. |
| `migrations` | `MCMigrations`, `Migrations` | TypeOK, NoSilentEdit, LedgerSpec, InOrderOnce, EveryJobEnds | Two jobs of any two releases, over failing statements, lost connections and killed containers: whole or not at all, once, in order, and every job ends. |

### Bounds, and why they are enough

* **Lease**: two attempts. Exclusion is about a pair, and a third attempt adds
  only another contender (`LeaseProofs` removes the bound). `LeaseReal` uses the
  numbers of `app.py` and `worker.py`; `Startup = 16` is the largest value
  `LeaseTiming` admits. `LeaseSlow` uses a scaled clock (8 / 4 / 1), in which
  a heartbeat of 7 outlives the key.
* **Control**: two starts (predecessor and successor), one call that stops or
  shuts down, two processes in all placements, and two cleanup tasks, as every
  process has one: a sweep can hold what it scanned while the other deletes the
  entry and the stream is restarted. A behaviour is followed until a second named
  race has happened (`MaxRaces`), and after the first one only with one sweep at a
  time. Each registry invariant lets go at the races it names, so a single race
  shows what it breaks and what it does not. No bound is left in the proofs:
  every invariant of this run is a theorem.
* **Identity**: four creators; the winner, one that reuses, one that finds the
  claim and one that starts after a delete.
* **Pipeline**: interval and listing window are 100 in the code and 2 here: equal
  to each other, and larger than one, so that a session can begin inside an
  interval. Five comments are two whole batches and a remainder; four sessions
  allow two workers that each reconnect.
* **Recovery**: the numbers of the code (5 failures, 60 s, 2 successes, factor 2,
  3600 s; pauses of 60 and 5 s). `Lag` is how long recording an error takes:
  nothing, or one of the times at which a backoff is over. Up to 12 failures in a
  row and 8 openings, after which the backoff has long reached its cap
  (60 * 2^6 > 3600).
* **Flush**: two instances, two starts, two saves, and for each instance the flush
  of its loop and the final one: a stream can move or be restarted while an old
  flush is under way, and every step of a shutdown can meet every step of a
  flush. `FlushProofs` removes the bounds of the safety properties.
* **Migrations**: two jobs, two contents, three file names of which two differ in
  the width of their number: releases can edit, add and drop files and be older
  or newer than each other. Numbers have up to four digits (`Unit`).

`CHECK_DEADLOCK FALSE` is set everywhere: calls end, comments run out and bounds
are reached, so every one of these systems may stop.

### Fairness, and why the code justifies it

* `Lease`: clocks run, and a worker takes its own next step by its deadline,
  because every wait in `_lock_refresh_loop` is a sleep, a `wait_for` or a client
  call with socket timeouts. Redis, the network and the user owe nothing: the
  wire may drop every command.
* `StreamRecovery`: the event loop runs a task that is ready. Reddit need not
  answer.
* `CheckpointFlush`: flusher and heartbeat loops run periodically (weak fairness
  of `ReadIndex` and `Heartbeat`); strong fairness of the later steps says that
  neither database fails every time it is asked. A cleanup that has deleted
  finishes its index update. Nothing is assumed of shutdowns and final flushes.
* `Migrations`: statements return (a job's next step, which includes that its
  turn for the lock comes), time passes, and the server ends sessions whose
  client is gone. Statements may fail every time: the deadline ends the job.

The other runs check safety only and assume no fairness.

## 4. Findings

Each is shown by a run with a counterexample; `PROJECT.json` has the details.

1. **The heartbeat is outside the refresh timeout** (`worker.py:376`, run
   `lease_overlap`). README.md: the worker "fails closed if ownership can no
   longer be proved". The client's connect and read timeouts allow the heartbeat
   10 s; with it, a sleep and two refreshes outlast the 60 s key.
2. **A failed stream's second "error" can hit its successor** (`manager.py:126`,
   run `control_cleanup`). README.md: "A cleanup sweep cannot delete a
   concurrently restarted stream snapshot".
3. **Comments before the first checkpoint are lost by a crash** (`worker.py:198`,
   run `pipeline_loss`). README.md: at-least-once recovery, with the checkpoint
   interval as the replay window; without a checkpoint a session skips what
   exists.
4. **An open circuit is not tested again** (`worker.py:412`, run
   `recovery_retry`). Nothing waits for the backoff, and the refusal is an
   unhandled error.

## 5. Proofs

TLC checks small instances; these hold for every value of the constants.

* **`LeaseProofs`** assumes `TimingAssumption`: naturals with
  `Interval + 2*Timeout + Heartbeat + 4*Lag < TTL` and
  `Startup + Interval + Timeout + 3*Lag < TTL`, which TLC evaluates with the
  code's numbers in `lease_real`. `MutualExclusion` is not inductive: it says
  nothing about time. The invariant `IInv` adds that a worker that streams holds
  the key and that the key outlives `Remaining(w)`, the latest moment at which the
  worker stops without another confirmation (`FailsClosed`); that the key exists
  while it has time to live; that a refresh in progress is bounded by
  `wait_for`; and that a release is sent only by a worker that is over. Two workers
  that stream would both be `holder`. From `IInv` follow `LeaseTypes`,
  `LeaseFailsClosed`, `LeaseExclusion`, the action property `LeaseStaleOwner`, and
  the refinement `LeaseRefines`, whose steps are mapped to `SingleOwner` one
  action at a time.
* **`ControlProofs`** assumes only that `None` is neither a start nor a process
  (`RegistryAssumption`). `RunnerHoldsLock` is not inductive: a start acquires the
  lock before it streams, and a lock can be released or expire. The invariant
  says that an attempt which has acquired the lock and not yet handed it to a
  runner, or whose runner has not begun its shutdown, is the one the lock holds,
  and that a task exists only after its start launched it. `ControlTypes` and
  `ControlExclusion` follow, and the refinement `ControlRefines`: a step either
  leaves alone who streams, takes the one attempt that is on its way into its
  stream, or ends the one that is there.
* **`RegistryProofs`** adds `EntryAssumption` (`None` is no entry) and proves the
  other invariants of `StreamControl`. The key notion is `Holding`: an attempt
  between its claim and its launch, or whose runner has not begun its end. Without
  `terminal`, one attempt holds the subreddit, has the claim and, once written, a
  living entry of which it is the creator (`ClaimHeld`): a deletion needs a dead
  entry or the holder's own undo, and only the creator's last status makes the
  entry die. From this follow `RegistryRunner`, `RegistryStop` and, with one task
  per process (`OneLocal`), `RegistryShutdown`. `RegistryName`, `RegistryIndex` and
  `RegistryLease` need only the parts about their own key. `RegistrySettles` says
  what is still to come for an entry that is not dead: a step of its start, or of
  its task, that will make it so.
* **`IdentityProofs`**: any number of creators. The invariant says that every id
  a creator carries, or the registry stores, is the identity as soon as there is
  one, and the old stream's id before. `OneId` and `IdentityIsKept` follow.
* **`FlushProofs`**: any number of instances, starts and saves. The properties
  speak of one flush, the invariant of all of them: a flush that nothing has
  overtaken holds the newest value of all flushes about to write
  (`NewestInFlight`), because another flush that read a newer one read it as the
  owner, or in the same process, and both are recorded. `FlushRegress` follows.
  During a shutdown that nothing impedes, every flush about to write holds the
  last checkpoint, whoever reads it (`LastCheckpoint`): `FlushShutdown`.
* **`PipelineProofs`**: any number of comments and sessions, any interval and
  window. `CheckpointCovers` is not inductive: it says nothing of what the worker
  is about to save. The invariant adds that below the session's next comment all
  is delivered, given up, out of reach, in flight or heard to have failed
  (`ReadAccounted`); that a worker about to save has nothing in flight and has
  heard of no failure (`SavesNothingOwed`); and that a late save carries a covered
  checkpoint. `UnconfirmedWithinInterval` counts: messages in flight and failures
  heard never exceed the comments since the last checkpoint
  (`CountsUnconfirmed`), which needs that a failure heard takes a message away,
  and that the count starts over only when there is nothing to count.
  `MessagesAreNew` says that this is a count of sends. `PipelineRefines` maps every
  step to one of `ResumePoint`: reading and producing take, deliveries and
  rejections settle, a save moves the point, and whatever ends a worker forgets
  only what lies above it.
* **`RecoveryProofs`**: any threshold, timeouts and lag that satisfy
  `RecoveryAssumption`. The breaker's count is the number of failures since the
  last comment (`CountsFailures`), and an open circuit has a cause: that many
  failures in a row, or a failed test (`OpenForCause`). `BlipsSurvived` follows.
  `BackoffFollowsLaw` compares the backoff with `Power`, a recursive function. That
  `Power` is what its equation says (`PowerDef`) is shown by induction in a
  first-order form: a set of naturals that is not empty has a least element, so a
  set that contains 0 and with each number the next is everything
  (`NatSetInduction`). `PauseAssumption` is needed: a pause longer than the first
  doubled backoff would raise the backoff above the law. It holds for the code
  (60 and 5 against 2 * 60), and TLC evaluates it in `recovery`. With the law,
  `UpstreamSpared` says how long Reddit is left alone after each opening.
* **`MigrationProofs`**: any jobs, releases and file names. Whoever would add a row
  waits for the lock, so the rows a job has read are the rows there are until its
  transaction ends (`Visiting`), also when the job itself is gone and the server
  commits for it (`Pending`). `MigrationAtomic` (a script's changes are
  there exactly when its row is), `MigrationKeepsFiles`, `MigrationOrder` and the
  refinement `MigrationRefines` follow.

Every safety invariant, action property and refinement that a passing run checks
is a theorem. Only model-checked are the liveness properties (`LossIsNoticed`,
`LeaseIsFreed`, `WorkerIsFlushed`, `EveryJobEnds`): liveness under fairness and
ENABLED are out of the prover's reach.

## 6. Not modelled

* `create_tables_from_models` has no caller. A script with a `COMMIT` of its own
  would leave the runner's transaction; the repository has none. The primary key
  of `schema_migrations` is left out: the lock already lets one writer at a time
  past it.
* The flush of the Kafka producer and the closing of clients at the end of
  `lifespan`: nothing reads their state afterwards.
* `flush_stream_on_stop`, `purge_checkpoint`, `CircuitBreaker.reset`: no caller.
* Postgres rows for streams and errors, contents of the error list.
* Models, serializer, clients, settings, infrastructure: data, encoding and
  wiring; the Redis timeouts enter as the parameter `Heartbeat`.
* A dead process's entry: the code has no recovery for it, so `Settled` excludes
  crashes (`Quiet`) and the hazard is listed without a property.

## 7. Plan

Order of work, most important behaviour first.

1. *Done*: lease with time and its abstract specification; registry and control,
   refining the same abstract specification; identity; pipeline with its abstract
   specification; recovery; flush with the shutdown; migrations with their abstract
   specification; proofs of all safety invariants, all action properties and the
   four refinements.
2. *Left to extend*: two stop calls on one stream in `control`, which the proofs
   cover and TLC cannot exhaust in minutes together with two sweeps; the error
   handler's bounded list.
3. *Left to prove*: an abstract specification of write-behind for `CheckpointFlush`
   and of a claim that is decided once for `StreamIdentity`, with their
   refinements. Liveness stays with TLC.
