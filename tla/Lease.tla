------------------------------- MODULE Lease -------------------------------
(* The Redis lease that keeps two workers off one subreddit: the lock        *)
(* manager (stream/lock.py) and the part of StreamWorker that keeps, loses   *)
(* and gives back the lease (stream/worker.py run, _lock_refresh_loop).      *)
(*                                                                           *)
(* A member of Worker is one acquisition attempt: acquire_lock draws a fresh *)
(* token per call, so an attempt and its token are the same thing here, and  *)
(* a restarted stream is another member.  Time is discrete.  Every duration  *)
(* is a countdown in timer[w] or ttl: Tick lowers them all together and may  *)
(* not pass a deadline that is due, so timer[w] bounds from above how long   *)
(* the worker can still stay where it is.                                    *)
EXTENDS Integers

CONSTANTS
    Worker,      \* acquisition attempts, each with its own token
    NoOne,       \* the lock key does not exist
    TTL,         \* lock_ttl: expiry that SET and the refresh script give the key
    Interval,    \* lock_refresh_interval: sleep between two refreshes
    Timeout,     \* lock_refresh_timeout: wait_for around a refresh
    Startup,     \* longest time from the SET to StreamWorker.run
    Heartbeat,   \* longest time the registry heartbeat may take
    Lag          \* how late the event loop may run a callback that is due

VARIABLES
    holder,      \* value of stream:lock:{subreddit}, NoOne when absent
    ttl,         \* its remaining time to live
    pc,          \* where each worker is
    timer,       \* time each worker can at most stay there
    wire,        \* commands sent to Redis and not yet executed
    reply        \* answer to the worker's outstanding refresh

vars == <<holder, ttl, pc, timer, wire, reply>>

Streaming(w) ==
    pc[w] \in {"sleeping", "refreshing", "beating", "losing"}

Finished(w) == pc[w] = "gone"

\* A worker that is not in one of these has nothing due.
Timed(w) == pc[w] = "starting" \/ Streaming(w)

Command == [op : {"refresh", "release"}, by : Worker]
Refresh(w) == [op |-> "refresh", by |-> w]
Release(w) == [op |-> "release", by |-> w]

Phase == {"idle", "starting", "sleeping", "refreshing", "beating", "losing",
          "saving", "releasing", "gone"}

TypeOK ==
    /\ holder \in Worker \cup {NoOne}
    /\ ttl \in 0 .. TTL
    /\ pc \in [Worker -> Phase]
    /\ timer \in [Worker -> Nat]
    /\ wire \in SUBSET Command
    /\ reply \in [Worker -> {"none", "owner", "denied"}]

Init ==
    /\ holder = NoOne
    /\ ttl = 0
    /\ pc = [w \in Worker |-> "idle"]
    /\ timer = [w \in Worker |-> 0]
    /\ wire = {}
    /\ reply = [w \in Worker |-> "none"]

Goto(w, phase, bound) ==
    /\ pc' = [pc EXCEPT ![w] = phase]
    /\ timer' = [timer EXCEPT ![w] = bound]

-----------------------------------------------------------------------------
(* StreamManager.start_stream and the runner, up to StreamWorker.run.        *)

\* Mutant: the key is set without NX.
AcquireWithoutNX(w) ==
    /\ pc[w] = "idle"
    /\ holder' = w
    /\ ttl' = TTL
    /\ Goto(w, "starting", Startup)
    /\ UNCHANGED <<wire, reply>>

\* SET NX EX succeeds; the token travels back to start_stream.
Acquire(w) ==
    /\ pc[w] = "idle"
    /\ holder = NoOne
    /\ holder' = w
    /\ ttl' = TTL
    /\ Goto(w, "starting", Startup)
    /\ UNCHANGED <<wire, reply>>

\* SET NX finds the key: acquire_lock returns None and the attempt is over.
Refused(w) ==
    /\ pc[w] = "idle"
    /\ holder # NoOne
    /\ Goto(w, "gone", 0)
    /\ UNCHANGED <<holder, ttl, wire, reply>>

\* run() creates the stream task and the refresh task together: comments
\* flow from here on, and the refresher begins with a full sleep.
StartStreaming(w) ==
    /\ pc[w] = "starting"
    /\ Goto(w, "sleeping", Interval + Lag)
    /\ UNCHANGED <<holder, ttl, wire, reply>>

-----------------------------------------------------------------------------
(* _lock_refresh_loop.                                                       *)

\* asyncio.sleep ends between Interval and Interval + Lag after it began.
SendRefresh(w) ==
    /\ pc[w] = "sleeping"
    /\ timer[w] <= Lag
    /\ Goto(w, "refreshing", Timeout + Lag)
    /\ wire' = wire \cup {Refresh(w)}
    /\ reply' = [reply EXCEPT ![w] = "none"]
    /\ UNCHANGED <<holder, ttl>>

\* The Redis client repeats a command whose answer it has not seen.
ResendRefresh(w) ==
    /\ pc[w] = "refreshing"
    /\ reply[w] = "none"
    /\ Refresh(w) \notin wire
    /\ wire' = wire \cup {Refresh(w)}
    /\ UNCHANGED <<holder, ttl, pc, timer, reply>>

\* Redis runs the compare-and-expire script, perhaps long after the worker
\* stopped waiting for it.  The answer may be lost on its way back.
ExecRefresh(w) ==
    /\ Refresh(w) \in wire
    /\ wire' = wire \ {Refresh(w)}
    /\ ttl' = IF holder = w THEN TTL ELSE ttl
    /\ \/ /\ pc[w] = "refreshing"
          /\ reply' = [reply EXCEPT ![w] =
                         IF holder = w THEN "owner" ELSE "denied"]
       \/ reply' = reply
    /\ UNCHANGED <<holder, pc, timer>>

\* Ownership confirmed: the loop goes on to the registry heartbeat, which
\* has no wait_for of its own.
RefreshConfirmed(w) ==
    /\ pc[w] = "refreshing"
    /\ reply[w] = "owner"
    /\ Goto(w, "beating", Heartbeat)
    /\ UNCHANGED <<holder, ttl, wire, reply>>

\* Mutant: the answer of the script is not looked at.
RefreshResultIgnored(w) ==
    /\ pc[w] = "refreshing"
    /\ reply[w] = "denied"
    /\ Goto(w, "beating", Heartbeat)
    /\ UNCHANGED <<holder, ttl, wire, reply>>

\* The script answered 0: LockLostError.
RefreshDenied(w) ==
    /\ pc[w] = "refreshing"
    /\ reply[w] = "denied"
    /\ Goto(w, "losing", Lag)
    /\ UNCHANGED <<holder, ttl, wire, reply>>

\* Mutant: a refresh that failed is simply tried again later.
RefreshRetriedLater(w) ==
    /\ pc[w] = "refreshing"
    /\ Goto(w, "sleeping", Interval + Lag)
    /\ UNCHANGED <<holder, ttl, wire, reply>>

\* The refresh raised, or wait_for gave up on it even though the answer may
\* be there already: also LockLostError.
RefreshFails(w) ==
    /\ pc[w] = "refreshing"
    /\ Goto(w, "losing", Lag)
    /\ UNCHANGED <<holder, ttl, wire, reply>>

\* The heartbeat returned or failed, which the loop does not tell apart.
HeartbeatEnds(w) ==
    /\ pc[w] = "beating"
    /\ Goto(w, "sleeping", Interval + Lag)
    /\ UNCHANGED <<holder, ttl, wire, reply>>

-----------------------------------------------------------------------------
(* The end of run(): its inner and outer finally blocks.                     *)

\* run() saw the refresher end, or was cancelled itself: it cancels and
\* gathers both tasks and goes on to the final checkpoint.
ShutDown(w) ==
    /\ Streaming(w)
    /\ Goto(w, "saving", 0)
    /\ UNCHANGED <<holder, ttl, wire, reply>>

\* The stream task ended by a fatal error first: no final checkpoint.
StreamFails(w) ==
    /\ Streaming(w)
    /\ Goto(w, "releasing", 0)
    /\ UNCHANGED <<holder, ttl, wire, reply>>

\* The final checkpoint was written, or its error was logged.
Saved(w) ==
    /\ pc[w] = "saving"
    /\ Goto(w, "releasing", 0)
    /\ UNCHANGED <<holder, ttl, wire, reply>>

SendRelease(w) ==
    /\ pc[w] = "releasing"
    /\ Goto(w, "gone", 0)
    /\ wire' = wire \cup {Release(w)}
    /\ UNCHANGED <<holder, ttl, reply>>

\* Mutant: the key is deleted without comparing the token.
DeleteWithoutCompare(w) ==
    /\ Release(w) \in wire
    /\ wire' = wire \ {Release(w)}
    /\ holder' = NoOne /\ ttl' = 0
    /\ UNCHANGED <<pc, timer, reply>>

\* Redis runs the compare-and-delete script.
ExecRelease(w) ==
    /\ Release(w) \in wire
    /\ wire' = wire \ {Release(w)}
    /\ IF holder = w THEN holder' = NoOne /\ ttl' = 0
                     ELSE UNCHANGED <<holder, ttl>>
    /\ UNCHANGED <<pc, timer, reply>>

\* Mutant: an attempt that ended is retried with the token it had.
RetryWithSameToken(w) ==
    /\ pc[w] \notin {"idle", "gone"}
    /\ Goto(w, "idle", 0)
    /\ UNCHANGED <<holder, ttl, wire, reply>>

\* The attempt ends without a release: the runner raised before run(), a
\* second cancellation interrupted the outer finally, or the process died.
Abandon(w) ==
    /\ pc[w] \notin {"idle", "gone"}
    /\ Goto(w, "gone", 0)
    /\ UNCHANGED <<holder, ttl, wire, reply>>

\* A command is lost between the worker and Redis.
Drop(c) ==
    /\ c \in wire
    /\ wire' = wire \ {c}
    /\ UNCHANGED <<holder, ttl, pc, timer, reply>>

-----------------------------------------------------------------------------
\* Mutant: time passes deadlines, as if wait_for had no timeout.
TickPastDeadlines ==
    /\ timer' = [w \in Worker |-> IF Timed(w) THEN timer[w] - 1 ELSE timer[w]]
    /\ ttl' = IF ttl > 0 THEN ttl - 1 ELSE 0
    /\ holder' = IF ttl > 1 THEN holder ELSE NoOne
    /\ UNCHANGED <<pc, wire, reply>>

\* Mutant: the key has no expiry, as if SET had no EX.
TickWithoutExpiry ==
    /\ \A w \in Worker : Timed(w) => timer[w] > 0
    /\ timer' = [w \in Worker |-> IF Timed(w) THEN timer[w] - 1 ELSE timer[w]]
    /\ UNCHANGED <<holder, ttl, pc, wire, reply>>

\* Nothing is overdue: time may pass.
Tick ==
    /\ \A w \in Worker : Timed(w) => timer[w] > 0
    /\ \/ ttl > 0
       \/ \E w \in Worker : Timed(w)
    /\ timer' = [w \in Worker |-> IF Timed(w) THEN timer[w] - 1 ELSE timer[w]]
    /\ ttl' = IF ttl > 0 THEN ttl - 1 ELSE 0
    /\ holder' = IF ttl > 1 THEN holder ELSE NoOne
    /\ UNCHANGED <<pc, wire, reply>>

\* The steps a worker takes by itself; the others are the environment's.
Progress(w) ==
    \/ StartStreaming(w)
    \/ SendRefresh(w)
    \/ RefreshConfirmed(w)
    \/ RefreshDenied(w)
    \/ RefreshFails(w)
    \/ HeartbeatEnds(w)
    \/ pc[w] = "losing" /\ ShutDown(w)

Step(w) ==
    \/ Acquire(w) \/ Refused(w) \/ Progress(w)
    \/ ResendRefresh(w) \/ ExecRefresh(w)
    \/ ShutDown(w) \/ StreamFails(w) \/ Saved(w)
    \/ SendRelease(w) \/ ExecRelease(w) \/ Abandon(w)

Next ==
    \/ Tick
    \/ \E w \in Worker : Step(w)
    \/ \E c \in wire : Drop(c)

Spec == Init /\ [][Next]_vars

\* Clocks run, and a worker acts by its deadline.
Fairness ==
    /\ WF_vars(Tick)
    /\ \A w \in Worker : WF_vars(Progress(w))

FairSpec == Spec /\ Fairness

-----------------------------------------------------------------------------
(* Properties.                                                               *)

\* The durations leave room for one whole failed renewal cycle after the
\* last confirmed refresh, and for the first one after the acquisition.
LeaseTiming ==
    /\ Interval + 2 * Timeout + Heartbeat + 4 * Lag < TTL
    /\ Startup + Interval + Timeout + 3 * Lag < TTL

\* No two workers stream the subreddit at the same time (README.md, "Duplicate
\* workers"), whatever is lost, late, cancelled or killed.
MutualExclusion ==
    \A v, w \in Worker : Streaming(v) /\ Streaming(w) => v = w

\* The latest moment, from now, at which a worker that gets no further
\* confirmation will have stopped streaming.
RenewalCycle == Interval + Timeout + 3 * Lag

Remaining(w) == timer[w] +
    IF pc[w] \in {"starting", "beating"}                   THEN RenewalCycle
    ELSE IF pc[w] = "sleeping"                             THEN Timeout + 2 * Lag
    ELSE IF pc[w] = "refreshing" /\ reply[w] = "owner"     THEN Heartbeat + RenewalCycle
    ELSE IF pc[w] = "refreshing"                           THEN Lag
    ELSE 0

\* A worker that streams, or is about to, owns the key, and the key outlives
\* the moment the worker will have stopped by itself: the watchdog of
\* _lock_refresh_loop fires before Redis can give the lease to another.
FailsClosed ==
    \A w \in Worker : Timed(w) => holder = w /\ Remaining(w) < ttl

KeepsLease(w) == holder = w =>
    /\ holder' # w => holder' = NoOne /\ (ttl = 1 \/ Finished(w))
    /\ ttl' > ttl  => Refresh(w) \in wire

\* A stale owner cannot touch its successor's lease (lock.py's two Lua scripts):
\* a key disappears only by expiry or when its own worker is over and released
\* it, is never handed over directly, and is extended only by its own worker.
StaleOwnerHarmless == [][ \A w \in Worker : KeepsLease(w) ]_vars

\* The lease implements its abstract specification.
Active ==
    IF \E w \in Worker : Streaming(w) THEN CHOOSE w \in Worker : Streaming(w)
                                      ELSE NoOne
Spent == {w \in Worker : pc[w] \notin {"idle", "starting"}}

Abstract == INSTANCE SingleOwner WITH active <- Active, spent <- Spent

\* Streaming passes from one acquisition to another only through a moment in
\* which nobody streams, and no acquisition streams twice (lock.py draws a
\* fresh token per call so that an old owner can never be taken for a new one).
ImplementsSingleOwner == Abstract!Spec

\* A worker that streams without owning the key finds out and stops.
LossIsNoticed ==
    \A w \in Worker : (Streaming(w) /\ holder # w) ~> ~Streaming(w)

\* Whatever way a worker ended, its lease is given back or expires, so that
\* the subreddit can be started again.
LeaseIsFreed ==
    \A w \in Worker : (Finished(w) /\ holder = w) ~> holder # w
=============================================================================
