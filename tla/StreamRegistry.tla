--------------------------- MODULE StreamRegistry ---------------------------
(* The Redis keys of one subreddit and the commands that the registry        *)
(* (repositories/stream_registry.py) and the lock manager send to Redis.     *)
(* Every operator is one command or one Lua script, hence atomic; its        *)
(* callers do what the code does between two commands.                       *)
(*                                                                           *)
(* A subreddit keeps one stream id for ever (module StreamIdentity), so the  *)
(* keys are not indexed by it.  Postgres mirrors these keys and is never     *)
(* read back, so it is left out here.                                        *)
CONSTANTS Start,       \* calls of start_stream: an attempt and its lock token
          Instance,    \* API processes
          Sweeper,     \* dead-stream cleanup tasks
          None         \* no value

ASSUME RegistryAssumption == None \notin Start \cup Instance

VARIABLES
    claimed,     \* stream:subreddit:{subreddit} exists
    entry,       \* stream:meta:{id}, None when absent
    listed,      \* the id is in streams:all
    stopKey,     \* stream:stop-request:{id} exists
    lock,        \* stream:lock:{subreddit}: the attempt whose token it holds
    fresh,       \* sweepers whose scanned updated_at is still the entry's
    creator,     \* history: the attempt that created the present entry
    overtaken    \* history: the races that have happened, by name

registry == <<claimed, entry, listed, stopKey, lock, fresh, creator, overtaken>>

Status == {"starting", "active", "stopping", "stopped", "error"}
DeadStatus == {"stopped", "error"}

\* The races this protocol is exposed to.  A write is late when the attempt it
\* is about is over, or its entry is another attempt's by then.
\*   terminal    a last status is written by an attempt that lost the entry
\*   active      "active" is written late
\*   stop        "stopping" is written late
\*   undo        a refused start deletes an entry it did not create
\*   unlist      an id is taken off the index although its entry exists
\*   skipped     a start acquired the lock but launched nothing
\*   unreported  a task ended without its last status
\*   interrupted a runner was cancelled once more during its save or release
\*   abandoned   a runner ended before the worker whose end releases the lease
Late == {"terminal", "active", "stop", "undo", "unlist", "skipped", "unreported",
         "interrupted", "abandoned"}

\* full: create_stream wrote the subreddit and id fields; a status written
\* over a deleted entry leaves a hash without them.
Entry == [status : Status, at : Instance \cup {None}, full : BOOLEAN]

ASSUME EntryAssumption == None \notin Entry

RegistryTypeOK ==
    /\ claimed \in BOOLEAN /\ listed \in BOOLEAN /\ stopKey \in BOOLEAN
    /\ entry \in Entry \cup {None}
    /\ lock \in Start \cup {None}
    /\ fresh \in SUBSET Sweeper
    /\ creator \in Start \cup {None}
    /\ overtaken \in SUBSET Late

RegistryInit ==
    /\ claimed = FALSE /\ listed = FALSE /\ stopKey = FALSE
    /\ entry = None
    /\ lock = None
    /\ fresh = {}
    /\ creator = None
    /\ overtaken = {}

Exists == entry # None
Dead   == Exists /\ entry.status \in DeadStatus

Note(late) == overtaken' = overtaken \cup late

-----------------------------------------------------------------------------
\* SET stream:subreddit NX.
Claim ==
    /\ claimed' = TRUE
    /\ UNCHANGED <<entry, listed, stopKey, lock, fresh, creator, overtaken>>

\* HSET of the whole metadata by create_stream.
WriteEntry(c, i) ==
    /\ entry' = [status |-> "starting", at |-> i, full |-> TRUE]
    /\ fresh' = {}
    /\ creator' = c
    /\ UNCHANGED <<claimed, listed, stopKey, lock, overtaken>>

\* SADD streams:all.
List ==
    /\ listed' = TRUE
    /\ UNCHANGED <<claimed, entry, stopKey, lock, fresh, creator, overtaken>>

\* update_status: HSET status, updated_at and, unless i is None, instance_id.
\* Nothing is compared: on a deleted entry it leaves a hash that lacks the rest.
UpdateStatus(status, i, late) ==
    /\ entry' = IF ~Exists      THEN [status |-> status, at |-> i, full |-> FALSE]
                ELSE IF i = None THEN [entry EXCEPT !.status = status]
                ELSE [entry EXCEPT !.status = status, !.at = i]
    /\ fresh' = {}
    /\ Note(late)
    /\ UNCHANGED <<claimed, listed, stopKey, lock, creator>>

\* SET stream:stop-request.
SetStopKey ==
    /\ stopKey' = TRUE
    /\ UNCHANGED <<claimed, entry, listed, lock, fresh, creator, overtaken>>

\* The delete script once its comparisons succeeded: all keys of the stream
\* go in one step, except checkpoint, identity and lock.
DeleteEntry(late) ==
    /\ claimed' = FALSE
    /\ entry' = None
    /\ listed' = FALSE
    /\ stopKey' = FALSE
    /\ fresh' = {}
    /\ creator' = None
    /\ Note(late)
    /\ UNCHANGED lock

\* SREM streams:all of an id whose metadata list_streams found empty.
Unlist ==
    /\ listed' = FALSE
    /\ Note(IF Exists THEN {"unlist"} ELSE {})
    /\ UNCHANGED <<claimed, entry, stopKey, lock, fresh, creator>>

\* A scan that saw the entry remembers its updated_at.
Remember(w) ==
    /\ fresh' = fresh \cup {w}
    /\ UNCHANGED <<claimed, entry, listed, stopKey, lock, creator, overtaken>>

\* A race that writes nothing.
NoteOnly(late) ==
    /\ Note(late)
    /\ UNCHANGED <<claimed, entry, listed, stopKey, lock, fresh, creator>>

\* SET NX of the lock, its compare-and-delete, its expiry.
SetLock(v) ==
    /\ lock' = v
    /\ UNCHANGED <<claimed, entry, listed, stopKey, fresh, creator, overtaken>>
=============================================================================
