--------------------------- MODULE StreamIdentity ---------------------------
(* The stable stream id of a subreddit (repositories/stream_registry.py,     *)
(* create_stream and the delete script).  A checkpoint is stored under the   *)
(* id, so a restart resumes where its predecessor stopped only if every      *)
(* attempt on the subreddit, in any process, ends up with the same id.  The  *)
(* subreddit may have a stream from before the identity key existed.         *)
CONSTANTS Start,     \* calls of create_stream: each draws its own candidate id
          Old,       \* id of a stream created before the identity key existed
          None       \* no value

ASSUME IdentityAssumption == Old \notin Start /\ None \notin Start \cup {Old}

Id == Start \cup {Old}

VARIABLES
    identity,    \* stream:identity:{subreddit}
    claim,       \* stream:subreddit:{subreddit}
    meta,        \* ids whose stream:meta hash exists
    pc, sid,     \* next step of each call and its stream_id (or existing)
    used         \* history: ids the subreddit has been claimed under

vars == <<identity, claim, meta, pc, sid, used>>

Phase == {"check", "backfill", "identify", "reuse", "claim", "write", "done"}

TypeOK ==
    /\ identity \in Id \cup {None}
    /\ claim \in Id \cup {None}
    /\ meta \in SUBSET Id
    /\ pc \in [Start -> Phase]
    /\ sid \in [Start -> Id \cup {None}]
    /\ used \in SUBSET Id

\* A new subreddit, or one with an old stream.
Init ==
    /\ identity = None
    /\ \/ claim = None /\ meta = {} /\ used = {}
       \/ claim = Old /\ meta = {Old} /\ used = {Old}
    /\ pc = [c \in Start |-> "check"]
    /\ sid = [c \in Start |-> None]

Goes(c, phase, id) ==
    /\ pc' = [pc EXCEPT ![c] = phase]
    /\ sid' = [sid EXCEPT ![c] = id]

\* GET stream:subreddit.
Check(c) ==
    /\ pc[c] = "check"
    /\ IF claim # None THEN Goes(c, "backfill", claim) ELSE Goes(c, "identify", None)
    /\ UNCHANGED <<identity, claim, meta, used>>

\* SET identity NX to the id found, then StreamExistsError.
Backfill(c) ==
    /\ pc[c] = "backfill"
    /\ identity' = IF identity = None THEN sid[c] ELSE identity
    /\ Goes(c, "done", None)
    /\ UNCHANGED <<claim, meta, used>>

\* SET identity NX to this call's candidate.
Identify(c) ==
    /\ pc[c] = "identify"
    /\ IF identity = None
       THEN identity' = c /\ Goes(c, "claim", c)
       ELSE identity' = identity /\ Goes(c, "reuse", None)
    /\ UNCHANGED <<claim, meta, used>>

\* GET identity, after the SET NX found one.
Reuse(c) ==
    /\ pc[c] = "reuse"
    /\ IF identity # None THEN Goes(c, "claim", identity) ELSE Goes(c, "done", None)
    /\ UNCHANGED <<identity, claim, meta, used>>

\* SET stream:subreddit NX, then HSET of the metadata; or StreamExistsError.
Claim(c) ==
    /\ pc[c] = "claim"
    /\ IF claim = None
       THEN /\ claim' = sid[c]
            /\ used' = used \cup {sid[c]}
            /\ Goes(c, "write", sid[c])
       ELSE /\ Goes(c, "done", None)
            /\ UNCHANGED <<claim, used>>
    /\ UNCHANGED <<identity, meta>>

WriteMeta(c) ==
    /\ pc[c] = "write"
    /\ meta' = meta \cup {sid[c]}
    /\ Goes(c, "done", None)
    /\ UNCHANGED <<identity, claim, used>>

\* Mutant: the delete script does not set the identity key.
DeleteWithoutIdentity(id) ==
    /\ id \in meta
    /\ meta' = meta \ {id}
    /\ claim' = IF claim = id THEN None ELSE claim
    /\ UNCHANGED <<identity, pc, sid, used>>

\* Mutant: the identity is purged with the entry.
DeleteWithIdentity(id) ==
    /\ id \in meta
    /\ meta' = meta \ {id}
    /\ claim' = IF claim = id THEN None ELSE claim
    /\ identity' = None
    /\ UNCHANGED <<pc, sid, used>>

\* The delete script, run by cleanup or by a start that failed: it gives up
\* the claim if it is this stream's and keeps, or backfills, the identity.
Delete(id) ==
    /\ id \in meta
    /\ meta' = meta \ {id}
    /\ claim' = IF claim = id THEN None ELSE claim
    /\ identity' = id
    /\ UNCHANGED <<pc, sid, used>>

Create(c) ==
    \/ Check(c) \/ Backfill(c) \/ Identify(c) \/ Reuse(c) \/ Claim(c) \/ WriteMeta(c)

Next == (\E c \in Start : Create(c)) \/ (\E id \in Id : Delete(id))

Spec == Init /\ [][Next]_vars

-----------------------------------------------------------------------------
\* Every attempt on the subreddit claims it under the same id, whatever the
\* creators' races, and whether or not an older stream existed: README.md,
\* "The registry ... assigns it a stable stream ID".
OneIdForEver == \A a, b \in used : a = b

\* Once the identity is known it is never replaced by another, not even by the
\* delete script's unconditional SET.
IdentityKept == [][ identity # None => identity' = identity ]_vars
=============================================================================
