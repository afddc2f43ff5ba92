--------------------------- MODULE StreamRecovery ---------------------------
(* How one worker survives the failures of Reddit: its circuit breaker       *)
(* (stream/circuit_breaker.py) around the reading session, and the loop that *)
(* classifies each error and pauses, retries or gives up (stream/worker.py,  *)
(* _stream_loop and _handle_error; stream/error_handler.py).  The breaker    *)
(* has one caller.  Only the time between a failure and the next call        *)
(* matters, so that is the only time kept, in seconds.                       *)
EXTENDS Integers

CONSTANTS Threshold,    \* failure_threshold
          Recovery,     \* recovery_timeout
          Successes,    \* success_threshold
          Multiplier,   \* backoff_multiplier
          MaxBackoff,   \* max_backoff
          Pause,        \* get_backoff_duration of TooManyRequests
          ShortPause,   \* get_backoff_duration of anything else
          Lag           \* durations of recording an error (Redis, then Postgres)

ASSUME RecoveryAssumption ==
    /\ {Threshold, Recovery, Successes, Multiplier} \subseteq Nat \ {0}
    /\ {MaxBackoff, Pause, ShortPause} \subseteq Nat
    /\ Recovery <= MaxBackoff
    /\ Lag \subseteq Nat

\* No pause is longer than the backoff of the first opening, so that a
\* suggestion never lengthens a backoff (60 and 5 against 2 * 60 in the code).
ASSUME PauseAssumption == {Pause, ShortPause} \subseteq 0 .. Multiplier * Recovery

VARIABLES
    state, failures, successes, backoff,   \* the breaker
    elapsed,       \* seconds from last_failure_time to now
    pc,            \* what the stream loop does
    error,         \* the exception it handles, or that ended it
    quiet,         \* history: failures since the last comment
    opened         \* history: times the circuit opened since it was closed

breaker == <<state, failures, successes, backoff>>
vars == <<breaker, elapsed, pc, error, quiet, opened>>

Transient == {"rate", "transient"}               \* TooManyRequests, retryable
Error == Transient \cup {"fatal", "unhandled"}

Least(a, b) == IF a < b THEN a ELSE b
Greatest(a, b) == IF a < b THEN b ELSE a

TypeOK ==
    /\ state \in {"closed", "open", "half_open"}
    /\ failures \in 0 .. quiet /\ successes \in 0 .. Successes
    /\ backoff \in Recovery .. MaxBackoff
    /\ elapsed \in Nat /\ quiet \in Nat /\ opened \in Nat
    /\ pc \in {"call", "session", "handle", "ended"}
    /\ error \in Error \cup {"none", "circuit", "unrecorded", "stopped"}

Init ==
    /\ state = "closed" /\ failures = 0 /\ successes = 0 /\ backoff = Recovery
    /\ elapsed = 0 /\ pc = "call" /\ error = "none" /\ quiet = 0 /\ opened = 0

-----------------------------------------------------------------------------
(* The breaker.                                                              *)

\* call: an open circuit becomes half open when its backoff is over, or refuses.
Admit ==
    /\ pc = "call" /\ (state = "open" => elapsed >= backoff)
    /\ pc' = "session" /\ error' = "none"
    /\ IF state = "open" THEN state' = "half_open" /\ successes' = 0
                         ELSE UNCHANGED <<state, successes>>
    /\ UNCHANGED <<failures, backoff, elapsed, quiet, opened>>

Refuse ==
    /\ pc = "call" /\ state = "open" /\ elapsed < backoff
    /\ pc' = "handle" /\ error' = "circuit"
    /\ UNCHANGED <<breaker, elapsed, quiet, opened>>

\* Mutant: a comment is not reported to the breaker.
ProgressUnrecorded ==
    /\ pc = "session"
    /\ quiet' = 0
    /\ UNCHANGED <<breaker, elapsed, pc, error, opened>>

\* Mutant: closing does not reset the backoff.
CloseKeepingBackoff ==
    /\ failures' = 0
    /\ IF state = "half_open"
       THEN /\ successes' = successes + 1
            /\ state' = IF successes + 1 >= Successes THEN "closed" ELSE state
       ELSE UNCHANGED <<state, successes>>
    /\ UNCHANGED backoff

\* _record_success.
RecordSuccess ==
    LET closes == state = "half_open" /\ successes + 1 >= Successes
    IN  /\ failures' = 0
        /\ successes' = IF state = "half_open" THEN successes + 1 ELSE successes
        /\ state' = IF closes THEN "closed" ELSE state
        /\ backoff' = IF closes THEN Recovery ELSE backoff

\* A comment is yielded.
Progress ==
    /\ pc = "session"
    /\ RecordSuccess
    /\ quiet' = 0
    /\ opened' = IF state' = "closed" THEN 0 ELSE opened
    /\ UNCHANGED <<elapsed, pc, error>>

Suggested(e) == IF e = "rate" THEN Pause ELSE ShortPause

\* Mutant: the backoff is not capped.
UncappedBackoff(e) == Greatest(backoff * Multiplier, Suggested(e))

LongerBackoff(e) == Least(Greatest(backoff * Multiplier, Suggested(e)), MaxBackoff)

\* Mutant: one failure more is tolerated.
TripLate(e) ==
    LET trips == state = "half_open" \/ failures + 1 > Threshold
    IN  /\ failures' = failures + 1 /\ successes' = 0
        /\ state' = IF trips THEN "open" ELSE state
        /\ backoff' = IF trips THEN LongerBackoff(e) ELSE backoff

\* _record_failure, which doubles the backoff from the first opening on.
RecordFailure(e) ==
    LET trips == state = "half_open" \/ failures + 1 >= Threshold
    IN  /\ failures' = failures + 1 /\ successes' = 0
        /\ state' = IF trips THEN "open" ELSE state
        /\ backoff' = IF trips THEN LongerBackoff(e) ELSE backoff

\* The session raises.
Fail(e) ==
    /\ pc = "session"
    /\ RecordFailure(e)
    /\ elapsed' = 0 /\ quiet' = quiet + 1
    /\ opened' = IF state' = "open" THEN opened + 1 ELSE opened
    /\ pc' = "handle" /\ error' = e

-----------------------------------------------------------------------------
(* _handle_error: the error is recorded first, which takes its time.         *)

Resume ==
    /\ pc = "handle" /\ error \in Transient
    /\ \E lag \in Lag : elapsed' = lag + (IF error = "rate" THEN Pause ELSE 0)
    /\ pc' = "call"
    /\ UNCHANGED <<breaker, error, quiet, opened>>

\* Fatal, or unclassified, as the RuntimeError of an open circuit is.
GiveUp ==
    /\ pc = "handle" /\ error \notin Transient
    /\ pc' = "ended"
    /\ UNCHANGED <<breaker, elapsed, error, quiet, opened>>

\* record_error itself fails (Redis is away).
RecordingFails ==
    /\ pc = "handle"
    /\ pc' = "ended" /\ error' = "unrecorded"
    /\ UNCHANGED <<breaker, elapsed, quiet, opened>>

\* Cancelled; a stop event noticed between two calls, or within a session,
\* which then returns and counts as a success.
Stop ==
    /\ pc # "ended"
    /\ pc' = "ended" /\ error' = "stopped"
    /\ IF pc = "session" THEN RecordSuccess \/ UNCHANGED breaker ELSE UNCHANGED breaker
    /\ opened' = IF state' = "closed" THEN 0 ELSE opened
    /\ UNCHANGED <<elapsed, quiet>>

Next ==
    \/ Admit \/ Refuse \/ Progress
    \/ \E e \in Error : Fail(e)
    \/ Resume \/ GiveUp \/ RecordingFails \/ Stop

Spec == Init /\ [][Next]_vars

\* The event loop runs a ready task: the loop does not stay between two steps.
FairSpec == Spec /\ WF_vars(Admit \/ Refuse) /\ WF_vars(Resume \/ GiveUp)

-----------------------------------------------------------------------------

Power[n \in Nat] == IF n = 0 THEN 1 ELSE Multiplier * Power[n - 1]

\* The backoff of a circuit is what its openings since it last closed make it,
\* and a closed circuit starts afresh (circuit_breaker.py, _record_success and
\* _record_failure).
BackoffLaw ==
    backoff = IF state = "closed" THEN Recovery
              ELSE Least(Recovery * Power[opened], MaxBackoff)

\* Once Threshold sessions in a row ended without one comment, no request
\* reaches Reddit before the recovery timeout, doubled once for each time the
\* circuit has opened since, is over, up to the cap (circuit_breaker.py, call).
SparesUpstream ==
    [][ (pc = "call" /\ pc' = "session" /\ quiet >= Threshold)
          => /\ opened >= 1
             /\ elapsed >= Least(Recovery * Power[opened], MaxBackoff) ]_vars

\* The circuit ends a stream only after Threshold failures in a row, or after
\* failing when it was tested again: comments in between keep a stream alive,
\* although the session that yields them never returns (worker.py,
\* _fetch_and_process_comments).
SurvivesBlips ==
    (pc = "ended" /\ error = "circuit") => (quiet >= Threshold \/ opened >= 2)

\* circuit_breaker.py: an open circuit is tested again ("HALF_OPEN: Testing if
\* ready to retry") unless something else ends the stream first.
OpenIsRetried ==
    state = "open" ~> (state = "half_open" \/ (pc = "ended" /\ error # "circuit"))
=============================================================================
