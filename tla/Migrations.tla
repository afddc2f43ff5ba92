----------------------------- MODULE Migrations -----------------------------
(* The migration runner (migrations.py): one-shot jobs of any releases that  *)
(* run one after the other or at the same time, over a database whose        *)
(* connections fail.  The advisory lock lets one transaction at a time past  *)
(* its first statement, so one variable holds the transaction that matters.  *)
EXTENDS Integers

CONSTANTS Job, Name, Checksum,
          None         \* no file, no row, no transaction

VARIABLES
    files,       \* the migrations directory each job was built with
    recorded,    \* schema_migrations: the checksum of each applied version
    effects,     \* the versions whose script's changes are in the database
    tx,          \* the transaction that holds the advisory lock
    applied,     \* the rows each job has read under the lock
    left,        \* files each job has yet to visit
    pc,          \* of each job
    late         \* jobs whose MAX_MIGRATION_WAIT_SECONDS have passed

job  == <<applied, left>>
vars == <<files, recorded, effects, tx, job, pc, late>>

Rows == [Name -> Checksum \cup {None}]
NoRows == [n \in Name |-> None]

\* of: the job; ran: scripts run and recorded in it; committing: the client
\* has asked for the commit; lost: the client no longer has the connection.
Transaction == [of : Job, ran : SUBSET Name, committing : BOOLEAN, lost : BOOLEAN]

ASSUME MigrationAssumption ==
    /\ None \notin Job \cup Checksum \cup Transaction
    /\ \A n \in Name : n.number \in Nat /\ n.width \in 1 .. 4

TypeOK ==
    /\ files \in [Job -> Rows]
    /\ recorded \in Rows
    /\ effects \subseteq Name
    /\ tx \in Transaction \cup {None}
    /\ applied \in [Job -> Rows]
    /\ left \in [Job -> SUBSET Name]
    /\ pc \in [Job -> {"lock", "read", "visit", "commit", "done", "failed"}]
    /\ late \subseteq Job

Init ==
    /\ files \in [Job -> Rows]
    /\ recorded = NoRows
    /\ effects = {}
    /\ tx = None
    /\ applied = [j \in Job |-> NoRows]
    /\ left = [j \in Job |-> {}]
    /\ pc = [j \in Job |-> "lock"]
    /\ late = {}

Shipped(j) == {n \in Name : files[j][n] # None}
Goes(j, phase) == pc' = [pc EXCEPT ![j] = phase]

\* An attempt ends, and its local variables with it.
Ends(j, phase) ==
    /\ Goes(j, phase)
    /\ applied' = [applied EXCEPT ![j] = NoRows]
    /\ left' = [left EXCEPT ![j] = {}]

-----------------------------------------------------------------------------
(* Names.  A name is <number>_<words>.sql, its number written with `width`   *)
(* digits; sorted() compares the paths character by character.               *)

\* What the last digit of a number of each width is worth: digits compare as
\* those of a fraction do.  The bound is four digits.
Unit == <<1000, 100, 10, 1>>

\* After equal digits the longer number is first: a digit sorts before "_".
Precedes(m, n) ==
    LET Scaled(f) == f.number * Unit[f.width]
    IN  \/ Scaled(m) < Scaled(n)
        \/ Scaled(m) = Scaled(n) /\ m.width > n.width

First(n, names) == n \in names /\ \A m \in names \ {n} : Precedes(n, m)

-----------------------------------------------------------------------------
(* One attempt: engine.begin() and _apply_migration_files.                   *)

\* pg_advisory_xact_lock waits until no transaction has it.
TakeLock(j) ==
    /\ pc[j] = "lock" /\ tx = None
    /\ tx' = [of |-> j, ran |-> {}, committing |-> FALSE, lost |-> FALSE]
    /\ Goes(j, "read")
    /\ UNCHANGED <<files, recorded, effects, job, late>>

\* Mutant: of a row only its presence is read.
ReadVersions(j) ==
    /\ pc[j] = "read"
    /\ applied' = [applied EXCEPT ![j] = [n \in Name |-> recorded[n] # None]]
    /\ left' = [left EXCEPT ![j] = Shipped(j)]
    /\ Goes(j, "visit")
    /\ UNCHANGED <<files, recorded, effects, tx, late>>

\* CREATE TABLE IF NOT EXISTS, and the rows there are.
ReadApplied(j) ==
    /\ pc[j] = "read"
    /\ applied' = [applied EXCEPT ![j] = recorded]
    /\ left' = [left EXCEPT ![j] = Shipped(j)]
    /\ Goes(j, "visit")
    /\ UNCHANGED <<files, recorded, effects, tx, late>>

\* Mutant: a script is run on a connection that commits by itself.
VisitAutocommit(j, n) ==
    /\ \/ applied[j][n] = files[j][n] /\ UNCHANGED <<tx, effects>>
       \/ /\ applied[j][n] = None
          /\ tx' = [tx EXCEPT !.ran = @ \cup {n}]
          /\ effects' = effects \cup {n}
    /\ left' = [left EXCEPT ![j] = @ \ {n}]
    /\ UNCHANGED <<files, recorded, applied, pc, late>>

\* Mutant: a recorded version is skipped whatever its content.
VisitByName(j, n) ==
    /\ \/ applied[j][n] # None /\ UNCHANGED tx
       \/ applied[j][n] = None /\ tx' = [tx EXCEPT !.ran = @ \cup {n}]
    /\ left' = [left EXCEPT ![j] = @ \ {n}]
    /\ UNCHANGED <<files, recorded, effects, applied, pc, late>>

\* A recorded file with this content is skipped, a file without a row is run
\* and recorded in the transaction.
Visit(j, n) ==
    /\ \/ applied[j][n] = files[j][n] /\ UNCHANGED tx
       \/ applied[j][n] = None /\ tx' = [tx EXCEPT !.ran = @ \cup {n}]
    /\ left' = [left EXCEPT ![j] = @ \ {n}]
    /\ UNCHANGED <<files, recorded, effects, applied, pc, late>>

\* Mutant: the files are visited in the order glob returns them.
VisitUnsorted(j) ==
    /\ pc[j] = "visit"
    /\ \E n \in left[j] : Visit(j, n)

VisitNext(j) ==
    /\ pc[j] = "visit"
    /\ \E n \in left[j] : First(n, left[j]) /\ Visit(j, n)

\* A recorded file with another content is a RuntimeError: rolled back, and
\* not retried.
Refuse(j) ==
    /\ pc[j] = "visit"
    /\ \E n \in left[j] : /\ First(n, left[j])
                          /\ applied[j][n] \notin {None, files[j][n]}
    /\ tx' = None
    /\ Ends(j, "failed")
    /\ UNCHANGED <<files, recorded, effects, late>>

AskCommit(j) ==
    /\ pc[j] = "visit" /\ left[j] = {}
    /\ tx' = [tx EXCEPT !.committing = TRUE]
    /\ Goes(j, "commit")
    /\ UNCHANGED <<files, recorded, effects, job, late>>

\* The transaction's rows and changes become the database's, its lock is free.
Persist ==
    /\ recorded' = [n \in Name |-> IF n \in tx.ran THEN files[tx.of][n] ELSE recorded[n]]
    /\ effects' = effects \cup tx.ran
    /\ tx' = None

Commit(j) ==
    /\ pc[j] = "commit"
    /\ Persist
    /\ Ends(j, "done")
    /\ UNCHANGED <<files, late>>

-----------------------------------------------------------------------------
(* Failures, and _run_with_retry.                                            *)

Has(j) == pc[j] \in {"read", "visit", "commit"}

\* The transaction of a job that is interrupted: the server has yet to notice.
Abandon(j) == tx' = IF Has(j) THEN [tx EXCEPT !.lost = TRUE] ELSE tx

\* Mutant: every attempt gets a deadline of its own.
StatementFailsRenewed(j) ==
    /\ pc[j] = "lock" \/ Has(j)
    /\ Abandon(j)
    /\ \E phase \in {"failed", "lock"} : Ends(j, phase)
    /\ UNCHANGED <<files, recorded, effects, late>>

\* A statement fails: the driver's own errors (those of a script) end the job,
\* connection and DBAPI errors are retried until the deadline has passed.
StatementFails(j) ==
    /\ pc[j] = "lock" \/ Has(j)
    /\ Abandon(j)
    /\ \/ Ends(j, "failed")
       \/ j \notin late /\ Ends(j, "lock")
    /\ UNCHANGED <<files, recorded, effects, late>>

\* The container is stopped.
Kill(j) ==
    /\ pc[j] = "lock" \/ Has(j)
    /\ Abandon(j)
    /\ Ends(j, "failed")
    /\ UNCHANGED <<files, recorded, effects, late>>

\* The server ends a session whose client is gone.  A commit that was under
\* way takes place or does not; anything else is rolled back.
SessionEnds ==
    /\ tx # None /\ tx.lost
    /\ \/ tx.committing /\ Persist
       \/ tx' = None /\ UNCHANGED <<recorded, effects>>
    /\ UNCHANGED <<files, job, pc, late>>

DeadlinePasses(j) ==
    /\ pc[j] \notin {"done", "failed"} /\ j \notin late
    /\ late' = late \cup {j}
    /\ UNCHANGED <<files, recorded, effects, tx, job, pc>>

-----------------------------------------------------------------------------

JobStep(j) == TakeLock(j) \/ ReadApplied(j) \/ VisitNext(j) \/ Refuse(j) \/ AskCommit(j) \/ Commit(j)

Next ==
    \/ \E j \in Job : JobStep(j) \/ StatementFails(j) \/ Kill(j) \/ DeadlinePasses(j)
    \/ SessionEnds

Spec == Init /\ [][Next]_vars

\* A job's statements return, time passes, and the server ends lost sessions.
FairSpec ==
    /\ Spec
    /\ WF_vars(SessionEnds)
    /\ \A j \in Job : WF_vars(JobStep(j)) /\ WF_vars(DeadlinePasses(j))

-----------------------------------------------------------------------------
(* Properties.                                                               *)

\* A release is applied as a whole or not at all, whatever is killed, lost,
\* retried or run at the same time (docstring of _apply_migration_files).
Ledger == INSTANCE MigrationLedger
            WITH outcome <- [j \in Job |-> IF pc[j] \in {"done", "failed"} THEN pc[j]
                                           ELSE "pending"]
LedgerSpec == Ledger!Spec

\* When a job reports success, every file it shipped is in the database as it
\* is ("Already-applied migrations cannot be silently edited", README.md): no
\* later job, of whatever release, records it otherwise.
NoSilentEdit ==
    \A j \in Job : pc[j] = "done" =>
        \A n \in Shipped(j) : recorded[n] = files[j][n] /\ n \in effects

\* Scripts run in the order of their numbers ("Ordered SQL migrations",
\* README.md), and never over their own changes: if all the files of a job
\* write their numbers with as many digits.  The order is that of the names.
Uniform(j) == \A m, n \in Shipped(j) : m.width = n.width

InOrderOnce ==
    [][ \A j \in Job : VisitNext(j) /\ tx' # tx =>
          \A n \in tx'.ran \ tx.ran :
              /\ n \notin effects
              /\ Uniform(j) => \A m \in tx.ran : m.number < n.number ]_vars

\* A job ends, however often the database fails it: its deadline is one for
\* all attempts (_run_with_retry).
EveryJobEnds == \A j \in Job : <>(pc[j] \in {"done", "failed"})

=============================================================================
