--------------------------- MODULE MigrationLedger ---------------------------
(* What the migration runner promises of the database (migrations/README.md: *)
(* "A migration runs once and is recorded atomically with its schema         *)
(* changes"): a release is applied as a whole, or not at all, and never over *)
(* a migration that was recorded with another content.                       *)
CONSTANTS Job,         \* runs of `python -m src.migrations`
          Name,        \* names of migration files
          Checksum,    \* their contents
          None         \* no such file, no such row

VARIABLES
    files,       \* the migrations directory each job was built with
    recorded,    \* schema_migrations: the checksum of each applied version
    effects,     \* the versions whose script's changes are in the database
    outcome      \* of each job

vars == <<files, recorded, effects, outcome>>

Shipped(j) == {n \in Name : files[j][n] # None}

\* No file of the job was recorded with another content.
Unedited(j) == \A n \in Shipped(j) : recorded[n] \in {None, files[j][n]}

Init ==
    /\ files \in [Job -> [Name -> Checksum \cup {None}]]
    /\ recorded = [n \in Name |-> None]
    /\ effects = {}
    /\ outcome = [j \in Job |-> "pending"]

\* The whole release at once.  A job that loses the answer to its commit may
\* have applied its release and not know it.
Apply(j) ==
    /\ Unedited(j)
    /\ recorded' = [n \in Name |-> IF n \in Shipped(j) THEN files[j][n] ELSE recorded[n]]
    /\ effects' = effects \cup Shipped(j)
    /\ \/ outcome[j] = "pending" /\ outcome' = [outcome EXCEPT ![j] = "done"]
       \/ UNCHANGED outcome
    /\ UNCHANGED files

Fail(j) ==
    /\ outcome[j] = "pending"
    /\ outcome' = [outcome EXCEPT ![j] = "failed"]
    /\ UNCHANGED <<files, recorded, effects>>

Next == \E j \in Job : Apply(j) \/ Fail(j)

Spec == Init /\ [][Next]_vars
=============================================================================
