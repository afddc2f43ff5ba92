--------------------------- MODULE MigrationProofs ---------------------------
(* Theorems about Migrations for any jobs, any releases and any file names:  *)
(* the rows a job read under the lock are the rows there are for as long as  *)
(* its transaction lasts, because whoever would add one waits for the lock.  *)
EXTENDS Migrations, TLAPS

USE MigrationAssumption

\* The transaction that holds the lock is that of the job that is past it.
Holder == \A j \in Job : Has(j) <=> tx # None /\ tx.of = j /\ ~tx.lost

\* It has run files of its release that had no row, all that need be run once
\* it asks for its commit.
Pending ==
    tx # None =>
        /\ \A n \in tx.ran : n \in Shipped(tx.of) /\ recorded[n] = None
        /\ tx.committing => \A n \in Shipped(tx.of) : n \in tx.ran \/ recorded[n] = files[tx.of][n]

\* What the job remembers of the rows is true, the files it has visited are
\* run or recorded, and they come before the files it has yet to visit.
Visiting ==
    \A j \in Job : pc[j] = "visit" =>
        /\ applied[j] = recorded
        /\ left[j] \subseteq Shipped(j)
        /\ \A n \in Shipped(j) \ left[j] : n \in tx.ran \/ recorded[n] = files[j][n]
        /\ \A m \in tx.ran, n \in left[j] : Precedes(m, n)

Reading == \A j \in Job : pc[j] = "read" => tx.ran = {}

Committing == \A j \in Job : pc[j] = "commit" => tx.committing

\* A row and the changes of its script are in the database together.
Together == effects = {n \in Name : recorded[n] # None}

IInv == TypeOK /\ Holder /\ Pending /\ Visiting /\ Reading /\ Committing /\ Together /\ NoSilentEdit

\* The initial states satisfy the invariant.
LEMMA MigrationInit == Init => IInv
BY DEF Init, IInv, TypeOK, Holder, Pending, Visiting, Reading, Committing, Together,
       NoSilentEdit, Has, Rows, NoRows

\* The end of an attempt keeps the types of the job's own variables.
LEMMA Ending ==
    ASSUME TypeOK, NEW j \in Job, NEW phase \in {"lock", "done", "failed"}, Ends(j, phase)
    PROVE  /\ applied' \in [Job -> Rows]
           /\ left' \in [Job -> SUBSET Name]
           /\ pc' \in [Job -> {"lock", "read", "visit", "commit", "done", "failed"}]
BY DEF TypeOK, Ends, Goes, Rows, NoRows

\* Every step keeps the types.
LEMMA MigrationTypesStep == TypeOK /\ Holder /\ [Next]_vars => TypeOK'
<1> SUFFICES ASSUME TypeOK, Holder, [Next]_vars PROVE TypeOK'
    OBVIOUS
<1> USE DEF TypeOK, Holder, Goes, job, vars
<1>1. ASSUME NEW j \in Job, TakeLock(j) PROVE TypeOK'
    BY <1>1 DEF TakeLock, Transaction
<1>2. ASSUME NEW j \in Job, ReadApplied(j) PROVE TypeOK'
    BY <1>2 DEF ReadApplied, Shipped
<1>3. ASSUME NEW j \in Job, VisitNext(j) PROVE TypeOK'
    BY <1>3 DEF VisitNext, Visit, Has, Transaction
<1>4. ASSUME NEW j \in Job, Refuse(j) PROVE TypeOK'
    BY <1>4, Ending DEF Refuse
<1>5. ASSUME NEW j \in Job, AskCommit(j) PROVE TypeOK'
    BY <1>5 DEF AskCommit, Has, Transaction
<1>6. ASSUME tx \in Transaction, Persist PROVE recorded' \in Rows /\ effects' \subseteq Name /\ tx' = None
    BY <1>6 DEF Persist, Rows, Transaction
<1>7. ASSUME NEW j \in Job, Commit(j) PROVE TypeOK'
    BY <1>6, <1>7, Ending DEF Commit, Has
<1>8. ASSUME NEW j \in Job, StatementFails(j) \/ Kill(j) PROVE TypeOK'
  <2>1. Abandon(j)
      BY <1>8 DEF StatementFails, Kill
  <2>2. CASE Has(j)
    <3>1. tx \in Transaction /\ tx' = [tx EXCEPT !.lost = TRUE]
        BY <2>1, <2>2 DEF Abandon
    <3> QED
        BY <1>8, <3>1, Ending DEF StatementFails, Kill, Transaction
  <2>3. CASE ~Has(j)
    <3>1. tx' = tx
        BY <2>1, <2>3 DEF Abandon
    <3> QED
        BY <1>8, <3>1, Ending DEF StatementFails, Kill
  <2> QED
      BY <2>2, <2>3
<1>9. CASE SessionEnds
    BY <1>6, <1>9 DEF SessionEnds
<1>10. ASSUME NEW j \in Job, DeadlinePasses(j) PROVE TypeOK'
    BY <1>10 DEF DeadlinePasses
<1>11. CASE UNCHANGED vars
    BY <1>11
<1> QED
    BY <1>1, <1>2, <1>3, <1>4, <1>5, <1>7, <1>8, <1>9, <1>10, <1>11 DEF Next, JobStep

\* What a step other than a commit, and other than the steps under the lock,
\* cannot change.
Kept == Holder /\ Pending /\ Visiting /\ Reading /\ Committing /\ Together /\ NoSilentEdit

\* The rows of a transaction become the database's: they were missing before,
\* and with them its release is recorded as a whole.
LEMMA Persisting ==
    ASSUME TypeOK, Kept, tx # None, tx.committing, Persist, UNCHANGED files
    PROVE  /\ Together'
           /\ \A n \in Name : recorded[n] # None => recorded'[n] = recorded[n]
           /\ \A n \in Shipped(tx.of) : recorded'[n] = files[tx.of][n] /\ n \in effects'
<1> USE DEF Kept
<1>1. tx \in Transaction
    BY DEF TypeOK
<1>2. \A n \in Name : recorded'[n] = IF n \in tx.ran THEN files[tx.of][n] ELSE recorded[n]
    BY DEF Persist
<1>3. \A n \in tx.ran : n \in Name /\ recorded[n] = None /\ files[tx.of][n] # None
    BY <1>1 DEF Pending, Shipped
<1>4. Together'
    BY <1>2, <1>3 DEF Persist, Together
<1>5. \A n \in Shipped(tx.of) : recorded'[n] = files[tx.of][n]
    BY <1>2 DEF Pending, Shipped
<1> QED
    BY <1>2, <1>3, <1>4, <1>5 DEF Together, Shipped

\* A release that has been recorded stays so.
LEMMA StillDone ==
    ASSUME TypeOK, NoSilentEdit, UNCHANGED files,
           \A n \in Name : recorded[n] # None => recorded'[n] = recorded[n],
           effects \subseteq effects',
           NEW j \in Job, pc[j] = "done"
    PROVE  \A n \in Shipped(j)' : recorded'[n] = files'[j][n] /\ n \in effects'
BY DEF NoSilentEdit, Shipped

\* Every step keeps the rest of the invariant.
LEMMA MigrationStep == TypeOK /\ TypeOK' /\ Kept /\ [Next]_vars => Kept'
<1> SUFFICES ASSUME TypeOK, TypeOK', Kept, [Next]_vars PROVE Kept'
    OBVIOUS
<1> USE DEF TypeOK, Kept, Goes, job, vars
<1>1. ASSUME NEW j \in Job, TakeLock(j) PROVE Kept'
  <2>1. tx' # None /\ tx'.of = j /\ ~tx'.lost /\ tx'.ran = {} /\ ~tx'.committing
    <3>1. tx' \in Transaction
        BY <1>1 DEF TakeLock, Transaction
    <3>2. tx' # None
        BY <3>1
    <3> QED
        BY <1>1, <3>2 DEF TakeLock
  <2>2. \A k \in Job : pc'[k] = IF k = j THEN "read" ELSE pc[k]
      BY <1>1 DEF TakeLock
  <2>3. \A k \in Job : ~Has(k)
      BY <1>1 DEF TakeLock, Holder
  <2> QED
      BY <1>1, <2>1, <2>2, <2>3 DEF TakeLock, Holder, Pending, Visiting, Reading, Committing,
         Together, NoSilentEdit, Shipped, Has
<1>2. ASSUME NEW j \in Job, ReadApplied(j) PROVE Kept'
  <2>1. \A k \in Job : pc'[k] = IF k = j THEN "visit" ELSE pc[k]
      BY <1>2 DEF ReadApplied
  <2>2. tx.ran = {} /\ \A k \in Job \ {j} : ~Has(k)
      BY <1>2 DEF ReadApplied, Reading, Holder, Has
  <2> QED
      BY <1>2, <2>1, <2>2 DEF ReadApplied, Holder, Pending, Visiting, Reading, Committing,
         Together, NoSilentEdit, Shipped, Has
<1>3. ASSUME NEW j \in Job, NEW n \in left[j], pc[j] = "visit", First(n, left[j]), Visit(j, n)
      PROVE  Kept'
  <2>1. tx \in Transaction /\ tx.of = j /\ ~tx.lost /\ \A k \in Job \ {j} : ~Has(k)
      BY <1>3 DEF Holder, Has
  <2>2. /\ n \in Shipped(j) /\ applied[j] = recorded
        /\ \A m \in left[j] \ {n} : Precedes(n, m)
        /\ \A m \in tx.ran : Precedes(m, n)
      BY <1>3 DEF Visiting, First
  <2>3. /\ tx' \in Transaction /\ tx'.of = j /\ ~tx'.lost /\ tx'.committing = tx.committing
        /\ tx.ran \subseteq tx'.ran /\ tx'.ran \subseteq tx.ran \cup {n}
        /\ n \in tx'.ran => recorded[n] = None \/ n \in tx.ran
        /\ n \in tx'.ran \/ recorded[n] = files[j][n]
      BY <1>3, <2>1, <2>2 DEF Visit, Transaction
  <2>4. /\ left'[j] = left[j] \ {n} /\ applied' = applied /\ pc' = pc
        /\ UNCHANGED <<files, recorded, effects>>
      BY <1>3 DEF Visit
  <2>5. Holder' /\ Reading' /\ Committing' /\ Together' /\ NoSilentEdit'
      BY <1>3, <2>1, <2>3, <2>4 DEF Holder, Reading, Committing, Together, NoSilentEdit, Has, Shipped
  <2>6. Pending'
      BY <2>1, <2>2, <2>3, <2>4 DEF Pending, Shipped
  <2>7. Visiting'
    <3> SUFFICES /\ left'[j] \subseteq Shipped(j)
                 /\ \A k \in Shipped(j) \ left'[j] : k \in tx'.ran \/ recorded[k] = files[j][k]
                 /\ \A m \in tx'.ran, k \in left'[j] : Precedes(m, k)
        BY <1>3, <2>1, <2>2, <2>4 DEF Visiting, Has, Shipped
    <3>1. left'[j] \subseteq Shipped(j)
        BY <1>3, <2>4 DEF Visiting
    <3>2. \A k \in Shipped(j) \ left'[j] : k \in tx'.ran \/ recorded[k] = files[j][k]
        BY <1>3, <2>3, <2>4 DEF Visiting
    <3>3. \A m \in tx'.ran, k \in left'[j] : Precedes(m, k)
        BY <1>3, <2>2, <2>3, <2>4 DEF Visiting
    <3> QED
        BY <3>1, <3>2, <3>3
  <2> QED
      BY <2>5, <2>6, <2>7
<1>4. ASSUME NEW j \in Job, Refuse(j) PROVE Kept'
  <2>1. \A k \in Job : ~Has(k)' /\ (pc'[k] = "done" => pc[k] = "done")
      BY <1>4 DEF Refuse, Ends, Holder, Has
  <2> QED
      BY <1>4, <2>1 DEF Refuse, Ends, Holder, Pending, Visiting, Reading, Committing, Together,
         NoSilentEdit, Shipped, Has
<1>5. ASSUME NEW j \in Job, AskCommit(j) PROVE Kept'
  <2>1. tx \in Transaction /\ tx.of = j /\ ~tx.lost /\ \A k \in Job \ {j} : ~Has(k)
      BY <1>5 DEF AskCommit, Holder, Has
  <2>2. tx' \in Transaction /\ tx'.of = j /\ ~tx'.lost /\ tx'.ran = tx.ran /\ tx'.committing
      BY <1>5, <2>1 DEF AskCommit, Transaction
  <2>3. \A n \in Shipped(j) : n \in tx.ran \/ recorded[n] = files[j][n]
      BY <1>5 DEF AskCommit, Visiting
  <2>4. \A k \in Job : pc'[k] = IF k = j THEN "commit" ELSE pc[k]
      BY <1>5 DEF AskCommit
  <2> QED
    <3>1. tx' # None /\ UNCHANGED <<files, recorded, effects, applied, left>>
        BY <1>5, <2>2 DEF AskCommit
    <3>2. Holder' /\ Visiting' /\ Reading' /\ Committing'
        BY <1>5, <2>1, <2>2, <2>4, <3>1 DEF AskCommit, Holder, Visiting, Reading, Committing, Has
    <3>3. Pending'
        BY <1>5, <2>1, <2>2, <2>3, <3>1 DEF Pending, Shipped
    <3>4. Together' /\ NoSilentEdit'
        BY <2>4, <3>1 DEF Together, NoSilentEdit, Shipped
    <3> QED
        BY <3>2, <3>3, <3>4
<1>6. ASSUME NEW j \in Job, Commit(j) PROVE Kept'
  <2>1. tx # None /\ tx.of = j /\ tx.committing /\ \A k \in Job \ {j} : ~Has(k)
      BY <1>6 DEF Commit, Holder, Committing, Has
  <2>2. /\ Together'
        /\ \A n \in Name : recorded[n] # None => recorded'[n] = recorded[n]
        /\ \A n \in Shipped(j) : recorded'[n] = files[j][n] /\ n \in effects'
      BY <1>6, <2>1, Persisting DEF Commit
  <2>3. \A k \in Job : pc'[k] = IF k = j THEN "done" ELSE pc[k]
      BY <1>6 DEF Commit, Ends
  <2>4. NoSilentEdit'
    <3> SUFFICES ASSUME NEW k \in Job, pc'[k] = "done"
                 PROVE  \A n \in Shipped(k)' : recorded'[n] = files'[k][n] /\ n \in effects'
        BY DEF NoSilentEdit
    <3>1. CASE k = j
        BY <1>6, <2>2, <3>1 DEF Commit, Shipped
    <3>2. CASE k # j
        BY <1>6, <2>2, <2>3, <3>2, StillDone DEF Commit, Persist
    <3> QED
        BY <3>1, <3>2
  <2>5. tx' = None /\ \A k \in Job : ~Has(k)'
      BY <1>6, <2>1, <2>3 DEF Commit, Persist, Has
  <2> QED
      BY <2>2, <2>4, <2>5 DEF Holder, Pending, Visiting, Reading, Committing, Has
<1>7. ASSUME NEW j \in Job, StatementFails(j) \/ Kill(j) PROVE Kept'
  <2>1. /\ Abandon(j) /\ UNCHANGED <<files, recorded, effects>>
        /\ \E phase \in {"failed", "lock"} : Ends(j, phase)
      BY <1>7 DEF StatementFails, Kill
  <2>2. /\ pc'[j] \in {"failed", "lock"}
        /\ \A k \in Job \ {j} : pc'[k] = pc[k] /\ applied'[k] = applied[k] /\ left'[k] = left[k]
      BY <2>1 DEF Ends
  <2>3. CASE Has(j)
    <3>1. tx \in Transaction /\ tx.of = j /\ \A k \in Job \ {j} : ~Has(k)
        BY <2>3 DEF Holder
    <3>2. tx' # None /\ tx'.of = j /\ tx'.lost /\ tx'.ran = tx.ran /\ tx'.committing = tx.committing
      <4>1. tx' \in Transaction /\ tx'.of = j /\ tx'.lost /\ tx'.ran = tx.ran
              /\ tx'.committing = tx.committing
          BY <2>1, <2>3, <3>1 DEF Abandon, Transaction
      <4> QED
          BY <4>1
    <3> QED
        BY <2>1, <2>2, <3>1, <3>2 DEF Holder, Pending, Visiting, Reading, Committing, Together,
           NoSilentEdit, Shipped, Has
  <2>4. CASE ~Has(j)
    <3>1. tx' = tx
        BY <2>1, <2>4 DEF Abandon
    <3> QED
        BY <2>1, <2>2, <2>4, <3>1 DEF Holder, Pending, Visiting, Reading, Committing, Together,
           NoSilentEdit, Shipped, Has
  <2> QED
      BY <2>3, <2>4
<1>8. CASE SessionEnds
  <2>1. tx # None /\ tx' = None /\ UNCHANGED <<files, pc, applied, left>> /\ \A k \in Job : ~Has(k)
      BY <1>8 DEF SessionEnds, Persist, Holder
  <2>2. /\ Together'
        /\ \A n \in Name : recorded[n] # None => recorded'[n] = recorded[n]
        /\ effects \subseteq effects'
    <3>1. CASE tx.committing /\ Persist
        BY <2>1, <3>1, Persisting DEF Persist
    <3>2. CASE UNCHANGED <<recorded, effects>>
        BY <3>2 DEF Together
    <3> QED
        BY <1>8, <3>1, <3>2 DEF SessionEnds
  <2>3. NoSilentEdit'
      BY <2>1, <2>2, StillDone DEF NoSilentEdit
  <2> QED
      BY <2>1, <2>2, <2>3 DEF Holder, Pending, Visiting, Reading, Committing, Has
<1>9. ASSUME NEW j \in Job, DeadlinePasses(j) PROVE Kept'
    BY <1>9 DEF DeadlinePasses, Holder, Pending, Visiting, Reading, Committing, Together,
       NoSilentEdit, Shipped, Has
<1>10. CASE UNCHANGED vars
    BY <1>10 DEF Holder, Pending, Visiting, Reading, Committing, Together, NoSilentEdit, Shipped, Has
<1> QED
    BY <1>1, <1>2, <1>3, <1>4, <1>5, <1>6, <1>7, <1>8, <1>9, <1>10 DEF Next, JobStep, VisitNext

\* The invariant holds in every reachable state.
THEOREM MigrationInvariant == Spec => []IInv
<1>1. IInv /\ [Next]_vars => IInv'
    BY MigrationTypesStep, MigrationStep DEF IInv, Kept
<1> QED
    BY <1>1, MigrationInit, PTL DEF Spec

\* Type correctness of jobs, rows and transactions.
THEOREM MigrationTypes == Spec => []TypeOK
<1>1. IInv => TypeOK
    BY DEF IInv
<1> QED
    BY <1>1, MigrationInvariant, PTL

\* The changes of a script are in the database exactly when its row is: a
\* migration is recorded atomically with its schema changes (migrations.py,
\* run_migrations), whatever fails, is killed or loses its connection.
THEOREM MigrationAtomic == Spec => [](effects = {n \in Name : recorded[n] # None})
<1>1. IInv => effects = {n \in Name : recorded[n] # None}
    BY DEF IInv, Together
<1> QED
    BY <1>1, MigrationInvariant, PTL

\* A job that reports success has all its files in the database as they are,
\* whatever other jobs of other releases do (_apply_migration_files).
THEOREM MigrationKeepsFiles == Spec => []NoSilentEdit
<1>1. IInv => NoSilentEdit
    BY DEF IInv
<1> QED
    BY <1>1, MigrationInvariant, PTL

-----------------------------------------------------------------------------
\* A script is run only when its changes are not in the database, and after
\* all files of its job with smaller numbers (README.md, "Ordered SQL migrations").
THEOREM MigrationOrder == Spec => InOrderOnce
<1>1. IInv /\ [Next]_vars =>
        [\A j \in Job : VisitNext(j) /\ tx' # tx =>
           \A n \in tx'.ran \ tx.ran :
              /\ n \notin effects
              /\ Uniform(j) => \A m \in tx.ran : m.number < n.number]_vars
  <2> SUFFICES ASSUME IInv, NEW j \in Job, NEW n \in left[j], pc[j] = "visit",
                      First(n, left[j]), Visit(j, n), tx' # tx,
                      NEW k \in tx'.ran \ tx.ran
               PROVE  /\ k \notin effects
                      /\ Uniform(j) => \A m \in tx.ran : m.number < k.number
      BY DEF VisitNext
  <2>1. tx # None /\ tx \in Transaction /\ tx.of = j
      BY DEF IInv, TypeOK, Holder, Has
  <2>2. applied[j][n] = None /\ tx' = [tx EXCEPT !.ran = @ \cup {n}]
      BY DEF Visit
  <2>3. k = n
      BY <2>1, <2>2 DEF Transaction
  <2>4. n \in Shipped(j) /\ recorded[n] = None /\ \A m \in tx.ran : Precedes(m, n)
      BY <2>2 DEF IInv, Visiting
  <2>5. k \notin effects
      BY <2>3, <2>4 DEF IInv, Together
  <2>6. ASSUME Uniform(j), NEW m \in tx.ran PROVE m.number < n.number
    <3>1. m \in Shipped(j) /\ m \in Name /\ n \in Name
        BY <2>1, <2>4 DEF IInv, Pending, Shipped
    <3>2. m.width = n.width /\ Precedes(m, n)
        BY <2>4, <2>6, <3>1 DEF Uniform
    <3>3. m.number \in Nat /\ n.number \in Nat /\ n.width \in 1 .. 4
        BY <3>1
    <3>4. Unit[n.width] \in {1000, 100, 10, 1}
        BY <3>3 DEF Unit
    <3>5. m.number * Unit[n.width] < n.number * Unit[n.width]
        BY <3>2, <3>3 DEF Precedes
    <3> QED
        BY <3>3, <3>4, <3>5
  <2> QED
      BY <2>3, <2>5, <2>6
<1> QED
    BY <1>1, MigrationInvariant, PTL DEF Spec, InOrderOnce

-----------------------------------------------------------------------------
(* The refinement of MigrationLedger.                                        *)

Outcome(j) == IF pc[j] \in {"done", "failed"} THEN pc[j] ELSE "pending"

\* The commit of a transaction applies its whole release, which agrees with
\* the rows there were.
LEMMA PersistApplies ==
    ASSUME IInv, tx # None, tx.committing, Persist, UNCHANGED files
    PROVE  /\ Ledger!Unedited(tx.of)
           /\ recorded' = [n \in Name |-> IF n \in Shipped(tx.of) THEN files[tx.of][n]
                                         ELSE recorded[n]]
           /\ effects' = effects \cup Shipped(tx.of)
<1>1. tx \in Transaction
    BY DEF IInv, TypeOK
<1>2. \A n \in tx.ran : n \in Shipped(tx.of) /\ recorded[n] = None
    BY DEF IInv, Pending
<1>3. \A n \in Shipped(tx.of) : n \in tx.ran \/ recorded[n] = files[tx.of][n]
    BY DEF IInv, Pending
<1>4. Ledger!Unedited(tx.of)
    BY <1>2, <1>3 DEF Ledger!Unedited, Ledger!Shipped, Shipped
<1>5. recorded' = [n \in Name |-> IF n \in Shipped(tx.of) THEN files[tx.of][n] ELSE recorded[n]]
    BY <1>2, <1>3 DEF Persist
<1>6. \A n \in Shipped(tx.of) : n \in tx.ran \/ n \in effects
    BY <1>3 DEF IInv, Together, Shipped
<1>7. effects' = effects \cup Shipped(tx.of)
    BY <1>2, <1>6 DEF Persist
<1> QED
    BY <1>4, <1>5, <1>7

\* Every step applies a release, fails a job, or stutters.
LEMMA LedgerStep ==
    ASSUME IInv, [Next]_vars
    PROVE  [Ledger!Next]_<<files, recorded, effects, [j \in Job |-> Outcome(j)]>>
<1> DEFINE outcome == [j \in Job |-> Outcome(j)]
           Goal == [Ledger!Next]_<<files, recorded, effects, outcome>>
<1> SUFFICES Goal
    OBVIOUS
<1>0. pc \in [Job -> {"lock", "read", "visit", "commit", "done", "failed"}]
    BY DEF IInv, TypeOK
<1>1. ASSUME NEW j \in Job, NEW phase \in {"lock", "read", "visit", "commit"},
             pc[j] \notin {"done", "failed"}, pc' = [pc EXCEPT ![j] = phase]
      PROVE  outcome' = outcome
    BY <1>0, <1>1 DEF Outcome
<1>2. ASSUME NEW j \in Job, pc[j] \notin {"done", "failed"}, pc' = [pc EXCEPT ![j] = "failed"],
             UNCHANGED <<files, recorded, effects>>
      PROVE  Goal
  <2>1. outcome' = [outcome EXCEPT ![j] = "failed"] /\ outcome[j] = "pending"
      BY <1>0, <1>2 DEF Outcome
  <2>2. Ledger!Fail(j)
      BY <1>2, <2>1 DEF Ledger!Fail, Outcome
  <2> QED
      BY <2>2 DEF Ledger!Next
<1>3. ASSUME NEW j \in Job, TakeLock(j) \/ ReadApplied(j) \/ AskCommit(j) PROVE Goal
    BY <1>1, <1>3 DEF TakeLock, ReadApplied, AskCommit, Goes
<1>4. ASSUME NEW j \in Job, VisitNext(j) \/ DeadlinePasses(j) PROVE Goal
    BY <1>4 DEF VisitNext, Visit, DeadlinePasses, Outcome
<1>5. ASSUME NEW j \in Job, Refuse(j) PROVE Goal
    BY <1>2, <1>5 DEF Refuse, Ends, Goes
<1>6. ASSUME NEW j \in Job, StatementFails(j) \/ Kill(j) PROVE Goal
    BY <1>1, <1>2, <1>6 DEF StatementFails, Kill, Ends, Goes, Has
<1>7. ASSUME NEW j \in Job, Commit(j) PROVE Goal
  <2>1. tx # None /\ tx.of = j /\ tx.committing
      BY <1>7 DEF Commit, IInv, Holder, Committing, Has
  <2>2. outcome' = [outcome EXCEPT ![j] = "done"] /\ outcome[j] = "pending"
      BY <1>0, <1>7 DEF Commit, Ends, Goes, Outcome
  <2>3. Persist /\ UNCHANGED files
      BY <1>7 DEF Commit
  <2>4. Ledger!Apply(j)
      BY <2>1, <2>2, <2>3, PersistApplies DEF Ledger!Apply, Ledger!Shipped, Shipped, Outcome
  <2> QED
      BY <2>4 DEF Ledger!Next
<1>8. CASE SessionEnds
  <2>1. outcome' = outcome /\ UNCHANGED files
      BY <1>8 DEF SessionEnds, Outcome
  <2>2. CASE UNCHANGED <<recorded, effects>>
      BY <2>1, <2>2
  <2>3. CASE tx.committing /\ Persist
    <3>1. tx # None /\ tx.of \in Job
        BY <1>8 DEF SessionEnds, IInv, TypeOK, Transaction
    <3>2. PICK j \in Job : j = tx.of
        BY <3>1
    <3>3. Ledger!Apply(j)
        BY <2>1, <2>3, <3>1, <3>2, PersistApplies DEF Ledger!Apply, Ledger!Shipped, Shipped, Outcome
    <3>4. Ledger!Next
        BY <3>3 DEF Ledger!Next
    <3> QED
        BY <3>4
  <2> QED
      BY <1>8, <2>2, <2>3 DEF SessionEnds
<1>9. CASE UNCHANGED vars
    BY <1>9 DEF vars, Outcome
<1> QED
    BY <1>3, <1>4, <1>5, <1>6, <1>7, <1>8, <1>9 DEF Next, JobStep

\* A release is applied as a whole or not at all, and never over an edited
\* migration ("recorded atomically", migrations/README.md).
THEOREM MigrationRefines == Spec => LedgerSpec
<1>1. Init => Ledger!Init
    BY DEF Init, Ledger!Init, Rows, NoRows, Outcome
<1>2. IInv /\ [Next]_vars => [Ledger!Next]_<<files, recorded, effects, [j \in Job |-> Outcome(j)]>>
    BY LedgerStep
<1> QED
    BY <1>1, <1>2, MigrationInvariant, PTL DEF Spec, LedgerSpec, Ledger!Spec, Ledger!vars, Outcome
=============================================================================
