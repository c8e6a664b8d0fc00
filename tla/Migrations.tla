------------------------------ MODULE Migrations ------------------------------
(***************************************************************************)
(* The schema migrations of the control-plane database: every process that *)
(* opens the store takes the migration lock and runs the same list of      *)
(* autocommitted statements, any of which may be the last one before a     *)
(* crash.  A version that was applied and not recorded is applied again.   *)
(*                                                                         *)
(* The list is the SQLite store's; the MySQL and PostgreSQL stores run     *)
(* lists of their own under the same kind of lock.                         *)
(* The 23 versions are represented by one per kind: a plain column, the    *)
(* pipeline id with its backfill and change of primary key, the three      *)
(* lifecycle columns, and a table.  The lock is a lease in SQLite and a    *)
(* session lock elsewhere: it outlives a crash until it expires, and a     *)
(* migration that is alive keeps it (the lease is two minutes).            *)
(***************************************************************************)
EXTENDS Integers, Sequences, FiniteSets

CONSTANTS
    Procs,      \* processes that open the store
    Pipes,      \* pipelines, by name
    Releases    \* databases an earlier release left: [upto, half, pk, faults, crashes, work]

VARIABLES
    rel,        \* the database the processes found
    db,         \* [made, cols, pk, recorded, rows]
    lock,       \* the owner of the migration lock, or Nobody
    mig,        \* [Procs -> [at, i]]
    mwork, mfaults, mcrashes

migVars == <<rel, db, lock, mig, mwork, mfaults, mcrashes>>

Nobody == 0
migrations == <<"duration", "id", "desired", "observed", "generation", "contracts">>
Lifecycle == {"desired", "observed", "generation"}
Versions == 1..Len(migrations)

\* A row as the columns that exist show it; "" is the default of a text column.
Row(id, status, desired, observed, gen) ==
    [id |-> id, status |-> status, desired |-> desired, observed |-> observed, gen |-> gen]
Absent == [absent |-> TRUE]
Present == {n \in Pipes : db.rows[n] # Absent}

\* backfillPipelineLifecycle: the states a row of an older release is given.
desiredOf(status) == IF status \in {"stopped", "paused"} THEN status ELSE "running"
observedOf(status) ==
    IF status \in {"running", "scheduled", "stopped", "paused", "failed", "completed", "restore_failed"}
      THEN status ELSE "stopped"

\* What the release left: its columns, and one more when an ALTER was not recorded.
ColsOf(r) == {migrations[i] : i \in 1..(r.upto + r.half)}
                \cup (IF r.pk = "id" THEN {"id"} \cup Lifecycle ELSE {})
OldRow(n, r) ==
    IF r.upto = Len(migrations)
      THEN Row(TRUE, "running", "paused", "running", 2)
      ELSE Row(r.upto >= 2, IF n = 1 THEN "stopped" ELSE "odd", "", "", 0)

MigInit ==
    /\ rel \in Releases
    /\ db = [made |-> rel.upto > 0,
             cols |-> IF rel.upto > 0 THEN ColsOf(rel) ELSE {},
             pk |-> rel.pk, recorded |-> 1..rel.upto,
             rows |-> [n \in Pipes |-> IF rel.upto > 0 THEN OldRow(n, rel) ELSE Absent]]
    /\ lock = Nobody
    /\ mig = [p \in Procs |-> [at |-> "out", i |-> 0]]
    /\ mwork = 0 /\ mfaults = 0 /\ mcrashes = 0

Goto(p, at) == mig' = [mig EXCEPT ![p].at = at]
Fixed == UNCHANGED <<rel, mwork, mfaults, mcrashes>>
Idle == {"out", "failed", "done"}

\* The lock is claimed when nobody holds it.
WithMigrationLock(p) ==
    /\ mig[p].at = "out" /\ lock = Nobody
    /\ lock' = p
    /\ mig' = [mig EXCEPT ![p] = [at |-> "tables", i |-> 1]]
    /\ UNCHANGED db /\ Fixed

\* A waiting process gives up after 30 seconds.
LockTimesOut(p) ==
    /\ mig[p].at = "out" /\ lock \notin {Nobody, p}
    /\ Goto(p, "failed")
    /\ UNCHANGED <<db, lock>> /\ Fixed

\* CREATE TABLE IF NOT EXISTS: a new database has the columns of today except
\* those only a version adds.
migrateUnlocked(p) ==
    /\ mig[p].at = "tables"
    /\ db' = IF db.made THEN db
             ELSE [db EXCEPT !.made = TRUE, !.cols = {"id"} \cup Lifecycle, !.pk = "id"]
    /\ Goto(p, "check")
    /\ UNCHANGED lock /\ Fixed

checkVersion(p) ==
    /\ mig[p].at = "check"
    /\ mig' = [mig EXCEPT ![p] =
         IF @.i > Len(migrations) THEN [@ EXCEPT !.at = "ids"]
         ELSE IF @.i \in db.recorded THEN [@ EXCEPT !.i = @ + 1]
         ELSE [@ EXCEPT !.at = "alter"]]
    /\ UNCHANGED <<db, lock>> /\ Fixed

\* A duplicate column counts as applied.
applyVersion(p) ==
    /\ mig[p].at = "alter"
    /\ db' = [db EXCEPT !.cols = @ \cup {migrations[mig[p].i]}]
    /\ Goto(p, IF migrations[mig[p].i] = "id" THEN "ids" ELSE "record")
    /\ UNCHANGED lock /\ Fixed

\* One row at a time; it runs inside version "id" and again at the end.
NoId == {n \in Present : ~db.rows[n].id}
backfillPipelineIDs(p) ==
    /\ mig[p].at = "ids"
    /\ IF NoId # {} /\ "id" \in db.cols
         THEN /\ \E n \in NoId : db' = [db EXCEPT !.rows[n].id = TRUE]
              /\ UNCHANGED mig
         ELSE Goto(p, "pk") /\ UNCHANGED db
    /\ UNCHANGED lock /\ Fixed

InVersion(p) == mig[p].i <= Len(migrations)
AfterKey(p) == IF InVersion(p) THEN "record" ELSE "desired"

\* The key is inspected first; the new table replaces the old one in one transaction.
inspectPrimaryKey(p) ==
    /\ mig[p].at = "pk"
    /\ Goto(p, IF db.pk = "name" THEN "copy" ELSE AfterKey(p))
    /\ UNCHANGED <<db, lock>> /\ Fixed

migratePipelinePrimaryKey(p) ==
    /\ mig[p].at = "copy"
    /\ db' = [db EXCEPT !.pk = "id",
                        !.cols = @ \cup Lifecycle \cup {"id"},
                        !.rows = [n \in Pipes |->
                            IF db.rows[n] = Absent THEN Absent
                            ELSE [db.rows[n] EXCEPT !.desired = "", !.observed = "", !.gen = 0]]]
    /\ Goto(p, AfterKey(p))
    /\ UNCHANGED lock /\ Fixed

\* The version is recorded last; a second record of it is a key conflict.
recordVersion(p) ==
    /\ mig[p].at = "record"
    /\ IF mig[p].i \in db.recorded
         THEN Goto(p, "failed") /\ lock' = Nobody /\ UNCHANGED db
         ELSE /\ db' = [db EXCEPT !.recorded = @ \cup {mig[p].i}]
              /\ mig' = [mig EXCEPT ![p] = [at |-> "check", i |-> mig[p].i + 1]]
              /\ UNCHANGED lock
    /\ Fixed

\* Only empty states are filled in.
Filled(s, from) == IF s = "" THEN from ELSE s
backfillDesired(p) ==
    /\ mig[p].at = "desired"
    /\ db' = [db EXCEPT !.rows = [n \in Pipes |->
                 IF db.rows[n] = Absent THEN Absent
                 ELSE [db.rows[n] EXCEPT !.desired = Filled(@, desiredOf(db.rows[n].status))]]]
    /\ Goto(p, "observed")
    /\ UNCHANGED lock /\ Fixed

backfillObserved(p) ==
    /\ mig[p].at = "observed"
    /\ db' = [db EXCEPT !.rows = [n \in Pipes |->
                 IF db.rows[n] = Absent THEN Absent
                 ELSE [db.rows[n] EXCEPT !.observed = Filled(@, observedOf(db.rows[n].status))]]]
    /\ Goto(p, "done")
    /\ lock' = Nobody
    /\ Fixed

-----------------------------------------------------------------------------
\* A statement fails: the open of the store fails and the lock is released.
StatementFails(p) ==
    /\ mig[p].at \notin Idle
    /\ mfaults < rel.faults
    /\ mfaults' = mfaults + 1
    /\ Goto(p, "failed")
    /\ lock' = Nobody
    /\ UNCHANGED <<rel, db, mwork, mcrashes>>

Crash(p) ==
    /\ mig[p].at \notin {"out", "failed"}
    /\ mcrashes < rel.crashes
    /\ mcrashes' = mcrashes + 1
    /\ Goto(p, "out")
    /\ UNCHANGED <<rel, db, lock, mwork, mfaults>>

\* The supervisor starts a process again that could not open the store.
Restart(p) ==
    /\ mig[p].at = "failed"
    /\ Goto(p, "out")
    /\ UNCHANGED <<db, lock>> /\ Fixed

\* The lease of a crashed owner runs out.
LeaseExpires ==
    /\ lock # Nobody
    /\ mig[lock].at = "out"
    /\ lock' = Nobody
    /\ UNCHANGED <<db, mig>> /\ Fixed

\* A process that has opened the store serves: it creates pipelines, starts
\* generations and records what the operator wants.
Serve(p) ==
    /\ mig[p].at = "done"
    /\ mwork < rel.work /\ mwork' = mwork + 1
    /\ \E n \in Pipes :
         db' = [db EXCEPT !.rows[n] =
                  IF @ = Absent THEN Row(TRUE, "running", "running", "stopped", 0)
                  ELSE [@ EXCEPT !.gen = @ + 1, !.desired = "paused"]]
    /\ UNCHANGED <<rel, lock, mig, mfaults, mcrashes>>

MigStep(p) ==
    \/ WithMigrationLock(p)
    \/ migrateUnlocked(p)
    \/ checkVersion(p)
    \/ applyVersion(p)
    \/ backfillPipelineIDs(p)
    \/ inspectPrimaryKey(p)
    \/ migratePipelinePrimaryKey(p)
    \/ recordVersion(p)
    \/ backfillDesired(p)
    \/ backfillObserved(p)
    \/ Restart(p)

MigNext ==
    \/ \E p \in Procs : MigStep(p) \/ LockTimesOut(p) \/ StatementFails(p) \/ Crash(p) \/ Serve(p)
    \/ LeaseExpires

-----------------------------------------------------------------------------
(* Properties *)

\* A process that opened the store finds every column, every version
\* recorded, and each pipeline with an id and both lifecycle states, whatever
\* release wrote the database and wherever earlier attempts were interrupted.
MigratedIsComplete ==
    (\E p \in Procs : mig[p].at = "done") =>
        /\ db.recorded = Versions
        /\ db.cols = {migrations[i] : i \in Versions}
        /\ db.pk = "id"
        /\ \A n \in Present : db.rows[n].id /\ db.rows[n].desired # "" /\ db.rows[n].observed # ""

\* A migration never loses a pipeline, lowers its generation (checkpoints are
\* fenced by it) or replaces a desired state that was already recorded, also
\* when it runs while another process serves.
MigrationKeepsRows ==
    \A n \in Pipes :
        db.rows[n] # Absent =>
            /\ db'.rows[n] # Absent
            /\ db'.rows[n].gen >= db.rows[n].gen
            /\ db'.rows[n].desired = db.rows[n].desired \/ db.rows[n].desired = "" \/ mwork' # mwork

\* Every process opens the store in the end: an interrupted migration can
\* always be run again, and its lock does not stay behind.
AllOpen == \A p \in Procs : mig[p].at = "done"
=============================================================================
