----------------------------- MODULE MCPlatform -----------------------------
(***************************************************************************)
(* The services around the pipelines, one of which each behaviour runs:     *)
(* dead letters and their replay, the identity contract of a record, the    *)
(* secrets at rest, the schema migrations, backup and restore.  focus says  *)
(* which; the variables of the others keep the value None.                  *)
(***************************************************************************)
EXTENDS Integers, Sequences

VARIABLES
    focus, sample,
    dconf, letters, top, reqs, sent, keys, acked, gone, jan, cutoff, backlog, dwork, dfaults, dcrashes,
    vconf, ring, up, conns, setting, spec, history, shown, client, job, clean, stale, vwork, vfaults, vcrashes,
    rel, db, lock, mig, mwork, mfaults, mcrashes,
    plan, rows, registry, files, published, export, restore, before, gens, bwork, bfaults, bcrashes

dlqVars == <<dconf, letters, top, reqs, sent, keys, acked, gone, jan, cutoff, backlog, dwork, dfaults, dcrashes>>
vaultVars == <<vconf, ring, up, conns, setting, spec, history, shown, client, job, clean, stale, vwork, vfaults, vcrashes>>
migVars == <<rel, db, lock, mig, mwork, mfaults, mcrashes>>
backupVars == <<plan, rows, registry, files, published, export, restore, before, gens, bwork, bfaults, bcrashes>>
vars == <<focus, sample, dlqVars, vaultVars, migVars, backupVars>>

None == "none"
IsDLQ == focus = "dlq"
IsRecord == focus = "record"
IsVault == focus = "vault"
IsMig == focus = "migration"
IsBackup == focus = "backup"

-----------------------------------------------------------------------------
(* Dead letters.  A row image lists two columns; -1 is no column, 0 is an   *)
(* empty value, 9 a blank column name.                                      *)

Key(kind, image) == [kind |-> kind, image |-> image]
NoKey == Key("none", <<-1, -1>>)
Rec(op, decl, key, data, old, fmt, bstate) ==
    [op |-> op, decl |-> decl, key |-> key, data |-> data, before |-> old, fmt |-> fmt, bstate |-> bstate, prov |-> ""]
Ctx(pk, fmt, bstate, prov, rstate) == [pk |-> pk, fmt |-> fmt, bstate |-> bstate, prov |-> prov, rstate |-> rstate]
Fresh(rec) == [rec |-> rec, ctx |-> Ctx(rec.decl, rec.fmt, rec.bstate, "normal_flow", "pending"), node |-> "sink"]
Legacy(rec) == [rec |-> rec, ctx |-> Ctx(<<>>, "none", "", "", ""), node |-> ""]

Plain == Fresh(Rec("insert", <<1>>, Key("object", <<1, -1>>), <<1, 2>>, <<-1, -1>>, "envelope", "absent"))
Moved == Fresh(Rec("update", <<1>>, NoKey, <<2, 1>>, <<1, -1>>, "canal", "partial"))
Bare == [Fresh(Rec("insert", <<>>, NoKey, <<1, 2>>, <<-1, -1>>, "none", "absent")) EXCEPT !.node = "transform"]
Old == Legacy(Rec("update", <<1>>, NoKey, <<1, 2>>, <<1, 1>>, "none", "full"))
OldMoved == Legacy(Rec("update", <<1>>, NoKey, <<2, 2>>, <<1, 1>>, "none", "full"))

Dead(shapes, dag, meta, static, serial, ttl, max, work, faults, crashes) ==
    [shapes |-> shapes, dag |-> dag, meta |-> meta, static |-> static, serial |-> serial, ttl |-> ttl,
     max |-> max, batch |-> 1, work |-> work, faults |-> faults, crashes |-> crashes]
NoCap == <<0, 0, 0>>

DLQ == INSTANCE DLQReplay WITH
    Columns <- {1, 2}, Absent <- -1, Empty <- 0, Blank <- 9,
    Letters <- 1..3, Requests <- {1, 2}, Confirmed <- {<<1>>, <<2>>}, HardCap <- 2, DagSinks <- {1, 2},
    Scenarios <- {
        Dead({Plain}, FALSE, TRUE, <<>>, FALSE, FALSE, NoCap, 3, 2, 0),
        Dead({Plain, Moved}, FALSE, TRUE, <<>>, TRUE, FALSE, NoCap, 3, 1, 1),
        Dead({Old, OldMoved}, FALSE, TRUE, <<1>>, TRUE, FALSE, NoCap, 3, 1, 0),
        Dead({Old, Bare}, FALSE, TRUE, <<2>>, FALSE, FALSE, NoCap, 3, 0, 0),
        Dead({Plain}, FALSE, FALSE, <<>>, TRUE, TRUE, <<0, 1, 2>>, 3, 0, 0),
        Dead({Plain}, FALSE, FALSE, <<>>, TRUE, FALSE, <<0, 0, 5>>, 1, 1, 0),
        Dead({Plain, Bare, Old}, TRUE, FALSE, <<>>, TRUE, FALSE, NoCap, 2, 2, 1)}

-----------------------------------------------------------------------------
(* Every record over small images, with the two kinds of proof a replay may  *)
(* rest on.                                                                  *)

Images(vs) == {<<a, b>> : a, b \in vs}
Keys == {NoKey, Key("invalid", <<-1, -1>>), Key("scalar", <<-1, -1>>)}
            \cup {Key("object", i) : i \in Images({-1, 0, 1, 2})}

SampleInit ==
    \E op \in {"insert", "update", "ddl"}, key \in Keys,
       data \in Images({-1, 1, 2}), old \in Images({-1, 1, 2}) \cup {<<0, 1>>},
       fmt \in {"canal", "envelope", "none"}, prov \in {"normal_flow", "legacy_verified"} :
    \E decl \in {<<1>>, <<2, 1>>} \cup (IF key = NoKey THEN {<<>>, <<1, 1>>, <<9>>} ELSE {}),
       bstate \in {"absent"} \cup (IF fmt = "canal" THEN {"partial"} ELSE {}) :
        sample = [rec |-> Rec(op, decl, key, data, old, fmt, bstate),
                  ctx |-> Ctx(decl, fmt, bstate, prov, "pending")]

-----------------------------------------------------------------------------
(* Secrets: two keys, 0 for no key; two connections, steps of a pipeline.    *)

Ring(c, p) == [current |-> c, prev |-> p]
Cell(f, k, t) == [form |-> f, key |-> k, text |-> t]
Nothing == Cell("none", 0, 0)
Step(i, x) == [id |-> i, secret |-> x]
Steps == <<Step(1, 1), Step(2, 2)>>
Vault(cs, st, body, dag, rings, jobs, serial, work, faults, crashes) ==
    [conns |-> cs, setting |-> st, body |-> body, dag |-> dag, rings |-> rings, jobs |-> jobs,
     serial |-> serial, work |-> work, faults |-> faults, crashes |-> crashes]

Vaults == INSTANCE Secrets WITH
    Names <- {1, 2}, Texts <- {1, 2}, Clients <- {1, 2},
    Forms <- {<<Step(2, -1), Step(1, -1)>>, <<Step(1, -1), Step(2, 1)>>, <<Step(3, -1), Step(2, -1)>>,
              <<Step(1, -1)>>, <<Step(1, -1), Step(2, -1), Step(3, -1)>>},
    Vaults <- {
        Vault({Nothing, Cell("plain", 0, 1), Cell("env", 1, 1)}, {Cell("legacy", 1, 2)}, <<>>, FALSE,
              {Ring(2, {1})}, {"reencrypt"}, FALSE, 2, 1, 0),
        Vault({Cell("plain", 0, 1), Cell("env", 1, 1), Cell("damaged", 1, 1)}, {Cell("plain", 0, 2)}, <<>>, FALSE,
              {Ring(1, {}), Ring(2, {1}), Ring(0, {})}, {"reencrypt", "remediate"}, TRUE, 3, 1, 1),
        Vault({Cell("plain", 0, 1), Nothing}, {Cell("plain", 0, 2)}, <<>>, FALSE,
              {Ring(1, {})}, {"remediate"}, FALSE, 2, 0, 1),
        Vault({Nothing, Cell("env", 1, 2)}, {Cell("env", 1, 2), Nothing}, <<>>, FALSE,
              {Ring(1, {})}, {}, TRUE, 3, 0, 0),
        Vault({Nothing}, {Nothing}, Steps, TRUE,
              {Ring(1, {}), Ring(2, {1}), Ring(2, {}), Ring(0, {})}, {}, TRUE, 4, 0, 1),
        Vault({Nothing}, {Nothing}, Steps, FALSE,
              {Ring(1, {}), Ring(2, {1}), Ring(2, {})}, {}, TRUE, 4, 0, 1)}

-----------------------------------------------------------------------------
(* Databases of earlier releases, one with a version applied and not         *)
(* recorded for each way of being interrupted.                               *)

Release(upto, half, pk, faults, crashes, work) ==
    [upto |-> upto, half |-> half, pk |-> pk, faults |-> faults, crashes |-> crashes, work |-> work]

Migration == INSTANCE Migrations WITH
    Procs <- {1, 2}, Pipes <- {1, 2},
    Releases <- {Release(u, h, "name", 1, 2, 1) : u \in {1, 2}, h \in {0, 1}}
                  \cup {Release(0, 0, "id", 1, 2, 2), Release(4, 0, "id", 1, 2, 1),
                        Release(3, 1, "id", 0, 2, 1), Release(6, 0, "id", 1, 1, 1)}

-----------------------------------------------------------------------------
(* Backups of a database with up to three rows and two plugins.              *)

Snapshot(r, p, a, v) == [rows |-> r, plugins |-> p, artifacts |-> a, format |-> v]
NoSnapshot == [none |-> TRUE]
Plan(r, p, f, snap, clear, writers, work, faults, crashes) ==
    [rows |-> r, plugins |-> p, files |-> f, snap |-> snap, clear |-> clear, writers |-> writers,
     work |-> work, faults |-> faults, crashes |-> crashes]

Backup == INSTANCE BackupRestore WITH
    Rows <- {1, 2, 3}, Plugins <- {1, 2},
    Plans <- {
        Plan({1, 2}, {1, 2}, {1, 2}, NoSnapshot, TRUE, FALSE, 3, 2, 1),
        Plan({1, 2}, {1}, {1, 2}, Snapshot({2, 3}, {1, 2}, {}, 1), TRUE, FALSE, 2, 2, 1),
        Plan({1, 2}, {1}, {1}, Snapshot({3}, {2}, {2}, 2), TRUE, FALSE, 3, 2, 2),
        Plan({1, 2}, {1}, {1}, Snapshot({3}, {2}, {2}, 2), FALSE, FALSE, 3, 2, 2),
        Plan({1, 2}, {1}, {1}, NoSnapshot, TRUE, TRUE, 4, 0, 0),
        Plan({1, 2}, {1}, {1}, NoSnapshot, TRUE, TRUE, 3, 1, 1),
        Plan({1}, {1, 2}, {1}, Snapshot({1}, {1}, {1}, 2), TRUE, FALSE, 2, 1, 0)}

-----------------------------------------------------------------------------
NoDLQ ==
    /\ dconf = None /\ letters = None /\ top = None /\ reqs = None /\ sent = None /\ keys = None /\ acked = None
    /\ gone = None /\ jan = None /\ cutoff = None /\ backlog = None /\ dwork = None /\ dfaults = None /\ dcrashes = None
NoVault ==
    /\ vconf = None /\ ring = None /\ up = None /\ conns = None /\ setting = None /\ spec = None /\ history = None
    /\ shown = None /\ client = None /\ job = None /\ clean = None /\ stale = None /\ vwork = None /\ vfaults = None /\ vcrashes = None
NoMigration ==
    /\ rel = None /\ db = None /\ lock = None /\ mig = None /\ mwork = None /\ mfaults = None /\ mcrashes = None
NoBackup ==
    /\ plan = None /\ rows = None /\ registry = None /\ files = None /\ published = None /\ export = None
    /\ restore = None /\ before = None /\ gens = None /\ bwork = None /\ bfaults = None /\ bcrashes = None

Init ==
    \/ focus = "dlq" /\ DLQ!DLQInit /\ sample = None /\ NoVault /\ NoMigration /\ NoBackup
    \/ focus = "record" /\ SampleInit /\ NoDLQ /\ NoVault /\ NoMigration /\ NoBackup
    \/ focus = "vault" /\ Vaults!VaultInit /\ sample = None /\ NoDLQ /\ NoMigration /\ NoBackup
    \/ focus = "migration" /\ Migration!MigInit /\ sample = None /\ NoDLQ /\ NoVault /\ NoBackup
    \/ focus = "backup" /\ Backup!BackupInit /\ sample = None /\ NoDLQ /\ NoVault /\ NoMigration

OfDLQ(A) == IsDLQ /\ A /\ UNCHANGED <<focus, sample, vaultVars, migVars, backupVars>>
OfMigration(A) == IsMig /\ A /\ UNCHANGED <<focus, sample, dlqVars, vaultVars, backupVars>>

Next ==
    \/ OfDLQ(DLQ!DLQNext)
    \/ IsVault /\ Vaults!VaultNext /\ UNCHANGED <<focus, sample, dlqVars, migVars, backupVars>>
    \/ OfMigration(Migration!MigNext)
    \/ IsBackup /\ Backup!BackupNext /\ UNCHANGED <<focus, sample, dlqVars, vaultVars, migVars>>

\* The janitor's ticker and the migrating processes keep running.
Fairness ==
    /\ WF_vars(OfDLQ(DLQ!Janitor))
    /\ \A p \in {1, 2} : WF_vars(OfMigration(Migration!MigStep(p)))
    /\ WF_vars(OfMigration(Migration!LeaseExpires))

Spec == Init /\ [][Next]_vars /\ Fairness

-----------------------------------------------------------------------------

\* A dead letter leaves the table only because the sinks have it or because somebody
\* removed it, an acknowledgement stands for a write, and "the next replay request
\* observes sink_acked and only completes cleanup" (dlq_replay_identity.go:140-142):
\* across failed deletes, failed updates, repairs and crashes, the last as long as
\* requests come one after the other.  Replay "never derives historical key semantics
\* from the current source configuration": each key sent is the key of the changed
\* row as the dead-lettered row tells it, and "a primary-key change cannot
\* accidentally target the new row": a complete identity names the old row, the
\* facts frozen with a dead letter reconstruct it, and a reconstruction never
\* guesses (RecordIdentity, NewDLQIdentityContext, ReconstructDLQRecordIdentity).
DeadLettersAreDelivered ==
    /\ IsDLQ =>
        /\ DLQ!NextReplayOnlyCleans
        /\ DLQ!LettersLeaveDelivered
        /\ DLQ!AckedWasWritten
        /\ DLQ!SentKeysAreOriginal
    /\ IsRecord =>
        /\ DLQ!CompleteNamesTheOldRow(sample.rec)
        /\ DLQ!FrozenFactsSuffice(sample.rec)
        /\ DLQ!ReconstructionIsProven(sample.rec, sample.ctx)


\* The store is whole.  A process that opened it finds every column and version and
\* each pipeline with an id and both states, wherever earlier attempts were
\* interrupted.  While nobody else writes a restore is all or nothing, at every
\* moment and after a crash or an unknown outcome; one that cleared the tables
\* matches the snapshot; every plugin row names a file that exists.
StoreIsWhole ==
    /\ IsMig => Migration!MigratedIsComplete
    /\ IsBackup =>
        /\ Backup!PluginRowsHaveFiles
        /\ Backup!RestoreIsAllOrNothing
        /\ Backup!RestoredInventoryMatches

\* What requests and maintenance never do.  An echoed mask keeps the stored secret
\* unless another wrote the row after the request had read it, and a pass changes the
\* secret of a row only if a request wrote it after the pass had read it (no lock is
\* held in between, and neither row has a version).  A masked form keeps the secret of
\* a DAG node wherever it moves the node and of a linear transform that keeps its
\* position (saveConnection, handleSettings, ReencryptSecrets, preserveDAGSpecSecrets,
\* preserveLinearSpecSecrets).  A migration loses no pipeline, lowers no generation
\* and replaces no recorded desired state; an export replaces the backup only by what
\* is committed at that moment; the janitor never deletes a dead letter and keeps an
\* older one.
MaintenanceLosesNothing ==
    [][/\ IsVault => Vaults!EchoKeepsSecret /\ Vaults!StepsKeepTheirSecrets /\ Vaults!PassKeepsSecrets
       /\ IsMig => Migration!MigrationKeepsRows
       /\ IsBackup => Backup!ExportIsExact
       /\ IsDLQ => DLQ!PurgeOldestFirst]_vars

\* Maintenance gets done: every process opens the store in the end, an interrupted
\* migration can be run again and its lock does not stay behind; and with finitely
\* many new rows the dead letters shrink to the configured number.
MaintenanceGetsDone == <>[](IsMig => Migration!AllOpen) /\ <>[](IsDLQ => DLQ!CapIsWithin)
=============================================================================
