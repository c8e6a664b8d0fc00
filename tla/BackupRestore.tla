---------------------------- MODULE BackupRestore ----------------------------
(***************************************************************************)
(* Portable backups of the control plane (storage/backup): the export      *)
(* pages through each table, checks the inventory and publishes the file   *)
(* by a rename; the restore stages plugin files in a fresh directory and   *)
(* then replaces the rows of every covered table in one transaction.       *)
(*                                                                         *)
(* Two tables stand for the eleven: rows without and rows with a file on   *)
(* disk.  A file is [name, gen]: generation 0 is the installed file, each  *)
(* restore writes a generation of its own.                                 *)
(***************************************************************************)
EXTENDS Integers, FiniteSets
LOCAL INSTANCE FiniteSetsExt

CONSTANTS
    Rows,       \* keys of plain rows
    Plugins,    \* plugin names
    Plans       \* scenarios: [rows, plugins, files, snap, clear, writers, work, faults, crashes]

VARIABLES
    plan,       \* the scenario
    rows,       \* committed plain rows
    registry,   \* committed plugin rows: a set of [name, file]
    files,      \* files on disk
    published,  \* the backup file: a snapshot, or None
    export,     \* the export in progress
    restore,    \* the restore in progress
    before,     \* what was committed when the last restore began, and how it ended
    gens,       \* directories handed out by MkdirTemp
    bwork, bfaults, bcrashes

backupVars == <<plan, rows, registry, files, published, export, restore, before, gens, bwork, bfaults, bcrashes>>

None == [none |-> TRUE]
Off == [at |-> "off"]
File(n, g) == [name |-> n, gen |-> g]
NamesOf(entries) == {e.name : e \in entries}
CountObjects == [rows |-> Cardinality(rows), plugins |-> Cardinality(registry)]

BackupInit ==
    /\ plan \in Plans
    /\ rows = plan.rows
    /\ registry = {[name |-> n, file |-> File(n, 0)] : n \in plan.plugins}
    /\ files = {File(n, 0) : n \in plan.files}
    /\ published = plan.snap
    /\ export = Off
    /\ restore = Off
    /\ before = None
    /\ gens = 0
    /\ bwork = 0 /\ bfaults = 0 /\ bcrashes = 0

Call(ok) ==
    \/ ok /\ UNCHANGED bfaults
    \/ ~ok /\ bfaults < plan.faults /\ bfaults' = bfaults + 1
Alone == export = Off /\ restore = Off
DBUnchanged == UNCHANGED <<rows, registry>>
Start == bwork < plan.work /\ bwork' = bwork + 1

-----------------------------------------------------------------------------
(* Export *)

\* The inventory is taken first.  "writes" counts what other writers did since.
ExportJSON ==
    /\ Alone
    /\ Start
    /\ \E ok \in BOOLEAN :
         /\ Call(ok)
         /\ export' = IF ok THEN [at |-> "rows", want |-> CountObjects, after |-> 0, writes |-> 0,
                                  rows |-> {}, plugins |-> {}, artifacts |-> {}]
                            ELSE Off
    /\ DBUnchanged
    /\ UNCHANGED <<plan, files, published, restore, before, gens, bcrashes>>

ExportOnly == DBUnchanged /\ UNCHANGED <<plan, files, published, restore, before, gens, bwork, bcrashes>>

\* One page of one row: strictly after the cursor, in key order.
ReadBackupPage(from, after) == {k \in from : k > after /\ \A j \in from : j > after => k <= j}

walkBackupPages ==
    /\ export.at = "rows"
    /\ \E ok \in BOOLEAN :
         /\ Call(ok)
         /\ LET page == ReadBackupPage(rows, export.after)
            IN  export' = IF ~ok THEN Off
                          ELSE IF page = {} THEN [export EXCEPT !.at = "plugins"]
                          ELSE [export EXCEPT !.rows = @ \cup page, !.after = Max(page)]
    /\ ExportOnly

exportPlugins ==
    /\ export.at = "plugins"
    /\ export' = [export EXCEPT !.plugins = registry, !.at = "artifacts"]
    /\ UNCHANGED bfaults /\ ExportOnly

\* The registry is walked a second time for the files; a missing one fails the export.
exportArtifact ==
    /\ export.at = "artifacts"
    /\ export' = IF \A e \in registry : e.file \in files
                   THEN [export EXCEPT !.artifacts = NamesOf(registry), !.at = "inventory"]
                   ELSE Off
    /\ UNCHANGED bfaults /\ ExportOnly

Exported == [rows |-> Cardinality(export.rows), plugins |-> Cardinality(export.plugins)]
finalInventory ==
    /\ Exported = export.want
    /\ Exported = CountObjects
    /\ Cardinality(export.artifacts) = Exported.plugins

Document == [rows |-> export.rows, plugins |-> NamesOf(export.plugins),
             artifacts |-> export.artifacts, format |-> 2]

\* The destination is replaced only by a complete document; the directory's
\* fsync may still fail after the rename.
writeAtomicFile ==
    /\ export.at = "inventory"
    /\ \E ok, renamed \in BOOLEAN :
         /\ Call(ok)
         /\ ok => renamed
         /\ published' = IF renamed /\ finalInventory THEN Document ELSE published
    /\ export' = Off
    /\ DBUnchanged
    /\ UNCHANGED <<plan, files, restore, before, gens, bwork, bcrashes>>

\* A writer that was not stopped.
Write ==
    /\ plan.writers /\ restore = Off
    /\ Start
    /\ export' = IF export = Off THEN Off ELSE [export EXCEPT !.writes = @ + 1]
    /\ \/ \E k \in Rows : /\ rows' = IF k \in rows THEN rows \ {k} ELSE rows \cup {k}
                          /\ UNCHANGED <<registry, files>>
       \/ \E n \in Plugins \ NamesOf(registry) :
             /\ registry' = registry \cup {[name |-> n, file |-> File(n, 0)]}
             /\ files' = files \cup {File(n, 0)}
             /\ UNCHANGED rows
       \/ \E e \in registry :
             /\ registry' = registry \ {e}
             /\ files' = files \ {e.file}
             /\ UNCHANGED rows
    /\ UNCHANGED <<plan, published, restore, before, gens, bfaults, bcrashes>>

-----------------------------------------------------------------------------
(* Restore *)

\* The bytes of a plugin: in the snapshot, or for a version 1 snapshot on disk.
payload(n) == n \in published.artifacts \/ (published.format = 1 /\ File(n, 0) \in files)

\* Everything is decoded and validated before a file is created.
Restore ==
    /\ Alone /\ published # None
    /\ Start
    /\ published.artifacts \subseteq published.plugins
    /\ \A n \in published.plugins : payload(n)
    /\ gens' = IF published.plugins = {} THEN gens ELSE gens + 1
    /\ restore' = [at |-> "stage", gen |-> gens + 1, todo |-> published.plugins,
                   rows |-> rows, registry |-> registry]
    /\ before' = [rows |-> rows, registry |-> registry, outcome |-> "running"]
    /\ DBUnchanged
    /\ UNCHANGED <<plan, files, published, export, bfaults, bcrashes>>

RestoreOnly == UNCHANGED <<plan, published, export, gens, bwork, bcrashes>>
Generation(g) == {f \in files : f.gen = g}

\* One file at a time; a failure removes the fresh directory.
stageRestoreArtifacts ==
    /\ restore.at = "stage" /\ restore.todo # {}
    /\ \E ok \in BOOLEAN, n \in restore.todo :
         /\ Call(ok)
         /\ IF ok THEN /\ files' = files \cup {File(n, restore.gen)}
                       /\ restore' = [restore EXCEPT !.todo = @ \ {n}]
                  ELSE /\ files' = files \ Generation(restore.gen)
                       /\ restore' = Off
    /\ DBUnchanged /\ UNCHANGED before /\ RestoreOnly

\* The tables as the transaction sees them after the wipe.
WipeControlPlane == [rows |-> {}, registry |-> {}]

\* The transaction starts; with ClearBeforeRestore it first empties the tables.
beginRestore ==
    /\ restore.at = "stage" /\ restore.todo = {}
    /\ \E ok \in BOOLEAN :
         /\ Call(ok)
         /\ LET kept == IF plan.clear THEN WipeControlPlane
                                      ELSE [rows |-> restore.rows, registry |-> restore.registry]
            IN  restore' = IF ok THEN [restore EXCEPT !.at = "insert", !.todo = published.rows,
                                         !.rows = kept.rows, !.registry = kept.registry]
                                 ELSE Off
    /\ DBUnchanged /\ UNCHANGED <<files, before>> /\ RestoreOnly

\* A plain INSERT: a row that is still there, or a failure, rolls the
\* transaction back; the staged files stay.
restoreAutocommit ==
    /\ restore.at = "insert" /\ restore.todo # {}
    /\ \E ok \in BOOLEAN, k \in restore.todo :
         /\ Call(ok)
         /\ restore' = IF ok /\ k \notin restore.rows THEN [restore EXCEPT !.rows = @ \cup {k}, !.todo = @ \ {k}] ELSE Off
         /\ rows' = IF ok THEN restore.rows \cup {k} ELSE rows
    /\ UNCHANGED <<registry, files, before>> /\ RestoreOnly
restoreTable ==
    /\ restore.at = "insert" /\ restore.todo # {}
    /\ \E ok \in BOOLEAN, k \in restore.todo :
         /\ Call(ok)
         /\ restore' = IF ok /\ k \notin restore.rows THEN [restore EXCEPT !.rows = @ \cup {k}, !.todo = @ \ {k}] ELSE Off
    /\ DBUnchanged /\ UNCHANGED <<files, before>> /\ RestoreOnly

\* The plugin rows point at the staged generation.
WritePluginFidelity ==
    /\ restore.at = "insert" /\ restore.todo = {}
    /\ restore' = IF NamesOf(restore.registry) \cap published.plugins # {} THEN Off
                  ELSE [restore EXCEPT !.at = "commit",
                          !.registry = @ \cup {[name |-> n, file |-> File(n, restore.gen)] : n \in published.plugins}]
    /\ DBUnchanged /\ UNCHANGED <<files, before, bfaults>> /\ RestoreOnly

\* What happens to the staged directory when the transaction reports an error.
retainStaged == files

\* The commit may report an error and still have happened.
WithTx ==
    /\ restore.at = "commit"
    /\ \E ok, landed \in BOOLEAN :
         /\ Call(ok)
         /\ ok => landed
         /\ IF landed THEN rows' = restore.rows /\ registry' = restore.registry ELSE DBUnchanged
         /\ files' = IF ok THEN files ELSE retainStaged
         /\ before' = [before EXCEPT !.outcome = IF ok THEN "ok" ELSE "error"]
    /\ restore' = Off
    /\ RestoreOnly

\* The counts an operator compares after a restore.
CountSnapshot == [rows |-> Cardinality(published.rows), plugins |-> Cardinality(published.plugins)]
Reconcile == CountSnapshot = CountObjects

-----------------------------------------------------------------------------
\* The maintenance process dies: an open transaction is rolled back, a
\* temporary file is never seen as the backup.
Crash ==
    /\ ~Alone
    /\ bcrashes < plan.crashes
    /\ bcrashes' = bcrashes + 1
    /\ export' = Off
    /\ restore' = Off
    /\ DBUnchanged
    /\ UNCHANGED <<plan, files, published, before, gens, bwork, bfaults>>

BackupNext ==
    \/ ExportJSON
    \/ walkBackupPages
    \/ exportPlugins
    \/ exportArtifact
    \/ writeAtomicFile
    \/ Write
    \/ Restore
    \/ stageRestoreArtifacts
    \/ beginRestore
    \/ restoreTable
    \/ WritePluginFidelity
    \/ WithTx
    \/ Crash

-----------------------------------------------------------------------------
(* Properties *)

\* Every plugin row names a file that exists: files are staged before the
\* transaction that refers to them, earlier generations are never touched, and
\* after a commit with an unknown outcome the staged directory is kept.
PluginRowsHaveFiles ==
    plan.plugins \subseteq plan.files => \A e \in registry : e.file \in files

\* While nobody else writes, a restore is all or nothing: at every moment, and
\* after a crash or an error anywhere, the committed rows are those from before
\* the restore or the complete result, never a part of it.
RestoreIsAllOrNothing ==
    before # None /\ ~plan.writers =>
        LET kept(of) == IF plan.clear THEN {} ELSE of
        IN  \/ rows = before.rows /\ registry = before.registry
            \/ /\ rows = kept(before.rows) \cup published.rows
               /\ NamesOf(registry) = kept(NamesOf(before.registry)) \cup published.plugins

\* After a restore that reported success and cleared the tables first, the
\* inventory matches the snapshot (the promise of Options.ClearBeforeRestore).
RestoredInventoryMatches ==
    before # None /\ plan.clear /\ ~plan.writers =>
        (before.outcome = "ok" => Reconcile)

\* An export replaces the backup only by what is committed at that moment, with
\* a file for each plugin: a failed, interrupted or incomplete export leaves the
\* previous file, and a row inserted or deleted meanwhile is noticed.  Only an
\* insertion and a deletion in one window cancel out in the counts.
ExportIsExact ==
    published' # published /\ export.writes < 2 =>
        /\ published'.rows = rows
        /\ published'.plugins = NamesOf(registry)
        /\ published'.artifacts = published'.plugins
=============================================================================
