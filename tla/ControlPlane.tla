---------------------------- MODULE ControlPlane ---------------------------
(***************************************************************************)
(* The pipeline registry of the server: the durable rows, versions and      *)
(* checkpoints of the SQL store, the maps the server keeps in memory, and    *)
(* the scheduler's board.  Handlers create, update, schedule, import, roll   *)
(* back, reload and delete pipelines: each reads the maps, prepares a new    *)
(* runner, saves in one transaction, and only then swaps the maps, the       *)
(* scheduler entry and the runner, one after the other and without holding a *)
(* lock across them.  The process may crash at any point; it then restores   *)
(* its maps from the rows.                                                   *)
(*                                                                          *)
(* How one pipeline starts, stops and fences its checkpoints is Lifecycle's  *)
(* subject; here a runner is only new, running or stopped.                   *)
(***************************************************************************)
EXTENDS Naturals, Sequences, FiniteSets

CONSTANTS
    Ids,          \* instance ids, handed out in order
    Specs,        \* [name, dag, type, table, sched]: the specs clients submit
    Requests,     \* handlers that may be under way
    FileSpec,     \* the spec in the specs directory
    Scenarios     \* [serial, strict, slots, work, faults, crashes]: what a behaviour may see

VARIABLES
    pconf,        \* the scenario: serial, no two requests on one pipeline; strict,
                  \* RestoreStrict; slots, requests at once; and bounds on requests,
                  \* faults and crashes
    rows,         \* pipelines table: id -> [spec, desired, status, prev]
    versions,     \* pipeline_versions: id -> specs, oldest first
    cp,           \* checkpoints: id -> what source it was taken from
    mem,          \* s.pipelines, s.specs, s.dagSpecs: id -> [runner, spec]
    names, refs,  \* s.pipelineNames, s.pipelineNameRefs
    broken,       \* s.restoreFailures
    entries,      \* the scheduler's board
    run,          \* runners, in the order they were built
    req,          \* requests
    boot, todo,   \* how far the start of the process has come
    nextId, was,  \* ids handed out; history: a row's status before restores failed
    going,        \* history: pipelines deleted while a runner of theirs could still save
    work,         \* requests so far
    pfaults, pcrashes

cpVars == <<pconf, rows, versions, cp, mem, names, refs, broken, entries, run, req, boot,
            todo, nextId, was, going, work, pfaults, pcrashes>>

None == [none |-> TRUE]
NoReq == [pc |-> "idle"]
NoRunner == 0
Names == {s.name : s \in Specs \cup {FileSpec}}
source(spec) == [type |-> spec.type, table |-> spec.table]
NewRunner(id, spec) == [st |-> "new", id |-> id, src |-> source(spec)]
isDeferredSchedule(spec) == spec.sched # "none"
Known == {id \in Ids : mem[id] # None}
Visible == {id \in Ids : names[id] # "none"}

\* The process starts on a database that holds one pipeline.
CPInit ==
    /\ pconf \in Scenarios
    /\ \E spec \in Specs, desired \in {"running", "stopped"} :
          /\ rows = [id \in Ids |-> IF id # 1 THEN None ELSE
                        [spec |-> spec, desired |-> desired, prev |-> "none",
                         status |-> IF desired = "running" THEN "active" ELSE "stopped"]]
          /\ versions = [id \in Ids |-> IF id = 1 THEN <<spec>> ELSE <<>>]
          /\ cp = [id \in Ids |-> IF id = 1 /\ desired = "stopped" THEN source(spec) ELSE None]
    /\ mem = [id \in Ids |-> None] /\ names = [id \in Ids |-> "none"] /\ refs = [n \in Names |-> {}]
    /\ broken = {} /\ entries = [id \in Ids |-> NoRunner] /\ run = <<>>
    /\ req = [q \in Requests |-> NoReq]
    /\ boot = "down" /\ todo = {} /\ nextId = 2 /\ was = [id \in Ids |-> "none"] /\ going = {}
    /\ work = 0 /\ pfaults = 0 /\ pcrashes = 0

store == <<rows, versions, cp>>
registry == <<mem, names, refs, broken>>
bounds == <<pconf, nextId, was, going, work, pfaults, pcrashes>>

Fault == pfaults < pconf.faults /\ pfaults' = pfaults + 1
Works == UNCHANGED pfaults

\* ----------------------------- the registry -------------------------------

\* removeNameRefLocked
removeNameRefLocked(rf, name, id) == IF name = "none" THEN rf ELSE [rf EXCEPT ![name] = @ \ {id}]

\* registerPipelineLocked
registerPipelineLocked(id, name, entry) ==
    /\ mem' = [mem EXCEPT ![id] = entry]
    /\ names' = [names EXCEPT ![id] = name]
    /\ refs' = [removeNameRefLocked(refs, names[id], id) EXCEPT ![name] = @ \cup {id}]
    /\ broken' = broken \ {id}

\* An early return leaves the maps as they are.
unregisterNothing(id) == UNCHANGED registry

\* unregisterPipelineLocked
unregisterPipelineLocked(id) ==
    /\ mem' = [mem EXCEPT ![id] = None]
    /\ refs' = removeNameRefLocked(refs, names[id], id)
    /\ names' = [names EXCEPT ![id] = "none"]
    /\ broken' = broken \ {id}

\* registerRestoreFailureLocked
registerRestoreFailureLocked(id, name) ==
    /\ names' = [names EXCEPT ![id] = name]
    /\ refs' = [removeNameRefLocked(refs, names[id], id) EXCEPT ![name] = @ \cup {id}]
    /\ broken' = broken \cup {id}
    /\ UNCHANGED mem

\* resolvePipelineRefLocked for a name: 0 when none or several carry it.
resolvePipelineRefLocked(name) ==
    IF Cardinality(refs[name]) = 1 THEN CHOOSE id \in refs[name] : TRUE ELSE 0

\* ------------------------------- the store --------------------------------

\* NormalizePipelineLifecycle for the labels the handlers save with: a row
\* that is new is meant to run.
NewRow(spec) == [spec |-> spec, desired |-> "running", status |-> "active", prev |-> "none"]

\* PipelineUpsert: an existing row keeps its desired state.
Upsert(id, spec) ==
    IF rows[id] = None THEN NewRow(spec) ELSE [NewRow(spec) EXCEPT !.desired = rows[id].desired]

\* savePipelineWithVersionOnce: row, version and checkpoint in one transaction.
savePipelineWithVersion(id, spec, reset) ==
    /\ reset => Upsert(id, spec).desired = "stopped"
    /\ rows' = [rows EXCEPT ![id] = Upsert(id, spec)]
    /\ versions' = [versions EXCEPT ![id] = Append(@, spec)]
    /\ cp' = IF reset THEN [cp EXCEPT ![id] = None] ELSE cp

\* DeletePipelineWithCheckpoint
DeletePipelineWithCheckpoint(id) ==
    /\ rows' = [rows EXCEPT ![id] = None]
    /\ versions' = [versions EXCEPT ![id] = <<>>]
    /\ cp' = [cp EXCEPT ![id] = None]

\* ------------------------- what a request prepares ------------------------

\* A client asks for something.
Request == work < pconf.work /\ work' = work + 1

\* A handler is admitted.
Admit(q, id) ==
    /\ boot = "up" /\ req[q] = NoReq /\ q <= pconf.slots
    /\ \A p \in Requests : p < q => req[p] # NoReq
    /\ Request
    /\ pconf.serial => \A p \in Requests : req[p] # NoReq => req[p].id # id

\* newRunner, then stageRuntimeSchedule: nothing is visible yet.
Prepare(q, op, id, spec, reset) ==
    /\ run' = Append(run, NewRunner(id, spec))
    /\ req' = [req EXCEPT ![q] = [pc |-> "save", op |-> op, id |-> id, spec |-> spec, reset |-> reset,
                                  cand |-> Len(run) + 1,
                                  old |-> IF mem[id] = None THEN NoRunner ELSE mem[id].runner]]
    /\ nextId' = IF id = nextId THEN nextId + 1 ELSE nextId
    /\ UNCHANGED <<store, registry, entries, boot, todo, pconf, was, going, pfaults, pcrashes>>

NewInstance(q, op, spec) == nextId \in Ids /\ Admit(q, nextId) /\ Prepare(q, op, nextId, spec, FALSE)

createDAG(q, spec) == spec.dag /\ NewInstance(q, "create", spec)

createLinear(q, spec) == ~spec.dag /\ NewInstance(q, "create", spec)

\* SpecChanged looks at the types of source, sink and transforms.
SpecChanged(old, new) == old.type # new.type

\* IsCheckpointIncompatible looks at the table as well.
IsCheckpointIncompatible(old, new) == old.type # new.type \/ old.table # new.table

\* The reset a PUT decides on.
MustReset(id, spec) ==
    /\ mem[id] # None /\ ~mem[id].spec.dag
    /\ SpecChanged(mem[id].spec, spec) /\ IsCheckpointIncompatible(mem[id].spec, spec)

\* The pipeline a PUT is about: named by its id, or by a name that is unique.
Target(spec, id) ==
    LET named == resolvePipelineRefLocked(spec.name)
    IN  id \in Visible \/ id = IF named = 0 THEN nextId ELSE named

updateDAG(q, id, spec, reset) ==
    spec.dag /\ Target(spec, id) /\ Admit(q, id) /\ Prepare(q, "put", id, spec, reset)

updateLinear(q, id, spec, reset) ==
    /\ ~spec.dag /\ Target(spec, id) /\ Admit(q, id)
    /\ Prepare(q, "put", id, spec, reset \/ MustReset(id, spec))

linearVersionRollback(q, id, v) ==
    /\ ~versions[id][v].dag /\ Admit(q, id)
    /\ Prepare(q, "rollback", id, versions[id][v], FALSE)

dagVersionRollback(q, id, v) ==
    /\ versions[id][v].dag /\ Admit(q, id)
    /\ Prepare(q, "rollback", id, versions[id][v], FALSE)

\* handlePipelinesPut, the import's update
handlePipelinesPut(q, id, spec) == Admit(q, id) /\ Prepare(q, "import", id, spec, FALSE)

importDAG(q, spec) ==
    LET id == resolvePipelineRefLocked(spec.name)
    IN  /\ spec.dag
        /\ IF id = 0 THEN NewInstance(q, "import", spec) ELSE Admit(q, id) /\ Prepare(q, "import", id, spec, FALSE)

importLinear(q, spec) ==
    LET id == resolvePipelineRefLocked(spec.name)
    IN  /\ ~spec.dag
        /\ IF id = 0 THEN NewInstance(q, "import", spec) ELSE handlePipelinesPut(q, id, spec)

\* loadSpecs for the file of the specs directory; skipped when the name is
\* known.  It stages no schedule; the hot reloader starts what it loaded.
loadSpecs(q, hot) ==
    /\ refs[FileSpec.name] = {}
    /\ nextId \in Ids /\ Admit(q, nextId)
    /\ Prepare(q, IF hot THEN "hot" ELSE "load", nextId, FileSpec, FALSE)

\* handlePipelineSchedule: a copy of the spec with another schedule; the
\* candidate is the runner that is already there.
setSchedule(q, id, sched) ==
    /\ id \in Known /\ Admit(q, id)
    /\ req' = [req EXCEPT ![q] = [pc |-> "save", op |-> "schedule", id |-> id,
                                  spec |-> [mem[id].spec EXCEPT !.sched = sched], reset |-> FALSE,
                                  cand |-> mem[id].runner, old |-> NoRunner]]
    /\ UNCHANGED <<store, registry, entries, run, boot, todo, pconf, nextId, was, going, pfaults, pcrashes>>

updateSchedule(q, id) == id \in Known /\ mem[id].spec.sched = "none" /\ setSchedule(q, id, "every")

disableSchedule(q, id) == id \in Known /\ mem[id].spec.sched # "none" /\ setSchedule(q, id, "none")

\* handlePipelineDelete
deletePipeline(q, id) ==
    /\ id \in Visible /\ Admit(q, id)
    /\ req' = [req EXCEPT ![q] = [pc |-> "delete", op |-> "delete", id |-> id,
                                  old |-> IF mem[id] = None THEN NoRunner ELSE mem[id].runner]]
    /\ UNCHANGED <<store, registry, entries, run, boot, todo, pconf, nextId, was, going, pfaults, pcrashes>>

\* ------------------------- how a request goes on --------------------------

Step(q, pc) == req[q].pc = pc
Goto(q, pc) == req' = [req EXCEPT ![q].pc = pc]
Answer(q) == req' = [req EXCEPT ![q] = NoReq]

\* A runner that is told to stop is at rest once its last flush is over.
Rest(st) == IF st \in {"running", "stopping"} THEN "stopping" ELSE "stopped"
StopRunner(r) == run' = IF r = NoRunner THEN run ELSE [run EXCEPT ![r].st = Rest(@)]

\* The transaction of the request commits.
Save(q) ==
    /\ Step(q, "save")
    /\ savePipelineWithVersion(req[q].id, req[q].spec, req[q].reset)
    /\ Goto(q, "register")
    /\ UNCHANGED <<registry, entries, run, boot, todo, bounds>>

\* The runner that serves is stopped instead.
rollbackStoppingOld(q) == StopRunner(req[q].old)

\* rollbackRuntimeSchedule: the prepared swap is dropped and the candidate
\* stopped, unless the swap has already recorded it as the old runner.
rollbackRuntimeSchedule(q) == StopRunner(req[q].cand)

\* The transaction fails, or the reset is refused because the pipeline is
\* meant to run.
SaveFails(q) ==
    /\ Step(q, "save")
    /\ \/ Fault
       \/ Works /\ req[q].reset /\ Upsert(req[q].id, req[q].spec).desired # "stopped"
    /\ IF req[q].op \in {"load", "hot"} THEN UNCHANGED run ELSE rollbackRuntimeSchedule(q)
    /\ Answer(q)
    /\ UNCHANGED <<store, registry, entries, boot, todo, pconf, nextId, was, going, work, pcrashes>>

\* The maps are swapped under s.mu.  The schedule handler writes through the
\* entry it expects: without one it panics and s.mu is never given back.
Register(q) ==
    LET r == req[q]
    IN  /\ Step(q, "register") /\ boot = "up"
        /\ IF r.op # "schedule" THEN
              /\ registerPipelineLocked(r.id, r.spec.name, [runner |-> r.cand, spec |-> r.spec])
              /\ UNCHANGED boot
           ELSE IF mem[r.id] = None \/ mem[r.id].spec.dag # r.spec.dag THEN
              /\ boot' = "wedged"
              /\ UNCHANGED registry
           ELSE
              /\ mem' = [mem EXCEPT ![r.id].spec.sched = r.spec.sched]
              /\ UNCHANGED <<names, refs, broken, boot>>
        /\ Goto(q, CASE r.op = "load" -> "done" [] r.op = "hot" -> "start" [] OTHER -> "commit")
        /\ UNCHANGED <<store, entries, run, todo, bounds>>

\* commitRuntimeScheduleStatus
commitRuntimeSchedule(q) ==
    entries' = [entries EXCEPT ![req[q].id] =
        IF isDeferredSchedule(req[q].spec) THEN req[q].cand ELSE NoRunner]

CommitSchedule(q) ==
    /\ Step(q, "commit") /\ boot = "up"
    /\ commitRuntimeSchedule(q)
    /\ Goto(q, "stop")
    /\ UNCHANGED <<store, registry, run, boot, todo, bounds>>

\* The runner that was registered when the request read the maps is stopped.
stopOld(q) == StopRunner(req[q].old)

StopOld(q) ==
    /\ Step(q, "stop")
    /\ stopOld(q)
    /\ Answer(q)
    /\ UNCHANGED <<store, registry, entries, boot, todo, bounds>>

Loaded(q) ==
    /\ Step(q, "done") /\ Answer(q)
    /\ UNCHANGED <<store, registry, entries, run, boot, todo, bounds>>

\* startManagedPipeline: only what is meant to run.
startManagedPipeline(id) ==
    IF mem[id] # None /\ rows[id] # None /\ rows[id].desired = "running" /\ run[mem[id].runner].st # "stopping"
       THEN run' = [run EXCEPT ![mem[id].runner].st = "running"]
       ELSE UNCHANGED run

\* HotReloader.reload
HotStart(q) ==
    /\ Step(q, "start") /\ boot = "up"
    /\ startManagedPipeline(req[q].id)
    /\ Answer(q)
    /\ UNCHANGED <<store, registry, entries, boot, todo, bounds>>

\* A runner that still writes checkpoints.
Saving(r) == run[r].st \in {"running", "stopping"}

\* The row goes before the runner is told to stop.
Delete(q) ==
    /\ Step(q, "delete")
    /\ DeletePipelineWithCheckpoint(req[q].id)
    /\ going' = going \cup {run[r].id : r \in {x \in DOMAIN run : run[x].id = req[q].id /\ Saving(x)}}
    /\ Goto(q, "unschedule")
    /\ UNCHANGED <<registry, entries, run, boot, todo, pconf, nextId, was, work, pfaults, pcrashes>>

DeleteFails(q) ==
    /\ Step(q, "delete") /\ Fault /\ Answer(q)
    /\ UNCHANGED <<store, registry, entries, run, boot, todo, pconf, nextId, was, going, work, pcrashes>>

\* Scheduler.Unregister
Unschedule(q) ==
    /\ Step(q, "unschedule")
    /\ StopRunner(entries[req[q].id])
    /\ entries' = [entries EXCEPT ![req[q].id] = NoRunner]
    /\ Goto(q, "drop")
    /\ UNCHANGED <<store, registry, boot, todo, bounds>>

Drop(q) ==
    /\ Step(q, "drop") /\ boot = "up"
    /\ StopRunner(req[q].old)
    /\ unregisterPipelineLocked(req[q].id)
    /\ Answer(q)
    /\ UNCHANGED <<store, entries, boot, todo, bounds>>

\* ---------------------------- running, restarts ---------------------------

\* A runner saves a checkpoint of the source it reads: writeBatch and the flush at
\* its end carry no fence, so neither the row nor the maps are asked.
SaveCheckpoint(r) ==
    /\ Saving(r)
    /\ cp' = [cp EXCEPT ![run[r].id] = run[r].src]
    /\ UNCHANGED <<rows, versions, registry, entries, run, req, boot, todo, bounds>>

RunnerRests(r) ==
    /\ run[r].st = "stopping"
    /\ run' = [run EXCEPT ![r].st = "stopped"]
    /\ UNCHANGED <<store, registry, entries, req, boot, todo, bounds>>

\* requestPipelineStart
StartPipeline(id) ==
    /\ boot = "up" /\ Request /\ id \in Known /\ rows[id] # None /\ ~Saving(mem[id].runner)
    /\ rows' = [rows EXCEPT ![id].desired = "running", ![id].status = "active"]
    /\ run' = [run EXCEPT ![mem[id].runner].st = "running"]
    /\ UNCHANGED <<versions, cp, registry, entries, req, boot, todo, pconf, nextId, was, going, pfaults, pcrashes>>

\* requestPipelineQuiesce
StopPipeline(id) ==
    /\ boot = "up" /\ Request /\ id \in Known /\ rows[id] # None /\ rows[id].desired = "running"
    /\ rows' = [rows EXCEPT ![id].desired = "stopped", ![id].status = "stopped"]
    /\ StopRunner(mem[id].runner)
    /\ UNCHANGED <<versions, cp, registry, entries, req, boot, todo, pconf, nextId, was, going, pfaults, pcrashes>>

\* The process ends, wherever its requests are; what is in memory is gone.
Forget ==
    /\ mem' = [id \in Ids |-> None] /\ names' = [id \in Ids |-> "none"] /\ refs' = [n \in Names |-> {}]
    /\ broken' = {} /\ entries' = [id \in Ids |-> NoRunner] /\ run' = <<>>
    /\ req' = [q \in Requests |-> NoReq]

Crash ==
    /\ boot # "down" /\ pcrashes < pconf.crashes /\ pcrashes' = pcrashes + 1
    /\ boot' = "down" /\ todo' = {}
    /\ Forget
    /\ UNCHANGED <<store, pconf, nextId, was, going, work, pfaults>>

\* RestoreFromDB lists the rows.
Boot ==
    /\ boot = "down" /\ boot' = "restore"
    /\ todo' = {id \in Ids : rows[id] # None}
    /\ UNCHANGED <<store, registry, entries, run, req, bounds>>

\* A failed write ends the start.
Abort ==
    /\ Fault
    /\ boot' = "down" /\ todo' = {}
    /\ Forget
    /\ UNCHANGED <<store, pconf, nextId, was, going, work, pcrashes>>

\* previousPipelineStatus
previousPipelineStatus(row) ==
    IF row.status # "restore_failed" THEN row.status
    ELSE IF row.prev # "none" THEN row.prev ELSE "stopped"

\* recordRestoreFailure
recordRestoreFailure(id) ==
    /\ rows' = [rows EXCEPT ![id].status = "restore_failed", ![id].prev = previousPipelineStatus(rows[id])]
    /\ was' = [was EXCEPT ![id] = IF rows[id].status = "restore_failed" THEN @ ELSE rows[id].status]
    /\ registerRestoreFailureLocked(id, rows[id].spec.name)

\* clearPersistedRestoreFailure
clearPersistedRestoreFailure(id) ==
    rows' = IF rows[id].status # "restore_failed" /\ rows[id].prev = "none" THEN rows
            ELSE [rows EXCEPT ![id].status = previousPipelineStatus(rows[id]), ![id].prev = "none"]

\* RestoreFromDB, one row: a stage fails (parse, connections, validation,
\* runner), and the row stays visible; or it is registered with a new runner.
RestoreFails(id) ==
    /\ boot = "restore" /\ id \in todo /\ Fault
    /\ recordRestoreFailure(id)
    /\ todo' = todo \ {id}
    /\ UNCHANGED <<versions, cp, entries, run, req, boot, pconf, nextId, going, work, pcrashes>>

RestoreRow(id) ==
    /\ boot = "restore" /\ id \in todo
    /\ clearPersistedRestoreFailure(id)
    /\ run' = Append(run, NewRunner(id, rows[id].spec))
    /\ registerPipelineLocked(id, rows[id].spec.name, [runner |-> Len(run) + 1, spec |-> rows[id].spec])
    /\ todo' = todo \ {id}
    /\ UNCHANGED <<versions, cp, entries, req, boot, bounds>>

RestoreAborts(id) == boot = "restore" /\ id \in todo /\ Abort

\* The end of RestoreFromDB: with RestoreStrict a failure stops the start.
RestoreEnds ==
    /\ boot = "restore" /\ todo = {}
    /\ IF pconf.strict /\ broken # {}
          THEN boot' = "down" /\ Forget /\ UNCHANGED todo
          ELSE boot' = "start" /\ todo' = Known /\ UNCHANGED <<registry, entries, run, req>>
    /\ UNCHANGED <<store, bounds>>

\* StartAll, one pipeline
StartAll(id) ==
    /\ boot = "start" /\ id \in todo
    /\ todo' = todo \ {id}
    /\ IF isDeferredSchedule(mem[id].spec)
          THEN entries' = [entries EXCEPT ![id] = mem[id].runner] /\ UNCHANGED run
          ELSE startManagedPipeline(id) /\ UNCHANGED entries
    /\ UNCHANGED <<store, registry, req, boot, bounds>>

Serve ==
    /\ boot = "start" /\ todo = {} /\ boot' = "up"
    /\ UNCHANGED <<store, registry, entries, run, req, todo, bounds>>

Begin(q) ==
    \/ \E spec \in Specs : createDAG(q, spec) \/ createLinear(q, spec) \/ importDAG(q, spec) \/ importLinear(q, spec)
    \/ \E spec \in Specs, id \in Ids, reset \in BOOLEAN : updateDAG(q, id, spec, reset) \/ updateLinear(q, id, spec, reset)
    \/ \E id \in Ids : \E v \in DOMAIN versions[id] : linearVersionRollback(q, id, v) \/ dagVersionRollback(q, id, v)
    \/ \E hot \in BOOLEAN : loadSpecs(q, hot)
    \/ \E id \in Ids : updateSchedule(q, id) \/ disableSchedule(q, id) \/ deletePipeline(q, id)

Continue(q) ==
    \/ Save(q) \/ SaveFails(q) \/ Register(q) \/ CommitSchedule(q) \/ StopOld(q)
    \/ Loaded(q) \/ HotStart(q) \/ Delete(q) \/ DeleteFails(q) \/ Unschedule(q) \/ Drop(q)

Restart ==
    \/ Crash \/ Boot \/ RestoreEnds \/ Serve
    \/ \E id \in Ids : RestoreFails(id) \/ RestoreRow(id) \/ RestoreAborts(id) \/ StartAll(id)

CPNext ==
    \/ \E q \in Requests : Begin(q) \/ Continue(q)
    \/ \E id \in Ids : StartPipeline(id) \/ StopPipeline(id)
    \/ \E r \in DOMAIN run : SaveCheckpoint(r) \/ RunnerRests(r)
    \/ Restart

\* ------------------------------- properties -------------------------------

Quiet == boot = "up" /\ \A q \in Requests : req[q] = NoReq

\* The version history ends with the current row, and a pipeline without a
\* row has no versions, whatever crashes, fails or runs beside it.  It has no
\* checkpoint either, unless a runner of it was going when it was deleted: that
\* one may write the checkpoint again.
HistoryEndsWithCurrent ==
    \A id \in Ids :
        IF rows[id] = None THEN versions[id] = <<>> /\ (id \notin going => cp[id] = None)
        ELSE versions[id] # <<>> /\ versions[id][Len(versions[id])] = rows[id].spec

\* The index from names to ids is exact at every moment the lock is free, and
\* holds just the pipelines that run or could not be restored.
NameIndexExact ==
    /\ \A n \in Names : refs[n] = {id \in Ids : names[id] = n}
    /\ Visible = Known \cup broken
    /\ \A id \in Known : names[id] = mem[id].spec.name

\* With requests on one pipeline one after the other, the maps show the rows
\* whenever nothing is under way: no row without an entry, no entry without a
\* row, and the entry's spec is the row's.
MemoryMatchesStore ==
    (pconf.serial /\ Quiet) =>
        \A id \in Ids :
            /\ (rows[id] # None) <=> (id \in Visible)
            /\ id \in Known => mem[id].spec = rows[id].spec

\* Under the same condition the scheduler triggers the registered runner of
\* exactly the pipelines whose spec is deferred.  Specs loaded while the
\* process runs are left out: loadSpecs does not tell the scheduler.
ScheduleFollowsSpec ==
    (pconf.serial /\ Quiet) =>
        \A id \in Known : mem[id].spec # FileSpec =>
            entries[id] = IF isDeferredSchedule(mem[id].spec) THEN mem[id].runner ELSE NoRunner

\* Under the same condition no runner keeps running that the maps no longer
\* show.
NoLostRunner ==
    (pconf.serial /\ Quiet) =>
        \A r \in DOMAIN run : run[r].st = "running" => \E id \in Known : mem[id].runner = r

\* A schedule request alone on its pipeline never meets a missing entry.
NeverWedged == pconf.serial => boot # "wedged"

\* A save that fails leaves the registered runners and the board as they
\* were.  The schedule handlers are left out: see FailedSaveLeavesRuntime.
FailedUpdateLeavesRuntime ==
    \A q \in Requests : \A id \in Known :
        (SaveFails(q) /\ req[q].op # "schedule") =>
            /\ run'[mem[id].runner] = run[mem[id].runner]
            /\ entries' = entries

\* The same for every handler, as the documentation says.
FailedSaveLeavesRuntime ==
    \A q \in Requests : \A id \in Known :
        SaveFails(q) => run'[mem[id].runner] = run[mem[id].runner] /\ entries' = entries

\* A PUT that changes the source's type never leaves the checkpoint of the old
\* source to the new runner.
PutResetsForeignType ==
    \A q \in Requests :
        (Save(q) /\ req[q].op = "put" /\ ~req[q].spec.dag /\ pconf.serial
           /\ req[q].id \in Known /\ ~mem[req[q].id].spec.dag /\ cp[req[q].id] = source(mem[req[q].id].spec))
        => cp'[req[q].id] = None \/ cp'[req[q].id].type = req[q].spec.type

\* The same for everything IsCheckpointIncompatible looks at.
PutResetsForeignSource ==
    \A q \in Requests :
        (Save(q) /\ req[q].op = "put" /\ ~req[q].spec.dag /\ pconf.serial
           /\ req[q].id \in Known /\ ~mem[req[q].id].spec.dag /\ cp[req[q].id] = source(mem[req[q].id].spec))
        => cp'[req[q].id] = None \/ cp'[req[q].id] = source(req[q].spec)

\* A pipeline that fails to be restored, once or several times, comes back
\* with the status it had before.
RestoreKeepsStatus ==
    \A id \in Ids : (boot = "restore" /\ RestoreRow(id) /\ rows[id].status = "restore_failed")
        => rows'[id].status = was[id]
=============================================================================
