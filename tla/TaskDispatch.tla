---------------------------- MODULE TaskDispatch ----------------------------
(***************************************************************************)
(* Ownership of shard tasks in distributed mode.  Task rows live in the     *)
(* shared SQL store (storage/sqlstore/store.go); workers register,          *)
(* heartbeat, poll for tasks, execute them and report (worker/worker.go,    *)
(* poll.go); the master hands tasks out, removes silent workers and         *)
(* requeues their tasks (master/master.go, dispatch.go).  ShardedRun adds   *)
(* the ParallelRunner that creates the tasks and waits for them.            *)
(*                                                                          *)
(* Time is the age of heartbeats and of leases, in ticks; an age is not     *)
(* counted beyond the first value that is too old.                          *)
(***************************************************************************)
EXTENDS Integers, Sequences, FiniteSets

CONSTANTS
    Workers,        \* worker ids
    NoWorker,       \* the empty worker_id
    Tasks,          \* task ids, one per shard
    Labelled,       \* tasks with worker_selector.match_labels
    Matching,       \* workers whose labels satisfy the selector
    Slots,          \* slots of a worker
    LeaseTTL,       \* DefaultTaskLeaseTTL, in ticks
    StaleAfter,     \* age from which a heartbeat is stale (30s), in ticks
    MaxAttempts,    \* DefaultTaskMaxAttempts
    StoreErrors,    \* TRUE: a call of the store may fail
    Lossy,          \* TRUE: requests and answers between worker and master may be lost
    MaxRows,        \* bound: rows created for the same task
    MaxCrashes      \* bound: crashes and stops of workers and of the master

ASSUME DispatchAssumption ==
    /\ NoWorker \notin Workers
    /\ Matching \subseteq Workers
    /\ Labelled \subseteq Tasks
    /\ Slots \in Nat \ {0}
    /\ LeaseTTL \in Nat /\ StaleAfter \in Nat
    /\ MaxAttempts \in Nat \ {0}
    /\ StoreErrors \in BOOLEAN /\ Lossy \in BOOLEAN
    /\ MaxRows \in Nat /\ MaxCrashes \in Nat

VARIABLES
    \* the store
    rows,       \* task_assignments, in order of id
    registered, \* workers that have a row in the table workers
    beat,       \* age of last_heartbeat
    \* the workers
    proc,       \* "up" | "stopping" | "down"
    polled,     \* tasks a poll loop has received and not yet started
    execs,      \* executions in the slots
    \* the master's health loop
    mpc, suspects, stale,
    \* history and bound
    outcomes,   \* results of finished executions
    crashes

store == <<rows, registered, beat>>
workers == <<proc, polled, execs>>
health == <<mpc, suspects, stale>>
history == <<outcomes, crashes>>
dispatchVars == <<store, workers, health, history>>

Active == {"assigned", "running"}
Terminal == {"completed", "failed"}

Row == [task : Tasks, status : {"pending"} \cup Active \cup Terminal,
        worker : Workers \cup {NoWorker}, gen : Nat, attempt : 0..MaxAttempts,
        age : 0 .. LeaseTTL + 1]

\* A worker's copy of a claimed task, and an execution of one in a slot.
Claim == [worker : Workers, task : Tasks, gen : Nat, attempt : 0..MaxAttempts,
          age : 0 .. LeaseTTL + 1]
Exec == [worker : Workers, slot : 1..Slots, task : Tasks, gen : Nat,
         attempt : 0..MaxAttempts, pc : {"executing", "mark", "report"},
         result : Terminal \cup {"none"}]

\* Type invariant.  No task is claimed more often than the attempt budget allows.
TypeOK ==
    /\ rows \in Seq(Row)
    /\ registered \subseteq Workers
    /\ beat \in [Workers -> 0 .. StaleAfter + 1]
    /\ proc \in [Workers -> {"up", "stopping", "down"}]
    /\ polled \subseteq Claim
    /\ execs \subseteq Exec
    /\ mpc \in {"idle", "health", "requeue"}
    /\ suspects \subseteq Workers
    /\ stale \subseteq Row
    /\ outcomes \subseteq [task : Tasks, gen : Nat, result : Terminal]
    /\ crashes \in 0..MaxCrashes

DispatchInit ==
    /\ rows = <<>>
    /\ registered = {} /\ beat = [w \in Workers |-> 0]
    /\ proc = [w \in Workers |-> "down"] /\ polled = {} /\ execs = {}
    /\ mpc = "idle" /\ suspects = {} /\ stale = {}
    /\ outcomes = {} /\ crashes = 0

-----------------------------------------------------------------------------
(* The store's task operations.  task_id is not unique, so an update may    *)
(* touch the rows several dispatches have left.                             *)

\* UpdateTask: unconditional.
UpdateTask(r) == [i \in DOMAIN rows |-> IF rows[i].task = r.task THEN r ELSE rows[i]]

\* Mutant of Owns: the generation is not compared.
OwnsByWorker(i, r) == rows[i].task = r.task /\ rows[i].worker = r.worker

Owns(i, r) == rows[i].task = r.task /\ rows[i].worker = r.worker /\ rows[i].gen = r.gen

\* Mutant of CASUpdateTask: neither worker nor generation is compared.
CASUpdateTaskByTask(r) ==
    [i \in DOMAIN rows |-> IF rows[i].task = r.task
                           THEN [r EXCEPT !.gen = rows[i].gen] ELSE rows[i]]

\* CASUpdateTask: worker and generation must still be those of the caller.
CASUpdateTask(r) == [i \in DOMAIN rows |-> IF Owns(i, r) THEN r ELSE rows[i]]

Fenced(r) == \A i \in DOMAIN rows : ~Owns(i, r)

\* The row a worker writes for its copy c of a task; the lease of a finished task
\* is never looked at again.
RowOf(c, s) == [task |-> c.task, status |-> s, worker |-> c.worker, gen |-> c.gen,
                attempt |-> c.attempt, age |-> 0]

\* DispatchShards, one task of it: CreateTask is a plain INSERT.
CreateTask(t) ==
    /\ Cardinality({i \in DOMAIN rows : rows[i].task = t}) < MaxRows
    /\ rows' = Append(rows, [task |-> t, status |-> "pending", worker |-> NoWorker,
                             gen |-> 0, attempt |-> 0, age |-> 0])
    /\ UNCHANGED <<registered, beat, workers, health, history>>

-----------------------------------------------------------------------------
(* The master's health loop.                                                *)

\* checkWorkerHealth, the listing.
CheckWorkerHealth ==
    /\ mpc = "idle"
    /\ mpc' = "health"
    /\ suspects' = {w \in registered : beat[w] > StaleAfter}
    /\ UNCHANGED <<store, workers, stale, history>>

\* checkWorkerHealth, one listed worker: MarkOffline deletes its row.
MarkOffline(w) ==
    /\ mpc = "health"
    /\ w \in suspects
    /\ suspects' = suspects \ {w}
    /\ \/ registered' = registered \ {w}
       \/ StoreErrors /\ UNCHANGED registered
    /\ UNCHANGED <<rows, beat, workers, mpc, stale, history>>

\* Mutant of Stale: whether the task has ended is not looked at.
StaleInAnyStatus(r, online) ==
    (r.worker # NoWorker /\ r.worker \notin online) \/ r.age > LeaseTTL

\* A task is stale if its worker is not online or its lease has expired.
Stale(r, online) ==
    /\ r.status \in Active
    /\ (r.worker # NoWorker /\ r.worker \notin online) \/ r.age > LeaseTTL

\* ReassignStaleTasks takes the dispatcher's lock and lists workers and tasks; an
\* error of the first listing leaves no worker online.
ListStaleTasks ==
    /\ mpc = "health"
    /\ suspects = {}
    /\ \E online \in {{w \in registered : beat[w] <= StaleAfter}}
                         \cup (IF StoreErrors THEN {{}} ELSE {}) :
          LET found == {rows[i] : i \in {j \in DOMAIN rows : Stale(rows[j], online)}}
          IN  /\ stale' = found
              /\ mpc' = IF found = {} THEN "idle" ELSE "requeue"
    /\ UNCHANGED <<store, workers, suspects, history>>

\* What becomes of a stale task: pending again, with generation and attempt kept,
\* or failed when the budget is used up.
Requeued(r) ==
    IF r.attempt >= MaxAttempts
    THEN [r EXCEPT !.status = "failed", !.age = 0]
    ELSE [r EXCEPT !.status = "pending", !.worker = NoWorker, !.age = 0]

\* ReassignStaleTasks, one listed task: written back without looking at the row again.
ReassignStaleTask(r) ==
    /\ mpc = "requeue"
    /\ r \in stale
    /\ stale' = stale \ {r}
    /\ mpc' = IF stale' = {} THEN "idle" ELSE mpc
    /\ \/ rows' = UpdateTask(Requeued(r))
       \/ StoreErrors /\ UNCHANGED rows
    /\ UNCHANGED <<registered, beat, workers, suspects, history>>

\* The master process dies and comes back; the store keeps its rows.
MasterCrash ==
    /\ crashes < MaxCrashes
    /\ crashes' = crashes + 1
    /\ mpc' = "idle" /\ suspects' = {} /\ stale' = {}
    /\ UNCHANGED <<store, workers, outcomes>>

-----------------------------------------------------------------------------
(* The workers.                                                             *)

\* Start: the process registers (an upsert that also refreshes last_heartbeat).
WorkerStart(w) ==
    /\ proc[w] = "down"
    /\ proc' = [proc EXCEPT ![w] = "up"]
    /\ registered' = registered \cup {w}
    /\ beat' = [beat EXCEPT ![w] = 0]
    /\ UNCHANGED <<rows, polled, execs, health, history>>

\* sendHeartbeat: an UPDATE that changes nothing and reports no error when the
\* worker has no row.
Heartbeat(w) ==
    /\ proc[w] = "up"
    /\ beat' = IF w \in registered THEN [beat EXCEPT ![w] = 0] ELSE beat
    /\ UNCHANGED <<rows, registered, workers, health, history>>

\* A heartbeat that fails makes the worker register again.
HeartbeatFailed(w) ==
    /\ proc[w] = "up"
    /\ Lossy \/ StoreErrors
    /\ registered' = registered \cup {w}
    /\ beat' = [beat EXCEPT ![w] = 0]
    /\ UNCHANGED <<rows, workers, health, history>>

InFlight(w) == {e \in execs : e.worker = w}

\* A worker without a row counts as a worker without labels.
Claimable(w, i) ==
    /\ rows[i].status = "pending"
    /\ rows[i].task \in Labelled => w \in registered \cap Matching

\* Mutant of Claimed: the generation is kept.
ClaimedSameGeneration(w, r) ==
    [r EXCEPT !.status = "assigned", !.worker = w, !.attempt = @ + 1, !.age = 0]

\* ClaimTask: a new owner, the next generation and attempt, a fresh lease.
Claimed(w, r) == [r EXCEPT !.status = "assigned", !.worker = w, !.gen = @ + 1,
                           !.attempt = @ + 1, !.age = 0]

\* AssignNextTask: one pending row is chosen; the UPDATE names its task_id, status
\* and generation.  Which of several pending rows comes first is left open.
AssignNextTask(w, answered) ==
    \E i \in DOMAIN rows :
        LET r == Claimed(w, rows[i])
        IN  /\ Claimable(w, i)
            /\ rows' = [j \in DOMAIN rows |->
                          IF /\ rows[j].task = r.task
                             /\ rows[j].status = "pending"
                             /\ rows[j].gen = rows[i].gen
                          THEN Claimed(w, rows[j]) ELSE rows[j]]
            /\ polled' = IF answered
                         THEN polled \cup {[worker |-> w, task |-> r.task, gen |-> r.gen,
                                            attempt |-> r.attempt, age |-> 0]}
                         ELSE polled

\* The dispatcher's lock, which ReassignStaleTasks holds to its end.
DispatcherFree == mpc # "requeue"

\* pollTask: a free slot, no task waiting to be started; the answer may be lost.
PollTask(w) ==
    /\ proc[w] = "up"
    /\ Cardinality(InFlight(w)) < Slots
    /\ \A c \in polled : c.worker # w
    /\ DispatcherFree
    /\ \E answered \in (IF Lossy THEN BOOLEAN ELSE {TRUE}) : AssignNextTask(w, answered)
    /\ UNCHANGED <<registered, beat, proc, execs, health, history>>

FreeSlot(w) == CHOOSE k \in 1..Slots : \A e \in InFlight(w) : e.slot # k

\* casMarkRunning, and the execution it starts unless the task was fenced.  A store
\* error other than fencing is followed by an unconditional update, and the task is
\* executed whatever becomes of that.
CasMarkRunning(c) ==
    LET r == [RowOf(c, "running") EXCEPT !.age = IF c.age > LeaseTTL THEN 0 ELSE c.age]
        started == [worker |-> c.worker, slot |-> FreeSlot(c.worker), task |-> c.task,
                    gen |-> c.gen, attempt |-> c.attempt,
                    pc |-> "executing", result |-> "none"]
    IN  /\ c \in polled
        /\ polled' = polled \ {c}
        /\ \/ Fenced(r) /\ UNCHANGED <<rows, execs>>
           \/ ~Fenced(r) /\ rows' = CASUpdateTask(r) /\ execs' = execs \cup {started}
           \/ StoreErrors /\ rows' \in {rows, UpdateTask(r)} /\ execs' = execs \cup {started}
        /\ UNCHANGED <<registered, beat, proc, health, history>>

\* The task executor returns, or panics, while the worker's context is alive.
ExecuteShard(e, result) ==
    /\ e \in execs
    /\ e.pc = "executing"
    /\ proc[e.worker] = "up"
    /\ execs' = (execs \ {e}) \cup {[e EXCEPT !.pc = "mark", !.result = result]}
    /\ outcomes' = outcomes \cup {[task |-> e.task, gen |-> e.gen,
                                   result |-> result]}
    /\ UNCHANGED <<store, proc, polled, health, crashes>>

\* casMarkTerminal; as in casMarkRunning an error is answered by an unconditional
\* update.
CasMarkTerminal(e) ==
    LET r == RowOf(e, e.result)
    IN  /\ e \in execs
        /\ e.pc = "mark"
        /\ execs' = (execs \ {e}) \cup {[e EXCEPT !.pc = "report"]}
        /\ \/ rows' = CASUpdateTask(r)
           \/ StoreErrors /\ rows' \in {rows, UpdateTask(r)}
        /\ UNCHANGED <<registered, beat, proc, polled, health, history>>

\* reportTaskResult: the master repeats the update under the same comparison; the
\* slot becomes free.
ReportTaskResult(e) ==
    /\ e \in execs
    /\ e.pc = "report"
    /\ execs' = execs \ {e}
    /\ \/ rows' = CASUpdateTask(RowOf(e, e.result))
       \/ (Lossy \/ StoreErrors) /\ UNCHANGED rows
    /\ UNCHANGED <<registered, beat, proc, polled, health, history>>

\* Stop: the context of every execution is cancelled, the worker deregisters; it
\* does not wait for the executions.
WorkerStop(w) ==
    /\ proc[w] = "up"
    /\ crashes < MaxCrashes
    /\ crashes' = crashes + 1
    /\ proc' = [proc EXCEPT ![w] = "stopping"]
    /\ polled' = {c \in polled : c.worker # w}
    /\ \/ registered' = registered \ {w}
       \/ (Lossy \/ StoreErrors) /\ UNCHANGED registered
    /\ UNCHANGED <<rows, beat, execs, health, outcomes>>

\* A cancelled execution ends without touching its row.
ExecInterrupted(e) ==
    /\ e \in execs
    /\ proc[e.worker] = "stopping"
    /\ execs' = execs \ {e}
    /\ UNCHANGED <<store, proc, polled, health, history>>

\* What dies with a worker process.
ProcessEnds(w) ==
    /\ proc' = [proc EXCEPT ![w] = "down"]
    /\ polled' = {c \in polled : c.worker # w}
    /\ execs' = {e \in execs : e.worker # w}
    /\ UNCHANGED <<store, health, outcomes>>

\* The process ends after Stop.
WorkerExit(w) == proc[w] = "stopping" /\ ProcessEnds(w) /\ UNCHANGED crashes

WorkerCrash(w) ==
    /\ proc[w] = "up"
    /\ crashes < MaxCrashes
    /\ crashes' = crashes + 1
    /\ ProcessEnds(w)

-----------------------------------------------------------------------------
Older(age, limit) == IF age > limit THEN age ELSE age + 1

\* Time passes: heartbeats and leases grow older.
Tick ==
    /\ beat' = [w \in Workers |-> IF w \in registered THEN Older(beat[w], StaleAfter) ELSE 0]
    /\ rows' = [i \in DOMAIN rows |->
                  IF rows[i].status \in Active
                  THEN [rows[i] EXCEPT !.age = Older(@, LeaseTTL)] ELSE rows[i]]
    /\ polled' = {[c EXCEPT !.age = Older(@, LeaseTTL)] : c \in polled}
    /\ UNCHANGED <<registered, proc, execs, health, history>>

Health ==
    \/ CheckWorkerHealth \/ (\E w \in Workers : MarkOffline(w))
    \/ ListStaleTasks \/ (\E r \in stale : ReassignStaleTask(r))

Worker(w) ==
    \/ WorkerStart(w) \/ Heartbeat(w) \/ HeartbeatFailed(w) \/ PollTask(w)
    \/ WorkerStop(w) \/ WorkerExit(w) \/ WorkerCrash(w)

Execution ==
    \/ \E c \in polled : CasMarkRunning(c)
    \/ \E e \in execs :
          \/ \E result \in Terminal : ExecuteShard(e, result)
          \/ CasMarkTerminal(e) \/ ReportTaskResult(e) \/ ExecInterrupted(e)

DispatchNext ==
    \/ \E t \in Tasks : CreateTask(t)
    \/ MasterCrash \/ Health \/ (\E w \in Workers : Worker(w)) \/ Execution \/ Tick

DispatchSpec == DispatchInit /\ [][DispatchNext]_dispatchVars

\* The loops of master and workers keep running, time passes, executions end and a
\* stopped worker process exits; one that is down is restarted (restart:
\* unless-stopped in docker-compose.distributed.yml).  Nothing makes a
\* worker stop or crash, or a heartbeat fail.
DispatchFairness ==
    /\ \A w \in Workers : WF_dispatchVars(WorkerStart(w) \/ WorkerExit(w))
    /\ WF_dispatchVars(Health)
    /\ \A w \in Workers : WF_dispatchVars(Heartbeat(w))
    /\ \A w \in Workers : SF_dispatchVars(PollTask(w))
    /\ WF_dispatchVars(Execution)
    /\ WF_dispatchVars(Tick)

-----------------------------------------------------------------------------
(* Properties.                                                              *)

\* The generation is a fencing token: two executions of the same task that are
\* alive at the same time never carry the same one (ClaimTask).
GenerationIsUnique ==
    \A e, f \in execs : e # f /\ e.task = f.task => e.gen # f.gen

\* A generation, once handed out, is never taken back: neither a worker's update nor
\* the master's requeue from its earlier listing restores an older one (CASUpdateTask,
\* ReassignStaleTasks).
RowsKeepTheirGeneration == \A i \in DOMAIN rows : rows'[i].gen >= rows[i].gen
GenerationNeverFalls == [][RowsKeepTheirGeneration]_dispatchVars

\* A task is completed or failed only by the execution of its current generation, or
\* failed by the master when the attempts are used up: the late result of an owner
\* that lost the task never counts (CASUpdateTask, casMarkTerminal, ReportTaskResult).
ResultIsGenuine ==
    \A i \in DOMAIN rows : rows[i].status \in Terminal =>
        \/ rows[i].status = "failed" /\ rows[i].attempt = MaxAttempts
        \/ \E o \in outcomes : /\ o.task = rows[i].task /\ o.gen = rows[i].gen
                               /\ o.result = rows[i].status

\* A completed task stays completed, whatever claims, late results and requeues follow,
\* unless the health check had listed it while it was still executed: its requeue
\* writes the listed row back without looking again (ReassignStaleTasks), and the task
\* is executed once more or, its attempts used up, reported failed.
CompletedIsUndone(i) ==
    rows[i].status = "completed" /\ (rows'[i].status # "completed" \/ rows'[i].gen # rows[i].gen)
ListedWhileExecuted(i) ==
    \E r \in stale : r.task = rows[i].task /\ r.gen = rows[i].gen /\ r.status \in Active
CompletedStays == [][\A i \in DOMAIN rows : CompletedIsUndone(i) => ListedWhileExecuted(i)]_dispatchVars
=============================================================================
