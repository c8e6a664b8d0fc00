----------------------------- MODULE Lifecycle -----------------------------
(***************************************************************************)
(* The lifecycle of one pipeline in the control plane: its durable row     *)
(* (desired state, observed state, generation), its checkpoint record, and *)
(* the runner objects the server keeps in memory.                          *)
(*                                                                         *)
(* Several actors work on them at once.  Clients call the HTTP handlers    *)
(* start, stop, pause, checkpoint reset and set, update and delete.  The   *)
(* reconciler restarts failed runners, the scheduler triggers deferred     *)
(* ones, and the main goroutine starts everything again after a crash.     *)
(* A handler reads the runner pointer first and takes the lifecycle lock   *)
(* later; update and delete never take it.                                 *)
(***************************************************************************)
EXTENDS Naturals, FiniteSets

CONSTANTS
    Clients,      \* the HTTP requests that may be in progress at once
    Runners,      \* the runner objects
    None,         \* no runner, no lock holder
    Ops,          \* the operations the clients ask for
    Schedules,    \* whether the pipeline may have a cron, periodic or dependency schedule
    MaxRestarts,  \* RestartPolicy.MaxRestarts, 0 for no limit
    MaxWork       \* bound: requests, restarts, triggers and crashes

AllOps == {"start", "stop", "pause", "reset", "set", "update", "delete"}

ASSUME LifecycleAssumption ==
    /\ Runners # {} /\ None \notin Runners
    /\ None \notin Clients
    /\ Clients \cap {"main", "reconciler", "scheduler"} = {}
    /\ None \notin {"main", "reconciler", "scheduler"}
    /\ Ops \subseteq AllOps
    /\ Schedules \subseteq BOOLEAN
    /\ MaxRestarts \in Nat
    /\ MaxWork \in Nat

VARIABLES
    row,        \* the pipelines row: exists, desired, observed, gen
    cp,         \* the checkpoint: the generation that wrote it, 0 for none, and whether fenced
    floor,      \* history: the row's generation when the checkpoint was last replaced,
                \* and whether a run was going when it was last replaced or deleted
    reborn,     \* history: an update has re-created the row after a delete
    deferred,   \* isDeferredSchedule of the pipeline's spec
    up,         \* the process is running
    current,    \* s.pipelines[id]
    hasSpec,    \* s.specs[id] or s.dagSpecs[id] is set
    attempts,   \* s.restartAttempts[id]
    timer,      \* the runner the scheduler entry holds
    rs,         \* each runner: status, runActive, the generation of its context
    lock,       \* the holder of lifecycleLock(id)
    call,       \* what each actor is doing
    observers,  \* observeManagedPipeline goroutines: runner and generation
    work        \* how much of MaxWork is used

vars == <<row, cp, floor, reborn, deferred, up, current, hasSpec, attempts, timer, rs, lock,
          call, observers, work>>

Actors == Clients \cup {"main", "reconciler", "scheduler"}
Quiet == {"stopped", "paused"}
Status == {"stopped", "paused", "running", "failed", "completed"}
Observed == Status \cup {"starting", "scheduled"}

NewRunner == [status |-> "stopped", active |-> FALSE, gen |-> 0]
NoCheckpoint == [gen |-> 0, fenced |-> TRUE]
Idle == [pc |-> "idle", op |-> "none", runner |-> None, old |-> None, gen |-> 0]

(* A runner nothing refers to any more: newRunner may stand for it again. *)
Fresh(r) ==
    /\ ~rs[r].active
    /\ r # current /\ r # timer
    /\ \A a \in Actors : r # call[a].runner /\ r # call[a].old
    /\ \A o \in observers : r # o.runner

(* The runner newRunner returns: any fresh one will do. *)
SomeFresh == CHOOSE r \in Runners : Fresh(r)

Serving == up /\ call["main"].pc = "idle"

(* Runner.Stop changes a running runner only. *)
StopRunner(f, r) ==
    IF r # None /\ f[r].status = "running"
    THEN [f EXCEPT ![r].status = "stopped"] ELSE f

(* The run loop of r is going: Start has returned and done is open. *)
Looping(r) ==
    /\ rs[r].active
    /\ \A a \in Actors : call[a].pc = "opening" => call[a].runner # r

(* A run is going, or its generation is already allocated. *)
SomeRun ==
    \/ \E r \in Runners : rs[r].active
    \/ \E a \in Actors : call[a].pc = "start"

-----------------------------------------------------------------------------
(* Storage *)

(* UpdatePipelineObservedState: a positive generation must be the row's. *)
Observe(gen, s) ==
    IF row.exists /\ gen \in {0, row.gen}
    THEN [row EXCEPT !.observed = s] ELSE row

(* Mutant: the desired state is not part of the WHERE clause. *)
RunnableAlways == row.exists

(* BeginPipelineGeneration's WHERE clause. *)
Runnable == row.exists /\ row.desired = "running"

(* Mutant: the generation is read, not advanced. *)
SameGeneration == row.gen

NextGeneration == row.gen + 1

(* advanceQuiescentGeneration's WHERE clause. *)
Quiescent == row.exists /\ row.desired \in Quiet

(* Mutant: the upsert asks for the pipeline but not for its generation. *)
UnfencedAlways(gen) == row.exists

(* FencedCheckpointUpsert's WHERE EXISTS clause. *)
Unfenced(gen) == row.exists /\ row.gen = gen

-----------------------------------------------------------------------------
Init ==
    LET r == CHOOSE x \in Runners : TRUE IN
        /\ deferred \in Schedules
        /\ row = [exists |-> TRUE, desired |-> "running", gen |-> 0,
                  observed |-> IF deferred THEN "scheduled" ELSE "stopped"]
        /\ cp = NoCheckpoint /\ floor = [gen |-> 0, going |-> FALSE] /\ reborn = FALSE
        /\ up = TRUE
        /\ current = r /\ hasSpec = TRUE /\ attempts = 0
        /\ timer = IF deferred THEN r ELSE None
        /\ rs = [x \in Runners |-> NewRunner]
        /\ lock = None
        /\ call = [a \in Actors |-> Idle]
        /\ observers = {}
        /\ work = 0

Enter(a) ==
    /\ Serving
    /\ call[a].pc = "idle"
    /\ work < MaxWork
    /\ work' = work + 1

(* A handler looks the runner up under s.mu, before any lifecycle lock. *)
Request(c, op) ==
    /\ op \in Ops \cap {"start", "stop", "pause", "reset", "set", "delete"}
    /\ op \in {"start", "stop", "pause"} => current # None
    /\ op = "delete" => current # None \/ hasSpec
    /\ Enter(c)
    /\ call' = [call EXCEPT ![c] = [Idle EXCEPT !.pc = "have", !.op = op, !.runner = current]]
    /\ UNCHANGED <<row, cp, floor, reborn, deferred, up, current, hasSpec, attempts, timer, rs, lock, observers>>

(* The update handler builds the new runner and notes the old one. *)
RequestUpdate(c) ==
    /\ "update" \in Ops
    /\ Enter(c)
    /\ \E r \in Runners : Fresh(r)
    /\ rs' = [rs EXCEPT ![SomeFresh] = NewRunner]
    /\ call' = [call EXCEPT ![c] =
          [Idle EXCEPT !.pc = "have", !.op = "update", !.runner = SomeFresh, !.old = current]]
    /\ UNCHANGED <<row, cp, floor, reborn, deferred, up, current, hasSpec, attempts, timer, lock, observers>>

Done(a) == call' = [call EXCEPT ![a] = Idle]

GoTo(a, pc) == call' = [call EXCEPT ![a].pc = pc]

-----------------------------------------------------------------------------
(* Starting a run *)

Starts == {"boot", "restart", "tick"}

(* requestPipelineStart persists the intent under the lock it then keeps. *)
DesireRunning(c) ==
    /\ call[c].pc = "have" /\ call[c].op = "start" /\ lock = None
    /\ IF row.exists
       THEN /\ row' = [row EXCEPT !.desired = "running"]
            /\ lock' = c
            /\ GoTo(c, "begin")
       ELSE /\ Done(c) /\ UNCHANGED <<row, lock>>
    /\ UNCHANGED <<cp, floor, reborn, deferred, up, current, hasSpec, attempts, timer, rs, observers, work>>

(* startManagedPipeline's callers other than the API already want it running. *)
TakeLock(a) ==
    /\ call[a].pc = "have" /\ call[a].op \in Starts /\ lock = None
    /\ lock' = a
    /\ GoTo(a, "begin")
    /\ UNCHANGED <<row, cp, floor, reborn, deferred, up, current, hasSpec, attempts, timer, rs, observers, work>>

(* The scheduler records every start error but the two it treats as a skip. *)
StartError(a, skip) ==
    /\ lock' = None
    /\ IF call[a].op = "tick" /\ ~skip THEN GoTo(a, "mark") ELSE Done(a)

BeginPipelineGeneration(a) ==
    /\ call[a].pc = "begin"
    /\ IF rs[call[a].runner].status = "running" \/ ~Runnable
       THEN /\ StartError(a, rs[call[a].runner].status # "running" /\ row.exists)
            /\ UNCHANGED row
       ELSE /\ row' = [row EXCEPT !.gen = NextGeneration, !.observed = "starting"]
            /\ call' = [call EXCEPT ![a].pc = "start", ![a].gen = NextGeneration]
            /\ UNCHANGED lock
    /\ UNCHANGED <<cp, floor, reborn, deferred, up, current, hasSpec, attempts, timer, rs, observers, work>>

(* Runner.Start up to opening sink and source. *)
StartRunner(a) ==
    /\ call[a].pc = "start"
    /\ LET r == call[a].runner IN
       IF rs[r].active
       THEN GoTo(a, "stopping") /\ UNCHANGED rs
       ELSE /\ rs' = [rs EXCEPT ![r] = [status |-> "running", active |-> TRUE,
                                        gen |-> call[a].gen]]
            /\ GoTo(a, "opening")
    /\ UNCHANGED <<row, cp, floor, reborn, deferred, up, current, hasSpec, attempts, timer, lock, observers, work>>

OpenSucceeds(a) ==
    /\ call[a].pc = "opening"
    /\ GoTo(a, "opened")
    /\ UNCHANGED <<row, cp, floor, reborn, deferred, up, current, hasSpec, attempts, timer, rs, lock, observers, work>>

OpenFails(a) ==
    /\ call[a].pc = "opening"
    /\ rs' = [rs EXCEPT ![call[a].runner].status = "failed",
                        ![call[a].runner].active = FALSE]
    /\ GoTo(a, "failed")
    /\ UNCHANGED <<row, cp, floor, reborn, deferred, up, current, hasSpec, attempts, timer, lock, observers, work>>

(* runner.Start returned an error: the generation is observed as failed. *)
StartFailed(a) ==
    /\ call[a].pc \in {"stopping", "failed"}
    /\ row' = Observe(call[a].gen, "failed")
    /\ StartError(a, call[a].pc = "stopping")
    /\ UNCHANGED <<cp, floor, reborn, deferred, up, current, hasSpec, attempts, timer, rs, observers, work>>

(* The run is observed as running and gets its observer; a row that is gone
   or has moved on makes the caller stop the runner instead.  A successful
   restart clears the attempt counter. *)
Started(a) ==
    /\ call[a].pc = "opened"
    /\ IF row.exists /\ row.gen = call[a].gen
       THEN /\ row' = Observe(call[a].gen, "running")
            /\ observers' = observers \cup {[runner |-> call[a].runner, gen |-> call[a].gen]}
            /\ attempts' = IF call[a].op = "restart" THEN 0 ELSE attempts
            /\ lock' = None /\ Done(a)
            /\ UNCHANGED rs
       ELSE /\ rs' = StopRunner(rs, call[a].runner)
            /\ StartError(a, FALSE)
            /\ UNCHANGED <<row, observers, attempts>>
    /\ UNCHANGED <<cp, floor, reborn, deferred, up, current, hasSpec, timer, work>>

(* triggerPipeline's UpdatePipelineStatus("failed"), which names no generation. *)
MarkFailed(a) ==
    /\ call[a].pc = "mark"
    /\ row' = Observe(0, "failed")
    /\ Done(a)
    /\ UNCHANGED <<cp, floor, reborn, deferred, up, current, hasSpec, attempts, timer, rs, lock, observers, work>>

-----------------------------------------------------------------------------
(* Stopping, pausing and replacing the checkpoint *)

DesireQuiet(c) ==
    /\ call[c].pc = "have" /\ call[c].op \in {"stop", "pause"} /\ lock = None
    /\ IF row.exists
       THEN /\ row' = [row EXCEPT !.desired = IF call[c].op = "stop" THEN "stopped" ELSE "paused"]
            /\ lock' = c
            /\ GoTo(c, "quiesce")
       ELSE /\ Done(c) /\ UNCHANGED <<row, lock>>
    /\ UNCHANGED <<cp, floor, reborn, deferred, up, current, hasSpec, attempts, timer, rs, observers, work>>

(* Stop never fails; Pause refuses a runner that is not running. *)
QuiesceRunner(c) ==
    /\ call[c].pc = "quiesce"
    /\ LET r == call[c].runner IN
       \/ /\ call[c].op = "stop"
          /\ rs' = StopRunner(rs, r) /\ GoTo(c, "quiesced") /\ UNCHANGED lock
       \/ /\ call[c].op = "pause" /\ rs[r].status = "running"
          /\ rs' = [rs EXCEPT ![r].status = "paused"] /\ GoTo(c, "quiesced") /\ UNCHANGED lock
       \/ /\ call[c].op = "pause" /\ rs[r].status # "running"
          /\ Done(c) /\ lock' = None /\ UNCHANGED rs
    /\ UNCHANGED <<row, cp, floor, reborn, deferred, up, current, hasSpec, attempts, timer, observers, work>>

Quiesced(c) ==
    /\ call[c].pc = "quiesced"
    /\ row' = Observe(0, IF call[c].op = "stop" THEN "stopped" ELSE "paused")
    /\ lock' = None /\ Done(c)
    /\ UNCHANGED <<cp, floor, reborn, deferred, up, current, hasSpec, attempts, timer, rs, observers, work>>

(* ResetPipelineCheckpoint and SetPipelineCheckpoint: one transaction under
   the lock, refused while the captured runner runs or the intent is running. *)
ReplaceCheckpoint(c) ==
    /\ call[c].pc = "have" /\ call[c].op \in {"reset", "set"} /\ lock = None
    /\ IF Quiescent /\ (call[c].runner # None => rs[call[c].runner].status # "running")
       THEN /\ row' = [row EXCEPT !.gen = NextGeneration]
            /\ cp' = IF call[c].op = "set" THEN [gen |-> NextGeneration, fenced |-> TRUE]
                                           ELSE NoCheckpoint
            /\ floor' = [gen |-> NextGeneration, going |-> SomeRun]
       ELSE UNCHANGED <<row, cp, floor>>
    /\ Done(c)
    /\ UNCHANGED <<reborn, deferred, up, current, hasSpec, attempts, timer, rs, lock, observers, work>>

-----------------------------------------------------------------------------
(* Updating and deleting, without the lifecycle lock *)

(* PipelineUpsert keeps the lifecycle columns of an existing row; a new one
   gets those NormalizePipelineLifecycle derives. *)
Stored ==
    IF row.exists THEN row
    ELSE [exists |-> TRUE, desired |-> "running", gen |-> 0, observed |-> "stopped"]

(* SaveWithIDAndCheckpointReset: the optional reset is part of the
   transaction and rolls it back unless the pipeline is quiescent. *)
SaveSpec(c, reset) ==
    /\ call[c].pc = "have" /\ call[c].op = "update"
    /\ IF reset /\ Stored.desired \notin Quiet
       THEN Done(c) /\ UNCHANGED <<row, cp, floor, reborn>>
       ELSE /\ row' = IF reset THEN [Stored EXCEPT !.gen = Stored.gen + 1] ELSE Stored
            /\ cp' = IF reset THEN NoCheckpoint ELSE cp
            /\ floor' = IF reset THEN [gen |-> Stored.gen + 1, going |-> SomeRun] ELSE floor
            /\ reborn' = (reborn \/ ~row.exists)
            /\ GoTo(c, "register")
    /\ UNCHANGED <<deferred, up, current, hasSpec, attempts, timer, rs, lock, observers, work>>

(* registerPipelineLocked makes the new runner the current one. *)
Register(c) ==
    /\ call[c].pc = "register"
    /\ current' = call[c].runner /\ hasSpec' = TRUE
    /\ GoTo(c, "retire")
    /\ UNCHANGED <<row, cp, floor, reborn, deferred, up, attempts, timer, rs, lock, observers, work>>

(* The scheduler entry follows, and the runner noted at the start is stopped. *)
Retire(c) ==
    /\ call[c].pc = "retire"
    /\ timer' = IF deferred THEN call[c].runner ELSE None
    /\ row' = IF deferred THEN Observe(0, "scheduled") ELSE row
    /\ rs' = StopRunner(rs, call[c].old)
    /\ Done(c)
    /\ UNCHANGED <<cp, floor, reborn, deferred, up, current, hasSpec, attempts, lock, observers, work>>

DeleteRow(c) ==
    /\ call[c].pc = "have" /\ call[c].op = "delete"
    /\ row' = [row EXCEPT !.exists = FALSE]
    /\ cp' = NoCheckpoint
    /\ floor' = [floor EXCEPT !.going = SomeRun]
    /\ GoTo(c, "deleted")
    /\ UNCHANGED <<reborn, deferred, up, current, hasSpec, attempts, timer, rs, lock, observers, work>>

(* Scheduler.Unregister stops the runner of its entry, the handler its own. *)
StopDeleted(c) ==
    /\ call[c].pc = "deleted"
    /\ timer' = None
    /\ rs' = StopRunner(StopRunner(rs, timer), call[c].runner)
    /\ GoTo(c, "unregister")
    /\ UNCHANGED <<row, cp, floor, reborn, deferred, up, current, hasSpec, attempts, lock, observers, work>>

Unregister(c) ==
    /\ call[c].pc = "unregister"
    /\ current' = None /\ hasSpec' = FALSE /\ attempts' = 0
    /\ Done(c)
    /\ UNCHANGED <<row, cp, floor, reborn, deferred, up, timer, rs, lock, observers, work>>

-----------------------------------------------------------------------------
(* The reconciler and the scheduler *)

(* reconcileFailed finds the current runner failed and counts an attempt. *)
Reconcile ==
    /\ current # None /\ hasSpec
    /\ rs[current].status = "failed"
    /\ MaxRestarts > 0 => attempts < MaxRestarts
    /\ Enter("reconciler")
    /\ attempts' = attempts + 1
    /\ call' = [call EXCEPT !["reconciler"] = [Idle EXCEPT !.pc = "backoff", !.op = "restart"]]
    /\ UNCHANGED <<row, cp, floor, reborn, deferred, up, current, hasSpec, timer, rs, lock, observers>>

(* After the backoff the runner is built from the spec of that moment. *)
Rebuild ==
    /\ call["reconciler"].pc = "backoff"
    /\ IF ~hasSpec
       THEN Done("reconciler") /\ UNCHANGED rs
       ELSE /\ \E r \in Runners : Fresh(r)
            /\ rs' = [rs EXCEPT ![SomeFresh] = NewRunner]
            /\ call' = [call EXCEPT !["reconciler"].pc = "swap", !["reconciler"].runner = SomeFresh]
    /\ UNCHANGED <<row, cp, floor, reborn, deferred, up, current, hasSpec, attempts, timer, lock, observers, work>>

SwapIn ==
    /\ call["reconciler"].pc = "swap"
    /\ current' = call["reconciler"].runner
    /\ GoTo("reconciler", "have")
    /\ UNCHANGED <<row, cp, floor, reborn, deferred, up, hasSpec, attempts, timer, rs, lock, observers, work>>

(* triggerPipeline skips a runner that runs and starts any other. *)
Trigger ==
    /\ timer # None
    /\ rs[timer].status # "running"
    /\ Enter("scheduler")
    /\ call' = [call EXCEPT !["scheduler"] =
                  [Idle EXCEPT !.pc = "have", !.op = "tick", !.runner = timer]]
    /\ UNCHANGED <<row, cp, floor, reborn, deferred, up, current, hasSpec, attempts, timer, rs, lock, observers>>

-----------------------------------------------------------------------------
(* A run and its observer *)

(* The run stops for a reason of its own: an error or the end of its source. *)
RunFinishes(r, s) ==
    /\ Looping(r) /\ rs[r].status = "running"
    /\ s \in {"failed", "completed"}
    /\ rs' = [rs EXCEPT ![r].status = s]
    /\ UNCHANGED <<row, cp, floor, reborn, deferred, up, current, hasSpec, attempts, timer, lock, call, observers, work>>

(* The run loop returns and closes done. *)
RunEnds(r) ==
    /\ Looping(r) /\ rs[r].status # "running"
    /\ rs' = [rs EXCEPT ![r].active = FALSE]
    /\ UNCHANGED <<row, cp, floor, reborn, deferred, up, current, hasSpec, attempts, timer, lock, call, observers, work>>

(* The flush of writeLoop's ticker: its context carries the run's fence. *)
SaveCheckpoint(r) ==
    /\ Looping(r)
    /\ Unfenced(rs[r].gen)
    /\ cp' = [gen |-> rs[r].gen, fenced |-> TRUE]
    /\ UNCHANGED <<row, floor, reborn, deferred, up, current, hasSpec, attempts, timer, rs, lock, call, observers, work>>

(* writeBatch, the flushes at the end of a run and every flush of a DAG build
   their context from context.Background(): the fence is lost and the save is
   the plain upsert, whatever has become of the row. *)
SaveUnfenced(r) ==
    /\ Looping(r)
    /\ cp' = [gen |-> rs[r].gen, fenced |-> FALSE]
    /\ UNCHANGED <<row, floor, reborn, deferred, up, current, hasSpec, attempts, timer, rs, lock, call, observers, work>>

(* Mutant: only a failed run is written back. *)
ObserveFailureOnly(o) ==
    /\ ~(rs[o.runner].active /\ rs[o.runner].gen = o.gen)
    /\ row' = IF rs[o.runner].status = "failed" THEN Observe(o.gen, "failed") ELSE row
    /\ observers' = observers \ {o}
    /\ UNCHANGED <<cp, floor, reborn, deferred, up, current, hasSpec, attempts, timer, rs, lock, call, work>>

(* The observer wakes when done is closed and writes the runner's status then. *)
ObserveEnd(o) ==
    /\ ~(rs[o.runner].active /\ rs[o.runner].gen = o.gen)
    /\ row' = Observe(o.gen, IF rs[o.runner].status = "running" THEN "completed"
                             ELSE rs[o.runner].status)
    /\ observers' = observers \ {o}
    /\ UNCHANGED <<cp, floor, reborn, deferred, up, current, hasSpec, attempts, timer, rs, lock, call, work>>

-----------------------------------------------------------------------------
(* The process *)

(* Shutdown: StopAll empties the scheduler, stops its runner and the current
   one, and writes "stopped". *)
StopAll ==
    /\ Serving /\ current # None /\ work < MaxWork
    /\ timer' = None
    /\ rs' = StopRunner(StopRunner(rs, timer), current)
    /\ row' = Observe(0, "stopped")
    /\ work' = work + 1
    /\ UNCHANGED <<cp, floor, reborn, deferred, up, current, hasSpec, attempts, lock, call, observers>>

Crash ==
    /\ up /\ work < MaxWork
    /\ work' = work + 1
    /\ up' = FALSE
    /\ current' = None /\ hasSpec' = FALSE /\ attempts' = 0 /\ timer' = None
    /\ rs' = [r \in Runners |-> NewRunner]
    /\ lock' = None
    /\ call' = [a \in Actors |-> Idle]
    /\ observers' = {}
    /\ UNCHANGED <<row, cp, floor, reborn, deferred>>

(* RestoreFromDB registers a runner, StartAll hands it to the scheduler,
   leaves it alone or starts it, as the desired state says. *)
Boot ==
    /\ ~up
    /\ up' = TRUE
    /\ IF ~row.exists
       THEN UNCHANGED <<row, current, hasSpec, timer, call>>
       ELSE LET r == CHOOSE x \in Runners : TRUE IN
            /\ current' = r /\ hasSpec' = TRUE
            /\ timer' = IF deferred THEN r ELSE None
            /\ row' = IF row.desired # "running" THEN Observe(0, row.desired)
                      ELSE IF deferred THEN Observe(0, "scheduled") ELSE row
            /\ call' = IF row.desired = "running" /\ ~deferred
                       THEN [call EXCEPT !["main"] =
                               [Idle EXCEPT !.pc = "have", !.op = "boot", !.runner = r]]
                       ELSE call
    /\ UNCHANGED <<cp, floor, reborn, deferred, attempts, rs, lock, observers, work>>

-----------------------------------------------------------------------------
ActorStep(a) ==
    \/ DesireRunning(a) \/ TakeLock(a) \/ BeginPipelineGeneration(a)
    \/ StartRunner(a) \/ OpenSucceeds(a) \/ OpenFails(a)
    \/ StartFailed(a) \/ Started(a) \/ MarkFailed(a)
    \/ DesireQuiet(a) \/ QuiesceRunner(a) \/ Quiesced(a)
    \/ ReplaceCheckpoint(a)
    \/ \E reset \in BOOLEAN : SaveSpec(a, reset)
    \/ Register(a) \/ Retire(a)
    \/ DeleteRow(a) \/ StopDeleted(a) \/ Unregister(a)

Next ==
    \/ \E c \in Clients : RequestUpdate(c) \/ \E op \in Ops : Request(c, op)
    \/ \E a \in Actors : ActorStep(a)
    \/ Reconcile \/ Rebuild \/ SwapIn \/ Trigger
    \/ \E r \in Runners :
        \/ \E s \in {"failed", "completed"} : RunFinishes(r, s)
        \/ RunEnds(r) \/ SaveCheckpoint(r) \/ SaveUnfenced(r)
    \/ \E o \in observers : ObserveEnd(o)
    \/ StopAll \/ Crash \/ Boot

Spec == Init /\ [][Next]_vars

(* A handler that has started goes on, the goroutines are scheduled, and the
   process is started again after a crash.  No request, trigger, failure or
   end of a run is ever forced. *)
LiveSpec ==
    /\ Spec
    /\ \A a \in Actors : WF_vars(ActorStep(a))
    /\ WF_vars(Rebuild) /\ WF_vars(SwapIn)
    /\ WF_vars(\E o \in observers : ObserveEnd(o))
    /\ WF_vars(Boot)

-----------------------------------------------------------------------------
RowType == [exists : BOOLEAN, desired : Quiet \cup {"running"}, observed : Observed, gen : Nat]
CheckpointType == [gen : Nat, fenced : BOOLEAN]
FloorType == [gen : Nat, going : BOOLEAN]
RunnerType == [status : Status, active : BOOLEAN, gen : Nat]
Points == {"idle", "have", "begin", "start", "opening", "opened", "stopping", "failed", "mark",
           "quiesce", "quiesced", "register", "retire", "deleted", "unregister", "backoff", "swap"}
CallType == [pc : Points, op : AllOps \cup Starts \cup {"none"},
             runner : Runners \cup {None}, old : Runners \cup {None}, gen : Nat]

(* Every variable keeps its type. *)
TypeOK ==
    /\ row \in RowType
    /\ cp \in CheckpointType /\ floor \in FloorType /\ reborn \in BOOLEAN /\ deferred \in BOOLEAN
    /\ up \in BOOLEAN /\ hasSpec \in BOOLEAN /\ attempts \in Nat
    /\ current \in Runners \cup {None} /\ timer \in Runners \cup {None}
    /\ rs \in [Runners -> RunnerType]
    /\ lock \in Actors \cup {None}
    /\ call \in [Actors -> CallType]
    /\ observers \subseteq [runner : Runners, gen : Nat]
    /\ work \in 0..MaxWork

(* A reset, a set or a delete of the checkpoint holds, whoever else is starting,
   stopping or updating the pipeline.  A save that carries the fence never
   replaces it, also when it comes from a run that is still flushing.  And when
   no run was going at the time, the stored checkpoint was written by the
   operation itself or by a run that began after it, whichever way it was
   saved.  A row re-created under a deleted id counts its generations from zero
   again and is not covered. *)
ResetHolds ==
    cp.gen # 0 /\ ~reborn /\ (cp.fenced \/ ~floor.going) => row.exists /\ cp.gen >= floor.gen

(* docs/etl-api.md: "Any in-flight write from an older generation is rejected,
   logged, and counted".  Whatever run was still going at a reset or a set, the
   stored checkpoint is not older than the operation. *)
OlderWritesAreRejected ==
    cp.gen # 0 /\ row.exists /\ ~reborn => cp.gen >= floor.gen

(* The fencing token names one run: two runs that are both still going, on the
   same or on different runner objects, never hold the same generation. *)
OneRunPerGeneration ==
    \A r, q \in Runners :
        r # q /\ rs[r].active /\ rs[q].active /\ ~reborn => rs[r].gen # rs[q].gen

(* lifecycle.go: "Callers must persist desired_state=running before entry".
   No handler, restart, trigger or reboot opens a run of a pipeline whose
   operator wants it stopped or paused. *)
NoRunAgainstIntent ==
    [][\A r \in Runners :
          ~rs[r].active /\ rs'[r].active /\ row.exists => row.desired = "running"]_vars

(* A run that ended is not shown as running for ever: the observer, a later
   start or a restart of the process replaces the observed state, also when
   the run ends before its start is recorded.  Not covered is a row whose
   generation a checkpoint replacement has taken past the run's: the observer
   is fenced then. *)
ShownRunning ==
    /\ row.exists /\ row.observed = "running" /\ row.gen # floor.gen
    /\ \A r \in Runners : ~(rs[r].active /\ rs[r].gen = row.gen)

EndIsObserved == ShownRunning ~> ~ShownRunning

(* orchestrator/scheduler.go: "If the runner is already running (previous tick
   hasn't finished), the trigger is skipped - this is the at-least-once safety
   against overlapping batch runs". At most one runner of the pipeline is
   running, whichever of scheduler and reconciler started it. *)
NoOverlappingRuns ==
    \A r, q \in Runners :
        rs[r].active /\ rs[r].status = "running" /\ rs[q].active /\ rs[q].status = "running" => r = q

=============================================================================
