----------------------------- MODULE ShardedRun -----------------------------
(***************************************************************************)
(* A sharded pipeline run by the master: the distributed mode of            *)
(* ParallelRunner (pipeline/parallel.go) on top of TaskDispatch.  Start     *)
(* creates one task per shard and a goroutine per shard waits for its task  *)
(* in the store; Stop cancels the waiting.                                  *)
(***************************************************************************)
EXTENDS TaskDispatch

CONSTANTS
    MaxStarts       \* bound: calls of Start

\* The shards are numbered from 0.
Shards == Cardinality(Tasks)

ASSUME ShardAssumption ==
    /\ IsFiniteSet(Tasks)
    /\ Tasks = 0 .. Shards - 1
    /\ MaxStarts \in Nat

VARIABLES
    status, runActive,
    ctxDone,    \* the context of the run is cancelled
    created,    \* shards DispatchShards has gone through
    waits,      \* what WaitShard returned for each shard
    finished,   \* history: shards some execution completed since Start
    earlier,    \* history: shards some execution had completed before that
    starts

runner == <<status, runActive, ctxDone, created, waits, finished, earlier, starts>>
vars == <<dispatchVars, runner>>

\* Type invariant.
ShardedTypeOK ==
    /\ TypeOK
    /\ status \in {"stopped", "running", "completed", "failed"}
    /\ runActive \in BOOLEAN
    /\ ctxDone \in BOOLEAN
    /\ created \in 0..Shards
    /\ waits \in [Tasks -> {"waiting", "stopped"} \cup Terminal]
    /\ finished \subseteq Tasks /\ earlier \subseteq Tasks
    /\ starts \in 0..MaxStarts

Init ==
    /\ DispatchInit
    /\ status = "stopped" /\ runActive = FALSE /\ ctxDone = FALSE
    /\ created = 0 /\ waits = [s \in Tasks |-> "waiting"]
    /\ finished = {} /\ earlier = {} /\ starts = 0

\* Start in distributed mode; DispatchShards returns at once for a single shard.
Start ==
    /\ status # "running"
    /\ ~runActive
    /\ starts < MaxStarts
    /\ starts' = starts + 1
    /\ status' = "running" /\ runActive' = TRUE /\ ctxDone' = FALSE
    /\ created' = IF Shards <= 1 THEN Shards ELSE 0
    /\ waits' = [s \in Tasks |-> "waiting"]
    /\ finished' = {} /\ earlier' = earlier \cup finished
    /\ UNCHANGED dispatchVars

\* DispatchShards, the next shard; a failed CreateTask is only logged.
DispatchShards ==
    /\ runActive
    /\ created < Shards
    /\ \/ ~ctxDone /\ CreateTask(created)
       \/ (StoreErrors \/ ctxDone) /\ UNCHANGED dispatchVars
    /\ created' = created + 1
    /\ UNCHANGED <<status, runActive, ctxDone, waits, finished, earlier, starts>>

\* Mutant of WaitShard: only a completed task ends the wait.
WaitShardCompletedOnly(s) ==
    /\ runActive /\ created = Shards
    /\ waits[s] = "waiting"
    /\ \E i \in DOMAIN rows :
          /\ rows[i].task = s
          /\ rows[i].status = "completed"
          /\ waits' = [waits EXCEPT ![s] = "completed"]
    /\ UNCHANGED <<dispatchVars, status, runActive, ctxDone, created, finished, earlier, starts>>

\* WaitShard: GetTask returns one row of the task_id, whichever the store gives.
WaitShard(s) ==
    /\ runActive /\ created = Shards
    /\ waits[s] = "waiting"
    /\ \/ \E i \in DOMAIN rows :
             /\ rows[i].task = s
             /\ rows[i].status \in Terminal
             /\ waits' = [waits EXCEPT ![s] = rows[i].status]
       \/ /\ ctxDone
          /\ waits' = [waits EXCEPT ![s] = "stopped"]
    /\ UNCHANGED <<dispatchVars, status, runActive, ctxDone, created, finished, earlier, starts>>

\* Mutant of TerminalStatus: a failed shard does not fail the run.
TerminalStatusIgnoringFailures == IF ctxDone THEN "stopped" ELSE "completed"

\* The coordinator's terminal status.
TerminalStatus ==
    IF ctxDone THEN "stopped"
    ELSE IF \E s \in Tasks : waits[s] = "failed" THEN "failed" ELSE "completed"

\* The coordinator: every WaitShard has returned; finishRun.
FinishRun ==
    /\ runActive /\ created = Shards
    /\ \A s \in Tasks : waits[s] # "waiting"
    /\ status' = IF status = "running" THEN TerminalStatus ELSE status
    /\ runActive' = FALSE
    /\ UNCHANGED <<dispatchVars, ctxDone, created, waits, finished, earlier, starts>>

Stop ==
    /\ status = "running"
    /\ status' = "stopped"
    /\ ctxDone' = TRUE
    /\ UNCHANGED <<dispatchVars, runActive, created, waits, finished, earlier, starts>>

\* The master process takes its ParallelRunner with it.
MasterRestart ==
    /\ MasterCrash
    /\ status' = "stopped" /\ runActive' = FALSE /\ ctxDone' = FALSE
    /\ created' = 0 /\ waits' = [s \in Tasks |-> "waiting"]
    /\ UNCHANGED <<finished, earlier, starts>>

\* Shards whose execution comes to its end in this step.
Completing == {e.task : e \in {f \in execs' \ execs : f.pc = "mark" /\ f.result = "completed"}}

\* A step of the task protocol leaves the coordinator alone.
BesideTheRun ==
    /\ finished' = finished \cup Completing
    /\ UNCHANGED <<status, runActive, ctxDone, created, waits, earlier, starts>>

Dispatch == (Health \/ (\E w \in Workers : Worker(w)) \/ Execution \/ Tick) /\ BesideTheRun

Next ==
    \/ Start \/ DispatchShards \/ (\E s \in Tasks : WaitShard(s)) \/ FinishRun \/ Stop
    \/ MasterRestart \/ Dispatch

Spec == Init /\ [][Next]_vars

\* DispatchShards goes on, every WaitShard polls, the coordinator finishes, and the
\* fairness of TaskDispatch.
Fairness ==
    /\ WF_vars(DispatchShards)
    /\ \A s \in Tasks : WF_vars(WaitShard(s))
    /\ WF_vars(FinishRun)
    /\ DispatchFairness

-----------------------------------------------------------------------------
(* Properties.                                                              *)

\* A run is reported completed only if every shard was executed to its end: since
\* Start in the first run of a pipeline, and by this or an earlier run in the later
\* ones, which find the rows of the earlier ones (DispatchShards, WaitShard,
\* startDistributed).
CompletedRunDidAll ==
    /\ status = "completed" => finished \cup earlier = Tasks
    /\ starts <= 1 => earlier = {}

\* Once DispatchShards has returned, every shard of the run has a task.
EveryShardHasTask ==
    runActive /\ created = Shards /\ ~ctxDone =>
        \A s \in Tasks : \E i \in DOMAIN rows : rows[i].task = s

\* Every dispatched run comes to an end, whatever workers crash or lose
\* (startDistributed, WaitShard, and everything below them).
DispatchedRunEnds == runActive ~> ~runActive

=============================================================================
