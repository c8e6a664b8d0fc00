---------------------------- MODULE FencingProofs ----------------------------
(***************************************************************************)
(* The generation of a task as a fencing token in TaskDispatch, and what   *)
(* it gives a pipeline run whose shards are tasks (ShardedRun).            *)
(***************************************************************************)
EXTENDS ShardedRun, DispatchProofs

-----------------------------------------------------------------------------
(* The generation stays a fencing token.                                    *)

(* A poll hands out a generation above all that are held. *)
LEMMA PollHolds ==
    ASSUME DispatchInv, NEW w \in Workers, PollTask(w)
    PROVE  HeldOnce' /\ HeldBefore'
  <1> USE DEF DispatchInv, DispatchType, Fencing, TypeOK
  <1>1. PICK answered \in BOOLEAN : AssignNextTask(w, answered)
    BY DispatchAssumption, Zenon DEF PollTask
  <1>2. PICK i \in DOMAIN rows :
           /\ rows[i].status = "pending"
           /\ \A j \in DOMAIN rows :
                 rows'[j] = IF /\ rows[j].task = rows[i].task
                               /\ rows[j].status = "pending"
                               /\ rows[j].gen = rows[i].gen
                            THEN Claimed(w, rows[j]) ELSE rows[j]
           /\ polled' = IF answered
                        THEN polled \cup {[worker |-> w, task |-> rows[i].task,
                                           gen |-> rows[i].gen + 1,
                                           attempt |-> rows[i].attempt + 1, age |-> 0]}
                        ELSE polled
    BY <1>1, AssignedRows, SMT, Z3
  <1>3. DOMAIN rows' = DOMAIN rows
    BY <1>1, AssignedRows
  <1>4. execs' = execs
    BY DEF PollTask
  <1>5. \A j \in DOMAIN rows : rows[j] \in Row /\ rows[j].gen \in Nat
    BY RowType, SMTT(40), Z3T(40) DEF Row
  <1>6. \A j \in DOMAIN rows : rows'[j].task = rows[j].task /\ rows'[j].gen >= rows[j].gen
    BY <1>2, <1>5, ClaimedType, SMTT(40), Z3T(40) DEF PendingHasBudget
  <1>7. rows'[i].gen = rows[i].gen + 1
    BY <1>2, <1>5, ClaimedType, SMTT(40), Z3T(40) DEF PendingHasBudget
  <1> DEFINE c == [worker |-> w, task |-> rows[i].task, gen |-> rows[i].gen + 1,
                   attempt |-> rows[i].attempt + 1, age |-> 0]
  <1>8. c.task = rows[i].task /\ c.gen = rows[i].gen + 1 /\ polled' \subseteq polled \cup {c}
    BY <1>2, ZenonT(40)
  <1> HIDE DEF c
  <1>9. \A h \in polled \cup execs : h.gen \in Nat
    BY SMTT(40), Z3T(40) DEF Claim, Exec
  <1>10. \A h \in polled \cup execs : h.task = c.task => h.gen < c.gen
    BY <1>5, <1>8, <1>9, SMTT(40), Z3T(40) DEF HeldBefore, OneRow
  <1>11. HeldOnce'
    <2>1. \A e, f \in execs' : e # f /\ e.task = f.task => e.gen # f.gen
      BY <1>4 DEF HeldOnce, GenerationIsUnique
    <2>2. \A b \in polled', e \in execs' : b.task = e.task => b.gen # e.gen
      BY <1>4, <1>5, <1>8, <1>9, <1>10, SMTT(40), Z3T(40) DEF HeldOnce
    <2>3. \A b, d \in polled' : b # d /\ b.task = d.task => b.gen # d.gen
      BY <1>5, <1>8, <1>9, <1>10, SMTT(40), Z3T(40) DEF HeldOnce
    <2> QED
      BY <2>1, <2>2, <2>3 DEF HeldOnce, GenerationIsUnique
  <1>12. HeldBefore'
    <2> SUFFICES ASSUME NEW h \in polled' \cup execs'
                 PROVE  \E j \in DOMAIN rows' : rows'[j].task = h.task /\ h.gen <= rows'[j].gen
      BY SMTT(40), Z3T(40) DEF HeldBefore
    <2>1. CASE h = c
      BY <1>3, <1>5, <1>6, <1>7, <1>8, <2>1, SMTT(40), Z3T(40)
    <2>2. CASE h \in polled \cup execs
      <3>1. PICK j \in DOMAIN rows : rows[j].task = h.task /\ h.gen <= rows[j].gen
        BY <2>2, Zenon DEF HeldBefore
      <3>2. rows'[j].gen \in Nat
        BY <1>2, <1>5, <3>1, ClaimedType, SMT, Z3 DEF PendingHasBudget
      <3> QED
        BY <1>3, <1>5, <1>6, <1>9, <2>2, <3>1, <3>2, SMTT(40), Z3T(40)
    <2> QED
      BY <1>4, <1>8, <2>1, <2>2, SMTT(40), Z3T(40)
  <1> QED
    BY <1>11, <1>12, SMTT(40), Z3T(40)

LEMMA FencingKept ==
    ASSUME DispatchInv, ~StoreErrors, MaxRows = 1, [DispatchNext]_dispatchVars
    PROVE  Fencing'
  <1> USE DEF DispatchInv, DispatchType, Fencing, TypeOK
  <1>1. OneRow' /\ RowsGoOn
    BY RowsOfOneDispatch
  <1>2. rows' \in Seq(Row)
    BY DispatchTypeKept
  <1>3. \A j \in DOMAIN rows' : rows'[j].gen \in Nat
    <2>1. \A j \in DOMAIN rows' : rows'[j] \in Row
      BY <1>2, SMT, Z3
    <2> QED
      BY <2>1, SMTT(40), Z3T(40) DEF Row
  <1>4. HeldOnce' /\ HeldBefore'
    <2>1. CASE Polls
      BY <2>1, PollHolds DEF Polls
    <2>2. CASE ~Polls
      <3>1. HeldOnce' /\ HoldersRemain
        BY <2>2, HoldersKept, Zenon, Z3T(40)
      <3>2. HeldBefore'
        <4> SUFFICES ASSUME NEW h \in polled' \cup execs'
                     PROVE  \E j \in DOMAIN rows' : rows'[j].task = h.task /\ h.gen <= rows'[j].gen
          BY DEF HeldBefore
        <4>1. PICK g \in polled \cup execs : g.task = h.task /\ g.gen = h.gen
          BY <3>1, SMTT(40), Z3T(40) DEF HoldersRemain
        <4>2. g.gen \in Nat
          BY <4>1, SMTT(40), Z3T(40) DEF Claim, Exec
        <4>3. PICK j \in DOMAIN rows : rows[j].task = g.task /\ g.gen <= rows[j].gen
          BY <4>1, SMTT(40), Z3T(40) DEF HeldBefore
        <4>4. rows[j].gen \in Nat
          BY <4>3, RowType, SMTT(40), Z3T(40) DEF Row
        <4>5. j \in DOMAIN rows' /\ rows'[j].task = rows[j].task /\ rows'[j].gen >= rows[j].gen
          BY <1>1, <4>3, SMTT(40), Z3T(40) DEF RowsGoOn
        <4> QED
          BY <1>3, <4>1, <4>2, <4>3, <4>4, <4>5, SMTT(40), Z3T(40)
      <3> QED
        BY <3>1, <3>2, SMTT(40), Z3T(40)
    <2> QED
      BY <2>1, <2>2, SMTT(40), Z3T(40)
  <1>5. ListIsCurrent'
    <2>1. CASE Polls
      BY <2>1, SMTT(40), Z3T(40) DEF Polls, PollTask, DispatcherFree, ListIsCurrent, health
    <2>2. CASE Creates
      <3>1. PICK t \in Tasks : CreateTask(t)
        BY <2>2 DEF Creates
      <3> DEFINE r == [task |-> t, status |-> "pending", worker |-> NoWorker,
                       gen |-> 0, attempt |-> 0, age |-> 0]
      <3>2. r \in Row /\ rows' = Append(rows, r)
        BY <3>1, DispatchAssumption, SMT, Z3 DEF Row, CreateTask
      <3> HIDE DEF r
      <3>3. DOMAIN rows \subseteq DOMAIN rows' /\ \A i \in DOMAIN rows : rows'[i] = rows[i]
        BY <3>2, AppendedRows, Zenon, Z3T(40)
      <3>4. UNCHANGED <<mpc, stale>>
        BY <3>1 DEF CreateTask, health
      <3> QED
        BY <3>3, <3>4, ZenonT(40) DEF ListIsCurrent
    <2>3. CASE ~Polls /\ ~Creates
      <3>1. KeepsGenerations
        BY <2>3, GenerationsKept, Zenon, Z3T(40)
      <3>2. CASE ListStaleTasks
        <4>1. UNCHANGED rows /\ stale' \subseteq {rows[i] : i \in DOMAIN rows}
          BY <3>2, SMTT(40), Z3T(40) DEF ListStaleTasks, store
        <4> QED
          BY <4>1, Zenon, Z3T(40) DEF ListIsCurrent
      <3>3. CASE mpc' = "requeue" => mpc = "requeue" /\ stale' \subseteq stale
        BY <3>1, <3>3, SMTT(40), Z3T(40) DEF ListIsCurrent, KeepsGenerations
      <3>4. ListStaleTasks \/ (mpc' = "requeue" => mpc = "requeue" /\ stale' \subseteq stale)
        <4>1. ASSUME NEW w \in Workers, Worker(w) PROVE UNCHANGED health
          BY <4>1, ZenonT(40)
             DEF Worker, WorkerStart, Heartbeat, HeartbeatFailed, PollTask, WorkerStop, WorkerExit,
                      WorkerCrash, ProcessEnds, health
        <4>2. CASE Execution
          BY <4>2, Zenon DEF Execution, CasMarkRunning, ExecuteShard, CasMarkTerminal, ReportTaskResult,
                      ExecInterrupted, health
        <4>3. CASE Health
          BY <4>3 DEF Health, CheckWorkerHealth, MarkOffline, ReassignStaleTask
        <4>4. CASE (\E w \in Workers : Worker(w)) \/ Tick \/ UNCHANGED dispatchVars
          <5>1. UNCHANGED health
            BY <4>1, <4>4 DEF Tick, dispatchVars
          <5> QED
            BY <5>1 DEF health
        <4>5. CASE MasterCrash
          BY <4>5 DEF MasterCrash
        <4> QED
          BY <2>3, <4>2, <4>3, <4>4, <4>5, Zenon DEF DispatchNext, Creates
      <3> QED
        BY <3>2, <3>3, <3>4, Zenon, Z3T(40)
    <2> QED
      BY <2>1, <2>2, <2>3, SMTT(40), Z3T(40)
  <1> QED
    BY <1>1, <1>4, <1>5

LEMMA DispatchInvariance ==
    ASSUME ~StoreErrors, MaxRows = 1
    PROVE  DispatchSpec => []DispatchInv
  <1>1. DispatchInit => DispatchInv
    <2> SUFFICES ASSUME DispatchInit
                 PROVE  DispatchInv
      OBVIOUS
    <2>1. rows = << >> /\ polled = {} /\ execs = {}
      BY Zenon DEF DispatchInit
    <2>2. HeldBefore /\ HeldOnce /\ Recorded
      BY <2>1, Zenon DEF HeldBefore, HeldOnce, Recorded, GenerationIsUnique
    <2>3. OneRow
      BY <2>1, SMT, Z3 DEF OneRow
    <2> QED
      BY <2>2, <2>3, InitDispatchType, Zenon DEF DispatchInv, Fencing, ListIsCurrent, DispatchInit
  <1>2. DispatchInv /\ [DispatchNext]_dispatchVars => DispatchInv'
    BY DispatchTypeKept, RecordedKept, FencingKept DEF DispatchInv, DispatchType
  <1> QED
    BY <1>1, <1>2, PTL DEF DispatchSpec

(* The generation ClaimTask hands out is a fencing token: whatever workers, master
   and network do, two live executions of a task never carry the same one, for a
   pipeline that is dispatched once on a store whose calls do not fail. *)
THEOREM FencingToken ==
    ASSUME ~StoreErrors, MaxRows = 1
    PROVE  DispatchSpec => []GenerationIsUnique
  <1>1. DispatchInv => GenerationIsUnique
    BY DEF DispatchInv, Fencing, HeldOnce
  <1> QED
    BY <1>1, DispatchInvariance, PTL

(* No step takes a generation back: neither a worker's fenced update nor the requeue
   the master writes from its earlier listing, which is still current because
   ReassignStaleTasks holds the dispatcher's lock. *)
THEOREM GenerationsGrow ==
    ASSUME ~StoreErrors, MaxRows = 1
    PROVE  DispatchSpec => GenerationNeverFalls
  <1>1. DispatchInv /\ [DispatchNext]_dispatchVars => [RowsKeepTheirGeneration]_dispatchVars
    BY RowsOfOneDispatch, SMTT(40), Z3T(40) DEF RowsGoOn, RowsKeepTheirGeneration
  <1> QED
    BY <1>1, DispatchInvariance, PTL DEF DispatchSpec, GenerationNeverFalls

-----------------------------------------------------------------------------
(* Results.  This holds with store errors and repeated dispatches as well.  *)

LEMMA ResultsKept ==
    ASSUME DispatchType, Recorded, ResultIsGenuine, [DispatchNext]_dispatchVars
    PROVE  ResultIsGenuine'
  <1> USE DEF DispatchType, TypeOK
  <1>0. rows \in Seq(Row) /\ \A i \in DOMAIN rows : rows[i] \in Row
    BY RowType, SMTT(40), Z3T(40)
  <1>1. CASE UNCHANGED rows /\ outcomes \subseteq outcomes'
    BY <1>1, Zenon DEF ResultIsGenuine
  <1> DEFINE Genuine(r) ==
        r.status \in Terminal =>
            \/ r.status = "failed" /\ r.attempt = MaxAttempts
            \/ \E o \in outcomes : o.task = r.task /\ o.gen = r.gen /\ o.result = r.status
  <1>2. ASSUME NEW r \in Row, Genuine(r), rows' \in {rows, UpdateTask(r), CASUpdateTask(r)},
               outcomes' = outcomes
        PROVE  ResultIsGenuine'
    <2>1. DOMAIN rows' = DOMAIN rows
      BY <1>0, <1>2, UpdatedRows, SMTT(40), Z3T(40)
    <2>2. \A i \in DOMAIN rows : rows'[i] = rows[i] \/ rows'[i] = r
      BY <1>2, SMTT(40), Z3T(40) DEF UpdateTask, CASUpdateTask
    <2>3. \A i \in DOMAIN rows : Genuine(rows[i])
      BY DEF ResultIsGenuine
    <2> QED
      BY <1>2, <2>1, <2>2, <2>3, ZenonT(40) DEF ResultIsGenuine
  <1>3. ASSUME NEW c \in polled, CasMarkRunning(c) PROVE ResultIsGenuine'
    <2>1. RunningRow(c) \in Row /\ RunningRow(c).status = "running"
      BY RunningRowType
    <2>2. rows' \in {rows, UpdateTask(RunningRow(c)), CASUpdateTask(RunningRow(c))} /\ outcomes' = outcomes
      BY <1>3 DEF CasMarkRunning, RunningRow, history
    <2>3. Genuine(RunningRow(c))
      BY <2>1, SMTT(40), Z3T(40) DEF Terminal
    <2> QED
      BY <1>2, <2>1, <2>2, <2>3, Zenon
  <1>4. ASSUME NEW e \in execs, CasMarkTerminal(e) \/ ReportTaskResult(e) PROVE ResultIsGenuine'
    <2>1. Outcome(e) \in outcomes /\ e.result \in Terminal
      BY <1>4, SMTT(40), Z3T(40) DEF CasMarkTerminal, ReportTaskResult, Recorded, Outcome
    <2> DEFINE r == RowOf(e, e.result)
    <2>2. r \in Row /\ r.task = e.task /\ r.gen = e.gen /\ r.status = e.result
      <3>1. r \in Row
        BY <2>1, RowOfType, Zenon DEF Exec
      <3> QED
        BY <3>1, SMTT(40), Z3T(40) DEF RowOf
    <2>3. rows' \in {rows, UpdateTask(r), CASUpdateTask(r)} /\ outcomes' = outcomes
      BY <1>4 DEF CasMarkTerminal, ReportTaskResult, history
    <2>4. Genuine(r)
      <3>1. Outcome(e).task = r.task /\ Outcome(e).gen = r.gen /\ Outcome(e).result = r.status
        BY <2>2, SMTT(40), Z3T(40) DEF Outcome
      <3> QED
        BY <2>1, <3>1, Zenon
    <2> QED
      BY <1>2, <2>2, <2>3, <2>4, Zenon
  <1>5. ASSUME NEW r \in stale, ReassignStaleTask(r) PROVE ResultIsGenuine'
    <2>1. Requeued(r) \in Row /\ Genuine(Requeued(r))
      BY RequeuedType DEF Terminal
    <2>2. rows' \in {rows, UpdateTask(Requeued(r))} /\ outcomes' = outcomes
      BY <1>5, Zenon DEF ReassignStaleTask, history
    <2> QED
      BY <1>2, <2>1, <2>2, Zenon
  <1>6. CASE Creates
    <2>1. PICK t \in Tasks : CreateTask(t)
      BY <1>6 DEF Creates
    <2> DEFINE r == [task |-> t, status |-> "pending", worker |-> NoWorker,
                     gen |-> 0, attempt |-> 0, age |-> 0]
    <2>2. r \in Row /\ rows' = Append(rows, r) /\ r.status \notin Terminal /\ outcomes' = outcomes
      BY <2>1, DispatchAssumption, SMTT(40), Z3T(40) DEF Row, CreateTask, Terminal, history
    <2> HIDE DEF r
    <2>3. /\ DOMAIN rows' = DOMAIN rows \cup {Len(rows) + 1}
          /\ rows'[Len(rows) + 1] = r
          /\ \A i \in DOMAIN rows : rows'[i] = rows[i]
      BY <1>0, <2>2, AppendedRows, Zenon
    <2>4. ASSUME NEW i \in DOMAIN rows', rows'[i].status \in Terminal
          PROVE  i \in DOMAIN rows /\ rows'[i] = rows[i]
      BY <2>2, <2>3, <2>4, Zenon
    <2> QED
      BY <2>2, <2>4, SMTT(40), Z3T(40) DEF ResultIsGenuine
  <1>7. CASE Polls
    <2>1. PICK w \in Workers : PollTask(w)
      BY <1>7 DEF Polls
    <2>2. PICK answered \in BOOLEAN : AssignNextTask(w, answered)
      BY <2>1, DispatchAssumption, ZenonT(40) DEF PollTask
    <2>3. DOMAIN rows' = DOMAIN rows /\ \A j \in DOMAIN rows :
             rows'[j] = rows[j] \/ (rows[j].status = "pending" /\ rows'[j] = Claimed(w, rows[j]))
      BY <2>2, AssignedRows, Zenon
    <2>4. \A j \in DOMAIN rows : rows'[j] = rows[j] \/ rows'[j].status \notin Terminal
      BY <1>0, <2>3, ClaimedType, SMTT(40), Z3T(40) DEF PendingHasBudget, Terminal
    <2>5. outcomes' = outcomes
      BY <2>1, SMTT(40), Z3T(40) DEF PollTask, history
    <2> QED
      BY <2>3, <2>4, <2>5, SMTT(40), Z3T(40) DEF ResultIsGenuine
  <1>8. CASE Tick
    <2>1. DOMAIN rows' = DOMAIN rows /\ outcomes' = outcomes
      BY <1>8 DEF Tick, history
    <2>2. \A i \in DOMAIN rows : /\ rows'[i].status = rows[i].status /\ rows'[i].attempt = rows[i].attempt
                                 /\ rows'[i].task = rows[i].task /\ rows'[i].gen = rows[i].gen
      BY <1>0, <1>8 DEF Tick, Row
    <2> QED
      BY <2>1, <2>2, ZenonT(40) DEF ResultIsGenuine
  <1>9. ASSUME NEW w \in Workers, Worker(w), ~Polls PROVE ResultIsGenuine'
    BY <1>1, <1>9, Zenon DEF Polls, Worker, WorkerStart, Heartbeat, HeartbeatFailed, WorkerStop, WorkerExit,
                      WorkerCrash, ProcessEnds, store, history
  <1>10. ASSUME NEW e \in execs, NEW result \in Terminal, ExecuteShard(e, result) \/ ExecInterrupted(e)
         PROVE  ResultIsGenuine'
    BY <1>1, <1>10, ZenonT(40), Z3T(40) DEF ExecuteShard, ExecInterrupted, store, history
  <1>11. CASE MasterCrash \/ CheckWorkerHealth \/ ListStaleTasks \/ (\E w \in Workers : MarkOffline(w))
              \/ UNCHANGED dispatchVars
    BY <1>1, <1>11, SMTT(40), Z3T(40)
       DEF MasterCrash, CheckWorkerHealth, ListStaleTasks, MarkOffline, dispatchVars, store, history
  <1>12. CASE Execution
    <2>1. "completed" \in Terminal
      BY DEF Terminal
    <2> QED
      BY <1>3, <1>4, <1>10, <1>12, <2>1, Zenon DEF Execution
  <1> QED
    BY <1>5, <1>6, <1>7, <1>8, <1>9, <1>11, <1>12, ZenonT(40) DEF DispatchNext, Health, Creates

(* A task is completed or failed by the execution of its current generation, or
   failed by the master with its attempts used up: CASUpdateTask keeps out the result
   of an owner that lost the task.  This needs no assumption on the store. *)
THEOREM ResultsAreGenuine == DispatchSpec => []ResultIsGenuine
  <1> DEFINE I == DispatchType /\ Recorded /\ ResultIsGenuine
  <1>1. DispatchInit => I
    BY InitDispatchType, SMT, Z3 DEF DispatchInit, Recorded, ResultIsGenuine
  <1>2. I /\ [DispatchNext]_dispatchVars => I'
    BY DispatchTypeKept, RecordedKept, ResultsKept DEF DispatchType
  <1>3. I => ResultIsGenuine
    OBVIOUS
  <1> HIDE DEF I
  <1> QED
    BY <1>1, <1>2, <1>3, PTL DEF DispatchSpec

-----------------------------------------------------------------------------
(* The sharded run on top of the task protocol.                             *)

LEMMA ShardsType == Shards \in Nat
  <1>1. IsFiniteSet(Tasks)
    BY ShardAssumption, Zenon
  <1> QED
    BY <1>1, FiniteCount, Zenon DEF Shards

CreatedType == created \in 0..Shards

LEMMA CreatedTypeKept ==
    ASSUME CreatedType, [Next]_vars
    PROVE  CreatedType'
  BY ShardsType, SMT, Z3
     DEF CreatedType, Next, Start, DispatchShards, WaitShard, FinishRun, Stop, MasterRestart,
                    Dispatch, BesideTheRun, vars, runner

LEMMA ShardedStepDispatches ==
    ASSUME CreatedType, [Next]_vars
    PROVE  [DispatchNext]_dispatchVars
  <1>1. CASE DispatchShards
    <2>1. created < Shards => created \in Tasks
      BY ShardsType, ShardAssumption, SMT, Z3 DEF CreatedType
    <2> QED
      BY <1>1, <2>1 DEF DispatchShards, DispatchNext
  <1>2. CASE ~DispatchShards
    BY <1>2, Zenon DEF Next, Start, WaitShard, FinishRun, Stop, MasterRestart, Dispatch, DispatchNext, vars
  <1> QED
    BY <1>1, <1>2

(* A sharded run takes no step with tasks, workers and the store that the task
   protocol does not know: ParallelRunner and WaitShard only create tasks and read
   them, so what is shown of TaskDispatch holds in ShardedRun. *)
THEOREM ShardedRunDispatches == Spec => DispatchSpec
  <1>1. Init => DispatchInit /\ CreatedType
    BY ShardsType, SMT, Z3 DEF Init, CreatedType
  <1>2. CreatedType /\ [Next]_vars => CreatedType'
    BY CreatedTypeKept
  <1>3. CreatedType /\ [Next]_vars => [DispatchNext]_dispatchVars
    BY ShardedStepDispatches, SMTT(40), Z3T(40)
  <1> QED
    BY <1>1, <1>2, <1>3, PTL DEF Spec, DispatchSpec

(* Where completed rows and executions come from. *)
DoneRow(i) == rows[i].status = "completed"
DoneExec(e) == e.pc # "executing" /\ e.result = "completed"

LEMMA CompletedExecs ==
    ASSUME TypeOK, [DispatchNext]_dispatchVars, NEW f \in execs', DoneExec(f)
    PROVE  \/ \E e \in execs : DoneExec(e) /\ e.task = f.task
           \/ f \in execs' \ execs /\ f.pc = "mark"
  <1> USE DEF DoneExec
  <1>1. CASE execs' \subseteq execs
    BY <1>1, SMTT(40), Z3T(40)
  <1>2. ASSUME NEW c \in polled, CasMarkRunning(c) PROVE f \in execs
    <2>1. execs' = execs \/ execs' = execs \cup {StartedOf(c)}
      BY <1>2 DEF CasMarkRunning, StartedOf
    <2> QED
      BY <2>1, SMT, Z3 DEF StartedOf
  <1>3. ASSUME NEW e \in execs, NEW result \in Terminal, ExecuteShard(e, result)
        PROVE  f \in execs \/ f.pc = "mark"
    BY <1>3, Zenon DEF ExecuteShard, TypeOK, Exec
  <1>4. ASSUME NEW e \in execs, CasMarkTerminal(e)
        PROVE  f \in execs \/ (DoneExec(e) /\ e.task = f.task)
    BY <1>4 DEF CasMarkTerminal, TypeOK, Exec
  <1>5. ASSUME NEW w \in Workers, Worker(w) PROVE execs' \subseteq execs
    BY <1>5, Zenon DEF Worker, WorkerStart, Heartbeat, HeartbeatFailed, PollTask, WorkerStop, WorkerExit,
                WorkerCrash, ProcessEnds, workers
  <1>6. CASE Execution
    <2>1. ASSUME NEW e \in execs, ReportTaskResult(e) \/ ExecInterrupted(e) PROVE execs' \subseteq execs
      BY <2>1 DEF ReportTaskResult, ExecInterrupted
    <2> QED
      BY <1>1, <1>2, <1>3, <1>4, <1>6, <2>1, ZenonT(40) DEF Execution
  <1>7. CASE MasterCrash \/ Health \/ Tick \/ Creates \/ UNCHANGED dispatchVars
    BY <1>1, <1>7, ZenonT(40) DEF MasterCrash, Health, CheckWorkerHealth, MarkOffline, ListStaleTasks,
                      ReassignStaleTask, Tick, Creates, CreateTask, dispatchVars, workers
  <1> QED
    BY <1>1, <1>5, <1>6, <1>7, Zenon, Z3T(40) DEF DispatchNext, Creates

LEMMA CompletedRows ==
    ASSUME DispatchType, Recorded, [DispatchNext]_dispatchVars,
           NEW i \in DOMAIN rows', rows'[i].status = "completed"
    PROVE  \/ \E j \in DOMAIN rows : DoneRow(j) /\ rows[j].task = rows'[i].task
           \/ \E e \in execs : DoneExec(e) /\ e.task = rows'[i].task
  <1> USE DEF DispatchType, TypeOK, DoneRow, DoneExec
  <1>0. rows \in Seq(Row) /\ \A j \in DOMAIN rows : rows[j] \in Row
    BY RowType, SMTT(40), Z3T(40)
  <1> DEFINE Kept == i \in DOMAIN rows /\ rows'[i].status = rows[i].status /\ rows'[i].task = rows[i].task
  <1>1. CASE UNCHANGED rows
    BY <1>1, Zenon
  <1>2. ASSUME NEW r \in Row, rows' \in {rows, UpdateTask(r), CASUpdateTask(r)}
        PROVE  Kept \/ rows'[i] = r
    BY <1>0, <1>2, UpdatedRows, Zenon DEF UpdateTask, CASUpdateTask
  <1>3. ASSUME NEW c \in polled, CasMarkRunning(c) PROVE Kept
    <2>1. RunningRow(c) \in Row /\ RunningRow(c).status = "running"
      BY RunningRowType
    <2>2. rows' \in {rows, UpdateTask(RunningRow(c)), CASUpdateTask(RunningRow(c))}
      BY <1>3, Zenon DEF CasMarkRunning, RunningRow
    <2> QED
      BY <1>2, <2>1, <2>2, ZenonT(40)
  <1>4. ASSUME NEW e \in execs, CasMarkTerminal(e) \/ ReportTaskResult(e)
        PROVE  Kept \/ (DoneExec(e) /\ e.task = rows'[i].task)
    <2>1. e.result \in Terminal /\ e.pc # "executing"
      BY <1>4, Zenon DEF CasMarkTerminal, ReportTaskResult, Recorded, Outcome
    <2>2. RowOf(e, e.result) \in Row /\ RowOf(e, e.result).task = e.task /\ RowOf(e, e.result).status = e.result
      <3>1. RowOf(e, e.result) \in Row
        BY <2>1, RowOfType DEF Exec
      <3> QED
        BY <3>1, Zenon DEF RowOf
    <2>3. rows' \in {rows, UpdateTask(RowOf(e, e.result)), CASUpdateTask(RowOf(e, e.result))}
      BY <1>4, Zenon DEF CasMarkTerminal, ReportTaskResult
    <2> QED
      BY <1>2, <2>1, <2>2, <2>3
  <1>5. ASSUME NEW r \in stale, ReassignStaleTask(r) PROVE Kept
    <2>1. Requeued(r) \in Row /\ Requeued(r).status \in {"pending", "failed"}
      BY RequeuedType, Zenon
    <2>2. rows' \in {rows, UpdateTask(Requeued(r)), CASUpdateTask(Requeued(r))}
      BY <1>5, Zenon DEF ReassignStaleTask
    <2> QED
      BY <1>2, <2>1, <2>2, Zenon
  <1>6. CASE Creates
    <2>1. PICK t \in Tasks : CreateTask(t)
      BY <1>6, Zenon DEF Creates
    <2> DEFINE r == [task |-> t, status |-> "pending", worker |-> NoWorker,
                     gen |-> 0, attempt |-> 0, age |-> 0]
    <2>2. r \in Row /\ rows' = Append(rows, r) /\ r.status = "pending"
      BY <2>1, DispatchAssumption, SMTT(40), Z3T(40) DEF Row, CreateTask
    <2> HIDE DEF r
    <2> QED
      BY <1>0, <2>2, AppendedRows, SMTT(40), Z3T(40)
  <1>7. CASE Polls
    <2>1. PICK w \in Workers : \E answered \in BOOLEAN : AssignNextTask(w, answered)
      BY <1>7, DispatchAssumption, ZenonT(40) DEF Polls, PollTask
    <2>2. DOMAIN rows' = DOMAIN rows /\ \A j \in DOMAIN rows :
             rows'[j] = rows[j] \/ (rows[j].status = "pending" /\ rows'[j] = Claimed(w, rows[j]))
      BY <2>1, AssignedRows, Zenon
    <2> QED
      BY <1>0, <2>2, ClaimedType, SMT, Z3 DEF PendingHasBudget
  <1>8. CASE Tick
    <2>1. Kept
      BY <1>0, <1>8, ZenonT(40) DEF Tick, Row
    <2> QED
      BY <2>1
  <1>9. ASSUME NEW w \in Workers, Worker(w), ~Polls PROVE UNCHANGED rows
    BY <1>9 DEF Polls, Worker, WorkerStart, Heartbeat, HeartbeatFailed, WorkerStop, WorkerExit,
                WorkerCrash, ProcessEnds, store
  <1>10. ASSUME NEW e \in execs, NEW result \in Terminal, ExecuteShard(e, result) \/ ExecInterrupted(e)
         PROVE  UNCHANGED rows
    BY <1>10, ZenonT(40) DEF ExecuteShard, ExecInterrupted, store
  <1>11. CASE MasterCrash \/ CheckWorkerHealth \/ ListStaleTasks \/ (\E w \in Workers : MarkOffline(w))
              \/ UNCHANGED dispatchVars
    BY <1>1, <1>11, SMTT(40), Z3T(40)
       DEF MasterCrash, CheckWorkerHealth, ListStaleTasks, MarkOffline, dispatchVars, store
  <1>12. CASE Execution
    <2>1. "completed" \in Terminal
      BY Zenon DEF Terminal
    <2> QED
      BY <1>1, <1>3, <1>4, <1>10, <1>12, <2>1, ZenonT(40) DEF Execution
  <1> QED
    BY <1>1, <1>5, <1>6, <1>7, <1>8, <1>9, <1>11, <1>12, ZenonT(40) DEF DispatchNext, Health, Creates

(* Until the pipeline is started there is nothing to execute, and nothing was
   executed before its first run. *)
NothingBefore ==
    /\ starts = 0 => /\ ~runActive /\ status # "completed" /\ DOMAIN rows = {} /\ polled = {} /\ execs = {}
                     /\ finished = {}
    /\ starts <= 1 => earlier = {}

LEMMA NothingBeforeKept ==
    ASSUME NothingBefore, starts \in Nat, [Next]_vars
    PROVE  NothingBefore'
  <1>a. starts' <= 1 => earlier' = {}
    <2>1. CASE Start
      BY <2>1, SMT, Z3 DEF NothingBefore, Start
    <2>2. CASE ~Start
      <3>1. earlier' = earlier /\ starts' = starts
        BY <2>2, Zenon
           DEF Next, DispatchShards, WaitShard, FinishRun, Stop, MasterRestart, Dispatch, BesideTheRun,
               vars, runner
      <3> QED
        BY <3>1 DEF NothingBefore
    <2> QED
      BY <2>1, <2>2
  <1> SUFFICES ASSUME starts' = 0
               PROVE  /\ ~runActive' /\ status' # "completed" /\ DOMAIN rows' = {} /\ polled' = {}
                      /\ execs' = {} /\ finished' = {}
    BY <1>a, Zenon DEF NothingBefore
  <1>1. CASE Start \/ DispatchShards \/ (\E s \in Tasks : WaitShard(s)) \/ FinishRun
    BY <1>1, SMTT(40), Z3T(40) DEF NothingBefore, Start, DispatchShards, WaitShard, FinishRun
  <1>2. CASE Stop \/ MasterRestart \/ UNCHANGED vars
    BY <1>2, SMT, Z3
       DEF NothingBefore, Stop, MasterRestart, MasterCrash, vars, runner, dispatchVars, store, workers
  <1>3. CASE Dispatch
    <2>1. starts = 0 /\ UNCHANGED <<status, runActive>>
      BY <1>3 DEF Dispatch, BesideTheRun
    <2>2. DOMAIN rows = {} /\ polled = {} /\ execs = {}
      BY <2>1 DEF NothingBefore
    <2>3. ~Execution
      BY <2>2 DEF Execution
    <2>4. ASSUME NEW w \in Workers, Worker(w) PROVE DOMAIN rows' = {} /\ polled' = {} /\ execs' = {}
      <3>1. ~PollTask(w)
        BY <2>2, ZenonT(40) DEF PollTask, AssignNextTask
      <3>2. rows' = rows /\ polled' \subseteq polled /\ execs' \subseteq execs
        BY <2>4, <3>1, Zenon
           DEF Worker, WorkerStart, Heartbeat, HeartbeatFailed, WorkerStop, WorkerExit, WorkerCrash,
                          ProcessEnds, workers, store
      <3> QED
        BY <2>2, <3>2, SMTT(40), Z3T(40)
    <2>5. ASSUME Health PROVE DOMAIN rows' = {} /\ polled' = {} /\ execs' = {}
      <3>1. UNCHANGED workers
        BY <2>5, ZenonT(40) DEF Health, CheckWorkerHealth, MarkOffline, ListStaleTasks, ReassignStaleTask
      <3>2. rows' = rows \/ \E r \in stale : rows' = UpdateTask(Requeued(r))
        BY <2>5 DEF Health, CheckWorkerHealth, MarkOffline, ListStaleTasks, ReassignStaleTask, store
      <3>3. DOMAIN rows' = {}
        BY <2>2, <3>2 DEF UpdateTask
      <3> QED
        BY <2>2, <3>1, <3>3, Zenon DEF workers
    <2>6. ASSUME Tick PROVE DOMAIN rows' = {} /\ polled' = {} /\ execs' = {}
      BY <2>2, <2>6 DEF Tick
    <2>7. DOMAIN rows' = {} /\ polled' = {} /\ execs' = {}
      BY <1>3, <2>3, <2>4, <2>5, <2>6, ZenonT(40) DEF Dispatch
    <2>8. finished' = {}
      <3>1. Completing = {}
        BY <2>7 DEF Completing
      <3>2. finished = {}
        BY <2>1 DEF NothingBefore
      <3> QED
        BY <1>3, <3>1, <3>2, Zenon DEF Dispatch, BesideTheRun
    <2> QED
      BY <2>1, <2>7, <2>8, Zenon DEF NothingBefore
  <1> QED
    BY <1>1, <1>2, <1>3 DEF Next

ShardType ==
    /\ waits \in [Tasks -> {"waiting", "stopped"} \cup Terminal]
    /\ finished \subseteq Tasks /\ earlier \subseteq Tasks
    /\ starts \in Nat
    /\ CreatedType

EverFinished == finished \cup earlier

(* What counts as done for the run was executed to its end, since its start or
   before. *)
DoneIsFinished ==
    /\ \A i \in DOMAIN rows : DoneRow(i) => rows[i].task \in EverFinished
    /\ \A e \in execs : DoneExec(e) => e.task \in EverFinished
    /\ \A s \in Tasks : waits[s] = "completed" => s \in EverFinished

CompletedIsDone == status = "completed" => EverFinished = Tasks

StoppedIsCancelled == \A s \in Tasks : waits[s] = "stopped" => ctxDone

ShardInv ==
    /\ DispatchType /\ Recorded
    /\ ShardType /\ NothingBefore /\ DoneIsFinished /\ StoppedIsCancelled
    /\ CompletedIsDone

LEMMA InitShardInv == Init => ShardInv
  <1> SUFFICES ASSUME Init PROVE ShardInv
    OBVIOUS
  <1>1. DispatchType /\ Recorded
    BY InitDispatchType DEF Init, DispatchInit, Recorded
  <1>2. ShardType
    BY ShardsType, SMTT(40), Z3T(40) DEF Init, ShardType, CreatedType
  <1>3. NothingBefore /\ DoneIsFinished /\ StoppedIsCancelled /\ CompletedIsDone
    BY SMT, Z3 DEF Init, DispatchInit, NothingBefore, DoneIsFinished, StoppedIsCancelled, CompletedIsDone
  <1> QED
    BY <1>1, <1>2, <1>3, SMTT(40), Z3T(40) DEF ShardInv

LEMMA ShardTypeKept ==
    ASSUME ShardInv, [Next]_vars
    PROVE  ShardType'
  <1> USE DEF ShardInv, ShardType
  <1>1. CreatedType'
    BY CreatedTypeKept, Zenon
  <1>2. CASE Start \/ DispatchShards \/ FinishRun \/ Stop \/ MasterRestart \/ UNCHANGED vars
    BY <1>1, <1>2, SMTT(40), Z3T(40) DEF Start, DispatchShards, FinishRun, Stop, MasterRestart, vars, runner
  <1>3. ASSUME NEW s \in Tasks, WaitShard(s) PROVE ShardType'
    BY <1>1, <1>3, Zenon DEF WaitShard
  <1>4. CASE Dispatch
    <2>1. execs' \subseteq Exec
      BY <1>4, ShardedStepDispatches, DispatchTypeKept DEF Next, DispatchType, TypeOK
    <2>2. Completing \subseteq Tasks
      BY <2>1, Zenon DEF Completing, Exec
    <2> QED
      BY <1>1, <1>4, <2>2, ZenonT(40) DEF Dispatch, BesideTheRun
  <1> QED
    BY <1>2, <1>3, <1>4 DEF Next

LEMMA DoneKept ==
    ASSUME ShardInv, [Next]_vars
    PROVE  DoneIsFinished' /\ StoppedIsCancelled' /\ CompletedIsDone'
  <1> USE DEF ShardInv, ShardType
  <1>1. CASE Start
    <2>1. EverFinished' = EverFinished
      BY <1>1 DEF Start, EverFinished
    <2>2. /\ UNCHANGED <<rows, execs>>
          /\ waits' = [s \in Tasks |-> "waiting"] /\ status' = "running"
      BY <1>1, Zenon DEF Start, dispatchVars, store, workers
    <2> QED
      BY <2>1, <2>2, Zenon DEF DoneIsFinished, DoneRow, DoneExec, StoppedIsCancelled, CompletedIsDone
  <1>2. CASE DispatchShards
    <2>1. [DispatchNext]_dispatchVars /\ UNCHANGED <<status, ctxDone, waits, finished, earlier, execs>>
      BY <1>2, ShardedStepDispatches, ZenonT(40) DEF Next, DispatchShards, CreateTask, dispatchVars, workers
    <2>2. EverFinished' = EverFinished
      BY <2>1 DEF EverFinished
    <2>3. \A i \in DOMAIN rows' : (rows'[i].status = "completed") => rows'[i].task \in EverFinished
      BY <2>1, CompletedRows, ZenonT(40) DEF DoneIsFinished
    <2> QED
      BY <2>1, <2>2, <2>3, SMTT(40), Z3T(40)
         DEF DoneIsFinished, DoneRow, DoneExec, StoppedIsCancelled, CompletedIsDone
  <1>3. ASSUME NEW s \in Tasks, WaitShard(s)
        PROVE  DoneIsFinished' /\ StoppedIsCancelled' /\ CompletedIsDone'
    <2>1. UNCHANGED <<rows, execs, finished, earlier, ctxDone, status>>
      BY <1>3, Zenon DEF WaitShard, dispatchVars, store, workers
    <2>a. EverFinished' = EverFinished
      BY <2>1 DEF EverFinished
    <2>2. \A t \in Tasks : waits'[t] = waits[t] \/ (t = s /\ waits'[t] = waits'[s])
      BY <1>3, Zenon DEF WaitShard
    <2>3. waits'[s] = "completed" => s \in EverFinished
      BY <1>3, Zenon DEF WaitShard, DoneIsFinished, DoneRow
    <2>4. waits'[s] = "stopped" => ctxDone
      BY <1>3, Zenon DEF WaitShard, Terminal
    <2> QED
      BY <2>1, <2>a, <2>2, <2>3, <2>4, ZenonT(40)
         DEF DoneIsFinished, DoneRow, DoneExec, StoppedIsCancelled, CompletedIsDone
  <1>4. CASE FinishRun
    <2>1. UNCHANGED <<rows, execs, finished, earlier, ctxDone, waits>>
      BY <1>4 DEF FinishRun, dispatchVars, store, workers
    <2>a. EverFinished' = EverFinished
      BY <2>1 DEF EverFinished
    <2>2. status' = "completed" => EverFinished = Tasks
      <3>1. CASE status = "completed"
        BY <3>1, Zenon DEF CompletedIsDone
      <3>2. CASE status # "completed"
        <4> SUFFICES ASSUME status' = "completed", NEW s \in Tasks PROVE s \in EverFinished
          BY DEF ShardType, EverFinished
        <4>1. ~ctxDone /\ waits[s] # "failed" /\ waits[s] # "waiting"
          BY <1>4, <3>2 DEF FinishRun, TerminalStatus
        <4>2. waits[s] = "completed"
          BY <4>1, Zenon DEF StoppedIsCancelled, Terminal
        <4> QED
          BY <4>2 DEF DoneIsFinished
      <3> QED
        BY <3>1, <3>2
    <2> QED
      BY <2>1, <2>a, <2>2, Zenon DEF DoneIsFinished, DoneRow, DoneExec, StoppedIsCancelled, CompletedIsDone
  <1>5. CASE Stop \/ UNCHANGED vars
    <2>1. /\ UNCHANGED <<rows, execs, finished, earlier, waits>>
          /\ ctxDone => ctxDone'
          /\ status' = status \/ status' = "stopped"
      BY <1>5, SMT, Z3 DEF Stop, vars, runner, dispatchVars, store, workers
    <2>2. EverFinished' = EverFinished
      BY <2>1 DEF EverFinished
    <2> QED
      BY <2>1, <2>2, ZenonT(40) DEF DoneIsFinished, DoneRow, DoneExec, StoppedIsCancelled, CompletedIsDone
  <1>6. CASE MasterRestart
    <2>1. /\ UNCHANGED <<rows, execs, finished, earlier>>
          /\ waits' = [s \in Tasks |-> "waiting"] /\ status' = "stopped"
      BY <1>6, Zenon DEF MasterRestart, MasterCrash, store, workers
    <2>2. EverFinished' = EverFinished
      BY <2>1 DEF EverFinished
    <2> QED
      BY <2>1, <2>2, Zenon DEF DoneIsFinished, DoneRow, DoneExec, StoppedIsCancelled, CompletedIsDone
  <1>7. CASE Dispatch
    <2>1. [DispatchNext]_dispatchVars
      BY <1>7, ShardedStepDispatches DEF Next
    <2>2. finished' = finished \cup Completing /\ UNCHANGED <<status, ctxDone, waits, earlier>>
      BY <1>7, Zenon DEF Dispatch, BesideTheRun
    <2>a. EverFinished \subseteq EverFinished' /\ Completing \subseteq EverFinished'
      BY <2>2 DEF EverFinished
    <2>3. \A i \in DOMAIN rows' : rows'[i].status = "completed" => rows'[i].task \in EverFinished
      BY <2>1, CompletedRows, Zenon DEF DoneIsFinished
    <2>4. ASSUME NEW f \in execs', DoneExec(f) PROVE f.task \in EverFinished'
      <3>1. CASE \E e \in execs : DoneExec(e) /\ e.task = f.task
        BY <2>a, <3>1, Zenon DEF DoneIsFinished
      <3>2. CASE f \in execs' \ execs /\ f.pc = "mark"
        BY <2>a, <2>4, <3>2, Zenon DEF Completing, DoneExec
      <3> QED
        BY <2>1, <2>4, <3>1, <3>2, CompletedExecs, Zenon DEF DispatchType
    <2>5. DoneIsFinished'
      BY <2>2, <2>a, <2>3, <2>4, Zenon DEF DoneIsFinished, DoneRow, DoneExec
    <2>6. EverFinished' \subseteq Tasks
      BY ShardTypeKept, <1>7, ZenonT(40) DEF Next, EverFinished
    <2>7. CompletedIsDone'
      BY <2>2, <2>a, <2>6 DEF CompletedIsDone
    <2> QED
      BY <2>2, <2>5, <2>7, Zenon DEF StoppedIsCancelled
  <1> QED
    BY <1>1, <1>2, <1>3, <1>4, <1>5, <1>6, <1>7, ZenonT(40) DEF Next

(* However often a pipeline is started, it is reported completed only if every
   shard was executed to its end, in the first run since its start and in a later
   one by that run or an earlier: whatever workers crash, lose or repeat, whatever
   the store and the master do (startDistributed, WaitShard, finishRun). *)
THEOREM CompletedMeansDone == Spec => []CompletedRunDidAll
  <1>1. Init => ShardInv
    BY InitShardInv, Zenon
  <1>2. ShardInv /\ [Next]_vars => ShardInv'
    <2> SUFFICES ASSUME ShardInv, [Next]_vars PROVE ShardInv'
      OBVIOUS
    <2>1. [DispatchNext]_dispatchVars
      BY ShardedStepDispatches DEF ShardInv, ShardType
    <2>2. DispatchType' /\ Recorded'
      BY <2>1, DispatchTypeKept, RecordedKept DEF ShardInv, DispatchType
    <2> QED
      BY <2>2, ShardTypeKept, NothingBeforeKept, DoneKept, SMTT(40), Z3T(40) DEF ShardInv, ShardType
  <1>3. ShardInv => CompletedRunDidAll
    BY DEF ShardInv, NothingBefore, CompletedIsDone, EverFinished, CompletedRunDidAll
  <1> QED
    BY <1>1, <1>2, <1>3, PTL DEF Spec

=============================================================================
