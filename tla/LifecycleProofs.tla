-------------------------- MODULE LifecycleProofs --------------------------
(***************************************************************************)
(* Proofs about Lifecycle for any number of clients and runners, any mix   *)
(* of operations and any amount of work.                                   *)
(*                                                                         *)
(* The generation fence rests on three facts that every step keeps.  The   *)
(* actor in the middle of a start or a stop is the one that holds the      *)
(* lifecycle lock.  A generation that was allocated and not yet given to a *)
(* run is newer than that of every run still going.  And when no run was   *)
(* going at a replacement, the runs since have later generations: that     *)
(* protects the checkpoint from the saves that carry no fence.             *)
(***************************************************************************)
EXTENDS Lifecycle, TLAPS

Locked == {"begin", "start", "opening", "opened", "stopping", "failed", "quiesce", "quiesced"}

(* A call without a runner has not come to where it needs one. *)
RunnerKnown ==
    \A a \in Actors : call[a].runner \notin Runners =>
        \/ call[a].pc \in {"idle", "backoff", "deleted", "unregister"}
        \/ call[a].pc = "have" /\ call[a].op \in {"reset", "set", "delete"}

(* Only the holder of the lock is between its first and its last locked step. *)
LockHeld ==
    \A a \in Actors : call[a].pc \in Locked => lock = a

(* A generation allocated for a start that has not reached the runner belongs
   to a row that is wanted running and is newer than every run still going. *)
TokenIsNew ==
    \A a \in Actors : call[a].pc = "start" =>
        /\ row.exists => row.desired = "running"
        /\ ~reborn => call[a].gen <= row.gen
        /\ ~reborn => \A r \in Runners : rs[r].active => rs[r].gen < call[a].gen

(* The generations of the runs still going are among those allocated. *)
RunsAllocated ==
    ~reborn => \A r \in Runners : rs[r].active => rs[r].gen <= row.gen

FloorAllocated == ~reborn => floor.gen <= row.gen

(* When no run was going at the last replacement or deletion, every run and
   every start since belongs to a row that exists and to a later generation. *)
LaterRuns ==
    ~reborn /\ ~floor.going =>
        /\ \A r \in Runners : rs[r].active => row.exists /\ floor.gen <= rs[r].gen
        /\ \A a \in Actors : call[a].pc = "start" => row.exists /\ floor.gen <= call[a].gen

Fence ==
    /\ TokenIsNew
    /\ RunsAllocated
    /\ OneRunPerGeneration
    /\ FloorAllocated
    /\ LaterRuns
    /\ ResetHolds

Inv ==
    /\ TypeOK
    /\ RunnerKnown
    /\ LockHeld
    /\ Fence

-----------------------------------------------------------------------------
(* Type correctness. *)

LEMMA GoToType ==
    ASSUME call \in [Actors -> CallType], NEW a \in Actors, NEW pc \in Points, GoTo(a, pc)
    PROVE  call' \in [Actors -> CallType]
  BY DEF GoTo, CallType

LEMMA DoneType ==
    ASSUME call \in [Actors -> CallType], NEW a \in Actors, Done(a)
    PROVE  call' \in [Actors -> CallType]
  BY DEF Done, CallType, Idle, Points

LEMMA StopRunnerType ==
    ASSUME NEW f \in [Runners -> RunnerType], NEW r
    PROVE  StopRunner(f, r) \in [Runners -> RunnerType]
  BY Zenon DEF StopRunner, RunnerType, Status

LEMMA ObserveType ==
    ASSUME row \in RowType, NEW gen, NEW s \in Observed
    PROVE  Observe(gen, s) \in RowType
  BY DEF Observe, RowType

LEMMA StartErrorType ==
    ASSUME call \in [Actors -> CallType], NEW a \in Actors, NEW skip, StartError(a, skip)
    PROVE  call' \in [Actors -> CallType] /\ lock' = None
  BY GoToType, DoneType DEF StartError, Points

LEMMA SomeFreshType ==
    ASSUME \E r \in Runners : Fresh(r) PROVE SomeFresh \in Runners
  BY DEF SomeFresh

LEMMA NewRunnerType == NewRunner \in RunnerType
  BY DEF NewRunner, RunnerType, Status

LEMMA CheckpointTypes ==
    /\ NoCheckpoint \in CheckpointType
    /\ \A n \in Nat : \A b \in BOOLEAN :
          [gen |-> n, fenced |-> b] \in CheckpointType /\ [gen |-> n, going |-> b] \in FloorType
    /\ \A f \in FloorType : \A b \in BOOLEAN : [f EXCEPT !.going = b] \in FloorType
    /\ SomeRun \in BOOLEAN
  BY DEF NoCheckpoint, CheckpointType, FloorType, SomeRun

LEMMA InitType == Init => TypeOK
  <1> SUFFICES ASSUME Init PROVE TypeOK
    OBVIOUS
  <1>1. (CHOOSE x \in Runners : TRUE) \in Runners
    BY LifecycleAssumption
  <1>2. rs \in [Runners -> RunnerType]
    BY NewRunnerType DEF Init
  <1>3. call \in [Actors -> CallType]
    BY DEF Init, CallType, Idle, Points
  <1>4. row \in RowType
    BY DEF Init, RowType, Observed, Status, Quiet
  <1>5. deferred \in BOOLEAN
    BY LifecycleAssumption DEF Init
  <1>6. current \in Runners \cup {None} /\ timer \in Runners \cup {None}
    BY <1>1 DEF Init
  <1>z. 0 \in Nat
    OBVIOUS
  <1>c. cp \in CheckpointType /\ floor \in FloorType
    BY <1>z, CheckpointTypes, Zenon DEF Init
  <1>7. attempts \in Nat /\ work \in 0..MaxWork
    BY LifecycleAssumption, SMT, Z3 DEF Init
  <1>8. reborn \in BOOLEAN /\ up \in BOOLEAN /\ hasSpec \in BOOLEAN
    BY Zenon DEF Init
  <1>9. lock \in Actors \cup {None} /\ observers \subseteq [runner : Runners, gen : Nat]
    BY DEF Init
  <1> QED
    BY <1>2, <1>3, <1>4, <1>5, <1>6, <1>7, <1>c, <1>8, <1>9 DEF TypeOK

(* The steps a handler takes. *)
LEMMA ActorStepType ==
    ASSUME TypeOK, RunnerKnown, NEW a \in Actors, ActorStep(a)
    PROVE  TypeOK'
  <1> USE DEF TypeOK
  <1>1. CASE DesireRunning(a)
    BY <1>1, GoToType, DoneType DEF DesireRunning, RowType, Points
  <1>2. CASE TakeLock(a)
    BY <1>2, GoToType DEF TakeLock, Points
  <1>3. CASE BeginPipelineGeneration(a)
    <2>1. CASE rs[call[a].runner].status = "running" \/ ~Runnable
      BY <1>3, <2>1, StartErrorType DEF BeginPipelineGeneration
    <2>2. CASE ~(rs[call[a].runner].status = "running" \/ ~Runnable)
      <3>1. NextGeneration \in Nat
        BY SMT, Z3 DEF NextGeneration, RowType
      <3>2. row' \in RowType
        BY ZenonT(30), <1>3, <2>2, <3>1 DEF BeginPipelineGeneration, RowType, Observed
      <3>3. call' \in [Actors -> CallType]
        BY <1>3, <2>2, <3>1, SMT, Z3 DEF BeginPipelineGeneration, CallType, Points
      <3> QED
        BY <1>3, <2>2, <3>2, <3>3 DEF BeginPipelineGeneration
    <2> QED
      BY <2>1, <2>2
  <1>4. CASE StartRunner(a)
    <2>1. call[a].gen \in Nat
      BY DEF CallType
    <2>2. rs' \in [Runners -> RunnerType]
      <3>1. [status |-> "running", active |-> TRUE, gen |-> call[a].gen] \in RunnerType
        BY <2>1 DEF RunnerType, Status
      <3> QED
        BY <1>4, <3>1 DEF StartRunner
    <2> QED
      BY <1>4, <2>2, GoToType DEF StartRunner, Points
  <1>5. CASE OpenSucceeds(a)
    BY <1>5, GoToType DEF OpenSucceeds, Points
  <1>6. CASE OpenFails(a)
    <2>1. rs' \in [Runners -> RunnerType]
      BY ZenonT(30), <1>6 DEF OpenFails, RunnerType, Status
    <2> QED
      BY <1>6, <2>1, GoToType DEF OpenFails, Points
  <1>7. CASE StartFailed(a)
    BY <1>7, StartErrorType, ObserveType DEF StartFailed, Observed, Status
  <1>8. CASE Started(a)
    <2>1. CASE row.exists /\ row.gen = call[a].gen
      <3>1. call[a].runner \in Runners /\ call[a].gen \in Nat
        BY <1>8 DEF Started, CallType, RunnerKnown
      <3>2. observers' \subseteq [runner : Runners, gen : Nat]
        BY <1>8, <2>1, <3>1, SMT, Z3 DEF Started
      <3> QED
        BY <1>8, <2>1, <3>2, DoneType, ObserveType, SMT, Z3 DEF Started, Observed, Status
    <2>2. CASE ~(row.exists /\ row.gen = call[a].gen)
      BY <1>8, <2>2, StartErrorType, StopRunnerType, Zenon DEF Started
    <2> QED
      BY <2>1, <2>2
  <1>9. CASE MarkFailed(a)
    BY <1>9, DoneType, ObserveType DEF MarkFailed, Observed, Status
  <1>10. CASE DesireQuiet(a)
    BY <1>10, GoToType, DoneType DEF DesireQuiet, RowType, Quiet, Points
  <1>11. CASE QuiesceRunner(a)
    <2>1. [rs EXCEPT ![call[a].runner].status = "paused"] \in [Runners -> RunnerType]
      BY Zenon DEF RunnerType, Status
    <2> QED
      BY <1>11, <2>1, GoToType, DoneType, StopRunnerType, SMT, Z3 DEF QuiesceRunner, Points
  <1>12. CASE Quiesced(a)
    BY <1>12, DoneType, ObserveType DEF Quiesced, Observed, Status
  <1>13. CASE ReplaceCheckpoint(a)
    <2>1. NextGeneration \in Nat
      BY SMT, Z3 DEF NextGeneration, RowType
    <2>2. [row EXCEPT !.gen = NextGeneration] \in RowType
      BY <2>1 DEF RowType
    <2>3. row' \in RowType /\ cp' \in CheckpointType /\ floor' \in FloorType
      BY <1>13, <2>1, <2>2, CheckpointTypes, Zenon DEF ReplaceCheckpoint
    <2> QED
      BY <1>13, <2>3, DoneType DEF ReplaceCheckpoint
  <1>14. CASE \E reset \in BOOLEAN : SaveSpec(a, reset)
    <2>1. PICK reset \in BOOLEAN : SaveSpec(a, reset)
      BY <1>14
    <2>2. Stored \in RowType
      BY DEF Stored, RowType, Observed, Status, Quiet
    <2>3. Stored.gen + 1 \in Nat /\ [Stored EXCEPT !.gen = Stored.gen + 1] \in RowType
      BY <2>2, SMT, Z3 DEF RowType
    <2>4. CASE reset /\ Stored.desired \notin Quiet
      BY <2>1, <2>4, DoneType DEF SaveSpec
    <2>5. CASE ~(reset /\ Stored.desired \notin Quiet)
      <3>1. row' \in RowType /\ cp' \in CheckpointType /\ floor' \in FloorType
        BY <2>1, <2>2, <2>3, <2>5, CheckpointTypes, Zenon DEF SaveSpec
      <3>2. reborn' \in BOOLEAN
        BY <2>1, <2>5, Zenon DEF SaveSpec
      <3> QED
        BY <2>1, <2>5, <3>1, <3>2, GoToType DEF SaveSpec, Points
    <2> QED
      BY <2>4, <2>5
  <1>15. CASE Register(a)
    BY <1>15, GoToType DEF Register, CallType, Points
  <1>16. CASE Retire(a)
    BY <1>16, DoneType, ObserveType, StopRunnerType DEF Retire, CallType, Observed
  <1>17. CASE DeleteRow(a)
    <2>1. cp' \in CheckpointType /\ floor' \in FloorType
      BY <1>17, CheckpointTypes, Zenon DEF DeleteRow
    <2> QED
      BY <1>17, <2>1, GoToType, Zenon DEF DeleteRow, RowType, Points
  <1>18. CASE StopDeleted(a)
    BY <1>18, GoToType, StopRunnerType DEF StopDeleted, Points
  <1>19. CASE Unregister(a)
    BY <1>19, DoneType, Zenon DEF Unregister
  <1> QED
    BY <1>1, <1>2, <1>3, <1>4, <1>5, <1>6, <1>7, <1>8, <1>9, <1>10, <1>11, <1>12, <1>13,
       <1>14, <1>15, <1>16, <1>17, <1>18, <1>19, Zenon DEF ActorStep

(* The steps of requests, reconciler, scheduler, runs, observers and process. *)
LEMMA OtherStepType ==
    ASSUME TypeOK, Next, \A a \in Actors : ~ActorStep(a)
    PROVE  TypeOK'
  <1> USE DEF TypeOK
  <1>a. \A a \in Actors : Enter(a) => work' \in 0..MaxWork
    BY LifecycleAssumption, SMT, Z3 DEF Enter
  <1>b. Clients \subseteq Actors /\ {"main", "reconciler", "scheduler"} \subseteq Actors
    BY DEF Actors
  <1>1. ASSUME NEW c \in Clients, RequestUpdate(c) PROVE TypeOK'
    <2>1. SomeFresh \in Runners
      BY <1>1, SomeFreshType DEF RequestUpdate
    <2>2. call' \in [Actors -> CallType]
      BY <1>1, <1>b, <2>1, Zenon DEF RequestUpdate, CallType, Idle, Points, AllOps
    <2> QED
      BY <1>1, <1>a, <1>b, <2>2, NewRunnerType, Zenon DEF RequestUpdate
  <1>2. ASSUME NEW c \in Clients, NEW op \in Ops, Request(c, op) PROVE TypeOK'
    <2>1. call' \in [Actors -> CallType]
      BY <1>2, <1>b, Zenon DEF Request, CallType, Idle, Points, AllOps
    <2> QED
      BY <1>2, <1>a, <1>b, <2>1 DEF Request
  <1>3. CASE Reconcile
    <2>1. call' \in [Actors -> CallType]
      BY <1>3, <1>b, Zenon DEF Reconcile, CallType, Idle, Points, Starts
    <2> QED
      BY <1>3, <1>a, <1>b, <2>1, SMT, Z3 DEF Reconcile
  <1>4. CASE Rebuild
    <2>1. CASE ~hasSpec
      BY <1>4, <1>b, <2>1, DoneType DEF Rebuild
    <2>2. CASE hasSpec
      <3>1. SomeFresh \in Runners
        BY <1>4, <2>2, SomeFreshType DEF Rebuild
      <3>2. call' \in [Actors -> CallType]
        BY <1>4, <1>b, <2>2, <3>1, SMTT(40), Z3T(40) DEF Rebuild, CallType, Points
      <3> QED
        BY <1>4, <2>2, <3>2, NewRunnerType DEF Rebuild
    <2> QED
      BY <2>1, <2>2
  <1>5. CASE SwapIn
    BY <1>5, <1>b, GoToType DEF SwapIn, CallType, Points
  <1>6. CASE Trigger
    <2>1. call' \in [Actors -> CallType]
      BY <1>6, <1>b, Zenon DEF Trigger, CallType, Idle, Points, Starts
    <2> QED
      BY <1>6, <1>a, <1>b, <2>1 DEF Trigger
  <1>7. ASSUME NEW r \in Runners, NEW s \in {"failed", "completed"}, RunFinishes(r, s) PROVE TypeOK'
    <2>1. rs' \in [Runners -> RunnerType]
      BY <1>7 DEF RunFinishes, RunnerType, Status
    <2> QED
      BY <1>7, <2>1 DEF RunFinishes
  <1>8. ASSUME NEW r \in Runners, RunEnds(r) PROVE TypeOK'
    <2>1. rs' \in [Runners -> RunnerType]
      BY <1>8, Zenon DEF RunEnds, RunnerType
    <2> QED
      BY <1>8, <2>1 DEF RunEnds
  <1>9. ASSUME NEW r \in Runners, SaveCheckpoint(r) \/ SaveUnfenced(r) PROVE TypeOK'
    <2>1. rs[r].gen \in Nat
      BY DEF RunnerType
    <2>2. cp' \in CheckpointType
      BY <1>9, <2>1, CheckpointTypes, Zenon DEF SaveCheckpoint, SaveUnfenced
    <2> QED
      BY <1>9, <2>2 DEF SaveCheckpoint, SaveUnfenced
  <1>10. ASSUME NEW o \in observers, ObserveEnd(o) PROVE TypeOK'
    <2>1. rs[o.runner].status \in Status
      BY DEF RunnerType
    <2>2. (IF rs[o.runner].status = "running" THEN "completed" ELSE rs[o.runner].status) \in Observed
      BY <2>1 DEF Observed, Status
    <2> QED
      BY <1>10, <2>2, ObserveType DEF ObserveEnd
  <1>11. CASE StopAll
    <2>1. work' \in 0..MaxWork
      BY <1>11, LifecycleAssumption, SMT, Z3 DEF StopAll
    <2> QED
      BY <1>11, <2>1, StopRunnerType, ObserveType DEF StopAll, Observed, Status
  <1>12. CASE Crash
    <2>1. work' \in 0..MaxWork
      BY <1>12, LifecycleAssumption, SMT, Z3 DEF Crash
    <2>2. call' \in [Actors -> CallType]
      BY <1>12 DEF Crash, CallType, Idle, Points
    <2> QED
      BY <1>12, <2>1, <2>2, NewRunnerType, Zenon DEF Crash
  <1>13. CASE Boot
    <2>1. (CHOOSE x \in Runners : TRUE) \in Runners
      BY LifecycleAssumption
    <2>2. row' \in RowType
      BY <1>13, ObserveType, SMT, Z3 DEF Boot, RowType, Observed, Status, Quiet
    <2>3. call' \in [Actors -> CallType]
      <3>1. [Idle EXCEPT !.pc = "have", !.op = "boot", !.runner = CHOOSE x \in Runners : TRUE] \in CallType
        BY <2>1, Zenon DEF CallType, Idle, Points, Starts
      <3> QED
        BY <1>13, <1>b, <3>1 DEF Boot
    <2> QED
      BY <1>13, <2>1, <2>2, <2>3, Zenon DEF Boot
  <1> QED
    BY <1>1, <1>2, <1>3, <1>4, <1>5, <1>6, <1>7, <1>8, <1>9, <1>10, <1>11, <1>12, <1>13, Zenon DEF Next

LEMMA StepType == TypeOK /\ RunnerKnown /\ [Next]_vars => TypeOK'
  <1> SUFFICES ASSUME TypeOK, RunnerKnown, [Next]_vars PROVE TypeOK'
    OBVIOUS
  <1>1. CASE UNCHANGED vars
    BY <1>1 DEF vars, TypeOK
  <1>2. CASE Next
    BY <1>2, ActorStepType, OtherStepType, Zenon
  <1> QED
    BY <1>1, <1>2

-----------------------------------------------------------------------------
(* Locks, runners and generations. *)

LEMMA StepRunnerKnown == TypeOK /\ RunnerKnown /\ [Next]_vars => RunnerKnown'
  <1> SUFFICES ASSUME TypeOK, RunnerKnown, [Next]_vars PROVE RunnerKnown'
    OBVIOUS
  <1> USE DEF RunnerKnown
  <1>a. call \in [Actors -> CallType] /\ current \in Runners \cup {None}
    BY Zenon DEF TypeOK
  <1>b. Clients \subseteq Actors /\ {"main", "reconciler", "scheduler"} \subseteq Actors
    BY DEF Actors
  <1>1. CASE UNCHANGED vars
    BY Zenon, <1>1 DEF vars
  <1>2. ASSUME NEW a \in Actors, ActorStep(a) PROVE RunnerKnown'
    <2>1. ASSUME NEW pc, GoTo(a, pc), call[a].runner \in Runners PROVE RunnerKnown'
      BY <1>a, <2>1 DEF GoTo, CallType
    <2>2. ASSUME NEW pc \in {"deleted", "unregister"}, GoTo(a, pc) PROVE RunnerKnown'
      BY <1>a, <2>2 DEF GoTo, CallType
    <2>3. ASSUME Done(a) PROVE RunnerKnown'
      BY <1>a, <2>3 DEF Done, CallType, Idle
    <2>4. ASSUME NEW skip, StartError(a, skip), call[a].runner \in Runners PROVE RunnerKnown'
      BY <2>1, <2>3, <2>4 DEF StartError
    <2>5. CASE DesireRunning(a) \/ TakeLock(a)
      BY <2>1, <2>3, <2>5 DEF DesireRunning, TakeLock, Starts
    <2>6. CASE BeginPipelineGeneration(a)
      <3>1. call[a].runner \in Runners
        BY <2>6 DEF BeginPipelineGeneration
      <3>2. CASE rs[call[a].runner].status = "running" \/ ~Runnable
        BY <2>4, <2>6, <3>1, <3>2 DEF BeginPipelineGeneration
      <3>3. CASE ~(rs[call[a].runner].status = "running" \/ ~Runnable)
        BY <1>a, <2>6, <3>1, <3>3, SMT, Z3 DEF BeginPipelineGeneration, CallType
      <3> QED
        BY <3>2, <3>3
    <2>7. CASE StartRunner(a) \/ OpenSucceeds(a) \/ OpenFails(a)
      BY <2>1, <2>7, SMTT(40), Z3T(40) DEF StartRunner, OpenSucceeds, OpenFails
    <2>8. CASE StartFailed(a) \/ Started(a) \/ MarkFailed(a)
      BY <2>3, <2>4, <2>8, Zenon DEF StartFailed, Started, MarkFailed
    <2>9. CASE DesireQuiet(a) \/ QuiesceRunner(a) \/ Quiesced(a)
      BY <2>1, <2>3, <2>9 DEF DesireQuiet, QuiesceRunner, Quiesced
    <2>10. CASE ReplaceCheckpoint(a)
      BY <2>3, <2>10 DEF ReplaceCheckpoint
    <2>11. CASE \E reset \in BOOLEAN : SaveSpec(a, reset)
      BY <2>1, <2>3, <2>11 DEF SaveSpec
    <2>12. CASE Register(a) \/ Retire(a)
      BY <2>1, <2>3, <2>12 DEF Register, Retire
    <2>13. CASE DeleteRow(a) \/ StopDeleted(a) \/ Unregister(a)
      BY <2>2, <2>3, <2>13 DEF DeleteRow, StopDeleted, Unregister
    <2> QED
      BY <1>2, <2>5, <2>6, <2>7, <2>8, <2>9, <2>10, <2>11, <2>12, <2>13 DEF ActorStep
  <1>3. ASSUME NEW c \in Clients, RequestUpdate(c) PROVE RunnerKnown'
    <2>1. SomeFresh \in Runners
      BY <1>3, SomeFreshType DEF RequestUpdate
    <2> QED
      BY <1>3, <1>a, <1>b, <2>1 DEF RequestUpdate, Idle, CallType
  <1>4. ASSUME NEW c \in Clients, NEW op \in Ops, Request(c, op) PROVE RunnerKnown'
    BY <1>4, <1>a, <1>b DEF Request, Idle, CallType
  <1>5. CASE Reconcile
    BY <1>5, <1>a, <1>b DEF Reconcile, Idle, CallType
  <1>6. CASE Rebuild
    <2>1. hasSpec => SomeFresh \in Runners
      BY <1>6, SomeFreshType DEF Rebuild
    <2> QED
      BY <1>6, <1>a, <1>b, <2>1, SMT, Z3 DEF Rebuild, Done, Idle, CallType
  <1>7. CASE SwapIn
    BY <1>7, <1>a, <1>b, SMT, Z3 DEF SwapIn, GoTo, CallType
  <1>8. CASE Trigger
    <2>1. timer \in Runners
      BY <1>8 DEF Trigger, TypeOK
    <2> QED
      BY <1>8, <1>a, <1>b, <2>1 DEF Trigger, Idle, CallType
  <1>9. CASE \/ \E r \in Runners : (\E s \in {"failed", "completed"} : RunFinishes(r, s))
                                    \/ RunEnds(r) \/ SaveCheckpoint(r) \/ SaveUnfenced(r)
             \/ \E o \in observers : ObserveEnd(o)
             \/ StopAll
    BY <1>9 DEF RunFinishes, RunEnds, SaveCheckpoint, SaveUnfenced, ObserveEnd, StopAll
  <1>10. CASE Crash
    BY <1>10 DEF Crash, Idle
  <1>11. CASE Boot
    <2>1. (CHOOSE x \in Runners : TRUE) \in Runners
      BY LifecycleAssumption
    <2> DEFINE started == [Idle EXCEPT !.pc = "have", !.op = "boot", !.runner = CHOOSE x \in Runners : TRUE]
    <2>2. started.runner \in Runners
      BY <2>1 DEF Idle
    <2>3. call' = call \/ call' = [call EXCEPT !["main"] = started]
      BY SMTT(30), Z3T(30), <1>11 DEF Boot
    <2> HIDE DEF started
    <2> QED
      BY <1>a, <1>b, <2>2, <2>3 DEF CallType
  <1> QED
    BY <1>1, <1>2, <1>3, <1>4, <1>5, <1>6, <1>7, <1>8, <1>9, <1>10, <1>11 DEF Next

(* What a step of actor a does to the lock: nothing, take it, or give it back. *)
LockMoves(a) ==
    /\ \A b \in Actors \ {a} : call'[b] = call[b]
    /\ \/ lock' = lock /\ (call'[a].pc \in Locked => call[a].pc \in Locked)
       \/ lock = None /\ lock' = a
       \/ call[a].pc \in Locked /\ lock' = None /\ call'[a].pc \notin Locked

LEMMA ActorLockMoves ==
    ASSUME TypeOK, NEW a \in Actors, ActorStep(a)
    PROVE  LockMoves(a)
  <1>a. call \in [Actors -> CallType]
    BY DEF TypeOK
  <1>1. ASSUME NEW pc, GoTo(a, pc)
        PROVE  (\A b \in Actors \ {a} : call'[b] = call[b]) /\ call'[a].pc = pc
    BY <1>a, <1>1 DEF GoTo, CallType
  <1>2. ASSUME Done(a)
        PROVE  (\A b \in Actors \ {a} : call'[b] = call[b]) /\ call'[a].pc = "idle"
    BY SMTT(30), Z3T(30), <1>a, <1>2 DEF Done, Idle
  <1>3. ASSUME NEW skip, StartError(a, skip)
        PROVE  /\ \A b \in Actors \ {a} : call'[b] = call[b]
               /\ call'[a].pc \in {"idle", "mark"}
               /\ lock' = None
    BY <1>1, <1>2, <1>3 DEF StartError
  <1> USE DEF LockMoves, Locked
  <1>4. CASE DesireRunning(a) \/ TakeLock(a)
    BY <1>1, <1>2, <1>4 DEF DesireRunning, TakeLock
  <1>5. CASE BeginPipelineGeneration(a)
    <2>1. CASE rs[call[a].runner].status = "running" \/ ~Runnable
      BY <1>3, <1>5, <2>1 DEF BeginPipelineGeneration
    <2>2. CASE ~(rs[call[a].runner].status = "running" \/ ~Runnable)
      BY <1>a, <1>5, <2>2 DEF BeginPipelineGeneration, CallType
    <2> QED
      BY <2>1, <2>2
  <1>6. CASE StartRunner(a) \/ OpenSucceeds(a) \/ OpenFails(a)
    BY <1>1, <1>6, SMTT(40), Z3T(40) DEF StartRunner, OpenSucceeds, OpenFails
  <1>7. CASE StartFailed(a) \/ Started(a) \/ MarkFailed(a)
    BY <1>2, <1>3, <1>7, Zenon DEF StartFailed, Started, MarkFailed
  <1>8. CASE DesireQuiet(a) \/ QuiesceRunner(a) \/ Quiesced(a)
    BY <1>1, <1>2, <1>8 DEF DesireQuiet, QuiesceRunner, Quiesced
  <1>9. CASE ReplaceCheckpoint(a)
    BY <1>2, <1>9 DEF ReplaceCheckpoint
  <1>10. CASE \E reset \in BOOLEAN : SaveSpec(a, reset)
    BY <1>1, <1>2, <1>10, SMT, Z3 DEF SaveSpec
  <1>11. CASE Register(a) \/ Retire(a)
    BY <1>1, <1>2, <1>11, SMT, Z3 DEF Register, Retire
  <1>12. CASE DeleteRow(a) \/ StopDeleted(a) \/ Unregister(a)
    BY <1>1, <1>2, <1>12, SMT, Z3 DEF DeleteRow, StopDeleted, Unregister
  <1> QED
    BY <1>4, <1>5, <1>6, <1>7, <1>8, <1>9, <1>10, <1>11, <1>12, Zenon DEF ActorStep

LEMMA NoneIsNoActor == None \notin Actors
  BY LifecycleAssumption DEF Actors

LEMMA StepLockHeld == TypeOK /\ LockHeld /\ [Next]_vars => LockHeld'
  <1> SUFFICES ASSUME TypeOK, LockHeld, [Next]_vars PROVE LockHeld'
    OBVIOUS
  <1> USE DEF LockHeld
  <1>a. call \in [Actors -> CallType]
    BY DEF TypeOK
  <1>b. Clients \subseteq Actors /\ {"main", "reconciler", "scheduler"} \subseteq Actors
    BY DEF Actors
  <1>1. CASE UNCHANGED vars
    BY <1>1 DEF vars
  <1>2. ASSUME NEW a \in Actors, ActorStep(a) PROVE LockHeld'
    <2>1. LockMoves(a)
      BY <1>2, ActorLockMoves
    <2> QED
      BY <2>1, NoneIsNoActor DEF LockMoves
  <1>3. ASSUME NEW c \in Clients, RequestUpdate(c) PROVE LockHeld'
    BY <1>3, <1>a, <1>b DEF RequestUpdate, Idle, Locked
  <1>4. ASSUME NEW c \in Clients, NEW op \in Ops, Request(c, op) PROVE LockHeld'
    BY <1>4, <1>a, <1>b DEF Request, Idle, Locked
  <1>5. CASE Reconcile
    BY <1>5, <1>a, <1>b DEF Reconcile, Idle, Locked
  <1>6. CASE Rebuild
    BY <1>6, <1>a, <1>b, SMT, Z3 DEF Rebuild, Done, Idle, CallType, Locked
  <1>7. CASE SwapIn
    BY <1>7, <1>a, <1>b DEF SwapIn, GoTo, CallType, Locked
  <1>8. CASE Trigger
    BY <1>8, <1>a, <1>b DEF Trigger, Idle, Locked
  <1>9. CASE \/ \E r \in Runners : (\E s \in {"failed", "completed"} : RunFinishes(r, s))
                                    \/ RunEnds(r) \/ SaveCheckpoint(r) \/ SaveUnfenced(r)
             \/ \E o \in observers : ObserveEnd(o)
             \/ StopAll
    BY <1>9 DEF RunFinishes, RunEnds, SaveCheckpoint, SaveUnfenced, ObserveEnd, StopAll
  <1>10. CASE Crash
    BY <1>10 DEF Crash, Idle, Locked
  <1>11. CASE Boot
    <2> DEFINE started == [Idle EXCEPT !.pc = "have", !.op = "boot", !.runner = CHOOSE x \in Runners : TRUE]
    <2>1. started.pc = "have"
      BY DEF Idle
    <2>2. (call' = call \/ call' = [call EXCEPT !["main"] = started]) /\ lock' = lock
      BY <1>11 DEF Boot
    <2> HIDE DEF started
    <2> QED
      BY <1>a, <1>b, <2>1, <2>2 DEF Locked
  <1> QED
    BY <1>1, <1>2, <1>3, <1>4, <1>5, <1>6, <1>7, <1>8, <1>9, <1>10, <1>11 DEF Next

-----------------------------------------------------------------------------
(* The generation fence.  Most steps allocate no generation, begin no run and
   leave the checkpoint alone. *)
CheckpointKept == reborn' = reborn /\ floor' = floor /\ cp' = cp

RowKept ==
    /\ row'.gen = row.gen /\ row'.exists = row.exists
    /\ row'.desired \in {row.desired, "running"}

RunsKept == \A r \in Runners : rs'[r].active => rs[r].active /\ rs'[r].gen = rs[r].gen

CallsKept ==
    \A b \in Actors : call'[b].pc = "start" => call[b].pc = "start" /\ call'[b].gen = call[b].gen

Keeps == CheckpointKept /\ RowKept /\ RunsKept /\ CallsKept

LEMMA KeepsFence ==
    ASSUME Fence, Keeps
    PROVE  Fence'
  <1> USE DEF Keeps, CheckpointKept, RowKept
  <1>1. TokenIsNew'
    BY Zenon DEF Fence, RunsKept, CallsKept, TokenIsNew
  <1>2. RunsAllocated' /\ OneRunPerGeneration'
    BY DEF Fence, RunsKept, RunsAllocated, OneRunPerGeneration
  <1>3. FloorAllocated' /\ ResetHolds'
    BY DEF Fence, FloorAllocated, ResetHolds
  <1>4. LaterRuns'
    BY DEF Fence, LaterRuns, RunsKept, CallsKept
  <1> QED
    BY <1>1, <1>2, <1>3, <1>4 DEF Fence

LEMMA UnchangedKept ==
    /\ UNCHANGED <<reborn, floor, cp>> => CheckpointKept
    /\ UNCHANGED row => RowKept
    /\ UNCHANGED rs => RunsKept
    /\ UNCHANGED call => CallsKept
  BY DEF CheckpointKept, RowKept, RunsKept, CallsKept

LEMMA ObserveKept ==
    ASSUME row \in RowType, NEW gen, NEW s, row' = Observe(gen, s)
    PROVE  RowKept
  BY DEF Observe, RowType, RowKept

LEMMA StopKept ==
    ASSUME rs \in [Runners -> RunnerType], NEW r, rs' = StopRunner(rs, r)
    PROVE  RunsKept
  BY DEF StopRunner, RunnerType, RunsKept

LEMMA StopTwiceKept ==
    ASSUME rs \in [Runners -> RunnerType], NEW r, NEW q,
           rs' = StopRunner(StopRunner(rs, r), q)
    PROVE  RunsKept
  <1> DEFINE f == StopRunner(rs, r)
  <1>1. f \in [Runners -> RunnerType]
    BY StopRunnerType
  <1>2. \A x \in Runners : f[x].active = rs[x].active /\ f[x].gen = rs[x].gen
    BY DEF StopRunner, RunnerType
  <1>3. rs' = StopRunner(f, q)
    OBVIOUS
  <1> HIDE DEF f
  <1>4. \A x \in Runners : rs'[x].active = f[x].active /\ rs'[x].gen = f[x].gen
    BY <1>1, <1>3, SMT, Z3 DEF StopRunner, RunnerType
  <1> QED
    BY <1>2, <1>4 DEF RunsKept

LEMMA FreshKept ==
    ASSUME rs \in [Runners -> RunnerType], NEW f, rs' = [rs EXCEPT ![f] = NewRunner]
    PROVE  RunsKept
  BY DEF NewRunner, RunsKept

(* A call that moves to a place other than "start", returns or begins. *)
LEMMA MoveKept ==
    ASSUME call \in [Actors -> CallType], NEW a \in Actors, NEW pc, pc # "start",
           GoTo(a, pc) \/ Done(a)
    PROVE  CallsKept
  BY SMT, Z3 DEF GoTo, Done, Idle, CallType, CallsKept

LEMMA BeginKept ==
    ASSUME call \in [Actors -> CallType], NEW a, NEW c, c.pc # "start",
           call' = [call EXCEPT ![a] = c]
    PROVE  CallsKept
  BY DEF CallsKept

LEMMA ErrorKept ==
    ASSUME call \in [Actors -> CallType], NEW a \in Actors, NEW skip, StartError(a, skip)
    PROVE  CallsKept
  BY MoveKept, SMT, Z3 DEF StartError

LEMMA ActorStepKeeps ==
    ASSUME TypeOK, NEW a \in Actors, ActorStep(a),
           ~BeginPipelineGeneration(a), ~StartRunner(a), ~DesireQuiet(a),
           ~ReplaceCheckpoint(a), ~(\E reset \in BOOLEAN : SaveSpec(a, reset)), ~DeleteRow(a)
    PROVE  Keeps
  <1>a. call \in [Actors -> CallType] /\ rs \in [Runners -> RunnerType] /\ row \in RowType
    BY DEF TypeOK
  <1> USE UnchangedKept DEF Keeps
  <1>1. CASE DesireRunning(a)
    <2>1. RowKept
      BY <1>a, <1>1 DEF DesireRunning, RowType, RowKept
    <2>2. CallsKept
      BY SMTT(30), Z3T(30), <1>a, <1>1, MoveKept DEF DesireRunning
    <2> QED
      BY <1>1, <2>1, <2>2 DEF DesireRunning
  <1>2. CASE TakeLock(a) \/ OpenSucceeds(a) \/ Register(a) \/ Unregister(a)
    <2>1. CallsKept
      BY <1>a, <1>2, MoveKept DEF TakeLock, OpenSucceeds, Register, Unregister
    <2> QED
      BY <1>2, <2>1, Zenon DEF TakeLock, OpenSucceeds, Register, Unregister
  <1>3. CASE OpenFails(a)
    <2>1. RunsKept
      BY <1>a, <1>3 DEF OpenFails, RunnerType, RunsKept
    <2>2. CallsKept
      BY SMTT(30), Z3T(30), <1>a, <1>3, MoveKept DEF OpenFails
    <2> QED
      BY <1>3, <2>1, <2>2 DEF OpenFails
  <1>4. CASE StartFailed(a)
    <2>1. RowKept
      BY <1>a, <1>4, ObserveKept DEF StartFailed
    <2>2. CallsKept
      BY ZenonT(40), <1>a, <1>4, ErrorKept DEF StartFailed
    <2> QED
      BY <1>4, <2>1, <2>2, Zenon DEF StartFailed
  <1>5. CASE Started(a)
    <2>1. RowKept
      BY <1>a, <1>5, ObserveKept, Zenon DEF Started
    <2>2. RunsKept
      BY <1>a, <1>5, StopKept, Zenon DEF Started
    <2>3. CallsKept
      BY <1>a, <1>5, MoveKept, ErrorKept, Zenon DEF Started
    <2> QED
      BY SMTT(30), Z3T(30), <1>5, <2>1, <2>2, <2>3 DEF Started
  <1>6. CASE MarkFailed(a) \/ Quiesced(a)
    <2>1. RowKept
      BY <1>a, <1>6, ObserveKept DEF MarkFailed, Quiesced
    <2>2. CallsKept
      BY <1>a, <1>6, MoveKept DEF MarkFailed, Quiesced
    <2> QED
      BY <1>6, <2>1, <2>2, Zenon DEF MarkFailed, Quiesced
  <1>7. CASE QuiesceRunner(a)
    <2>1. CallsKept
      BY <1>a, <1>7, MoveKept DEF QuiesceRunner
    <2>2. CASE rs' = StopRunner(rs, call[a].runner) \/ UNCHANGED rs
      BY <1>a, <1>7, <2>1, <2>2, StopKept DEF QuiesceRunner
    <2>3. CASE rs' = [rs EXCEPT ![call[a].runner].status = "paused"]
      <3>1. RunsKept
        BY SMTT(30), Z3T(30), <1>a, <2>3 DEF RunnerType, RunsKept
      <3> QED
        BY <1>7, <2>1, <3>1 DEF QuiesceRunner
    <2> QED
      BY <1>7, <2>2, <2>3 DEF QuiesceRunner
  <1>8. CASE Retire(a)
    <2>1. RowKept
      BY <1>a, <1>8, ObserveKept DEF Retire
    <2>2. RunsKept
      BY <1>a, <1>8, StopKept DEF Retire
    <2>3. CallsKept
      BY <1>a, <1>8, MoveKept, SMTT(40), Z3T(40) DEF Retire
    <2> QED
      BY <1>8, <2>1, <2>2, <2>3, Zenon DEF Retire
  <1>9. CASE StopDeleted(a)
    <2>1. RunsKept
      BY <1>a, <1>9, StopTwiceKept DEF StopDeleted
    <2>2. CallsKept
      BY <1>a, <1>9, MoveKept DEF StopDeleted
    <2> QED
      BY <1>9, <2>1, <2>2 DEF StopDeleted
  <1> QED
    BY <1>1, <1>2, <1>3, <1>4, <1>5, <1>6, <1>7, <1>8, <1>9 DEF ActorStep

(* The actor steps that do touch the fence. *)
LEMMA ActorStepFence ==
    ASSUME TypeOK, TypeOK', RunnerKnown, LockHeld, Fence, NEW a \in Actors, ActorStep(a)
    PROVE  Fence'
  <1>a. call \in [Actors -> CallType] /\ rs \in [Runners -> RunnerType] /\ row \in RowType
        /\ cp \in CheckpointType /\ floor \in FloorType
    BY DEF TypeOK
  <1>n. /\ row.gen \in Nat /\ floor.gen \in Nat
        /\ \A b \in Actors : call[b].gen \in Nat
        /\ \A r \in Runners : rs[r].gen \in Nat
    BY <1>a DEF RowType, FloorType, CallType, RunnerType
  <1>l. ASSUME NEW b \in Actors, lock = None PROVE call[b].pc # "start"
    BY <1>l, NoneIsNoActor, Zenon DEF LockHeld, Locked
  <1>m. ASSUME NEW b \in Actors, call[a].pc \in Locked, b # a PROVE call[b].pc # "start"
    BY <1>m, ZenonT(40) DEF LockHeld, Locked
  <1> USE DEF Fence
  <1>1. CASE BeginPipelineGeneration(a)
    <2>1. CASE rs[call[a].runner].status = "running" \/ ~Runnable
      <3>1. Keeps
        BY <1>a, <1>1, <2>1, ErrorKept, UnchangedKept DEF BeginPipelineGeneration, Keeps
      <3> QED
        BY <3>1, KeepsFence
    <2>2. CASE ~(rs[call[a].runner].status = "running" \/ ~Runnable)
      <3>1. /\ row' = [row EXCEPT !.gen = row.gen + 1, !.observed = "starting"]
            /\ call' = [call EXCEPT ![a].pc = "start", ![a].gen = row.gen + 1]
            /\ call[a].pc = "begin"
            /\ UNCHANGED <<cp, floor, reborn, rs>>
            /\ row.exists /\ row.desired = "running"
        BY <1>1, <2>2 DEF BeginPipelineGeneration, NextGeneration, Runnable
      <3>2. row'.gen = row.gen + 1 /\ row'.exists = row.exists /\ row'.desired = row.desired
        BY <1>a, <3>1, Zenon DEF RowType
      <3>3. /\ call'[a].gen = row.gen + 1
            /\ \A b \in Actors : b # a => call'[b] = call[b]
        BY <1>a, <3>1 DEF CallType
      <3>4. TokenIsNew'
        <4> SUFFICES ASSUME NEW b \in Actors, call'[b].pc = "start"
                     PROVE  /\ row'.desired = "running"
                            /\ ~reborn' => call'[b].gen <= row'.gen
                            /\ ~reborn' => \A r \in Runners : rs'[r].active => rs'[r].gen < call'[b].gen
          BY DEF TokenIsNew
        <4>1. b = a
          BY <1>m, <3>1, <3>3, Zenon DEF Locked
        <4>2. ~reborn => \A r \in Runners : rs[r].active => rs[r].gen < row.gen + 1
          BY <1>n, SMT, Z3 DEF RunsAllocated
        <4>3. rs' = rs /\ reborn' = reborn /\ row'.desired = "running"
          BY <3>1, <3>2
        <4>4. call'[b].gen = row.gen + 1
          BY <3>3, <4>1
        <4>5. call'[b].gen <= row'.gen
          BY <1>n, <3>2, <4>4, SMT, Z3
        <4> QED
          BY <4>2, <4>3, <4>4, <4>5, Zenon
      <3>5. RunsAllocated' /\ OneRunPerGeneration' /\ FloorAllocated' /\ ResetHolds'
        BY <1>a, <1>n, <3>1, <3>2, SMTT(40), Z3T(40)
           DEF RunsAllocated, OneRunPerGeneration, FloorAllocated, ResetHolds
      <3>6. LaterRuns'
        <4>1. ~reborn => floor.gen <= row.gen + 1
          BY <1>a, <1>n, SMT, Z3 DEF FloorAllocated, FloorType
        <4> QED
          BY <3>1, <3>2, <3>3, <4>1, Zenon DEF LaterRuns
      <3> QED
        BY <3>4, <3>5, <3>6
    <2> QED
      BY <2>1, <2>2
  <1>2. CASE StartRunner(a)
    <2> DEFINE r == call[a].runner
    <2>1. CASE rs[r].active
      <3>1. Keeps
        BY <1>a, <1>2, <2>1, MoveKept, UnchangedKept DEF StartRunner, Keeps
      <3> QED
        BY <3>1, KeepsFence
    <2>2. CASE ~rs[r].active
      <3>1. /\ rs' = [rs EXCEPT ![r] = [status |-> "running", active |-> TRUE, gen |-> call[a].gen]]
            /\ call[a].pc = "start" /\ GoTo(a, "opening")
            /\ UNCHANGED <<row, cp, floor, reborn>>
        BY <1>2, <2>2 DEF StartRunner
      <3>2. r \in Runners
        BY <1>a, <3>1 DEF RunnerKnown
      <3>3. /\ rs'[r].active /\ rs'[r].gen = call[a].gen
            /\ \A q \in Runners : q # r => rs'[q] = rs[q]
        BY <1>a, <3>1, <3>2
      <3>4. \A b \in Actors : call'[b].pc # "start"
        BY <1>a, <1>m, <3>1, Zenon DEF GoTo, CallType, Locked
      <3>5. /\ ~reborn => call[a].gen <= row.gen
            /\ ~reborn => \A q \in Runners : rs[q].active => rs[q].gen < call[a].gen
        BY Zenon, <3>1 DEF TokenIsNew
      <3>6. TokenIsNew' /\ FloorAllocated' /\ ResetHolds'
        BY Zenon, <3>1, <3>4 DEF TokenIsNew, FloorAllocated, ResetHolds
      <3>7. RunsAllocated'
        BY Zenon, <3>1, <3>3, <3>5 DEF RunsAllocated
      <3>8. OneRunPerGeneration'
        BY SMTT(30), Z3T(30), <1>n, <3>1, <3>3, <3>5 DEF OneRunPerGeneration
      <3>9. LaterRuns'
        BY <3>1, <3>3, <3>4, Zenon DEF LaterRuns
      <3> QED
        BY <3>6, <3>7, <3>8, <3>9, Zenon
    <2> QED
      BY <2>1, <2>2, Zenon
  <1>3. CASE DesireQuiet(a)
    <2>1. /\ row'.gen = row.gen /\ row'.exists = row.exists
          /\ UNCHANGED <<cp, floor, reborn, rs>>
      BY <1>a, <1>3 DEF DesireQuiet, RowType
    <2>2. \A b \in Actors : call'[b].pc # "start"
      <3>1. CallsKept /\ lock = None
        BY <1>a, <1>3, MoveKept DEF DesireQuiet
      <3> QED
        BY <1>l, <3>1 DEF CallsKept
    <2> QED
      BY <2>1, <2>2
         DEF TokenIsNew, RunsAllocated, OneRunPerGeneration, FloorAllocated, LaterRuns, ResetHolds
  <1>4. CASE ReplaceCheckpoint(a)
    <2>1. \A b \in Actors : call'[b].pc # "start"
      <3>1. CallsKept /\ lock = None
        BY <1>a, <1>4, MoveKept, Zenon DEF ReplaceCheckpoint
      <3> QED
        BY <1>l, <3>1 DEF CallsKept
    <2>2. TokenIsNew'
      BY <2>1 DEF TokenIsNew
    <2>3. CASE UNCHANGED <<row, cp, floor>>
      BY <1>4, <2>1, <2>2, <2>3, Zenon
         DEF ReplaceCheckpoint, RunsAllocated, OneRunPerGeneration, FloorAllocated, LaterRuns, ResetHolds
    <2>4. CASE ~UNCHANGED <<row, cp, floor>>
      <3>1. /\ row'.gen = row.gen + 1 /\ row'.exists
            /\ cp'.gen \in {0, row.gen + 1}
            /\ floor' = [gen |-> row.gen + 1, going |-> SomeRun]
            /\ UNCHANGED <<reborn, rs>>
        BY <1>a, <1>4, <2>4, SMT, Z3 DEF ReplaceCheckpoint, RowType, NextGeneration, Quiescent, NoCheckpoint
      <3>2. floor'.gen = row.gen + 1 /\ floor'.going = SomeRun
        BY <3>1
      <3>3. LaterRuns'
        BY <2>1, <3>1, <3>2, Zenon DEF LaterRuns, SomeRun
      <3> QED
        BY <1>n, <2>2, <3>1, <3>2, <3>3, SMT, Z3
           DEF RunsAllocated, OneRunPerGeneration, FloorAllocated, ResetHolds
    <2> QED
      BY <2>3, <2>4
  <1>5. ASSUME NEW reset \in BOOLEAN, SaveSpec(a, reset) PROVE Fence'
    <2>1. CallsKept
      BY <1>a, <1>5, MoveKept, Zenon DEF SaveSpec
    <2>2. CASE UNCHANGED <<row, cp, floor, reborn>>
      <3>1. Keeps
        BY <1>5, <2>1, <2>2, UnchangedKept, ZenonT(40) DEF SaveSpec, Keeps
      <3> QED
        BY <3>1, KeepsFence
    <2>3. CASE ~UNCHANGED <<row, cp, floor, reborn>> /\ ~row.exists
      <3>1. reborn' = (reborn \/ ~row.exists)
        BY <1>5, <2>3 DEF SaveSpec
      <3>2. reborn'
        BY ZenonT(30), <2>3, <3>1
      <3>3. row'.desired = "running" /\ rs' = rs
        BY <1>5, <2>3, SMTT(40), Z3T(40) DEF SaveSpec, Stored, Quiet
      <3> QED
        BY <2>1, <3>2, <3>3
           DEF CallsKept, TokenIsNew, RunsAllocated, OneRunPerGeneration, FloorAllocated, LaterRuns, ResetHolds
    <2>4. CASE ~UNCHANGED <<row, cp, floor, reborn>> /\ row.exists
      <3>1. /\ row'.exists /\ row'.desired = row.desired
            /\ rs' = rs /\ reborn' = reborn
            /\ \/ row'.gen = row.gen /\ UNCHANGED <<cp, floor>>
               \/ /\ row'.gen = row.gen + 1 /\ cp' = NoCheckpoint
                  /\ floor' = [gen |-> row.gen + 1, going |-> SomeRun]
        BY <1>a, <1>5, <2>4, SMTT(40), Z3T(40) DEF SaveSpec, Stored, RowType, TypeOK
      <3>2. TokenIsNew'
        BY <1>n, <2>1, <2>4, <3>1, SMTT(40), Z3T(40) DEF CallsKept, TokenIsNew
      <3>3. \/ row'.gen = row.gen /\ UNCHANGED <<cp, floor>>
            \/ /\ row'.gen = row.gen + 1 /\ cp'.gen = 0
               /\ floor'.gen = row.gen + 1 /\ floor'.going = SomeRun
        BY <3>1, SMT, Z3 DEF NoCheckpoint
      <3>4. LaterRuns'
        BY <2>1, <2>4, <3>1, <3>3, Zenon DEF CallsKept, LaterRuns, SomeRun
      <3> QED
        BY <1>n, <2>4, <3>1, <3>2, <3>3, <3>4, SMT, Z3
           DEF RunsAllocated, OneRunPerGeneration, FloorAllocated, ResetHolds
    <2> QED
      BY <2>2, <2>3, <2>4
  <1>6. CASE DeleteRow(a)
    <2>1. /\ row'.gen = row.gen /\ ~row'.exists /\ cp'.gen = 0
          /\ floor'.gen = floor.gen /\ floor'.going = SomeRun
          /\ UNCHANGED <<reborn, rs>>
      BY <1>a, <1>6, SMT, Z3 DEF DeleteRow, RowType, NoCheckpoint
    <2>2. CallsKept
      BY <1>a, <1>6, MoveKept DEF DeleteRow
    <2>3. LaterRuns'
      BY <2>1, <2>2, Zenon DEF CallsKept, LaterRuns, SomeRun
    <2> QED
      BY <2>1, <2>2, <2>3 DEF CallsKept, TokenIsNew, RunsAllocated, OneRunPerGeneration, FloorAllocated, ResetHolds
  <1> QED
    BY <1>1, <1>2, <1>3, <1>4, <1>5, <1>6, ActorStepKeeps, KeepsFence

LEMMA StepFence ==
    ASSUME TypeOK, TypeOK', RunnerKnown, LockHeld, Fence, [Next]_vars
    PROVE  Fence'
  <1>a. call \in [Actors -> CallType] /\ rs \in [Runners -> RunnerType] /\ row \in RowType
    BY DEF TypeOK
  <1>b. Clients \subseteq Actors /\ {"main", "reconciler", "scheduler"} \subseteq Actors
    BY DEF Actors
  <1> USE UnchangedKept DEF Keeps
  <1>1. CASE UNCHANGED vars
    <2>1. Keeps
      BY <1>1 DEF vars
    <2> QED
      BY <2>1, KeepsFence
  <1>2. ASSUME NEW a \in Actors, ActorStep(a) PROVE Fence'
    BY <1>2, ActorStepFence
  <1>3. ASSUME NEW c \in Clients, RequestUpdate(c) PROVE Fence'
    <2>1. Keeps
      <3>1. CallsKept
        BY <1>3, <1>a, <1>b, BeginKept, Zenon DEF RequestUpdate, Idle
      <3> QED
        BY <1>3, <1>a, <3>1, FreshKept, Zenon DEF RequestUpdate
    <2> QED
      BY <2>1, KeepsFence
  <1>4. ASSUME NEW c \in Clients, NEW op \in Ops, Request(c, op) PROVE Fence'
    <2>1. Keeps
      <3>1. CallsKept
        BY <1>4, <1>a, <1>b, BeginKept, Zenon DEF Request, Idle
      <3> QED
        BY <1>4, <3>1 DEF Request
    <2> QED
      BY <2>1, KeepsFence
  <1>5. CASE Reconcile \/ Trigger
    <2>1. Keeps
      <3>1. CallsKept
        <4>1. CASE Reconcile
          BY <4>1, <1>a, BeginKept, Zenon DEF Reconcile, Idle
        <4>2. CASE Trigger
          BY <4>2, <1>a, BeginKept, Zenon DEF Trigger, Idle
        <4> QED
          BY <1>5, <4>1, <4>2
      <3> QED
        BY <1>5, <3>1 DEF Reconcile, Trigger
    <2> QED
      BY <2>1, KeepsFence
  <1>6. CASE Rebuild
    <2>1. CallsKept
      <3>1. CASE hasSpec
        <4>1. call' = [call EXCEPT !["reconciler"].pc = "swap", !["reconciler"].runner = SomeFresh]
          BY <1>6, <3>1 DEF Rebuild
        <4> QED
          BY <1>a, <1>b, <4>1 DEF CallType, CallsKept
      <3>2. CASE ~hasSpec
        BY <1>6, <1>a, <1>b, <3>2, MoveKept DEF Rebuild
      <3> QED
        BY <3>1, <3>2
    <2>2. Keeps
      BY <1>6, <1>a, <2>1, FreshKept DEF Rebuild
    <2> QED
      BY <2>2, KeepsFence
  <1>7. CASE SwapIn
    <2>1. Keeps
      BY <1>7, <1>a, <1>b, MoveKept DEF SwapIn
    <2> QED
      BY <2>1, KeepsFence
  <1>8. ASSUME NEW r \in Runners,
               (\E s \in {"failed", "completed"} : RunFinishes(r, s)) \/ RunEnds(r)
        PROVE  Fence'
    <2>1. Keeps
      <3>1. RunsKept
        BY <1>8, <1>a, SMTT(40), Z3T(40) DEF RunFinishes, RunEnds, RunnerType, RunsKept
      <3> QED
        BY <1>8, <3>1 DEF RunFinishes, RunEnds
    <2> QED
      BY <2>1, KeepsFence
  <1>9. ASSUME NEW r \in Runners, SaveCheckpoint(r) \/ SaveUnfenced(r) PROVE Fence'
    <2>1. UNCHANGED <<row, floor, reborn, rs, call>>
      BY <1>9, Zenon DEF SaveCheckpoint, SaveUnfenced
    <2>2. ResetHolds'
      <3>1. CASE SaveCheckpoint(r)
        <4>1. cp'.gen = row.gen /\ row.exists /\ row.gen \in Nat /\ floor.gen \in Nat
          BY <3>1, <1>a DEF SaveCheckpoint, Unfenced, RowType, TypeOK, FloorType
        <4> QED
          BY <2>1, <4>1 DEF Fence, FloorAllocated, ResetHolds
      <3>2. CASE SaveUnfenced(r)
        <4>1. cp'.gen = rs[r].gen /\ ~cp'.fenced /\ rs[r].active
          BY <3>2 DEF SaveUnfenced, Looping
        <4>2. rs[r].gen \in Nat /\ floor.gen \in Nat
          BY <1>a DEF RunnerType, TypeOK, FloorType
        <4>3. ~reborn /\ ~floor.going => row.exists /\ floor.gen <= rs[r].gen
          BY <4>1, Zenon DEF Fence, LaterRuns
        <4> QED
          BY <2>1, <4>1, <4>2, <4>3, Zenon DEF ResetHolds
      <3> QED
        BY <1>9, <3>1, <3>2
    <2> QED
      BY <2>1, <2>2 DEF Fence, TokenIsNew, RunsAllocated, OneRunPerGeneration, FloorAllocated, LaterRuns
  <1>10. ASSUME NEW o \in observers, ObserveEnd(o) PROVE Fence'
    <2>1. Keeps
      BY <1>10, <1>a, ObserveKept, Zenon DEF ObserveEnd
    <2> QED
      BY <2>1, KeepsFence, Zenon
  <1>11. CASE StopAll
    <2>1. Keeps
      <3>1. RowKept /\ RunsKept
        BY <1>11, <1>a, ObserveKept, StopTwiceKept DEF StopAll
      <3> QED
        BY <1>11, <3>1, Zenon DEF StopAll
    <2> QED
      BY <2>1, KeepsFence
  <1>12. CASE Crash
    <2>1. Keeps
      <3>1. RunsKept /\ CallsKept
        BY <1>12 DEF Crash, NewRunner, Idle, RunsKept, CallsKept
      <3> QED
        BY Zenon, <1>12, <3>1 DEF Crash
    <2> QED
      BY <2>1, KeepsFence
  <1>13. CASE Boot
    <2> DEFINE started == [Idle EXCEPT !.pc = "have", !.op = "boot", !.runner = CHOOSE x \in Runners : TRUE]
    <2>1. started.pc = "have"
      BY DEF Idle
    <2>2. call' = call \/ call' = [call EXCEPT !["main"] = started]
      BY <1>13 DEF Boot
    <2> HIDE DEF started
    <2>3. CallsKept
      BY <1>a, <1>b, <2>1, <2>2, BeginKept
    <2>4. row' = row \/ \E s : row' = Observe(0, s)
      BY <1>13 DEF Boot
    <2>5. Keeps
      BY <1>13, <1>a, <2>3, <2>4, ObserveKept DEF Boot
    <2> QED
      BY <2>5, KeepsFence
  <1> QED
    BY <1>1, <1>2, <1>3, <1>4, <1>5, <1>6, <1>7, <1>8, <1>9, <1>10, <1>11, <1>12, <1>13, Zenon DEF Next

-----------------------------------------------------------------------------
LEMMA InitInv == Init => Inv
  <1> SUFFICES ASSUME Init PROVE Inv
    OBVIOUS
  <1>1. TypeOK
    BY InitType, Zenon
  <1>2. RunnerKnown /\ LockHeld
    BY Zenon DEF Init, Idle, RunnerKnown, LockHeld, Locked
  <1>3. TokenIsNew
    BY Zenon DEF Init, Idle, TokenIsNew
  <1>4. RunsAllocated /\ OneRunPerGeneration
    BY Zenon DEF Init, NewRunner, RunsAllocated, OneRunPerGeneration
  <1>5. FloorAllocated /\ LaterRuns /\ ResetHolds
    BY SMT, Z3 DEF Init, FloorAllocated, LaterRuns, ResetHolds, NoCheckpoint, NewRunner, Idle
  <1> QED
    BY <1>1, <1>2, <1>3, <1>4, <1>5 DEF Inv, Fence

LEMMA StepInv == Inv /\ [Next]_vars => Inv'
  BY StepType, StepRunnerKnown, StepLockHeld, StepFence DEF Inv

(* The conjunction Inv of the types and the facts above is an invariant of
   every behaviour of the control plane. *)
THEOREM LifecycleInvariant == Spec => []Inv
  BY InitInv, StepInv, PTL DEF Spec

(* Every variable of the control plane keeps its type: no handler, restart,
   trigger, crash or reboot leaves a status, generation or pointer that the
   others do not know. *)
THEOREM LifecycleTypeCorrect == Spec => []TypeOK
  <1>1. Inv => TypeOK
    BY DEF Inv
  <1> QED
    BY <1>1, LifecycleInvariant, PTL

(* A reset, a set or a delete holds for any number of clients and runners:
   against fenced saves because FencedCheckpointUpsert compares the writing
   run's generation with the row's, and against the unfenced saves of writeBatch
   and of the final flushes when no run was going at the time. *)
THEOREM ResetFence == Spec => []ResetHolds
  <1>1. Inv => ResetHolds
    BY DEF Inv, Fence
  <1> QED
    BY <1>1, LifecycleInvariant, PTL

(* Two runs still going never hold the same generation, because
   BeginPipelineGeneration and the checkpoint replacements all advance it and
   startManagedPipelineLocked keeps the lock until the run holds it. *)
THEOREM TokenNamesOneRun == Spec => []OneRunPerGeneration
  <1>1. Inv => OneRunPerGeneration
    BY SMTT(30), Z3T(30) DEF Inv, Fence
  <1> QED
    BY <1>1, LifecycleInvariant, PTL

(* The only step that makes a run active is StartRunner. *)
LEMMA OnlyStartActivates ==
    ASSUME TypeOK, RunnerKnown, [Next]_vars, NEW r \in Runners, ~rs[r].active, rs'[r].active
    PROVE  \E a \in Actors : StartRunner(a)
  <1>a. call \in [Actors -> CallType] /\ rs \in [Runners -> RunnerType] /\ row \in RowType
    BY DEF TypeOK
  <1>f. ASSUME NEW f, rs' = [rs EXCEPT ![f] = NewRunner] PROVE FALSE
    BY <1>a, <1>f DEF NewRunner
  <1>1. CASE UNCHANGED rs
    BY ZenonT(40), <1>1
  <1>2. ASSUME NEW a \in Actors, ActorStep(a), ~StartRunner(a) PROVE FALSE
    <2>1. CASE Keeps
      BY <2>1 DEF Keeps, RunsKept
    <2>2. CASE \/ BeginPipelineGeneration(a) \/ DesireQuiet(a) \/ ReplaceCheckpoint(a)
               \/ DeleteRow(a) \/ \E reset \in BOOLEAN : SaveSpec(a, reset)
      BY <2>2 DEF BeginPipelineGeneration, DesireQuiet, ReplaceCheckpoint, DeleteRow, SaveSpec
    <2> QED
      BY <1>2, <2>1, <2>2, ActorStepKeeps
  <1>3. ASSUME NEW c \in Clients, RequestUpdate(c) PROVE FALSE
    BY <1>3, <1>f, Zenon DEF RequestUpdate
  <1>4. CASE Rebuild
    BY <1>4, <1>f, <1>1 DEF Rebuild
  <1>5. ASSUME NEW q \in Runners, NEW s \in {"failed", "completed"}, RunFinishes(q, s) PROVE FALSE
    BY <1>5, <1>a DEF RunFinishes, RunnerType
  <1>6. ASSUME NEW q \in Runners, RunEnds(q) PROVE FALSE
    BY <1>6, <1>a, Zenon DEF RunEnds, RunnerType
  <1>7. CASE StopAll
    BY <1>7, <1>a, StopTwiceKept, Zenon DEF StopAll, RunsKept
  <1>8. CASE Crash
    BY <1>8 DEF Crash, NewRunner
  <1>9. ASSUME \/ UNCHANGED vars \/ Reconcile \/ SwapIn \/ Trigger \/ Boot
               \/ \E c \in Clients, op \in Ops : Request(c, op)
               \/ \E q \in Runners : SaveCheckpoint(q) \/ SaveUnfenced(q)
               \/ \E o \in observers : ObserveEnd(o)
        PROVE  FALSE
    BY <1>9, Zenon DEF vars, Reconcile, SwapIn, Trigger, Boot, Request, SaveCheckpoint, SaveUnfenced, ObserveEnd
  <1> QED
    BY <1>2, <1>3, <1>4, <1>5, <1>6, <1>7, <1>8, <1>9, Zenon DEF Next

(* No run is opened while the operator wants the pipeline stopped or paused:
   requestPipelineStart, requestPipelineQuiesce and startManagedPipeline hold
   the same lock, and BeginPipelineGeneration checks the desired state. *)
THEOREM IntentRespected == Spec => NoRunAgainstIntent
  <1> DEFINE Opens(r) == ~rs[r].active /\ rs'[r].active /\ row.exists
  <1>1. Inv /\ [Next]_vars => [\A r \in Runners : Opens(r) => row.desired = "running"]_vars
    <2> SUFFICES ASSUME Inv, [Next]_vars, NEW r \in Runners, Opens(r)
                 PROVE  row.desired = "running"
      OBVIOUS
    <2>1. PICK a \in Actors : StartRunner(a)
      BY OnlyStartActivates DEF Inv
    <2> QED
      BY Zenon, <2>1 DEF StartRunner, Inv, Fence, TokenIsNew
  <1> QED
    BY <1>1, LifecycleInvariant, PTL DEF Spec, NoRunAgainstIntent

=============================================================================
