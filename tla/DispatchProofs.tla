--------------------------- MODULE DispatchProofs ---------------------------
(***************************************************************************)
(* The state of TaskDispatch keeps its type, and no worker is handed more  *)
(* than its slots hold, for any number of workers, tasks, slots and        *)
(* attempts, any crashes, and any times of lease and heartbeat.            *)
(***************************************************************************)
EXTENDS TaskDispatch, FiniteSetTheorems, TLAPS

-----------------------------------------------------------------------------
(* Rows of the store.                                                       *)

LEMMA RemappedRows ==
    ASSUME NEW S, NEW s \in Seq(S), NEW f \in [DOMAIN s -> S]
    PROVE  f \in Seq(S) /\ DOMAIN f = DOMAIN s
  <1>1. Len(s) \in Nat /\ DOMAIN s = 1..Len(s)
    BY SMT, Z3
  <1>2. f \in [1..Len(s) -> S]
    BY <1>1
  <1> QED
    BY <1>1, <1>2, SMT, Z3

LEMMA UpdatedRows ==
    ASSUME rows \in Seq(Row), NEW r \in Row
    PROVE  /\ UpdateTask(r) \in Seq(Row) /\ DOMAIN UpdateTask(r) = DOMAIN rows
           /\ CASUpdateTask(r) \in Seq(Row) /\ DOMAIN CASUpdateTask(r) = DOMAIN rows
  <1>1. \A i \in DOMAIN rows : rows[i] \in Row
    BY SMT, Z3
  <1>2. UpdateTask(r) \in [DOMAIN rows -> Row] /\ CASUpdateTask(r) \in [DOMAIN rows -> Row]
    BY <1>1 DEF UpdateTask, CASUpdateTask
  <1> QED
    BY <1>2, RemappedRows

LEMMA AppendedRows ==
    ASSUME rows \in Seq(Row), NEW r \in Row
    PROVE  /\ Append(rows, r) \in Seq(Row)
           /\ DOMAIN Append(rows, r) = DOMAIN rows \cup {Len(rows) + 1}
           /\ Len(rows) + 1 \notin DOMAIN rows
           /\ Append(rows, r)[Len(rows) + 1] = r
           /\ \A i \in DOMAIN rows : Append(rows, r)[i] = rows[i]
  BY SMT, Z3

-----------------------------------------------------------------------------
(* A set of rows that counts less than one is empty, as CreateTask finds.   *)

LEMMA FiniteCount ==
    ASSUME NEW S, IsFiniteSet(S)
    PROVE  Cardinality(S) \in Nat
  BY FS_CardinalityType, Zenon

LEMMA NoRowCounted ==
    ASSUME NEW n \in Nat, NEW S \in SUBSET (1..n), MaxRows = 1, Cardinality(S) < MaxRows
    PROVE  S = {}
  <1>1. IsFiniteSet(1..n)
    BY FS_Interval, SMT, Z3
  <1>2. IsFiniteSet(S)
    BY <1>1, FS_Subset, Zenon
  <1>3. Cardinality(S) = 0
    BY <1>2, FiniteCount, SMT, Z3
  <1> QED
    BY <1>2, <1>3, FS_EmptySet, Zenon

-----------------------------------------------------------------------------
(* Slots: a worker starts a task only when it has a slot for it.            *)

SlotsSuffice ==
    /\ IsFiniteSet(execs)
    /\ \A c, d \in polled : c.worker = d.worker => c = d
    /\ \A w \in Workers : Cardinality(InFlight(w)) <= Slots
    /\ \A c \in polled : Cardinality(InFlight(c.worker)) < Slots

LEMMA InFlightFinite ==
    ASSUME IsFiniteSet(execs), NEW w
    PROVE  IsFiniteSet(InFlight(w)) /\ Cardinality(InFlight(w)) \in Nat
  <1>1. InFlight(w) \in SUBSET execs
    BY DEF InFlight
  <1> QED
    BY <1>1, FS_Subset, FS_CardinalityType

LEMMA SlotIsFree ==
    ASSUME execs \subseteq Exec, IsFiniteSet(execs),
           NEW w, Cardinality(InFlight(w)) < Slots
    PROVE  FreeSlot(w) \in 1..Slots
  <1>1. SUFFICES ASSUME \A k \in 1..Slots : \E e \in InFlight(w) : e.slot = k
                 PROVE  FALSE
    BY DEF FreeSlot
  <1> DEFINE g == [k \in 1..Slots |-> CHOOSE e \in InFlight(w) : e.slot = k]
  <1>2. \A k \in 1..Slots : g[k] \in InFlight(w) /\ g[k].slot = k
    BY <1>1
  <1>3. g \in [1..Slots -> InFlight(w)]
    BY <1>2
  <1>4. IsFiniteSet(1..Slots) /\ Cardinality(1..Slots) = Slots
    BY FS_Interval, DispatchAssumption, SMT, Z3
  <1>5. \E x, y \in 1..Slots : x # y /\ g[x] = g[y]
    <2> HIDE DEF g
    <2> QED
      BY <1>3, <1>4, InFlightFinite, FS_PigeonHole, Zenon
  <1> QED
    BY <1>2, <1>5

LEMMA ReplacedExec ==
    ASSUME IsFiniteSet(execs), NEW e \in execs, NEW f, f.worker = e.worker,
           execs' = (execs \ {e}) \cup {f}
    PROVE  /\ IsFiniteSet(execs')
           /\ \A w : Cardinality(InFlight(w)') <= Cardinality(InFlight(w))
  <1>1. IsFiniteSet(execs')
    <2>1. IsFiniteSet(execs \ {e})
      BY FS_RemoveElement
    <2> QED
      BY <2>1, FS_AddElement
  <1>2. ASSUME NEW w PROVE Cardinality(InFlight(w)') <= Cardinality(InFlight(w))
    <2>1. IsFiniteSet(InFlight(w)) /\ Cardinality(InFlight(w)) \in Nat
      BY InFlightFinite
    <2>2. CASE w = e.worker
      <3>1. InFlight(w)' = (InFlight(w) \ {e}) \cup {f} /\ e \in InFlight(w)
        BY <2>2 DEF InFlight
      <3>2. IsFiniteSet(InFlight(w) \ {e}) /\ Cardinality(InFlight(w) \ {e}) = Cardinality(InFlight(w)) - 1
        BY <2>1, <3>1, FS_RemoveElement, Zenon
      <3> DEFINE S == InFlight(w) \ {e}
      <3>3. Cardinality(S \cup {f}) = IF f \in S THEN Cardinality(S) ELSE Cardinality(S) + 1
        <4> HIDE DEF S
        <4>1. IsFiniteSet(S)
          BY <3>2 DEF S
        <4> QED
          BY <4>1, FS_AddElement, Zenon
      <3>4. Cardinality(S \cup {f}) <= Cardinality(InFlight(w))
        BY <2>1, <3>2, <3>3, SMT, Z3
      <3> QED
        BY <3>1, <3>4
    <2>3. CASE w # e.worker
      <3>1. InFlight(w)' = InFlight(w)
        BY <2>3 DEF InFlight
      <3> QED
        BY <2>1, <3>1, SMT, Z3
    <2> QED
      BY <2>2, <2>3
  <1> QED
    BY <1>1, <1>2

LEMMA StartedExec ==
    ASSUME IsFiniteSet(execs), NEW f, execs' = execs \cup {f}
    PROVE  /\ IsFiniteSet(execs')
           /\ \A w : w # f.worker => InFlight(w)' = InFlight(w)
           /\ Cardinality(InFlight(f.worker)') <= Cardinality(InFlight(f.worker)) + 1
  <1>1. IsFiniteSet(execs \cup {f})
    BY FS_AddElement
  <1>2. ASSUME NEW w, w # f.worker PROVE InFlight(w)' = InFlight(w)
    BY <1>2 DEF InFlight
  <1>3. InFlight(f.worker)' = InFlight(f.worker) \cup {f}
    BY DEF InFlight
  <1> DEFINE S == InFlight(f.worker)
  <1>4. Cardinality(S \cup {f}) = IF f \in S THEN Cardinality(S) ELSE Cardinality(S) + 1
    <2> HIDE DEF S
    <2>1. IsFiniteSet(S)
      BY InFlightFinite DEF S
    <2> QED
      BY <2>1, FS_AddElement, Zenon
  <1>5. Cardinality(S) \in Nat
    BY InFlightFinite
  <1> QED
    BY <1>1, <1>2, <1>3, <1>4, <1>5, SMT, Z3

LEMMA EndedExecs ==
    ASSUME IsFiniteSet(execs), execs' \subseteq execs
    PROVE  /\ IsFiniteSet(execs')
           /\ \A w : Cardinality(InFlight(w)') <= Cardinality(InFlight(w))
  <1>1. IsFiniteSet(execs')
    BY FS_Subset
  <1>2. ASSUME NEW w PROVE Cardinality(InFlight(w)') <= Cardinality(InFlight(w))
    <2>1. InFlight(w)' \in SUBSET InFlight(w)
      BY DEF InFlight
    <2> QED
      BY <2>1, InFlightFinite, FS_Subset
  <1> QED
    BY <1>1, <1>2

-----------------------------------------------------------------------------
(* Type correctness.  A pending task has an attempt left.                   *)

PendingHasBudget ==
    \A i \in DOMAIN rows : rows[i].status = "pending" => rows[i].attempt < MaxAttempts

DispatchType == TypeOK /\ PendingHasBudget /\ SlotsSuffice

LEMMA RowType ==
    ASSUME rows \in Seq(Row)
    PROVE  \A i \in DOMAIN rows : rows[i] \in Row
  BY SMT, Z3

LEMMA SameSlots ==
    ASSUME SlotsSuffice, UNCHANGED <<polled, execs>>
    PROVE  SlotsSuffice'
  BY DEF SlotsSuffice, InFlight

LEMMA RequeuedType ==
    ASSUME NEW r \in Row
    PROVE  /\ Requeued(r) \in Row
           /\ Requeued(r).task = r.task /\ Requeued(r).gen = r.gen
           /\ Requeued(r).attempt = r.attempt
           /\ Requeued(r).status = "pending" => r.attempt < MaxAttempts
           /\ Requeued(r).status \in {"pending", "failed"}
           /\ Requeued(r).status = "failed" => r.attempt = MaxAttempts
  <1>1. r.attempt \in 0..MaxAttempts /\ MaxAttempts \in Nat /\ LeaseTTL \in Nat
    BY DispatchAssumption DEF Row
  <1>2. 0 \in 0 .. LeaseTTL + 1
    BY <1>1, SMT, Z3
  <1>3. CASE r.attempt >= MaxAttempts
    <2>1. Requeued(r) = [r EXCEPT !.status = "failed", !.age = 0]
      BY <1>3 DEF Requeued
    <2>2. Requeued(r) \in Row
      BY <1>2, <2>1, Zenon DEF Row, Terminal
    <2>3. r.attempt = MaxAttempts
      BY <1>1, <1>3, SMT, Z3
    <2> QED
      BY <2>1, <2>2, <2>3 DEF Row
  <1>4. CASE ~(r.attempt >= MaxAttempts)
    <2>1. Requeued(r) = [r EXCEPT !.status = "pending", !.worker = NoWorker, !.age = 0]
      BY <1>4 DEF Requeued
    <2>2. Requeued(r) \in Row
      BY <1>2, <2>1, Zenon DEF Row
    <2>3. r.attempt < MaxAttempts
      BY <1>1, <1>4, SMT, Z3
    <2> QED
      BY <2>1, <2>2, <2>3 DEF Row
  <1> QED
    BY <1>3, <1>4

LEMMA InitDispatchType == DispatchInit => DispatchType
  <1> SUFFICES ASSUME DispatchInit PROVE DispatchType
    OBVIOUS
  <1>1. TypeOK
    <2>1. rows \in Seq(Row)
      BY SMT, Z3 DEF DispatchInit
    <2> QED
      BY <2>1, DispatchAssumption, SMT, Z3 DEF DispatchInit, TypeOK
  <1>2. PendingHasBudget
    BY SMT, Z3 DEF DispatchInit, PendingHasBudget
  <1>3. SlotsSuffice
    <2>1. \A w : InFlight(w) = {}
      BY DEF DispatchInit, InFlight
    <2>2. IsFiniteSet({}) /\ Cardinality({}) = 0
      BY FS_EmptySet
    <2>3. execs = {} /\ polled = {} /\ 0 <= Slots
      BY DispatchAssumption, SMT, Z3 DEF DispatchInit
    <2> QED
      BY <2>1, <2>2, <2>3 DEF SlotsSuffice
  <1> QED
    BY <1>1, <1>2, <1>3 DEF DispatchType

LEMMA CreateTaskType ==
    ASSUME DispatchType, NEW t \in Tasks, CreateTask(t)
    PROVE  DispatchType'
  <1> DEFINE r == [task |-> t, status |-> "pending", worker |-> NoWorker,
                   gen |-> 0, attempt |-> 0, age |-> 0]
  <1>1. r \in Row
    BY DispatchAssumption, SMT, Z3 DEF Row
  <1>2. rows' = Append(rows, r) /\ rows \in Seq(Row)
    BY DEF CreateTask, DispatchType, TypeOK
  <1>3. rows' \in Seq(Row) /\ PendingHasBudget'
    <2>1. r.attempt < MaxAttempts
      BY DispatchAssumption, SMT, Z3
    <2> HIDE DEF r
    <2>2. /\ rows' \in Seq(Row)
          /\ DOMAIN rows' = DOMAIN rows \cup {Len(rows) + 1}
          /\ rows'[Len(rows) + 1] = r
          /\ \A i \in DOMAIN rows : rows'[i] = rows[i]
      BY <1>1, <1>2, AppendedRows
    <2> QED
      BY <2>1, <2>2 DEF DispatchType, PendingHasBudget
  <1>4. SlotsSuffice'
    BY SameSlots DEF CreateTask, DispatchType, workers
  <1> QED
    BY <1>3, <1>4 DEF CreateTask, DispatchType, TypeOK, workers, health, history

LEMMA HealthType ==
    ASSUME DispatchType, Health \/ MasterCrash
    PROVE  DispatchType'
  <1> USE DEF DispatchType
  <1>1. SlotsSuffice'
    <2>1. UNCHANGED workers
      BY DEF Health, CheckWorkerHealth, MarkOffline, ListStaleTasks, ReassignStaleTask, MasterCrash
    <2> QED
      BY <2>1, SameSlots DEF workers
  <1>2. CASE CheckWorkerHealth
    BY <1>1, <1>2 DEF CheckWorkerHealth, TypeOK, PendingHasBudget, store, workers, history
  <1>3. ASSUME NEW w \in Workers, MarkOffline(w) PROVE DispatchType'
    BY <1>1, <1>3 DEF MarkOffline, TypeOK, PendingHasBudget, workers, history
  <1>4. CASE ListStaleTasks
    <2>1. stale' \subseteq Row
      BY <1>4, RowType, SMT, Z3 DEF ListStaleTasks, TypeOK
    <2>2. mpc' \in {"idle", "requeue"}
      BY <1>4 DEF ListStaleTasks
    <2> QED
      BY <1>1, <1>4, <2>1, <2>2 DEF ListStaleTasks, TypeOK, PendingHasBudget, store, workers, history
  <1>5. ASSUME NEW r \in stale, ReassignStaleTask(r) PROVE DispatchType'
    <2>1. r \in Row /\ rows \in Seq(Row)
      BY DEF TypeOK
    <2>2. rows' \in Seq(Row) /\ PendingHasBudget'
      <3>1. CASE rows' = UpdateTask(Requeued(r))
        BY <2>1, <3>1, UpdatedRows, RequeuedType DEF UpdateTask, PendingHasBudget
      <3>2. CASE rows' = rows
        BY <2>1, <3>2 DEF PendingHasBudget
      <3> QED
        BY <1>5, <3>1, <3>2 DEF ReassignStaleTask
    <2> QED
      BY <1>1, <1>5, <2>2 DEF ReassignStaleTask, TypeOK, workers, history
  <1>6. CASE MasterCrash
    BY <1>1, <1>6, DispatchAssumption, SMT, Z3 DEF MasterCrash, TypeOK, PendingHasBudget, store, workers
  <1> QED
    BY <1>2, <1>3, <1>4, <1>5, <1>6 DEF Health

LEMMA ClaimedType ==
    ASSUME NEW w \in Workers, NEW r \in Row, r.attempt < MaxAttempts
    PROVE  /\ Claimed(w, r) \in Row
           /\ Claimed(w, r).status = "assigned" /\ Claimed(w, r).worker = w
           /\ Claimed(w, r).task = r.task /\ Claimed(w, r).gen = r.gen + 1
           /\ Claimed(w, r).attempt = r.attempt + 1
  <1>1. r.attempt + 1 \in 0..MaxAttempts /\ 0 \in 0 .. LeaseTTL + 1 /\ r.gen + 1 \in Nat
    BY DispatchAssumption, SMT, Z3 DEF Row
  <1>2. Claimed(w, r) \in Row
    BY <1>1, Zenon DEF Claimed, Row, Active
  <1> QED
    BY <1>2 DEF Claimed, Row

(* What AssignNextTask does to the rows: those it claims, and no other, get the
   next generation. *)
LEMMA AssignedRows ==
    ASSUME TypeOK, PendingHasBudget, NEW w \in Workers, NEW answered, AssignNextTask(w, answered)
    PROVE  /\ rows' \in Seq(Row)
           /\ DOMAIN rows' = DOMAIN rows
           /\ PendingHasBudget'
           /\ \E i \in DOMAIN rows :
                 /\ rows[i].status = "pending"
                 /\ \A j \in DOMAIN rows :
                       rows'[j] = IF /\ rows[j].task = rows[i].task
                                     /\ rows[j].status = "pending"
                                     /\ rows[j].gen = rows[i].gen
                                  THEN Claimed(w, rows[j]) ELSE rows[j]
                 /\ polled' = IF answered
                              THEN polled \cup {[worker |-> w, task |-> rows[i].task,
                                                 gen |-> rows[i].gen + 1,
                                                 attempt |-> rows[i].attempt + 1, age |-> 0]}
                              ELSE polled
  <1>1. PICK i \in DOMAIN rows :
           /\ Claimable(w, i)
           /\ rows' = [j \in DOMAIN rows |->
                         IF /\ rows[j].task = Claimed(w, rows[i]).task
                            /\ rows[j].status = "pending"
                            /\ rows[j].gen = rows[i].gen
                         THEN Claimed(w, rows[j]) ELSE rows[j]]
           /\ polled' = IF answered
                        THEN polled \cup {[worker |-> w, task |-> Claimed(w, rows[i]).task,
                                           gen |-> Claimed(w, rows[i]).gen,
                                           attempt |-> Claimed(w, rows[i]).attempt, age |-> 0]}
                        ELSE polled
    BY ZenonT(40) DEF AssignNextTask
  <1>2. rows \in Seq(Row) /\ \A j \in DOMAIN rows : rows[j] \in Row
    BY RowType DEF TypeOK
  <1>3. \A j \in DOMAIN rows : rows[j].status = "pending" => rows[j].attempt < MaxAttempts
    BY DEF PendingHasBudget
  <1>4. rows[i].status = "pending"
    BY <1>1 DEF Claimable
  <1>5. /\ Claimed(w, rows[i]).task = rows[i].task
        /\ Claimed(w, rows[i]).gen = rows[i].gen + 1
        /\ Claimed(w, rows[i]).attempt = rows[i].attempt + 1
    BY <1>2, <1>3, <1>4, ClaimedType, ZenonT(40)
  <1>6. rows' \in [DOMAIN rows -> Row]
    BY <1>1, <1>2, <1>3, ClaimedType
  <1>7. rows' \in Seq(Row) /\ DOMAIN rows' = DOMAIN rows
    BY <1>2, <1>6, RemappedRows
  <1>8. PendingHasBudget'
    <2> SUFFICES ASSUME NEW j \in DOMAIN rows, rows'[j].status = "pending"
                 PROVE  rows'[j].attempt < MaxAttempts
      BY <1>7, Zenon DEF PendingHasBudget
    <2>1. rows'[j] = rows[j]
      BY <1>1, <1>2, <1>3, ClaimedType, SMTT(40), Z3T(40)
    <2> QED
      BY <1>3, <2>1
  <1> QED
    BY <1>1, <1>4, <1>5, <1>7, <1>8, Zenon

LEMMA PollTaskType ==
    ASSUME DispatchType, NEW w \in Workers, PollTask(w)
    PROVE  DispatchType'
  <1> USE DEF DispatchType
  <1>1. PICK answered \in BOOLEAN : AssignNextTask(w, answered)
    BY DispatchAssumption, Zenon DEF PollTask
  <1>2. rows' \in Seq(Row) /\ PendingHasBudget'
    BY <1>1, AssignedRows, SMTT(40), Z3T(40)
  <1>3. PICK i \in DOMAIN rows :
           /\ rows[i].status = "pending"
           /\ polled' = IF answered
                        THEN polled \cup {[worker |-> w, task |-> rows[i].task,
                                           gen |-> rows[i].gen + 1,
                                           attempt |-> rows[i].attempt + 1, age |-> 0]}
                        ELSE polled
    BY <1>1, AssignedRows
  <1> DEFINE c == [worker |-> w, task |-> rows[i].task, gen |-> rows[i].gen + 1,
                   attempt |-> rows[i].attempt + 1, age |-> 0]
  <1>4. c \in Claim
    <2>1. rows[i] \in Row /\ rows[i].attempt < MaxAttempts
      BY <1>3, RowType DEF TypeOK, PendingHasBudget
    <2>2. rows[i].attempt + 1 \in 0..MaxAttempts /\ 0 \in 0 .. LeaseTTL + 1 /\ rows[i].gen + 1 \in Nat
      BY <2>1, DispatchAssumption, SMTT(40), Z3T(40) DEF Row
    <2> QED
      BY <2>1, <2>2 DEF Row, Claim
  <1>5. polled' \subseteq polled \cup {c} /\ c.worker = w
    BY <1>3
  <1> HIDE DEF c
  <1>6. polled' \subseteq Claim
    BY <1>4, <1>5 DEF TypeOK
  <1>7. execs' = execs
    BY DEF PollTask
  <1>8. \A v : InFlight(v)' = InFlight(v)
    BY <1>7 DEF InFlight
  <1>9. SlotsSuffice'
    <2>1. Cardinality(InFlight(w)) < Slots /\ \A d \in polled : d.worker # w
      BY Zenon DEF PollTask
    <2>2. \A d, e \in polled' : d.worker = e.worker => d = e
      BY <1>5, <2>1, Zenon DEF SlotsSuffice
    <2>3. \A d \in polled' : Cardinality(InFlight(d.worker)) < Slots
      BY <1>5, <2>1, Zenon DEF SlotsSuffice
    <2> QED
      BY <1>7, <1>8, <2>2, <2>3, Zenon DEF SlotsSuffice
  <1> QED
    BY <1>2, <1>6, <1>9, SMTT(40), Z3T(40) DEF PollTask, TypeOK, health, history

LEMMA FewerSlots ==
    ASSUME SlotsSuffice, polled' \subseteq polled, polled \subseteq Claim, execs' \subseteq execs
    PROVE  SlotsSuffice'
  <1>1. IsFiniteSet(execs') /\ \A w : Cardinality(InFlight(w)') <= Cardinality(InFlight(w))
    BY EndedExecs DEF SlotsSuffice
  <1>2. \A w : Cardinality(InFlight(w)) \in Nat
    BY InFlightFinite DEF SlotsSuffice
  <1>3. \A w : Cardinality(InFlight(w)') \in Nat
    <2> SUFFICES ASSUME NEW w PROVE Cardinality(InFlight(w)') \in Nat
      OBVIOUS
    <2>1. InFlight(w)' \in SUBSET execs'
      BY DEF InFlight
    <2> QED
      BY <1>1, <2>1, FS_Subset, FS_CardinalityType
  <1>4. Slots \in Nat
    BY DispatchAssumption
  <1>5. \A w \in Workers : Cardinality(InFlight(w)') <= Slots
    BY <1>1, <1>2, <1>3, <1>4, SMT, Z3 DEF SlotsSuffice
  <1>6. \A c \in polled' : Cardinality(InFlight(c.worker)') < Slots
    BY <1>1, <1>2, <1>3, <1>4, SMT, Z3 DEF SlotsSuffice
  <1>7. \A c, d \in polled' : c.worker = d.worker => c = d
    BY DEF SlotsSuffice
  <1> QED
    BY <1>1, <1>5, <1>6, <1>7 DEF SlotsSuffice

LEMMA WorkerType ==
    ASSUME DispatchType, NEW w \in Workers, Worker(w)
    PROVE  DispatchType'
  <1> USE DEF DispatchType
  <1>1. CASE PollTask(w)
    BY <1>1, PollTaskType
  <1>2. CASE ~PollTask(w)
    <2>1. rows' = rows /\ polled' \subseteq polled /\ execs' \subseteq execs
      BY <1>2, SMTT(40), Z3T(40)
         DEF Worker, WorkerStart, Heartbeat, HeartbeatFailed, WorkerStop, WorkerExit, WorkerCrash,
                  ProcessEnds, workers, store
    <2>2. SlotsSuffice' /\ PendingHasBudget'
      BY <2>1, FewerSlots DEF TypeOK, PendingHasBudget
    <2>3. 0 \in 0 .. StaleAfter + 1 /\ [beat EXCEPT ![w] = 0] \in [Workers -> 0 .. StaleAfter + 1]
      BY DispatchAssumption, SMT, Z3 DEF TypeOK
    <2>4. CASE WorkerStart(w) \/ Heartbeat(w) \/ HeartbeatFailed(w)
      BY <2>2, <2>3, <2>4, Zenon DEF WorkerStart, Heartbeat, HeartbeatFailed, TypeOK, workers, health, history
    <2>5. crashes < MaxCrashes => crashes + 1 \in 0..MaxCrashes
      BY DispatchAssumption, SMT, Z3 DEF TypeOK
    <2>6. CASE WorkerStop(w)
      BY <2>2, <2>5, <2>6, SMTT(40), Z3T(40) DEF WorkerStop, TypeOK, health
    <2>7. CASE WorkerExit(w) \/ WorkerCrash(w)
      BY <2>2, <2>5, <2>7, Zenon DEF WorkerExit, WorkerCrash, ProcessEnds, TypeOK, store, health
    <2> QED
      BY <1>2, <2>4, <2>6, <2>7, SMTT(40), Z3T(40) DEF Worker
  <1> QED
    BY <1>1, <1>2

LEMMA RowOfType ==
    ASSUME NEW c, c.task \in Tasks, c.worker \in Workers, c.gen \in Nat, c.attempt \in 0..MaxAttempts,
           NEW s \in Active \cup Terminal
    PROVE  /\ RowOf(c, s) \in Row
           /\ RowOf(c, s).task = c.task /\ RowOf(c, s).status = s /\ RowOf(c, s).worker = c.worker
           /\ RowOf(c, s).gen = c.gen /\ RowOf(c, s).attempt = c.attempt
  <1>1. 0 \in 0 .. LeaseTTL + 1
    BY DispatchAssumption, SMT, Z3
  <1> QED
    BY <1>1 DEF RowOf, Row

(* The row casMarkRunning writes. *)
RunningRow(c) == [RowOf(c, "running") EXCEPT !.age = IF c.age > LeaseTTL THEN 0 ELSE c.age]

StartedOf(c) == [worker |-> c.worker, slot |-> FreeSlot(c.worker), task |-> c.task,
                 gen |-> c.gen, attempt |-> c.attempt, pc |-> "executing", result |-> "none"]

LEMMA RunningRowType ==
    ASSUME NEW c \in Claim
    PROVE  /\ RunningRow(c) \in Row
           /\ RunningRow(c).task = c.task /\ RunningRow(c).status = "running"
           /\ RunningRow(c).worker = c.worker /\ RunningRow(c).gen = c.gen
  <1>1. c.age \in 0 .. LeaseTTL + 1 /\ 0 \in 0 .. LeaseTTL + 1
    BY DispatchAssumption, SMT, Z3 DEF Claim
  <1>2. RowOf(c, "running") \in Row
    BY RowOfType DEF Claim, Active
  <1> QED
    BY <1>1, <1>2 DEF RunningRow, Row, RowOf

(* What an execution's step does to the rows: nothing, a fenced update or an
   unconditional one by a row that is not pending. *)
LEMMA WrittenRows ==
    ASSUME rows \in Seq(Row), PendingHasBudget, NEW r \in Row, r.status # "pending",
           rows' \in {rows, UpdateTask(r), CASUpdateTask(r)}
    PROVE  rows' \in Seq(Row) /\ DOMAIN rows' = DOMAIN rows /\ PendingHasBudget'
  BY UpdatedRows, Zenon DEF UpdateTask, CASUpdateTask, PendingHasBudget

LEMMA CasMarkRunningType ==
    ASSUME DispatchType, NEW c \in polled, CasMarkRunning(c)
    PROVE  DispatchType'
  <1> USE DEF DispatchType
  <1>1. c \in Claim /\ rows \in Seq(Row) /\ execs \subseteq Exec
    BY DEF TypeOK
  <1>2. rows' \in {rows, UpdateTask(RunningRow(c)), CASUpdateTask(RunningRow(c))}
    BY DEF CasMarkRunning, RunningRow
  <1>3. rows' \in Seq(Row) /\ PendingHasBudget'
    BY <1>1, <1>2, RunningRowType, WrittenRows
  <1>4. polled' = polled \ {c} /\ (execs' = execs \/ execs' = execs \cup {StartedOf(c)})
    BY DEF CasMarkRunning, StartedOf
  <1>5. StartedOf(c) \in Exec
    <2>1. FreeSlot(c.worker) \in 1..Slots
      BY <1>1, SlotIsFree DEF SlotsSuffice
    <2> QED
      BY <1>1, <2>1, SMTT(40), Z3T(40) DEF StartedOf, Claim, Exec
  <1>6. SlotsSuffice'
    <2>1. CASE execs' = execs
      BY <1>4, <2>1, FewerSlots, SMTT(40), Z3T(40) DEF TypeOK
    <2>2. CASE execs' = execs \cup {StartedOf(c)}
      <3>1. /\ IsFiniteSet(execs')
            /\ \A w : w # c.worker => InFlight(w)' = InFlight(w)
            /\ Cardinality(InFlight(c.worker)') <= Cardinality(InFlight(c.worker)) + 1
        <4>1. StartedOf(c).worker = c.worker
          BY DEF StartedOf
        <4> QED
          BY <2>2, <4>1, StartedExec DEF SlotsSuffice
      <3>2. Cardinality(InFlight(c.worker)) \in Nat /\ Cardinality(InFlight(c.worker)) < Slots
        BY InFlightFinite DEF SlotsSuffice
      <3>3. Cardinality(InFlight(c.worker)') \in Nat
        <4>1. InFlight(c.worker)' \in SUBSET execs'
          BY DEF InFlight
        <4> QED
          BY <3>1, <4>1, FS_Subset, FS_CardinalityType
      <3>4. Cardinality(InFlight(c.worker)') <= Slots
        BY <3>1, <3>2, <3>3, DispatchAssumption, SMTT(40), Z3T(40)
      <3>5. \A d \in polled' : d.worker # c.worker
        BY <1>4 DEF SlotsSuffice
      <3> QED
        BY <1>4, <3>1, <3>4, <3>5, SMTT(40), Z3T(40) DEF SlotsSuffice
    <2> QED
      BY <1>4, <2>1, <2>2
  <1> QED
    BY <1>3, <1>4, <1>5, <1>6 DEF CasMarkRunning, TypeOK, health, history

LEMMA ReplacedSlots ==
    ASSUME SlotsSuffice, NEW e \in execs, NEW f, f.worker = e.worker,
           execs' = (execs \ {e}) \cup {f}, polled' = polled
    PROVE  SlotsSuffice'
  <1>1. IsFiniteSet(execs') /\ \A w : Cardinality(InFlight(w)') <= Cardinality(InFlight(w))
    BY ReplacedExec DEF SlotsSuffice
  <1>2. \A w : Cardinality(InFlight(w)) \in Nat
    BY InFlightFinite DEF SlotsSuffice
  <1>3. \A w : Cardinality(InFlight(w)') \in Nat
    <2> SUFFICES ASSUME NEW w PROVE Cardinality(InFlight(w)') \in Nat
      OBVIOUS
    <2>1. InFlight(w)' \in SUBSET execs'
      BY DEF InFlight
    <2> QED
      BY <1>1, <2>1, FS_Subset, FS_CardinalityType
  <1>4. Slots \in Nat
    BY DispatchAssumption
  <1>5. \A w \in Workers : Cardinality(InFlight(w)') <= Slots
    BY <1>1, <1>2, <1>3, <1>4, SMTT(40), Z3T(40) DEF SlotsSuffice
  <1>6. \A c \in polled' : Cardinality(InFlight(c.worker)') < Slots
    BY <1>1, <1>2, <1>3, <1>4, SMTT(40), Z3T(40) DEF SlotsSuffice
  <1> QED
    BY <1>1, <1>5, <1>6 DEF SlotsSuffice

(* The result an execution carries is among the recorded outcomes. *)
Outcome(e) == [task |-> e.task, gen |-> e.gen, result |-> e.result]

Recorded == \A e \in execs : e.pc # "executing" => Outcome(e) \in outcomes

LEMMA ExecutionType ==
    ASSUME DispatchType, Recorded, Execution
    PROVE  DispatchType'
  <1> USE DEF DispatchType
  <1>1. ASSUME NEW c \in polled, CasMarkRunning(c) PROVE DispatchType'
    BY <1>1, CasMarkRunningType
  <1>2. ASSUME NEW e \in execs, NEW result \in Terminal, ExecuteShard(e, result) PROVE DispatchType'
    <2> DEFINE f == [e EXCEPT !.pc = "mark", !.result = result]
    <2>1. e \in Exec
      BY DEF TypeOK
    <2>2. f \in Exec /\ f.worker = e.worker
      BY <2>1, Zenon DEF Exec
    <2>3. execs' = (execs \ {e}) \cup {f} /\ polled' = polled /\ rows' = rows
      BY <1>2 DEF ExecuteShard, store
    <2> HIDE DEF f
    <2>4. SlotsSuffice'
      BY <2>2, <2>3, ReplacedSlots
    <2>5. [task |-> e.task, gen |-> e.gen, result |-> result] \in [task : Tasks, gen : Nat, result : Terminal]
      BY <2>1 DEF Exec
    <2> QED
      BY <1>2, <2>2, <2>3, <2>4, <2>5, SMTT(40), Z3T(40)
         DEF ExecuteShard, TypeOK, PendingHasBudget, store, health
  <1>3. ASSUME NEW e \in execs, CasMarkTerminal(e) \/ ReportTaskResult(e)
        PROVE  DispatchType'
    <2>0. e.result \in Terminal
      BY <1>3, Zenon DEF CasMarkTerminal, ReportTaskResult, Recorded, Outcome, TypeOK
    <2>1. e \in Exec /\ rows \in Seq(Row)
      BY DEF TypeOK
    <2>2. RowOf(e, e.result) \in Row /\ RowOf(e, e.result).status # "pending"
      BY <2>0, <2>1, RowOfType DEF Exec, Terminal
    <2>3. rows' \in {rows, UpdateTask(RowOf(e, e.result)), CASUpdateTask(RowOf(e, e.result))}
      BY <1>3 DEF CasMarkTerminal, ReportTaskResult
    <2>4. rows' \in Seq(Row) /\ PendingHasBudget'
      BY <2>1, <2>2, <2>3, WrittenRows
    <2>5. execs' \subseteq Exec /\ SlotsSuffice'
      <3>1. CASE CasMarkTerminal(e)
        <4> DEFINE f == [e EXCEPT !.pc = "report"]
        <4>1. f \in Exec /\ f.worker = e.worker
          BY <2>1 DEF Exec
        <4>2. execs' = (execs \ {e}) \cup {f} /\ polled' = polled
          BY <3>1 DEF CasMarkTerminal
        <4> HIDE DEF f
        <4> QED
          BY <4>1, <4>2, ReplacedSlots DEF TypeOK
      <3>2. CASE ReportTaskResult(e)
        BY <3>2, FewerSlots, SMTT(40), Z3T(40) DEF ReportTaskResult, TypeOK
      <3> QED
        BY <1>3, <3>1, <3>2
    <2> QED
      BY <1>3, <2>4, <2>5 DEF CasMarkTerminal, ReportTaskResult, TypeOK, health, history
  <1>4. ASSUME NEW e \in execs, ExecInterrupted(e) PROVE DispatchType'
    BY <1>4, FewerSlots DEF ExecInterrupted, TypeOK, PendingHasBudget, store, health, history
  <1> QED
    BY <1>1, <1>2, <1>3, <1>4 DEF Execution

LEMMA TickType ==
    ASSUME DispatchType, Tick
    PROVE  DispatchType'
  <1> USE DEF DispatchType
  <1>1. LeaseTTL \in Nat /\ StaleAfter \in Nat
    BY DispatchAssumption
  <1>2. /\ \A a \in 0 .. LeaseTTL + 1 : Older(a, LeaseTTL) \in 0 .. LeaseTTL + 1
        /\ \A a \in 0 .. StaleAfter + 1 : Older(a, StaleAfter) \in 0 .. StaleAfter + 1
    BY <1>1, SMT, Z3 DEF Older
  <1>3. rows' \in Seq(Row) /\ DOMAIN rows' = DOMAIN rows /\ PendingHasBudget'
    <2>1. rows \in Seq(Row) /\ \A i \in DOMAIN rows : rows[i] \in Row
      BY RowType DEF TypeOK
    <2>2. \A r \in Row : /\ [r EXCEPT !.age = Older(@, LeaseTTL)] \in Row
                         /\ [r EXCEPT !.age = Older(@, LeaseTTL)].status = r.status
                         /\ [r EXCEPT !.age = Older(@, LeaseTTL)].attempt = r.attempt
      BY <1>2 DEF Row
    <2>3. rows' \in [DOMAIN rows -> Row]
      BY <2>1, <2>2 DEF Tick
    <2>4. rows' \in Seq(Row) /\ DOMAIN rows' = DOMAIN rows
      BY <2>1, <2>3, RemappedRows
    <2> QED
      BY <2>1, <2>2, <2>4 DEF Tick, PendingHasBudget
  <1>4. beat' \in [Workers -> 0 .. StaleAfter + 1]
    BY <1>1, <1>2, SMT, Z3 DEF Tick, TypeOK
  <1>5. \A c \in Claim : /\ [c EXCEPT !.age = Older(@, LeaseTTL)] \in Claim
                         /\ [c EXCEPT !.age = Older(@, LeaseTTL)].worker = c.worker
    BY <1>2 DEF Claim
  <1>6. polled' \subseteq Claim
    BY <1>5 DEF Tick, TypeOK
  <1>7. SlotsSuffice'
    <2>1. \A w : InFlight(w)' = InFlight(w)
      BY DEF Tick, InFlight
    <2>2. \A d \in polled' : \E c \in polled : d = [c EXCEPT !.age = Older(@, LeaseTTL)] /\ d.worker = c.worker
      BY <1>5, Zenon DEF Tick, TypeOK
    <2> QED
      BY <2>1, <2>2, SMT, Z3 DEF Tick, SlotsSuffice
  <1> QED
    BY <1>3, <1>4, <1>6, <1>7 DEF Tick, TypeOK, health, history

LEMMA RecordedKept ==
    ASSUME TypeOK, Recorded, [DispatchNext]_dispatchVars
    PROVE  Recorded'
  <1>1. CASE UNCHANGED execs /\ outcomes \subseteq outcomes'
    BY <1>1 DEF Recorded, Outcome
  <1>2. ASSUME NEW c \in polled, CasMarkRunning(c) PROVE Recorded'
    BY <1>2, SMT, Z3 DEF CasMarkRunning, Recorded, Outcome, history
  <1>3. ASSUME NEW e \in execs, NEW result \in Terminal, ExecuteShard(e, result) PROVE Recorded'
    BY <1>3, Zenon DEF ExecuteShard, Recorded, Outcome, TypeOK, Exec
  <1>4. ASSUME NEW e \in execs, CasMarkTerminal(e) PROVE Recorded'
    BY <1>4, Zenon DEF CasMarkTerminal, Recorded, Outcome, TypeOK, Exec, history
  <1>5. CASE execs' \subseteq execs /\ UNCHANGED outcomes
    BY <1>5 DEF Recorded, Outcome
  <1>6. ASSUME NEW e \in execs, ReportTaskResult(e) \/ ExecInterrupted(e) PROVE Recorded'
    BY <1>5, <1>6 DEF ReportTaskResult, ExecInterrupted, history
  <1>7. ASSUME NEW w \in Workers, Worker(w) PROVE Recorded'
    <2>1. execs' \subseteq execs /\ UNCHANGED outcomes
      BY <1>7, Zenon DEF Worker, WorkerStart, Heartbeat, HeartbeatFailed, PollTask, WorkerStop, WorkerExit,
                  WorkerCrash, ProcessEnds, workers, history
    <2> QED
      BY <1>5, <2>1, SMTT(40), Z3T(40)
  <1>8. CASE MasterCrash \/ Health \/ Tick \/ (\E t \in Tasks : CreateTask(t)) \/ UNCHANGED dispatchVars
    BY <1>1, <1>8, Zenon DEF MasterCrash, Health, CheckWorkerHealth, MarkOffline, ListStaleTasks,
                      ReassignStaleTask, Tick, CreateTask, dispatchVars, workers, history
  <1> QED
    BY <1>2, <1>3, <1>4, <1>6, <1>7, <1>8 DEF DispatchNext, Execution

LEMMA DispatchTypeKept ==
    ASSUME DispatchType, Recorded, [DispatchNext]_dispatchVars
    PROVE  DispatchType'
  <1>1. CASE UNCHANGED dispatchVars
    BY <1>1, SameSlots DEF dispatchVars, store, workers, health, history, DispatchType, TypeOK, PendingHasBudget
  <1> QED
    BY <1>1, CreateTaskType, HealthType, WorkerType, ExecutionType, TickType, ZenonT(40) DEF DispatchNext

(* Whatever the store, the network and the processes do, every row, claim and
   execution stays well-formed; in particular no task is claimed more often than
   DefaultTaskMaxAttempts allows and no worker ever executes more tasks than it has
   slots (AssignNextTask, ReassignStaleTasks, pollTask). *)
THEOREM DispatchTypeCorrect == DispatchSpec => [](TypeOK /\ SlotsSuffice)
  <1>1. DispatchInit => DispatchType /\ Recorded
    BY InitDispatchType DEF DispatchInit, Recorded
  <1>2. DispatchType /\ Recorded /\ [DispatchNext]_dispatchVars => (DispatchType /\ Recorded)'
    BY DispatchTypeKept, RecordedKept DEF DispatchType
  <1>3. DispatchType => TypeOK /\ SlotsSuffice
    BY DEF DispatchType
  <1> QED
    BY <1>1, <1>2, <1>3, PTL DEF DispatchSpec

-----------------------------------------------------------------------------

-----------------------------------------------------------------------------
(* The generation as a fencing token, for a pipeline that is dispatched once (a *)
(* task has one row) on a store whose calls do not fail.                    *)

OneRow == \A i, j \in DOMAIN rows : rows[i].task = rows[j].task => i = j

(* Who holds a generation of a task: the claims on their way and the executions. *)
HeldBefore ==
    \A h \in polled \cup execs :
        \E i \in DOMAIN rows : rows[i].task = h.task /\ h.gen <= rows[i].gen

(* While the master works through its list the generations it has read stand,
   because ReassignStaleTasks keeps the dispatcher's lock. *)
ListIsCurrent ==
    mpc = "requeue" =>
        \A r \in stale : \E i \in DOMAIN rows : rows[i].task = r.task /\ rows[i].gen = r.gen

HeldOnce ==
    /\ GenerationIsUnique
    /\ \A c \in polled, e \in execs : c.task = e.task => c.gen # e.gen
    /\ \A c, d \in polled : c # d /\ c.task = d.task => c.gen # d.gen

Fencing == OneRow /\ HeldBefore /\ ListIsCurrent /\ HeldOnce

DispatchInv == DispatchType /\ Recorded /\ Fencing

(* A step that keeps the rows' tasks and generations. *)
KeepsGenerations ==
    /\ DOMAIN rows' = DOMAIN rows
    /\ \A i \in DOMAIN rows : rows'[i].task = rows[i].task /\ rows'[i].gen = rows[i].gen

Polls == \E w \in Workers : PollTask(w)
Creates == \E t \in Tasks : CreateTask(t)

LEMMA GenerationsKept ==
    ASSUME DispatchInv, ~StoreErrors, [DispatchNext]_dispatchVars, ~Polls, ~Creates
    PROVE  KeepsGenerations
  <1> USE DEF DispatchInv, DispatchType, Fencing, TypeOK
  <1>1. CASE UNCHANGED rows
    BY <1>1, SMTT(40), Z3T(40) DEF KeepsGenerations
  <1>2. ASSUME NEW r \in Row, rows' = CASUpdateTask(r) PROVE KeepsGenerations
    BY <1>2, UpdatedRows DEF CASUpdateTask, Owns, KeepsGenerations
  <1>3. ASSUME NEW c \in polled, CasMarkRunning(c) PROVE KeepsGenerations
    <2>1. RunningRow(c) \in Row
      BY RunningRowType
    <2>2. rows' = rows \/ rows' = CASUpdateTask(RunningRow(c))
      BY <1>3 DEF CasMarkRunning, RunningRow
    <2> QED
      BY <1>1, <1>2, <2>1, <2>2, SMTT(40), Z3T(40)
  <1>4. ASSUME NEW e \in execs, CasMarkTerminal(e) \/ ReportTaskResult(e) PROVE KeepsGenerations
    <2>1. e.result \in Terminal
      BY <1>4, Zenon DEF CasMarkTerminal, ReportTaskResult, Recorded, Outcome
    <2>2. RowOf(e, e.result) \in Row
      BY <2>1, RowOfType DEF Exec
    <2>3. rows' = rows \/ rows' = CASUpdateTask(RowOf(e, e.result))
      BY <1>4 DEF CasMarkTerminal, ReportTaskResult
    <2> QED
      BY <1>1, <1>2, <2>2, <2>3, SMTT(40), Z3T(40)
  <1>5. ASSUME NEW r \in stale, ReassignStaleTask(r) PROVE KeepsGenerations
    <2>1. rows' = UpdateTask(Requeued(r)) /\ r \in Row /\ mpc = "requeue"
      BY <1>5 DEF ReassignStaleTask
    <2>2. Requeued(r) \in Row /\ Requeued(r).task = r.task /\ Requeued(r).gen = r.gen
      BY <2>1, RequeuedType, Zenon
    <2>3. DOMAIN rows' = DOMAIN rows
      BY <2>1, <2>2, UpdatedRows, Zenon
    <2>4. ASSUME NEW i \in DOMAIN rows PROVE rows'[i].task = rows[i].task /\ rows'[i].gen = rows[i].gen
      <3>1. CASE rows[i].task = r.task
        <4>1. rows[i].gen = r.gen
          BY <2>1, <3>1, SMTT(40), Z3T(40) DEF ListIsCurrent, OneRow
        <4> QED
          BY <2>1, <2>2, <3>1, <4>1, ZenonT(40) DEF UpdateTask
      <3>2. CASE rows[i].task # r.task
        BY <2>1, <2>2, <3>2, SMTT(40), Z3T(40) DEF UpdateTask
      <3> QED
        BY <3>1, <3>2, Zenon
    <2> QED
      BY <2>3, <2>4 DEF KeepsGenerations
  <1>6. CASE Tick
    <2>1. \A i \in DOMAIN rows : rows[i] \in Row
      BY RowType
    <2> QED
      BY <1>6, <2>1 DEF Tick, Row, KeepsGenerations
  <1>7. ASSUME NEW w \in Workers, Worker(w) PROVE KeepsGenerations
    <2>1. rows' = rows
      BY <1>7 DEF Polls, Worker, WorkerStart, Heartbeat, HeartbeatFailed, WorkerStop, WorkerExit,
                  WorkerCrash, ProcessEnds, store
    <2> QED
      BY <1>1, <2>1, ZenonT(40)
  <1>8. ASSUME NEW e \in execs, NEW result \in Terminal, ExecuteShard(e, result) \/ ExecInterrupted(e)
        PROVE  KeepsGenerations
    BY <1>1, <1>8, ZenonT(40) DEF ExecuteShard, ExecInterrupted, store
  <1>9. CASE MasterCrash \/ CheckWorkerHealth \/ ListStaleTasks \/ (\E w \in Workers : MarkOffline(w))
             \/ UNCHANGED dispatchVars
    BY <1>1, <1>9, SMTT(40), Z3T(40)
       DEF MasterCrash, CheckWorkerHealth, ListStaleTasks, MarkOffline, dispatchVars, store
  <1>10. CASE Execution
    <2>1. "completed" \in Terminal
      BY DEF Terminal
    <2> QED
      BY <1>3, <1>4, <1>8, <1>10, <2>1, SMTT(40), Z3T(40) DEF Execution
  <1> QED
    BY <1>5, <1>6, <1>7, <1>9, <1>10, SMTT(40), Z3T(40) DEF DispatchNext, Health, Creates

(* The rows of a new task, of a claim, and of every other step: a task keeps its
   one row, and that row's generation does not fall. *)
RowsGoOn ==
    /\ DOMAIN rows \subseteq DOMAIN rows'
    /\ \A i \in DOMAIN rows : rows'[i].task = rows[i].task /\ rows'[i].gen >= rows[i].gen

LEMMA RowsOfOneDispatch ==
    ASSUME DispatchInv, ~StoreErrors, MaxRows = 1, [DispatchNext]_dispatchVars
    PROVE  OneRow' /\ RowsGoOn
  <1> USE DEF DispatchInv, DispatchType, Fencing, TypeOK
  <1>0. \A i \in DOMAIN rows : rows[i] \in Row /\ rows[i].gen \in Nat
    BY RowType, Zenon DEF Row
  <1>1. CASE ~Polls /\ ~Creates
    BY <1>0, <1>1, GenerationsKept, SMTT(40), Z3T(40) DEF KeepsGenerations, OneRow, RowsGoOn
  <1>2. CASE Polls
    <2>1. PICK w \in Workers : \E answered \in BOOLEAN : AssignNextTask(w, answered)
      BY <1>2, DispatchAssumption, ZenonT(40) DEF Polls, PollTask
    <2>2. DOMAIN rows' = DOMAIN rows /\ \A j \in DOMAIN rows :
             rows'[j] = rows[j] \/ (rows[j].status = "pending" /\ rows'[j] = Claimed(w, rows[j]))
      BY <2>1, AssignedRows
    <2>3. \A j \in DOMAIN rows : rows'[j].task = rows[j].task /\ rows'[j].gen >= rows[j].gen
      BY <1>0, <2>2, ClaimedType, SMTT(40), Z3T(40) DEF PendingHasBudget
    <2> QED
      BY <2>2, <2>3, SMTT(40), Z3T(40) DEF OneRow, RowsGoOn
  <1>3. CASE Creates
    <2>1. PICK t \in Tasks : CreateTask(t)
      BY <1>3, Zenon DEF Creates
    <2> DEFINE r == [task |-> t, status |-> "pending", worker |-> NoWorker,
                     gen |-> 0, attempt |-> 0, age |-> 0]
    <2>2. r \in Row /\ r.task = t
      BY DispatchAssumption, SMTT(40), Z3T(40) DEF Row
    <2>3. rows' = Append(rows, r)
      BY <2>1 DEF CreateTask
    <2>4. {i \in DOMAIN rows : rows[i].task = t} = {}
      <3> DEFINE S == {i \in DOMAIN rows : rows[i].task = t}
      <3>1. Cardinality(S) < MaxRows
        BY <2>1, Zenon DEF CreateTask
      <3>2. Len(rows) \in Nat /\ S \in SUBSET (1..Len(rows))
        BY SMT, Z3
      <3> HIDE DEF S
      <3>3. S = {}
        BY <3>1, <3>2, NoRowCounted, Zenon
      <3> QED
        BY <3>3, SMTT(40), Z3T(40) DEF S
    <2> HIDE DEF r
    <2>5. /\ DOMAIN rows' = DOMAIN rows \cup {Len(rows) + 1}
          /\ Len(rows) + 1 \notin DOMAIN rows
          /\ rows'[Len(rows) + 1] = r
          /\ \A i \in DOMAIN rows : rows'[i] = rows[i]
      BY <2>2, <2>3, AppendedRows
    <2> QED
      BY <1>0, <2>2, <2>4, <2>5, SMTT(40), Z3T(40) DEF OneRow, RowsGoOn
  <1> QED
    BY <1>1, <1>2, <1>3, SMTT(40), Z3T(40)

(* The holders a step other than a poll leaves were holders before it. *)
HoldersRemain ==
    \A h \in polled' \cup execs' :
        \E g \in polled \cup execs : g.task = h.task /\ g.gen = h.gen

LEMMA FewerHolders ==
    ASSUME HeldOnce, polled' \subseteq polled, execs' \subseteq execs
    PROVE  HeldOnce' /\ HoldersRemain
  BY DEF HeldOnce, GenerationIsUnique, HoldersRemain

LEMMA ReplacedHolder ==
    ASSUME HeldOnce, NEW e \in execs, NEW f, f.task = e.task, f.gen = e.gen,
           execs' = (execs \ {e}) \cup {f}, polled' = polled
    PROVE  HeldOnce' /\ HoldersRemain
  BY SMT, Z3 DEF HeldOnce, GenerationIsUnique, HoldersRemain

LEMMA StartedHolder ==
    ASSUME HeldOnce, NEW c \in polled, NEW f, f.task = c.task, f.gen = c.gen,
           execs' = execs \cup {f}, polled' = polled \ {c}
    PROVE  HeldOnce' /\ HoldersRemain
  BY SMTT(40), Z3T(40) DEF HeldOnce, GenerationIsUnique, HoldersRemain

LEMMA HoldersKept ==
    ASSUME DispatchInv, [DispatchNext]_dispatchVars, ~Polls
    PROVE  HeldOnce' /\ HoldersRemain
  <1> USE DEF DispatchInv, DispatchType, Fencing, TypeOK
  <1>1. CASE polled' \subseteq polled /\ execs' \subseteq execs
    BY <1>1, FewerHolders, Zenon
  <1>2. ASSUME NEW c \in polled, CasMarkRunning(c) PROVE HeldOnce' /\ HoldersRemain
    <2>1. polled' = polled \ {c} /\ (execs' = execs \/ execs' = execs \cup {StartedOf(c)})
      BY <1>2, SMTT(40), Z3T(40) DEF CasMarkRunning, StartedOf
    <2>2. StartedOf(c).task = c.task /\ StartedOf(c).gen = c.gen
      BY DEF StartedOf
    <2> QED
      BY <1>1, <2>1, <2>2, StartedHolder, SMTT(40), Z3T(40)
  <1>3. ASSUME NEW e \in execs, NEW result \in Terminal, ExecuteShard(e, result)
        PROVE  HeldOnce' /\ HoldersRemain
    <2> DEFINE f == [e EXCEPT !.pc = "mark", !.result = result]
    <2>1. f.task = e.task /\ f.gen = e.gen
      BY DEF Exec
    <2>2. execs' = (execs \ {e}) \cup {f} /\ polled' = polled
      BY <1>3 DEF ExecuteShard
    <2> HIDE DEF f
    <2> QED
      BY <2>1, <2>2, ReplacedHolder
  <1>4. ASSUME NEW e \in execs, CasMarkTerminal(e) PROVE HeldOnce' /\ HoldersRemain
    <2> DEFINE f == [e EXCEPT !.pc = "report"]
    <2>1. f.task = e.task /\ f.gen = e.gen
      BY DEF Exec
    <2>2. execs' = (execs \ {e}) \cup {f} /\ polled' = polled
      BY <1>4 DEF CasMarkTerminal
    <2> HIDE DEF f
    <2> QED
      BY <2>1, <2>2, ReplacedHolder
  <1>5. CASE Tick
    <2>1. \A d \in polled' : \E c \in polled : /\ d = [c EXCEPT !.age = Older(@, LeaseTTL)]
                                              /\ d.task = c.task /\ d.gen = c.gen
      BY <1>5, Zenon DEF Tick, Claim
    <2>2. execs' = execs
      BY <1>5 DEF Tick
    <2>3. HeldOnce'
      BY <2>1, <2>2, SMT, Z3 DEF HeldOnce, GenerationIsUnique
    <2>4. HoldersRemain
      BY <2>1, <2>2 DEF HoldersRemain
    <2> QED
      BY <2>3, <2>4
  <1>6. ASSUME NEW w \in Workers, Worker(w) PROVE HeldOnce' /\ HoldersRemain
    BY <1>1, <1>6, Zenon DEF Polls, Worker, WorkerStart, Heartbeat, HeartbeatFailed, WorkerStop, WorkerExit,
                      WorkerCrash, ProcessEnds, workers
  <1>7. ASSUME NEW e \in execs, ReportTaskResult(e) \/ ExecInterrupted(e) PROVE HeldOnce' /\ HoldersRemain
    BY <1>1, <1>7, SMTT(40), Z3T(40) DEF ReportTaskResult, ExecInterrupted
  <1>8. CASE MasterCrash \/ Health \/ Creates \/ UNCHANGED dispatchVars
    BY <1>1, <1>8, Zenon DEF MasterCrash, Health, CheckWorkerHealth, MarkOffline, ListStaleTasks,
                      ReassignStaleTask, Creates, CreateTask, dispatchVars, workers
  <1> QED
    BY <1>2, <1>3, <1>4, <1>5, <1>6, <1>7, <1>8, Zenon DEF DispatchNext, Execution, Creates

=============================================================================
