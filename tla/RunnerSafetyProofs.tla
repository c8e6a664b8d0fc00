------------------------- MODULE RunnerSafetyProofs -------------------------
(***************************************************************************)
(* Proofs about what a checkpoint of Runner covers, for every number of     *)
(* records, every batch, buffer and throttling size and every bound on      *)
(* runs, crashes and panics.                                                *)
(*                                                                          *)
(*   CheckpointSafety  only the breaker loses what the checkpoint covers    *)
(*   NothingLost       without a breaker the checkpoint covers no loss      *)
(*   ShutdownSafety    a graceful end settles all that was received         *)
(*   BlockedStays      a blocked checkpoint does not move                   *)
(*                                                                          *)
(* CheckpointSafety, NothingLost and ShutdownSafety are about pipelines     *)
(* without batch transform, which buffers records past the checkpoint.      *)
(***************************************************************************)
EXTENDS RunnerProofs

\* The groups of variables are only abbreviations.
USE DEF durable, control, ckpt, cb, reader, position, batch, bounds

-----------------------------------------------------------------------------
(* The further parts of the inductive invariant.                            *)

\* Without batch transforms nothing is buffered.
Plain == held = {}

\* A checkpoint is only ever built from records handed to writeBatch in this run.
Boundaries ==
    /\ phase = "opening" => pending = 0
    /\ wpc # "off" => pending <= handed /\ target <= handed

\* The heart of the argument: as long as the checkpoint may move, every record
\* handed to writeBatch is settled, dropped or still on its way through the batch.
Accounted ==
    ~checkpointBlocked /\ wpc \notin {"off", "panicked"}
        => \A p \in 1..handed : p \in Settled \cup dropped \cup queue \cup surv \cup acc

SafetyInv == ControlInv /\ Plain /\ Boundaries /\ Accounted /\ OnlyBreakerLoses

-----------------------------------------------------------------------------
(* Safety of the checkpoint.                                                *)

\* Nothing is buffered in a plain pipeline.
LEMMA PlainStep ==
    ASSUME ~BatchChain, Plain, Next
    PROVE  Plain'
  <1> USE FlagAssumption DEF Plain
  <1>1. CASE Callers
    BY <1>1, SMTT(40), Z3T(40) DEF Callers, StartReserve, StartRebuildFailed, Stop, Halt, Pause, Crash,
       EmptyBatch
  <1>2. CASE Opening
    BY <1>2 DEF Opening, StartOpenFailed, StartOpened, EmptyBatch
  <1>3. CASE RunLoopEnd
    BY <1>3, SMTT(40), Z3T(40) DEF RunLoopEnd, EmptyBatch
  <1>4. CASE ReadLoop
    BY <1>4, SMTT(40), Z3T(40) DEF ReadLoop, ReadRecord, ReadEOF, MarkSourceExhausted, ReadCancelled,
       ReadLoopPanic
  <1>5. CASE TakeRecord \/ Tick \/ ChannelClosed \/ WriteCancelled
    BY <1>5, Zenon DEF TakeRecord, BeginBatch, Tick, FlushPartial, ChannelClosed, WriteCancelled
  <1>6. CASE FlushChain \/ WriteLoopPanic
    BY <1>6, SMTT(40), Z3T(40) DEF FlushChain, WriteLoopPanic, EmptyBatch, PluginPoints
  <1>7. CASE WriteBatch
    BY <1>7, Zenon DEF WriteBatch, HandleFailedRecord, Transform, BatchTransforms,
       RecordTransforms, CheckIdentity, ZeroSurvivors, EndBatch, AfterBatch,
       BreakerAllow, CooldownElapsed, CooldownTimedOut, WriteSucceeded,
       WriteFailed, WriteRecordsIndividually, FailedBatchDone, CommitBatch
  <1>8. CASE Checkpointing
    BY <1>8, SMTT(40), Z3T(40) DEF Checkpointing, FlushPendingCheckpoint, AfterFlush, SaveRefused, EndSave,
       AfterBatch, SaveWithoutPosition, SaveFailed, SaveCommittedCheckpoint, Saved,
       AckCheckpoint
  <1> QED
    BY <1>1, <1>2, <1>3, <1>4, <1>5, <1>6, <1>7, <1>8, Zenon DEF Next, WriteLoop

\* Pending and target stay within what was handed to writeBatch.
LEMMA BoundariesStep ==
    ASSUME DataTypes, Quiescent, Boundaries, Plain, Next
    PROVE  Boundaries'
  <1>0. handed \in Nat /\ taken \in Nat /\ pending \in Nat /\ target \in Nat /\ cp \in Nat
    BY SizeAssumption, SMT, Z3 DEF DataTypes, BatchTypes
  <1> USE <1>0, SizeAssumption DEF Quiescent, Boundaries
  <1>1. CASE StartReserve
    BY <1>1, SMTT(40), Z3T(40) DEF StartReserve, runActive
  <1>2. CASE StartRebuildFailed
    BY <1>2, SMTT(40), Z3T(40) DEF StartRebuildFailed, runActive
  <1>3. CASE Stop
    BY <1>3, SMTT(40), Z3T(40) DEF Stop, Halt
  <1>4. CASE Pause
    BY <1>4, SMTT(40), Z3T(40) DEF Pause, Halt
  <1>5. CASE Crash
    BY <1>5, SMTT(40), Z3T(40) DEF Crash, EmptyBatch
  <1>6. CASE StartOpenFailed
    BY <1>6, SMTT(40), Z3T(40) DEF StartOpenFailed
  <1>7. CASE StartOpened
    BY <1>7, SMTT(40), Z3T(40) DEF StartOpened, EmptyBatch
  <1>8. CASE RunLoopEnd
    BY <1>8, SMTT(40), Z3T(40) DEF RunLoopEnd, EmptyBatch
  <1>9. CASE ReadRecord
    BY <1>9, SMTT(40), Z3T(40) DEF ReadRecord
  <1>10. CASE ReadEOF
    BY <1>10, SMTT(40), Z3T(40) DEF ReadEOF
  <1>11. CASE MarkSourceExhausted
    BY <1>11, SMTT(40), Z3T(40) DEF MarkSourceExhausted
  <1>12. CASE ReadCancelled
    BY <1>12, SMTT(40), Z3T(40) DEF ReadCancelled
  <1>13. CASE ReadLoopPanic
    BY <1>13, SMTT(40), Z3T(40) DEF ReadLoopPanic
  <1>14. CASE TakeRecord
    BY <1>14, SMTT(40), Z3T(40) DEF TakeRecord, BeginBatch
  <1>15. CASE Tick
    BY <1>15, SMTT(40), Z3T(40) DEF Tick, FlushPartial, BeginBatch
  <1>16. CASE ChannelClosed
    BY <1>16, SMTT(40), Z3T(40) DEF ChannelClosed, FlushPartial, BeginBatch
  <1>17. CASE WriteCancelled
    BY <1>17, SMTT(40), Z3T(40) DEF WriteCancelled, FlushPartial, BeginBatch
  <1>18. CASE FlushChain
    BY <1>18, SMTT(40), Z3T(40) DEF FlushChain, Plain
  <1>19. CASE WriteLoopPanic
    BY <1>19, SMTT(40), Z3T(40) DEF WriteLoopPanic, EmptyBatch, PluginPoints
  <1>20. CASE HandleFailedRecord
    BY <1>20 DEF HandleFailedRecord
  <1>21. CASE Transform
    BY <1>21, SMTT(40), Z3T(40) DEF Transform, BatchTransforms, RecordTransforms
  <1>22. CASE CheckIdentity
    BY <1>22 DEF CheckIdentity
  <1>23. CASE ZeroSurvivors
    BY <1>23, SMTT(40), Z3T(40) DEF ZeroSurvivors, EndBatch, AfterBatch
  <1>24. CASE BreakerAllow
    BY <1>24, SMTT(40), Z3T(40) DEF BreakerAllow
  <1>25. CASE CooldownElapsed
    BY <1>25 DEF CooldownElapsed
  <1>26. CASE CooldownTimedOut
    BY <1>26, SMTT(40), Z3T(40) DEF CooldownTimedOut, EndBatch, AfterBatch
  <1>27. CASE WriteSucceeded
    BY <1>27, SMTT(40), Z3T(40) DEF WriteSucceeded
  <1>28. CASE WriteFailed
    BY <1>28, SMTT(40), Z3T(40) DEF WriteFailed
  <1>29. CASE WriteRecordsIndividually
    BY <1>29 DEF WriteRecordsIndividually
  <1>30. CASE FailedBatchDone
    BY <1>30, SMT, Z3 DEF FailedBatchDone, EndBatch, AfterBatch
  <1>31. CASE CommitBatch
    BY <1>31, SMT, Z3 DEF CommitBatch, EndBatch, AfterBatch
  <1>32. CASE FlushPendingCheckpoint
    BY <1>32 DEF FlushPendingCheckpoint, AfterFlush
  <1>33. CASE SaveRefused
    BY <1>33, SMT, Z3 DEF SaveRefused, EndSave, AfterBatch, AfterFlush
  <1>34. CASE SaveWithoutPosition
    BY <1>34, SMT, Z3 DEF SaveWithoutPosition, EndSave, AfterBatch, AfterFlush
  <1>35. CASE SaveFailed
    BY <1>35, SMT, Z3 DEF SaveFailed, EndSave, AfterBatch, AfterFlush
  <1>36. CASE SaveCommittedCheckpoint
    BY <1>36, SMT, Z3 DEF SaveCommittedCheckpoint, Saved, EndSave, AfterBatch, AfterFlush
  <1>37. CASE AckCheckpoint
    BY <1>37, SMTT(40), Z3T(40) DEF AckCheckpoint, Saved, EndSave, AfterBatch, AfterFlush
  <1> QED
    BY <1>1, <1>2, <1>3, <1>4, <1>5, <1>6, <1>7, <1>8, <1>9, <1>10, <1>11, <1>12, <1>13,
       <1>14, <1>15, <1>16, <1>17, <1>18, <1>19, <1>20, <1>21, <1>22, <1>23, <1>24, <1>25,
       <1>26, <1>27, <1>28, <1>29, <1>30, <1>31, <1>32, <1>33, <1>34, <1>35, <1>36, <1>37, ZenonT(40)
       DEF Next, Callers, Opening, ReadLoop, WriteLoop, WriteBatch, Checkpointing

LEMMA BeginBatchAccounted ==
    ASSUME DataTypes, Scratch, Accounted, wpc = "select",
           NEW m, NEW last \in Nat, BeginBatch(m, last),
           UNCHANGED <<sink, dlq, dropped, checkpointBlocked>>
    PROVE  Accounted'
  <1>1. SUFFICES ASSUME ~checkpointBlocked, NEW p \in 1..last
                 PROVE  p \in (Settled \cup dropped \cup queue \cup surv \cup acc)'
    BY DEF Accounted, BeginBatch
  <1>2. CASE p \in 1..handed
    BY <1>1, <1>2 DEF Scratch, Accounted, Settled
  <1>3. CASE p \in handed + 1 .. last
    BY <1>3 DEF BeginBatch
  <1> QED
    BY <1>2, <1>3, SMTT(40), Z3T(40) DEF DataTypes

LEMMA FlushPartialAccounted ==
    ASSUME DataTypes, Scratch, Accounted, wpc = "select", NEW m, FlushPartial(m)
    PROVE  Accounted'
  <1>1. CASE taken > handed
    BY <1>1, BeginBatchAccounted, SMTT(40), Z3T(40) DEF FlushPartial, DataTypes
  <1>2. CASE ~(taken > handed)
    BY <1>2 DEF FlushPartial, Accounted, Settled
  <1> QED
    BY <1>1, <1>2, SMTT(40), Z3T(40)

LEMMA TakeRecordAccounted ==
    ASSUME DataTypes, Scratch, Accounted, TakeRecord PROVE Accounted'
  <1>1. CASE taken + 1 - handed >= BatchSize
    <2>1. BeginBatch("size", taken + 1)
      BY <1>1, SMTT(40), Z3T(40) DEF TakeRecord
    <2>2. wpc = "select" /\ UNCHANGED <<sink, dlq, dropped, checkpointBlocked>>
      BY DEF TakeRecord, durable, control, ckpt
    <2>3. taken + 1 \in Nat
      BY SMTT(40), Z3T(40) DEF DataTypes
    <2> QED
      BY <2>1, <2>2, <2>3, BeginBatchAccounted, SMTT(40), Z3T(40)
  <1>2. CASE ~(taken + 1 - handed >= BatchSize)
    BY <1>2, SMTT(40), Z3T(40) DEF TakeRecord, Accounted, Settled
  <1> QED
    BY <1>1, <1>2

\* Every step moves each record of the batch on, or settles it, or blocks the
\* checkpoint.
LEMMA AccountedStep ==
    ASSUME ~BatchChain, DataTypes, Quiescent, Scratch, Plain, OnlyBreakerLoses,
           Accounted, Next
    PROVE  Accounted'
  <1> USE DEF Accounted, Settled
  <1>1. CASE StartReserve
    BY <1>1, SMTT(40), Z3T(40) DEF StartReserve, runActive, Quiescent
  <1>2. CASE StartRebuildFailed
    BY <1>2, SMTT(40), Z3T(40) DEF StartRebuildFailed
  <1>3. CASE Stop
    BY <1>3, SMTT(40), Z3T(40) DEF Stop, Halt
  <1>4. CASE Pause
    BY <1>4, SMTT(40), Z3T(40) DEF Pause, Halt
  <1>5. CASE Crash
    BY <1>5, SMTT(40), Z3T(40) DEF Crash, EmptyBatch
  <1>6. CASE StartOpenFailed
    BY <1>6, SMTT(40), Z3T(40) DEF StartOpenFailed
  <1>7. CASE StartOpened
    BY <1>7, SMTT(40), Z3T(40) DEF StartOpened, EmptyBatch, OnlyBreakerLoses
  <1>8. CASE RunLoopEnd
    BY <1>8, SMTT(40), Z3T(40) DEF RunLoopEnd, EmptyBatch
  <1>9. CASE ReadRecord
    BY <1>9, SMTT(40), Z3T(40) DEF ReadRecord
  <1>10. CASE ReadEOF
    BY <1>10, SMTT(40), Z3T(40) DEF ReadEOF
  <1>11. CASE MarkSourceExhausted
    BY <1>11, SMTT(40), Z3T(40) DEF MarkSourceExhausted
  <1>12. CASE ReadCancelled
    BY <1>12, SMTT(40), Z3T(40) DEF ReadCancelled
  <1>13. CASE ReadLoopPanic
    BY <1>13 DEF ReadLoopPanic
  <1>14. CASE TakeRecord
    BY <1>14, TakeRecordAccounted, SMTT(40), Z3T(40)
  <1>15. CASE Tick
    BY <1>15, FlushPartialAccounted DEF Tick
  <1>16. CASE ChannelClosed
    BY <1>16, FlushPartialAccounted DEF ChannelClosed
  <1>17. CASE WriteCancelled
    BY <1>17, FlushPartialAccounted, SMTT(40), Z3T(40) DEF WriteCancelled
  <1>18. CASE FlushChain
    BY <1>18, SMTT(40), Z3T(40) DEF FlushChain, Plain
  <1>19. CASE WriteLoopPanic
    BY <1>19, SMTT(40), Z3T(40) DEF WriteLoopPanic, EmptyBatch
  <1>20. CASE HandleFailedRecord
    BY <1>20, SMT, Z3 DEF HandleFailedRecord, Scratch
  <1>21. CASE Transform
    BY <1>21, SMTT(40), Z3T(40) DEF Transform, RecordTransforms, Scratch
  <1>22. CASE CheckIdentity
    BY <1>22, SMTT(40), Z3T(40) DEF CheckIdentity, Scratch
  <1>23. CASE ZeroSurvivors
    BY <1>23, SMTT(40), Z3T(40) DEF ZeroSurvivors, EndBatch, Scratch
  <1>24. CASE BreakerAllow
    BY <1>24, SMTT(40), Z3T(40) DEF BreakerAllow
  <1>25. CASE CooldownElapsed
    BY <1>25, SMTT(40), Z3T(40) DEF CooldownElapsed
  <1>26. CASE CooldownTimedOut
    BY <1>26, SMTT(40), Z3T(40) DEF CooldownTimedOut, EndBatch, Scratch
  <1>27. CASE WriteSucceeded
    BY <1>27, SMTT(40), Z3T(40) DEF WriteSucceeded, Scratch
  <1>28. CASE WriteFailed
    BY <1>28, SMTT(40), Z3T(40) DEF WriteFailed, Scratch
  <1>29. CASE WriteRecordsIndividually
    BY <1>29, SMTT(40), Z3T(40) DEF WriteRecordsIndividually, Scratch
  <1>30. CASE FailedBatchDone
    BY <1>30, SMTT(40), Z3T(40) DEF FailedBatchDone, EndBatch, Scratch
  <1>31. CASE CommitBatch
    BY <1>31, SMTT(40), Z3T(40) DEF CommitBatch, EndBatch, Scratch
  <1>32. CASE FlushPendingCheckpoint
    BY <1>32, SMTT(40), Z3T(40) DEF FlushPendingCheckpoint
  <1>33. CASE SaveRefused
    BY <1>33, SMTT(40), Z3T(40) DEF SaveRefused, EndSave, Scratch
  <1>34. CASE SaveWithoutPosition
    BY <1>34, SMTT(40), Z3T(40) DEF SaveWithoutPosition, EndSave, Scratch
  <1>35. CASE SaveFailed
    BY <1>35, SMTT(40), Z3T(40) DEF SaveFailed, EndSave, Scratch
  <1>36. CASE SaveCommittedCheckpoint
    BY <1>36, Zenon DEF SaveCommittedCheckpoint, Saved, EndSave, Scratch
  <1>37. CASE AckCheckpoint
    BY <1>37, SMTT(40), Z3T(40) DEF AckCheckpoint, Saved, EndSave, Scratch
  <1> QED
    BY <1>1, <1>2, <1>3, <1>4, <1>5, <1>6, <1>7, <1>8, <1>9, <1>10, <1>11, <1>12, <1>13,
       <1>14, <1>15, <1>16, <1>17, <1>18, <1>19, <1>20, <1>21, <1>22, <1>23, <1>24, <1>25,
       <1>26, <1>27, <1>28, <1>29, <1>30, <1>31, <1>32, <1>33, <1>34, <1>35, <1>36, <1>37, ZenonT(40)
       DEF Next, Callers, Opening, ReadLoop, WriteLoop, WriteBatch, Checkpointing

\* Only a save moves the checkpoint, and then everything handed over is
\* settled or dropped.
LEMMA OnlyBreakerLosesStep ==
    ASSUME DataTypes, Scratch, Boundaries, Accounted, OnlyBreakerLoses, Next
    PROVE  OnlyBreakerLoses'
  <1> USE DEF OnlyBreakerLoses, Settled
  <1>1. CASE Callers
    BY <1>1, ZenonT(40) DEF Callers, StartReserve, StartRebuildFailed, Stop, Halt, Pause, Crash,
       EmptyBatch
  <1>2. CASE Opening
    BY <1>2, SMTT(40), Z3T(40) DEF Opening, StartOpenFailed, StartOpened, EmptyBatch
  <1>3. CASE RunLoopEnd
    BY <1>3, SMTT(40), Z3T(40) DEF RunLoopEnd, EmptyBatch
  <1>4. CASE ReadLoop
    BY <1>4, ZenonT(40) DEF ReadLoop, ReadRecord, ReadEOF, MarkSourceExhausted, ReadCancelled,
       ReadLoopPanic
  <1>5. CASE TakeRecord \/ Tick \/ ChannelClosed \/ WriteCancelled
    BY <1>5, ZenonT(40) DEF TakeRecord, Tick, FlushPartial, ChannelClosed, WriteCancelled
  <1>6. CASE FlushChain \/ WriteLoopPanic
    BY <1>6, SMTT(40), Z3T(40) DEF FlushChain, WriteLoopPanic, EmptyBatch
  <1>7. CASE WriteBatch
    BY <1>7, Zenon DEF WriteBatch, HandleFailedRecord, Transform, CheckIdentity, ZeroSurvivors,
       BreakerAllow, CooldownElapsed, CooldownTimedOut, WriteSucceeded,
       WriteFailed, WriteRecordsIndividually, FailedBatchDone, CommitBatch
  <1>8. CASE Checkpointing
    <2>1. CASE SaveCommittedCheckpoint
      BY <2>1, SMTT(40), Z3T(40) DEF SaveCommittedCheckpoint, DataTypes, Scratch, Boundaries, Accounted
    <2>2. CASE ~SaveCommittedCheckpoint
      BY <1>8, <2>2, Zenon
         DEF Checkpointing, FlushPendingCheckpoint, SaveRefused, SaveWithoutPosition,
             SaveFailed, AckCheckpoint
    <2> QED
      BY <2>1, <2>2, Zenon
  <1> QED
    BY <1>1, <1>2, <1>3, <1>4, <1>5, <1>6, <1>7, <1>8, SMTT(40), Z3T(40) DEF Next, WriteLoop

LEMMA InitSafety == Init => SafetyInv
  BY InitControl, SMT, Z3 DEF Init, SafetyInv, Plain, Boundaries, Accounted, OnlyBreakerLoses

LEMMA SafetyStep ==
    ASSUME ~BatchChain PROVE SafetyInv /\ [Next]_vars => SafetyInv'
  <1>1. ASSUME SafetyInv, Next PROVE (Plain /\ Boundaries /\ Accounted /\ OnlyBreakerLoses)'
    BY <1>1, PlainStep, BoundariesStep, AccountedStep, OnlyBreakerLosesStep, Zenon
       DEF SafetyInv, ControlInv, TypeOK
  <1>2. ASSUME SafetyInv, UNCHANGED vars PROVE (Plain /\ Boundaries /\ Accounted /\ OnlyBreakerLoses)'
    BY <1>2 DEF SafetyInv, Plain, Boundaries, Accounted, OnlyBreakerLoses, Settled, vars
  <1> QED
    BY <1>1, <1>2, ControlStep DEF SafetyInv

\* No silent loss but behind an open breaker: whatever fails, panics or crashes, and
\* whenever it is stopped and started again, the durable checkpoint of a pipeline
\* without batch transforms covers no record which is neither in the sink, nor in the
\* dead-letter queue, nor filtered on purpose, nor in a batch that the breaker's wait
\* gave up (writeBatch, blockCheckpoint).
THEOREM CheckpointSafety == ASSUME ~BatchChain PROVE Spec => []OnlyBreakerLoses
  <1>1. SafetyInv => OnlyBreakerLoses
    BY DEF SafetyInv
  <1> QED
    BY InitSafety, SafetyStep, <1>1, PTL DEF Spec

\* Nothing is ever dropped when no circuit breaker is configured.
LEMMA BreakerStep ==
    ASSUME ~HasBreaker, dropped = {} /\ wpc # "cooldown", [Next]_vars
    PROVE  (dropped = {} /\ wpc # "cooldown")'
  <1> USE FlagAssumption
  <1>1. CASE Callers
    BY <1>1, ZenonT(40) DEF Callers, StartReserve, StartRebuildFailed, Stop, Halt, Pause, Crash
  <1>2. CASE Opening
    BY <1>2 DEF Opening, StartOpenFailed, StartOpened
  <1>3. CASE RunLoopEnd
    BY <1>3, SMTT(40), Z3T(40) DEF RunLoopEnd
  <1>4. CASE ReadLoop
    BY <1>4, ZenonT(40) DEF ReadLoop, ReadRecord, ReadEOF, MarkSourceExhausted, ReadCancelled,
       ReadLoopPanic
  <1>5. CASE TakeRecord \/ Tick \/ ChannelClosed \/ WriteCancelled
    BY <1>5, Zenon DEF TakeRecord, BeginBatch, Tick, FlushPartial, ChannelClosed, WriteCancelled
  <1>6. CASE FlushChain \/ WriteLoopPanic
    BY <1>6, SMTT(40), Z3T(40) DEF FlushChain, WriteLoopPanic, PluginPoints
  <1>7. CASE WriteBatch
    BY <1>7, Zenon DEF WriteBatch, HandleFailedRecord, Transform, BatchTransforms,
       RecordTransforms, CheckIdentity, ZeroSurvivors, EndBatch, AfterBatch, BreakerAllow, CooldownElapsed, CooldownTimedOut, WriteSucceeded,
       WriteFailed, WriteRecordsIndividually, FailedBatchDone, CommitBatch
  <1>8. CASE Checkpointing
    BY <1>8, SMTT(40), Z3T(40) DEF Checkpointing, FlushPendingCheckpoint, AfterFlush, SaveRefused, EndSave,
       AfterBatch, SaveWithoutPosition, SaveFailed, SaveCommittedCheckpoint, Saved,
       AckCheckpoint
  <1>9. CASE UNCHANGED vars
    BY <1>9 DEF vars
  <1> QED
    BY <1>1, <1>2, <1>3, <1>4, <1>5, <1>6, <1>7, <1>8, <1>9, SMTT(40), Z3T(40) DEF Next, WriteLoop

\* Without a circuit breaker, and without batch transforms, no record is lost at all:
\* what the durable checkpoint covers is in the sink, in the dead-letter queue or was
\* filtered (writeBatch, blockCheckpoint).
THEOREM NothingLost == ASSUME ~HasBreaker, ~BatchChain PROVE Spec => []NoSilentLoss
  <1>1. Init => dropped = {} /\ wpc # "cooldown"
    BY DEF Init
  <1>2. (dropped = {} /\ wpc # "cooldown") /\ [Next]_vars => (dropped = {} /\ wpc # "cooldown")'
    BY BreakerStep
  <1>3. SafetyInv /\ (dropped = {} /\ wpc # "cooldown") => NoSilentLoss
    BY DEF SafetyInv, OnlyBreakerLoses, NoSilentLoss
  <1> QED
    BY InitSafety, SafetyStep, <1>1, <1>2, <1>3, PTL DEF Spec

\* A write loop that ended gracefully, at EOF or on cancellation, has settled every
\* record it took from the channel, or given it up behind the breaker, unless the
\* checkpoint is blocked.
THEOREM ShutdownSafety == ASSUME ~BatchChain PROVE Spec => []ShutdownDelivers
  <1>1. SafetyInv => ShutdownDelivers
    BY DEF SafetyInv, ControlInv, Scratch, Closing, Accounted, ShutdownDelivers
  <1> QED
    BY InitSafety, SafetyStep, <1>1, PTL DEF Spec

\* No action moves a blocked checkpoint.
LEMMA BlockedStep ==
    ASSUME Next
    PROVE  checkpointBlocked => cp' = cp
  <1>1. CASE Callers
    BY <1>1, Zenon DEF Callers, StartReserve, StartRebuildFailed, Stop, Halt, Pause, Crash,
       EmptyBatch
  <1>2. CASE Opening
    BY <1>2, ZenonT(40) DEF Opening, StartOpenFailed, StartOpened, EmptyBatch
  <1>3. CASE RunLoopEnd
    BY <1>3 DEF RunLoopEnd, EmptyBatch
  <1>4. CASE ReadLoop
    BY <1>4, Zenon DEF ReadLoop, ReadRecord, ReadEOF, MarkSourceExhausted, ReadCancelled,
       ReadLoopPanic
  <1>5. CASE TakeRecord \/ Tick \/ ChannelClosed \/ WriteCancelled
    BY <1>5, ZenonT(40) DEF TakeRecord, Tick, FlushPartial, ChannelClosed, WriteCancelled
  <1>6. CASE FlushChain \/ WriteLoopPanic
    BY <1>6, Zenon DEF FlushChain, WriteLoopPanic, EmptyBatch
  <1>7. CASE WriteBatch
    BY <1>7, ZenonT(40) DEF WriteBatch, HandleFailedRecord, Transform, CheckIdentity, ZeroSurvivors,
       BreakerAllow, CooldownElapsed, CooldownTimedOut, WriteSucceeded,
       WriteFailed, WriteRecordsIndividually, FailedBatchDone, CommitBatch
  <1>8. CASE Checkpointing
    BY <1>8, Zenon DEF Checkpointing, FlushPendingCheckpoint, SaveRefused, SaveWithoutPosition,
       SaveFailed, SaveCommittedCheckpoint, AckCheckpoint
  <1> QED
    BY <1>1, <1>2, <1>3, <1>4, <1>5, <1>6, <1>7, <1>8, SMTT(40), Z3T(40) DEF Next, WriteLoop

\* A blocked checkpoint stays where it is until the runner is started again: no
\* later batch, ticker or shutdown flush moves it (saveCommittedCheckpoint).
THEOREM BlockedStays == Spec => BlockedUntilRestart
  <1>1. [Next]_vars => [checkpointBlocked => cp' = cp]_vars
    BY BlockedStep DEF vars
  <1> QED
    BY <1>1, PTL DEF Spec, BlockedUntilRestart

=============================================================================
