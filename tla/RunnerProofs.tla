---------------------------- MODULE RunnerProofs ----------------------------
(***************************************************************************)
(* Proofs about Runner, for every number of records, every batch, buffer    *)
(* and throttling size and every bound on runs, crashes and panics.         *)
(*                                                                          *)
(*   TypeCorrect       the type invariant                                   *)
(*   RunsNeverOverlap  no loop of a run is alive while Start would succeed  *)
(***************************************************************************)
EXTENDS Runner, TLAPS

\* The groups of variables are only abbreviations.
USE DEF durable, control, ckpt, cb, reader, position, batch, bounds

-----------------------------------------------------------------------------
(* The parts of the inductive invariant.                                    *)

\* What Transform, CheckIdentity and the write actions work on.
BatchTypes ==
    /\ wpc \in WritePoints
    /\ mode \in Modes
    /\ acc \subseteq Pos
    /\ surv \subseteq Pos
    /\ queue \subseteq Pos
    /\ held \subseteq Pos
    /\ seen \subseteq {"source", "transform", "identity", "zeroOutput", "allFiltered"}
    /\ target \in 0..N
    /\ saver \in {"none", "direct", "commit", "flush"}

BreakerTypes == breaker \in {"closed", "open", "halfOpen"} /\ failures \in 0..MaxFailures

\* The loops live only between StartOpened and RunLoopEnd.
Quiescent == phase # "looping" => rpc = "off" /\ wpc = "off"

\* Where records of a batch may be.
Scratch ==
    /\ acc # {} => wpc = "reject"
    /\ surv # {} => wpc \in {"identity", "gate", "cooldown", "write", "isolate"}
    /\ queue # {} => wpc \in {"reject", "identity", "gate", "refused"}
    /\ saver # "none" => wpc \in {"save", "ack"}

\* The write loop only finishes after it has handed over all that it took.
Closing ==
    /\ mode \in {"eof", "cancel", "chain"} => handed = taken
    /\ wpc = "select" => mode = "none"
    /\ wpc \in BatchPoints \cup {"save", "ack"} => mode # "none"
    /\ wpc = "flush" \/ saver = "flush" => mode \in {"tick", "eof", "cancel"}
    /\ wpc = "flushChain" => mode = "eof"
    /\ wpc = "exited" => mode \in {"eof", "cancel", "chain"}

ControlInv == TypeOK /\ Quiescent /\ Scratch /\ Closing

-----------------------------------------------------------------------------
(* Type correctness.                                                        *)

LEMMA BeginBatchType ==
    ASSUME DataTypes, NEW m \in Modes, NEW last \in 0..N, BeginBatch(m, last)
    PROVE  BatchTypes'
  BY SizeAssumption, SMT, Z3 DEF BeginBatch, DataTypes, BatchTypes, WritePoints, BatchPoints, Pos

LEMMA RecordFailureType == ASSUME DataTypes, RecordFailure PROVE BreakerTypes'
  BY SizeAssumption, SMT, Z3 DEF DataTypes, BreakerTypes, RecordFailure

LEMMA FlushPartialType ==
    ASSUME DataTypes, NEW m \in {"tick", "eof", "cancel"}, FlushPartial(m)
    PROVE  DataTypes'
  <1>1. CASE taken > handed
    <2>1. m \in Modes /\ taken \in 0..N
      BY SizeAssumption, SMT, Z3 DEF DataTypes, Modes
    <2>2. BatchTypes'
      BY <1>1, <2>1, BeginBatchType DEF FlushPartial
    <2> QED
      BY <1>1, <2>2, SizeAssumption, SMT, Z3 DEF DataTypes, BatchTypes, FlushPartial, BeginBatch
  <1>2. CASE ~(taken > handed)
    BY <1>2, SizeAssumption, ZenonT(40) DEF DataTypes, FlushPartial, WritePoints, Modes
  <1> QED
    BY <1>1, <1>2

LEMMA TakeRecordType == ASSUME DataTypes, TakeRecord PROVE DataTypes'
  <1>1. CASE taken + 1 - handed >= BatchSize
    <2>1. "size" \in Modes /\ taken + 1 \in 0..N
      BY SizeAssumption, SMT, Z3 DEF DataTypes, Modes, TakeRecord
    <2>2. BatchTypes'
      BY <1>1, <2>1, BeginBatchType DEF TakeRecord
    <2> QED
      BY <1>1, <2>2, SizeAssumption, SMT, Z3 DEF DataTypes, BatchTypes, TakeRecord, BeginBatch
  <1>2. CASE ~(taken + 1 - handed >= BatchSize)
    <2>1. UNCHANGED <<wpc, handed, batch>> /\ taken' = taken + 1 /\ taken < read
      BY <1>2 DEF TakeRecord
    <2>2. taken' \in 0..read' /\ handed' \in 0..taken'
      BY <2>1, SMT, Z3 DEF DataTypes, TakeRecord
    <2> QED
      BY <2>1, <2>2 DEF DataTypes, TakeRecord
  <1> QED
    BY <1>1, <1>2

LEMMA FlushChainType == ASSUME DataTypes, FlushChain PROVE DataTypes'
  <1>1. CASE wpc' = "exited"
    <2>1. /\ held' \subseteq held
          /\ UNCHANGED <<mode, acc, surv, queue, seen, target, saver, uncheckpointedBatches>>
      BY <1>1 DEF FlushChain
    <2> QED
      BY <1>1, <2>1 DEF DataTypes, FlushChain, WritePoints
  <1>2. CASE wpc' # "exited"
    <2>1. /\ wpc' = "reject" /\ mode' = "chain" /\ acc' = held /\ held' = {}
          /\ target' \in held
          /\ uncheckpointedBatches' = CheckpointEvery
          /\ UNCHANGED <<surv, queue, seen, saver>>
      BY <1>2 DEF FlushChain
    <2>2. target' \in 0..N /\ uncheckpointedBatches' \in 0..CheckpointEvery
      BY <2>1, SizeAssumption, SMT, Z3 DEF DataTypes, Pos
    <2> QED
      BY <2>1, <2>2 DEF DataTypes, FlushChain, WritePoints, BatchPoints, Modes
  <1> QED
    BY <1>1, <1>2

LEMMA HandleFailedRecordType == ASSUME DataTypes, HandleFailedRecord PROVE DataTypes'
  <1>1. BreakerTypes'
    BY RecordFailureType DEF HandleFailedRecord, DataTypes, BreakerTypes
  <1>2. (queue \subseteq Pos /\ dlq \subseteq Pos)'
    BY DEF HandleFailedRecord, DataTypes
  <1> QED
    BY <1>1, <1>2 DEF DataTypes, BreakerTypes, HandleFailedRecord

LEMMA WriteFailedType == ASSUME DataTypes, WriteFailed PROVE DataTypes'
  <1>1. BreakerTypes'
    BY RecordFailureType DEF WriteFailed
  <1>2. (queue \subseteq Pos /\ surv \subseteq Pos /\ sink \subseteq Pos /\ wpc \in WritePoints)'
    BY DEF WriteFailed, DataTypes, WritePoints, BatchPoints
  <1> QED
    BY <1>1, <1>2 DEF DataTypes, BreakerTypes, WriteFailed

\* Every action keeps the flags Boolean.
LEMMA FlagsStep ==
    ASSUME FlagTypes, Next
    PROVE  FlagTypes'
  <1> USE DEF FlagTypes
  <1>1. CASE Callers
    BY <1>1, Zenon DEF Callers, StartReserve, StartRebuildFailed, Stop, Halt, Pause, Crash,
       EmptyBatch
  <1>2. CASE Opening
    BY <1>2, Zenon DEF Opening, StartOpenFailed, StartOpened, EmptyBatch
  <1>3. CASE RunLoopEnd
    BY <1>3 DEF RunLoopEnd, EmptyBatch
  <1>4. CASE ReadLoop
    BY <1>4, SMTT(40), Z3T(40) DEF ReadLoop, ReadRecord, ReadEOF, MarkSourceExhausted, ReadCancelled,
       ReadLoopPanic
  <1>5. CASE TakeRecord \/ Tick \/ ChannelClosed \/ WriteCancelled
    BY <1>5, ZenonT(40) DEF TakeRecord, BeginBatch, Tick, FlushPartial, ChannelClosed, WriteCancelled
  <1>6. CASE FlushChain \/ WriteLoopPanic
    BY <1>6, Zenon DEF FlushChain, WriteLoopPanic, EmptyBatch
  <1>7. CASE WriteBatch
    BY <1>7, ZenonT(40) DEF WriteBatch, HandleFailedRecord, Transform, BatchTransforms,
       RecordTransforms, CheckIdentity, ZeroSurvivors, EndBatch, AfterBatch,
       BreakerAllow, CooldownElapsed, CooldownTimedOut, WriteSucceeded,
       WriteFailed, WriteRecordsIndividually, FailedBatchDone, CommitBatch
  <1>8. CASE Checkpointing
    BY <1>8, ZenonT(40) DEF Checkpointing, FlushPendingCheckpoint, AfterFlush, SaveRefused, EndSave,
       AfterBatch, SaveWithoutPosition, SaveFailed, SaveCommittedCheckpoint, Saved,
       AckCheckpoint
  <1> QED
    BY <1>1, <1>2, <1>3, <1>4, <1>5, <1>6, <1>7, <1>8 DEF Next, WriteLoop

\* Every action keeps the other variables in their types.
LEMMA DataStep ==
    ASSUME DataTypes, Next
    PROVE  DataTypes'
  <1> USE SizeAssumption, RecordAssumption DEF DataTypes, Statuses, WritePoints,
          BatchPoints, Modes, Pos
  <1>1. CASE StartReserve
    BY <1>1, SMT, Z3 DEF StartReserve
  <1>2. CASE StartRebuildFailed
    BY <1>2, SMT, Z3 DEF StartRebuildFailed
  <1>3. CASE Stop
    BY <1>3, SMT, Z3 DEF Stop, Halt
  <1>4. CASE Pause
    BY <1>4, SMT, Z3 DEF Pause, Halt
  <1>5. CASE Crash
    BY <1>5, SMT, Z3 DEF Crash, EmptyBatch
  <1>6. CASE StartOpenFailed
    BY <1>6, SMT, Z3 DEF StartOpenFailed
  <1>7. CASE StartOpened
    BY <1>7, SMT, Z3 DEF StartOpened, EmptyBatch
  <1>8. CASE RunLoopEnd
    BY <1>8, SMT, Z3 DEF RunLoopEnd, EmptyBatch
  <1>9. CASE ReadRecord
    BY <1>9, SMT, Z3 DEF ReadRecord
  <1>10. CASE ReadEOF
    BY <1>10, SMT, Z3 DEF ReadEOF
  <1>11. CASE MarkSourceExhausted
    BY <1>11, SMT, Z3 DEF MarkSourceExhausted
  <1>12. CASE ReadCancelled
    BY <1>12, SMT, Z3 DEF ReadCancelled
  <1>13. CASE ReadLoopPanic
    BY <1>13, SMT, Z3 DEF ReadLoopPanic
  <1>14. CASE TakeRecord
    BY <1>14, TakeRecordType, Zenon
  <1>15. CASE Tick
    BY <1>15, FlushPartialType, Zenon DEF Tick
  <1>16. CASE ChannelClosed
    BY <1>16, FlushPartialType, Zenon DEF ChannelClosed
  <1>17. CASE WriteCancelled
    BY <1>17, FlushPartialType, Zenon DEF WriteCancelled
  <1>18. CASE FlushChain
    BY <1>18, FlushChainType
  <1>19. CASE WriteLoopPanic
    BY <1>19, SMT, Z3 DEF WriteLoopPanic, EmptyBatch
  <1>20. CASE HandleFailedRecord
    BY <1>20, HandleFailedRecordType
  <1>21. CASE Transform
    BY <1>21, SMT, Z3 DEF Transform, BatchTransforms, RecordTransforms
  <1>22. CASE CheckIdentity
    BY <1>22, SMT, Z3 DEF CheckIdentity
  <1>23. CASE ZeroSurvivors
    BY <1>23, SMT, Z3 DEF ZeroSurvivors, EndBatch, AfterBatch
  <1>24. CASE BreakerAllow
    BY <1>24, SMT, Z3 DEF BreakerAllow
  <1>25. CASE CooldownElapsed
    BY <1>25, SMT, Z3 DEF CooldownElapsed
  <1>26. CASE CooldownTimedOut
    BY <1>26, SMT, Z3 DEF CooldownTimedOut, EndBatch, AfterBatch
  <1>27. CASE WriteSucceeded
    BY <1>27, SMTT(40), Z3T(40) DEF WriteSucceeded, RecordSuccess
  <1>28. CASE WriteFailed
    BY <1>28, WriteFailedType
  <1>29. CASE WriteRecordsIndividually
    BY <1>29, SMT, Z3 DEF WriteRecordsIndividually
  <1>30. CASE FailedBatchDone
    BY <1>30, SMT, Z3 DEF FailedBatchDone, EndBatch, AfterBatch
  <1>31. CASE CommitBatch
    BY <1>31, SMT, Z3 DEF CommitBatch, EndBatch, AfterBatch, RecordFailure
  <1>32. CASE FlushPendingCheckpoint
    BY <1>32, SMT, Z3 DEF FlushPendingCheckpoint, AfterFlush
  <1>33. CASE SaveRefused
    BY <1>33, SMT, Z3 DEF SaveRefused, EndSave, AfterBatch, AfterFlush, RecordFailure
  <1>34. CASE SaveWithoutPosition
    BY <1>34, SMT, Z3 DEF SaveWithoutPosition, EndSave, AfterBatch, AfterFlush, RecordFailure
  <1>35. CASE SaveFailed
    BY <1>35, SMT, Z3 DEF SaveFailed, EndSave, AfterBatch, AfterFlush, RecordFailure
  <1>36. CASE SaveCommittedCheckpoint
    BY <1>36, SMT, Z3 DEF SaveCommittedCheckpoint, Saved, EndSave, AfterBatch, AfterFlush
  <1>37. CASE AckCheckpoint
    BY <1>37, SMT, Z3 DEF AckCheckpoint, Saved, EndSave, AfterBatch, AfterFlush, RecordFailure
  <1> QED
    BY <1>1, <1>2, <1>3, <1>4, <1>5, <1>6, <1>7, <1>8, <1>9, <1>10, <1>11, <1>12, <1>13,
       <1>14, <1>15, <1>16, <1>17, <1>18, <1>19, <1>20, <1>21, <1>22, <1>23, <1>24, <1>25,
       <1>26, <1>27, <1>28, <1>29, <1>30, <1>31, <1>32, <1>33, <1>34, <1>35, <1>36, <1>37, Zenon
       DEF Next, Callers, Opening, ReadLoop, WriteLoop, WriteBatch, Checkpointing

LEMMA InitTypes == Init => TypeOK
  <1>1. Init => FlagTypes
    BY Zenon DEF Init, FlagTypes
  <1>2. Init => DataTypes
    BY SizeAssumption, SMT, Z3 DEF Init, DataTypes, Statuses, WritePoints, Modes
  <1> QED
    BY <1>1, <1>2 DEF TypeOK

LEMMA TypesStep == TypeOK /\ [Next]_vars => TypeOK'
  <1>1. ASSUME TypeOK, Next PROVE TypeOK'
    BY <1>1, FlagsStep, DataStep DEF TypeOK
  <1>2. ASSUME FlagTypes, UNCHANGED vars PROVE FlagTypes'
    BY <1>2 DEF FlagTypes, vars
  <1>3. ASSUME DataTypes, UNCHANGED vars PROVE DataTypes'
    BY <1>3 DEF DataTypes, vars
  <1> QED
    BY <1>1, <1>2, <1>3 DEF TypeOK

\* Type correctness: the indices stay ordered (handed, taken, read) and every
\* counter within its bound, in every configuration of the runner.
THEOREM TypeCorrect == Spec => []TypeOK
  BY InitTypes, TypesStep, PTL DEF Spec

-----------------------------------------------------------------------------
(* Control: who is alive, where records are, how the loop finishes.         *)

\* The loops are off outside the looping phase.
LEMMA QuiescentStep ==
    ASSUME DataTypes, Quiescent, Scratch, Next
    PROVE  Quiescent'
  <1> USE DEF Quiescent, Scratch, DataTypes, BatchPoints
  <1>1. CASE Callers
    BY <1>1, Zenon DEF Callers, StartReserve, runActive, StartRebuildFailed, Stop, Halt, Pause,
       Crash, EmptyBatch
  <1>2. CASE Opening
    BY <1>2 DEF Opening, StartOpenFailed, StartOpened, EmptyBatch
  <1>3. CASE RunLoopEnd
    BY <1>3, Zenon DEF RunLoopEnd, EmptyBatch
  <1>4. CASE ReadLoop
    BY <1>4, Zenon DEF ReadLoop, ReadRecord, ReadEOF, MarkSourceExhausted, ReadCancelled,
       ReadLoopPanic
  <1>5. CASE TakeRecord \/ Tick \/ ChannelClosed \/ WriteCancelled
    BY <1>5, Zenon DEF TakeRecord, BeginBatch, Tick, FlushPartial, ChannelClosed, WriteCancelled
  <1>6. CASE FlushChain \/ WriteLoopPanic
    BY <1>6, SMTT(40), Z3T(40) DEF FlushChain, WriteLoopPanic, EmptyBatch, PluginPoints
  <1>7. CASE WriteBatch
    BY <1>7, Zenon DEF WriteBatch, HandleFailedRecord, Transform, BatchTransforms,
       RecordTransforms, CheckIdentity, ZeroSurvivors, EndBatch, AfterBatch,
       BreakerAllow, CooldownElapsed, CooldownTimedOut, WriteSucceeded,
       WriteFailed, WriteRecordsIndividually, FailedBatchDone, CommitBatch
  <1>8. CASE Checkpointing
    BY <1>8 DEF Checkpointing, FlushPendingCheckpoint, AfterFlush, SaveRefused, EndSave,
       AfterBatch, SaveWithoutPosition, SaveFailed, SaveCommittedCheckpoint, Saved,
       AckCheckpoint
  <1> QED
    BY <1>1, <1>2, <1>3, <1>4, <1>5, <1>6, <1>7, <1>8, Zenon DEF Next, WriteLoop

\* Accepted, surviving and failed records exist only at their program points.
LEMMA ScratchStep ==
    ASSUME DataTypes, Scratch, Closing, Next
    PROVE  Scratch'
  <1> USE DEF Scratch
  <1>1. CASE Callers
    BY <1>1 DEF Callers, StartReserve, StartRebuildFailed, Stop, Halt, Pause, Crash,
       EmptyBatch
  <1>2. CASE Opening
    BY <1>2 DEF Opening, StartOpenFailed, StartOpened, EmptyBatch
  <1>3. CASE RunLoopEnd
    BY <1>3, Zenon DEF RunLoopEnd, EmptyBatch
  <1>4. CASE ReadLoop
    BY <1>4, SMTT(40), Z3T(40) DEF ReadLoop, ReadRecord, ReadEOF, MarkSourceExhausted, ReadCancelled,
       ReadLoopPanic
  <1>5. CASE TakeRecord \/ Tick \/ ChannelClosed \/ WriteCancelled
    BY <1>5, Zenon DEF TakeRecord, BeginBatch, Tick, FlushPartial, ChannelClosed, WriteCancelled
  <1>6. CASE FlushChain \/ WriteLoopPanic
    BY <1>6, SMTT(40), Z3T(40) DEF FlushChain, WriteLoopPanic, EmptyBatch, PluginPoints
  <1>7. CASE WriteBatch
    BY <1>7, Zenon DEF WriteBatch, HandleFailedRecord, Transform, BatchTransforms,
       RecordTransforms, CheckIdentity, ZeroSurvivors, EndBatch, AfterBatch,
       BreakerAllow, CooldownElapsed, CooldownTimedOut, WriteSucceeded,
       WriteFailed, WriteRecordsIndividually, FailedBatchDone, CommitBatch
  <1>8. CASE Checkpointing
    BY <1>8 DEF Checkpointing, FlushPendingCheckpoint, AfterFlush, SaveRefused, EndSave,
       AfterBatch, SaveWithoutPosition, SaveFailed, SaveCommittedCheckpoint, Saved,
       AckCheckpoint
  <1> QED
    BY <1>1, <1>2, <1>3, <1>4, <1>5, <1>6, <1>7, <1>8, Zenon DEF Next, WriteLoop

LEMMA EndBatchClosing ==
    ASSUME DataTypes, Closing, wpc \in BatchPoints, EndBatch, UNCHANGED position
    PROVE  Closing'
  <1>1. mode \in {"size", "tick", "eof", "cancel", "chain"}
    BY DEF DataTypes, Closing, Modes
  <1> QED
    BY <1>1 DEF Closing, EndBatch, AfterBatch, BatchPoints

LEMMA EndSaveClosing ==
    ASSUME DataTypes, Closing, wpc \in {"save", "ack"}, EndSave, UNCHANGED position
    PROVE  Closing'
  <1>1. mode \in {"size", "tick", "eof", "cancel", "chain"}
    BY DEF DataTypes, Closing, Modes
  <1>2. CASE saver = "flush"
    BY <1>1, <1>2 DEF Closing, EndSave, AfterFlush, BatchPoints
  <1>3. CASE saver # "flush"
    BY <1>1, <1>3, SMTT(40), Z3T(40) DEF Closing, EndSave, AfterBatch, BatchPoints
  <1> QED
    BY <1>2, <1>3

\* Once the write loop is closing nothing more is taken from the channel.
LEMMA ClosingStep ==
    ASSUME DataTypes, Scratch, Closing, Next
    PROVE  Closing'
  <1> USE DEF Scratch, Closing, DataTypes, BatchPoints
  <1>1. CASE StartReserve
    BY <1>1 DEF StartReserve
  <1>2. CASE StartRebuildFailed
    BY <1>2 DEF StartRebuildFailed
  <1>3. CASE Stop
    BY <1>3, SMTT(40), Z3T(40) DEF Stop, Halt
  <1>4. CASE Pause
    BY <1>4 DEF Pause, Halt
  <1>5. CASE Crash
    BY <1>5, Zenon DEF Crash, EmptyBatch
  <1>6. CASE StartOpenFailed
    BY <1>6, Zenon DEF StartOpenFailed
  <1>7. CASE StartOpened
    BY <1>7, Zenon DEF StartOpened, EmptyBatch
  <1>8. CASE RunLoopEnd
    BY <1>8, Zenon DEF RunLoopEnd, EmptyBatch
  <1>9. CASE ReadRecord
    BY <1>9, Zenon DEF ReadRecord
  <1>10. CASE ReadEOF
    BY <1>10, Zenon DEF ReadEOF
  <1>11. CASE MarkSourceExhausted
    BY <1>11, Zenon DEF MarkSourceExhausted
  <1>12. CASE ReadCancelled
    BY <1>12, Zenon DEF ReadCancelled
  <1>13. CASE ReadLoopPanic
    BY <1>13, Zenon DEF ReadLoopPanic
  <1>14. CASE TakeRecord
    BY <1>14, Zenon DEF TakeRecord, BeginBatch
  <1>15. CASE Tick
    BY <1>15, Zenon DEF Tick, FlushPartial, BeginBatch
  <1>16. CASE ChannelClosed
    BY <1>16, SMTT(40), Z3T(40) DEF ChannelClosed, FlushPartial, BeginBatch
  <1>17. CASE WriteCancelled
    BY <1>17, SMTT(40), Z3T(40) DEF WriteCancelled, FlushPartial, BeginBatch
  <1>18. CASE FlushChain
    BY <1>18, Zenon DEF FlushChain
  <1>19. CASE WriteLoopPanic
    BY <1>19, Zenon DEF WriteLoopPanic, EmptyBatch, PluginPoints
  <1>20. CASE HandleFailedRecord
    BY <1>20 DEF HandleFailedRecord
  <1>21. CASE Transform
    BY <1>21, Zenon DEF Transform, BatchTransforms, RecordTransforms
  <1>22. CASE CheckIdentity
    BY <1>22, Zenon DEF CheckIdentity
  <1>23. CASE ZeroSurvivors
    <2>1. CASE ZeroSurvivorsCheckpointed
      BY <1>23, <2>1, Zenon DEF ZeroSurvivors
    <2>2. CASE ~ZeroSurvivorsCheckpointed
      BY <1>23, <2>2, EndBatchClosing, Zenon DEF ZeroSurvivors
    <2> QED
      BY <2>1, <2>2, Zenon
  <1>24. CASE BreakerAllow
    BY <1>24, Zenon DEF BreakerAllow
  <1>25. CASE CooldownElapsed
    BY <1>25, Zenon DEF CooldownElapsed
  <1>26. CASE CooldownTimedOut
    BY <1>26, EndBatchClosing, Zenon DEF CooldownTimedOut
  <1>27. CASE WriteSucceeded
    BY <1>27, Zenon DEF WriteSucceeded
  <1>28. CASE WriteFailed
    BY <1>28, Zenon DEF WriteFailed
  <1>29. CASE WriteRecordsIndividually
    BY <1>29, Zenon DEF WriteRecordsIndividually
  <1>30. CASE FailedBatchDone
    BY <1>30, EndBatchClosing, Zenon DEF FailedBatchDone
  <1>31. CASE CommitBatch
    <2>1. CASE wpc' = "save"
      BY <1>31, <2>1, EndBatchClosing, ZenonT(40) DEF CommitBatch
    <2>2. CASE wpc' # "save"
      BY <1>31, <2>2, EndBatchClosing DEF CommitBatch
    <2> QED
      BY <2>1, <2>2, Zenon
  <1>32. CASE FlushPendingCheckpoint
    BY <1>32, Zenon DEF FlushPendingCheckpoint, AfterFlush
  <1>33. CASE SaveRefused
    BY <1>33, EndSaveClosing, Zenon DEF SaveRefused
  <1>34. CASE SaveWithoutPosition
    BY <1>34, EndSaveClosing, ZenonT(40) DEF SaveWithoutPosition
  <1>35. CASE SaveFailed
    BY <1>35, EndSaveClosing, SMTT(40), Z3T(40) DEF SaveFailed
  <1>36. CASE SaveCommittedCheckpoint
    <2>1. CASE HasAcker
      BY <1>36, <2>1, Zenon DEF SaveCommittedCheckpoint
    <2>2. CASE ~HasAcker
      BY <1>36, <2>2, EndSaveClosing, ZenonT(40) DEF SaveCommittedCheckpoint, Saved
    <2> QED
      BY <2>1, <2>2, SMTT(40), Z3T(40)
  <1>37. CASE AckCheckpoint
    BY <1>37, EndSaveClosing DEF AckCheckpoint, Saved
  <1> QED
    BY <1>1, <1>2, <1>3, <1>4, <1>5, <1>6, <1>7, <1>8, <1>9, <1>10, <1>11, <1>12, <1>13,
       <1>14, <1>15, <1>16, <1>17, <1>18, <1>19, <1>20, <1>21, <1>22, <1>23, <1>24, <1>25,
       <1>26, <1>27, <1>28, <1>29, <1>30, <1>31, <1>32, <1>33, <1>34, <1>35, <1>36, <1>37, ZenonT(40)
       DEF Next, Callers, Opening, ReadLoop, WriteLoop, WriteBatch, Checkpointing

LEMMA ControlStep == ControlInv /\ [Next]_vars => ControlInv'
  <1>1. ASSUME ControlInv, Next PROVE ControlInv'
    BY <1>1, TypesStep, QuiescentStep, ScratchStep, ClosingStep, Zenon DEF ControlInv, TypeOK
  <1>2. ASSUME ControlInv, UNCHANGED vars PROVE (Quiescent /\ Scratch /\ Closing)'
    BY <1>2 DEF ControlInv, Quiescent, Scratch, Closing, vars
  <1> QED
    BY <1>1, <1>2, TypesStep DEF ControlInv

LEMMA InitControl == Init => ControlInv
  BY InitTypes DEF Init, ControlInv, Quiescent, Scratch, Closing, BatchPoints

\* Executions of one runner never overlap: while the run slot is free no read or
\* write loop of an earlier run is alive, so a new Start never shares handles.
THEOREM RunsNeverOverlap == Spec => []QuiescentWhenIdle
  <1>1. ControlInv => QuiescentWhenIdle
    BY DEF ControlInv, Quiescent, QuiescentWhenIdle, runActive
  <1> QED
    BY InitControl, ControlStep, <1>1, PTL DEF Spec

=============================================================================
