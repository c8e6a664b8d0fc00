------------------------------- MODULE Runner -------------------------------
(***************************************************************************)
(* The linear pipeline runner (internal/etl/pipeline/pipeline.go): one      *)
(* goroutine reads the source into a bounded channel, one goroutine takes   *)
(* records from it, batches them and commits each batch (DLQ routing of     *)
(* rejected records, transforms, sink write, DLQ routing of what the sink   *)
(* refused, checkpoint), while callers Start, Stop and Pause the runner and *)
(* the process may crash.                                                   *)
(*                                                                          *)
(* Records are the source positions 1..N.  The reader is ordered and the    *)
(* channel is FIFO, so the channel holds the positions taken+1..read, the   *)
(* batch being filled holds handed+1..taken, and 1..handed has been given   *)
(* to writeBatch (or lies before the checkpoint the run was opened at).     *)
(***************************************************************************)
EXTENDS Integers, FiniteSets

CONSTANTS
    N,                 \* number of records the source holds
    Bounded,           \* TRUE: the source reports EOF after record N
    BatchRead,         \* TRUE: the source is read with ReadBatch (mysql_batch)
    BatchSize,         \* batch_size
    Buffer,            \* backpressure_buffer, the capacity of the channel
    CheckpointEvery,   \* batches after which a throttled checkpoint is forced (10)
    Rejected,          \* positions whose record carries a source Rejection
    Filtered,          \* positions the transforms filter out
    BatchChain,        \* TRUE: some transform of the chain is a BatchTransform
    IdentityRequired,  \* TRUE: the sink demands complete metadata identity
    HasDLQ,            \* TRUE: a DLQ writer is configured
    HasAcker,          \* TRUE: the reader implements CheckpointAcker
    HasBreaker,        \* TRUE: circuit_breaker is configured
    MaxFailures,       \* circuit_breaker.max_failures
    CooldownSec,       \* circuit_breaker.cooldown_sec
    CommitTimeoutSec,  \* batchCommitTimeout (30)
    FlushTimeoutSec,   \* budget of the flushes at EOF and at cancellation (10)
    HasAlertChecker,   \* TRUE: alert_rules is configured
    MaxRuns,           \* bound: calls of Start
    MaxCrashes,        \* bound: process crashes
    MaxPanics          \* bound: panics recovered in the read and write loops

Pos == 1..N

ASSUME SizeAssumption ==
    /\ N \in Nat \ {0}
    /\ BatchSize \in Nat \ {0}
    /\ Buffer \in Nat \ {0}
    /\ CheckpointEvery \in Nat \ {0}
    /\ MaxFailures \in Nat \ {0}
    /\ CooldownSec \in Nat \ {0}
    /\ CommitTimeoutSec \in Nat \ {0}
    /\ FlushTimeoutSec \in Nat \ {0}
    /\ MaxRuns \in Nat
    /\ MaxCrashes \in Nat
    /\ MaxPanics \in Nat

ASSUME FlagAssumption ==
    /\ Bounded \in BOOLEAN
    /\ BatchRead \in BOOLEAN
    /\ BatchChain \in BOOLEAN
    /\ IdentityRequired \in BOOLEAN
    /\ HasDLQ \in BOOLEAN
    /\ HasAcker \in BOOLEAN
    /\ HasBreaker \in BOOLEAN
    /\ HasAlertChecker \in BOOLEAN

ASSUME RecordAssumption ==
    /\ Rejected \subseteq Pos
    /\ Filtered \subseteq Pos
    /\ Rejected \cap Filtered = {}

VARIABLES
    \* durable state, outside the process
    cp,        \* checkpoint store: position of the last record it covers, 0 = none
    sink,      \* positions the target system holds
    dlq,       \* positions the dead-letter queue holds
    \* the Runner object
    status,    \* Runner.status
    phase,     \* "idle" | "opening" | "looping": what a reserved run slot is doing
    ctxDone,   \* the run context is cancelled
    runtimeNeedsRebuild,
    checkpointBlocked,
    uncheckpointedBatches,
    pending,   \* last position of pendingCheckpointProcessed, 0 = empty
    everSaved, \* lastCheckpointSave is not the zero time
    \* the circuit breaker
    breaker,   \* "closed" | "open" | "halfOpen"
    failures,  \* failures inside the window
    \* the read loop and the channel
    rpc, read,
    \* the write loop
    wpc, taken, handed,
    mode,      \* why the current batch is flushed
    acc,       \* accepted records of the batch not yet transformed
    surv,      \* transformed records not yet accepted by the sink
    queue,     \* failed records waiting for handleFailedRecord
    held,      \* positions a BatchTransform keeps in its state
    seen,      \* kinds of failure and emptiness met in the batch
    safe,      \* checkpointBoundarySafe
    target,    \* last position of the records a checkpoint is built from
    saver,     \* which caller of saveCommittedCheckpoint is running
    dropped,   \* history: what writeBatch returned without writing, till it is read again
    \* bounds
    runs, crashes, panics

durable == <<cp, sink, dlq>>
control == <<status, phase, ctxDone, runtimeNeedsRebuild>>
ckpt == <<checkpointBlocked, uncheckpointedBatches, pending, everSaved>>
cb == <<breaker, failures>>
reader == <<rpc, read>>
position == <<taken, handed>>
batch == <<mode, acc, surv, queue, held, seen, safe, target, saver>>
bounds == <<dropped, runs, crashes, panics>>
vars == <<durable, control, ckpt, cb, reader, wpc, position, batch, bounds>>

Statuses == {"running", "paused", "stopped", "failed", "completed"}

\* Runner.runActive: a Start has reserved the run slot and its runLoop has not
\* closed its done channel.
runActive == phase # "idle"

\* Program points of writeLoop and, in the order it passes them, of writeBatch.
BatchPoints == {"reject", "identity", "gate", "cooldown", "write", "isolate",
                "refused", "commit"}
WritePoints == BatchPoints \cup
    {"off", "select", "save", "ack", "flush", "flushChain", "exited", "panicked"}

\* Where the write loop runs code of a plugin: transforms, sink, DLQ writer, state
\* store, source position or checkpoint store.
PluginPoints == {"reject", "identity", "gate", "write", "isolate", "refused", "save",
                 "ack", "flushChain"}

Modes == {"none", "size", "tick", "eof", "cancel", "chain"}

\* Where a record is safe from the runner's point of view: the target has it,
\* the dead-letter queue has it, or the transforms were told to drop it.
Settled == sink \cup dlq \cup Filtered

FlagTypes ==
    /\ ctxDone \in BOOLEAN
    /\ runtimeNeedsRebuild \in BOOLEAN
    /\ checkpointBlocked \in BOOLEAN
    /\ everSaved \in BOOLEAN
    /\ safe \in BOOLEAN

DataTypes ==
    /\ cp \in 0..N
    /\ sink \subseteq Pos
    /\ dlq \subseteq Pos
    /\ status \in Statuses
    /\ phase \in {"idle", "opening", "looping"}
    /\ uncheckpointedBatches \in 0..CheckpointEvery
    /\ pending \in 0..N
    /\ breaker \in {"closed", "open", "halfOpen"}
    /\ failures \in 0..MaxFailures
    /\ rpc \in {"off", "reading", "exhausted", "exited"}
    /\ read \in 0..N
    /\ wpc \in WritePoints
    /\ taken \in 0..read
    /\ handed \in 0..taken
    /\ mode \in Modes
    /\ acc \subseteq Pos
    /\ surv \subseteq Pos
    /\ queue \subseteq Pos
    /\ held \subseteq Pos
    /\ seen \subseteq {"source", "transform", "identity", "zeroOutput", "allFiltered"}
    /\ target \in 0..N
    /\ saver \in {"none", "direct", "commit", "flush"}
    /\ dropped \subseteq Pos
    /\ runs \in 0..MaxRuns
    /\ crashes \in 0..MaxCrashes
    /\ panics \in 0..MaxPanics

\* Type invariant.  The channel and the batch are intervals: what was handed to
\* writeBatch was taken from the channel, what was taken had been read.
TypeOK == FlagTypes /\ DataTypes

Init ==
    /\ cp = 0 /\ sink = {} /\ dlq = {}
    /\ status = "stopped" /\ phase = "idle" /\ ctxDone = FALSE
    /\ runtimeNeedsRebuild = FALSE /\ checkpointBlocked = FALSE /\ uncheckpointedBatches = 0
    /\ pending = 0 /\ everSaved = FALSE
    /\ breaker = "closed" /\ failures = 0
    /\ rpc = "off" /\ read = 0
    /\ wpc = "off" /\ taken = 0 /\ handed = 0
    /\ mode = "none" /\ acc = {} /\ surv = {} /\ queue = {} /\ held = {}
    /\ seen = {} /\ safe = TRUE /\ target = 0 /\ saver = "none"
    /\ dropped = {} /\ runs = 0 /\ crashes = 0 /\ panics = 0

-----------------------------------------------------------------------------
(* Circuit breaker (circuit_breaker.go).  Old failures leave the window as  *)
(* time passes, so a new failure may find fewer of them than were counted.  *)

\* RecordFailure: a failed half-open probe trips again at once; otherwise the
\* breaker trips when the window holds MaxFailures failures.
RecordFailure ==
    IF ~HasBreaker THEN UNCHANGED cb
    ELSE \E recent \in 0..failures :
            LET n == IF recent + 1 > MaxFailures THEN MaxFailures ELSE recent + 1
            IN  /\ failures' = n
                /\ breaker' = IF breaker = "halfOpen" \/ n >= MaxFailures
                              THEN "open" ELSE breaker

RecordSuccess ==
    IF HasBreaker THEN breaker' = "closed" /\ failures' = 0 ELSE UNCHANGED cb

-----------------------------------------------------------------------------
(* Lifecycle calls.                                                         *)

EmptyBatch ==
    /\ mode' = "none" /\ acc' = {} /\ surv' = {} /\ queue' = {}
    /\ seen' = {} /\ safe' = TRUE /\ target' = 0 /\ saver' = "none"

\* Start, first half: the run slot is reserved under the mutex and the
\* bookkeeping of the previous run is dropped.
StartReserve ==
    /\ status # "running"
    /\ ~runActive
    /\ runs < MaxRuns
    /\ runs' = runs + 1
    /\ status' = "running"
    /\ phase' = "opening"
    /\ ctxDone' = FALSE
    /\ runtimeNeedsRebuild' = FALSE
    /\ checkpointBlocked' = FALSE
    /\ uncheckpointedBatches' = 0
    /\ pending' = 0
    /\ everSaved' = FALSE
    /\ breaker' = "closed" /\ failures' = 0
    /\ UNCHANGED <<durable, reader, wpc, position, batch, dropped, crashes, panics>>

\* Start when rebuilding source, transforms or sink of a previous run fails.
StartRebuildFailed ==
    /\ status # "running"
    /\ ~runActive
    /\ runtimeNeedsRebuild
    /\ runs < MaxRuns
    /\ runs' = runs + 1
    /\ status' = "failed"
    /\ UNCHANGED <<durable, phase, ctxDone, runtimeNeedsRebuild, ckpt, cb, reader, wpc, position, batch,
                   dropped, crashes, panics>>

\* Start, second half, when sink, schema, checkpoint or source cannot be opened:
\* markStartFailed releases the slot.
StartOpenFailed ==
    /\ phase = "opening"
    /\ status' = "failed"
    /\ phase' = "idle"
    /\ ctxDone' = TRUE
    /\ runtimeNeedsRebuild' = TRUE
    /\ UNCHANGED <<durable, ckpt, cb, reader, wpc, position, batch, bounds>>

\* Start, second half: the checkpoint is loaded, the source is opened at it and
\* the read and write loops are spawned.
StartOpened ==
    /\ phase = "opening"
    /\ phase' = "looping"
    /\ read' = cp /\ taken' = cp /\ handed' = cp
    /\ rpc' = "reading"
    /\ wpc' = "select"
    /\ held' = {}
    /\ EmptyBatch
    /\ dropped' = dropped \cap 1..cp
    /\ UNCHANGED <<durable, status, ctxDone, runtimeNeedsRebuild, ckpt, cb, runs, crashes, panics>>

\* Mutant of Halt: the run context is not cancelled.
HaltNoCancel(s) ==
    /\ status = "running"
    /\ status' = s
    /\ UNCHANGED <<durable, phase, ctxDone, runtimeNeedsRebuild, ckpt, cb, reader, wpc,
                   position, batch, bounds>>

\* Stop and Pause: change the status and cancel the run context; neither waits
\* for the loops (Stop only waits for a batch that is already in flight).
Halt(s) ==
    /\ status = "running"
    /\ status' = s
    /\ ctxDone' = TRUE
    /\ UNCHANGED <<durable, phase, runtimeNeedsRebuild, ckpt, cb, reader, wpc, position, batch, bounds>>

Stop == Halt("stopped")

Pause == Halt("paused")

\* Mutant of RunLoopEnd: the write loop is not waited for.
RunLoopEndEarly ==
    /\ phase = "looping"
    /\ rpc = "exited"
    /\ phase' = "idle"
    /\ ctxDone' = TRUE
    /\ runtimeNeedsRebuild' = TRUE
    /\ status' = IF status = "running" THEN "stopped" ELSE status
    /\ rpc' = "off"
    /\ UNCHANGED <<durable, ckpt, cb, read, wpc, position, batch, bounds>>

\* runLoop returns once its goroutines have: both loops and, when alert rules are
\* configured, the alert checker, which leaves only on cancellation.
RunLoopEnd ==
    /\ phase = "looping"
    /\ rpc = "exited" /\ wpc \in {"exited", "panicked"}
    /\ HasAlertChecker => ctxDone
    /\ phase' = "idle"
    /\ ctxDone' = TRUE
    /\ runtimeNeedsRebuild' = TRUE
    /\ status' = IF status = "running" THEN "stopped" ELSE status
    /\ rpc' = "off" /\ wpc' = "off"
    /\ held' = {}
    /\ EmptyBatch
    /\ UNCHANGED <<durable, ckpt, cb, read, position, bounds>>

\* The process dies and comes back: only the durable state survives.
Crash ==
    /\ crashes < MaxCrashes
    /\ crashes' = crashes + 1
    /\ status' = "stopped" /\ phase' = "idle" /\ ctxDone' = FALSE
    /\ runtimeNeedsRebuild' = FALSE /\ checkpointBlocked' = FALSE /\ uncheckpointedBatches' = 0
    /\ pending' = 0 /\ everSaved' = FALSE
    /\ breaker' = "closed" /\ failures' = 0
    /\ rpc' = "off" /\ read' = 0
    /\ wpc' = "off" /\ taken' = 0 /\ handed' = 0
    /\ held' = {}
    /\ EmptyBatch
    /\ UNCHANGED <<durable, dropped, runs, panics>>

-----------------------------------------------------------------------------
(* The read loop.                                                           *)

\* Read and emitReadRecord: a record enters the channel when there is room.
ReadRecord ==
    /\ rpc = "reading"
    /\ read < N
    /\ read - taken < Buffer
    /\ read' = read + 1
    /\ UNCHANGED <<durable, control, ckpt, cb, rpc, wpc, position, batch, bounds>>

\* EOF is believed only while the context is alive, an empty ReadBatch always;
\* the status is overwritten in a later step, under the mutex.
ReadEOF ==
    /\ rpc = "reading"
    /\ Bounded /\ read = N
    /\ BatchRead \/ ~ctxDone
    /\ rpc' = "exhausted"
    /\ UNCHANGED <<durable, control, ckpt, cb, read, wpc, position, batch, bounds>>

MarkSourceExhausted ==
    /\ rpc = "exhausted"
    /\ status' = "completed"
    /\ rpc' = "exited"
    /\ UNCHANGED <<durable, phase, ctxDone, runtimeNeedsRebuild, ckpt, cb, read, wpc,
                   position, batch, bounds>>

\* A read, a backoff or a send that observes the cancelled context.
ReadCancelled ==
    /\ rpc = "reading"
    /\ ctxDone
    /\ rpc' = "exited"
    /\ UNCHANGED <<durable, control, ckpt, cb, read, wpc, position, batch, bounds>>

\* A panic of the source or of a record processor is recovered; the deferred
\* calls close the channel.
ReadLoopPanic ==
    /\ rpc = "reading"
    /\ panics < MaxPanics
    /\ panics' = panics + 1
    /\ status' = "failed"
    /\ rpc' = "exited"
    /\ UNCHANGED <<durable, phase, ctxDone, runtimeNeedsRebuild, ckpt, cb, read, wpc,
                   position, batch, dropped, runs, crashes>>

-----------------------------------------------------------------------------
(* The write loop: select, batching and the shutdown flushes.               *)

\* Where the write loop goes when writeBatch, and when flushPendingCheckpoint,
\* returns.
AfterBatch == CASE mode = "size" -> "select"
                [] mode = "chain" -> "exited"
                [] OTHER -> "flush"
AfterFlush == CASE mode = "tick" -> "select"
                [] mode = "eof" -> "flushChain"
                [] OTHER -> "exited"

\* writeBatch entry: the batch becomes handed+1..last; records the source
\* rejected are routed first.
BeginBatch(m, last) ==
    /\ wpc' = "reject"
    /\ mode' = m
    /\ handed' = last
    /\ queue' = (handed + 1 .. last) \cap Rejected
    /\ acc' = (handed + 1 .. last) \ Rejected
    /\ surv' = {}
    /\ seen' = IF (handed + 1 .. last) \cap Rejected = {} THEN {} ELSE {"source"}
    /\ safe' = TRUE
    /\ target' = last
    /\ saver' = "none"
    /\ UNCHANGED held

\* writeBatch return.
EndBatch ==
    /\ wpc' = AfterBatch
    /\ mode' = IF AfterBatch = "select" THEN "none" ELSE mode
    /\ acc' = {} /\ surv' = {} /\ queue' = {} /\ seen' = {} /\ safe' = TRUE
    /\ target' = 0 /\ saver' = "none"

\* A record is received; a full batch is flushed at once.
TakeRecord ==
    /\ wpc = "select"
    /\ taken < read
    /\ taken' = taken + 1
    /\ IF taken + 1 - handed >= BatchSize
       THEN BeginBatch("size", taken + 1)
       ELSE UNCHANGED <<wpc, handed, batch>>
    /\ UNCHANGED <<durable, control, ckpt, cb, reader, bounds>>

\* Mutant of FlushPartial: a partial batch is not written.
FlushPartialDropped(m) ==
    /\ wpc' = "flush"
    /\ mode' = m
    /\ UNCHANGED <<durable, control, ckpt, cb, reader, position, acc, surv, queue, held, seen,
                   safe, target, saver, bounds>>

\* Ticker and shutdown: the partial batch, if there is one, is written, then the
\* pending checkpoint is flushed.  Shutdown flushes force the checkpoint.
FlushPartial(m) ==
    /\ IF taken > handed
       THEN /\ BeginBatch(m, taken)
            /\ uncheckpointedBatches' = IF m = "tick" THEN uncheckpointedBatches
                                        ELSE CheckpointEvery
       ELSE /\ wpc' = "flush"
            /\ mode' = m
            /\ UNCHANGED <<handed, acc, surv, queue, held, seen, safe, target, saver,
                           uncheckpointedBatches>>
    /\ UNCHANGED <<durable, control, checkpointBlocked, pending, everSaved, cb, reader,
                   taken, bounds>>

Tick ==
    /\ wpc = "select"
    /\ taken > handed \/ pending # 0
    /\ FlushPartial("tick")

ChannelClosed ==
    /\ wpc = "select"
    /\ rpc = "exited"
    /\ taken = read
    /\ FlushPartial("eof")

WriteCancelled ==
    /\ wpc = "select"
    /\ ctxDone
    /\ FlushPartial("cancel")

\* After the flush at EOF the transforms are asked for what they still hold and
\* the result goes through writeBatch, and so through the transforms, again.  An
\* error of one Flush loses what the others gave.
FlushChain ==
    /\ wpc = "flushChain"
    /\ \/ /\ held # {}
          /\ wpc' = "reject"
          /\ mode' = "chain"
          /\ acc' = held
          /\ held' = {}
          /\ target' \in held
          /\ uncheckpointedBatches' = CheckpointEvery
          /\ UNCHANGED <<surv, queue, seen, safe, saver>>
       \/ /\ wpc' = "exited"
          /\ held' \in SUBSET held
          /\ held = {} \/ BatchChain
          /\ UNCHANGED <<mode, acc, surv, queue, seen, safe, target, saver,
                         uncheckpointedBatches>>
    /\ UNCHANGED <<durable, control, checkpointBlocked, pending, everSaved, cb, reader,
                   position, bounds>>

\* A panic of plugin code is recovered in the write goroutine, which is then over;
\* the run context stays alive.
WriteLoopPanic ==
    /\ wpc \in PluginPoints
    /\ panics < MaxPanics
    /\ panics' = panics + 1
    /\ status' = "failed"
    /\ wpc' = "panicked"
    /\ EmptyBatch
    /\ UNCHANGED <<durable, phase, ctxDone, runtimeNeedsRebuild, ckpt, cb, reader, position,
                   held, dropped, runs, crashes>>

-----------------------------------------------------------------------------
(* writeBatch.                                                              *)

\* Mutant of HandleFailedRecord: a failed DLQ write only marks the batch unsafe.
HandleFailedRecordUnblocked ==
    \E p \in queue :
        /\ \A q \in queue : p <= q
        /\ queue' = queue \ {p}
        /\ \/ dlq' = dlq \cup {p} /\ UNCHANGED safe
           \/ safe' = FALSE /\ UNCHANGED dlq
        /\ UNCHANGED <<cp, sink, control, ckpt, cb, reader, wpc, position, mode, acc, surv,
                       held, seen, target, saver, bounds>>

\* handleFailedRecord, one failed record at a time and in batch order: the record
\* reaches the DLQ, or the checkpoint is blocked for the rest of the run.
HandleFailedRecord ==
    \E p \in queue :
        /\ \A q \in queue : p <= q
        /\ queue' = queue \ {p}
        /\ \/ /\ HasDLQ
              /\ dlq' = dlq \cup {p}
              /\ UNCHANGED <<checkpointBlocked, safe, cb>>
           \/ /\ checkpointBlocked' = TRUE
              /\ safe' = FALSE
              /\ IF HasDLQ THEN RecordFailure ELSE UNCHANGED cb
              /\ UNCHANGED dlq
        /\ UNCHANGED <<cp, sink, control, uncheckpointedBatches, pending, everSaved,
                       reader, wpc, position, mode, acc, surv, held, seen, target, saver,
                       bounds>>

\* Record transforms: every accepted record is filtered, fails or survives.  The
\* result also overwrites checkpointBoundarySafe.
RecordTransforms ==
    \E failed \in SUBSET (acc \ Filtered) :
        /\ queue' = failed
        /\ surv' = (acc \ Filtered) \ failed
        /\ safe' = TRUE
        /\ seen' = seen \cup (IF failed = {} THEN {} ELSE {"transform"})
                        \cup (IF acc \subseteq Filtered /\ seen = {}
                              THEN {"allFiltered"} ELSE {})
        /\ wpc' = "identity"
        /\ UNCHANGED held

\* Batch transforms: they may keep records and give them back later, and the chain
\* fails as a whole (what earlier transforms kept or emitted stays so) or for some
\* of the records.
BatchTransforms ==
    \/ /\ queue' = acc
       /\ surv' = {}
       /\ wpc' = "refused"
       /\ held' \in SUBSET (held \cup (acc \ Filtered))
       /\ UNCHANGED <<safe, seen>>
    \/ \E failed \in SUBSET (held \cup (acc \ Filtered)) :
          LET available == (held \cup (acc \ Filtered)) \ failed
          IN  \E out \in SUBSET available :
                /\ queue' = failed
                /\ surv' = out
                /\ held' = available \ out
                /\ seen' = seen \cup (IF failed = {} THEN {} ELSE {"transform"})
                                \cup (IF out = {} THEN {"zeroOutput"} ELSE {})
                /\ wpc' = "identity"
                /\ UNCHANGED safe

Transform ==
    /\ wpc = "reject"
    /\ queue = {}
    /\ acc' = {}
    /\ CASE acc = {} -> /\ surv' = {} /\ wpc' = "gate"
                        /\ UNCHANGED <<queue, held, seen, safe>>
         [] acc # {} /\ BatchChain -> BatchTransforms
         [] OTHER -> RecordTransforms
    /\ UNCHANGED <<durable, control, ckpt, cb, reader, position, mode, target, saver, bounds>>

\* Survivors without a complete identity are routed to the DLQ.
CheckIdentity ==
    /\ wpc = "identity"
    /\ queue = {}
    /\ \E bad \in SUBSET surv :
          /\ bad # {} => IdentityRequired
          /\ queue' = bad
          /\ surv' = surv \ bad
          /\ seen' = IF bad = {} THEN seen ELSE seen \cup {"identity"}
    /\ wpc' = "gate"
    /\ UNCHANGED <<durable, control, ckpt, cb, reader, position, mode, acc, held, safe,
                   target, saver, bounds>>

\* A batch without survivors may be checkpointed on its own.
ZeroSurvivorsCheckpointed ==
    \/ /\ seen \cap {"source", "identity"} # {}
       /\ "transform" \notin seen
       /\ "zeroOutput" \notin seen
       /\ safe
    \/ /\ ~BatchChain
       /\ "allFiltered" \in seen
       /\ "transform" \notin seen

ZeroSurvivors ==
    /\ wpc = "gate"
    /\ queue = {}
    /\ surv = {}
    /\ IF ZeroSurvivorsCheckpointed
       THEN /\ wpc' = "save"
            /\ saver' = "direct"
            /\ UNCHANGED <<mode, acc, surv, queue, seen, safe, target>>
       ELSE EndBatch
    /\ UNCHANGED <<durable, control, ckpt, cb, reader, position, held, bounds>>

\* CircuitBreaker.Allow before the sink write; a batch that is not allowed waits.
BreakerAllow ==
    /\ wpc = "gate"
    /\ queue = {}
    /\ surv # {}
    /\ \/ ~HasBreaker /\ wpc' = "write" /\ UNCHANGED breaker
       \/ HasBreaker /\ breaker # "open" /\ wpc' = "write" /\ UNCHANGED breaker
       \/ HasBreaker /\ breaker = "open" /\ wpc' = "write" /\ breaker' = "halfOpen"
       \/ HasBreaker /\ breaker = "open" /\ wpc' = "cooldown" /\ UNCHANGED breaker
    /\ UNCHANGED <<durable, control, ckpt, failures, reader, position, batch, bounds>>

\* The whole commit, the wait included, has this long.
CommitBudget == IF mode \in {"eof", "cancel", "chain"} THEN FlushTimeoutSec ELSE CommitTimeoutSec

CooldownElapsed ==
    /\ wpc = "cooldown"
    /\ CooldownSec <= CommitBudget
    /\ wpc' = "write"
    /\ UNCHANGED <<durable, control, ckpt, cb, reader, position, batch, bounds>>

\* The commit context ends first: writeBatch returns.
CooldownTimedOut ==
    /\ wpc = "cooldown"
    /\ EndBatch
    /\ dropped' = dropped \cup surv
    /\ UNCHANGED <<durable, control, ckpt, cb, reader, position, held, runs, crashes, panics>>

WriteSucceeded ==
    /\ wpc = "write"
    /\ sink' = sink \cup surv
    /\ surv' = {}
    /\ RecordSuccess
    /\ wpc' = "commit"
    /\ UNCHANGED <<cp, dlq, control, ckpt, reader, position, mode, acc, queue, held, seen,
                   safe, target, saver, bounds>>

\* The batch write failed after its retries.  Part of it may have been stored; a
\* PartialBatchError names the records that were not, else every record is
\* written again on its own.
WriteFailed ==
    /\ wpc = "write"
    /\ RecordFailure
    /\ \/ \E refused \in (SUBSET surv) \ {{}} :
             /\ sink' = sink \cup (surv \ refused)
             /\ queue' = refused
             /\ surv' = {}
             /\ wpc' = "refused"
       \/ \E stored \in SUBSET surv :
             /\ sink' = sink \cup stored
             /\ wpc' = "isolate"
             /\ UNCHANGED <<queue, surv>>
    /\ UNCHANGED <<cp, dlq, control, ckpt, reader, position, mode, acc, held, seen, safe,
                   target, saver, bounds>>

WriteRecordsIndividually ==
    /\ wpc = "isolate"
    /\ \E good \in SUBSET surv :
          /\ sink' = sink \cup good
          /\ queue' = surv \ good
    /\ surv' = {}
    /\ wpc' = "refused"
    /\ UNCHANGED <<cp, dlq, control, ckpt, cb, reader, position, mode, acc, held, seen,
                   safe, target, saver, bounds>>

\* A batch with a failed write is over once its failures are routed; it never
\* becomes part of the pending checkpoint.
FailedBatchDone ==
    /\ wpc = "refused"
    /\ queue = {}
    /\ EndBatch
    /\ UNCHANGED <<durable, control, ckpt, cb, reader, position, held, bounds>>

\* After the sink accepted the batch: its boundary becomes pending and is saved
\* now if the interval has elapsed or enough batches have accumulated.
CommitBatch ==
    /\ wpc = "commit"
    /\ \/ /\ ~safe
          /\ RecordFailure
          /\ EndBatch
          /\ UNCHANGED <<pending, uncheckpointedBatches>>
       \/ /\ safe
          /\ pending' = target
          /\ uncheckpointedBatches' = IF uncheckpointedBatches < CheckpointEvery
                                      THEN uncheckpointedBatches + 1
                                      ELSE CheckpointEvery
          /\ \/ /\ wpc' = "save"
                /\ saver' = "commit"
                /\ UNCHANGED <<mode, acc, surv, queue, seen, safe, target>>
             \/ /\ everSaved
                /\ uncheckpointedBatches' < CheckpointEvery
                /\ EndBatch
          /\ UNCHANGED cb
    /\ UNCHANGED <<durable, control, checkpointBlocked, everSaved, reader, position, held,
                   bounds>>
-----------------------------------------------------------------------------
(* Checkpoints.                                                             *)

\* Where the write loop goes when a save returns, whatever its outcome.
EndSave ==
    LET return == IF saver = "flush" THEN AfterFlush ELSE AfterBatch
    IN  /\ wpc' = return
        /\ mode' = IF return = "select" THEN "none" ELSE mode
        /\ acc' = {} /\ surv' = {} /\ queue' = {} /\ seen' = {} /\ safe' = TRUE
        /\ target' = 0 /\ saver' = "none"

\* flushPendingCheckpoint: nothing is pending, the ticker's flush is throttled,
\* or the pending boundary is saved.
FlushPendingCheckpoint ==
    /\ wpc = "flush"
    /\ \/ /\ \/ pending = 0
             \/ /\ mode = "tick"
                /\ everSaved
                /\ uncheckpointedBatches < CheckpointEvery
          /\ wpc' = AfterFlush
          /\ mode' = IF AfterFlush = "select" THEN "none" ELSE mode
          /\ UNCHANGED <<target, saver>>
       \/ /\ pending # 0
          /\ wpc' = "save"
          /\ saver' = "flush"
          /\ target' = pending
          /\ UNCHANGED mode
    /\ UNCHANGED <<durable, control, ckpt, cb, reader, position, acc, surv, queue, held,
                   seen, safe, bounds>>

\* saveCommittedCheckpoint when an earlier failure blocked the checkpoint, or when
\* state versions, sink commit metadata or the envelope cannot be produced.
SaveRefused ==
    /\ wpc = "save"
    /\ RecordFailure
    /\ EndSave
    /\ UNCHANGED <<durable, control, ckpt, reader, position, held, bounds>>

\* The source cannot produce a position: the run is failed and cancelled.
SaveWithoutPosition ==
    /\ wpc = "save"
    /\ ~checkpointBlocked
    /\ checkpointBlocked' = TRUE
    /\ status' = "failed"
    /\ ctxDone' = TRUE
    /\ RecordFailure
    /\ EndSave
    /\ UNCHANGED <<durable, phase, runtimeNeedsRebuild, uncheckpointedBatches, pending, everSaved,
                   reader, position, held, bounds>>

\* The store refuses the write (unavailable, or fenced by a newer generation).
SaveFailed ==
    /\ wpc = "save"
    /\ ~checkpointBlocked
    /\ checkpointBlocked' = TRUE
    /\ RecordFailure
    /\ EndSave
    /\ UNCHANGED <<durable, control, uncheckpointedBatches, pending, everSaved, reader,
                   position, held, bounds>>

\* Bookkeeping of a successful save; a direct save of a zero-survivor batch does
\* not touch the pending boundary.
Saved ==
    /\ uncheckpointedBatches' = 0
    /\ everSaved' = TRUE
    /\ pending' = IF saver = "direct" THEN pending ELSE 0
    /\ EndSave

\* Mutant of SaveCommittedCheckpoint: checkpointBlocked is not consulted.
SaveUnguarded ==
    /\ wpc = "save"
    /\ cp' = target
    /\ Saved
    /\ UNCHANGED <<sink, dlq, control, checkpointBlocked, cb, reader, position, held, bounds>>

SaveCommittedCheckpoint ==
    /\ wpc = "save"
    /\ ~checkpointBlocked
    /\ cp' = target
    /\ IF HasAcker
       THEN wpc' = "ack" /\ UNCHANGED <<uncheckpointedBatches, everSaved, pending, mode, acc,
                                        surv, queue, seen, safe, target, saver>>
       ELSE Saved
    /\ UNCHANGED <<sink, dlq, control, checkpointBlocked, cb, reader, position, held, bounds>>

\* acknowledgeExternalCheckpoint, after the save.
AckCheckpoint ==
    /\ wpc = "ack"
    /\ \/ /\ Saved
          /\ UNCHANGED <<control, checkpointBlocked, cb>>
       \/ /\ checkpointBlocked' = TRUE
          /\ status' = "failed"
          /\ ctxDone' = TRUE
          /\ RecordFailure
          /\ EndSave
          /\ UNCHANGED <<phase, runtimeNeedsRebuild, uncheckpointedBatches, everSaved, pending>>
    /\ UNCHANGED <<durable, reader, position, held, bounds>>

-----------------------------------------------------------------------------
Callers == StartReserve \/ StartRebuildFailed \/ Stop \/ Pause \/ Crash

Opening == StartOpenFailed \/ StartOpened

ReadLoop == ReadRecord \/ ReadEOF \/ MarkSourceExhausted \/ ReadCancelled \/ ReadLoopPanic

WriteBatch ==
    \/ HandleFailedRecord \/ Transform \/ CheckIdentity \/ ZeroSurvivors
    \/ BreakerAllow \/ CooldownElapsed \/ CooldownTimedOut
    \/ WriteSucceeded \/ WriteFailed \/ WriteRecordsIndividually \/ FailedBatchDone
    \/ CommitBatch

Checkpointing ==
    \/ FlushPendingCheckpoint \/ SaveRefused \/ SaveWithoutPosition \/ SaveFailed
    \/ SaveCommittedCheckpoint \/ AckCheckpoint

WriteLoop ==
    \/ TakeRecord \/ Tick \/ ChannelClosed \/ WriteCancelled \/ FlushChain \/ WriteLoopPanic
    \/ WriteBatch \/ Checkpointing

Next == Callers \/ Opening \/ ReadLoop \/ WriteLoop \/ RunLoopEnd

Spec == Init /\ [][Next]_vars

\* The goroutines of a run are scheduled: an opening returns, a read and a send
\* observe the cancelled context, a batch commit takes its next step, runLoop
\* returns.  Go's select picks a ready case at random, so a case that is ready again
\* and again (a record, the cancelled context, the closed channel) is picked in the end.
Scheduling ==
    /\ WF_vars(Opening)
    /\ WF_vars(ReadCancelled)
    /\ WF_vars(MarkSourceExhausted)
    /\ WF_vars(FlushChain \/ WriteBatch \/ Checkpointing)
    /\ SF_vars(TakeRecord)
    /\ SF_vars(WriteCancelled)
    /\ SF_vars(ChannelClosed)
    /\ WF_vars(RunLoopEnd)

FairSpec == Spec /\ Scheduling

\* In addition the ticker fires, and neither the checkpoint interval nor the store's
\* good days are postponed for ever.  The source may fall silent.
LiveSpec ==
    /\ FairSpec
    /\ SF_vars(Tick)
    /\ SF_vars(FlushPendingCheckpoint /\ wpc' = "save")
    /\ SF_vars(SaveCommittedCheckpoint)

-----------------------------------------------------------------------------
(* Properties.                                                              *)

\* No silent loss: every record at or before the durable checkpoint is in the
\* sink, in the dead-letter queue or was filtered out on purpose, whatever fails,
\* panics or crashes on the way (writeBatch, handleFailedRecord, blockCheckpoint).
NoSilentLoss == \A p \in 1..cp : p \in Settled

\* The one way around it: a record at or before the checkpoint that is not settled
\* was in a batch that waited for an open breaker when its commit context ended, and
\* was not read again since (the wait for the cooldown in writeBatch).
OnlyBreakerLoses == \A p \in 1..cp : p \in Settled \cup dropped

\* A graceful end of the write loop, at EOF or on cancellation, loses nothing else it
\* had received: unless the checkpoint is blocked, so that the range replays, all of
\* it is settled (forceFlushAndCheckpoint and the ctx.Done branch of writeLoop).
ShutdownDelivers ==
    wpc = "exited" /\ ~checkpointBlocked => \A p \in 1..taken : p \in Settled \cup dropped

\* The handles of one execution are never used by the next: as long as a new Start
\* would be accepted, no loop of the previous run is alive (runActive, Done).
QuiescentWhenIdle == ~runActive => rpc = "off" /\ wpc = "off"

\* Once a record reached neither sink nor DLQ, no later batch of the run moves the
\* durable checkpoint (checkpointBlocked, cleared only by Start or a new process).
BlockedUntilRestart == [][checkpointBlocked => cp' = cp]_vars

\* A stopped or paused run releases its slot: the loops notice the cancellation
\* wherever they are, also with an open breaker or a failing store (Stop, Pause).
StopQuiesces == (status \in {"stopped", "paused"} /\ runActive) ~> ~runActive

\* Once its source is exhausted a run comes to its end by itself, also with an open
\* breaker, a failing store or a writer that panicked, so that whoever waits for Done
\* (scheduler, worker, observer) goes on (markSourceExhausted, runLoop).
ExhaustedRunEnds == rpc = "exhausted" ~> ~runActive

=============================================================================
