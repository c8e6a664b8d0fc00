------------------------------- MODULE MCLive -------------------------------
(***************************************************************************)
(* What must come to an end: the linear runner on a bounded source that may *)
(* be stopped, fail or panic (ending), the same on a source that falls      *)
(* silent (idle), and the goroutines of a lookup batch (enrich) and of a    *)
(* parallel transform batch (workers).  conf.kind says which one a          *)
(* behaviour runs; what the others use keeps its initial value.             *)
(***************************************************************************)
EXTENDS Integers

VARIABLES
    conf,
    cp, sink, dlq, status, phase, ctxDone, runtimeNeedsRebuild, checkpointBlocked,
    uncheckpointedBatches, pending, everSaved, breaker, failures, rpc, read, wpc, taken,
    handed, mode, acc, surv, queue, held, seen, safe, target, saver, dropped, runs, crashes,
    panics, log, mem, out, failed

Ending == INSTANCE Runner WITH
    N <- 2, Bounded <- TRUE, BatchRead <- FALSE, BatchSize <- 1, Buffer <- 1,
    CheckpointEvery <- 2, Rejected <- {}, Filtered <- {2}, BatchChain <- TRUE,
    IdentityRequired <- FALSE, HasDLQ <- TRUE, HasAcker <- TRUE, HasBreaker <- TRUE,
    MaxFailures <- 1, CooldownSec <- 30, CommitTimeoutSec <- 30, FlushTimeoutSec <- 10,
    HasAlertChecker <- FALSE, MaxRuns <- 1, MaxCrashes <- 0, MaxPanics <- 1

Idle == INSTANCE Runner WITH
    N <- 3, Bounded <- FALSE, BatchRead <- FALSE, BatchSize <- 1, Buffer <- 1,
    CheckpointEvery <- 3, Rejected <- {1}, Filtered <- {2}, BatchChain <- FALSE,
    IdentityRequired <- FALSE, HasDLQ <- TRUE, HasAcker <- FALSE, HasBreaker <- FALSE,
    MaxFailures <- 1, CooldownSec <- 30, CommitTimeoutSec <- 30, FlushTimeoutSec <- 10,
    HasAlertChecker <- FALSE, MaxRuns <- 1, MaxCrashes <- 0, MaxPanics <- 0

Batch == INSTANCE BatchGoroutines WITH
    Batch <- 3, Concurrency <- 2, MaxRetries <- 1, MaxFaults <- 2,
    Workers <- {"v", "w"}, Count <- 1, Burst <- 1, dlq <- failed

runner ==
    <<cp, sink, dlq, status, phase, ctxDone, runtimeNeedsRebuild, checkpointBlocked,
      uncheckpointedBatches, pending, everSaved, breaker, failures, rpc, read, wpc, taken,
      handed, mode, acc, surv, queue, held, seen, safe, target, saver, dropped, runs, crashes,
      panics>>
vars == <<conf, runner, log, mem, out, failed>>

IsEnding == conf.kind = "ending"
IsIdle   == conf.kind = "idle"
IsEnrich == conf.kind = "enrich"
IsPool   == conf.kind = "workers"

None == "none"

Init ==
    /\ Ending!Init
    /\ \/ /\ conf \in [kind : {"ending", "idle"}]
          /\ log = None /\ mem = None /\ out = None /\ failed = None
       \/ Batch!EnrichInit /\ log = None
       \/ Batch!PoolInit /\ failed = None

OfEnding(A) == IsEnding /\ A /\ UNCHANGED <<conf, log, mem, out, failed>>
OfIdle(A)   == IsIdle /\ A /\ UNCHANGED <<conf, log, mem, out, failed>>
OfEnrich(A) == IsEnrich /\ A /\ UNCHANGED <<runner, log>>
OfPool(A)   == IsPool /\ A /\ UNCHANGED <<runner, failed>>

Next ==
    \/ OfEnding(Ending!Next)
    \/ OfIdle(Idle!Next)
    \/ OfEnrich(Batch!EnrichNext)
    \/ OfPool(Batch!PoolNext)

\* Runner!Scheduling, and on the silent source what Runner!LiveSpec adds to it.  A
\* behaviour runs one of the two, so one condition speaks for both.
Scheduling ==
    /\ WF_vars(OfEnding(Ending!Opening) \/ OfIdle(Idle!Opening))
    /\ WF_vars(OfEnding(Ending!ReadCancelled) \/ OfIdle(Idle!ReadCancelled))
    /\ WF_vars(OfEnding(Ending!MarkSourceExhausted) \/ OfIdle(Idle!MarkSourceExhausted))
    /\ WF_vars(\/ OfEnding(Ending!FlushChain \/ Ending!WriteBatch \/ Ending!Checkpointing)
               \/ OfIdle(Idle!FlushChain \/ Idle!WriteBatch \/ Idle!Checkpointing))
    /\ SF_vars(OfEnding(Ending!TakeRecord) \/ OfIdle(Idle!TakeRecord))
    /\ SF_vars(OfEnding(Ending!WriteCancelled) \/ OfIdle(Idle!WriteCancelled))
    /\ SF_vars(OfEnding(Ending!ChannelClosed) \/ OfIdle(Idle!ChannelClosed))
    /\ WF_vars(OfEnding(Ending!RunLoopEnd) \/ OfIdle(Idle!RunLoopEnd))
    /\ SF_vars(OfIdle(Idle!Tick))
    /\ SF_vars(OfIdle(Idle!FlushPendingCheckpoint /\ wpc' = "save"))
    /\ SF_vars(OfIdle(Idle!SaveCommittedCheckpoint))

\* The fairness of the two machines with goroutines, as their modules have it.
Goroutines ==
    /\ WF_vars(OfEnrich(Batch!AcquireSlot))
    /\ WF_vars(OfEnrich(Batch!StartJob))
    /\ WF_vars(OfEnrich(Batch!GiveUp))
    /\ WF_vars(OfEnrich(Batch!EnrichReturn))
    /\ \A i \in 1..3 : WF_vars(OfEnrich(Batch!Job(i)))
    /\ \A w \in {"v", "w"} : WF_vars(OfPool(Batch!Worker(w)))
    /\ WF_vars(OfPool(Batch!Refill))
    /\ WF_vars(OfPool(Batch!PoolReturn))

Spec == Init /\ [][Next]_vars /\ Scheduling /\ Goroutines

-----------------------------------------------------------------------------
\* A stopped or paused run and one whose source is exhausted release their slot, on
\* both sources (Stop, Pause, markSourceExhausted, runLoop).  Concurrent batches
\* return: their goroutines give back every slot and token, after retries, failures
\* and the deadline too (ApplyBatch of the enricher, applyRecordTransformsParallel).
\* A throttled boundary is persisted while the stream is idle (flushPendingCheckpoint
\* on the write loop's ticker).
NothingWaitsForEver ==
    /\ Ending!StopQuiesces /\ Ending!ExhaustedRunEnds
    /\ <>(IsEnrich => Batch!EnrichReturned)
    /\ <>(IsPool => Batch!PoolReturned)
    /\ \A p \in 1..3 :
          (IsIdle /\ pending = p /\ wpc = "select")
              ~> (cp >= p \/ checkpointBlocked \/ ctxDone \/ wpc \in {"off", "panicked"})

\* Concurrency inside a batch does not show: a parallel batch returns what a serial
\* one would, limit and skip count exactly, a lookup batch comes back in order with
\* every record either enriched or failed, an enricher batch in order with every
\* record, the failed ones reported besides, and no more lookups run at a time than
\* the limits allow (applyRecordTransforms, limit, skip, the two ApplyBatch).
ConcurrencyDoesNotShow ==
    /\ IsEnrich => Batch!CallsAreBounded /\ Batch!SettledInOrder
    /\ IsPool => Batch!ParallelEqualsSerial /\ Batch!CountsAreExact
=============================================================================
