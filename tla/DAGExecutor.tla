----------------------------- MODULE DAGExecutor -----------------------------
(***************************************************************************)
(* The DAG executor (internal/etl/orchestrator/executor.go): one goroutine  *)
(* per source reads records into a common channel, the router applies the   *)
(* nodes of the graph to each record and collects a batch per sink, a batch *)
(* is written and every source that contributed to it gets a checkpoint of  *)
(* its own.  With workers > 1 the records are routed by a pool and a result *)
(* is applied only when it is the next one of its source.                   *)
(*                                                                          *)
(* A record is <<s, n>>, the n-th record of source s.  What the graph does  *)
(* to it is a constant: the sinks it reaches and whether a transform on one *)
(* of its paths fails.                                                       *)
(***************************************************************************)
EXTENDS Integers, Sequences, FiniteSets, FiniteSetsExt, Functions

CONSTANTS
    Sources, Sinks,
    N,          \* records each source holds
    Unbounded,  \* sources that never report EOF
    Routes,     \* Routes[s][n]: the sinks record n of s reaches
    Broken,     \* records that fail in a transform on one of their paths
    Parallel,   \* TRUE: workers > 1
    BatchSize,
    Buffer,     \* backpressure_buffer, capacity of the records channel
    PoolSize,   \* records the worker pool and its two channels can hold
    MaxRuns,    \* bound: calls of Start
    MaxFaults,  \* bound: failures of plugins and stores
    MaxCrashes  \* bound: process crashes

VARIABLES
    \* durable state, outside the process
    cp,         \* checkpoint of each source: the position it covers
    target,     \* <<k, s, n>>: sink k's system holds the record
    dlq,        \* <<k, s, n>>, <<"route", s, n>> or <<"panic", s, n>>
    \* the DAGExecutor object and its wrapper
    status, runActive, wrapActive,
    phase,      \* "idle" | "open" | "run": what a reserved slot is doing
    ctxDone,    \* the context of the run is cancelled
    blocks,     \* checkpointBlocks
    breakerOpen,\* sinks whose circuit breaker is open
    \* the readers
    rpc, pos,   \* program point and records sent, per source
    chan,       \* the records channel
    \* the worker pool
    forwarding, \* the goroutine between records and jobs is alive
    pool,       \* records in jobs, workers and results, with their state
    unsafe,     \* routed records whose failure is in no DLQ
    pending, nextSeq,
    \* the router/writer
    wpc, batch,
    todo,       \* sinks the current round still has to write
    back,       \* where the round was started from
    wctx,       \* the context it uses: "main" | "flush" | "flushDone"
    job,        \* sources a written batch still has to checkpoint
    writing,    \* the sink being written
    dropped,    \* history: records writeToSink returned without writing
    runs, faults, crashes

durable == <<cp, target, dlq>>
control == <<status, runActive, wrapActive, phase, ctxDone>>
readers == <<rpc, pos>>
workers == <<forwarding, pool, unsafe, pending, nextSeq>>
round == <<todo, back, wctx, job, writing>>
vars == <<durable, control, blocks, breakerOpen, readers, chan, workers, wpc,
          batch, round, dropped, runs, faults, crashes>>

Pos == 1..N
Recs == Sources \X Pos
NoSink == "none"

ASSUME DagAssumption ==
    /\ N \in Nat /\ Buffer \in Nat
    /\ Parallel \in BOOLEAN
    /\ Routes \in [Sources -> [Pos -> SUBSET Sinks]]
    /\ NoSink \notin Sinks

Readers == {"off", "opening", "reading", "sending", "done"}

\* A record is safe once every sink on its way has it or its failure is in the
\* dead-letter queue.
Settled(s, n) ==
    \/ <<"panic", s, n>> \in dlq
    \/ /\ \A k \in Routes[s][n] : <<k, s, n>> \in target \cup dlq
       /\ <<s, n>> \in Broken => <<"route", s, n>> \in dlq

SourcesOf(q) == {r[1] : r \in Range(q)}
LastOf(q, s) == Max({r[2] : r \in {x \in Range(q) : x[1] = s}})

\* Type invariant.
DagTypeOK ==
    /\ cp \in [Sources -> 0..N]
    /\ target \subseteq Sinks \X Sources \X Pos
    /\ dlq \subseteq (Sinks \cup {"route", "panic"}) \X Sources \X Pos
    /\ status \in {"stopped", "running", "failed"}
    /\ runActive \in BOOLEAN /\ wrapActive \in BOOLEAN /\ ctxDone \in BOOLEAN
    /\ forwarding \in BOOLEAN
    /\ phase \in {"idle", "open", "run"}
    /\ blocks \subseteq Sources
    /\ breakerOpen \subseteq Sinks
    /\ rpc \in [Sources -> Readers]
    /\ pos \in [Sources -> 0..N]
    /\ Range(chan) \subseteq Recs /\ Len(chan) <= Buffer
    /\ pool \subseteq Recs \X {"queued", "routed", "panicked"}
    /\ pending \subseteq Recs \X {"routed", "panicked"}
    /\ unsafe \subseteq Recs
    /\ nextSeq \in [Sources -> 1..N + 1]
    /\ wpc \in {"off", "select", "drain", "round", "save", "returned", "panicked"}
    /\ \A k \in Sinks : Range(batch[k]) \subseteq Recs
    /\ todo \subseteq Sinks
    /\ back \in {"select", "drain", "returned"}
    /\ wctx \in {"main", "flush", "flushDone"}
    /\ job \subseteq Sources
    /\ writing \in Sinks \cup {NoSink}
    /\ dropped \subseteq Sinks \X Sources \X Pos

EmptyBatches == [k \in Sinks |-> <<>>]

\* NewDAGExecutor.
DagInit ==
    /\ cp = [s \in Sources |-> 0] /\ target = {} /\ dlq = {}
    /\ status = "stopped" /\ runActive = FALSE /\ wrapActive = FALSE
    /\ phase = "idle" /\ ctxDone = FALSE /\ blocks = {} /\ breakerOpen = {}
    /\ rpc = [s \in Sources |-> "off"] /\ pos = [s \in Sources |-> 0]
    /\ chan = <<>> /\ forwarding = FALSE /\ pool = {} /\ unsafe = {}
    /\ pending = {} /\ nextSeq = [s \in Sources |-> 1]
    /\ wpc = "off" /\ batch = EmptyBatches /\ todo = {} /\ back = "select"
    /\ wctx = "main" /\ job = {} /\ writing = NoSink
    /\ dropped = {} /\ runs = 0 /\ faults = 0 /\ crashes = 0

\* A plugin or a store fails.
Fault == faults < MaxFaults /\ faults' = faults + 1

\* The same call fails by itself when its context is over.
FaultUnder(over) == IF over THEN UNCHANGED faults ELSE Fault

-----------------------------------------------------------------------------
(* Start, Stop and the end of a run. *)

\* DAGRunnerWrapper.Start and DAGExecutor.Start up to the opening of the sinks; every
\* run but the first rebuilds the nodes.
Start ==
    /\ ~wrapActive /\ status # "running" /\ ~runActive
    /\ runs < MaxRuns
    /\ runs' = runs + 1
    /\ \/ /\ runs > 0 /\ Fault
          /\ status' = "failed"
          /\ UNCHANGED <<runActive, wrapActive, phase, ctxDone, blocks, breakerOpen>>
       \/ /\ status' = "running" /\ runActive' = TRUE /\ wrapActive' = TRUE
          /\ phase' = "open" /\ ctxDone' = FALSE /\ blocks' = {} /\ breakerOpen' = {}
          /\ UNCHANGED faults
    /\ UNCHANGED <<durable, readers, chan, workers, wpc, batch, round, dropped, crashes>>

\* sink.Open for every sink, then runDAG starts the goroutines.
OpenSinks ==
    /\ phase = "open"
    /\ \/ /\ phase' = "run"
          /\ rpc' = [s \in Sources |-> "opening"]
          /\ forwarding' = Parallel
          /\ wpc' = "select"
          /\ chan' = <<>> /\ pool' = {} /\ unsafe' = {} /\ pending' = {}
          /\ nextSeq' = [s \in Sources |-> cp[s] + 1]
          /\ batch' = EmptyBatches
          /\ UNCHANGED <<status, runActive, ctxDone, faults>>
       \/ /\ FaultUnder(ctxDone)
          /\ status' = "failed" /\ runActive' = FALSE /\ phase' = "idle" /\ ctxDone' = TRUE
          /\ UNCHANGED <<rpc, workers, wpc, chan, batch>>
    /\ UNCHANGED <<durable, wrapActive, blocks, breakerOpen, pos, round, dropped, runs, crashes>>

\* Stop and Pause.
Stop ==
    /\ status = "running"
    /\ status' = "stopped" /\ ctxDone' = TRUE
    /\ UNCHANGED <<durable, runActive, wrapActive, phase, blocks, breakerOpen, readers,
                   chan, workers, wpc, batch, round, dropped, runs, faults, crashes>>

\* Mutant of RunEnds: without the second wg.Wait.
RunEndsEarly ==
    /\ phase = "run"
    /\ wpc \in {"returned", "panicked"}
    /\ status' = IF status = "running" THEN "stopped" ELSE status
    /\ runActive' = FALSE /\ phase' = "idle" /\ ctxDone' = TRUE
    /\ wpc' = IF wpc = "panicked" THEN wpc ELSE "off"
    /\ UNCHANGED <<durable, wrapActive, blocks, breakerOpen, readers, chan, workers,
                   batch, round, dropped, runs, faults, crashes>>

\* The end of runDAG: the writer is done and so is every reader; closeRuntime.
RunEnds ==
    /\ phase = "run"
    /\ wpc \in {"returned", "panicked"}
    /\ \A s \in Sources : rpc[s] = "done"
    /\ status' = IF status = "running" THEN "stopped" ELSE status
    /\ runActive' = FALSE /\ phase' = "idle" /\ ctxDone' = TRUE
    /\ wpc' = IF wpc = "panicked" THEN wpc ELSE "off"
    /\ UNCHANGED <<durable, wrapActive, blocks, breakerOpen, readers, chan, workers,
                   batch, round, dropped, runs, faults, crashes>>

\* The wrapper's goroutine after exec.Wait, and its Start after a failed exec.Start.
WrapperReleased ==
    /\ wrapActive /\ ~runActive
    /\ wrapActive' = FALSE
    /\ UNCHANGED <<durable, status, runActive, phase, ctxDone, blocks, breakerOpen, readers,
                   chan, workers, wpc, batch, round, dropped, runs, faults, crashes>>

\* The process dies; what is durable stays.
Crash ==
    /\ crashes < MaxCrashes
    /\ crashes' = crashes + 1
    /\ status' = "stopped" /\ runActive' = FALSE /\ wrapActive' = FALSE
    /\ phase' = "idle" /\ ctxDone' = FALSE /\ blocks' = {} /\ breakerOpen' = {}
    /\ rpc' = [s \in Sources |-> "off"] /\ pos' = [s \in Sources |-> 0]
    /\ chan' = <<>> /\ forwarding' = FALSE /\ pool' = {} /\ unsafe' = {}
    /\ pending' = {} /\ nextSeq' = [s \in Sources |-> 1]
    /\ wpc' = "off" /\ batch' = EmptyBatches /\ todo' = {} /\ back' = "select"
    /\ wctx' = "main" /\ job' = {} /\ writing' = NoSink
    /\ UNCHANGED <<durable, dropped, runs, faults>>

-----------------------------------------------------------------------------
(* The readers. *)

ReaderFrame == <<durable, runActive, wrapActive, phase, blocks, breakerOpen, workers, wpc,
                 batch, round, dropped, runs, crashes>>

\* readSource up to the loop; failSourceStart fails the run.
OpenSource(s) ==
    /\ rpc[s] = "opening"
    /\ \/ /\ rpc' = [rpc EXCEPT ![s] = "reading"]
          /\ pos' = [pos EXCEPT ![s] = cp[s]]
          /\ UNCHANGED <<status, ctxDone, faults>>
       \/ /\ FaultUnder(ctxDone)
          /\ rpc' = [rpc EXCEPT ![s] = "done"]
          /\ status' = "failed" /\ ctxDone' = TRUE
          /\ UNCHANGED pos
    /\ UNCHANGED <<ReaderFrame, chan>>

\* A record is read (a read error only waits and reads again), or the source panics.
Read(s) ==
    /\ rpc[s] = "reading"
    /\ \/ /\ ~ctxDone /\ pos[s] < N
          /\ rpc' = [rpc EXCEPT ![s] = "sending"]
          /\ UNCHANGED faults
       \/ /\ Fault
          /\ rpc' = [rpc EXCEPT ![s] = "done"]
    /\ UNCHANGED <<ReaderFrame, status, ctxDone, pos, chan>>

\* Mutant of Send: the channel has no capacity.
SendUnbounded(s) ==
    /\ rpc[s] = "sending"
    /\ chan' = Append(chan, <<s, pos[s] + 1>>)
    /\ pos' = [pos EXCEPT ![s] = @ + 1]
    /\ rpc' = [rpc EXCEPT ![s] = "reading"]
    /\ UNCHANGED <<ReaderFrame, status, ctxDone, faults>>

\* The record goes into the channel, which is full at Buffer.
Send(s) ==
    /\ rpc[s] = "sending"
    /\ Len(chan) < Buffer
    /\ chan' = Append(chan, <<s, pos[s] + 1>>)
    /\ pos' = [pos EXCEPT ![s] = @ + 1]
    /\ rpc' = [rpc EXCEPT ![s] = "reading"]
    /\ UNCHANGED <<ReaderFrame, status, ctxDone, faults>>

\* Mutant of ReadEnds: a reader blocked on the full channel does not see the cancellation.
ReadEndsBlocked(s) ==
    /\ rpc[s] = "reading"
    /\ (pos[s] = N /\ s \notin Unbounded) \/ ctxDone
    /\ rpc' = [rpc EXCEPT ![s] = "done"]
    /\ UNCHANGED <<ReaderFrame, status, ctxDone, pos, chan, faults>>

\* EOF, or the cancelled context is seen.
ReadEnds(s) ==
    /\ \/ rpc[s] = "reading" /\ pos[s] = N /\ s \notin Unbounded
       \/ rpc[s] \in {"reading", "sending"} /\ ctxDone
    /\ rpc' = [rpc EXCEPT ![s] = "done"]
    /\ UNCHANGED <<ReaderFrame, status, ctxDone, pos, chan, faults>>

ChannelClosed == \A s \in Sources : rpc[s] = "done"

-----------------------------------------------------------------------------
(* Routing. *)

\* handleFailed for a record that fails in the graph; safe says whether it is durable.
HandleFailed(where, s, n, safe) ==
    \/ safe /\ dlq' = dlq \cup {<<where, s, n>>} /\ UNCHANGED faults
    \/ ~safe /\ FaultUnder(ctxDone) /\ UNCHANGED dlq

\* route: the traversal of the graph for one record.
Route(s, n, safe) ==
    IF <<s, n>> \in Broken
    THEN HandleFailed("route", s, n, safe)
    ELSE safe /\ UNCHANGED <<dlq, faults>>

\* A routed record joins the batches of its sinks; full batches are written, in the
\* parallel router only while the run is not cancelled.
Apply(s, n, sinks, safe) ==
    /\ blocks' = IF safe THEN blocks ELSE blocks \cup {s}
    /\ batch' = [k \in Sinks |-> IF k \in sinks THEN Append(batch[k], <<s, n>>) ELSE batch[k]]
    /\ todo' = IF Parallel /\ ctxDone THEN {} ELSE {k \in Sinks : Len(batch'[k]) >= BatchSize}
    /\ wctx' = "main"
    /\ wpc' = "round"

\* routeAndWrite, the case of a record.
TakeRecord ==
    /\ ~Parallel /\ wpc = "select"
    /\ chan # <<>>
    /\ LET s == Head(chan)[1]  n == Head(chan)[2] IN
       \E safe \in BOOLEAN : Route(s, n, safe) /\ Apply(s, n, Routes[s][n], safe)
    /\ chan' = Tail(chan)
    /\ back' = "select"
    /\ UNCHANGED <<cp, target, control, breakerOpen, readers, workers, job, writing, dropped,
                   runs, crashes>>

\* routeAndWriteParallel: the goroutine from records to jobs.
Forward ==
    /\ forwarding /\ chan # <<>>
    /\ Cardinality(pool) < PoolSize
    /\ pool' = pool \cup {<<Head(chan), "queued">>}
    /\ chan' = Tail(chan)
    /\ UNCHANGED <<durable, control, blocks, breakerOpen, readers, forwarding, unsafe, pending,
                   nextSeq, wpc, batch, round, dropped, runs, faults, crashes>>

ForwardEnds ==
    /\ forwarding
    /\ ctxDone \/ (ChannelClosed /\ chan = <<>>)
    /\ forwarding' = FALSE
    /\ UNCHANGED <<durable, control, blocks, breakerOpen, readers, chan, pool, unsafe, pending,
                   nextSeq, wpc, batch, round, dropped, runs, faults, crashes>>

\* routeRecordSafely: a worker routes a record; a panic fails the run and sends the
\* whole record to the DLQ.
RouteRecordSafely(s, n) ==
    /\ <<<<s, n>>, "queued">> \in pool
    /\ \E safe \in BOOLEAN :
          /\ \/ /\ Route(s, n, safe)
                /\ pool' = (pool \ {<<<<s, n>>, "queued">>}) \cup {<<<<s, n>>, "routed">>}
                /\ UNCHANGED status
             \/ /\ faults < MaxFaults
                /\ HandleFailed("panic", s, n, safe)
                /\ pool' = (pool \ {<<<<s, n>>, "queued">>}) \cup {<<<<s, n>>, "panicked">>}
                /\ status' = "failed"
          /\ unsafe' = IF safe THEN unsafe ELSE unsafe \cup {<<s, n>>}
    /\ UNCHANGED <<cp, target, runActive, wrapActive, phase, ctxDone, blocks, breakerOpen,
                   readers, chan, forwarding, pending, nextSeq, wpc, batch, round, dropped,
                   runs, crashes>>

\* The writer receives a result.
ReceiveResult ==
    /\ Parallel /\ wpc = "select"
    /\ \E x \in pool : x[2] # "queued" /\ pool' = pool \ {x} /\ pending' = pending \cup {x}
    /\ wpc' = "drain" /\ back' = "drain"
    /\ UNCHANGED <<durable, control, blocks, breakerOpen, readers, chan, forwarding, unsafe,
                   nextSeq, batch, todo, wctx, job, writing, dropped, runs, faults, crashes>>

\* Mutant of DrainSource: results are applied in the order they arrive.
DrainSourceAnyOrder(s) ==
    /\ wpc = "drain"
    /\ \E x \in pending :
          /\ x[1][1] = s
          /\ pending' = pending \ {x}
          /\ nextSeq' = [nextSeq EXCEPT ![s] = x[1][2] + 1]
          /\ Apply(s, x[1][2], IF x[2] = "routed" THEN Routes[s][x[1][2]] ELSE {},
                   x[1] \notin unsafe)
    /\ UNCHANGED <<durable, control, breakerOpen, readers, chan, forwarding, pool, unsafe, back,
                   job, writing, dropped, runs, faults, crashes>>

\* drainSource: the next result of a source, if it is there, is applied.
DrainSource(s) ==
    /\ wpc = "drain"
    /\ \E x \in pending :
          /\ x[1] = <<s, nextSeq[s]>>
          /\ pending' = pending \ {x}
          /\ nextSeq' = [nextSeq EXCEPT ![s] = @ + 1]
          /\ Apply(s, x[1][2], IF x[2] = "routed" THEN Routes[s][x[1][2]] ELSE {},
                   x[1] \notin unsafe)
    /\ UNCHANGED <<durable, control, breakerOpen, readers, chan, forwarding, pool, unsafe, back,
                   job, writing, dropped, runs, faults, crashes>>

Drained ==
    /\ wpc = "drain"
    /\ \A x \in pending : x[1][2] # nextSeq[x[1][1]]
    /\ wpc' = "select"
    /\ UNCHANGED <<durable, control, blocks, breakerOpen, readers, chan, workers, batch, round,
                   dropped, runs, faults, crashes>>

-----------------------------------------------------------------------------
(* Flushing and writing. *)

\* No more records will come: the channel, or the channel of results, is closed.
InputClosed ==
    IF Parallel
    THEN ~forwarding /\ pool = {}
    ELSE ChannelClosed /\ chan = <<>>

\* flushAll, on the ticker, at the end of the input and, when routing sequentially, on
\* cancellation.  It uses a context of its own.
FlushAll ==
    /\ wpc = "select"
    /\ back' \in IF InputClosed \/ (~Parallel /\ ctxDone) THEN {"select", "returned"} ELSE {"select"}
    /\ todo' = {k \in Sinks : batch[k] # <<>>}
    /\ back' = "select" => todo' # {}
    /\ wctx' = "flush"
    /\ wpc' = "round"
    /\ UNCHANGED <<durable, control, blocks, breakerOpen, readers, chan, workers, batch, job,
                   writing, dropped, runs, faults, crashes>>

RoundEnds ==
    /\ wpc = "round" /\ todo = {}
    /\ wpc' = back
    /\ UNCHANGED <<durable, control, blocks, breakerOpen, readers, chan, workers, batch, round,
                   dropped, runs, faults, crashes>>

\* The context of writeToSink is over; the 30 seconds of a flush can only be over when
\* an earlier sink of the round used them up.
ContextOver == IF wctx = "main" THEN ctxDone ELSE wctx = "flushDone"

\* The batch of sink k is finished with, whatever became of it.
Discard(k) ==
    /\ batch' = [batch EXCEPT ![k] = <<>>]
    /\ todo' = todo \ {k}
    /\ wctx' \in IF wctx # "main" THEN {wctx, "flushDone"} ELSE {wctx}

\* writeToSink behind an open breaker whose context is over: the batch is dropped.
WriteRefused(k) ==
    /\ wpc = "round" /\ k \in todo
    /\ k \in breakerOpen /\ ContextOver
    /\ dropped' = dropped \cup {<<k, r[1], r[2]>> : r \in Range(batch[k])}
    /\ Discard(k)
    /\ UNCHANGED <<durable, control, blocks, breakerOpen, readers, chan, workers, wpc, back,
                   job, writing, runs, faults, crashes>>

\* sink.Write succeeds, at once or after the breaker's short wait.
WriteSucceeds(k) ==
    /\ wpc = "round" /\ k \in todo
    /\ target' = target \cup {<<k, r[1], r[2]>> : r \in Range(batch[k])}
    /\ breakerOpen' = breakerOpen \ {k}
    /\ writing' = k /\ job' = SourcesOf(batch[k])
    /\ wpc' = "save"
    /\ UNCHANGED <<cp, dlq, control, blocks, readers, chan, workers, batch, todo, back, wctx,
                   dropped, runs, faults, crashes>>

\* breaker.RecordFailure: this failure may be the one that opens it.
RecordFailure(k) == breakerOpen' \in {breakerOpen, breakerOpen \cup {k}}

\* sink.Write fails after its retries: every record goes to the DLQ, and if one cannot,
\* the sources of the batch are blocked.
WriteFails(k) ==
    /\ wpc = "round" /\ k \in todo
    /\ FaultUnder(ContextOver)
    /\ RecordFailure(k)
    /\ LET recs == {<<k, r[1], r[2]>> : r \in Range(batch[k])} IN
       \E lost \in {{}} \cup {{r} : r \in recs} \cup {recs} :
          /\ dlq' = dlq \cup (recs \ lost)
          /\ blocks' = IF lost = {} THEN blocks ELSE blocks \cup SourcesOf(batch[k])
    /\ Discard(k)
    /\ UNCHANGED <<cp, target, control, readers, chan, workers, wpc, back, job, writing,
                   dropped, runs, crashes>>

\* sink.Write panics: the goroutine recovers and ends, nothing is cancelled.
WriterPanics(k) ==
    /\ wpc = "round" /\ k \in todo
    /\ Fault
    /\ status' = "failed"
    /\ wpc' = "panicked"
    /\ UNCHANGED <<durable, runActive, wrapActive, phase, ctxDone, blocks, breakerOpen, readers,
                   chan, workers, batch, round, dropped, runs, crashes>>

-----------------------------------------------------------------------------
(* Checkpoints of a written batch. *)

SaveFrame == <<target, dlq, runActive, wrapActive, phase, readers, chan, workers, back,
               dropped, runs, crashes>>

SaveReturns ==
    /\ Discard(writing)
    /\ job' = {} /\ writing' = NoSink
    /\ wpc' = "round"

\* Versions of transform state or the sink's commit metadata cannot be collected.
BoundaryFails ==
    /\ wpc = "save"
    /\ FaultUnder(ContextOver)
    /\ \E block \in BOOLEAN : blocks' = IF block THEN blocks \cup job ELSE blocks
    /\ RecordFailure(writing)
    /\ SaveReturns
    /\ UNCHANGED <<SaveFrame, cp, status, ctxDone>>

\* The checkpoint of a blocked source is skipped.
SaveBlocked(s) ==
    /\ wpc = "save" /\ s \in job
    /\ s \in blocks
    /\ RecordFailure(writing)
    /\ job' = job \ {s}
    /\ UNCHANGED <<SaveFrame, cp, status, ctxDone, blocks, wpc, batch, todo, wctx, writing, faults>>

\* No position, a refused or failed save, or a failed acknowledgement: the source is
\* blocked, the run fails and is cancelled.  The save itself may have happened.
SaveFails(s) ==
    /\ wpc = "save" /\ s \in job \ blocks
    /\ FaultUnder(ContextOver)
    /\ cp' \in {cp, [cp EXCEPT ![s] = LastOf(batch[writing], s)]}
    /\ blocks' = blocks \cup {s}
    /\ status' = "failed" /\ ctxDone' = TRUE
    /\ RecordFailure(writing)
    /\ SaveReturns
    /\ UNCHANGED SaveFrame

\* Mutant of Save: a blocked source is checkpointed too.
SaveAlways(s) ==
    /\ wpc = "save" /\ s \in job
    /\ cp' = [cp EXCEPT ![s] = LastOf(batch[writing], s)]
    /\ job' = job \ {s}
    /\ UNCHANGED <<SaveFrame, status, ctxDone, blocks, breakerOpen, wpc, batch, todo, wctx,
                   writing, faults>>

\* The checkpoint of source s is saved and acknowledged.
Save(s) ==
    /\ wpc = "save" /\ s \in job \ blocks
    /\ cp' = [cp EXCEPT ![s] = LastOf(batch[writing], s)]
    /\ job' = job \ {s}
    /\ UNCHANGED <<SaveFrame, status, ctxDone, blocks, breakerOpen, wpc, batch, todo, wctx,
                   writing, faults>>

SaveEnds ==
    /\ wpc = "save" /\ job = {}
    /\ SaveReturns
    /\ UNCHANGED <<SaveFrame, cp, status, ctxDone, blocks, breakerOpen, faults>>

-----------------------------------------------------------------------------

ReaderStep == \E s \in Sources : OpenSource(s) \/ Read(s) \/ Send(s) \/ ReadEnds(s)

PoolStep ==
    \/ Forward \/ ForwardEnds
    \/ \E s \in Sources, n \in Pos : RouteRecordSafely(s, n)

WriterStep ==
    \/ TakeRecord \/ ReceiveResult \/ Drained \/ FlushAll \/ RoundEnds
    \/ BoundaryFails \/ SaveEnds
    \/ \E s \in Sources : DrainSource(s) \/ SaveBlocked(s) \/ SaveFails(s) \/ Save(s)
    \/ \E k \in Sinks : WriteRefused(k) \/ WriteSucceeds(k) \/ WriteFails(k) \/ WriterPanics(k)

RunStep == OpenSinks \/ RunEnds \/ WrapperReleased

DagNext == Start \/ Stop \/ Crash \/ RunStep \/ ReaderStep \/ PoolStep \/ WriterStep

\* Goroutines run, and a select does not neglect a case that stays ready.
DagFairness ==
    /\ WF_vars(RunStep)
    /\ WF_vars(PoolStep)
    /\ WF_vars(WriterStep)
    /\ \A s \in Sources : WF_vars(OpenSource(s) \/ ReadEnds(s))

DagSpec == DagInit /\ [][DagNext]_vars /\ DagFairness

-----------------------------------------------------------------------------
(* Properties. *)

\* At-least-once for a graph with one sink: a record at or before a source's
\* checkpoint reached the sink or the DLQ, whatever order the pool routed the records
\* in, whatever failed, across crashes and restarts.  The only way out is writeToSink
\* returning behind an open breaker with its context over (executor.go:907).
CoveredIsSettled ==
    \A s \in Sources : \A n \in 1..cp[s] :
        Settled(s, n) \/ \E k \in Sinks : <<k, s, n>> \in dropped

\* Once a source is blocked (a record of it is in neither sink nor DLQ, or a save
\* failed) its checkpoint does not move until the next Start.
BlockedCheckpointStays ==
    [][\A s \in blocks \cap blocks' : cp'[s] = cp[s]]_vars

\* No goroutine of a run is left when the slot is free, so a new generation never
\* meets a reader or writer of the old one (executor.go:465).  Only the pool of a run
\* whose writer panicked outlives it.
NoGenerationOverlap ==
    ~runActive => /\ \A s \in Sources : rpc[s] \in {"off", "done"}
                  /\ wpc = "off" => ~forwarding /\ pool = {}
                  /\ wpc \in {"off", "panicked"}

=============================================================================
