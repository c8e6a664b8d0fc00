--------------------------- MODULE TransformRunner ---------------------------
(***************************************************************************)
(* What a transform with state sees of the pipeline runner (internal/etl/  *)
(* pipeline/pipeline.go, writeLoop and writeBatch; core.TransformChain):    *)
(* batches of records go through the chain, what comes out goes to the      *)
(* sink, what failed goes to the dead letter queue, and a checkpoint may    *)
(* then be saved.  The transform keeps fields in memory and may keep a copy *)
(* in a state store; both change before the sink is written.  The process   *)
(* may crash in between, and the next one reads again from the saved        *)
(* position.  Every stateful transform module extends this one.             *)
(*                                                                          *)
(* A transform module defines what its chain may do with a batch: a set of  *)
(* results [mem, store, outs, filtered, failed, fatal, fault], where        *)
(* filtered and failed are places in the batch, fatal is an error that is   *)
(* not a PartialTransformError, and fault counts the failures of the        *)
(* environment the result needs.                                            *)
(***************************************************************************)
EXTENDS Integers, Sequences, FiniteSets, SequencesExt

CONSTANTS
    MaxLog,       \* bound: records the source holds
    BatchSize,    \* batch_size
    MaxNow,       \* bound: the clock
    MaxFaults,    \* bound: failures of the state store, the sink, a lookup
    MaxCrashes    \* bound: process crashes and restarts

VARIABLES
    conf,         \* the transform's configuration, fixed at the start
    log,          \* the records of the source, in order
    now,          \* the wall clock
    pos,          \* records the chain has taken
    call,         \* the batch in the writer's hands: [mode, outs]
    due,          \* boundary written but not saved yet (0: none)
    mem,          \* the transform's fields
    store,        \* what its state store holds
    out,          \* the records the sink has accepted, in order
    dlq,          \* records in the dead letter queue
    saved,        \* position of the last saved checkpoint
    faults,
    crashes       \* one entry per crash: what the module's properties must know of it

runner == <<conf, log, now, pos, call, due, mem, store, out, dlq, saved, faults, crashes>>

Idle == [mode |-> "idle", outs |-> << >>]

Phase(m) == [Idle EXCEPT !.mode = m]

RunnerInit ==
    /\ log = << >>
    /\ now = 0
    /\ pos = 0
    /\ call = Phase("source")
    /\ due = 0
    /\ out = << >>
    /\ dlq = {}
    /\ saved = 0
    /\ faults = 0
    /\ crashes = << >>

\* The source's records, before the pipeline reads them.
Produce(Records) ==
    /\ call.mode = "source"
    /\ Len(log) < MaxLog
    /\ \E r \in Records : log' = Append(log, r)
    /\ UNCHANGED <<conf, now, pos, call, due, mem, store, out, dlq, saved, faults, crashes>>

\* Start builds the transforms; the source is read from its beginning.
Start ==
    /\ call.mode = "source"
    /\ log # << >>
    /\ call' = Idle
    /\ UNCHANGED <<conf, log, now, pos, due, mem, store, out, dlq, saved, faults, crashes>>

\* Time passes; the state store keeps what has not expired.  (Between batches:
\* what happens at the sink does not depend on the clock.)
Tick(unexpired) ==
    /\ now < MaxNow
    /\ call.mode = "idle"
    /\ now' = now + 1
    /\ store' = unexpired
    /\ UNCHANGED <<conf, log, pos, call, due, mem, out, dlq, saved, faults, crashes>>

\* ------------------------------ the chain ---------------------------------

\* What happens to one record: [mem, store, outs, filtered, failed, fault].
Pass(m, s, rec)  == [mem |-> m, store |-> s, verdict |-> "pass", rec |-> rec, fault |-> 0]
Filter(m, s)     == [mem |-> m, store |-> s, verdict |-> "filtered", rec |-> << >>, fault |-> 0]
Fail(m, s, f)    == [mem |-> m, store |-> s, verdict |-> "failed", rec |-> << >>, fault |-> f]

Result(m, s) == [mem |-> m, store |-> s, outs |-> << >>, filtered |-> {}, failed |-> {},
                 fatal |-> FALSE, fault |-> 0]

\* A record's turn in the loop of applyRecordTransformsSerial: what becomes of the
\* batch's result when record i has gone through the chain as "one" says.
recordTransformed(res, i, one) ==
    [mem |-> one.mem, store |-> one.store,
     outs |-> IF one.verdict = "pass" THEN Append(res.outs, one.rec) ELSE res.outs,
     filtered |-> IF one.verdict = "filtered" THEN res.filtered \cup {i} ELSE res.filtered,
     failed |-> IF one.verdict = "failed" THEN res.failed \cup {i} ELSE res.failed,
     fatal |-> FALSE,
     fault |-> res.fault + one.fault]

\* applyRecordTransformsSerial, and the record loop of TransformChain.ApplyBatch:
\* each record on its own, in order.
applyRecordTransformsSerial(items, m, s, Apply(_, _, _)) ==
    LET Step(results, i) ==
            UNION {{recordTransformed(res, i, one) : one \in Apply(items[i], res.mem, res.store)} :
                        res \in results}
    IN  FoldLeft(Step, {Result(m, s)}, [i \in DOMAIN items |-> i])

\* ---------------------------- the writer's steps --------------------------

\* writeBatch up to the sink: the next n records have gone through the chain
\* with result res.  A batch of which nothing is left is covered by a checkpoint
\* only when each record was filtered one by one; batch is hasBatchTransform.
writeBatch(n, batch, res) ==
    /\ faults + res.fault <= MaxFaults
    /\ faults' = faults + res.fault
    /\ mem' = res.mem
    /\ store' = res.store
    /\ pos' = pos + n
    /\ dlq' = dlq \cup (IF res.fatal THEN pos + 1..pos + n ELSE {pos + i : i \in res.failed})
    /\ call' = IF res.fatal THEN Idle
               ELSE [mode |-> IF res.outs = << >> THEN "idle" ELSE "sink", outs |-> res.outs]
    /\ saved' = IF ~res.fatal /\ ~batch /\ Cardinality(res.filtered) = n THEN pos + n ELSE saved
    /\ UNCHANGED <<conf, log, now, due, out, crashes>>

\* The write loop hands over a batch of records that are there (Ready), and
\* Chain is what the transform chain may do with them.
transformBatch(batch, Ready(_), Chain(_, _, _)) ==
    /\ call.mode = "idle"
    /\ \E n \in 1..BatchSize :
        /\ pos + n <= Len(log)
        /\ \A i \in pos + 1..pos + n : Ready(log[i])
        /\ \E res \in Chain([i \in 1..n |-> pos + i], mem, store) : writeBatch(n, batch, res)

\* writeBatch at the sink: the records are accepted and the checkpoint is due;
\* or the write fails, the records are tried one by one, and the ones that
\* fail again go to the dead letter queue.  A record of the sink stands for the
\* source's records that the sequence "sources" has in its place.
writeSink(sources) ==
    /\ call.mode = "sink"
    /\ \/ /\ out' = out \o call.outs
          /\ due' = pos
          /\ UNCHANGED <<dlq, faults>>
       \/ /\ faults < MaxFaults
          /\ faults' = faults + 1
          /\ \E bad \in SUBSET DOMAIN call.outs :
                /\ out' = out \o [k \in 1..Len(call.outs) - Cardinality(bad) |->
                                    call.outs[SetToSortSeq(DOMAIN call.outs \ bad, <)[k]]]
                /\ dlq' = dlq \cup UNION {sources[i] : i \in bad}
          /\ UNCHANGED due
    /\ call' = Idle
    /\ UNCHANGED <<conf, log, now, pos, mem, store, saved, crashes>>

\* flushPendingCheckpoint, from the write loop's timer or at the end of a batch.
flushPendingCheckpoint ==
    /\ call.mode = "idle"
    /\ due # 0
    /\ saved' = due
    /\ due' = 0
    /\ UNCHANGED <<conf, log, now, pos, call, mem, store, out, dlq, faults, crashes>>

\* The process dies and another one starts: what was in memory, or on its way
\* to the sink, is gone, the transforms are built anew, and the source is read
\* from the saved position.  A Stop between two batches leaves the same behind
\* when nothing is due: the writer goes through ctx.Done and closes the
\* transforms without a Flush.  note is history: what the crash cut short.
Crash(NewMem, note) ==
    /\ call.mode \in {"idle", "sink"}
    /\ Len(crashes) < MaxCrashes
    /\ crashes' = Append(crashes, note)
    /\ call' = Idle
    /\ due' = 0
    /\ mem' = NewMem
    /\ pos' = saved
    /\ UNCHANGED <<conf, log, now, store, out, dlq, saved, faults>>

\* The records the sink does not hold yet although the chain has passed them.
InFlight == IF call.mode = "sink" THEN call.outs ELSE << >>

RunnerTypeOK ==
    /\ Len(log) <= MaxLog
    /\ now \in 0..MaxNow
    /\ pos \in 0..Len(log)
    /\ {saved, due} \subseteq 0..Len(log)
    /\ call.mode \in {"source", "idle", "sink"}
    /\ dlq \subseteq 1..Len(log)
    /\ faults \in 0..MaxFaults
    /\ Len(crashes) <= MaxCrashes
=============================================================================
