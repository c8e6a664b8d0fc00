------------------------------ MODULE SinkWriter ------------------------------
(***************************************************************************)
(* What a sink sees of the pipeline runner (internal/etl/pipeline/          *)
(* pipeline.go, flushBatch and below): a batch of change events is written, *)
(* a retryable error repeats the whole batch, an error that names the       *)
(* failed records sends those to the dead letter queue, any other error     *)
(* makes the runner write the records one by one.  Checkpoints are saved    *)
(* after successful batches only.  The process may crash, and the next one  *)
(* starts at the saved position.  Every sink module extends this one.       *)
(*                                                                          *)
(* A sink module defines what a call of Write may do: a set of outcomes     *)
(* [target, st, err, fault], where err is Ok, Failed(retryable) or          *)
(* Partly(indices, retryable), and fault counts the failures of the         *)
(* environment the outcome needs.                                           *)
(***************************************************************************)
EXTENDS Integers, Sequences, FiniteSets, SequencesExt

CONSTANTS
    Keys,         \* primary keys of the source table
    MaxLog,       \* bound: length of the change log
    BatchSize,    \* batch_size
    MaxFaults,    \* bound: failures of the target system
    MaxCrashes    \* bound: process crashes

VARIABLES
    conf,         \* the sink's configuration, fixed at the start
    log,          \* the change events of the source, in order
    pos,          \* events settled: written, or in the dead letter queue
    high,         \* the last event handed to the sink so far
    call,         \* the write in progress: [mode, n, at, failed]
    st,           \* the sink's fields
    target,       \* what the target system holds
    dlq,          \* positions of the events in the dead letter queue
    saved,        \* position of the last saved checkpoint
    faults, crashes

\* ------------------------------ change logs -------------------------------

Absent == [val |-> 0, wide |-> FALSE]

\* The source table after an event.  "wide" is a column that a DDL statement
\* of the source adds.
ApplyEvent(rows, e) ==
    CASE e.op \in {"insert", "update"} ->
            [rows EXCEPT ![e.from] = Absent, ![e.key] = [val |-> e.val, wide |-> e.wide]]
      [] e.op = "delete" -> [rows EXCEPT ![e.key] = Absent]
      [] e.op = "ddl"    -> rows

Content(events) == FoldLeft(ApplyEvent, [key \in Keys |-> Absent], events)

\* An event the source may append.
Legal(events, e) ==
    LET rows == Content(events)
        altered == \E i \in DOMAIN events : events[i].op = "ddl"
    IN  /\ e.wide = (altered /\ e.op \in {"insert", "update"})
        /\ CASE e.op = "insert" -> e.from = e.key /\ rows[e.key] = Absent
             [] e.op = "update" -> /\ rows[e.from] # Absent
                                   /\ e.from # e.key => rows[e.key] = Absent
             [] e.op = "delete" -> e.from = e.key /\ rows[e.key] # Absent
             [] e.op = "ddl"    -> ~altered /\ e.from = e.key /\ e.key = CHOOSE k \in Keys : TRUE

Events(ops, vals) == [op : ops, key : Keys, from : Keys, val : vals, wide : BOOLEAN]

\* ------------------------------- outcomes ---------------------------------

Ok == [ok |-> TRUE, retryable |-> FALSE, indices |-> {}]

Failed(retryable) == [ok |-> FALSE, retryable |-> retryable, indices |-> {}]

\* PartialBatchError: the failed records are named.
Partly(indices, retryable) == [ok |-> FALSE, retryable |-> retryable, indices |-> indices]

Outcome(newTarget, newSt, err, fault) ==
    [target |-> newTarget, st |-> newSt, err |-> err, fault |-> fault]

\* ------------------------------- the runner -------------------------------

Idle == [mode |-> "idle", n |-> 0, at |-> 0, failed |-> {}]

WriterInit ==
    /\ log = << >>
    /\ pos = 0
    /\ high = 0
    /\ call = [Idle EXCEPT !.mode = "source"]
    /\ dlq = {}
    /\ saved = 0
    /\ faults = 0
    /\ crashes = 0

\* The source's table changes to one of some values, before the pipeline starts
\* to read its log; keys may change where the sink follows that.  Bound: the
\* first event is one of the first key.  (The keys are alike but for the tables
\* of sql, which may hold a row before.)
ChangeTo(vals, ops, keyChanges) ==
    /\ call.mode = "source"
    /\ Len(log) < MaxLog
    /\ \E e \in Events(ops, vals) :
        /\ Legal(log, e)
        /\ e.from # e.key => keyChanges
        /\ log = << >> /\ conf.kind # "sql" => e.key = CHOOSE k \in Keys : TRUE
        /\ log' = Append(log, e)
    /\ UNCHANGED <<conf, pos, high, call, st, target, dlq, saved, faults, crashes>>

\* Every change writes a value of its own.
Change(ops, keyChanges) == ChangeTo({Len(log) + 1}, ops, keyChanges)

\* The pipeline starts: the sink is opened and reading begins at the saved
\* position.
Start(OpenSt) ==
    /\ call.mode \in {"source", "down"}
    /\ log # << >>
    /\ call' = Idle
    /\ st' = OpenSt
    /\ pos' = saved
    /\ UNCHANGED <<conf, log, high, target, dlq, saved, faults, crashes>>

\* The write loop has collected a batch.
collectBatch ==
    /\ call.mode = "idle"
    /\ \E n \in 1..BatchSize :
        /\ pos + n <= Len(log)
        /\ call' = [mode |-> "batch", n |-> n, at |-> 1, failed |-> {}]
        /\ high' = IF pos + n > high THEN pos + n ELSE high
    /\ UNCHANGED <<conf, log, pos, st, target, dlq, saved, faults, crashes>>

\* The records of the batch have been settled; only a batch without an error
\* is followed by a checkpoint, and the throttle may skip that one.
settle(clean) ==
    /\ pos' = pos + call.n
    /\ call' = Idle
    /\ saved' \in IF clean THEN {saved, pos + call.n} ELSE {saved}

Effect(o) ==
    /\ faults + o.fault <= MaxFaults
    /\ faults' = faults + o.fault
    /\ target' = o.target
    /\ st' = o.st
    /\ UNCHANGED <<conf, log, high, crashes>>

\* partialBatchFailures: the named records are failed, the others accepted.
partialBatchFailures(indices) == {pos + i : i \in indices}

\* A batch write with outcome o: success, another attempt, the dead letter
\* queue for the named records, or single writes.
writeBatch(o) ==
    /\ Effect(o)
    /\ \/ o.err.ok /\ settle(TRUE) /\ UNCHANGED dlq
       \/ o.err.retryable /\ UNCHANGED <<pos, call, dlq, saved>>
       \/ /\ ~o.err.ok /\ o.err.indices # {}
          /\ dlq' = dlq \cup partialBatchFailures(o.err.indices)
          /\ settle(FALSE)
       \/ /\ ~o.err.ok /\ o.err.indices = {}
          /\ call' = [call EXCEPT !.mode = "single"]
          /\ UNCHANGED <<pos, dlq, saved>>

\* writeRecordsIndividually, the write of the next record with outcome o; a
\* record that fails for good goes to the dead letter queue when all have been
\* tried.
writeRecordsIndividually(o) ==
    /\ Effect(o)
    /\ \/ o.err.retryable /\ UNCHANGED <<pos, call, dlq, saved>>
       \/ LET failed == IF o.err.ok THEN call.failed ELSE call.failed \cup {pos + call.at}
          IN  IF call.at = call.n
              THEN dlq' = dlq \cup failed /\ settle(FALSE)
              ELSE /\ call' = [call EXCEPT !.at = @ + 1, !.failed = failed]
                   /\ UNCHANGED <<pos, dlq, saved>>

\* The process dies, possibly with a write half done.
Crash ==
    /\ call.mode \notin {"source", "down"}
    /\ crashes < MaxCrashes
    /\ crashes' = crashes + 1
    /\ call' = [Idle EXCEPT !.mode = "down"]
    /\ UNCHANGED <<conf, log, pos, high, st, target, dlq, saved, faults>>

RunnerStep(Write(_), OpenSt) ==
    \/ Start(OpenSt)
    \/ collectBatch
    \/ /\ call.mode = "batch"
       /\ \E o \in Write(SubSeq(log, pos + 1, pos + call.n)) : writeBatch(o)
    \/ /\ call.mode = "single"
       /\ \E o \in Write(<<log[pos + call.at]>>) : writeRecordsIndividually(o)
    \/ Crash

\* -------------------------------- promises --------------------------------

\* Everything the pipeline ever wrote has been written by now, and the events
\* rewritten after a crash are behind it.
CaughtUp == call.mode = "idle" /\ pos = high

Touches(e, key) == e.op # "ddl" /\ key \in {e.key, e.from}

\* The last event of a key, and whether it got through.
Settled(key) ==
    LET touching == {i \in 1..pos : Touches(log[i], key)}
    IN  \E i \in touching : i \notin dlq /\ \A j \in touching : j <= i

\* The target shows the source's table, for every key of some whose last event
\* is not in the dead letter queue.
ShowsAt(keys, View(_)) ==
    CaughtUp => \A key \in keys : Settled(key) => View(key) = Content(SubSeq(log, 1, pos))[key]

Shows(View(_)) == ShowsAt(Keys, View)

=============================================================================
