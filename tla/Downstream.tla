------------------------------ MODULE Downstream ------------------------------
(***************************************************************************)
(* What the pipeline runner does with the records of one source reader, as  *)
(* far as a source can tell (internal/etl/pipeline/pipeline.go): readLoop   *)
(* puts what it reads into a bounded channel, writeLoop takes batches from  *)
(* it, writes them and asks the reader for the checkpoint of the batch it   *)
(* has just written, while the reader goes on reading ahead.  The process   *)
(* may crash at any point; what survives is the checkpoint store and the    *)
(* target.  Runner.tla models the runner itself; every source module        *)
(* extends this one.                                                        *)
(*                                                                          *)
(* A record in the channel is a record [row |-> ..., ...] with the metadata *)
(* its source puts into it.                                                 *)
(***************************************************************************)
EXTENDS Integers, Sequences, FiniteSets, FiniteSetsExt

CONSTANTS
    Buffer,       \* backpressure_buffer
    BatchSize,    \* batch_size
    MaxCrashes    \* bound: process crashes

VARIABLES
    conf,         \* the source's configuration, fixed at the start
    up,           \* the reader is open
    upstream,     \* what the source's server holds, where that changes
    rd,           \* the reader's fields
    queue,        \* records read and not written yet, oldest first
    delivered,    \* rows the target has received
    saved,        \* the checkpoint store: << >> or << position >>
    crashes

RowsOf(records) == {records[i].row : i \in DOMAIN records}

\* A position of which the checkpoint store may hold none.
SavedOr(default) == IF saved = << >> THEN default ELSE saved[1]

PipeInit ==
    /\ up = FALSE
    /\ queue = << >>
    /\ delivered = {}
    /\ saved = << >>
    /\ crashes = 0

\* The reader hands records to the channel.  It blocks while the channel is
\* full, with the rest of the page it has just read in its hands: those
\* records count as queued.
emitReadRecord(records) ==
    /\ Len(queue) < Buffer
    /\ queue' = queue \o records

\* The batches the write loop may take: a full one, or what there is when its
\* timer fires.
Batches == {SubSeq(queue, 1, n) : n \in 1..Min({BatchSize, Len(queue)})}

\* One batch is written.  Its checkpoint is the one the reader computes now;
\* it is saved unless the checkpoint throttle lets the batch pass, or the
\* reader has no checkpoints at all.
writeBatch(batch, checkpoint, hasCheckpoints) ==
    \E saves \in {FALSE, hasCheckpoints} :
        /\ delivered' = delivered \cup RowsOf(batch)
        /\ queue' = SubSeq(queue, Len(batch) + 1, Len(queue))
        /\ saved' = IF saves THEN <<checkpoint>> ELSE saved

\* The process dies: the reader and what it had read ahead are gone.
ProcessCrash ==
    /\ up
    /\ crashes < MaxCrashes
    /\ crashes' = crashes + 1
    /\ up' = FALSE
    /\ queue' = << >>
    /\ UNCHANGED <<conf, upstream, delivered, saved>>

=============================================================================
