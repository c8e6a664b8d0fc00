------------------------------ MODULE BulkSinks ------------------------------
(***************************************************************************)
(* The sinks that cut a batch into requests and report failed records by    *)
(* their index: elasticsearch and maxcompute (internal/etl/sink/            *)
(* elasticsearch.go, maxcompute.go); then the sinks that append to a stream *)
(* or write objects: kafka, redis and s3 (kafka.go, redis.go, s3.go).       *)
(*                                                                          *)
(* target = [docs, seen, unsent]: the documents by id, as the value of the  *)
(* event that wrote them (0: none), the events that ever took effect, and,  *)
(* as history, those a Write did not send because an earlier request of it  *)
(* had failed records.  An event's val is its place in the log.  The sinks  *)
(* have no state.                                                           *)
(***************************************************************************)
EXTENDS SinkWriter
\* id: documents are named by the id column, or after the offset of their
\* event; "partitioned" has several partitions, whose offsets overlap.
NewElasticsearchSink ==
    [kind : {"bulk"}, sink : {"elasticsearch"}, chunk : 1..BatchSize,
     id : {"column", "offset", "partitioned"}]

\* unplaced: the records of some keys lack the dynamic partition field.
NewMaxComputeSink ==
    [kind : {"bulk"}, sink : {"maxcompute"}, chunk : 1..BatchSize,
     write_mode : {"append", "partition_overwrite"}, unplaced : BOOLEAN]

IsES == conf.sink = "elasticsearch"

OpenBulk == << >>

Ids == Keys \cup 1..MaxLog

BulkInit ==
    /\ WriterInit
    /\ conf \in NewElasticsearchSink \cup NewMaxComputeSink
    /\ st = OpenBulk
    /\ target = [docs |-> [id \in Ids |-> 0], seen |-> {}, unsent |-> {}]

\* The requests of a batch: sequences of indices of its records within the
\* batch, which is how errors name them (withOffset, baseIndex).
Chunks(records) ==
    [c \in 1..((Len(records) + conf.chunk - 1) \div conf.chunk) |->
        [i \in 1..(IF c * conf.chunk <= Len(records) THEN conf.chunk ELSE Len(records) - (c - 1) * conf.chunk)
            |-> (c - 1) * conf.chunk + i]]

\* A request's failure: what took effect, the failed records, whether the
\* error is retryable.
Failure(tg, err) == [tg |-> tg, err |-> err]

\* ------------------------------ elasticsearch -----------------------------

\* deriveESDocID: an offset above zero hides the partition.
deriveESDocID(e) == IF conf.id = "partitioned" THEN (e.val + 1) \div 2 ELSE e.val

docID(e) == IF conf.id = "column" THEN e.key ELSE deriveESDocID(e)

Item(tg, e) ==
    [tg EXCEPT !.docs[docID(e)] = IF e.op = "delete" THEN 0 ELSE e.val, !.seen = @ \cup {e.val}]

\* One bulk request: the items without a failure are applied in order.
bulk(tg, records, chunk, failed) ==
    FoldLeft(LAMBDA t, i : IF i \in failed THEN t ELSE Item(t, records[i]), tg, chunk)

\* bulkWithRetry fails: with item errors, or without an answer.  The items are
\* idempotent, so its own attempts add no further outcomes.
bulkWithRetry(tg, records, chunk) ==
    {Failure(bulk(tg, records, chunk, failed), Partly(failed, retryable)) :
            failed \in SUBSET ToSet(chunk) \ {{}}, retryable \in BOOLEAN}
      \cup {Failure(tg, Failed(TRUE)), Failure(bulk(tg, records, chunk, {}), Failed(TRUE))}

\* ------------------------------- maxcompute -------------------------------

\* partitionSpec: a record without its partition field fails its chunk.
partitionSpec(e) == IF conf.unplaced /\ e.key = Min(Keys) THEN 0 ELSE e.key

Unplaced(records, chunk) == \E i \in ToSet(chunk) : partitionSpec(records[i]) = 0

Partitions(records, chunk) == {partitionSpec(records[i]) : i \in ToSet(chunk)}

InPartition(records, chunk, p) == {i \in ToSet(chunk) : partitionSpec(records[i]) = p}

\* client.Write for one partition: appended, or in place of what was there.
writePartition(tg, records, indices, p) ==
    LET kept == IF conf.write_mode = "append" THEN tg.seen
                ELSE {v \in tg.seen : partitionSpec(log[v]) # p}
    IN  [tg EXCEPT !.seen = kept \cup {records[i].val : i \in indices}]

writePartitions(tg, records, chunk, partitions) ==
    FoldLeft(LAMBDA t, p : writePartition(t, records, InPartition(records, chunk, p), p),
             tg, SetToSeq(partitions))

IndicesOf(records, chunk, partitions) == UNION {InPartition(records, chunk, p) : p \in partitions}

\* writeChunk fails: if some partitions were written, the error names the
\* records of the others and is not retryable; a failed partition may have
\* been written if only the answer to the commit was lost.
writeChunk(tg, records, chunk) ==
    IF Unplaced(records, chunk)
    THEN {Failure(tg, Failed(FALSE))}
    ELSE UNION {
            {Failure(writePartitions(tg, records, chunk, (Partitions(records, chunk) \ failed) \cup lost),
                     IF failed = Partitions(records, chunk) THEN Failed(retryable)
                     ELSE Partly(IndicesOf(records, chunk, failed), FALSE)) :
                lost \in SUBSET failed, retryable \in BOOLEAN} :
            failed \in SUBSET Partitions(records, chunk) \ {{}}}

\* ---------------------------------- Write ---------------------------------

Served(tg, records, chunk) ==
    IF IsES THEN bulk(tg, records, chunk, {})
    ELSE writePartitions(tg, records, chunk, Partitions(records, chunk))

Failures(tg, records, chunk) ==
    IF IsES THEN bulkWithRetry(tg, records, chunk) ELSE writeChunk(tg, records, chunk)

Refused(records, chunk) == ~IsES /\ Unplaced(records, chunk)

\* The records behind request c of a Write, if the error names failed records.
Unsent(f, records, c) ==
    IF f.err.indices = {} THEN f.tg
    ELSE [f.tg EXCEPT !.unsent = @ \cup {records[i].val : i \in {j \in DOMAIN records : j > c * conf.chunk}}]

\* The chunks one after the other; the first error ends the Write.
Write(records) ==
    LET chunks    == Chunks(records)
        before(c) == FoldLeft(LAMBDA t, chunk : Served(t, records, chunk), target, SubSeq(chunks, 1, c - 1))
        refused   == {c \in DOMAIN chunks : Refused(records, chunks[c])}
        reached   == {c \in DOMAIN chunks : \A d \in refused : c <= d}
    IN  UNION {{Outcome(Unsent(f, records, c), st, f.err, IF c \in refused THEN 0 ELSE 1) :
                    f \in Failures(before(c), records, chunks[c])} : c \in reached}
          \cup IF refused = {} THEN {Outcome(before(Len(chunks) + 1), st, Ok, 0)} ELSE {}

SourceOps == IF IsES /\ conf.id = "column" THEN {"insert", "update", "delete"} ELSE {"insert"}

BulkNext ==
    \/ Change(SourceOps, FALSE)
    \/ RunnerStep(Write, OpenBulk)

\* ------------------------------- properties -------------------------------

Accepted == CaughtUp => \A i \in 1..pos \ dlq : i \in target.seen

Overwrites == ~IsES /\ conf.write_mode = "partition_overwrite"

\* Whichever items or partitions fail, and whatever is retried or replayed:
\* every event is in the target or in the dead letter queue, except those of the
\* requests behind one that failed in part.  The error does not list these, and
\* what it does not list the runner takes for accepted.
OnlyUnsentAreLost ==
    (~Overwrites /\ CaughtUp) => \A i \in 1..pos \ dlq : i \in target.seen \cup target.unsent

\* The index shows the source's table: a document has the value of the last
\* event of its key that is not in the dead letter queue, unless that one was
\* not sent.
IndexShowsSource ==
    (IsES /\ conf.id = "column") =>
        ShowsAt({key \in Keys : \A i \in target.unsent : ~Touches(log[i], key)},
                LAMBDA key : IF target.docs[key] = 0 THEN Absent ELSE [val |-> target.docs[key], wide |-> FALSE])

\* Every event that was sent has a document of its own when its offset names it.
OneDocumentPerEvent ==
    (IsES /\ conf.id = "offset" /\ CaughtUp) =>
        \A i \in 1..pos \ (dlq \cup target.unsent) : target.docs[i] = i

\* The contract of PartialBatchError: records that the error does not list
\* have been accepted by the sink.
UnlistedRecordsAccepted == ~Overwrites => Accepted

-----------------------------------------------------------------------------
(* The kafka, redis and s3/file sinks (internal/etl/sink/kafka.go,          *)
(* redis.go, s3.go).  None has transactions or names failed records.        *)
(*                                                                          *)
(* target = [last, seen, day, objects]: per key the event that the target   *)
(* shows (redis) or that its topic ends with (kafka), the events that ever  *)
(* reached the target, the date, and the objects by date and content (s3).  *)
(* An event's val is its place in the log.  The sinks have no state.        *)

\* oversized: the headers of some records exceed max_header_bytes.
NewKafkaSink == [kind : {"stream"}, sink : {"kafka"}, oversized : BOOLEAN]

\* keyless: some records lack the key field.
NewRedisSink ==
    [kind : {"stream"}, sink : {"redis"}, data_type : {"hash", "list"}, chunk : {1, 3}, keyless : BOOLEAN]

NewS3Sink == [kind : {"stream"}, sink : {"s3"}, format : {"rows"}]

NewFileSink == [kind : {"stream"}, sink : {"file"}, format : {"rows"}]

OpenStream == << >>

StreamInit ==
    /\ WriterInit
    /\ conf \in NewKafkaSink \cup NewRedisSink \cup NewS3Sink \cup NewFileSink
    /\ st = OpenStream
    /\ target = [last |-> [key \in Keys |-> 0], seen |-> {}, day |-> 1, objects |-> {}]

Reach(tg, e) == [tg EXCEPT !.last[e.key] = e.val, !.seen = @ \cup {e.val}]

\* ---------------------------------- kafka ---------------------------------

Oversized(e) == conf.oversized /\ e.key = Min(Keys)

\* All messages are built before the first is sent; a record that cannot be
\* built fails the Write.  SendMessages may deliver some and fail.
KafkaWrite(records) ==
    IF \E i \in DOMAIN records : Oversized(records[i])
    THEN {Outcome(target, st, Failed(FALSE), 0)}
    ELSE {Outcome(FoldLeft(Reach, target, records), st, Ok, 0)}
           \cup {Outcome(FoldLeft(LAMBDA tg, i : IF i \in sent THEN Reach(tg, records[i]) ELSE tg,
                                  target, [i \in DOMAIN records |-> i]), st, Failed(retryable), 1) :
                    sent \in SUBSET DOMAIN records, retryable \in BOOLEAN}

\* ---------------------------------- redis ---------------------------------

\* makeKey: records without the key field are skipped.
makeKey(e) == IF conf.keyless /\ e.key = Min(Keys) THEN 0 ELSE e.key

\* A command of the pipeline.  A DEL removes the key, a list with all its
\* elements.
Command(tg, e) ==
    LET reached == Reach(tg, e)
    IN  IF e.op = "delete"
        THEN [reached EXCEPT !.last[e.key] = 0, !.seen = @ \ {v \in @ : log[v].key = e.key /\ v # e.val}]
        ELSE reached

Pipeline(tg, records) ==
    FoldLeft(LAMBDA t, e : IF makeKey(e) = 0 THEN t ELSE Command(t, e), tg, records)

\* One pipeline per chunk; the commands of a failed one have been executed or
\* not, and no later chunk is sent.
RedisWrite(records) ==
    LET InChunk(c) == {i \in DOMAIN records : (i - 1) \div conf.chunk = c}
        sent(c, some) == [i \in DOMAIN records |-> (i - 1) \div conf.chunk < c \/ i \in some]
        execute(which) == FoldLeft(LAMBDA tg, i : IF which[i] THEN Pipeline(tg, <<records[i]>>) ELSE tg,
                                   target, [i \in DOMAIN records |-> i])
    IN  {Outcome(Pipeline(target, records), st, Ok, 0)}
          \cup UNION {{Outcome(execute(sent(c, some)), st, Failed(retryable), 1) :
                          some \in SUBSET InChunk(c), retryable \in BOOLEAN} :
                      c \in 0..(Len(records) - 1) \div conf.chunk}

\* --------------------------------- s3, file -------------------------------

\* encode: the data of the records.
encode(records) == [i \in DOMAIN records |-> records[i].val]

\* DELETEs are dropped.  The object's name is the date and a hash of the
\* content, so the same batch gives the same object on the same day.
Store(records, day) ==
    LET writable == SelectSeq(records, LAMBDA e : e.op # "delete")
    IN  IF writable = << >> THEN [target EXCEPT !.day = day]
        ELSE [target EXCEPT !.day = day, !.objects = @ \cup {<<day, encode(writable)>>}]

Days == {d \in {target.day, target.day + 1} : d <= 2}

\* uploadWithRetry: the attempts of one upload store the same object.
uploadWithRetry(records, day) ==
    {Outcome(Store(records, day), st, Ok, 0), Outcome(Store(records, day), st, Failed(TRUE), 1)}
      \cup {Outcome([target EXCEPT !.day = day], st, Failed(retryable), 1) : retryable \in BOOLEAN}

\* A temporary file that is renamed when it is complete.
renameFile(records, day) ==
    {Outcome(Store(records, day), st, Ok, 0)}
      \cup {Outcome([target EXCEPT !.day = day], st, Failed(retryable), 1) : retryable \in BOOLEAN}

ObjectWrite(records) ==
    UNION {IF conf.sink = "s3" THEN uploadWithRetry(records, day) ELSE renameFile(records, day) :
           day \in Days}

\* ---------------------------------- Write ---------------------------------

StreamWrite(records) ==
    CASE conf.sink = "kafka" -> KafkaWrite(records)
      [] conf.sink = "redis" -> RedisWrite(records)
      [] conf.sink \in {"s3", "file"} -> ObjectWrite(records)

StreamNext ==
    \/ Change({"insert", "update", "delete"}, FALSE)
    \/ RunnerStep(StreamWrite, OpenStream)

\* ------------------------------- properties -------------------------------

LastOf(key) == {i \in 1..pos : log[i].key = key /\ \A j \in i + 1..pos : log[j].key # key}

\* The messages of a key may be repeated, and older ones may come again after
\* newer ones, but the last message of the key is of its last event, unless
\* that one is in the dead letter queue.
TopicEndsWithLatest ==
    (conf.sink = "kafka" /\ CaughtUp) => \A key \in Keys : \A i \in LastOf(key) \ dlq : target.last[key] = i

\* A hash or string of redis holds the last event of its key, and no key is
\* left for a deleted row; records without a key field do not count.
RedisShowsSource ==
    (conf.sink = "redis" /\ conf.data_type = "hash" /\ CaughtUp) =>
        \A key \in Keys : \A i \in LastOf(key) \ dlq :
            makeKey(log[i]) # 0 => target.last[key] = IF log[i].op = "delete" THEN 0 ELSE i

\* No write is lost by the sinks that only add: messages, and rows in objects.
AddedForGood ==
    (conf.sink \in {"kafka", "s3", "file"} /\ CaughtUp) =>
        \A i \in 1..pos \ dlq : log[i].op # "delete" =>
            i \in target.seen \/ \E o \in target.objects : Contains(o[2], i)
=============================================================================
