------------------------------ MODULE MCSources ------------------------------
(***************************************************************************)
(* The source connectors, one of which each behaviour runs: conf.kind says  *)
(* which.  They share the runner's side of the state (Downstream).          *)
(***************************************************************************)
EXTENDS Integers

VARIABLES conf, up, upstream, rd, queue, delivered, saved, crashes

Row == INSTANCE RowSources WITH
    Buffer <- 2, BatchSize <- 2, MaxCrashes <- 2, Rows <- 5, Limit <- 3, Bad <- {2}

Page == INSTANCE PageSources WITH
    Buffer <- 2, BatchSize <- 2, MaxCrashes <- 1, Items <- 5, PageSize <- 2, Junk <- {3, 4},
    MaxFailures <- 1, Keys <- {1, 2, 3}, MaxReads <- 6

Kafka == INSTANCE KafkaSource WITH
    Buffer <- 2, BatchSize <- 2, MaxCrashes <- 1, Partitions <- {0, 1}, LogEnd <- 2,
    Tombstones <- {<<0, 1>>}, Garbled <- {<<1, 1>>}, MaxRebalances <- 2

Snap == INSTANCE MySQLCDC WITH
    Buffer <- 1, BatchSize <- 2, MaxCrashes <- 1, Keys <- {<<1, 1>>, <<1, 2>>, <<2, 1>>},
    Initially <- {<<1, 2>>, <<2, 1>>}, Unkeyed <- {},
    Transactions <- {<<<<1, 1>>>>, <<<<1, 2>>, <<2, 1>>>>},
    Limit <- 1, Sizes <- {}, MaxCommits <- 2, MaxFailures <- 1

\* The same with a purge of the log, after one transaction.
SnapPurge == INSTANCE MySQLCDC WITH
    Buffer <- 1, BatchSize <- 2, MaxCrashes <- 1, Keys <- {<<1, 1>>, <<1, 2>>, <<2, 1>>},
    Initially <- {<<1, 2>>, <<2, 1>>}, Unkeyed <- {2},
    Transactions <- {<<<<1, 1>>>>, <<<<1, 2>>, <<2, 1>>>>},
    Limit <- 1, Sizes <- {}, MaxCommits <- 1, MaxFailures <- 1

CDC == INSTANCE MySQLCDC WITH
    Buffer <- 2, BatchSize <- 2, MaxCrashes <- 1, Keys <- {}, Initially <- {}, Unkeyed <- {},
    Transactions <- {}, Limit <- 1, Sizes <- {1, 2}, MaxCommits <- 2, MaxFailures <- 1

Postgres == INSTANCE PostgresCDC WITH
    Buffer <- 2, BatchSize <- 2, MaxCrashes <- 1, Clients <- {1, 2}, MaxLSN <- 4, MaxFailures <- 1

vars == <<conf, up, upstream, rd, queue, delivered, saved, crashes>>

\* The configurations of the log sources that are told apart: one unusual
\* thing at a time.
LogConfigs == conf.ddl => conf.policy = "none" /\ conf.start # "current"

KafkaConfigs == conf.on_parse_error = "skip" <=> conf.tombstone_policy = "delete"

PostgresConfigs ==
    \/ conf.truncates /\ ~conf.snapshot /\ ~conf.drop
    \/ ~conf.truncates /\ conf.on_truncate = "error" /\ ~(conf.snapshot /\ conf.drop)

Init ==
    \/ Row!RowInit
    \/ Page!PageInit
    \/ Page!RedisInit
    \/ Kafka!KafkaInit /\ KafkaConfigs
    \/ Snap!SnapshotInit /\ conf.policy = "none" /\ conf.total = 1
    \/ SnapPurge!SnapshotInit /\ conf.policy # "none" /\ conf.lock = (conf.total = 2)
    \/ CDC!CDCInit /\ LogConfigs
    \/ Postgres!PostgresInit /\ PostgresConfigs

IsRow == conf.kind \in Row!Kinds
IsPage == conf.kind \in {"http", "rest"}
IsSnap == conf.kind = "mysql_snapshot_cdc"

Next ==
    \/ IsRow /\ Row!RowNext
    \/ IsPage /\ Page!PageNext
    \/ conf.kind = "redis" /\ Page!RedisNext
    \/ conf.kind = "kafka" /\ Kafka!KafkaNext
    \/ IsSnap /\ conf.policy = "none" /\ Snap!SnapshotNext
    \/ IsSnap /\ conf.policy # "none" /\ SnapPurge!SnapshotNext
    \/ conf.kind = "mysql_cdc" /\ CDC!CDCNext
    \/ conf.kind = "postgres_cdc" /\ Postgres!PostgresNext

\* The reader's goroutine and the runner's write loop keep going; nothing is
\* assumed of the servers, of failures and of crashes.
ReaderStep ==
    \/ IsRow /\ (Row!Open \/ Row!Read)
    \/ IsPage /\ (Page!Open \/ Page!fetchPage \/ Page!Read)
    \/ conf.kind = "redis" /\ (Page!RedisOpen \/ Page!Refill \/ Page!RedisRead)
    \/ IsSnap /\ conf.policy = "none" /\ Snap!ReaderStep

WriterStep ==
    \/ IsRow /\ Row!Write
    \/ IsPage /\ Page!Write
    \/ conf.kind = "redis" /\ Page!RedisWrite
    \/ IsSnap /\ conf.policy = "none" /\ Snap!Write

Spec == Init /\ [][Next]_vars /\ WF_vars(ReaderStep) /\ WF_vars(WriterStep)

-----------------------------------------------------------------------------

\* The saved checkpoint passes the source's own validation.  The checkpoints that
\* postgres_cdc saves for snapshot records are the exception.
SavedIsValid ==
    saved # << >> =>
        CASE IsRow                          -> Row!ValidateCheckpoint(saved[1])
          [] IsPage                         -> Page!ValidateCheckpoint(saved[1])
          [] conf.kind = "redis"            -> Page!RedisValidateCheckpoint(saved[1])
          [] conf.kind = "kafka"            -> Kafka!ValidateCheckpoint(saved[1])
          [] IsSnap                         -> Snap!ValidateCheckpoint(saved[1])
          [] conf.kind = "mysql_cdc"        -> CDC!LogValidateCheckpoint(saved[1])
          [] conf.kind = "postgres_cdc"     -> conf.snapshot \/ Postgres!ValidateCheckpoint(saved[1])

\* At-least-once on the side of the sources: a restart from the saved checkpoint,
\* from a group's offsets or from a replication slot misses no row, message or
\* transaction that is not yet written, while reading goes on, partitions move,
\* transactions overlap and the log is purged (CheckpointForRecord and Ack of each
\* source).  A kafka source that starts at the end of a partition does not read
\* what lies before.  mysql_batch, JSON files and rest_source checkpoint what was
\* read: a crash costs them what was queued, and no more; http promises no more
\* than that a page is committed when its last record has left the reader.  Before
\* the end is reported every row has been handed over.  And the next start does
\* not fail on a checkpoint the source itself had saved (ValidateCheckpoint).
ResumeMissesNothing ==
    /\ SavedIsValid
    /\ conf.kind \in {"demo", "csv", "feishu_sheet"} => Row!CoversOnlyWritten
    /\ IsRow => Row!EndIsTheEnd /\ Row!CrashCostsTheQueue
    /\ IsPage => Page!CommittedPageIsHandedOver /\ Page!CrashCostsTheQueue
    /\ conf.kind = "kafka" => Kafka!OffsetsCoverOnlyWritten
    /\ IsSnap => IF conf.policy = "none" THEN Snap!ResumeMissesNothing ELSE SnapPurge!ResumeMissesNothing
    /\ conf.kind = "mysql_cdc" => CDC!LogCoversOnlyWritten
    /\ conf.kind = "postgres_cdc" => Postgres!SlotCoversOnlyWritten

=============================================================================
