------------------------------ MODULE MCRecords ------------------------------
(***************************************************************************)
(* What happens to records between a source and a target: the transforms    *)
(* with state, the ones that rewrite change events, and the sink            *)
(* connectors.  Each behaviour runs one of them, conf.kind says which; the  *)
(* variables it does not use keep the value None.  The transforms share the *)
(* runner's side of the state (TransformRunner), the sinks theirs           *)
(* (SinkWriter); the state stores, the filter language and the field        *)
(* transforms run without it.                                               *)
(***************************************************************************)
EXTENDS Integers, TLC

VARIABLES
    conf, log, pos, call, dlq, saved, faults, crashes,
    now, due, mem, store, out,      \* of the transforms
    high, st, target                \* of the sinks

sharedVars == <<conf, log, pos, call, dlq, saved, faults, crashes>>
transformVars == <<now, due, mem, store, out>>
sinkVars == <<high, st, target>>
vars == <<sharedVars, transformVars, sinkVars>>

None == "none"

-----------------------------------------------------------------------------
(* The transforms. *)

Filters == INSTANCE KeyedTransforms WITH
    Keys <- {1, 2}, NoKey <- 0, WindowSize <- 1, JoinWindow <- 0, MaxVersion <- 0,
    MaxLog <- 3, BatchSize <- 2, MaxNow <- 1, MaxFaults <- 1, MaxCrashes <- 1

Window == INSTANCE WindowTransform WITH
    Groups <- {"g", "h"},
    MaxLog <- 3, BatchSize <- 2, MaxNow <- 3, MaxFaults <- 1, MaxCrashes <- 1

Join == INSTANCE KeyedTransforms WITH
    Keys <- {"k", "l"}, NoKey <- "none", WindowSize <- 0, JoinWindow <- 2, MaxVersion <- 0,
    MaxLog <- 3, BatchSize <- 2, MaxNow <- 2, MaxFaults <- 1, MaxCrashes <- 1

Lookup == INSTANCE KeyedTransforms WITH
    Keys <- {"k", "l"}, NoKey <- "none", WindowSize <- 0, JoinWindow <- 0, MaxVersion <- 3,
    MaxLog <- 2, BatchSize <- 1, MaxNow <- 2, MaxFaults <- 1, MaxCrashes <- 1

CDC == INSTANCE CDCNormalize WITH
    Tables <- {"a", "b"}, Hidden <- {"b"}, Ids <- {1},
    MaxLog <- 3, BatchSize <- 2, MaxNow <- 0, MaxFaults <- 0, MaxCrashes <- 1

Batch == INSTANCE BatchChain WITH
    MaxBuffer <- 3, SortKeys <- {0, 1},
    MaxLog <- 3, BatchSize <- 2, MaxNow <- 0, MaxFaults <- 1, MaxCrashes <- 1

State == INSTANCE StateStores WITH
    Keys <- {"k", "l"}, MaxNow <- 2, MaxCalls <- 3, MaxStats <- 1

FieldNames == <<"b", "c", "a">>

Fields == INSTANCE FieldTransforms WITH Fields <- {"a", "b", "c"}, MaxTokens <- 5

\* The runner's side of the state, which the last three do without.
runnerVars == <<pos, call, due, dlq, saved, faults, crashes>>

NoRunner ==
    /\ pos = None /\ call = None /\ due = None /\ dlq = None
    /\ saved = None /\ faults = None /\ crashes = None

TransformInit ==
    \/ Filters!FilterInit
    \/ Window!Init
    \/ Join!JoinInit
    \/ Lookup!LookupInit
    \/ CDC!Init
    \/ Batch!Init
    \/ Batch!DBTInit
    \/ NoRunner /\ State!Init /\ log = None /\ out = None
    \/ NoRunner /\ Fields!FilterInit /\ now = None /\ mem = None /\ store = None /\ out = None
    \/ NoRunner /\ Fields!Init /\ now = None /\ store = None

IsFilter == conf.kind \in {"dedup", "distinct"}
IsWindow == conf.kind = "window"
IsJoin   == conf.kind = "join"
IsLookup == conf.kind = "lookup"
IsCDC    == conf.kind = "cdc"
IsBatch  == conf.kind = "batch"
IsDBT    == conf.kind = "dbt"
IsState  == conf.kind = "state"
IsExpr   == conf.kind = "filter"
IsFields == conf.kind = "fields"

TransformNext ==
    \/ IsFilter /\ Filters!FilterNext
    \/ IsWindow /\ Window!Next
    \/ IsJoin /\ Join!JoinNext
    \/ IsLookup /\ Lookup!LookupNext
    \/ IsCDC /\ CDC!Next
    \/ IsBatch /\ Batch!Next
    \/ IsDBT /\ Batch!DBTNext
    \/ IsState /\ State!Next /\ UNCHANGED <<runnerVars, log, out>>
    \/ IsExpr /\ Fields!FilterNext /\ UNCHANGED <<runnerVars, now, mem, store, out>>
    \/ IsFields /\ Fields!NextWith(FieldNames) /\ UNCHANGED <<runnerVars, now, store>>

-----------------------------------------------------------------------------
(* The sinks. *)

Table == INSTANCE TableSinks WITH
    Keys <- {1, 2}, MaxLog <- 3, BatchSize <- 3, MaxFaults <- 1, MaxCrashes <- 1,
    Leftover <- 1 :> [val |-> 9, wide |-> FALSE]

CH == INSTANCE ClickHouseSink WITH
    Keys <- {1, 2}, MaxLog <- 3, BatchSize <- 3, MaxFaults <- 1, MaxCrashes <- 1

Bulk == INSTANCE BulkSinks WITH
    Keys <- {1, 2}, MaxLog <- 3, BatchSize <- 3, MaxFaults <- 1, MaxCrashes <- 1

\* One unusual thing at a time.
SQLConfigs ==
    /\ conf.alters => conf.dialect = "mysql" /\ conf.batch_mode = "upsert"
    /\ ~conf.alters => conf.ddl_policy = "reject" /\ conf.schema_drift = "ignore" /\ ~conf.auto_create
    /\ conf.ddl_policy # "reject" => conf.schema_drift = "ignore"
    /\ conf.auto_create => conf.ddl_policy = "reject" /\ conf.schema_drift # "fail"
    /\ conf.pre_write # "none" => ~conf.alters /\ ~conf.from_metadata
    /\ conf.from_metadata => conf.batch_mode = "upsert" /\ ~conf.alters
    /\ target.exists \/ conf.auto_create
    /\ target.rows # Table!NoRows <=> conf.pre_write # "none"

ClickHouseConfigs ==
    /\ conf.alters => conf.version_mode = "source_order" /\ conf.positioned /\ ~conf.shared /\ ~conf.server_dedup
    /\ ~conf.alters => conf.ddl_policy = "reject" /\ conf.schema_drift = "fail"
    /\ conf.ddl_policy # "reject" => conf.schema_drift = "fail"
    /\ conf.shared => conf.positioned

DorisConfigs ==
    /\ conf.alters => conf.write_mode = "stream_load" /\ ~conf.from_metadata /\ conf.allow_mixed
    /\ ~conf.alters => conf.ddl_policy = "reject" /\ conf.schema_drift = "ignore" /\ ~conf.auto_create
    /\ conf.ddl_policy # "reject" => conf.schema_drift = "ignore"
    /\ conf.auto_create => conf.ddl_policy = "reject" /\ conf.schema_drift = "add_columns"
    /\ target.exists \/ conf.auto_create

SinkInit ==
    \/ Table!DorisInit /\ DorisConfigs
    \/ Bulk!BulkInit
    \/ Bulk!StreamInit
    \/ Table!SQLInit /\ SQLConfigs
    \/ CH!ClickHouseInit /\ ClickHouseConfigs

SinkNext ==
    \/ conf.kind = "bulk" /\ Bulk!BulkNext
    \/ conf.kind = "stream" /\ Bulk!StreamNext
    \/ conf.kind = "doris" /\ Table!DorisNext
    \/ conf.kind = "sql" /\ Table!SQLNext
    \/ conf.kind = "clickhouse" /\ CH!ClickHouseNext

IsSink == conf.kind \in {"sql", "clickhouse", "doris", "bulk", "stream"}

NoTransform == now = None /\ due = None /\ mem = None /\ store = None /\ out = None
NoSink == high = None /\ st = None /\ target = None

Init ==
    \/ TransformInit /\ NoSink
    \/ SinkInit /\ NoTransform

Next ==
    \/ ~IsSink /\ TransformNext /\ UNCHANGED sinkVars
    \/ IsSink /\ SinkNext /\ UNCHANGED transformVars

Spec == Init /\ [][Next]_vars

-----------------------------------------------------------------------------

\* Whatever is retried, isolated, rolled back, split into requests or replayed
\* after a crash: once the sink has caught up, the target shows the source's table
\* for every key whose last event is not in the dead letter queue (Write and its
\* groups, chunks, compaction, tombstones and deletes).  The exceptions, each kept as
\* history and excluded key by key: a Stream Load of doris skipped for a label it
\* shares with an earlier one, a ClickHouse block dropped for a shared token or events
\* with one version, the requests behind one that failed in part.
\* And no other event is lost on the way into a target that only adds: append mode
\* with deduplication on the server, documents named by their offset, partitions and
\* items of which some fail, messages and objects (deriveDedupToken, deriveESDocID,
\* bulkWithRetry, the object keys of S3).
TargetShowsSource ==
    /\ conf.kind = "sql" => Table!SQLShowsSource /\ Table!PreWriteKeepsOwnRows
    /\ conf.kind = "clickhouse" => CH!ClickHouseShowsSource /\ CH!AppendKeepsEveryInsert
    /\ conf.kind = "doris" => Table!DorisShowsSource /\ Table!SkippedRowsCameAgain
    /\ conf.kind = "bulk" => Bulk!IndexShowsSource /\ Bulk!OnlyUnsentAreLost /\ Bulk!OneDocumentPerEvent
    /\ conf.kind = "stream" => Bulk!RedisShowsSource /\ Bulk!TopicEndsWithLatest /\ Bulk!AddedForGood

\* Writing a batch again never brings an older version of a row back (the version
\* column of ClickHouse's writeRows).
ReplayNeverRegresses == [][conf.kind = "clickhouse" => CH!NoRegress]_target


\* Nothing counts twice: a key passes once within the window (in one process) or the
\* time to live (in all of them) that dedup and distinct promise, a window counts a
\* record at most as often as a crash made it be read, is emitted once and reports
\* what it added up, and a dbt batch holds no row of an earlier one
\* (addKeyLocked, ClosedWindows, writeSourceRows).
NothingCountsTwice ==
    /\ IsFilter => Filters!DuplicatesOnlyBeyondTheWindow /\ Filters!StoreForgetsOnlyExpired
    /\ IsWindow => Window!CountedOncePerReading /\ Window!WindowEmittedOnce /\ Window!RowsSayWhatTheyPromise
    /\ IsDBT => Batch!BatchIsItsOwn

\* A record is combined with the right row: a join never misses or outlives a match
\* in its window, its limits count what it holds and a restore rebuilds it; a lookup
\* shows a row no staler than the refresh interval and never passes a miss silently
\* when told to fail (evictLocked, matched, persistJoinKeyLocked, Apply).
JoinedWithTheRightRow ==
    /\ IsJoin => Join!JoinedWithTheLatest /\ Join!LimitsCountTheBuffer /\ Join!RestoreRebuildsTheBuffer
    /\ IsLookup => Lookup!EnrichedWithAFreshRow /\ Lookup!NoSilentMiss

\* Change events keep their meaning: a table fed by the normalised stream is the
\* source's table whatever is read again, what the policy excludes stays out, and
\* a sort keeps the order of the changes of one row (debeziumOpType,
\* isDangerousDDL, sortStable).
ReplaysTheTable ==
    /\ IsCDC => CDC!ReplaysTheTable /\ CDC!PolicyIsEnforced
    /\ IsBatch => Batch!SortedForTheSink

\* The pure algorithms are what their reference definitions say: the filter's parser
\* builds the grammar's tree and drops no record on a comparison it could not make;
\* rename and project do not depend on the order of Go's maps; a cast delivers the
\* type, or what on_error says, and accepts what it made.
AlgorithmsMeetDefinitions ==
    /\ IsExpr => Fields!ParsesTheGrammar /\ Fields!MismatchIsNeverADrop
    /\ IsFields => Fields!MapOrderDoesNotShow /\ Fields!CastTwiceIsCastOnce /\ Fields!CastDeliversTheType
=============================================================================
