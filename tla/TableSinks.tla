----------------------------- MODULE TableSinks -----------------------------
(***************************************************************************)
(* The sinks that write rows into tables: mysql, postgres, jdbc and doris   *)
(* (internal/etl/sink/mysql.go, postgres.go, jdbc.go, doris.go), and what   *)
(* they share with clickhouse (compact.go, metadata_pk.go, ddl_policy.go,   *)
(* delete_keys.go, the schema helper of core/schema.go).  One target table  *)
(* with one row per key; a row is [val, wide], where wide stands for a      *)
(* column that the source may add.                                          *)
(*                                                                          *)
(* target has the fields exists (the table), wide (the column) and rows; st *)
(* has the fields table and cols, the schema cache; conf has auto_create,   *)
(* schema_drift and ddl_policy.                                             *)
(***************************************************************************)
EXTENDS SinkWriter, TLC

CONSTANT Leftover    \* rows the target table holds before the pipeline runs

NoRows == [key \in Keys |-> Absent]

\* ------------------------------- schema -----------------------------------

\* Look-ups in the catalogue of the target, and the DDL statements the sinks
\* generate.
tableExists(tg) == IF tg.exists THEN "yes" ELSE "no"

getExistingColumns(tg) == IF tg.wide THEN "wide" ELSE "narrow"

createTable(tg, wide) == [tg EXCEPT !.exists = TRUE, !.wide = wide]

addColumn(tg) == [tg EXCEPT !.wide = TRUE]

\* SchemaCache: what was looked up once is not looked up again.
TableExists(tg, s) == IF s.table # "unknown" THEN s.table ELSE tableExists(tg)

GetColumns(tg, s) == IF s.cols # "unknown" THEN s.cols ELSE getExistingColumns(tg)

MarkTableCreated(s, wide) == [s EXCEPT !.table = "yes", !.cols = IF wide THEN "wide" ELSE "narrow"]

InvalidateCache(s) == [s EXCEPT !.cols = "unknown"]

\* EnsureSchemaGeneric for fields with or without the wide column: creates the
\* table, or adds the column; every other drift mode leaves the table alone.
EnsureSchemaGeneric(tg, s, wide) ==
    LET known   == [s EXCEPT !.table = TableExists(tg, s)]
        columns == [known EXCEPT !.cols = GetColumns(tg, known)]
    IN  CASE known.table = "no" /\ conf.auto_create ->
                [tg |-> createTable(tg, wide), s |-> MarkTableCreated(known, wide)]
          [] known.table = "no" /\ ~conf.auto_create -> [tg |-> tg, s |-> known]
          [] known.table = "yes" /\ conf.schema_drift # "add_columns" -> [tg |-> tg, s |-> known]
          [] known.table = "yes" /\ conf.schema_drift = "add_columns" ->
                IF wide /\ columns.cols = "narrow"
                THEN [tg |-> addColumn(tg), s |-> InvalidateCache(columns)]
                ELSE [tg |-> tg, s |-> columns]

ensureTablesAndColumns(tg, s, records) ==
    IF conf.auto_create \/ conf.schema_drift # "ignore"
    THEN EnsureSchemaGeneric(tg, s, \E i \in DOMAIN records : records[i].wide)
    ELSE [tg |-> tg, s |-> s]

\* ------------------------------- records ----------------------------------

\* A key-changing UPDATE becomes a DELETE of the old key and the update.
expandMetadataPKKeyChanges(records) ==
    FlattenSeq([i \in DOMAIN records |->
        LET e == records[i]
        IN  IF e.op = "update" /\ e.from # e.key
            THEN <<[e EXCEPT !.op = "delete", !.key = e.from], e>>
            ELSE <<e>>])

FirstOfKey(records, i) == \A j \in 1..i - 1 : records[j].key # records[i].key

LastOfKey(records, i) == records[Max({j \in DOMAIN records : records[j].key = records[i].key})]

NotCompacted(records) == records

\* CompactRecordsByPK: the last event of every key, at the place of its first.
CompactRecordsByPK(records) ==
    LET firsts == SetToSortSeq({i \in DOMAIN records : FirstOfKey(records, i)}, <)
    IN  [n \in DOMAIN firsts |-> LastOfKey(records, firsts[n])]

\* ResolveDeleteKeys: the key of the row before the change.
ResolveDeleteKeys(e) == e.key

IsDelete(e) == e.op = "delete"

\* ApplyDDLRecords, before the transaction.
ApplyDDLRecords(tg, ddls) ==
    CASE ddls = << >> \/ conf.ddl_policy = "ignore" -> [tg |-> tg, err |-> Ok]
      [] ddls # << >> /\ conf.ddl_policy = "reject" -> [tg |-> tg, err |-> Failed(TRUE)]
      [] ddls # << >> /\ conf.ddl_policy = "apply"  ->
            IF tg.exists /\ ~tg.wide
            THEN [tg |-> [tg EXCEPT !.wide = TRUE], err |-> Ok]
            ELSE [tg |-> tg, err |-> Failed(FALSE)]

-----------------------------------------------------------------------------
(* The transactional SQL sinks: mysql, postgres and jdbc (internal/etl/     *)
(* sink/mysql.go, postgres.go, jdbc.go, pre_write.go).                      *)
(*                                                                          *)
(* target = [exists, wide, rows]: the table, whether it has the column, its *)
(* rows.  st = [executed, table, cols]: the once-per-start guard of         *)
(* pre_write and the schema cache.                                          *)

\* ----------------------------- configuration ------------------------------

\* Only the mysql and postgres sinks follow key changes.
Settings(dialects, modes, metadata, pre) ==
    [kind : {"sql"}, dialect : dialects, batch_mode : modes, from_metadata : metadata,
     pre_write : pre, alters : BOOLEAN, ddl_policy : {"reject", "ignore", "apply"},
     schema_drift : {"ignore", "fail", "add_columns"}, auto_create : BOOLEAN]

\* ParsePreWriteConfig: no action, or one that deletes the table's rows.
ParsePreWriteConfig == {"none", "delete", "truncate"}

NewMySQLSink == Settings({"mysql"}, {"insert", "upsert"}, BOOLEAN, ParsePreWriteConfig)

NewPostgresSink == Settings({"postgres"}, {"insert", "upsert"}, BOOLEAN, ParsePreWriteConfig)

\* The dialect of the jdbc sink comes from its DSN.
parseDSN == {"jdbc_mysql", "jdbc_postgres"}

NewJDBCSink == Settings(parseDSN, {"insert", "upsert"}, {FALSE}, {"none"})

IsMySQL == conf.dialect \in {"mysql", "jdbc_mysql"}

Fresh == [executed |-> FALSE, table |-> "unknown", cols |-> "unknown"]

\* Open resets the guard of pre_write; the schema cache is that of a new sink.
OpenMySQL == Fresh

\* ------------------------------ statements --------------------------------

\* Rows that an INSERT of mysql writes: existing rows are updated or ignored.
mysqlInsert(rows, e, mode) ==
    IF mode = "upsert" \/ rows[e.key] = Absent
    THEN [rows EXCEPT ![e.key] = [val |-> e.val, wide |-> e.wide \/ @.wide]]
    ELSE rows

\* An INSERT of postgres updates existing rows or fails; see Refused.
pgInsert(rows, e) == [rows EXCEPT ![e.key] = [val |-> e.val, wide |-> e.wide \/ @.wide]]

\* The jdbc sink builds the statement of its dialect.
jdbcInsert(rows, e, mode) == IF IsMySQL THEN mysqlInsert(rows, e, mode) ELSE pgInsert(rows, e)

Insert(rows, e, mode) ==
    CASE conf.dialect = "mysql"    -> mysqlInsert(rows, e, mode)
      [] conf.dialect = "postgres" -> pgInsert(rows, e)
      [] conf.dialect \in parseDSN -> jdbcInsert(rows, e, mode)

batchDelete(rows, e) == [rows EXCEPT ![ResolveDeleteKeys(e)] = Absent]

\* An UPDATE among the rows of a statement turns it into an upsert.
ModeOf(group) ==
    IF \E i \in DOMAIN group : group[i].op = "update" THEN "upsert" ELSE conf.batch_mode

\* The statements of one group: its inserts, then its deletes.
applyGroup(rows, group) ==
    LET inserts == SelectSeq(group, LAMBDA e : ~IsDelete(e))
        mode    == ModeOf(inserts)
        written == FoldLeft(LAMBDA r, e : Insert(r, e, mode), rows, inserts)
    IN  FoldLeft(batchDelete, written, SelectSeq(group, IsDelete))

\* A group has the rows with the same columns.
Group(records, wide) == SelectSeq(records, LAMBDA e : e.wide = wide)

applyGroups(rows, records) ==
    LET first == records[1].wide
    IN  applyGroup(applyGroup(rows, Group(records, first)), Group(records, ~first))

\* Statements the server refuses: rows for a missing table or column, and a
\* plain INSERT of postgres for a row that exists.
Refused(tg, records) ==
    \/ ~tg.exists
    \/ \E i \in DOMAIN records : records[i].wide /\ ~IsDelete(records[i]) /\ ~tg.wide
    \/ \E i \in DOMAIN records :
        /\ ~IsMySQL /\ ~IsDelete(records[i])
        /\ ModeOf(SelectSeq(Group(records, records[i].wide), LAMBDA e : ~IsDelete(e))) = "insert"
        /\ tg.rows[records[i].key] # Absent

\* ------------------------------- operations -------------------------------

SQLInit ==
    /\ WriterInit
    /\ conf \in NewMySQLSink \cup NewPostgresSink \cup NewJDBCSink
    /\ st = Fresh
    /\ target \in [exists : BOOLEAN, wide : {FALSE}, rows : {NoRows, Leftover @@ NoRows}]
    /\ ~target.exists => target.rows = NoRows

\* ExecSQL, ExecPgx: the action runs once per start, whatever becomes of the
\* transaction.
ExecSQL(s) == [s EXCEPT !.executed = conf.pre_write # "none"]

\* The transaction: pre_write, the compacted batch, commit.  TRUNCATE commits
\* at once in MySQL.  A failure rolls back; a lost answer to the commit leaves
\* open whether it happened.
Transaction(tg, s, records) ==
    LET clears    == conf.pre_write # "none" /\ ~s.executed
        cleared   == IF clears THEN [tg EXCEPT !.rows = NoRows] ELSE tg
        compacted == CompactRecordsByPK(records)
        rolled    == IF clears /\ IsMySQL /\ conf.pre_write = "truncate" THEN cleared ELSE tg
        done      == IF tg.exists THEN ExecSQL(s) ELSE s
        committed == [cleared EXCEPT !.rows = applyGroups(cleared.rows, compacted)]
    IN  {Outcome(tg, s, Failed(TRUE), 1)}
          \cup {Outcome(rolled, done, Failed(retryable), 1) : retryable \in BOOLEAN}
          \cup IF Refused(cleared, compacted)
               THEN {Outcome(rolled, done, Failed(FALSE), 0)}
               ELSE {Outcome(committed, done, Ok, 0), Outcome(committed, done, Failed(TRUE), 1)}

\* DDL records first, then the schema, then the rows in a transaction.
WriteRows(records, rows) ==
    LET ddl     == ApplyDDLRecords(target, SelectSeq(records, LAMBDA e : e.op = "ddl"))
        ensured == ensureTablesAndColumns(ddl.tg, st, rows)
    IN  IF ~ddl.err.ok \/ rows = << >>
        THEN {Outcome(ddl.tg, st, ddl.err, 0)}
        ELSE Transaction(ensured.tg, ensured.s, rows)

DataOf(records) == SelectSeq(records, LAMBDA e : e.op # "ddl")

mysqlWrite(records) ==
    LET data == DataOf(records)
    IN  WriteRows(records, IF conf.from_metadata THEN expandMetadataPKKeyChanges(data) ELSE data)

pgWrite(records) ==
    LET data == DataOf(records)
    IN  WriteRows(records, IF conf.from_metadata THEN expandMetadataPKKeyChanges(data) ELSE data)

\* The jdbc sink has no keys from metadata and no pre_write.
jdbcWrite(records) == WriteRows(records, DataOf(records))

Write(records) ==
    CASE conf.dialect = "mysql"    -> mysqlWrite(records)
      [] conf.dialect = "postgres" -> pgWrite(records)
      [] conf.dialect \in parseDSN -> jdbcWrite(records)

\* conf.alters says whether the source's table is altered.
SourceOps == {"insert", "update", "delete"} \cup IF conf.alters THEN {"ddl"} ELSE {}

SQLNext ==
    \/ Change(SourceOps, conf.from_metadata)
    \/ RunnerStep(Write, OpenMySQL)

\* ------------------------------- properties -------------------------------

ShowsRow(key) == target.rows[key]

\* The inserts of the log are of new keys only.
AppendOnly == \A i, j \in DOMAIN log : i < j /\ log[j].op = "insert" => log[i].key # log[j].key

\* Whatever is retried, isolated, rolled back or replayed after a crash: once
\* the sink has caught up, the table shows the source's table, for every key
\* whose last event is not in the dead letter queue.  Batches that insert
\* instead of upserting promise it for sources that never reuse a key.
SQLShowsSource ==
    (conf.pre_write = "none" /\ (conf.batch_mode = "upsert" \/ AppendOnly)) => Shows(ShowsRow)

\* pre_write runs once per start: a later batch never deletes the rows that
\* earlier batches of the same run have written.
PreWriteKeepsOwnRows ==
    (conf.pre_write # "none" /\ conf.batch_mode = "upsert" /\ crashes = 0) => Shows(ShowsRow)

-----------------------------------------------------------------------------
(* The doris sink (internal/etl/sink/doris.go): writes go through Stream    *)
(* Load over HTTP, or through INSERTs in a transaction; deletes through the *)
(* MySQL protocol, after the writes, in no transaction with them.           *)
(*                                                                          *)
(* target = [exists, wide, rows, labels, stale]: a Unique Key table, the     *)
(* labels of the loads Doris has accepted and, as history, the keys of loads *)
(* skipped for their label although the rows had changed since.  st =        *)
(* [table, cols]: the schema cache.                                          *)

NewDorisSink ==
    [kind : {"doris"}, write_mode : {"stream_load", "insert"}, from_metadata : BOOLEAN,
     allow_mixed : BOOLEAN, alters : BOOLEAN,
     ddl_policy : {"reject", "ignore", "apply"},
     schema_drift : {"ignore", "fail", "add_columns"}, auto_create : BOOLEAN]

OpenDoris == [table |-> "unknown", cols |-> "unknown"]

DorisInit ==
    /\ WriterInit
    /\ conf \in NewDorisSink
    /\ st = OpenDoris
    /\ target \in [exists : BOOLEAN, wide : {FALSE}, rows : {NoRows}, labels : {{}}, stale : {{}}]

\* ------------------------------- stream load ------------------------------

\* buildJSONBody, buildCSVBody: the data of the records, nothing else of them.
buildBody(records) ==
    [i \in DOMAIN records |-> <<records[i].key, records[i].val, records[i].wide>>]

\* The label of a load: a hash of target and body.
labelOf(records) == buildBody(records)

\* A load upserts its rows; fields without a column are dropped.
Load(tg, records) ==
    [tg EXCEPT !.rows = FoldLeft(LAMBDA rows, e :
                            [rows EXCEPT ![e.key] = [val |-> e.val, wide |-> e.wide /\ tg.wide]], @, records),
               !.stale = @ \ {records[i].key : i \in DOMAIN records}]

\* A load whose label is known changes nothing.
Skip(tg, records) ==
    LET loaded == Load(tg, records).rows
    IN  [tg EXCEPT !.stale = @ \cup {key \in Keys : loaded[key] # tg.rows[key]}]

\* streamLoadOnce: a known label is answered without loading, which the sink
\* takes for success.  A request may be lost before or after it is served, or
\* be refused.
streamLoadOnce(tg, records) ==
    LET label == labelOf(records)
        served == IF label \in tg.labels THEN Skip(tg, records)
                  ELSE [Load(tg, records) EXCEPT !.labels = @ \cup {label}]
    IN  IF ~tg.exists
        THEN {[tg |-> tg, err |-> Failed(FALSE), fault |-> 0]}
        ELSE {[tg |-> served, err |-> Ok, fault |-> 0],
              [tg |-> served, err |-> Failed(TRUE), fault |-> 1],
              [tg |-> tg, err |-> Failed(TRUE), fault |-> 1],
              [tg |-> tg, err |-> Failed(FALSE), fault |-> 1]}

\* streamLoad: retryable failures are repeated under the same label, a bounded
\* number of times.
streamLoad(tg, records) ==
    LET first == streamLoadOnce(tg, records)
    IN  first \cup UNION {{[again EXCEPT !.fault = @ + a.fault] : again \in streamLoadOnce(a.tg, records)} :
                            a \in {b \in first : b.err.retryable}}

\* ------------------------------ MySQL protocol ----------------------------

\* writeViaInsert: one transaction.
writeViaInsert(tg, records) ==
    IF ~tg.exists \/ \E i \in DOMAIN records : records[i].wide /\ ~tg.wide
    THEN {[tg |-> tg, err |-> Failed(FALSE), fault |-> 0]}
    ELSE {[tg |-> Load(tg, records), err |-> Ok, fault |-> 0],
          [tg |-> Load(tg, records), err |-> Failed(TRUE), fault |-> 1],
          [tg |-> tg, err |-> Failed(TRUE), fault |-> 1]}

\* batchDeleteRecords: outside of any transaction.
batchDeleteRecords(tg, records) ==
    LET done == [tg EXCEPT !.rows = FoldLeft(LAMBDA rows, e : [rows EXCEPT ![ResolveDeleteKeys(e)] = Absent],
                                             @, records),
                           !.stale = @ \ {ResolveDeleteKeys(records[i]) : i \in DOMAIN records}]
    IN  IF records = << >> THEN {[tg |-> tg, err |-> Ok, fault |-> 0]}
        ELSE {[tg |-> done, err |-> Ok, fault |-> 0],
              [tg |-> done, err |-> Failed(TRUE), fault |-> 1],
              [tg |-> tg, err |-> Failed(FALSE), fault |-> 1]}

\* ---------------------------------- Write ---------------------------------

\* A batch of the source with writes and deletes; a key change does not count.
Mixed(records) ==
    /\ \E i \in DOMAIN records : IsDelete(records[i])
    /\ \E i \in DOMAIN records : ~IsDelete(records[i])

WritesOf(tg, records) ==
    CASE records = << >> -> {[tg |-> tg, err |-> Ok, fault |-> 0]}
      [] records # << >> /\ conf.write_mode = "insert" -> writeViaInsert(tg, records)
      [] records # << >> /\ conf.write_mode # "insert" -> streamLoad(tg, records)

\* The writes, then the deletes if the writes succeeded.
writesThenDeletes(tg, s, records) ==
    UNION {IF w.err.ok
           THEN {Outcome(d.tg, s, d.err, w.fault + d.fault) :
                    d \in batchDeleteRecords(w.tg, SelectSeq(records, IsDelete))}
           ELSE {Outcome(w.tg, s, w.err, w.fault)} :
           w \in WritesOf(tg, SelectSeq(records, LAMBDA e : ~IsDelete(e)))}

dorisWrite(records) ==
    LET data    == SelectSeq(records, LAMBDA e : e.op # "ddl")
        rows    == CompactRecordsByPK(IF conf.from_metadata THEN expandMetadataPKKeyChanges(data) ELSE data)
        ddl     == ApplyDDLRecords(target, SelectSeq(records, LAMBDA e : e.op = "ddl"))
        cached  == IF ddl.tg # target THEN InvalidateCache(st) ELSE st
        ensured == ensureTablesAndColumns(ddl.tg, cached, rows)
    IN  CASE ~ddl.err.ok \/ rows = << >> -> {Outcome(ddl.tg, cached, ddl.err, 0)}
          [] ddl.err.ok /\ rows # << >> /\ Mixed(data) /\ ~conf.allow_mixed ->
                {Outcome(ensured.tg, ensured.s, Failed(FALSE), 0)}
          [] ddl.err.ok /\ rows # << >> /\ (Mixed(data) => conf.allow_mixed) ->
                writesThenDeletes(ensured.tg, ensured.s, rows)

\* (Bound: a row gets back the values it had only where that makes a difference.)
Values == IF conf.write_mode = "stream_load" /\ ~conf.alters THEN {1, 2} ELSE {Len(log) + 1}

DorisNext ==
    \/ ChangeTo(Values, SourceOps, conf.from_metadata)
    \/ RunnerStep(dorisWrite, OpenDoris)

\* ------------------------------- properties -------------------------------

DorisRow(key) == target.rows[key]

\* The column of an altered source reaches the target.
ColumnFollows == conf.alters => conf.ddl_policy = "apply" \/ conf.schema_drift = "add_columns"

\* Although the writes and the deletes of a batch are separate requests, any
\* of which may fail after the other took effect, and although requests that
\* were served are repeated: once the sink has caught up the table shows the
\* source's.  With Stream Load a row may fall behind in one way only: its last
\* load had the body of an earlier one, and so its label, and was skipped.
DorisShowsSource == ColumnFollows => ShowsAt(Keys \ target.stale, DorisRow)

\* Only Stream Load falls behind so, and only with rows that are written more than
\* once.
SkippedRowsCameAgain ==
    (CaughtUp /\ target.stale # {}) =>
        /\ conf.write_mode = "stream_load"
        /\ \A key \in target.stale : Settled(key) =>
            Cardinality({i \in DOMAIN log : Touches(log[i], key) /\ ~IsDelete(log[i])}) > 1
=============================================================================
