---------------------------- MODULE ClickHouseSink ----------------------------
(***************************************************************************)
(* The clickhouse sink (internal/etl/sink/clickhouse.go,                    *)
(* clickhouse_dedup.go).  There are no transactions: one Write sends up to  *)
(* three INSERT blocks (inserts, updates, tombstones).  In source_order     *)
(* mode every row carries the source position of its event as a version,    *)
(* and ReplacingMergeTree shows the row with the largest version of a key,  *)
(* the last inserted one among equals.  In append mode rows pile up.        *)
(*                                                                          *)
(* target = [wide, rows, seen, tokens]: the column, the winning row of each *)
(* key, the events that left a row in append mode, the deduplication tokens *)
(* of the blocks the server has accepted.  st = [cols, seq, acked]: the     *)
(* schema cache, writeBatches, whether the last Write was acknowledged.     *)
(***************************************************************************)
EXTENDS SinkWriter

\* Configurations: positioned says whether the source's records carry a
\* position, shared that two consecutive events share one (rows of one binlog
\* event), server_dedup that the server knows the token setting.
NewClickHouseSink ==
    [kind : {"clickhouse"}, version_mode : {"source_order", "append"}, alters : BOOLEAN,
     ddl_policy : {"reject", "ignore", "apply"}, schema_drift : {"ignore", "fail", "add_columns", "sync"},
     positioned : BOOLEAN, shared : BOOLEAN, server_dedup : BOOLEAN]

SourceOrderMode == conf.version_mode = "source_order"

\* ------------------------------- positions --------------------------------

\* core.SourceOrder: the source's own position as a number.
SourceOrder(e) ==
    [available |-> conf.positioned,
     version   |-> IF conf.shared THEN (e.val + 1) \div 2 ELSE e.val]

\* positionString: empty where the source has no position.
positionString(e) == IF conf.positioned THEN SourceOrder(e).version ELSE 0

\* batchPosition: the first and the last position of the data records.
batchPosition(records) ==
    IF records = << >> THEN <<0, 0>>
    ELSE <<positionString(records[1]), positionString(records[Len(records)])>>

\* deriveDedupToken: the positions, the number of the Write call of this
\* process, the number of records.
deriveDedupToken(records, seq) == batchPosition(records) \o <<seq, Len(records)>>

\* ------------------------------ preparation -------------------------------

Row(e, version, deleted) ==
    [op |-> e.op, key |-> e.key, val |-> e.val, wide |-> e.wide, ver |-> version, deleted |-> deleted]

\* keyChangeTombstone: the old key's row is deleted at the update's version.
keyChangeTombstone(e, version) ==
    IF e.op = "update" /\ e.from # e.key
    THEN <<[Row(e, version, TRUE) EXCEPT !.op = "delete", !.key = e.from]>>
    ELSE << >>

\* prepareDataRecords fails closed: for a record without a version, and for
\* anything but INSERTs in append mode.
Unprepared(records) ==
    IF SourceOrderMode
    THEN \E i \in DOMAIN records : ~SourceOrder(records[i]).available
    ELSE \E i \in DOMAIN records : records[i].op # "insert"

prepareDataRecords(records) ==
    FlattenSeq([i \in DOMAIN records |->
        LET e == records[i]
            v == SourceOrder(e).version
        IN  <<Row(e, v, e.op = "delete")>>
              \o IF SourceOrderMode THEN keyChangeTombstone(e, v) ELSE << >>])

\* --------------------------------- schema ---------------------------------

OpenClickHouse == [cols |-> "unknown", seq |-> 0, acked |-> FALSE]

\* columns: cached until a DDL record or an added column invalidates it.
columns(tg, s) == IF s.cols # "unknown" THEN s.cols ELSE IF tg.wide THEN "wide" ELSE "narrow"

\* ensureColumns: what happens to fields the table does not have.
ensureColumns(tg, s, rows) ==
    LET missing == columns(tg, s) = "narrow" /\ \E i \in DOMAIN rows : rows[i].wide
    IN  CASE ~missing \/ conf.schema_drift = "ignore" ->
                [ok |-> TRUE, tg |-> tg, s |-> [s EXCEPT !.cols = columns(tg, s)]]
          [] missing /\ conf.schema_drift = "fail" ->
                [ok |-> FALSE, tg |-> tg, s |-> [s EXCEPT !.cols = columns(tg, s)]]
          [] missing /\ conf.schema_drift \in {"add_columns", "sync"} ->
                [ok |-> TRUE, tg |-> [tg EXCEPT !.wide = TRUE], s |-> [s EXCEPT !.cols = "wide"]]

\* DDL records: "already exists" counts as applied; the caches of the table
\* are dropped.
applyDDL(tg, s, ddls) ==
    CASE ddls = << >> \/ conf.ddl_policy = "ignore" -> [ok |-> TRUE, tg |-> tg, s |-> s]
      [] ddls # << >> /\ conf.ddl_policy = "reject" -> [ok |-> FALSE, tg |-> tg, s |-> s]
      [] ddls # << >> /\ conf.ddl_policy = "apply"  ->
            [ok |-> TRUE, tg |-> [tg EXCEPT !.wide = TRUE], s |-> [s EXCEPT !.cols = "unknown"]]

\* --------------------------------- writing --------------------------------

LastInsertedWins(tg, row) ==
    [tg EXCEPT !.rows[row.key] =
        [val |-> row.val, wide |-> row.wide /\ tg.wide, ver |-> row.ver, deleted |-> row.deleted]]

\* One row reaches the table: ReplacingMergeTree keeps the largest version.
Replace(tg, row) ==
    IF SourceOrderMode
    THEN [tg EXCEPT !.rows[row.key] =
            IF row.ver >= @.ver
            THEN [val |-> row.val, wide |-> row.wide /\ tg.wide, ver |-> row.ver, deleted |-> row.deleted]
            ELSE @]
    ELSE [tg EXCEPT !.seen = @ \cup {row.val}]

\* writeInsertSelected: one block, dropped when the server knows its token.
writeInsert(tg, rows, token) ==
    IF conf.server_dedup /\ token \in tg.tokens
    THEN tg
    ELSE [FoldLeft(Replace, tg, rows) EXCEPT
            !.tokens = IF conf.server_dedup THEN @ \cup {token} ELSE @]

\* The blocks of one Write: inserts, updates, deletes.
Blocks(rows) ==
    LET of(op) == SelectSeq(rows, LAMBDA row : row.op = op)
    IN  SelectSeq(<<of("insert"), of("update"), of("delete")>>, LAMBDA block : block # << >>)

\* Every block is written after its columns are ensured; the first error ends
\* the Write.  A block whose answer is lost may have been written.
sendBlocks(tg, s, blocks, token) ==
    LET After[n \in 0..Len(blocks)] ==
            IF n = 0 THEN [ok |-> TRUE, tg |-> tg, s |-> s]
            ELSE LET before  == After[n - 1]
                     ensured == ensureColumns(before.tg, before.s, blocks[n])
                 IN  IF before.ok /\ ensured.ok
                     THEN [ensured EXCEPT !.tg = writeInsert(@, blocks[n], token)]
                     ELSE [before EXCEPT !.ok = FALSE]
        last == After[Len(blocks)]
    IN  {Outcome(After[n].tg, [After[n].s EXCEPT !.acked = FALSE], Failed(retryable), 1) :
            n \in {m \in 0..Len(blocks) : After[m].ok}, retryable \in BOOLEAN}
          \cup {Outcome(last.tg, [last.s EXCEPT !.acked = last.ok],
                        IF last.ok THEN Ok ELSE Failed(FALSE), 0)}

ClickHouseInit ==
    /\ WriterInit
    /\ conf \in NewClickHouseSink
    /\ st = OpenClickHouse
    /\ target = [wide |-> FALSE, seen |-> {}, tokens |-> {},
                 rows |-> [key \in Keys |-> [val |-> 0, wide |-> FALSE, ver |-> 0, deleted |-> TRUE]]]

\* Write: prepare everything, then DDL, then the blocks under one token.
Write(records) ==
    LET data   == SelectSeq(records, LAMBDA e : e.op # "ddl")
        ddl    == applyDDL(target, st, SelectSeq(records, LAMBDA e : e.op = "ddl"))
        began  == [ddl.s EXCEPT !.seq = IF conf.server_dedup THEN @ + 1 ELSE @]
    IN  IF Unprepared(data) THEN {Outcome(target, st, Failed(TRUE), 0)}
        ELSE IF ~ddl.ok THEN {Outcome(ddl.tg, ddl.s, Failed(TRUE), 0)}
        ELSE sendBlocks(ddl.tg, began, Blocks(prepareDataRecords(data)), deriveDedupToken(data, began.seq))

SourceOps ==
    (IF SourceOrderMode THEN {"insert", "update", "delete"} ELSE {"insert", "update"})
      \cup IF conf.alters THEN {"ddl"} ELSE {}

ClickHouseNext ==
    \/ Change(SourceOps, TRUE)
    \/ RunnerStep(Write, OpenClickHouse)

\* ------------------------------- properties -------------------------------

\* What SELECT ... FINAL shows; a dropped column does not count.
Shown(key) ==
    LET row == target.rows[key]
    IN  IF row.deleted THEN Absent ELSE [val |-> row.val, wide |-> row.wide]

\* The events of a key have versions of their own.
DistinctVersions(key) ==
    \A i, j \in DOMAIN log :
        (i < j /\ Touches(log[i], key) /\ Touches(log[j], key)) =>
            SourceOrder(log[i]).version # SourceOrder(log[j]).version

\* Another event has the same position, or both have none: then two blocks of
\* two processes may get one token.
HasTwin(i) == \E j \in DOMAIN log \ {i} : positionString(log[j]) = positionString(log[i])

\* With deduplication on the server the last event of a key is safe when it is
\* an insert with a position of its own: the blocks of a mixed Write share their
\* token, and the inserts go first.
TokenIsItsOwn(key) ==
    \A i \in 1..pos : (Touches(log[i], key) /\ \A j \in i + 1..pos : ~Touches(log[j], key)) =>
        log[i].op = "insert" /\ ~HasTwin(i)

\* Whatever fails halfway and is written again, in source_order mode the table
\* ends up showing the source's table: no old version of a row wins, no
\* deleted row comes back, a changed key leaves no ghost of the old key.  This
\* is so for the keys whose events have versions of their own and, where the
\* server drops blocks by their token, tokens of their own.
ClickHouseShowsSource ==
    (SourceOrderMode /\ conf.schema_drift # "ignore") =>
        ShowsAt({key \in Keys : DistinctVersions(key) /\ (conf.server_dedup => TokenIsItsOwn(key))}, Shown)

NoRegress ==
    SourceOrderMode =>
        \A key \in Keys : DistinctVersions(key) => target'.rows[key].val >= target.rows[key].val

\* A replayed old event never takes the place of a newer one, in no state in
\* between either.
ReplayNeverRegresses == [][NoRegress]_target

\* In append mode no insert is lost, but one whose position is also another's
\* when the server drops blocks by their token: the batch sequence starts again
\* with the process, and the next record of that position gets the token of the
\* last.
AppendKeepsEveryInsert ==
    (~SourceOrderMode /\ CaughtUp) =>
        \A i \in 1..pos \ dlq :
            (log[i].op = "insert" /\ ~(conf.server_dedup /\ HasTwin(i))) => log[i].val \in target.seen

=============================================================================
