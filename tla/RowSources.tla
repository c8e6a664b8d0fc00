------------------------------ MODULE RowSources ------------------------------
(***************************************************************************)
(* The sources that read rows one after the other: demo, file (CSV and      *)
(* JSON lines), feishu_sheet and mysql_batch (internal/etl/source/demo.go,  *)
(* file.go, feishu_sheet.go, mysql_batch.go).  The source holds the rows    *)
(* 1..Rows; a file may hold lines that do not parse.                        *)
(*                                                                          *)
(* rd.pos is how far the reader has read (lines of the file, the cursor of  *)
(* the table), rd.offset the record counter the positions of CSV and JSON   *)
(* carry, rd.done that the reader has reported the end.                     *)
(***************************************************************************)
EXTENDS Downstream

CONSTANTS
    Rows,    \* number of rows of the source
    Limit,   \* limit: the page size of mysql_batch
    Bad      \* lines that do not parse, in a file that has such lines

\* ----------------------------- configuration ------------------------------

Kinds == {"demo", "csv", "json", "feishu_sheet", "mysql_batch"}

\* mysql_batch reads one residue class of the keys when it is sharded.
InShard(row) == row % conf.total = conf.index

BadLines == IF conf.dirty THEN Bad ELSE {}

Wanted ==
    IF conf.kind = "mysql_batch"
    THEN {row \in 1..Rows : InShard(row)}
    ELSE 1..Rows \ BadLines

\* The configurations the constructors accept, as far as they differ here: a
\* file has a format, a table or a custom query may be split into shards, and
\* its cursor column holds integers or strings, floating-point numbers (the
\* number of row r is r / 2) or times.
Unsharded(kinds) ==
    [kind : kinds, index : {0}, total : {1}, custom : {FALSE}, dirty : {FALSE}, cursor : {"key"}]

NewDemoSource == Unsharded({"demo"})

NewFileSource == {[c EXCEPT !.dirty = dirty] : c \in Unsharded({"csv", "json"}), dirty \in BOOLEAN}

NewFeishuSheetSource == Unsharded({"feishu_sheet"})

NewMySQLBatchSource ==
    {[c EXCEPT !.index = shard[1], !.total = shard[2], !.custom = custom, !.cursor = cursor] :
        c \in Unsharded({"mysql_batch"}), custom \in BOOLEAN,
        <<shard, cursor>> \in ({<<0, 1>>, <<0, 2>>, <<1, 2>>} \X {"key"}) \cup ({<<0, 1>>} \X {"float", "time"})}

\* The next page of the keyset query: WHERE pk > cursor ORDER BY pk LIMIT n.
Page(cursor, n) ==
    LET rest == {row \in Wanted : row > cursor}
    IN  {row \in rest : Cardinality({other \in rest : other < row}) < n}

InOrder(rows) ==
    [i \in 1..Cardinality(rows) |->
        CHOOSE row \in rows : Cardinality({other \in rows : other < row}) = i - 1]

\* ------------------------------- operations -------------------------------

Closed == [pos |-> 0, offset |-> 0, done |-> FALSE]

RowInit ==
    /\ PipeInit
    /\ upstream = << >>
    /\ conf \in NewDemoSource \cup NewFileSource \cup NewFeishuSheetSource \cup NewMySQLBatchSource
    /\ rd = Closed

\* Open of demo: the counter continues at the checkpoint.
OpenDemo ==
    LET cp == SavedOr([offset |-> 0, byte |-> 0])
    IN  rd' = [pos |-> cp.offset, offset |-> cp.offset, done |-> FALSE]

\* Open of a CSV file: reads and drops as many records as the checkpoint
\* counts and fails at one that does not parse.
openCSV ==
    LET cp == SavedOr([offset |-> 0, byte |-> 0])
    IN  /\ BadLines \cap 1..cp.offset = {}
        /\ rd' = [pos |-> Min({cp.offset, Rows}), offset |-> cp.offset, done |-> FALSE]

\* Open of a JSON file: seeks to the byte position of the checkpoint.
openJSON ==
    LET cp == SavedOr([offset |-> 0, byte |-> 0])
    IN  rd' = [pos |-> cp.byte, offset |-> cp.offset, done |-> FALSE]

\* Open of a sheet: all its rows are fetched.
OpenSheet == rd' = Closed

\* Open of mysql_batch: the cursor of the checkpoint, 0 without one.
OpenBatch ==
    rd' = [Closed EXCEPT !.pos = SavedOr([offset |-> 0, byte |-> 0]).offset]

\* ValidateCheckpoint: numbers that are not negative.  The sheet refuses every
\* checkpoint.
ValidateFile(cp) == cp.offset >= 0 /\ cp.byte >= 0

ValidateDemo(cp) == cp.offset >= 0

ValidateBatch(cp) == cp.offset >= 0

ValidateSheet(cp) == FALSE

ValidateCheckpoint(cp) ==
    CASE conf.kind = "demo"           -> ValidateDemo(cp)
      [] conf.kind \in {"csv", "json"} -> ValidateFile(cp)
      [] conf.kind = "mysql_batch"    -> ValidateBatch(cp)
      [] conf.kind = "feishu_sheet"   -> ValidateSheet(cp)

Open ==
    /\ ~up
    /\ saved # << >> => ValidateCheckpoint(saved[1])
    /\ up' = TRUE
    /\ \/ conf.kind = "demo" /\ OpenDemo
       \/ conf.kind = "csv" /\ openCSV
       \/ conf.kind = "json" /\ openJSON
       \/ conf.kind = "feishu_sheet" /\ OpenSheet
       \/ conf.kind = "mysql_batch" /\ OpenBatch
    /\ UNCHANGED <<conf, upstream, queue, delivered, saved, crashes>>

\* The next row with its record number.
ReadRow ==
    /\ rd.pos < Rows
    /\ rd.pos + 1 \notin BadLines
    /\ rd' = [rd EXCEPT !.pos = @ + 1, !.offset = @ + 1]
    /\ emitReadRecord(<<[row |-> rd.pos + 1, offset |-> rd.offset + 1]>>)

ReadDemo == conf.kind = "demo" /\ ReadRow

ReadLine == conf.kind = "csv" /\ ReadRow

ReadJSON == conf.kind = "json" /\ ReadRow

ReadSheet == conf.kind = "feishu_sheet" /\ ReadRow

\* A line that does not parse is reported as a read error and is not read
\* again; the JSON reader counts it, the CSV reader does not.
ReadBadLine ==
    /\ rd.pos + 1 \in BadLines
    /\ rd' = [rd EXCEPT !.pos = @ + 1, !.offset = IF conf.kind = "json" THEN @ + 1 ELSE @]
    /\ UNCHANGED queue

\* The cursor stays behind the last row of a page.
updateCursorBehind(page) == Max(page) - 1

\* updateCursor: the cursor follows every scanned row.  A floating-point number
\* is cut to an integer; a time, like every type the switch does not know,
\* leaves the cursor where it was.
updateCursor(page) ==
    CASE conf.cursor = "key"   -> Max(page)
      [] conf.cursor = "float" -> 2 * (Max(page) \div 2)
      [] conf.cursor = "time"  -> rd.pos

\* ReadBatch of mysql_batch: a page of at most batch_size rows.  A custom
\* query ends with a short page, a table with an empty one.
ReadBatch ==
    LET limit == Min({Limit, BatchSize})
        page  == Page(rd.pos, limit)
    IN  /\ conf.kind = "mysql_batch"
        /\ page # {}
        /\ rd' = [rd EXCEPT !.pos = updateCursor(page),
                             !.done = conf.custom /\ Cardinality(page) < limit]
        /\ emitReadRecord([i \in 1..Cardinality(page) |-> [row |-> InOrder(page)[i]]])

\* The reader reports the end and the runner's read loop returns.
SourceExhausted ==
    /\ IF conf.kind = "mysql_batch"
       THEN Page(rd.pos, 1) = {}
       ELSE rd.pos >= Rows
    /\ rd' = [rd EXCEPT !.done = TRUE]
    /\ UNCHANGED queue

Read ==
    /\ up
    /\ ~rd.done
    /\ ReadDemo \/ ReadLine \/ ReadJSON \/ ReadSheet \/ ReadBadLine \/ ReadBatch \/ SourceExhausted
    /\ UNCHANGED <<conf, upstream, up, delivered, saved, crashes>>

\* The position for the batch's last record: demo and CSV take its number, JSON
\* its number and the reader's byte position, mysql_batch the reader's cursor.
DemoPosition(last) == [offset |-> last.offset, byte |-> 0]

LinePosition(last) == [offset |-> last.offset, byte |-> 0]

JSONPosition(last) == [offset |-> last.offset, byte |-> rd.pos]

CursorPosition == [offset |-> rd.pos, byte |-> 0]

\* A checkpoint that counts what the reader has read, not what was written.
CheckpointReadAhead(batch) == [offset |-> rd.offset, byte |-> rd.pos]

CheckpointForRecord(batch) ==
    LET last == batch[Len(batch)]
    IN  CASE conf.kind = "demo"        -> DemoPosition(last)
          [] conf.kind = "csv"         -> LinePosition(last)
          [] conf.kind = "json"        -> JSONPosition(last)
          [] conf.kind = "mysql_batch" -> CursorPosition

\* A batch is written; the sheet has no checkpoint to save.
Write ==
    /\ up
    /\ queue # << >>
    /\ \E batch \in Batches : writeBatch(batch, CheckpointForRecord(batch), conf.kind # "feishu_sheet")
    /\ UNCHANGED <<conf, upstream, up, rd, crashes>>

Crash == ProcessCrash /\ rd' = Closed

RowNext == Open \/ Read \/ Write \/ Crash

\* ------------------------------- properties -------------------------------

\* Rows a reader opened at this position does not read again.
Before(cp) ==
    {row \in Wanted : row <= IF conf.kind = "json" THEN cp.byte ELSE cp.offset}

Covered == IF saved = << >> THEN {} ELSE Before(saved[1])

\* A checkpoint covers only rows that have been written: the position in it is
\* the one after the record it was asked for, whatever the reader has read in
\* the meantime (CheckpointForRecord).
CoversOnlyWritten == Covered \subseteq delivered

\* Sources whose checkpoints do not survive a crash: two of them save how far
\* they have read, and a CSV file with a bad line cannot be opened behind it.
NotResumable ==
    \/ conf.kind \in {"json", "mysql_batch"}
    \/ conf.kind = "csv" /\ conf.dirty

\* A reader that reports the end has handed over every row: a cursor that does
\* not move reads the same page again, "rather than silently skipping data"
\* (updateCursor, ReadBatch).
EndIsTheEnd ==
    rd.done => Wanted \subseteq delivered \cup RowsOf(queue) \/ (crashes > 0 /\ NotResumable)

\* A crash costs the sources that save how far they have read at most what was
\* queued: a full channel and the rest of a page (CheckpointForRecord).
CrashCostsTheQueue ==
    Cardinality(Covered \ (delivered \cup RowsOf(queue))) <= crashes * (Buffer + Min({Limit, BatchSize}) - 1)

\* Every row arrives: the pages of an uninterrupted run leave no row out, and
\* a run that is resumed from a checkpoint reads the rest.  A table that is read
\* by a column of times comes no further than its first page.
AllRowsIn ==
    \/ Wanted \subseteq delivered
    \/ crashes > 0 /\ NotResumable
    \/ conf.cursor = "time" /\ Page(0, Min({Limit, BatchSize})) \subseteq delivered

=============================================================================
