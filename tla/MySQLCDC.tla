------------------------------- MODULE MySQLCDC -------------------------------
(***************************************************************************)
(* The two sources that read MySQL's binary log.  A log position is the     *)
(* number of transactions before it, and so is a GTID set; NoPos stands for *)
(* an unset one.                                                            *)
(*                                                                          *)
(* mysql_snapshot_cdc (internal/etl/source/mysql_snapshot_cdc.go and        *)
(* binlog_purge.go): a snapshot of every table by key, then the log from    *)
(* the position taken before the snapshot.  A goroutine of the reader (run) *)
(* produces the records; the runner's write loop computes and acknowledges  *)
(* checkpoints.  Meanwhile the server goes on committing.  upstream is the  *)
(* server: the version of every row (0: never there; a row is inserted,     *)
(* updated, deleted and inserted again), the log as a sequence of           *)
(* transactions, and how much of it has been purged.  A row is              *)
(* <<table, id>>; ids count from 1.                                         *)
(*                                                                          *)
(* mysql_cdc (mysql_cdc.go, the actions named Log...): the log from the     *)
(* checkpoint, from start_from or from the server's current position.       *)
(* upstream.log is the sequence of transactions, each with a number of rows *)
(* or a DDL statement; upstream.since is the position the first reader      *)
(* without a checkpoint has started at.                                     *)
(***************************************************************************)
EXTENDS Downstream

CONSTANTS
    Keys,          \* rows <<table, id>> the server may hold
    Initially,     \* those it holds at the start
    Unkeyed,       \* tables without a usable snapshot key
    Transactions,  \* the sequences of distinct rows a transaction may change
    Limit,         \* limit: rows of a snapshot page
    Sizes,         \* mysql_cdc: numbers of rows a transaction may change
    MaxCommits,    \* bound: transactions the server commits
    MaxFailures    \* bound: disconnects and failed snapshot queries of a run

NoPos == 0 - 1

\* The statements of the log count as versions of this pseudo-row.
DDL == <<0, 0>>

Tables == {key[1] : key \in Keys}

Present(version) == version % 3 # 0

InShard(key) == key[2] % conf.total = conf.index

\* ------------------------------- the server -------------------------------

ServerInit ==
    upstream = [rows   |-> [key \in Keys \cup {DDL} |-> IF key \in Initially THEN 1 ELSE 0],
                log    |-> << >>,
                purged |-> 0]

\* A transaction changes rows, or is a DDL statement, unless the reader holds
\* the global read lock.
Commit ==
    \E keys \in Transactions \cup {<<DDL>>} :
        LET rows == [key \in Keys \cup {DDL} |->
                        IF \E i \in DOMAIN keys : keys[i] = key
                        THEN upstream.rows[key] + 1 ELSE upstream.rows[key]]
        IN  /\ Len(upstream.log) < MaxCommits
            /\ ~(up /\ conf.lock /\ rd.step = "view")
            /\ upstream' = [upstream EXCEPT
                   !.rows = rows,
                   !.log  = Append(@, [i \in DOMAIN keys |-> <<keys[i], rows[keys[i]]>>])]
            /\ UNCHANGED <<conf, up, rd, queue, delivered, saved, crashes>>

\* The server drops the log files written so far.
Purge ==
    /\ upstream.purged < Len(upstream.log)
    /\ conf.policy # "none"
    /\ upstream' = [upstream EXCEPT !.purged = Len(upstream.log)]
    /\ UNCHANGED <<conf, up, rd, queue, delivered, saved, crashes>>

\* ------------------------------- the reader -------------------------------

NoCursors == [t \in Tables |-> 0]

\* rd.cp* and rd.last are what AckCheckpoint has made durable; rd.read is how
\* far the snapshot has read, rd.pos the log position the next rows carry,
\* rd.at and rd.row where the log stream is.
Closed ==
    [step |-> "start", phase |-> "snapshot", handoff |-> NoPos, view |-> << >>,
     read |-> NoCursors, last |-> NoCursors, cpPhase |-> "snapshot", cpPos |-> NoPos,
     pos |-> NoPos, at |-> 0, row |-> 0, failures |-> 0, fatal |-> FALSE, status |-> "running"]

\* lock: the snapshot holds a global read lock while it takes its view; policy:
\* cdc_on_binlog_purged, "none" where the server does not purge.
NewMySQLSnapshotCDCSource ==
    {c \in [kind : {"mysql_snapshot_cdc"}, lock : BOOLEAN, index : {0, 1}, total : {1, 2},
            policy : {"none", "fail", "resume_from_current", "resnapshot"}] : c.index < c.total}

SnapshotInit ==
    /\ PipeInit
    /\ conf \in NewMySQLSnapshotCDCSource
    /\ ServerInit
    /\ rd = Closed

\* ValidateCheckpoint: either phase needs a log position; ids are not negative.
ValidateCheckpoint(cp) ==
    /\ cp.phase \in {"snapshot", "cdc"}
    /\ cp.pos # NoPos
    /\ \A t \in Tables : cp.last[t] >= 0

\* Open: phase, cursors and position of the checkpoint;
\* a snapshot checkpoint brings its handoff position along.
Open ==
    /\ ~up
    /\ saved # << >> => ValidateCheckpoint(saved[1])
    /\ up' = TRUE
    /\ rd' = IF saved = << >> THEN Closed
             ELSE LET cp == saved[1]
                  IN  [Closed EXCEPT !.phase = cp.phase, !.cpPhase = cp.phase, !.cpPos = cp.pos,
                                     !.pos = cp.pos, !.last = cp.last, !.read = cp.last,
                                     !.handoff = IF cp.phase = "snapshot" THEN cp.pos ELSE NoPos]
    /\ UNCHANGED <<conf, upstream, queue, delivered, saved, crashes>>

Runs == UNCHANGED <<conf, upstream, up, delivered, saved, crashes>>

\* The goroutine reports an error and ends; its channels are closed.
Fatal == [rd EXCEPT !.step = "ended", !.fatal = TRUE]

\* run, snapshotStartPosition, installSnapshotHandoff: the handoff of the
\* checkpoint, or the server's current position, which becomes the durable one.
snapshotStartPosition ==
    /\ up
    /\ rd.step = "start"
    /\ rd.phase # "cdc"
    /\ rd' = IF rd.handoff # NoPos
             THEN [rd EXCEPT !.pos = rd.handoff, !.step = "view"]
             ELSE LET pos == Len(upstream.log)
                  IN  [rd EXCEPT !.handoff = pos, !.cpPhase = "snapshot", !.cpPos = pos,
                                 !.pos = pos, !.step = "view"]
    /\ UNCHANGED queue
    /\ Runs

\* The REPEATABLE READ transaction takes its view of the tables.
primeSnapshotReadView ==
    /\ up
    /\ rd.step = "view"
    /\ rd' = [rd EXCEPT !.view = upstream.rows, !.step = "rows"]
    /\ UNCHANGED queue
    /\ Runs

\* snapshotTable: the next page of a table, in key order.  Tables are read one
\* after the other, those without a key not at all.
Unread(t) ==
    {key \in Keys : /\ key[1] = t
                    /\ InShard(key)
                    /\ key[2] > rd.read[t]
                    /\ Present(rd.view[key])}

PageOf(t) ==
    {key \in Unread(t) : Cardinality({other \in Unread(t) : other[2] < key[2]}) < Limit}

snapshotTable ==
    \E t \in Tables \ Unkeyed :
        LET page == PageOf(t)
            nth(i) == CHOOSE key \in page : Cardinality({other \in page : other[2] < key[2]}) = i - 1
        IN  /\ up
            /\ rd.step = "rows"
            /\ page # {}
            /\ \A other \in Tables \ Unkeyed : other < t => Unread(other) = {}
            /\ emitReadRecord([i \in 1..Cardinality(page) |->
                   [row |-> <<nth(i), rd.view[nth(i)]>>, pos |-> NoPos]])
            /\ rd' = [rd EXCEPT !.read[t] = Max({key[2] : key \in page})]
            /\ Runs

SnapshotDone ==
    /\ up
    /\ rd.step = "rows"
    /\ \A t \in Tables \ Unkeyed : Unread(t) = {}
    /\ rd' = [rd EXCEPT !.step = "start", !.phase = "cdc"]
    /\ UNCHANGED queue
    /\ Runs

\* A query of the snapshot fails: run reports it and returns.
SnapshotFails ==
    /\ up
    /\ rd.step \in {"view", "rows"}
    /\ rd.failures < MaxFailures
    /\ rd' = [Fatal EXCEPT !.failures = @ + 1]
    /\ UNCHANGED queue
    /\ Runs

\* The log stream starts behind the durable position.  A purged position is
\* answered by the policy: end, go on at the server's position, or take a new
\* snapshot behind the durable cursors (requestResnapshot).
RunFrom ==
    /\ up
    /\ rd.step = "start"
    /\ rd.phase = "cdc"
    /\ \/ /\ rd.cpPos = NoPos
          /\ rd' = Fatal
       \/ /\ rd.cpPos >= upstream.purged
          /\ \E pos \in {rd.pos, rd.cpPos} :
                 rd' = [rd EXCEPT !.step = "stream", !.at = rd.cpPos, !.row = 0, !.pos = pos]
       \/ /\ rd.cpPos \in 0..upstream.purged - 1
          /\ CASE conf.policy = "fail" -> rd' = Fatal
               [] conf.policy = "resume_from_current" ->
                    rd' = [rd EXCEPT !.cpPos = Len(upstream.log), !.pos = Len(upstream.log)]
               [] conf.policy = "resnapshot" ->
                    rd' = [rd EXCEPT !.phase = "snapshot", !.handoff = NoPos]
    /\ UNCHANGED queue
    /\ Runs

\* OnRow and OnXID: a row carries the position its transaction starts at, which
\* moves behind the transaction after its last row.  OnDDL: a statement carries
\* the position behind itself.
OnRow ==
    LET txn    == upstream.log[rd.at + 1]
        change == txn[rd.row + 1]
        pos    == IF change[1] = DDL THEN rd.at + 1 ELSE rd.pos
    IN  /\ up
        /\ rd.step = "stream"
        /\ rd.at < Len(upstream.log)
        /\ emitReadRecord(<<[row |-> change, pos |-> pos]>>)
        /\ rd' = IF rd.row + 1 < Len(txn)
                 THEN [rd EXCEPT !.row = @ + 1]
                 ELSE [rd EXCEPT !.row = 0, !.at = @ + 1, !.pos = rd.at + 1]
        /\ Runs

\* The stream breaks; the loop reopens it at the durable position (mysql_cdc:
\* behind the last transaction it has seen).
Disconnect ==
    /\ up
    /\ rd.step = "stream"
    /\ rd.failures < MaxFailures
    /\ rd' = [rd EXCEPT !.step = "start", !.failures = @ + 1]
    /\ UNCHANGED queue
    /\ Runs

\* Read after the channels are closed: io.EOF, which the runner takes for the
\* end of a bounded source.
SourceExhausted ==
    /\ up
    /\ rd.step = "ended"
    /\ rd.status = "running"
    /\ rd' = [rd EXCEPT !.status = "completed"]
    /\ UNCHANGED queue
    /\ Runs

\* ------------------------------ checkpoints -------------------------------

FromLog(record) == record.pos # NoPos

\* checkpointFromRecords: a snapshot record behind a log record is an error.
OutOfPhase(batch) ==
    \E i \in DOMAIN batch :
        /\ ~FromLog(batch[i])
        /\ rd.cpPhase = "cdc" \/ \E j \in 1..i - 1 : FromLog(batch[j])

\* checkpointFromRecords: the durable position moved on by the records of the
\* batch, each cursor to the largest id.
checkpointFromRecords(batch) ==
    LET fromLog == {i \in DOMAIN batch : FromLog(batch[i])}
        ids(t)  == {batch[i].row[1][2] : i \in {j \in DOMAIN batch \ fromLog : batch[j].row[1][1] = t}}
    IN  [phase |-> IF fromLog = {} THEN "snapshot" ELSE "cdc",
         pos   |-> IF fromLog = {} THEN rd.cpPos ELSE batch[Max(fromLog)].pos,
         last  |-> [t \in Tables |-> Max(ids(t) \cup {rd.last[t]})]]

\* A batch is written.  Its checkpoint is saved and acknowledged, or not due, or
\* refused, which ends the run.
Write ==
    /\ up
    /\ queue # << >>
    /\ \E n \in 1..Min({BatchSize, Len(queue)}) :
           LET batch == SubSeq(queue, 1, n)
               cp    == checkpointFromRecords(batch)
           IN  /\ delivered' = delivered \cup RowsOf(batch)
               /\ \/ /\ queue' = SubSeq(queue, n + 1, Len(queue))
                     /\ UNCHANGED <<up, rd, saved>>
                  \/ /\ ~OutOfPhase(batch)
                     /\ queue' = SubSeq(queue, n + 1, Len(queue))
                     /\ saved' = <<cp>>
                     /\ rd' = [rd EXCEPT !.cpPhase = cp.phase, !.cpPos = cp.pos, !.last = cp.last,
                                         !.handoff = IF cp.phase = "snapshot" THEN cp.pos ELSE @]
                     /\ UNCHANGED up
                  \/ /\ OutOfPhase(batch)
                     /\ up' = FALSE
                     /\ queue' = << >>
                     /\ rd' = Closed
                     /\ UNCHANGED saved
    /\ UNCHANGED <<conf, upstream, crashes>>

Crash == ProcessCrash /\ rd' = Closed

ReaderStep ==
    \/ Open \/ snapshotStartPosition \/ primeSnapshotReadView \/ snapshotTable
    \/ SnapshotDone \/ RunFrom \/ OnRow

SnapshotNext ==
    \/ Commit \/ Purge
    \/ ReaderStep \/ SnapshotFails \/ Disconnect \/ SourceExhausted
    \/ Write \/ Crash

\* -------------------------------- mysql_cdc --------------------------------

LogCommit ==
    \E txn \in [ddl : {FALSE}, size : Sizes] \cup [ddl : {conf.ddl} \cap {TRUE}, size : {1}] :
        /\ Len(upstream.log) < MaxCommits
        /\ upstream' = [upstream EXCEPT !.log = Append(@, txn)]
        /\ UNCHANGED <<conf, up, rd, queue, delivered, saved, crashes>>

LogClosed ==
    [step |-> "start", pos |-> NoPos, gtid |-> NoPos, at |-> 0, row |-> 0,
     failures |-> 0, fatal |-> FALSE, status |-> "running"]

\* start: start_from; ddl: the server also runs DDL statements; policy:
\* cdc_on_binlog_purged, "none" where the server does not purge.
NewMySQLCDCSource ==
    [kind : {"mysql_cdc"}, start : {"current", "binlog", "gtid"}, ddl : BOOLEAN,
     policy : {"none", "fail", "resume_from_current"}]

CDCInit ==
    /\ PipeInit
    /\ conf \in NewMySQLCDCSource
    /\ upstream = [log |-> << >>, purged |-> 0, since |-> 0]
    /\ rd = LogClosed

\* ValidateCheckpoint: a position or a GTID set.
LogValidateCheckpoint(cp) == cp.pos # NoPos \/ cp.gtid # NoPos

\* Open: position and GTID set of the checkpoint, else of start_from, which the
\* configuration sets to the beginning of the log.
LogOpen ==
    /\ ~up
    /\ saved # << >> => LogValidateCheckpoint(saved[1])
    /\ up' = TRUE
    /\ rd' = IF saved # << >>
             THEN [LogClosed EXCEPT !.pos = saved[1].pos, !.gtid = saved[1].gtid]
             ELSE [LogClosed EXCEPT !.pos = IF conf.start = "binlog" THEN 0 ELSE NoPos,
                                 !.gtid = IF conf.start = "gtid" THEN 0 ELSE NoPos]
    /\ UNCHANGED <<conf, upstream, queue, delivered, saved, crashes>>

\* A GTID set is preferred to a position, and without either the stream starts
\* at the server's current position.
StartOf(pos, gtid) ==
    IF gtid # NoPos THEN gtid ELSE IF pos # NoPos THEN pos ELSE Len(upstream.log)

\* startCanalOnce, and the answer of the policy to a purged position: the
\* server's position replaces the file position, not the GTID set.
startCanalOnce ==
    LET from == StartOf(rd.pos, rd.gtid)
    IN  /\ up
        /\ rd.step = "start"
        /\ \/ /\ from >= upstream.purged
              /\ rd' = [rd EXCEPT !.step = "stream", !.at = from, !.row = 0,
                                  !.pos = IF rd.gtid = NoPos THEN from ELSE @]
              /\ upstream' = [upstream EXCEPT !.since = IF saved = << >> /\ conf.start = "current"
                                                          /\ rd.pos = NoPos
                                                       THEN from ELSE @]
           \/ /\ from < upstream.purged
              /\ rd' = IF conf.policy = "resume_from_current"
                       THEN [rd EXCEPT !.pos = Len(upstream.log)]
                       ELSE [rd EXCEPT !.step = "ended", !.fatal = TRUE]
              /\ UNCHANGED upstream
        /\ UNCHANGED <<conf, up, queue, delivered, saved, crashes>>

\* OnRow, and behind the last row of a transaction OnXID and OnPosSynced: a row
\* carries the position and the GTID set its transaction starts at.  OnDDL: a
\* statement carries the position behind itself and no GTID set.
LogOnRow ==
    LET txn    == upstream.log[rd.at + 1]
        record == [row |-> <<rd.at + 1, rd.row + 1>>,
                   pos |-> IF txn.ddl THEN rd.at + 1 ELSE rd.pos,
                   gtid |-> IF txn.ddl THEN NoPos ELSE rd.gtid]
    IN  /\ up
        /\ rd.step = "stream"
        /\ rd.at < Len(upstream.log)
        /\ emitReadRecord(<<record>>)
        /\ rd' = IF rd.row + 1 < txn.size
                 THEN [rd EXCEPT !.row = @ + 1]
                 ELSE [rd EXCEPT !.row = 0, !.at = @ + 1, !.pos = rd.at + 1,
                                 !.gtid = IF @ = NoPos THEN @ ELSE rd.at + 1]
        /\ UNCHANGED <<conf, upstream, up, delivered, saved, crashes>>

\* Read once the goroutine has ended: either closed channel answers io.EOF, the
\* one for errors also while records are left in the other.
LogSourceExhausted ==
    /\ up
    /\ rd.step = "ended"
    /\ rd.status = "running"
    /\ rd' = [rd EXCEPT !.status = "completed"]
    /\ \E n \in 0..Len(queue) : queue' = SubSeq(queue, 1, n)
    /\ UNCHANGED <<conf, upstream, up, delivered, saved, crashes>>

\* The position the reader has reached, for whatever record it is asked.
CheckpointReadAhead(batch) == [pos |-> rd.pos, gtid |-> rd.gtid]

\* CheckpointForRecord: what the last record carries, and what the reader has
\* reached where it carries nothing.
CheckpointForRecord(batch) ==
    LET last == batch[Len(batch)]
    IN  [pos  |-> IF last.pos # NoPos THEN last.pos ELSE rd.pos,
         gtid |-> IF last.gtid # NoPos THEN last.gtid ELSE rd.gtid]

LogWrite ==
    /\ up
    /\ queue # << >>
    /\ \E batch \in Batches : writeBatch(batch, CheckpointForRecord(batch), TRUE)
    /\ UNCHANGED <<conf, upstream, up, rd, crashes>>

LogCrash == ProcessCrash /\ rd' = LogClosed

CDCNext ==
    \/ LogCommit \/ Purge
    \/ LogOpen \/ startCanalOnce \/ LogOnRow \/ Disconnect \/ LogSourceExhausted \/ LogWrite \/ LogCrash

\* ------------------------------- properties -------------------------------

\* The rows this reader is responsible for that are there now.
Live ==
    {key \in Keys : key[1] \notin Unkeyed /\ InShard(key) /\ Present(upstream.rows[key])}

Current(key) == <<key, upstream.rows[key]>>

ChangedAfter(key, pos) ==
    \E i \in pos + 1..Len(upstream.log) : \E j \in DOMAIN upstream.log[i] : upstream.log[i][j][1] = key

\* A reader opened at the saved checkpoint still finds every live row whose
\* current version has not been written: behind the snapshot cursor of its
\* table or in the log behind the position.  So the handoff from snapshot to
\* log leaves no gap and no checkpoint runs ahead of the target (runSnapshot,
\* "no duplicates or gaps at the snapshot-CDC handoff"; CheckpointForRecords).
ResumeMissesNothing ==
    saved # << >> /\ conf.policy \in {"none", "fail"} =>
        LET cp == saved[1]
        IN  \A key \in Live :
                \/ Current(key) \in delivered
                \/ ChangedAfter(key, cp.pos)
                \/ cp.phase = "snapshot" /\ key[2] > cp.last[key[1]]

\* Without a purge every live row arrives in its last version, through
\* disconnects and crashes, unless the reader has ended by itself.
InStep ==
    conf.policy = "none" => rd.fatal \/ \A key \in Live : Current(key) \in delivered

RowsUpto(pos) ==
    {<<i, j>> \in (upstream.since + 1..pos) \X (1..Max(Sizes \cup {1})) : j <= upstream.log[i].size}

\* A checkpoint's position lies behind no row that has not been written, in
\* whatever transaction of several rows the batch ends and wherever the stream
\* was cut (CheckpointForRecord, OnRow, OnXID).  A DDL record of a stream that
\* follows GTID sets is the exception (it takes the set the reader has reached),
\* and so is the policy that accepts a gap.
LogCoversOnlyWritten ==
    /\ saved # << >>
    /\ ~(conf.start = "gtid" /\ conf.ddl)
    /\ conf.policy # "resume_from_current"
    => RowsUpto(StartOf(saved[1].pos, saved[1].gtid)) \subseteq delivered

=============================================================================
