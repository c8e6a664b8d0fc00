------------------------------ MODULE PostgresCDC ------------------------------
(***************************************************************************)
(* The postgres_cdc source (internal/etl/source/postgres_cdc.go): an        *)
(* optional read of the tables as they are, then logical replication from a *)
(* slot, which the reader creates when it is missing.                       *)
(*                                                                          *)
(* upstream is the server: a counter of log positions (LSNs), the changes   *)
(* of open transactions, the committed transactions in commit order with    *)
(* the LSN of each change and of the commit, and the slot (<< >> or         *)
(* <<[created, confirmed]>>).  A change is an inserted row, named by its    *)
(* LSN, or a TRUNCATE, named by its LSN negated.  0 stands for an empty     *)
(* LSN.  The slot sends whole transactions in commit order, those whose     *)
(* commit lies behind the requested and the confirmed LSN.                  *)
(***************************************************************************)
EXTENDS Downstream

CONSTANTS
    Clients,       \* concurrent transactions of the server
    MaxLSN,        \* bound: log records the server writes
    MaxFailures    \* bound: connection failures of a run

\* ------------------------------- the server -------------------------------

ServerChanges(server) ==
    /\ upstream.lsn < MaxLSN
    /\ upstream' = server
    /\ UNCHANGED <<conf, up, rd, queue, delivered, saved, crashes>>

Change(c) ==
    LET lsn == upstream.lsn + 1
    IN  \E change \in {lsn} \cup (IF conf.truncates THEN {0 - lsn} ELSE {}) :
            ServerChanges([upstream EXCEPT !.lsn = lsn, !.open[c] = Append(@, change)])

CommitTxn(c) ==
    LET lsn == upstream.lsn + 1
    IN  /\ upstream.open[c] # << >>
        /\ ServerChanges([upstream EXCEPT !.lsn = lsn, !.open[c] = << >>,
               !.txns = Append(@, [changes |-> upstream.open[c], commit |-> lsn])])

Committed == UNION {{t.changes[i] : i \in DOMAIN t.changes} :
                        t \in {upstream.txns[j] : j \in DOMAIN upstream.txns}}

\* Transactions the slot skips when it is started at an LSN.
SkippedAt(lsn) ==
    Cardinality({j \in DOMAIN upstream.txns :
        upstream.txns[j].commit <= Max({lsn, upstream.slot[1].confirmed})})

\* ------------------------------- the reader -------------------------------

\* rd.aborted: closeDone was called for a TRUNCATE.
Closed ==
    [step |-> "start", phase |-> "cdc", committed |-> 0, rows |-> {}, at |-> 0, next |-> 1,
     aborted |-> FALSE, failures |-> 0]

\* snapshot: enable_snapshot; truncates: the server also runs TRUNCATE; drop:
\* drop_slot_on_close.
NewPostgresCDCSource ==
    [kind : {"postgres_cdc"}, snapshot : BOOLEAN, truncates : BOOLEAN,
     on_truncate : {"error", "skip"}, drop : BOOLEAN]

PostgresInit ==
    /\ PipeInit
    /\ conf \in NewPostgresCDCSource
    /\ upstream = [lsn |-> 0, open |-> [c \in Clients |-> << >>], txns |-> << >>, slot |-> << >>]
    /\ rd = Closed

\* ValidateCheckpoint: the log phase needs an LSN, the snapshot phase the
\* option.
ValidateCheckpoint(cp) ==
    /\ cp.phase = "cdc" => cp.lsn # 0
    /\ cp.phase = "snapshot" => conf.snapshot

\* Open and the beginning of run: the snapshot is read without a checkpoint or
\* with one of its phase.
Open ==
    LET phase == IF saved # << >> THEN saved[1].phase
                 ELSE IF conf.snapshot THEN "snapshot" ELSE "cdc"
    IN  /\ ~up
        /\ saved # << >> => ValidateCheckpoint(saved[1])
        /\ up' = TRUE
        /\ rd' = [Closed EXCEPT !.phase = phase,
                                !.committed = IF saved = << >> THEN 0 ELSE saved[1].lsn,
                                !.step = IF phase = "snapshot" THEN "select" ELSE "setup"]
        /\ UNCHANGED <<conf, upstream, queue, delivered, saved, crashes>>

Runs == UNCHANGED <<conf, up, delivered, saved, crashes>>

\* runSnapshot: SELECT * of the tables, whose rows are then sent one by one in
\* no particular order; the phase changes behind the last one.
Select ==
    /\ up
    /\ rd.step = "select"
    /\ rd' = [rd EXCEPT !.rows = {row \in Committed : row > 0}, !.step = "rows"]
    /\ UNCHANGED <<upstream, queue>>
    /\ Runs

SendRow ==
    \E row \in rd.rows :
        /\ up
        /\ rd.step = "rows"
        /\ emitReadRecord(<<[row |-> row, lsn |-> 0]>>)
        /\ rd' = [rd EXCEPT !.rows = @ \ {row}]
        /\ UNCHANGED upstream
        /\ Runs

SnapshotDone ==
    /\ up
    /\ rd.step = "rows"
    /\ rd.rows = {}
    /\ rd' = [rd EXCEPT !.phase = "cdc", !.step = "setup"]
    /\ UNCHANGED <<upstream, queue>>
    /\ Runs

\* setupSlot: an existing slot is kept, a new one starts at a point where no
\* transaction is open.
setupSlot ==
    /\ up
    /\ rd.step = "setup"
    /\ rd' = [rd EXCEPT !.step = "connect"]
    /\ IF upstream.slot # << >>
       THEN UNCHANGED upstream
       ELSE /\ \A c \in Clients : upstream.open[c] = << >>
            /\ upstream' = [upstream EXCEPT
                   !.slot = <<[created |-> upstream.lsn, confirmed |-> upstream.lsn]>>]
    /\ UNCHANGED queue
    /\ Runs

\* StartReplication at resumeLSN, the acknowledged LSN.
StartReplication ==
    /\ up
    /\ rd.step = "connect"
    /\ rd' = [rd EXCEPT !.step = "stream", !.at = SkippedAt(rd.committed), !.next = 1]
    /\ UNCHANGED <<upstream, queue>>
    /\ Runs


\* handleWALData and sendRecord: a row becomes a record with its LSN.  Once done
\* is closed the send may take either branch, the channel or done.  A TRUNCATE
\* closes done or is skipped; the loop goes on with the next message.
handleWALData ==
    LET txn    == upstream.txns[rd.at + 1]
        change == txn.changes[rd.next]
        moved  == IF rd.next < Len(txn.changes)
                  THEN [rd EXCEPT !.next = @ + 1]
                  ELSE [rd EXCEPT !.next = 1, !.at = @ + 1]
    IN  /\ up
        /\ rd.step = "stream"
        /\ rd.at < Len(upstream.txns)
        /\ \/ /\ change > 0
              /\ emitReadRecord(<<[row |-> change, lsn |-> change]>>)
              /\ rd' = moved
           \/ /\ change > 0
              /\ rd.aborted
              /\ rd' = moved
              /\ UNCHANGED queue
           \/ /\ change < 0
              /\ rd' = [moved EXCEPT !.aborted = @ \/ conf.on_truncate = "error"]
              /\ UNCHANGED queue
        /\ UNCHANGED upstream
        /\ Runs

\* ReceiveMessage fails: the loop reconnects, or returns when done is closed.
\* Read then answers "pg cdc closed" for ever, which the runner retries.
Disconnect ==
    /\ up
    /\ rd.step = "stream"
    /\ rd.failures < MaxFailures
    /\ rd' = [rd EXCEPT !.step = IF rd.aborted THEN "ended" ELSE "connect", !.failures = @ + 1]
    /\ UNCHANGED <<upstream, queue>>
    /\ Runs

\* The slot takes note of an acknowledged LSN and never goes back.
Acknowledge(lsn) ==
    [upstream EXCEPT !.slot = IF @ = << >> THEN @
                              ELSE <<[@[1] EXCEPT !.confirmed = Max({@, lsn})]>>]

\* sendStandbyStatus: a keepalive is answered with the acknowledged LSN.
sendStandbyStatus ==
    /\ up
    /\ rd.step = "stream"
    /\ upstream' = Acknowledge(rd.committed)
    /\ UNCHANGED <<rd, queue>>
    /\ Runs

\* A checkpoint at the end of the last transaction received.
CheckpointReadAhead(batch) ==
    [lsn |-> IF rd.at = 0 THEN 0 ELSE upstream.txns[rd.at].commit, phase |-> rd.phase]

\* CheckpointForRecord: the last record's LSN; a snapshot record has none and
\* takes the acknowledged LSN and the phase the reader is in by now.
CheckpointForRecord(batch) ==
    LET lsn == batch[Len(batch)].lsn
    IN  IF lsn # 0 THEN [lsn |-> lsn, phase |-> "cdc"] ELSE [lsn |-> rd.committed, phase |-> rd.phase]

\* A batch is written; its checkpoint is not due, or saved and acknowledged to
\* the slot (AckCheckpoint), or its acknowledgement fails and ends the run.
Write ==
    /\ up
    /\ queue # << >>
    /\ \E n \in 1..Min({BatchSize, Len(queue)}) :
           LET batch == SubSeq(queue, 1, n)
               cp    == CheckpointForRecord(batch)
           IN  /\ delivered' = delivered \cup RowsOf(batch)
               /\ \/ /\ queue' = SubSeq(queue, n + 1, Len(queue))
                     /\ UNCHANGED <<up, rd, saved, upstream>>
                  \/ /\ queue' = SubSeq(queue, n + 1, Len(queue))
                     /\ saved' = <<cp>>
                     /\ upstream' = Acknowledge(cp.lsn)
                     /\ rd' = [rd EXCEPT !.committed = Max({@, cp.lsn})]
                     /\ UNCHANGED up
                  \/ /\ cp.lsn # 0
                     /\ saved' = <<cp>>
                     /\ up' = FALSE
                     /\ queue' = << >>
                     /\ rd' = Closed
                     /\ UNCHANGED upstream
    /\ UNCHANGED <<conf, crashes>>

\* Close at the end of a run drops the slot if the configuration says so.
Close ==
    /\ up
    /\ conf.drop
    /\ crashes < MaxCrashes
    /\ crashes' = crashes + 1
    /\ up' = FALSE
    /\ queue' = << >>
    /\ rd' = Closed
    /\ upstream' = [upstream EXCEPT !.slot = << >>]
    /\ UNCHANGED <<conf, delivered, saved>>

Crash == ProcessCrash /\ rd' = Closed

PostgresNext ==
    \/ \E c \in Clients : Change(c) \/ CommitTxn(c)
    \/ Open \/ Select \/ SendRow \/ SnapshotDone \/ setupSlot \/ StartReplication
    \/ handleWALData \/ Disconnect \/ sendStandbyStatus \/ Write \/ Close \/ Crash

\* ------------------------------- properties -------------------------------

Inserted(txn) == {txn.changes[i] : i \in DOMAIN txn.changes} \cap Nat

\* No row is lost to a checkpoint: a transaction that a restarted slot would
\* skip has been written whole, although the transactions overlap in the log
\* and a record carries the LSN of its change, not of its commit
\* (CheckpointForRecord, AckCheckpoint, resumeLSN).  A TRUNCATE that closes
\* done is the exception.
SlotCoversOnlyWritten ==
    upstream.slot # << >> /\ ~(conf.truncates /\ conf.on_truncate = "error") =>
        LET slot == upstream.slot[1]
            upto == Max({slot.confirmed, IF saved = << >> THEN 0 ELSE saved[1].lsn})
        IN  \A j \in DOMAIN upstream.txns :
                upstream.txns[j].commit \in slot.created + 1..upto =>
                    Inserted(upstream.txns[j]) \subseteq delivered

\* With on_truncate = error nothing that follows a TRUNCATE in the stream is
\* written (handleTruncateMsg).
StopsAtTruncate ==
    conf.on_truncate = "error" /\ ~conf.snapshot =>
        \A j, k \in DOMAIN upstream.txns :
            j < k /\ (\E i \in DOMAIN upstream.txns[j].changes : upstream.txns[j].changes[i] < 0)
            /\ upstream.slot # << >> /\ upstream.txns[j].commit > upstream.slot[1].created
            => Inserted(upstream.txns[k]) \cap delivered = {}

=============================================================================
