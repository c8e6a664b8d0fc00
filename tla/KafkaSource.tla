----------------------------- MODULE KafkaSource -----------------------------
(***************************************************************************)
(* The kafka source (internal/etl/source/kafka.go): a member of a consumer  *)
(* group.  A session gives it some partitions of the topic; the broker      *)
(* takes them back at a rebalance and another member (a runner of another   *)
(* shard, say) reads them.  Positions are offsets per partition; the        *)
(* offsets committed to the group are advanced by AckCheckpoint after the   *)
(* checkpoint has been saved.                                               *)
(*                                                                          *)
(* A message is <<partition, offset>>, offsets counting from 1.  0 stands   *)
(* for "no offset" in every map of offsets.  Where the group has no offset  *)
(* it starts at the oldest message or, by default, behind the newest        *)
(* (initial_offset).                                                        *)
(***************************************************************************)
EXTENDS Downstream

CONSTANTS
    Partitions,
    LogEnd,          \* bound: messages of a partition
    Tombstones,      \* messages without a value
    Garbled,         \* messages that do not parse in the configured format
    MaxRebalances    \* bound: sessions a run goes through

\* upstream: the group's committed offsets (the last message acknowledged), the
\* end of every partition, and behind which message the last session began that
\* began at the end of a partition (history).

NoOffsets == [p \in Partitions |-> 0]

Closed ==
    [claimed |-> {}, next |-> NoOffsets, mark |-> NoOffsets, start |-> NoOffsets,
     committed |-> NoOffsets, offsets |-> NoOffsets, sessions |-> 0]

\* The policies NewKafkaSource accepts.
NewKafkaSource ==
    [kind : {"kafka"}, tombstone_policy : {"delete", "skip"}, on_parse_error : {"raw", "skip", "dlq"},
     initial_offset : {"newest", "oldest"}]

\* What ConsumeClaim makes of a message: nothing, or a record with an operation.
Decoded(m) ==
    CASE m \in Tombstones -> IF conf.tombstone_policy = "skip" THEN << >> ELSE <<"DELETE">>
      [] m \in Garbled    -> CASE conf.on_parse_error = "skip" -> << >>
                               [] conf.on_parse_error = "dlq"  -> <<"rejection">>
                               [] OTHER                        -> <<"INSERT">>
      [] OTHER            -> <<"INSERT">>

Skipped(m) == Decoded(m) = << >>

KafkaInit ==
    /\ PipeInit
    /\ conf \in NewKafkaSource
    /\ rd = Closed
    /\ upstream = [group |-> NoOffsets, from |-> NoOffsets,
                   end |-> [p \in Partitions |-> IF conf.initial_offset = "oldest" THEN LogEnd ELSE 0]]

\* A producer appends to a partition.
Produce(p) ==
    /\ upstream.end[p] < LogEnd
    /\ upstream' = [upstream EXCEPT !.end[p] = @ + 1]
    /\ UNCHANGED <<conf, up, rd, queue, delivered, saved, crashes>>

\* ValidateCheckpoint: offsets of this topic, at least one.
ValidateCheckpoint(cp) == \E p \in Partitions : cp[p] > 0

\* Open: the checkpoint's offsets become the start offsets of every session of
\* this run; the map of committed offsets starts empty.
Open ==
    /\ ~up
    /\ saved # << >> => ValidateCheckpoint(saved[1])
    /\ up' = TRUE
    /\ rd' = [Closed EXCEPT !.start = SavedOr(NoOffsets)]
    /\ UNCHANGED <<conf, queue, delivered, saved, crashes, upstream>>

\* Where a session finds an offset: the start offset, to which ResetOffset moves
\* back and MarkOffset forward, or the group's.
Known(p) == IF rd.start[p] > 0 THEN rd.start[p] ELSE upstream.group[p]

\* Without one, the end of the partition counts, if the source starts there.
AtEnd(p) == Known(p) = 0 /\ conf.initial_offset = "newest"

\* Setup of a session with some partitions.
Setup ==
    \E claims \in (SUBSET Partitions) \ {{}} :
        /\ up
        /\ rd.claimed = {}
        /\ rd.sessions < MaxRebalances
        /\ rd' = [rd EXCEPT !.claimed = claims, !.sessions = @ + 1,
                            !.next = [p \in Partitions |-> 1 + IF p \notin claims THEN 0
                                                              ELSE IF AtEnd(p) THEN upstream.end[p] ELSE Known(p)],
                            !.mark = [p \in Partitions |-> IF p \in claims THEN Known(p) ELSE 0]]
        /\ upstream' = [upstream EXCEPT !.from = [p \in Partitions |->
                            IF p \in claims /\ AtEnd(p) THEN upstream.end[p] ELSE @[p]]]
        /\ UNCHANGED <<conf, up, queue, delivered, saved, crashes>>

\* Cleanup: the session ends and its partitions are gone; records of it may
\* still be queued.
Cleanup ==
    /\ up
    /\ rd.claimed # {}
    /\ rd.sessions < MaxRebalances
    /\ rd' = [rd EXCEPT !.claimed = {}]
    /\ UNCHANGED <<conf, up, queue, delivered, saved, crashes, upstream>>

\* ConsumeClaim: the next message becomes a record with its partition and
\* offset, unless a policy skips it.
ConsumeClaim(p) ==
    /\ up
    /\ p \in rd.claimed
    /\ rd.next[p] <= upstream.end[p]
    /\ rd' = [rd EXCEPT !.next[p] = @ + 1,
                        !.offsets[p] = IF Skipped(<<p, rd.next[p]>>) THEN @
                                       ELSE Max({@, rd.next[p]})]
    /\ IF Skipped(<<p, rd.next[p]>>)
       THEN UNCHANGED queue
       ELSE emitReadRecord(<<[row |-> <<p, rd.next[p]>>]>>)
    /\ UNCHANGED <<conf, up, delivered, saved, crashes, upstream>>

\* The committed offsets merged with how far every partition has been read.
MergedReadAhead(batch) ==
    [p \in Partitions |-> Max({rd.committed[p], rd.offsets[p]})]

\* CheckpointForRecord: the last record's partition advances to its offset,
\* the others keep their committed value.
Merged(batch) ==
    LET last == batch[Len(batch)].row
    IN  [rd.committed EXCEPT ![last[1]] = Max({@, last[2]})]

\* AckCheckpoint: every partition of the position must have a session; they
\* are marked (forward only) and the session's marks are committed.
Acknowledged(offsets) == \A p \in Partitions : offsets[p] > 0 => p \in rd.claimed

Marked(offsets) ==
    [p \in Partitions |-> IF p \in rd.claimed THEN Max({rd.mark[p], offsets[p]}) ELSE rd.mark[p]]

\* A batch is written, and either no checkpoint is due, or it is saved and
\* acknowledged, or its acknowledgement fails (no session, or the commit is
\* refused) and the run ends.
Write ==
    /\ up
    /\ queue # << >>
    /\ \E n \in 1..Min({BatchSize, Len(queue)}) :
           LET batch   == SubSeq(queue, 1, n)
               offsets == Merged(batch)
               marks   == Marked(offsets)
           IN  /\ delivered' = delivered \cup RowsOf(batch)
               /\ \/ /\ queue' = SubSeq(queue, n + 1, Len(queue))
                     /\ UNCHANGED <<up, rd, saved, upstream>>
                  \/ /\ Acknowledged(offsets)
                     /\ queue' = SubSeq(queue, n + 1, Len(queue))
                     /\ saved' = <<offsets>>
                     /\ rd' = [rd EXCEPT !.committed = offsets, !.mark = marks]
                     /\ upstream' = [upstream EXCEPT !.group = [p \in Partitions |->
                                          IF p \in rd.claimed THEN marks[p] ELSE @[p]]]
                     /\ UNCHANGED up
                  \/ /\ saved' = <<offsets>>
                     /\ up' = FALSE
                     /\ queue' = << >>
                     /\ rd' = Closed
                     /\ UNCHANGED upstream
    /\ UNCHANGED <<conf, crashes>>

\* Another member of the group reads a partition this reader does not hold and
\* acknowledges what it has written: the next message, or the first behind the
\* end at which it began.
PeerCommits(p, offset) ==
    /\ p \notin rd.claimed
    /\ offset <= upstream.end[p]
    /\ IF upstream.group[p] = 0 /\ conf.initial_offset = "newest"
       THEN offset > upstream.from[p] ELSE offset = upstream.group[p] + 1
    /\ upstream' = [upstream EXCEPT !.group[p] = offset,
                       !.from[p] = IF upstream.group[p] = 0 THEN offset - 1 ELSE @]
    /\ delivered' = delivered \cup {m \in {<<p, offset>>} : ~Skipped(m)}
    /\ UNCHANGED <<conf, up, rd, queue, saved, crashes>>

Crash == ProcessCrash /\ rd' = Closed

KafkaNext ==
    \/ Open \/ Setup \/ Cleanup \/ Write \/ Crash
    \/ \E p \in Partitions : Produce(p) \/ ConsumeClaim(p) \/ \E offset \in 1..LogEnd : PeerCommits(p, offset)

\* ------------------------------- properties -------------------------------

Upto(p, offset) == {m \in {p} \X (1..offset) : ~Skipped(m)}

\* Neither the saved checkpoint nor the group's offset of a partition passes a
\* message that has not been written, whichever sessions, rebalances and
\* crashes lie between (CheckpointForRecord, "NOT the read-ahead offset";
\* AckCheckpoint).  With initial_offset newest a session without an offset
\* begins at the end of the partition, and what lies before is not read: also
\* what came since an earlier session that ended before its first checkpoint.
OffsetsCoverOnlyWritten ==
    \A p \in Partitions :
        Upto(p, Max({upstream.group[p], SavedOr(NoOffsets)[p]})) \ Upto(p, upstream.from[p]) \subseteq delivered

=============================================================================
