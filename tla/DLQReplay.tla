----------------------------- MODULE DLQReplay ------------------------------
(***************************************************************************)
(* The dead_letters table and everything that works on it: the replay,      *)
(* repair and delete requests of server.go and dlq_replay_identity.go, the  *)
(* DAG replayer of orchestrator/replay.go, the retention janitor of         *)
(* janitor.go and the statements of sqlstore/store.go.  A request works on  *)
(* the rows it has read: an Update writes the whole row back.               *)
(*                                                                          *)
(* The first part is the identity half of core/record_contract.go and      *)
(* core/dlq_identity.go: when a record's Metadata.Key is a complete primary *)
(* key, what a dead letter freezes about it, and how a key is rebuilt from  *)
(* those facts.  A row image is a function on the columns whose value may   *)
(* be Absent (no such column) or Empty (null, "" or a container).           *)
(***************************************************************************)
EXTENDS Integers, Sequences, FiniteSets

CONSTANTS
    Columns,      \* columns of a row
    Absent,       \* the image has no such column
    Empty,        \* the column holds no usable key value
    Blank,        \* a column name that is only white space
    Letters,      \* ids of dead letters, in the order they are created
    Requests,     \* replay and repair requests served at the same time
    Confirmed,    \* primary keys a repair request may confirm
    HardCap,      \* MaxDLQMaxCount
    DagSinks,     \* sinks a DAG record is routed to
    Scenarios     \* [shapes, dag, meta, static, serial, ttl, max, batch, work, faults, crashes]

LOCAL INSTANCE FiniteSetsExt
LOCAL INSTANCE SequencesExt

Incomplete(reason) == [complete |-> FALSE, reason |-> reason, values |-> <<>>, changed |-> FALSE]

\* "" when the declaration is usable.
normalizedPKColumns(decl) ==
    IF decl = <<>> THEN "primary_key_columns_missing"
    ELSE IF Blank \in ToSet(decl) \/ ~IsInjective(decl) THEN "primary_key_columns_invalid"
    ELSE ""

\* Metadata.Key as the decoder sees it: nothing, no JSON, a JSON value that is
\* no object, or an object.
decodeIdentityKey(key) ==
    CASE key.kind = "none" -> "key_missing"
      [] key.kind = "invalid" -> "key_invalid_json"
      [] key.kind = "scalar" -> "key_not_object"
      [] OTHER -> ""

Members(image) == {c \in Columns : image[c] # Absent}

identityValueEmpty(v) == v = Empty

\* Present and not empty.
Usable(v) == v # Absent /\ ~identityValueEmpty(v)

canalBeforeStateAllowsDataFallback(state) == state \in {"present_empty", "partial", "full"}

\* The value the old row had in a column: the before image, completed from the
\* after image only under the Canal contract, which sends changed columns only.
Before(rec, c) ==
    IF rec.before[c] = Absent /\ rec.fmt = "canal" /\ canalBeforeStateAllowsDataFallback(rec.bstate)
    THEN rec.data[c] ELSE rec.before[c]

\* The first failing column, in the order of the declaration, decides.
FirstFailure(decl, Bad(_), Reason(_)) ==
    LET at == CHOOSE i \in DOMAIN decl : Bad(decl[i]) /\ \A j \in 1..(i - 1) : ~Bad(decl[j])
    IN  Reason(decl[at])

KeyOf(decl, image) == [c \in ToSet(decl) |-> image[c]]

\* Metadata.Key against the declaration alone.
KeyReason(rec) ==
    LET decl == rec.decl
        key == rec.key.image
    IN  IF normalizedPKColumns(decl) # "" THEN normalizedPKColumns(decl)
        ELSE IF decodeIdentityKey(rec.key) # "" THEN decodeIdentityKey(rec.key)
        ELSE IF Members(key) = {} THEN "key_empty"
        ELSE IF \E c \in ToSet(decl) : identityValueEmpty(key[c]) THEN "key_component_empty"
        ELSE IF ~(ToSet(decl) \subseteq Members(key)) THEN "key_component_missing"
        ELSE IF Members(key) # ToSet(decl) THEN "key_columns_conflict"
        ELSE ""

ImageReason(v, k, missing, empty, conflict) ==
    IF v = Absent THEN missing
    ELSE IF identityValueEmpty(v) THEN empty
    ELSE IF v # k THEN conflict ELSE ""

DataReason(rec, c) ==
    ImageReason(rec.data[c], rec.key.image[c], "data_key_component_missing",
                "data_key_component_empty", "data_key_component_conflict")

BeforeReason(rec, c) ==
    ImageReason(Before(rec, c), rec.key.image[c], "update_before_key_missing",
                "update_before_key_empty", "update_before_key_conflict")

KeyChanged(rec) == \E c \in ToSet(rec.decl) : rec.data[c] # rec.key.image[c]

Complete(rec, changed) ==
    [complete |-> TRUE, reason |-> "", values |-> KeyOf(rec.decl, rec.key.image), changed |-> changed]

InsertIdentity(rec) ==
    IF \E c \in ToSet(rec.decl) : DataReason(rec, c) # ""
    THEN Incomplete(FirstFailure(rec.decl, LAMBDA c : DataReason(rec, c) # "", LAMBDA c : DataReason(rec, c)))
    ELSE Complete(rec, FALSE)

UpdateIdentity(rec) ==
    LET fallback == rec.fmt = "canal" /\ canalBeforeStateAllowsDataFallback(rec.bstate)
        noAfter == {c \in ToSet(rec.decl) : ~Usable(rec.data[c])}
    IN  IF rec.fmt = "canal" /\ ~fallback THEN Incomplete("update_before_state_invalid")
        ELSE IF Members(rec.before) = {} /\ ~fallback THEN Incomplete("update_before_image_missing")
        ELSE IF \E c \in ToSet(rec.decl) : BeforeReason(rec, c) # ""
        THEN Incomplete(FirstFailure(rec.decl, LAMBDA c : BeforeReason(rec, c) # "", LAMBDA c : BeforeReason(rec, c)))
        ELSE IF noAfter # {}
        THEN Incomplete(FirstFailure(rec.decl, LAMBDA c : c \in noAfter, LAMBDA c : DataReason(rec, c)))
        ELSE IF rec.prov = "legacy_verified" /\ KeyChanged(rec) THEN Incomplete("legacy_key_change_unsupported")
        ELSE Complete(rec, KeyChanged(rec))

RecordIdentity(rec) ==
    IF KeyReason(rec) # "" THEN Incomplete(KeyReason(rec))
    ELSE IF rec.op = "update" THEN UpdateIdentity(rec)
    ELSE IF rec.op \in {"insert", "delete"} THEN InsertIdentity(rec)
    ELSE Complete(rec, FALSE)

-----------------------------------------------------------------------------

KnownContracts == {"canal", "envelope", "debezium"}

\* What a new dead letter freezes.
NewDLQIdentityContext(rec) ==
    [pk |-> rec.decl, fmt |-> rec.fmt, bstate |-> rec.bstate, prov |-> "normal_flow", rstate |-> "pending"]

\* Rows written before identity_context_json existed read back as legacy_unknown.
NormalizePersistedDLQIdentityContext(ctx) ==
    LET prov == IF ctx.prov = "" THEN "legacy_unknown" ELSE ctx.prov
    IN  [ctx EXCEPT !.prov = prov,
                    !.rstate = IF @ # "" THEN @
                               ELSE IF prov = "legacy_unknown" THEN "repair_required" ELSE "pending"]

FromContext(rec, ctx) ==
    [rec EXCEPT !.decl = ctx.pk, !.fmt = ctx.fmt, !.bstate = ctx.bstate, !.prov = ctx.prov]

\* The key a dead letter's frozen facts yield: from the before image of an
\* UPDATE, from the row image otherwise.
RebuiltKey(rec) ==
    [c \in Columns |-> IF c \notin ToSet(rec.decl) THEN Absent
                       ELSE IF rec.op = "update" THEN Before(rec, c) ELSE rec.data[c]]

ReconstructDLQRecordIdentity(rec, ctx) ==
    LET base == FromContext(rec, ctx)
        key == RebuiltKey(base)
        rebuilt == [base EXCEPT !.key = [kind |-> "object", image |-> key]]
        legacy == ctx.prov = "legacy_verified"
        reason ==
            IF normalizedPKColumns(ctx.pk) # "" THEN normalizedPKColumns(ctx.pk)
            ELSE IF ctx.fmt \notin KnownContracts /\ ~legacy THEN "format_contract_unknown"
            ELSE IF \E c \in ToSet(ctx.pk) : ~Usable(key[c])
            THEN IF rec.op = "update" THEN "update_before_key_missing" ELSE "data_key_component_missing"
            ELSE IF legacy /\ rec.op = "update" /\ KeyChanged(rebuilt) THEN "legacy_key_change_unsupported"
            ELSE ""
    IN  IF reason # "" THEN [rec |-> base, id |-> Incomplete(reason)]
        ELSE [rec |-> rebuilt, id |-> RecordIdentity(rebuilt)]

-----------------------------------------------------------------------------

RowOps == {"insert", "update", "delete"}

\* The key of the row a change was made to, by the meaning of the record's
\* format alone: what a reader of the source's documentation would answer.
RowBefore(rec, c) ==
    IF rec.op # "update" THEN rec.data[c]
    ELSE IF rec.before[c] # Absent THEN rec.before[c]
    ELSE IF rec.fmt = "canal" THEN rec.data[c] ELSE Absent

\* "a primary-key change cannot accidentally target the new row": an identity
\* that RecordIdentity calls complete names, column by column, the row as it
\* was before the change, and covers the whole declared key.
CompleteNamesTheOldRow(rec) ==
    LET id == RecordIdentity(rec)
    IN  id.complete /\ rec.op \in RowOps =>
            /\ DOMAIN id.values = ToSet(rec.decl)
            /\ \A c \in ToSet(rec.decl) : Usable(id.values[c]) /\ id.values[c] = RowBefore(rec, c)
            /\ id.changed <=> \E c \in ToSet(rec.decl) : rec.op = "update" /\ rec.data[c] # RowBefore(rec, c)

\* A dead letter loses nothing: what RecordIdentity accepts when the record is
\* written to the queue, the facts frozen then reconstruct to the same key
\* later, whatever the key text itself has become in between.
FrozenFactsSuffice(rec) ==
    LET id == RecordIdentity(rec)
        lost == [rec EXCEPT !.key = [kind |-> "none", image |-> [c \in Columns |-> Absent]],
                            !.decl = <<>>, !.fmt = "none", !.bstate = "absent"]
        back == ReconstructDLQRecordIdentity(lost, NewDLQIdentityContext(rec))
    IN  id.complete /\ rec.op \in RowOps /\ rec.fmt \in KnownContracts =>
            back.id.complete /\ back.id.values = id.values

\* Replay never guesses: a reconstruction that succeeds rests on a known format
\* contract or on a verified legacy declaration, and a verified legacy row
\* never moves to another key.
ReconstructionIsProven(rec, ctx) ==
    LET back == ReconstructDLQRecordIdentity(rec, ctx)
    IN  back.id.complete =>
            /\ ctx.fmt \in KnownContracts \/ ctx.prov = "legacy_verified"
            /\ \A c \in ToSet(ctx.pk) : back.id.values[c] = RowBefore(FromContext(rec, ctx), c)
            /\ ctx.prov = "legacy_verified" => ~back.id.changed

-----------------------------------------------------------------------------
(* The dead_letters table and the requests that work on it.                 *)

VARIABLES
    dconf,        \* the scenario
    letters,      \* the table: id -> row
    top,          \* the last id given out
    reqs,         \* request -> its progress
    sent,         \* id -> sink -> writes the sink has accepted
    keys,         \* id -> keys those writes carried
    acked,        \* ids whose acknowledgement has been persisted
    gone,         \* ids removed by an operator or by the janitor
    jan,          \* the janitor's pass
    cutoff,       \* rows up to this id are older than the retention period
    backlog,      \* expired rows of the audit, run and task tables
    dwork, dfaults, dcrashes

dlqVars == <<dconf, letters, top, reqs, sent, keys, acked, gone, jan, cutoff, backlog, dwork, dfaults, dcrashes>>

NoRow == [on |-> FALSE]
Off(row) == IF row.on THEN [on |-> FALSE, orig |-> row.orig] ELSE row
Row(shape) == [on |-> TRUE, rec |-> shape.rec, ctx |-> shape.ctx, node |-> shape.node, orig |-> shape]
IsOn(id) == letters[id].on
Live == {id \in Letters : IsOn(id)}

Sinks == IF dconf.dag THEN DagSinks ELSE {1}

NoReq == [pc |-> "idle"]
Idle(r) == reqs[r].pc = "idle"
At(r, pc) == reqs[r].pc = pc
Go(r, q) == reqs' = [reqs EXCEPT ![r] = q]
Return(r) == Go(r, NoReq)

OldestOf(S, n) == {id \in S : Cardinality({x \in S : x < id}) < n}

\* loadRetentionConfig: the first source that sets a value wins, and the value
\* is clamped after all of them.
loadRetentionConfig(existing, env, file, hardCap) ==
    LET set == SelectSeq(<<existing, env, file>>, LAMBDA v : v > 0)
    IN  IF set = <<>> THEN 0 ELSE Min({set[1], hardCap})

DLQInit ==
    /\ dconf \in Scenarios
    /\ \E a, b \in dconf.shapes : letters = [id \in Letters |-> IF id = 1 THEN Row(a) ELSE IF id = 2 THEN Row(b) ELSE NoRow]
    /\ top = 2
    /\ reqs = [r \in Requests |-> NoReq]
    /\ sent = [id \in Letters |-> [s \in DagSinks |-> 0]]
    /\ keys = [id \in Letters |-> {}]
    /\ acked = {} /\ gone = {}
    /\ jan = [pc |-> "idle", excess |-> 0]
    /\ cutoff = 0 /\ backlog = 2
    /\ dwork = dconf.work /\ dfaults = dconf.faults /\ dcrashes = dconf.crashes

\* A store call, or a call of a sink, that works or fails.
Call(ok) ==
    /\ ok \/ dfaults > 0
    /\ dfaults' = IF ok THEN dfaults ELSE dfaults - 1

Work == dwork > 0 /\ dwork' = dwork - 1

\* WriteEntry and WriteDeadLetter: a runner dead-letters one more record.
WriteDeadLetter(shape) ==
    /\ Work
    /\ top + 1 \in Letters
    /\ top' = top + 1
    /\ letters' = [letters EXCEPT ![top + 1] = Row([shape EXCEPT !.ctx = NewDLQIdentityContext(shape.rec)])]
    /\ UNCHANGED <<dconf, reqs, sent, keys, acked, gone, jan, cutoff, backlog, dfaults, dcrashes>>

\* UpdateDeadLetter: the row as a request knows it, if there still is a row.
UpdateDeadLetter(item) ==
    IF IsOn(item.id)
    THEN [letters EXCEPT ![item.id].rec = item.rec,
                         ![item.id].ctx = NormalizePersistedDLQIdentityContext(item.ctx)]
    ELSE letters

\* A request's Update: applied only when the store works and the row is there.
Persist(item, ok) == letters' = IF ok THEN UpdateDeadLetter(item) ELSE letters
Persisted(item, ok) == ok /\ IsOn(item.id)

\* GetDeadLetterByID: the row as it reads back.
GetDeadLetterByID(id) ==
    [id |-> id, rec |-> letters[id].rec, node |-> letters[id].node,
     ctx |-> NormalizePersistedDLQIdentityContext(letters[id].ctx)]

\* ListDeadLetters: newest first.
ListDeadLetters(sel) == LET s == SetToSortSeq(sel \cap Live, >) IN [i \in DOMAIN s |-> GetDeadLetterByID(s[i])]

IsAcked(item) == item.ctx.rstate = "sink_acked"

-----------------------------------------------------------------------------
(* replayDLQItems and replayDAGDLQItems                                      *)

\* A free slot; slots are alike, so the lowest one is taken.
MayStart(r) ==
    /\ Idle(r) /\ \A x \in Requests : x < r => ~Idle(x)
    /\ dconf.serial => \A x \in Requests : Idle(x)

\* replayDLQ and replayDLQByID: what a filter, a limit or an id selects.
Replay(r, sel) ==
    /\ MayStart(r) /\ Work
    /\ LET items == ListDeadLetters(sel)
       IN  /\ items # <<>>
           /\ Go(r, [pc |-> "clean", seen |-> acked, todo |-> SelectSeq(items, IsAcked),
                     pend |-> SelectSeq(items, LAMBDA i : ~IsAcked(i))])
    /\ UNCHANGED <<dconf, letters, top, sent, keys, acked, gone, jan, cutoff, backlog, dfaults, dcrashes>>

\* deleteReplayedDLQItem, DeleteDeadLetterByID.
DropRow(id, ok) == letters' = IF ok THEN [letters EXCEPT ![id] = Off(@)] ELSE letters

ToMark(r, item) == Go(r, [pc |-> "mark", item |-> item])

\* Rows acknowledged by an earlier request are only deleted.
CleanAcked(r, ok) ==
    /\ At(r, "clean") /\ reqs[r].todo # <<>>
    /\ Call(ok)
    /\ LET item == Head(reqs[r].todo)
       IN  /\ DropRow(item.id, ok)
           /\ IF ok THEN Go(r, [reqs[r] EXCEPT !.todo = Tail(@)]) ELSE ToMark(r, item)
    /\ UNCHANGED <<dconf, top, sent, keys, acked, gone, jan, cutoff, backlog, dwork, dcrashes>>

\* Building and opening the sink, or the DAG replayer.
OpenSink(r, ok) ==
    /\ At(r, "clean") /\ reqs[r].todo = <<>>
    /\ IF reqs[r].pend = <<>> THEN Return(r) /\ ok /\ UNCHANGED dfaults
       ELSE /\ Call(ok)
            /\ IF ok THEN Go(r, [pc |-> "prepare", seen |-> reqs[r].seen, pend |-> reqs[r].pend]) ELSE Return(r)
    /\ UNCHANGED <<dconf, letters, top, sent, keys, acked, gone, jan, cutoff, backlog, dwork, dcrashes>>

-----------------------------------------------------------------------------
(* dlq_replay_identity.go                                                    *)

sameStringSet(a, b) == ToSet(a) = ToSet(b) /\ Len(a) = Len(b)

Proceed(item) == [kind |-> "go", item |-> item]
Save(item) == [kind |-> "save", item |-> item]
blockDLQReplay(item, state) == [kind |-> "block", item |-> [item EXCEPT !.ctx.rstate = state]]

\* A complete identity is recorded in the context, where that changes it.
RecordProof(item) ==
    LET ctx == item.ctx
        unknown == ctx.prov = "legacy_unknown"
        proven == [ctx EXCEPT !.pk = IF @ = <<>> THEN item.rec.decl ELSE @,
                              !.fmt = IF @ = "none" THEN item.rec.fmt ELSE @,
                              !.prov = IF unknown THEN "contract_reconstructed" ELSE @,
                              !.rstate = IF unknown THEN "pending" ELSE @]
        next == [item EXCEPT !.ctx = proven, !.rec.prov = proven.prov]
    IN  IF proven = ctx THEN Proceed(next) ELSE Save(next)

QuarantineReasons ==
    {"format_contract_unknown", "update_before_state_invalid", "legacy_provenance_invalid",
     "legacy_key_change_unsupported"}

Rebuild(item) ==
    LET back == ReconstructDLQRecordIdentity(item.rec, item.ctx)
        prov == IF item.ctx.prov = "legacy_verified" THEN item.ctx.prov ELSE "contract_reconstructed"
    IN  IF back.id.complete
        THEN Save([item EXCEPT !.rec = [back.rec EXCEPT !.prov = prov], !.ctx.prov = prov, !.ctx.rstate = "pending"])
        ELSE blockDLQReplay(item, IF back.id.reason \in QuarantineReasons THEN "quarantined" ELSE "repair_required")

prepareLinearDLQReplay(item) ==
    IF ~dconf.meta THEN Proceed(item)
    ELSE IF item.ctx.prov = "legacy_verified" /\ (dconf.static = <<>> \/ ~sameStringSet(dconf.static, item.ctx.pk))
    THEN blockDLQReplay(item, "quarantined")
    ELSE IF RecordIdentity(item.rec).complete THEN RecordProof(item)
    ELSE IF item.ctx.prov = "legacy_unknown" THEN blockDLQReplay(item, "repair_required")
    ELSE Rebuild(item)

Ready(r, item) ==
    [pc |-> IF dconf.dag THEN "route" ELSE "transform", seen |-> reqs[r].seen, item |-> item,
     pend |-> Tail(reqs[r].pend)]

\* The next row: proven, blocked (and the request ends), or, in a DAG, refused
\* when it names no node.
Prepare(r, ok) ==
    /\ At(r, "prepare")
    /\ LET p == IF dconf.dag THEN Proceed(Head(reqs[r].pend)) ELSE prepareLinearDLQReplay(Head(reqs[r].pend))
       IN  \/ /\ p.kind = "go" /\ ok
              /\ IF dconf.dag /\ p.item.node = "" THEN Return(r) ELSE Go(r, Ready(r, p.item))
              /\ UNCHANGED <<letters, dfaults>>
           \/ /\ p.kind # "go" /\ Call(ok)
              /\ Persist(p.item, ok)
              /\ IF p.kind = "save" /\ Persisted(p.item, ok) THEN Go(r, Ready(r, p.item)) ELSE Return(r)
    /\ UNCHANGED <<dconf, top, sent, keys, acked, gone, jan, cutoff, backlog, dwork, dcrashes>>

\* What the transform chain makes of a record: unchanged as far as the key goes,
\* a key column dropped, a key column rewritten.
Outcomes == {"same", "drop", "rewrite"}
Transformed(rec, o) ==
    LET c == CHOOSE x \in Columns : \A y \in Columns : x <= y
    IN  CASE o = "same" -> rec
          [] o = "drop" -> [rec EXCEPT !.data[c] = Absent]
          [] o = "rewrite" -> [rec EXCEPT !.data[c] = IF @ = 1 THEN 2 ELSE 1]

\* transforms.Apply and validateLinearReplayIdentity.
validateLinearReplayIdentity(rec) == ~dconf.meta \/ RecordIdentity(rec).complete

Transform(r, o, ok) ==
    /\ At(r, "transform")
    /\ LET rec == Transformed(reqs[r].item.rec, o)
           item == reqs[r].item
       IN  IF validateLinearReplayIdentity(rec)
           THEN /\ ok /\ UNCHANGED <<letters, dfaults>>
                /\ Go(r, [pc |-> "write", seen |-> reqs[r].seen, item |-> item, rec |-> rec, left |-> Sinks,
                       pend |-> reqs[r].pend])
           ELSE /\ Call(ok) /\ Persist(blockDLQReplay(item, "quarantined").item, ok)
                /\ Return(r)
    /\ UNCHANGED <<dconf, top, sent, keys, acked, gone, jan, cutoff, backlog, dwork, dcrashes>>

\* A transform that fails; a linear chain that filters the record out is an
\* error here, a DAG's is not.
TransformFails(r) ==
    /\ At(r, "transform") \/ At(r, "route")
    /\ Call(FALSE)
    /\ ToMark(r, reqs[r].item)
    /\ UNCHANGED <<dconf, letters, top, sent, keys, acked, gone, jan, cutoff, backlog, dwork, dcrashes>>

\* DAGReplayer.route: the sinks reached from the node, none when a transform on
\* the way filters the record.
Route(r, filtered) ==
    /\ At(r, "route")
    /\ LET q == reqs[r]
           left == IF filtered THEN {} ELSE IF q.item.node = "sink" THEN {1} ELSE Sinks
       IN  Go(r, [pc |-> IF left = {} THEN "check" ELSE "write", seen |-> q.seen, item |-> q.item, rec |-> q.item.rec,
                  left |-> left, pend |-> q.pend])
    /\ filtered => reqs[r].item.node # "sink"
    /\ UNCHANGED <<dconf, letters, top, sent, keys, acked, gone, jan, cutoff, backlog, dwork, dfaults, dcrashes>>

Written(id, s, rec) ==
    /\ sent' = [sent EXCEPT ![id][s] = Min({@ + 1, 2})]
    /\ keys' = [keys EXCEPT ![id] = @ \cup IF dconf.meta THEN {KeyOf(rec.decl, rec.key.image)} ELSE {}]

\* The first sink that fails ends the request; the acknowledgement waits for
\* all of them.
AfterWrite(q, s, ok) ==
    IF ~ok THEN [pc |-> "mark", item |-> q.item]
    ELSE [q EXCEPT !.left = @ \ {s}, !.pc = IF q.left = {s} THEN "check" ELSE "write"]

\* retry.Do around sink.Write: it succeeds, or fails with or without effect.
WriteSink(r, s, ok, landed) ==
    /\ At(r, "write") /\ s \in reqs[r].left
    /\ Call(ok)
    /\ ok => landed
    /\ LET q == reqs[r]
       IN  /\ IF landed THEN Written(q.item.id, s, q.rec) ELSE UNCHANGED <<sent, keys>>
           /\ Go(r, AfterWrite(q, s, ok))
    /\ UNCHANGED <<dconf, letters, top, acked, gone, jan, cutoff, backlog, dwork, dcrashes>>

\* The candidate row a successful write is recorded as.
checkpointDLQReplay(item) == [item EXCEPT !.ctx.rstate = "sink_acked"]

Checkpoint(r, ok) ==
    /\ At(r, "check") /\ Call(ok)
    /\ LET item == checkpointDLQReplay(reqs[r].item)
       IN  /\ Persist(item, ok)
           /\ IF Persisted(item, ok)
              THEN /\ acked' = acked \cup {item.id}
                   /\ Go(r, [pc |-> "delete", seen |-> reqs[r].seen, item |-> item, pend |-> reqs[r].pend])
              ELSE ToMark(r, reqs[r].item) /\ UNCHANGED acked
    /\ UNCHANGED <<dconf, top, sent, keys, gone, jan, cutoff, backlog, dwork, dcrashes>>

Delete(r, ok) ==
    /\ At(r, "delete") /\ Call(ok)
    /\ DropRow(reqs[r].item.id, ok)
    /\ IF ~ok THEN ToMark(r, reqs[r].item)
       ELSE IF reqs[r].pend = <<>> THEN Return(r)
       ELSE Go(r, [pc |-> "prepare", seen |-> reqs[r].seen, pend |-> reqs[r].pend])
    /\ UNCHANGED <<dconf, top, sent, keys, acked, gone, jan, cutoff, backlog, dwork, dcrashes>>

markAsPending(item) == [item EXCEPT !.ctx.rstate = "pending"]
\* markDLQReplayFailure: the row is written back with the state the request
\* holds, and the request ends whether or not that works.
markDLQReplayFailure(item) == item

Mark(r, ok) ==
    /\ At(r, "mark") /\ Call(ok)
    /\ Persist(markDLQReplayFailure(reqs[r].item), ok)
    /\ Return(r)
    /\ UNCHANGED <<dconf, top, sent, keys, acked, gone, jan, cutoff, backlog, dwork, dcrashes>>

-----------------------------------------------------------------------------
(* repairLegacyDLQIdentity                                                   *)

RepairRead(r, id, pk) ==
    /\ ~dconf.dag /\ dconf.meta
    /\ MayStart(r) /\ Work /\ IsOn(id)
    /\ LET item == GetDeadLetterByID(id)
       IN  /\ ~IsAcked(item) /\ item.ctx.prov \in {"legacy_unknown", "legacy_verified"}
           /\ Go(r, [pc |-> "repair", item |-> item, pk |-> pk])
    /\ UNCHANGED <<dconf, letters, top, sent, keys, acked, gone, jan, cutoff, backlog, dfaults, dcrashes>>

\* The row a repair writes: verified, or blocked with the reason's state.
repairLegacyDLQIdentity(item, pk) ==
    LET frozen == item.ctx.pk
        original == IF frozen # <<>> THEN frozen ELSE item.rec.decl
        candidate == [item.ctx EXCEPT !.pk = original,
                                      !.fmt = IF @ = "none" THEN item.rec.fmt ELSE @,
                                      !.bstate = IF @ = "" THEN item.rec.bstate ELSE @,
                                      !.prov = "legacy_verified", !.rstate = "pending"]
        back == ReconstructDLQRecordIdentity(item.rec, candidate)
    IN  IF frozen # <<>> /\ item.rec.decl # <<>> /\ ~sameStringSet(item.rec.decl, frozen)
        THEN blockDLQReplay(item, "quarantined").item
        ELSE IF original = <<>> THEN blockDLQReplay(item, "repair_required").item
        ELSE IF \/ pk = <<>> \/ ~sameStringSet(pk, original)
                \/ dconf.static = <<>> \/ ~sameStringSet(dconf.static, original)
                \/ ~back.id.complete
        THEN blockDLQReplay(item, "quarantined").item
        ELSE [item EXCEPT !.rec = back.rec, !.ctx = candidate]

RepairWrite(r, ok) ==
    /\ At(r, "repair") /\ Call(ok)
    /\ Persist(repairLegacyDLQIdentity(reqs[r].item, reqs[r].pk), ok)
    /\ Return(r)
    /\ UNCHANGED <<dconf, top, sent, keys, acked, gone, jan, cutoff, backlog, dwork, dcrashes>>

-----------------------------------------------------------------------------
(* Operators' deletes, the janitor, time and crashes                         *)

Purge(S) ==
    /\ letters' = [id \in Letters |-> IF id \in S THEN Off(letters[id]) ELSE letters[id]]
    /\ gone' = gone \cup (S \cap Live)

\* deleteFilteredDLQ and DELETE by id: everything, or what a filter selects,
\* oldest first when a limit applies.
DeleteLetters(S) ==
    /\ Work /\ S # {} /\ S \subseteq Live
    /\ Purge(S)
    /\ UNCHANGED <<dconf, top, reqs, sent, keys, acked, jan, cutoff, backlog, dfaults, dcrashes>>

\* The cap from the environment or the configuration file, and whether the
\* janitor has anything to do at all.
DLQMaxCount == loadRetentionConfig(dconf.max[1], dconf.max[2], dconf.max[3], HardCap)
JanitorEnabled == dconf.ttl \/ DLQMaxCount > 0

\* DeleteDeadLettersByFilter with a limit: rewriteLimitedDelete orders by age.
DeleteDeadLettersByFilter(S, n) == OldestOf(S, n)

JanStep(pc, excess) == jan' = [pc |-> pc, excess |-> excess]

\* One pass of runRetentionJanitor: the rows past the retention period,
JanitorTTL(ok) ==
    /\ jan.pc = "idle" /\ JanitorEnabled /\ Call(ok)
    /\ IF ok /\ dconf.ttl THEN Purge(DeleteDeadLettersByFilter({id \in Live : id <= cutoff}, dconf.batch)) ELSE UNCHANGED <<letters, gone>>
    /\ JanStep("count", 0)
    /\ UNCHANGED <<dconf, top, reqs, sent, keys, acked, cutoff, backlog, dwork, dcrashes>>

\* the count of rows, of which one batch at most goes in a pass,
ExcessInOneBatch(n) == IF n - DLQMaxCount > dconf.batch THEN 0 ELSE n - DLQMaxCount
Excess(n) == Min({n - DLQMaxCount, dconf.batch})

JanitorCount(ok) ==
    /\ jan.pc = "count" /\ Call(ok)
    /\ IF ok /\ DLQMaxCount > 0 /\ Cardinality(Live) > DLQMaxCount
       THEN JanStep("trim", Excess(Cardinality(Live)))
       ELSE JanStep("rest", 0)
    /\ UNCHANGED <<dconf, letters, top, reqs, sent, keys, acked, gone, cutoff, backlog, dwork, dcrashes>>

\* the oldest rows above the cap,
JanitorTrim(ok) ==
    /\ jan.pc = "trim" /\ Call(ok)
    /\ IF ok THEN Purge(DeleteDeadLettersByFilter(Live, jan.excess)) ELSE UNCHANGED <<letters, gone>>
    /\ JanStep("rest", 0)
    /\ UNCHANGED <<dconf, top, reqs, sent, keys, acked, cutoff, backlog, dwork, dcrashes>>

\* and the other tables (purgeByTime), each on its own.
JanitorRest(ok) ==
    /\ jan.pc = "rest" /\ Call(ok)
    /\ backlog' = IF ok THEN backlog - Min({backlog, dconf.batch}) ELSE backlog
    /\ JanStep("idle", 0)
    /\ UNCHANGED <<dconf, letters, top, reqs, sent, keys, acked, gone, cutoff, dwork, dcrashes>>

Janitor == \E ok \in BOOLEAN : JanitorTTL(ok) \/ JanitorCount(ok) \/ JanitorTrim(ok) \/ JanitorRest(ok)

\* Rows grow older.
Age ==
    /\ Work /\ cutoff < top /\ cutoff' = cutoff + 1
    /\ UNCHANGED <<dconf, letters, top, reqs, sent, keys, acked, gone, jan, backlog, dfaults, dcrashes>>

\* The process dies: requests and the janitor's pass are gone, the table is not.
Crash ==
    /\ dcrashes > 0 /\ dcrashes' = dcrashes - 1
    /\ \E r \in Requests : ~Idle(r)
    /\ reqs' = [r \in Requests |-> NoReq]
    /\ JanStep("idle", 0)
    /\ UNCHANGED <<dconf, letters, top, sent, keys, acked, gone, cutoff, backlog, dwork, dfaults>>

ReplayStep(r) ==
    \/ \E ok \in BOOLEAN :
           \/ CleanAcked(r, ok) \/ OpenSink(r, ok) \/ Prepare(r, ok) \/ Checkpoint(r, ok)
           \/ Delete(r, ok) \/ Mark(r, ok) \/ RepairWrite(r, ok)
           \/ \E o \in Outcomes : Transform(r, o, ok)
           \/ \E landed \in BOOLEAN, s \in DagSinks : WriteSink(r, s, ok, landed)
    \/ TransformFails(r)
    \/ \E filtered \in BOOLEAN : Route(r, filtered)

DLQNext ==
    \/ \E shape \in dconf.shapes : WriteDeadLetter(shape)
    \/ \E r \in Requests :
           \/ \E sel \in SUBSET Letters : Replay(r, sel)
           \/ \E id \in Letters, pk \in Confirmed : RepairRead(r, id, pk)
           \/ ReplayStep(r)
    \/ \E S \in {{id} : id \in Letters} \cup {Live} : DeleteLetters(S)
    \/ Janitor \/ Age \/ Crash

-----------------------------------------------------------------------------

\* Requests that are about to write a row whose acknowledgement was already
\* persisted when they began.
WritingAgain == {r \in Requests : At(r, "write") /\ reqs[r].item.id \in reqs[r].seen}

\* "the next replay request observes sink_acked and only completes cleanup; it
\* does not write the record to the sink a second time"
\* (dlq_replay_identity.go:140-142): across failed deletes, failed updates,
\* repairs and crashes, as long as requests come one after the other.
NextReplayOnlyCleans == dconf.serial => WritingAgain = {}

\* "Preserve it on cleanup failure so a retry cannot write the same item to the
\* sink again" (dlq_replay_identity.go:134-135), for requests that may overlap.
AckIsPreserved == WritingAgain = {}

\* A dead letter leaves the table only because the sinks have it, or because an
\* operator or the janitor removed it.
LettersLeaveDelivered ==
    \A id \in 1..top : ~IsOn(id) /\ id \notin gone => id \in acked

\* An acknowledgement stands for a write: no linear row, and no row of a DAG's
\* sink node, is acknowledged unless the sink has accepted it.
AckedWasWritten ==
    \A id \in acked : ~dconf.dag \/ letters[id].orig.node = "sink" => sent[id][1] >= 1

\* Replay "never derives historical key semantics from the current source
\* configuration": each key a replay has sent is the key of the changed row as
\* the row that was dead-lettered tells it.
SentKeysAreOriginal ==
    \A id \in 1..top : \A k \in keys[id] :
        LET o == letters[id].orig
            rec == FromContext(o.rec, [o.ctx EXCEPT !.pk = IF @ = <<>> THEN o.rec.decl ELSE @,
                                                    !.fmt = IF @ = "none" THEN o.rec.fmt ELSE @])
        IN  DOMAIN k = ToSet(rec.decl) /\ \A c \in DOMAIN k : Usable(k[c]) /\ k[c] = RowBefore(rec, c)

\* The janitor removes oldest rows first: it never deletes a dead letter and
\* keeps an older one.
PurgeOldestFirst ==
    jan' # jan => \A i, j \in Live : i < j /\ ~letters'[j].on => ~letters'[i].on

\* The cap holds in the end: with finitely many new rows the table shrinks to
\* the configured number of dead letters, however small a batch is.
CapIsWithin == DLQMaxCount > 0 => Cardinality(Live) <= DLQMaxCount
=============================================================================
