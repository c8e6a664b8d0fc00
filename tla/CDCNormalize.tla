---------------------------- MODULE CDCNormalize ----------------------------
(***************************************************************************)
(* Change events of a Debezium connector on their way to a table: the       *)
(* message as the Kafka source decodes it (internal/etl/source/kafka.go),   *)
(* the debezium_cdc or normalize_envelope transform, and cdc_policy or      *)
(* ddl_guard (internal/etl/transform/debezium_cdc.go, envelope.go).  The    *)
(* runner is the one of TransformRunner, so messages are read again after a *)
(* crash.                                                                   *)
(*                                                                          *)
(* A connector writes a delete event and then a tombstone, a message        *)
(* without a value, for the same key.                                       *)
(***************************************************************************)
EXTENDS TransformRunner

CONSTANTS
    Tables,       \* the tables of the source
    Hidden,       \* the tables exclude_tables names
    Ids           \* primary keys

Key(r) == <<r.table, r.id>>
Rows   == Tables \X Ids

\* op as Debezium writes it; "ddl" for a schema change, "" for a tombstone.
Event(op, k, ddl) == [op |-> op, table |-> k[1], id |-> k[2], ddl |-> ddl]

\* The rows of the source after the events of l: key to the place of the event
\* that last wrote it.
Source(l) ==
    LET Step(rows, i) ==
            IF l[i].op \in {"c", "r", "u"} THEN [rows EXCEPT ![Key(l[i])] = i]
            ELSE IF l[i].op = "d" THEN [rows EXCEPT ![Key(l[i])] = 0] ELSE rows
    IN  FoldLeft(Step, [k \in Rows |-> 0], [i \in DOMAIN l |-> i])

LastIsDelete == log # << >> /\ Last(log).op = "d"

\* What the connector writes next: snapshot rows come first.
Events ==
    IF LastIsDelete THEN {Event("", Key(Last(log)), "")}
    ELSE {Event("r", k, "") : k \in {k \in Rows : /\ Source(log)[k] = 0
                                                  /\ \A i \in DOMAIN log : log[i].op = "r"}}
         \cup {Event("c", k, "") : k \in {k \in Rows : Source(log)[k] = 0}}
         \cup {Event(op, k, "") : op \in {"u", "d"}, k \in {k \in Rows : Source(log)[k] # 0}}
         \cup {Event("ddl", CHOOSE k \in Rows : k[1] = t, d) : t \in Tables, d \in {"create", "drop"}}

\* transform, tombstone_policy of the source, keep_metadata, whether a table
\* mapping renames the tables, the policy's switches, and its DDL lists.
Configs ==
    LET Base == [kind |-> "cdc", transform |-> "debezium_cdc", tombstones |-> "delete",
                 keep_metadata |-> TRUE, mapped |-> FALSE, skip_delete |-> FALSE,
                 skip_snapshot |-> FALSE, exclude |-> FALSE, dangerous_ddl |-> "reject",
                 allow |-> {}, deny |-> {}]
    IN  {Base,
         [Base EXCEPT !.transform = "normalize_envelope", !.tombstones = "skip"],
         [Base EXCEPT !.keep_metadata = FALSE, !.dangerous_ddl = "pass"],
         [Base EXCEPT !.mapped = TRUE, !.exclude = TRUE, !.dangerous_ddl = "drop"],
         [Base EXCEPT !.skip_delete = TRUE, !.skip_snapshot = TRUE, !.allow = {"create"}],
         [Base EXCEPT !.allow = {"create", "drop"}, !.deny = {"drop"}]}

NoMem == "stateless"

\* --------------------------- the Kafka message ----------------------------

\* ConsumeClaim, a message of format json: its fields become the data.  A
\* tombstone is passed on as a DELETE whose data is the marker __tombstone.
\*   data is "envelope", "marker", or a row image once normalised
decode(i) ==
    [i |-> i, op |-> IF log[i].op = "" THEN "DELETE" ELSE "INSERT",
     data |-> IF log[i].op = "" THEN "marker" ELSE "envelope",
     table |-> "topic", source |-> "", dbz |-> "", ddl |-> ""]

\* ------------------------------- normalising ------------------------------

\* A delete is not told from an update.
opTypeWithoutDelete(op, other) == IF op \in {"c", "r"} THEN "INSERT" ELSE "UPDATE"

\* debeziumOpType
debeziumOpType(op, other) ==
    CASE op \in {"c", "r"} -> "INSERT"
      [] op = "u"          -> "UPDATE"
      [] op = "d"          -> "DELETE"
      [] OTHER             -> other

\* The table mapping: one template for every source table.
mapTable(t) == IF conf.mapped THEN "mapped" ELSE t

\* annotate: _debezium_op and _source_table, which the policy reads.
annotate(r, e) ==
    IF conf.keep_metadata THEN [r EXCEPT !.dbz = e.op, !.source = e.table] ELSE r

\* DebeziumCDCTransform.Apply.  The marker of a tombstone has neither payload
\* nor op nor row image, so it passes as it is.
DebeziumApply(r) ==
    LET e == log[r.i]
    IN  IF r.data = "marker" THEN r
        ELSE IF e.op = "ddl"
             THEN annotate([r EXCEPT !.op = "DDL", !.ddl = e.ddl, !.table = mapTable(e.table)], e)
        ELSE annotate([r EXCEPT !.op = debeziumOpType(e.op, @), !.table = mapTable(e.table),
                                !.data = "row"], e)

\* EnvelopeNormalizeTransform.Apply: no table mapping, no DDL, no snapshot mark.
EnvelopeApply(r) ==
    LET e == log[r.i]
    IN  IF r.data = "marker" \/ e.op = "ddl" THEN r
        ELSE [r EXCEPT !.op = debeziumOpType(e.op, @), !.table = e.table, !.data = "row",
                       !.source = IF conf.keep_metadata THEN e.table ELSE ""]

\* -------------------------------- cdc_policy ------------------------------

\* sourceDBAndTable: the annotation, or the table of the metadata.
sourceTable(r) == IF r.source # "" THEN r.source ELSE r.table

\* filteredBySourceRules, with exclude_tables only.
filteredBySourceRules(r) == conf.exclude /\ sourceTable(r) \in Hidden

\* isDebeziumSnapshot
isDebeziumSnapshot(r) == r.dbz = "r"

\* isDangerousDDL: the denylist, then the allowlist, then the keywords.
isDangerousDDL(ddl) ==
    \/ ddl \in conf.deny
    \/ conf.allow # {} /\ ddl \notin conf.allow
    \/ conf.allow = {} /\ ddl = "drop"

\* CDCPolicyTransform.Apply: filtered, failed or passed.
PolicyApply(r) ==
    CASE filteredBySourceRules(r)                         -> "filtered"
      [] conf.skip_snapshot /\ isDebeziumSnapshot(r)      -> "filtered"
      [] conf.skip_delete /\ r.op = "DELETE"              -> "filtered"
      [] r.op = "DDL" /\ isDangerousDDL(r.ddl) /\ conf.dangerous_ddl = "drop"   -> "filtered"
      [] r.op = "DDL" /\ isDangerousDDL(r.ddl) /\ conf.dangerous_ddl = "reject" -> "failed"
      [] OTHER                                            -> "passed"

Apply(i, m, s) ==
    IF log[i].op = "" /\ conf.tombstones = "skip" THEN {Filter(m, s)}
    ELSE LET r == IF conf.transform = "debezium_cdc" THEN DebeziumApply(decode(i))
                                                     ELSE EnvelopeApply(decode(i))
         IN  CASE PolicyApply(r) = "filtered" -> {Filter(m, s)}
               [] PolicyApply(r) = "failed"   -> {Fail(m, s, 0)}
               [] OTHER                       -> {Pass(m, s, r)}

Chain(items, m, s) == applyRecordTransformsSerial(items, m, s, Apply)

\* ------------------------------ specification -----------------------------

Init ==
    /\ RunnerInit
    /\ conf \in Configs
    /\ mem = NoMem
    /\ store = NoMem

Always(r) == TRUE
SourceOf(r) == {r.i}

Next ==
    \/ Produce(Events) \/ Start
    \/ transformBatch(FALSE, Always, Chain)
    \/ writeSink([i \in DOMAIN call.outs |-> SourceOf(call.outs[i])])
    \/ flushPendingCheckpoint
    \/ Crash(NoMem, {})

\* ------------------------------- properties -------------------------------

\* The rows of the target: what the sink was given, applied in order.
Target ==
    LET Step(rows, r) ==
            IF r.data # "row" THEN rows
            ELSE [rows EXCEPT ![Key(log[r.i])] = IF r.op = "DELETE" THEN 0 ELSE r.i]
    IN  FoldLeft(Step, [k \in Rows |-> 0], out)

AllIn == call.mode = "idle" /\ pos = Len(log)

\* A table fed by the normalised stream is the table of the source, whatever
\* was read again after crashes: every event becomes the operation it stands
\* for.  (Without filters, and without failures of the sink.)
ReplaysTheTable ==
    (AllIn /\ faults = 0 /\ ~conf.skip_delete /\ ~conf.skip_snapshot /\ ~conf.exclude)
        => Target = Source(log)

\* What the policy excludes does not reach the sink: hidden tables, snapshot
\* rows, deletes, and statements the lists or the keywords forbid - a
\* statement both lists name included.  (With keep_metadata, and of tombstones
\* and messages that are no row event nothing is said.)
PolicyIsEnforced ==
    \A k \in DOMAIN out :
        LET r == out[k]  e == log[r.i]
        IN  (conf.keep_metadata /\ r.data # "marker" /\ conf.transform = "debezium_cdc") =>
                /\ ~(conf.exclude /\ e.table \in Hidden)
                /\ ~(conf.skip_snapshot /\ e.op = "r")
                /\ ~(conf.skip_delete /\ e.op = "d")
                /\ e.op = "ddl" /\ conf.dangerous_ddl # "pass" =>
                        /\ e.ddl \notin conf.deny
                        /\ conf.allow # {} => e.ddl \in conf.allow
                        /\ e.ddl = "drop" => e.ddl \in conf.allow

\* A DELETE at the sink names the row to delete: tombstones are filtered
\* (skip_tombstone is true by default in debezium_cdc and in cdc_policy).
DeletesNameTheirRow == \A k \in DOMAIN out : out[k].op = "DELETE" => out[k].data = "row"
=============================================================================
