----------------------------- MODULE BatchChain -----------------------------
(***************************************************************************)
(* Chains with a batch transform (internal/etl/core/core.go,                *)
(* TransformChain.ApplyBatch): flat_map and ts turn a record into none, one *)
(* or several (transform/flat_map.go, ts.go), sort reorders a batch         *)
(* (sort.go), validate rejects records one by one (validate.go).  The       *)
(* failures of all transforms of the chain are collected; an error that is  *)
(* not a PartialTransformError sends the whole batch to the dead letter     *)
(* queue.  The last part is the dbt bridge (dbt.go).                        *)
(***************************************************************************)
EXTENDS TransformRunner
CONSTANTS
    MaxBuffer,    \* max_buffer of sort
    SortKeys      \* values of the field sorted by; 0 is null

\* n: how many records the script makes of it, -1 when it raises an error;
\* ok: whether it satisfies the rules of validate.
Records == [n : {-1, 0, 1, 2}, key : SortKeys, ok : BOOLEAN]

\* The records that show something: the rules' verdict varies where the chain
\* has rules, the script's outcome where it has a script.
RecordsInUse == {r \in Records : /\ conf.chain[1] = "validate" => r.n = 1
                                 /\ conf.chain[1] # "validate" => r.ok
                                 /\ r.n < 1 => r.key = 0
                                 /\ r.n = 2 => r.key # 0}

\* (on_failure "error" of validate fails the record as "dlq" does.)
Configs ==
    {c \in [kind : {"batch"}, onError : {"dlq", "drop", "error"}, desc : BOOLEAN,
            chain : {<<"flat_map", "sort">>, <<"validate", "sort">>, <<"sort", "flat_map">>}] :
        /\ c.desc => c.onError = "dlq"
        /\ c.chain[1] = "validate" => c.onError # "error" /\ ~c.desc
        /\ c.chain[1] = "sort" => c.onError = "dlq" /\ ~c.desc}

NoMem == "none"

\* A record on its way: the place it came from, the number of the copy.
Rec(i, c) == [i |-> i, c |-> c]

KeyOf(r) == log[r.i].key

\* ----------------------------- the transforms -----------------------------

\* What a transform makes of the records: those left, those failed, and
\* whether it gave up on the batch.
Made(recs, failed, fatal) == [recs |-> recs, failed |-> failed, fatal |-> fatal]

\* applyOne: the records a script returns for one record.
applyOne(r) == [c \in 1..log[r.i].n |-> Rec(r.i, c)]

Raises(r) == log[r.i].n = -1

\* FlatMapTransform.ApplyBatch; ts is the case "dlq".
flatMap(recs) ==
    Made(FlattenSeq([k \in DOMAIN recs |-> IF Raises(recs[k]) THEN << >> ELSE applyOne(recs[k])]),
         IF conf.onError = "dlq" THEN {r \in ToSet(recs) : Raises(r)} ELSE {},
         conf.onError = "error" /\ \E k \in DOMAIN recs : Raises(recs[k]))

\* less: null before everything, the other way round under desc.
less(r, s) == IF conf.desc THEN KeyOf(r) > KeyOf(s) ELSE KeyOf(r) < KeyOf(s)

\* sort.SliceStable with less: the one order of the places k of recs in which
\* no record comes after one it is less than and equals keep their order.
sortStable(recs) ==
    LET before(a, b) == less(recs[a], recs[b]) \/ (~less(recs[b], recs[a]) /\ a < b)
        rank(a) == 1 + Cardinality({b \in DOMAIN recs : before(b, a)})
    IN  [k \in DOMAIN recs |-> recs[CHOOSE a \in DOMAIN recs : rank(a) = k]]

\* SortTransform.ApplyBatch
sort(recs) ==
    IF Len(recs) > MaxBuffer THEN Made(<< >>, {}, TRUE) ELSE Made(sortStable(recs), {}, FALSE)

\* ValidateTransform.Apply on each record, as the loop of ApplyBatch calls it:
\* handleFailure filters, or fails the record.
validate(recs) ==
    LET bad == {r \in ToSet(recs) : ~log[r.i].ok}
    IN  Made(SelectSeq(recs, LAMBDA r : r \notin bad), IF conf.onError = "drop" THEN {} ELSE bad, FALSE)

Apply(t, recs) ==
    CASE t = "flat_map" -> flatMap(recs)
      [] t = "sort"     -> sort(recs)
      [] t = "validate" -> validate(recs)


\* TransformChain.ApplyBatch for a chain of two: the second is not called on
\* an empty batch, and a fatal error drops the failures collected so far,
\* as the caller then fails the whole batch.
ApplyBatch(recs) ==
    LET one == Apply(conf.chain[1], recs)
        two == IF one.fatal \/ one.recs = << >> THEN Made(one.recs, {}, one.fatal)
                                                ELSE Apply(conf.chain[2], one.recs)
    IN  Made(two.recs, one.failed \cup two.failed, two.fatal)

Chain(items, m, s) ==
    LET made == ApplyBatch([k \in DOMAIN items |-> Rec(items[k], 1)])
    IN  {[Result(m, s) EXCEPT !.outs = made.recs, !.fatal = made.fatal,
                              !.failed = {k \in DOMAIN items :
                                            \E r \in made.failed : r.i = items[k]}]}

\* ------------------------------ specification -----------------------------

Init ==
    /\ RunnerInit
    /\ conf \in Configs
    /\ mem = NoMem
    /\ store = NoMem

Always(r) == TRUE
SourceOf(r) == {r.i}

Next ==
    \/ Produce(RecordsInUse) \/ Start
    \/ transformBatch(TRUE, Always, Chain)
    \/ writeSink([i \in DOMAIN call.outs |-> SourceOf(call.outs[i])])
    \/ flushPendingCheckpoint
    \/ Crash(NoMem, {})

\* ------------------------------- properties -------------------------------

\* The records the configuration lets go without a trace.
MayVanish(i) ==
    \/ log[i].n = 0 /\ conf.chain # <<"validate", "sort">>
    \/ log[i].n = -1 /\ conf.onError = "drop" /\ conf.chain # <<"validate", "sort">>
    \/ ~log[i].ok /\ conf.onError = "drop" /\ conf.chain = <<"validate", "sort">>

Copies(i) == IF conf.chain = <<"validate", "sort">> THEN 1 ELSE log[i].n

\* A saved checkpoint covers only records that are at the sink with every
\* copy the script made of them, are in the dead letter queue, or were
\* dropped on purpose - whichever transform of the chain failed, whatever the
\* crashes.
CheckpointCoversSettled ==
    \A i \in 1..saved :
        \/ i \in dlq
        \/ MayVanish(i)
        \/ Copies(i) > 0 /\ \A c \in 1..Copies(i) : \E k \in DOMAIN out : out[k] = Rec(i, c)

\* A record that failed in the chain does not also reach the sink.  (Before
\* any crash, after which the batches are cut anew, or failure of the sink.)
FailedStayOut ==
    (crashes = << >> /\ faults = 0) =>
        \A k \in DOMAIN out : out[k].i \notin dlq

\* The batch handed to the sink after a sort is ordered, and records with
\* equal keys keep the order of the source: a later change of a row is not
\* written before an earlier one.
SortedForTheSink ==
    (conf.chain[2] = "sort") =>
        \A j, k \in DOMAIN InFlight : j < k =>
            /\ ~less(InFlight[k], InFlight[j])
            /\ KeyOf(InFlight[j]) = KeyOf(InFlight[k]) =>
                    \/ InFlight[j].i < InFlight[k].i
                    \/ InFlight[j].i = InFlight[k].i /\ InFlight[j].c < InFlight[k].c

-----------------------------------------------------------------------------
(* The dbt transform (internal/etl/transform/dbt.go): a batch is written to *)
(* a source table of a database, dbt builds a model over that table, and    *)
(* the rows of the model's target table are the batch's output.  The tables *)
(* outlive the process and the batch; each of the three steps may fail.     *)

\* write_mode
DBTConfigs == [kind : {"dbt"}, mode : {"replace", "insert"}]

\* The rows of the source table and of the target table, by the records they
\* come from.
NoTables == [source |-> {}, target |-> {}]

\* writeSourceRows: the DELETE of write_mode replace commits on its own, then
\* one transaction inserts the batch.
writeSourceRows(s, recs) ==
    LET cleared == IF conf.mode = "replace" THEN [s EXCEPT !.source = {}] ELSE s
    IN  {[st |-> [cleared EXCEPT !.source = @ \cup recs], err |-> FALSE],
         [st |-> cleared, err |-> TRUE], [st |-> s, err |-> TRUE]}

\* runDBT: the model is built from the source table (external), or the target
\* is as it was.
runDBT(s) == {[st |-> [s EXCEPT !.target = s.source], err |-> FALSE], [st |-> s, err |-> TRUE]}

\* readTargetRows: every row of the target table.  (The order is the
\* database's; no property depends on it.)
readTargetRows(s) ==
    LET rows == SetToSortSeq(s.target, <)
    IN  [k \in DOMAIN rows |-> [i |-> rows[k]]]

\* DBTApplyBatch: an error of any step is fatal for the batch.
DBTApplyBatch(items, m, s) ==
    UNION {IF w.err THEN {[Result(m, w.st) EXCEPT !.fatal = TRUE, !.fault = 1]}
           ELSE UNION {IF d.err THEN {[Result(m, d.st) EXCEPT !.fatal = TRUE, !.fault = 1]}
                       ELSE {[Result(m, d.st) EXCEPT !.outs = readTargetRows(d.st)],
                             [Result(m, d.st) EXCEPT !.fatal = TRUE, !.fault = 1]} :
                            d \in runDBT(w.st)} :
                w \in writeSourceRows(s, ToSet(items))}

DBTInit ==
    /\ RunnerInit
    /\ conf \in DBTConfigs
    /\ mem = NoMem
    /\ store = NoTables

DBTAlways(r) == TRUE
DBTSourceOf(r) == {r.i}

DBTNext ==
    \/ Produce({"row"}) \/ Start
    \/ transformBatch(TRUE, DBTAlways, DBTApplyBatch)
    \/ writeSink([i \in DOMAIN call.outs |-> DBTSourceOf(call.outs[i])])
    \/ flushPendingCheckpoint
    \/ Crash(NoMem, {})

\* ------------------------------- properties -------------------------------

InFlightRecords == {InFlight[k].i : k \in DOMAIN InFlight}

\* With write_mode replace a batch is made of its own records only: nothing
\* of a batch that failed half way, or of one the process died in, comes back
\* through the target table.
BatchIsItsOwn ==
    (conf.mode = "replace" /\ call.mode = "sink") =>
        InFlightRecords = pos - Len(InFlight) + 1..pos
=============================================================================
