--------------------------- MODULE WindowTransform ---------------------------
(***************************************************************************)
(* The tumbling window (internal/etl/transform/window.go): records are      *)
(* accumulated by event time into windows and groups, windows the wall      *)
(* clock has left are emitted with the next batch, and the whole state is   *)
(* written to the state store before the emitted records reach the sink.    *)
(* At the end of a bounded source the writer flushes what is left.          *)
(*                                                                          *)
(* An aggregate is kept as the sequence of the records in it: what the      *)
(* aggregators make of them is a function of that sequence.  Time is        *)
(* counted in windows, from 1 on.                                           *)
(***************************************************************************)
EXTENDS TransformRunner

CONSTANTS
    Groups        \* values of the group_by fields

Windows == 1..MaxNow

\* (The groups are alike: the first record is of the first one.  Bound: only
\* where lateness is limited is a record of the last window worth having.)
Records == [ts : IF conf.lateness = 0 THEN Windows \ {MaxNow} ELSE Windows,
            group : IF log = << >> THEN {CHOOSE g \in Groups : TRUE} ELSE Groups]

\* A record the drain sends through the chain again.
Flushed == 0

EmptyBuffer == [w \in Windows |-> [g \in Groups |-> << >>]]

\* buffer, maxEventTime, lastEmittedWindow, stateRestored
NewMem == [buffer |-> EmptyBuffer, maxEventTime |-> 0, lastEmitted |-> 0, restored |-> FALSE]

NoState == [kept |-> FALSE, buffer |-> EmptyBuffer, maxEventTime |-> 0, lastEmitted |-> 0]

\* ------------------------------ aggregation -------------------------------

aggState == [count |-> 0, sum |-> 0, avgSum |-> 0, avgCnt |-> 0, min |-> 0, max |-> 0,
             minInit |-> FALSE, maxInit |-> FALSE, first |-> 0, last |-> 0]

\* The aggregated fields: one grows along the log, the other falls.
Field(i, ad) == IF i = Flushed THEN 0 ELSE IF ad.field = "a" THEN i ELSE MaxLog + 1 - i

\* accumulate, the aggregators' part: one record into the aggregate's fields.
Aggregate(st, i, ads) ==
    LET One(acc, ad) ==
            LET v == Field(i, ad)
            IN  CASE ad.func = "count" -> acc
                  [] ad.func = "sum" -> [acc EXCEPT !.sum = @ + v]
                  [] ad.func = "avg" -> [acc EXCEPT !.avgSum = @ + v, !.avgCnt = @ + 1]
                  [] ad.func = "min" -> [acc EXCEPT !.min = IF ~acc.minInit \/ v < @ THEN v ELSE @,
                                                    !.minInit = TRUE]
                  [] ad.func = "max" -> [acc EXCEPT !.max = IF ~acc.maxInit \/ v > @ THEN v ELSE @,
                                                    !.maxInit = TRUE]
                  [] ad.func = "first" -> [acc EXCEPT !.first = IF @ = 0 THEN v ELSE @]
                  [] ad.func = "last" -> [acc EXCEPT !.last = v]
    IN  FoldSet(LAMBDA ad, acc : One(acc, ad), [st EXCEPT !.count = @ + 1], ads)

\* buildOutputRecord: the aggregators' columns; an average is kept as the pair
\* it is the quotient of.
OutputValue(st, ad) ==
    CASE ad.func = "count" -> <<st.count>>
      [] ad.func = "sum"   -> <<st.sum>>
      [] ad.func = "avg"   -> <<st.avgSum, st.avgCnt>>
      [] ad.func = "min"   -> <<st.min>>
      [] ad.func = "max"   -> <<st.max>>
      [] ad.func = "first" -> <<st.first>>
      [] ad.func = "last"  -> <<st.last>>

buildOutputRecord(w, g, items) ==
    LET st == FoldLeft(LAMBDA acc, i : Aggregate(acc, i, conf.aggs), aggState, items)
    IN  [w |-> w, g |-> g, items |-> items, at |-> now,
         cols |-> [ad \in conf.aggs |-> OutputValue(st, ad)]]

\* -------------------------------- windows ---------------------------------

\* A record as the window sees it: a source record, or a flushed aggregate.
Input(i) == [item |-> i, ts |-> log[i].ts, group |-> log[i].group]

\* accumulate: too late a record is dropped when allowed_lateness is set.
accumulate(m, r) ==
    LET late == conf.lateness > 0 /\ r.ts <= m.maxEventTime
                /\ r.ts < m.maxEventTime - conf.lateness
    IN  IF late THEN m
        ELSE [m EXCEPT !.buffer[r.ts][r.group] = Append(@, r.item),
                       !.maxEventTime = IF conf.lateness > 0 /\ r.ts > @ THEN r.ts ELSE @]

\* restoreStateLocked: one attempt per process, whatever becomes of it.
restoreStateLocked(m, s) ==
    IF m.restored \/ ~conf.store THEN {[mem |-> [m EXCEPT !.restored = TRUE], ok |-> TRUE]}
    ELSE {[mem |-> IF s.kept THEN [buffer |-> s.buffer, maxEventTime |-> s.maxEventTime,
                                   lastEmitted |-> s.lastEmitted, restored |-> TRUE]
                             ELSE [m EXCEPT !.restored = TRUE],
           ok |-> TRUE]}
         \cup (IF conf.flaky THEN {[mem |-> [m EXCEPT !.restored = TRUE], ok |-> FALSE]} ELSE {})

\* persistStateLocked
persistStateLocked(m, s) ==
    IF ~conf.store THEN {[store |-> s, ok |-> TRUE]}
    ELSE {[store |-> [kept |-> TRUE, buffer |-> m.buffer, maxEventTime |-> m.maxEventTime,
                      lastEmitted |-> m.lastEmitted], ok |-> TRUE]}
         \cup (IF conf.flaky THEN {[store |-> s, ok |-> FALSE]} ELSE {})

Live(m, w) == \E g \in Groups : m.buffer[w][g] # << >>

\* The windows the clock has left and that were not emitted before.
ClosedWindows(m) == {w \in Windows : w < now /\ w > m.lastEmitted /\ Live(m, w)}

OutputsOf(m, ws) ==
    LET cells == SetToSeq({c \in ws \X Groups : m.buffer[c[1]][c[2]] # << >>})
    IN  [k \in DOMAIN cells |->
            buildOutputRecord(cells[k][1], cells[k][2], m.buffer[cells[k][1]][cells[k][2]])]

\* An emitted window stays in the buffer.
EmitKeeping(m, ws) ==
    [m EXCEPT !.lastEmitted = CHOOSE x \in ws \cup {@} : \A y \in ws \cup {@} : y <= x]

\* The windows ws leave the buffer.
Emit(m, ws) ==
    [m EXCEPT !.buffer = [w \in Windows |-> IF w \in ws THEN EmptyBuffer[w] ELSE @[w]],
              !.lastEmitted = CHOOSE x \in ws \cup {@} : \A y \in ws \cup {@} : y <= x]

\* ApplyBatch
ApplyBatch(inputs, m, s) ==
    UNION {IF ~got.ok THEN {[Result(got.mem, s) EXCEPT !.fatal = TRUE, !.fault = 1]}
           ELSE LET all == FoldLeft(accumulate, got.mem, inputs)
                    closed == ClosedWindows(all)
                    left == Emit(all, closed)
                IN  {IF put.ok THEN [Result(left, put.store) EXCEPT !.outs = OutputsOf(all, closed)]
                     ELSE [Result(left, s) EXCEPT !.fatal = TRUE, !.fault = 1] :
                        put \in persistStateLocked(left, s)}
           : got \in restoreStateLocked(m, s)}

Chain(items, m, s) == ApplyBatch([k \in DOMAIN items |-> Input(items[k])], m, s)

\* Flush: everything that is left, closed or not.
Flush(m, s) ==
    UNION {IF ~got.ok THEN {[Result(got.mem, s) EXCEPT !.fatal = TRUE, !.fault = 1]}
           ELSE LET left == Emit(got.mem, {w \in Windows : Live(got.mem, w)})
                IN  {IF put.ok THEN [Result(left, put.store) EXCEPT
                                        !.outs = OutputsOf(got.mem, Windows)]
                     ELSE [Result(left, s) EXCEPT !.fatal = TRUE, !.fault = 1] :
                        put \in persistStateLocked(left, s)}
           : got \in restoreStateLocked(m, s)}

\* The end of a bounded source in writeLoop: FlushChain, and its records are
\* written by writeBatch, which sends them through the chain.
drain ==
    /\ call.mode = "idle"
    /\ pos = Len(log)
    /\ now > 0
    /\ \E f \in Flush(mem, store) :
        LET again == [k \in DOMAIN f.outs |->
                        [item |-> Flushed, ts |-> now, group |-> f.outs[k].g]]
        IN  \E res \in IF f.fatal \/ f.outs = << >> THEN {f}
                       ELSE ApplyBatch(again, f.mem, f.store) :
            /\ faults + res.fault <= MaxFaults
            /\ faults' = faults + res.fault
            /\ mem' = res.mem
            /\ store' = res.store
            /\ out' = out \o res.outs
    /\ call' = Phase("done")
    /\ UNCHANGED <<conf, log, now, pos, due, dlq, saved, crashes>>

Init ==
    /\ RunnerInit
    /\ mem = NewMem
    /\ store = NoState
    /\ conf \in [kind : {"window"}, store : BOOLEAN, flaky : BOOLEAN, lateness : {0, 1},
                 aggs : {{[func |-> "sum", field |-> "a"], [func |-> "min", field |-> "b"],
                          [func |-> "count", field |-> "a"], [func |-> "avg", field |-> "b"],
                          [func |-> "max", field |-> "a"], [func |-> "first", field |-> "b"],
                          [func |-> "last", field |-> "b"]}}]
    /\ conf.flaky => conf.store /\ conf.lateness = 0
    /\ ~conf.store => conf.lateness = 0

Ready(r) == r.ts <= now

Sources(o) == {o.items[k] : k \in DOMAIN o.items} \ {Flushed}

\* What a crash makes the next process read again, and the records whose
\* aggregates it takes from the sink's door.
Note == [again |-> saved + 1..pos, lost |-> UNION {Sources(InFlight[k]) : k \in DOMAIN InFlight}]

Next ==
    \/ Produce(Records)
    \/ Start
    \/ Tick(store)
    \/ transformBatch(TRUE, Ready, Chain)
    \/ writeSink([i \in DOMAIN call.outs |-> Sources(call.outs[i])])
    \/ flushPendingCheckpoint
    \/ Crash(NewMem, Note)
    \/ drain

\* ------------------------------ properties --------------------------------

Emitted == out \o InFlight

InEmitted(i) == {k \in DOMAIN Emitted : i \in Sources(Emitted[k])}

Occurrences(items, i) == Cardinality({k \in DOMAIN items : items[k] = i})

InBuffer(b, i) == {c \in Windows \X Groups : Occurrences(b[c[1]][c[2]], i) > 0}

\* The aggregates being built: a new process finds them in the state store.
Building == IF conf.store /\ ~mem.restored THEN store.buffer ELSE mem.buffer

Late(i) == conf.lateness > 0 /\ \E j \in 1..i - 1 : log[i].ts < log[j].ts - conf.lateness

Lost(i) == \E c \in DOMAIN crashes : i \in crashes[c].lost

\* A window no earlier than the record's has been emitted.
CameBehind(i) ==
    \E j \in DOMAIN log : log[j].ts >= log[i].ts /\ (InEmitted(j) # {} \/ Lost(j) \/ j \in dlq)

\* How often the record has been read: once, and once more for each crash that
\* sent the source back behind it.
Readings(i) == (IF i <= pos THEN 1 ELSE 0) + Cardinality({c \in DOMAIN crashes : i \in crashes[c].again})

\* How often the record is counted, in the rows emitted and the aggregates being
\* built together.
Counted(i) ==
    LET rows == FoldSet(LAMBDA k, n : n + Occurrences(Emitted[k].items, i), 0, InEmitted(i))
    IN  FoldSet(LAMBDA c, n : n + Occurrences(Building[c[1]][c[2]], i), rows, InBuffer(Building, i))

\* A record is counted at most once for every time it was read: the state goes to
\* the store before the checkpoint, so a record read again after a crash may be
\* counted again, and nothing else counts one twice.  Until a crash every record
\* taken is counted, unless it was too late or dead-lettered; with a state store
\* after one too, unless its row was on its way to the sink.
CountedOncePerReading ==
    (~conf.flaky /\ call.mode # "done") =>
        \A i \in DOMAIN log :
            /\ Counted(i) <= Readings(i)
            /\ (i <= pos /\ (conf.store \/ crashes = << >>)) =>
                    Counted(i) > 0 \/ i \in dlq \/ Late(i) \/ Lost(i)

\* A window of a group is emitted once: late records do not reopen it, and
\* with a state store neither does a crash.
WindowEmittedOnce ==
    ((conf.store \/ crashes = << >>) /\ ~conf.flaky /\ call.mode # "done") =>
        \A k, l \in DOMAIN Emitted :
            (Emitted[k].w = Emitted[l].w /\ Emitted[k].g = Emitted[l].g) => k = l

\* With a state store that answers, a crash loses the rows on their way to the
\* sink and nothing else the checkpoint covers: any other record is in the sink,
\* in the stored state, in the dead letter queue, or was too late.  One that is
\* only in the stored state is still to be emitted, or came for a window no
\* later than one emitted before: that one stays in the buffer (TF-14).
CheckpointCoversOnlyKeptRecords ==
    (conf.store /\ ~conf.flaky /\ call.mode # "done") =>
        \A i \in 1..saved :
            \/ InEmitted(i) # {} \/ i \in dlq \/ Late(i) \/ Lost(i)
            \/ InBuffer(store.buffer, i) # {} /\ (log[i].ts > store.lastEmitted \/ CameBehind(i))

\* Every row on its way to the sink says what its aggregators promise of the
\* records of that window and group, restored from the store or not.
Reference(ad, items) ==
    LET vals == [k \in DOMAIN items |-> Field(items[k], ad)]
        total == FoldLeft(LAMBDA x, y : x + y, 0, vals)
    IN  CASE ad.func = "count" -> <<Len(items)>>
          [] ad.func = "sum"   -> <<total>>
          [] ad.func = "avg"   -> <<total, Len(items)>>
          [] ad.func = "min"   -> <<CHOOSE v \in Range(vals) : \A x \in Range(vals) : v <= x>>
          [] ad.func = "max"   -> <<CHOOSE v \in Range(vals) : \A x \in Range(vals) : v >= x>>
          [] ad.func = "first" -> <<vals[1]>>
          [] ad.func = "last"  -> <<vals[Len(vals)]>>

RowsSayWhatTheyPromise ==
    \A k \in DOMAIN InFlight :
        /\ \A i \in Sources(InFlight[k]) :
                log[i].ts = InFlight[k].w /\ log[i].group = InFlight[k].g
        /\ \A ad \in conf.aggs : InFlight[k].cols[ad] = Reference(ad, InFlight[k].items)
=============================================================================
