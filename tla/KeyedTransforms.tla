-------------------------- MODULE KeyedTransforms --------------------------
(***************************************************************************)
(* The transforms that remember something of every key they have seen.      *)
(*                                                                          *)
(* deduplicate (internal/etl/transform/router.go), with its ring of         *)
(* window_size keys and an optional state store, and distinct               *)
(* (distinct.go), with an unbounded set in memory, drop records.  A second  *)
(* transform of the chain rejects some records, so that a key may be        *)
(* remembered of a record that never reaches the sink.                      *)
(*                                                                          *)
(* The interval join of a stream with itself (join.go) matches a record     *)
(* with the latest buffered record of its key inside the window, and then   *)
(* buffers it.  The buffer of a key is written to the state store each time *)
(* it grows; it leaves memory when the window passes and the store when its *)
(* time to live does.                                                       *)
(*                                                                          *)
(* lookup in cache mode (enricher.go) reads the whole dimension table on    *)
(* first use and again when the refresh interval has passed, and writes     *)
(* each row to the state store, from which it is restored when the          *)
(* dimension cannot be read.  Here store is the outside world: the          *)
(* dimension dim, whose row for a key is a version number (0: no row), the  *)
(* time gone at which a version was replaced, and the rows in the state     *)
(* store.                                                                   *)
(***************************************************************************)
EXTENDS TransformRunner

CONSTANTS
    Keys,         \* composite keys, values of join_key, keys of the dimension
    NoKey,        \* a record without the join key, or with an empty one
    WindowSize,   \* window_size of deduplicate
    JoinWindow,   \* join_window_sec
    MaxVersion    \* bound: first rows and changes of the dimension, each a version

Never == MaxNow + 1

Ready(r) == TRUE

Sources(o) == {o.i}

\* ------------------------ deduplicate and distinct ------------------------

\* Bound: only the first record may be rejected.
FilterRecords == [key : Keys, bad : IF log = << >> THEN BOOLEAN ELSE {FALSE}]

\* cache, cacheMap, pos of the deduplicator; seen of distinct.
FilterNewMem == [cache |-> << >>, cacheMap |-> {}, at |-> 0, seen |-> {}]

\* The store keeps, for each key, the time until which it is there.
FilterNoState == [key \in Keys |-> 0]

FilterExpire(s, t) == [key \in Keys |-> IF s[key] <= t THEN 0 ELSE s[key]]

\* addKeyLocked
addKeyLocked(m, key) ==
    IF Len(m.cache) < WindowSize
       THEN [m EXCEPT !.cache = Append(@, key), !.cacheMap = @ \cup {key}]
       ELSE [m EXCEPT !.cache[m.at + 1] = key,
                      !.cacheMap = (@ \cup {key}) \ {m.cache[m.at + 1]},
                      !.at = (m.at + 1) % WindowSize]

Passed(i, m, s) ==
    IF log[i].bad THEN Fail(m, s, 0) ELSE Pass(m, s, [i |-> i, key |-> log[i].key, at |-> now])

StoreSet(s, key) == [s EXCEPT ![key] = IF conf.ttl = 0 THEN Never ELSE now + conf.ttl]

\* DeduplicatorTransform.Apply: the ring first, then the store.  A failed Get,
\* and a failed Set whether or not it took effect, reject the record.
DeduplicatorApply(i, m, s) ==
    LET key == log[i].key
        added == addKeyLocked(m, key)
    IN  IF key \in m.cacheMap THEN {Filter(m, s)}
        ELSE IF ~conf.store THEN {Passed(i, added, s)}
        ELSE {Fail(m, s, 1)}
             \cup (IF s[key] # 0
                      THEN {Filter(added, s)}
                      ELSE {Passed(i, added, StoreSet(s, key)), Fail(m, StoreSet(s, key), 1)})

\* DistinctTransform.Apply
DistinctApply(i, m, s) ==
    IF log[i].key \in m.seen
       THEN {Filter(m, s)}
       ELSE {Passed(i, [m EXCEPT !.seen = @ \cup {log[i].key}], s)}

FilterApply(i, m, s) == IF conf.kind = "dedup" THEN DeduplicatorApply(i, m, s) ELSE DistinctApply(i, m, s)

FilterChain(items, m, s) == applyRecordTransformsSerial(items, m, s, FilterApply)

FilterInit ==
    /\ RunnerInit
    /\ mem = FilterNewMem
    /\ store = FilterNoState
    /\ conf \in {[kind |-> "dedup", store |-> FALSE, ttl |-> 0],
                 [kind |-> "dedup", store |-> TRUE, ttl |-> 0],
                 [kind |-> "dedup", store |-> TRUE, ttl |-> 1],
                 [kind |-> "distinct", store |-> FALSE, ttl |-> 0]}

\* The records a crash takes from the sink's door, and the rows shown until then.
FilterNote == [lost |-> UNION {Sources(InFlight[k]) : k \in DOMAIN InFlight}, shown |-> Len(out)]

FilterNext ==
    \/ Produce(FilterRecords)
    \/ Start
    \/ conf.ttl > 0 /\ Tick(FilterExpire(store, now + 1))
    \/ transformBatch(FALSE, Ready, FilterChain)
    \/ writeSink([i \in DOMAIN call.outs |-> Sources(call.outs[i])])
    \/ flushPendingCheckpoint
    \/ Crash(FilterNewMem, FilterNote)

\* ---------------------------------- join ----------------------------------

\* ok: the record satisfies the "where" expression of the join side.  Bounds:
\* only the first record may lack the key, only the second may fail "where".
JoinRecords ==
    {r \in [key : Keys \cup {NoKey}, ok : BOOLEAN, at : 0..MaxNow] :
        /\ log = << >> => r.key \in {NoKey, CHOOSE k \in Keys : TRUE}
        /\ r.key = NoKey => log = << >>
        /\ ~r.ok => Len(log) = 1
        /\ log = << >> \/ r.at >= Last(log).at}

EmptyState == [key \in Keys |-> << >>]

\* state, bufferedRecords, stateRestored
JoinNewMem == [state |-> EmptyState, count |-> 0, restored |-> FALSE]

JoinNoState == [key \in Keys |-> [entries |-> << >>, until |-> 0]]

JoinExpire(s, t) == [key \in Keys |-> IF s[key].until <= t THEN JoinNoState[key] ELSE s[key]]

InWindow(entries) == SelectSeq(entries, LAMBDA e : e.at > now - JoinWindow)

Buffered(state) == FoldSet(LAMBDA key, n : n + Len(state[key]), 0, Keys)

\* evictLocked
evictLocked(m) ==
    LET kept == [key \in Keys |-> InWindow(m.state[key])]
    IN  [m EXCEPT !.state = kept, !.count = @ - (Buffered(m.state) - Buffered(kept))]

\* restoreStateLocked: one attempt per process.  It may fail before the first
\* key or after some of them.
restoreStateLocked(m, s) ==
    IF m.restored \/ ~conf.store THEN {[mem |-> [m EXCEPT !.restored = TRUE], ok |-> TRUE]}
    ELSE LET From(keys) ==
                LET state == [key \in Keys |-> IF key \in keys THEN InWindow(s[key].entries)
                                                               ELSE m.state[key]]
                IN  [m EXCEPT !.state = state, !.restored = TRUE,
                              !.count = @ + FoldSet(LAMBDA key, n : n + Len(state[key]), 0, keys)]
         IN  {[mem |-> From(Keys), ok |-> TRUE]}
             \cup (IF conf.flaky THEN {[mem |-> From(keys), ok |-> FALSE] :
                                         keys \in SUBSET Keys \ {Keys}}
                                 ELSE {})

\* persistJoinKeyLocked: the buffer of one key, with a new time to live.
persistJoinKeyLocked(m, s, key) ==
    LET value == [entries |-> m.state[key],
                  until |-> now + (IF conf.ttl > 0 THEN conf.ttl ELSE JoinWindow)]
    IN  IF ~conf.store THEN {[store |-> s, ok |-> TRUE]}
        ELSE {[store |-> [s EXCEPT ![key] = value], ok |-> TRUE]}
             \cup (IF conf.flaky THEN {[store |-> s, ok |-> FALSE]} ELSE {})

\* checkStateLimitLocked
checkStateLimitLocked(m, key) ==
    /\ conf.maxKeys > 0 =>
           m.state[key] # << >>
           \/ Cardinality({k \in Keys : m.state[k] # << >>}) < conf.maxKeys
    /\ conf.maxRecords > 0 => m.count < conf.maxRecords

JoinRow(i, match) == [i |-> i, match |-> match, at |-> now]

\* handleMiss, and the left join's row of nils.
handleMiss(i, m, s) ==
    IF conf.type = "left" THEN Pass(m, s, JoinRow(i, 0))
    ELSE IF conf.onMiss = "drop" THEN Filter(m, s) ELSE Fail(m, s, 0)

\* The oldest buffered record is taken instead of the latest.
matchFirst(entries) ==
    LET hits == {k \in DOMAIN entries : entries[k].ok}
    IN  IF hits = {} THEN 0 ELSE entries[CHOOSE k \in hits : \A l \in hits : k <= l].i

\* The match: the last buffered record of the key that satisfies "where".
matched(entries) ==
    LET hits == {k \in DOMAIN entries : entries[k].ok}
    IN  IF hits = {} THEN 0 ELSE entries[CHOOSE k \in hits : \A l \in hits : k >= l].i

\* JoinTransform.Apply
JoinApply(i, m0, s) ==
    LET key == log[i].key
    IN  IF key = NoKey THEN {handleMiss(i, m0, s)}
        ELSE UNION {
            IF ~got.ok THEN {Fail(got.mem, s, 1)}
            ELSE LET m == evictLocked(got.mem)
                     match == matched(m.state[key])
                     entry == [i |-> i, at |-> now, ok |-> log[i].ok]
                     more == [m EXCEPT !.state[key] = Append(@, entry), !.count = @ + 1]
                 IN  IF ~checkStateLimitLocked(m, key) THEN {Fail(m, s, 0)}
                     ELSE {IF ~put.ok THEN Fail(more, put.store, 1)
                           ELSE IF match = 0 THEN handleMiss(i, more, put.store)
                           ELSE Pass(more, put.store, JoinRow(i, match)) :
                                put \in persistJoinKeyLocked(more, s, key)}
            : got \in restoreStateLocked(m0, s)}

JoinChain(items, m, s) == applyRecordTransformsSerial(items, m, s, JoinApply)

JoinConfig(keptIn, ttl, type, onMiss, maxKeys, maxRecords) ==
    [kind |-> "join", store |-> keptIn # "memory", flaky |-> keptIn = "flaky", ttl |-> ttl,
     type |-> type, onMiss |-> onMiss, maxKeys |-> maxKeys, maxRecords |-> maxRecords]

JoinConfigs ==
    {JoinConfig("memory", 0, "inner", "drop", 0, 0), JoinConfig("store", 0, "left", "drop", 0, 0),
     JoinConfig("store", JoinWindow + 1, "inner", "dlq", 1, 2), JoinConfig("flaky", 0, "inner", "drop", 0, 2)}

JoinInit ==
    /\ RunnerInit
    /\ mem = JoinNewMem
    /\ store = JoinNoState
    /\ conf \in JoinConfigs

JoinReady(r) == r.at <= now

\* The first process keeps up with its source: a record is taken at the time
\* it carries.  The ones after a crash are behind.
KeepsUp == crashes # << >> \/ \A i \in pos + 1..Len(log) : log[i].at > now

JoinNext ==
    \/ Produce(JoinRecords)
    \/ Start
    \/ KeepsUp /\ Tick(JoinExpire(store, now + 1))
    \/ transformBatch(FALSE, JoinReady, JoinChain)
    \/ writeSink([i \in DOMAIN call.outs |-> Sources(call.outs[i])])
    \/ flushPendingCheckpoint
    \/ Crash(JoinNewMem, {})

\* --------------------------------- lookup ---------------------------------

\* Bound: only the first record may lack the key.  (The keys are alike.)
LookupRecords == [key : IF log = << >> THEN {NoKey, CHOOSE k \in Keys : TRUE} ELSE Keys]

Empty == [key \in Keys |-> 0]

\* cache and lastRefresh
LookupNewMem == [cache |-> Empty, lastRefresh |-> 0]

\* The dimension has a row for each key to begin with.
FirstRows == LET order == SetToSeq(Keys)
             IN  [key \in Keys |-> CHOOSE v \in DOMAIN order : order[v] = key]

LookupNoState == [dim |-> FirstRows, rows |-> Empty, gone |-> [v \in 1..MaxVersion |-> Never],
            last |-> Cardinality(Keys)]

\* The dimension table changes: a row appears, changes or is deleted.
\* (Between batches: the sink does not read it.)
ChangeDimension ==
    /\ call.mode = "idle"
    /\ store.last < MaxVersion
    /\ \E key \in Keys, v \in {0, store.last + 1} :
        /\ v # 0 \/ store.dim[key] # 0
        /\ store' = [store EXCEPT !.dim[key] = v,
                                  !.gone = [x \in DOMAIN @ |-> IF x = store.dim[key] THEN now ELSE @[x]],
                                  !.last = @ + 1]
    /\ UNCHANGED <<conf, log, now, pos, call, due, mem, out, dlq, saved, faults, crashes>>

Rows(c) == Cardinality({key \in Keys : c[key] # 0})

\* persistCacheToStateLocked: the rows there are; a row that is gone from the
\* dimension stays in the store.  It may stop half way, which is only logged.
persistCacheToStateLocked(cache, s) ==
    IF ~conf.store THEN {[store |-> s, fault |-> 0]}
    ELSE LET Put(keys) == [s EXCEPT !.rows = [key \in Keys |-> IF key \in keys /\ cache[key] # 0
                                                                THEN cache[key] ELSE @[key]]]
         IN  {[store |-> Put(Keys), fault |-> 0]}
             \cup {[store |-> Put(keys), fault |-> 1] : keys \in SUBSET Keys \ {Keys}}

\* restoreCacheFromStateLocked
restoreCacheFromStateLocked(m, s) ==
    IF conf.store /\ Rows(s.rows) > 0 /\ (conf.maxCache = 0 \/ Rows(s.rows) <= conf.maxCache)
       THEN {[mem |-> [cache |-> s.rows, lastRefresh |-> now], store |-> s, ok |-> TRUE, fault |-> 1]}
       ELSE {[mem |-> m, store |-> s, ok |-> FALSE, fault |-> 1]}

\* loadCache: the dimension as it is now; a table that is too large changes
\* nothing; a dimension that cannot be read is replaced by the stored rows.
loadCache(m, s) ==
    IF Rows(m.cache) > 0 /\ conf.refresh = 0 THEN {[mem |-> m, store |-> s, ok |-> TRUE, fault |-> 0]}
    ELSE restoreCacheFromStateLocked(m, s)
         \cup (IF conf.maxCache > 0 /\ Rows(s.dim) > conf.maxCache
                  THEN {[mem |-> m, store |-> s, ok |-> FALSE, fault |-> 0]}
                  ELSE {[mem |-> [cache |-> s.dim, lastRefresh |-> now],
                         store |-> put.store, ok |-> TRUE, fault |-> put.fault] :
                            put \in persistCacheToStateLocked(s.dim, s)})

\* The test with which Apply decides to call loadCache.
NeedsRefresh(m) ==
    \/ Rows(m.cache) = 0
    \/ conf.refresh > 0 /\ now - m.lastRefresh > conf.refresh

LookupRow(i, val) == [i |-> i, val |-> val, at |-> now]

\* handleLookupMiss
handleLookupMiss(i, m, s) == IF conf.onMiss = "dlq" THEN Fail(m, s, 0) ELSE Pass(m, s, LookupRow(i, 0))

\* LookupTransform.Apply in cache mode.
LookupApply(i, m0, s0) ==
    LET Look(m, s, fault) ==
            LET key == log[i].key
            IN  [(IF key \in Keys /\ m.cache[key] # 0
                     THEN Pass(m, s, LookupRow(i, m.cache[key]))
                     ELSE handleLookupMiss(i, m, s)) EXCEPT !.fault = fault]
    IN  IF NeedsRefresh(m0)
           THEN {IF got.ok THEN Look(got.mem, got.store, got.fault)
                 ELSE IF conf.onRefresh = "error" THEN Fail(got.mem, got.store, got.fault)
                 ELSE [Pass(got.mem, got.store, LookupRow(i, 0)) EXCEPT !.fault = got.fault] :
                    got \in loadCache(m0, s0)}
           ELSE {Look(m0, s0, 0)}

\* ApplyBatch in cache mode: one by one, failures apart (a partial error).
LookupChain(items, m, s) == applyRecordTransformsSerial(items, m, s, LookupApply)

LookupInit ==
    /\ RunnerInit
    /\ mem = LookupNewMem
    /\ store = LookupNoState
    /\ conf \in {[kind |-> "lookup", store |-> FALSE, refresh |-> 1, maxCache |-> 0,
                  onMiss |-> "dlq", onRefresh |-> "error"],
                 [kind |-> "lookup", store |-> TRUE, refresh |-> 1, maxCache |-> 0,
                  onMiss |-> "pass", onRefresh |-> "pass"],
                 [kind |-> "lookup", store |-> TRUE, refresh |-> 0, maxCache |-> 1,
                  onMiss |-> "dlq", onRefresh |-> "error"]}

LookupNext ==
    \/ Produce(LookupRecords)
    \/ Start
    \/ ChangeDimension
    \/ Tick(store)
    \/ transformBatch(TRUE, Ready, LookupChain)
    \/ writeSink([i \in DOMAIN call.outs |-> Sources(call.outs[i])])
    \/ flushPendingCheckpoint
    \/ Crash(LookupNewMem, {})

\* ------------------------------ properties --------------------------------

Shown == out \o InFlight

\* In memory the deduplicator promises a window: among the rows of one process
\* a key passes again only after window_size other keys have passed in between,
\* and a distinct never passes one twice.  (As long as the sink takes every row:
\* the window is counted in rows shown.)
DuplicatesOnlyBeyondTheWindow ==
    (~conf.store /\ faults = 0 /\ \A i \in DOMAIN log : ~log[i].bad) =>
        \A a, b \in DOMAIN Shown :
            (/\ a < b
             /\ Shown[a].key = Shown[b].key
             /\ \A c \in DOMAIN crashes : crashes[c].shown \notin a..b - 1)
            => conf.kind = "dedup" /\ b - a > WindowSize

\* With a state store a key passes once for its time to live, whatever was
\* replayed, evicted from the ring or lost with the process in between.
StoreForgetsOnlyExpired ==
    conf.store =>
        \A a, b \in DOMAIN Shown :
            (a < b /\ Shown[a].key = Shown[b].key) =>
                conf.ttl > 0 /\ Shown[b].at - Shown[a].at >= conf.ttl

\* Dropping duplicates loses no key: every key taken so far is in the sink, on
\* its way there, or in the dead letter queue.  With a state store, which is
\* written before the sink, a crash costs a key whose record was on its way to
\* the sink, and no other: the record read again is dropped as a duplicate.
EveryKeyIsAccountedFor ==
    \A i \in 1..pos :
        \/ \E k \in DOMAIN Shown : Shown[k].key = log[i].key
        \/ \E j \in dlq : log[j].key = log[i].key
        \/ conf.store /\ \E c \in DOMAIN crashes, j \in 1..pos :
                j \in crashes[c].lost /\ log[j].key = log[i].key

\* The record a joined row must show: the latest one before it, of the same
\* key and admitted by "where", that arrived inside the window.
Expected(i) ==
    LET hits == {j \in 1..i - 1 : /\ log[j].key = log[i].key
                                  /\ log[j].key # NoKey
                                  /\ log[j].ok
                                  /\ log[j].at > log[i].at - JoinWindow}
    IN  IF hits = {} THEN 0 ELSE CHOOSE j \in hits : \A k \in hits : j >= k

\* A joined row shows the record it should, and a record that has a match is
\* joined: eviction, buffering and the order of the two never hide a match.
JoinedWithTheLatest ==
    (crashes = << >> /\ ~conf.flaky /\ conf.maxKeys = 0 /\ conf.maxRecords = 0) =>
        /\ \A k \in DOMAIN Shown : Shown[k].match = Expected(Shown[k].i)
        /\ \A i \in 1..pos : Expected(i) # 0 =>
                i \in dlq \/ \E k \in DOMAIN Shown : Shown[k].i = i

\* bufferedRecords is the size of the buffer, so max_state_records is exact,
\* and both limits hold, after restores and failed restores as well.
LimitsCountTheBuffer ==
    /\ mem.count = Buffered(mem.state)
    /\ ~conf.flaky =>
        /\ conf.maxRecords > 0 => mem.count <= conf.maxRecords
        /\ conf.maxKeys > 0 => Cardinality({k \in Keys : mem.state[k] # << >>}) <= conf.maxKeys

\* What a crash would leave in the state store is what the process holds: the
\* buffer that a restore rebuilds now is the buffer inside the window.
RestoreRebuildsTheBuffer ==
    (conf.store /\ ~conf.flaky /\ mem.restored) =>
        \A key \in Keys : InWindow(store[key].entries) = InWindow(mem.state[key])

\* While the dimension can be read, a record shows a row that was in the
\* dimension no longer ago than the refresh interval, restarts included.
EnrichedWithAFreshRow ==
    (conf.refresh > 0 /\ faults = 0) =>
        \A k \in DOMAIN Shown :
            Shown[k].val # 0 => store.gone[Shown[k].val] >= Shown[k].at - conf.refresh

\* With on_miss dlq and on_refresh_error error no record reaches the sink
\* without its row, whatever fails.
NoSilentMiss ==
    (conf.onMiss = "dlq" /\ conf.onRefresh = "error") =>
        \A k \in DOMAIN Shown : Shown[k].val # 0

=============================================================================
