---------------------------- MODULE StateStores ----------------------------
(***************************************************************************)
(* The state backends behind the stateful transforms (internal/etl/state:   *)
(* MemoryStore, SQLiteStore, RedisStore), one command at a time.  Two       *)
(* callers share a node's state: the transform, whose calls follow one      *)
(* another, and the metrics endpoint, which reads Stats while records are   *)
(* processed.  The Redis store keeps the entries and, in a set of its own,  *)
(* an index of their keys; a call is several commands, and the process may  *)
(* die between two of them.                                                 *)
(***************************************************************************)
EXTENDS Integers, Sequences, FiniteSets

CONSTANTS
    Keys,         \* keys of one node
    MaxNow,       \* bound: the clock
    MaxCalls,     \* bound: calls of the transform
    MaxStats      \* bound: calls of the metrics endpoint

VARIABLES
    conf,         \* [kind, backend, ttl]
    now,
    store,        \* [entries, index]
    mem           \* the two callers, and what was last written

state == <<conf, now, store, mem>>

Absent == [val |-> 0, until |-> 0]
Never  == MaxNow + 1

NoCall == [op |-> "none", key |-> "", todo |-> {}]

\* calls, stats: how many were made; last: what the transform last wrote;
\* got: what its last Get returned, and what it should have; torn: the
\* keys whose SADD died with the process, or whose new entry Stats unindexed.
Init ==
    /\ conf \in [kind : {"state"}, backend : {"memory", "sqlite", "redis"}, ttl : {0, 1}]
    /\ now = 0
    /\ store = [entries |-> [k \in Keys |-> Absent], index |-> {}]
    /\ mem = [t |-> NoCall, m |-> NoCall, calls |-> 0, stats |-> 0,
              last |-> [k \in Keys |-> Absent], got |-> <<0, 0>>, torn |-> {}]

Redis == conf.backend = "redis"

Live(e, t) == e.val # 0 /\ t < e.until

Until == IF conf.ttl = 0 THEN Never ELSE now + conf.ttl

Entry == [val |-> mem.calls + 1, until |-> Until]

\* Redis drops an entry when it expires; the other stores when they next look.
Tick ==
    /\ now < MaxNow
    /\ now' = now + 1
    /\ store' = IF Redis
                   THEN [store EXCEPT !.entries = [k \in Keys |->
                            IF Live(store.entries[k], now + 1) THEN store.entries[k] ELSE Absent]]
                   ELSE store
    /\ UNCHANGED <<conf, mem>>

CanCall == mem.t.op = "none" /\ mem.calls < MaxCalls

Call(op, k) == [mem EXCEPT !.t = [op |-> op, key |-> k, todo |-> {}], !.calls = @ + 1]

\* Set: one statement in memory and SQLite, SET then SADD in Redis.
Set(k) ==
    /\ CanCall
    /\ store' = [store EXCEPT !.entries[k] = Entry]
    /\ mem' = [IF Redis THEN Call("sadd", k) ELSE Call("none", k) EXCEPT !.last[k] = Entry]
    /\ UNCHANGED <<conf, now>>

\* Delete: DEL then SREM in Redis.
Delete(k) ==
    /\ CanCall
    /\ store' = [store EXCEPT !.entries[k] = Absent]
    /\ mem' = [IF Redis THEN Call("srem", k) ELSE Call("none", k) EXCEPT !.last[k] = Absent]
    /\ UNCHANGED <<conf, now>>

\* Get: an expired entry is deleted, and a miss in Redis unindexes the key.
Get(k) ==
    /\ CanCall
    /\ LET hit == Live(store.entries[k], now)
       IN  /\ store' = IF hit THEN store ELSE [store EXCEPT !.entries[k] = Absent]
           /\ mem' = [Call(IF Redis /\ ~hit THEN "srem" ELSE "none", k) EXCEPT
                        !.got = <<IF hit THEN store.entries[k].val ELSE 0,
                                  IF Live(mem.last[k], now) THEN mem.last[k].val ELSE 0>>]
    /\ UNCHANGED <<conf, now>>

\* The second command of a call.
SecondCommand ==
    /\ mem.t.op \in {"sadd", "srem"}
    /\ store' = [store EXCEPT !.index = IF mem.t.op = "sadd" THEN @ \cup {mem.t.key}
                                                            ELSE @ \ {mem.t.key}]
    /\ mem' = [mem EXCEPT !.t = NoCall, !.torn = @ \ {mem.t.key}]
    /\ UNCHANGED <<conf, now>>

\* The process dies between the two commands; the next one starts afresh.
CrashInCall ==
    /\ mem.t.op \in {"sadd", "srem"}
    /\ mem' = [mem EXCEPT !.t = NoCall,
                          !.torn = IF mem.t.op = "sadd" THEN @ \cup {mem.t.key} ELSE @]
    /\ UNCHANGED <<conf, now, store>>

\* Stats lists the index (Redis) and gets one key after the other; the other
\* backends count in one statement, after the expired entries are deleted.
Stats ==
    /\ mem.m.op = "none"
    /\ mem.stats < MaxStats
    /\ store' = IF conf.backend = "sqlite"
                   THEN [store EXCEPT !.entries = [k \in Keys |->
                            IF Live(store.entries[k], now) THEN store.entries[k] ELSE Absent]]
                   ELSE store
    /\ mem' = [mem EXCEPT !.m = IF Redis THEN [op |-> "keys", key |-> "", todo |-> store.index]
                                         ELSE NoCall,
                          !.stats = @ + 1]
    /\ UNCHANGED <<conf, now>>

\* Stats' GET of the next key, and its SREM after a miss.
StatsGet(k) ==
    /\ mem.m.op = "keys"
    /\ k \in mem.m.todo
    /\ mem' = [mem EXCEPT !.m = IF store.entries[k] = Absent
                                   THEN [@ EXCEPT !.op = "srem", !.key = k, !.todo = @ \ {k}]
                                   ELSE [@ EXCEPT !.todo = @ \ {k}]]
    /\ UNCHANGED <<conf, now, store>>

StatsUnindex ==
    /\ mem.m.op = "srem"
    /\ store' = [store EXCEPT !.index = @ \ {mem.m.key}]
    /\ mem' = [mem EXCEPT !.m.op = "keys",
                          !.torn = IF store.entries[mem.m.key] = Absent THEN @ ELSE @ \cup {mem.m.key}]
    /\ UNCHANGED <<conf, now>>

StatsEnd ==
    /\ mem.m.op = "keys"
    /\ mem.m.todo = {}
    /\ mem' = [mem EXCEPT !.m = NoCall]
    /\ UNCHANGED <<conf, now, store>>

Next ==
    \/ Tick \/ SecondCommand \/ CrashInCall \/ Stats \/ StatsUnindex \/ StatsEnd
    \/ \E k \in Keys : Set(k) \/ Delete(k) \/ Get(k) \/ StatsGet(k)

\* ------------------------------- properties -------------------------------

\* Get returns what the transform last wrote under the key, until it expires,
\* whatever the metrics endpoint does to the index meanwhile.
GetSeesTheLastSet == mem.got[1] = mem.got[2]

\* What Snapshot, and so a restart's restore, would find.
SnapshotKeys ==
    {k \in Keys : Live(store.entries[k], now) /\ (Redis => k \in store.index)}

LiveKeys == {k \in Keys : Live(mem.last[k], now)}

\* Between two calls of the transform a snapshot holds live entries only, and
\* every one of them but, in Redis, a key whose Set died between SET and SADD
\* or whose entry was set again while Stats was unindexing the expired one.  Its
\* next complete call puts that right.
SnapshotIsComplete ==
    mem.t.op = "none" => SnapshotKeys \subseteq LiveKeys /\ LiveKeys \ SnapshotKeys \subseteq mem.torn

=============================================================================
