------------------------- MODULE DagCheckpointProofs -------------------------
(***************************************************************************)
(* That a checkpoint of DAGExecutor covers only settled records needs, for  *)
(* a graph with one sink, an account of every record a source has handed    *)
(* over: it is settled, its source is blocked, it waits in the batch, or it *)
(* is still ahead in the channel; and nothing later of its source overtakes *)
(* it (Account).                                                            *)
(***************************************************************************)
EXTENDS DagProofs

(* Record n of s needs no more work, whether or not its way through the graph ended
   well. *)
Gone(s, n) == Settled(s, n) \/ \E k \in Sinks : <<k, s, n>> \in dropped

RouteKept(s, n) == <<s, n>> \in Broken => <<"route", s, n>> \in dlq

Accounted(s, n) ==
    \/ Gone(s, n)
    \/ s \in blocks
    \/ RouteKept(s, n) /\ \E k \in Sinks : <<s, n>> \in Range(batch[k])

(* What the pool has done to a record is on record. *)
PoolIsSafe ==
    \A s \in Sources, n \in Pos : <<s, n>> \notin unsafe =>
        /\ <<<<s, n>>, "routed">> \in pool \cup pending => RouteKept(s, n)
        /\ <<<<s, n>>, "panicked">> \in pool \cup pending => <<"panic", s, n>> \in dlq

(* The batch that is being checkpointed is in the sink. *)
BatchWritten ==
    wpc = "save" => \A r \in Range(batch[writing]) : <<writing, r[1], r[2]>> \in target

(* A record in a batch has nothing unaccounted for before it. *)
BatchOrder ==
    \A k \in Sinks : \A r \in Range(batch[k]) : \A n \in 1..r[2] : Accounted(r[1], n)

(* When routing sequentially: nor has a record in the channel, but for what is ahead
   of it there, nor has the position of a reader. *)
ChannelOrder ==
    /\ \A i \in DOMAIN chan : \A n \in 1..(chan[i][2] - 1) :
          Accounted(chan[i][1], n) \/ \E j \in 1..(i - 1) : chan[j] = <<chan[i][1], n>>
    /\ \A s \in Sources : rpc[s] \in {"reading", "sending"} =>
          \A n \in 1..pos[s] : Accounted(s, n) \/ \E j \in DOMAIN chan : chan[j] = <<s, n>>

(* When routing in a pool: results are applied in the order of the source. *)
ResultOrder ==
    /\ \A s \in Sources : \A n \in 1..(nextSeq[s] - 1) : Accounted(s, n)
    /\ \A k \in Sinks : \A r \in Range(batch[k]) : r[2] < nextSeq[r[1]]

Account ==
    /\ PoolIsSafe /\ BatchWritten
    /\ phase = "run" => BatchOrder /\ (IF Parallel THEN ResultOrder ELSE ChannelOrder)
    /\ CoveredIsSettled

-----------------------------------------------------------------------------
(* Steps. *)

(* The graph has at most one sink. *)
OneSink == \A k, l \in Sinks : k = l

(* What a step adds to, it never takes away from. *)
Growing == target \subseteq target' /\ dlq \subseteq dlq' /\ dropped \subseteq dropped'

LEMMA OnlyGrowing ==
    ASSUME [DagNext]_vars
    PROVE  Growing
  <1> USE DEF Growing, durable, control, readers, workers, round
  <1>1. CASE Start \/ Stop \/ Crash \/ RunStep \/ ReaderStep \/ UNCHANGED vars
    BY <1>1, ZenonT(40)
       DEF Start, Stop, Crash, RunStep, OpenSinks, RunEnds, WrapperReleased, ReaderStep, ReaderFrame,
                OpenSource, Read, Send, ReadEnds, vars
  <1>2. CASE PoolStep
    BY <1>2, ZenonT(40) DEF PoolStep, Forward, ForwardEnds, RouteRecordSafely, Route, HandleFailed
  <1>3. CASE TakeRecord
    BY <1>3, Zenon DEF TakeRecord, Route, HandleFailed
  <1>4. CASE ReceiveResult \/ Drained \/ FlushAll \/ RoundEnds \/ BoundaryFails \/ SaveEnds
    BY <1>4, ZenonT(40) DEF ReceiveResult, Drained, FlushAll, RoundEnds, BoundaryFails, SaveEnds, SaveFrame
  <1>5. CASE \E s \in Sources : DrainSource(s) \/ SaveBlocked(s) \/ SaveFails(s) \/ Save(s)
    BY <1>5, ZenonT(40) DEF DrainSource, SaveBlocked, SaveFails, Save, SaveFrame
  <1>6. CASE \E k \in Sinks : WriteRefused(k) \/ WriteSucceeds(k) \/ WriteFails(k) \/ WriterPanics(k)
    BY <1>6, ZenonT(40) DEF WriteRefused, WriteSucceeds, WriteFails, WriterPanics
  <1> QED
    BY <1>1, <1>2, <1>3, <1>4, <1>5, <1>6 DEF DagNext, WriterStep

LEMMA GoneStays ==
    ASSUME Growing, NEW s, NEW n, Gone(s, n)
    PROVE  Gone(s, n)'
  BY Zenon DEF Growing, Gone, Settled

LEMMA RouteKeptStays ==
    ASSUME Growing, NEW s, NEW n, RouteKept(s, n)
    PROVE  RouteKept(s, n)'
  BY DEF Growing, RouteKept

(* With one sink, a routed record the sink or its dead letters have is settled. *)
LEMMA InTheSink ==
    ASSUME OneSink, NEW s \in Sources, NEW n \in Pos, NEW k \in Sinks, RouteKept(s, n),
           <<k, s, n>> \in target \cup dlq
    PROVE  Gone(s, n)
  <1>1. Routes[s][n] \subseteq {k}
    BY DagAssumption DEF OneSink
  <1> QED
    BY <1>1 DEF Gone, Settled, RouteKept

LEMMA InTheSinkNext ==
    ASSUME OneSink, NEW s \in Sources, NEW n \in Pos, NEW k \in Sinks, RouteKept(s, n)',
           <<k, s, n>> \in target' \cup dlq'
    PROVE  Gone(s, n)'
  <1>1. Routes[s][n] \subseteq {k}
    BY DagAssumption DEF OneSink
  <1> QED
    BY <1>1 DEF Gone, Settled, RouteKept

(* A record stays accounted for when its batch keeps it, or when leaving the batch
   settles it or blocks its source. *)
LEMMA AccountedKept ==
    ASSUME Growing, blocks \subseteq blocks', NEW s \in Sources, NEW n \in Pos, Accounted(s, n),
           \A k \in Sinks : RouteKept(s, n) /\ <<s, n>> \in Range(batch[k]) =>
               <<s, n>> \in Range(batch'[k]) \/ Gone(s, n)' \/ s \in blocks'
    PROVE  Accounted(s, n)'
  <1>1. CASE Gone(s, n)
    BY <1>1, GoneStays, SMTT(40), Z3T(40) DEF Accounted
  <1>2. CASE s \in blocks
    BY <1>2, SMTT(40), Z3T(40) DEF Accounted
  <1>3. ASSUME NEW k \in Sinks, RouteKept(s, n), <<s, n>> \in Range(batch[k])
        PROVE  Accounted(s, n)'
    <2>1. RouteKept(s, n)'
      BY <1>3, RouteKeptStays
    <2> QED
      BY <1>3, <2>1 DEF Accounted
  <1> QED
    BY <1>1, <1>2, <1>3, ZenonT(40) DEF Accounted

(* Within a run no source is unblocked. *)
LEMMA BlocksGrow ==
    ASSUME [DagNext]_vars, Slot, phase = "run", phase' = "run"
    PROVE  blocks \subseteq blocks'
  <1> USE DEF durable, control, readers, workers, round
  <1>1. CASE Start \/ Stop \/ Crash \/ RunStep \/ ReaderStep \/ UNCHANGED vars
    BY <1>1, ZenonT(40)
       DEF Start, Stop, Crash, RunStep, OpenSinks, RunEnds, WrapperReleased, ReaderStep, ReaderFrame,
                OpenSource, Read, Send, ReadEnds, vars, Slot
  <1>2. CASE PoolStep
    BY <1>2, ZenonT(40) DEF PoolStep, Forward, ForwardEnds, RouteRecordSafely
  <1>3. CASE TakeRecord \/ ReceiveResult \/ Drained \/ FlushAll \/ RoundEnds \/ BoundaryFails \/ SaveEnds
    BY <1>3, Zenon
       DEF TakeRecord, Apply, ReceiveResult, Drained, FlushAll, RoundEnds, BoundaryFails, SaveEnds, SaveFrame
  <1>4. CASE \E s \in Sources : DrainSource(s) \/ SaveBlocked(s) \/ SaveFails(s) \/ Save(s)
    BY <1>4 DEF DrainSource, Apply, SaveBlocked, SaveFails, Save
  <1>5. CASE \E k \in Sinks : WriteRefused(k) \/ WriteSucceeds(k) \/ WriteFails(k) \/ WriterPanics(k)
    BY <1>5, ZenonT(40) DEF WriteRefused, WriteSucceeds, WriteFails, WriterPanics
  <1> QED
    BY <1>1, <1>2, <1>3, <1>4, <1>5 DEF DagNext, WriterStep

(* What becomes of a record that leaves its batch. *)
LEMMA LeavesSettled ==
    ASSUME OneSink, DagType, [DagNext]_vars, BatchWritten, Slot, phase = "run", phase' = "run",
           NEW s \in Sources, NEW n \in Pos, NEW k \in Sinks, RouteKept(s, n), <<s, n>> \in Range(batch[k])
    PROVE  <<s, n>> \in Range(batch'[k]) \/ Gone(s, n)' \/ s \in blocks'
  <1> USE DEF durable, control, readers, workers, round
  <1>0. RouteKept(s, n)' /\ Growing
    BY OnlyGrowing, RouteKeptStays
  <1>1. CASE batch' = batch
    BY <1>1
  <1>2. CASE Start \/ Stop \/ Crash \/ RunStep \/ ReaderStep \/ PoolStep \/ UNCHANGED vars
    <2>1. batch' = batch
      BY <1>2, ZenonT(40)
         DEF Start, Stop, Crash, RunStep, OpenSinks, RunEnds, WrapperReleased, ReaderStep, ReaderFrame,
                  OpenSource, Read, Send, ReadEnds, vars, PoolStep, Forward, ForwardEnds, RouteRecordSafely
    <2> QED
      BY <2>1
  <1>3. ASSUME NEW t \in Sources, NEW m \in Pos, NEW sinks, NEW safe \in BOOLEAN, Apply(t, m, sinks, safe)
        PROVE  <<s, n>> \in Range(batch'[k])
    <2>1. batch[k] \in Seq(Recs) /\ <<t, m>> \in Recs
      BY DEF DagType, BatchType, Recs
    <2>2. batch'[k] = Append(batch[k], <<t, m>>) \/ batch'[k] = batch[k]
      BY <1>3, SMTT(40), Z3T(40) DEF Apply
    <2> QED
      BY <2>1, <2>2, SentRecords, ZenonT(40)
  <1>4. CASE TakeRecord
    <2>1. Head(chan)[1] \in Sources /\ Head(chan)[2] \in Pos
      BY <1>4, HeadTaken, Zenon DEF DagType
    <2>2. PICK safe \in BOOLEAN : Apply(Head(chan)[1], Head(chan)[2], Routes[Head(chan)[1]][Head(chan)[2]], safe)
      BY <1>4, Zenon DEF TakeRecord
    <2> QED
      BY <1>3, <2>1, <2>2, ZenonT(40)
  <1>5. ASSUME NEW t \in Sources, DrainSource(t) PROVE <<s, n>> \in Range(batch'[k])
    <2>1. PICK x \in pending : Apply(t, x[1][2], IF x[2] = "routed" THEN Routes[t][x[1][2]] ELSE {}, x[1] \notin unsafe)
      BY <1>5, ZenonT(40) DEF DrainSource
    <2>2. x[1][2] \in Pos
      BY Zenon DEF DagType, PoolType, Recs
    <2> QED
      BY <1>3, <2>1, <2>2, ZenonT(40)
  <1>6. CASE ReceiveResult \/ Drained \/ FlushAll \/ RoundEnds \/ (\E t \in Sources : SaveBlocked(t) \/ Save(t))
    <2>1. batch' = batch
      BY <1>6, ZenonT(40) DEF ReceiveResult, Drained, FlushAll, RoundEnds, SaveBlocked, Save
    <2> QED
      BY <2>1
  <1>7. CASE BoundaryFails \/ SaveEnds \/ (\E t \in Sources : SaveFails(t))
    <2>1. wpc = "save" /\ batch' = [batch EXCEPT ![writing] = <<>>]
      BY <1>7 DEF BoundaryFails, SaveEnds, SaveFails, SaveReturns, Discard
    <2>2. k = writing
      BY <2>1 DEF OneSink, DagType, BatchType
    <2>3. <<k, s, n>> \in target
      BY <2>1, <2>2 DEF BatchWritten
    <2> QED
      BY <1>0, <2>3, InTheSinkNext, ZenonT(40) DEF Growing
  <1>8. ASSUME NEW l \in Sinks, WriteRefused(l) PROVE Gone(s, n)'
    <2>1. l = k
      BY SMTT(40), Z3T(40) DEF OneSink
    <2>2. <<k, s, n>> \in dropped'
      <3>1. WriteRefused(k)
        BY <1>8, <2>1, Zenon
      <3>2. dropped' = dropped \cup {<<k, r[1], r[2]>> : r \in Range(batch[k])}
        BY <3>1, Zenon DEF WriteRefused
      <3> QED
        BY <3>2, SMT, Z3
    <2> QED
      BY <2>2 DEF Gone
  <1>9. ASSUME NEW l \in Sinks, WriteFails(l) PROVE Gone(s, n)' \/ s \in blocks'
    <2> DEFINE recs == {<<k, r[1], r[2]>> : r \in Range(batch[k])}
    <2>1. l = k
      BY DEF OneSink
    <2>2. PICK lost : /\ dlq' = dlq \cup (recs \ lost)
                      /\ blocks' = IF lost = {} THEN blocks ELSE blocks \cup SourcesOf(batch[k])
      <3>1. WriteFails(k)
        BY <1>9, <2>1, Zenon
      <3> QED
        BY <3>1, Zenon DEF WriteFails
    <2>3. <<k, s, n>> \in recs /\ s \in SourcesOf(batch[k])
      BY SMT, Z3 DEF SourcesOf
    <2>4. CASE lost = {}
      <3>1. <<k, s, n>> \in dlq'
        BY <2>2, <2>3, <2>4, ZenonT(40)
      <3> QED
        BY <1>0, <3>1, InTheSinkNext
    <2>5. CASE lost # {}
      BY <2>2, <2>3, <2>5, Zenon
    <2> QED
      BY <2>4, <2>5, SMTT(40), Z3T(40)
  <1>10. CASE \E l \in Sinks : WriteSucceeds(l) \/ WriterPanics(l)
    <2>1. batch' = batch
      BY <1>10, ZenonT(40) DEF WriteSucceeds, WriterPanics
    <2> QED
      BY <2>1
  <1> QED
    BY <1>2, <1>4, <1>5, <1>6, <1>7, <1>8, <1>9, <1>10, ZenonT(40) DEF DagNext, WriterStep

LEMMA AccountedStays ==
    ASSUME OneSink, DagType, [DagNext]_vars, BatchWritten, Slot, phase = "run", phase' = "run",
           NEW s \in Sources, NEW n \in Pos, Accounted(s, n)
    PROVE  Accounted(s, n)'
  <1>1. Growing /\ blocks \subseteq blocks'
    BY OnlyGrowing, BlocksGrow
  <1>2. \A k \in Sinks : RouteKept(s, n) /\ <<s, n>> \in Range(batch[k]) =>
               <<s, n>> \in Range(batch'[k]) \/ Gone(s, n)' \/ s \in blocks'
    BY LeavesSettled, ZenonT(40)
  <1> QED
    BY <1>1, <1>2, AccountedKept, Zenon

LEMMA PoolIsSafeKept ==
    ASSUME DagType, [DagNext]_vars, PoolIsSafe
    PROVE  PoolIsSafe'
  <1> USE DEF durable, control, readers, workers, round
  <1>1. SUFFICES ASSUME NEW s \in Sources, NEW n \in Pos, <<s, n>> \notin unsafe'
                 PROVE  /\ <<<<s, n>>, "routed">> \in (pool \cup pending)' => RouteKept(s, n)'
                        /\ <<<<s, n>>, "panicked">> \in (pool \cup pending)' => <<"panic", s, n>> \in dlq'
    BY DEF PoolIsSafe
  <1>2. Growing
    BY OnlyGrowing
  <1>3. ASSUME (pool \cup pending)' \subseteq (pool \cup pending) \cup (Recs \X {"queued"}), unsafe \subseteq unsafe'
        PROVE  /\ <<<<s, n>>, "routed">> \in (pool \cup pending)' => RouteKept(s, n)'
               /\ <<<<s, n>>, "panicked">> \in (pool \cup pending)' => <<"panic", s, n>> \in dlq'
    <2>1. <<s, n>> \notin unsafe
      BY <1>1, <1>3
    <2>2. ASSUME <<<<s, n>>, "routed">> \in (pool \cup pending)' PROVE RouteKept(s, n)'
      <3>1. <<<<s, n>>, "routed">> \in pool \cup pending
        BY <1>3, <2>2
      <3> QED
        BY <1>1, <1>2, <2>1, <3>1, RouteKeptStays, Zenon DEF PoolIsSafe
    <2>3. ASSUME <<<<s, n>>, "panicked">> \in (pool \cup pending)' PROVE <<"panic", s, n>> \in dlq'
      <3>1. <<<<s, n>>, "panicked">> \in pool \cup pending
        BY <1>3, <2>3
      <3> QED
        BY <1>1, <1>2, <2>1, <3>1, ZenonT(40) DEF PoolIsSafe, Growing
    <2> QED
      BY <2>2, <2>3
  <1>4. CASE Start \/ Stop \/ Crash \/ RunStep \/ ReaderStep \/ UNCHANGED vars
    <2>1. UNCHANGED <<pool, pending, unsafe>> \/ (pool' = {} /\ pending' = {})
      BY <1>4, Zenon
         DEF Start, Stop, Crash, RunStep, OpenSinks, RunEnds, WrapperReleased, ReaderStep, ReaderFrame,
                  OpenSource, Read, Send, ReadEnds, vars
    <2> QED
      BY <1>3, <2>1, Zenon
  <1>5. CASE Forward \/ ForwardEnds
    <2>1. (pool \cup pending)' \subseteq (pool \cup pending) \cup (Recs \X {"queued"}) /\ unsafe' = unsafe
      BY <1>5, SMT, Z3 DEF Forward, ForwardEnds, DagType, ReaderType
    <2> QED
      BY <1>3, <2>1, SMTT(40), Z3T(40)
  <1>6. ASSUME NEW t \in Sources, NEW m \in Pos, RouteRecordSafely(t, m)
        PROVE  /\ <<<<s, n>>, "routed">> \in (pool \cup pending)' => RouteKept(s, n)'
               /\ <<<<s, n>>, "panicked">> \in (pool \cup pending)' => <<"panic", s, n>> \in dlq'
    <2>1. PICK safe \in BOOLEAN :
             /\ \/ Route(t, m, safe) /\ pool' = (pool \ {<<<<t, m>>, "queued">>}) \cup {<<<<t, m>>, "routed">>}
                \/ HandleFailed("panic", t, m, safe)
                   /\ pool' = (pool \ {<<<<t, m>>, "queued">>}) \cup {<<<<t, m>>, "panicked">>}
             /\ unsafe' = IF safe THEN unsafe ELSE unsafe \cup {<<t, m>>}
      BY <1>6 DEF RouteRecordSafely
    <2>2. pending' = pending /\ <<s, n>> \notin unsafe
      BY <1>1, <1>6, <2>1, Zenon DEF RouteRecordSafely
    <2>3. CASE <<s, n>> # <<t, m>>
      <3>1. <<<<s, n>>, "routed">> \in (pool \cup pending)' => <<<<s, n>>, "routed">> \in pool \cup pending
        BY <2>1, <2>2, <2>3, SMT, Z3
      <3>2. <<<<s, n>>, "panicked">> \in (pool \cup pending)' => <<<<s, n>>, "panicked">> \in pool \cup pending
        BY <2>1, <2>2, <2>3, SMTT(40), Z3T(40)
      <3> QED
        BY <1>2, <2>2, <3>1, <3>2, RouteKeptStays, Zenon DEF PoolIsSafe, Growing
    <2>4. CASE <<s, n>> = <<t, m>>
      <3>1. safe
        BY <1>1, <2>1, <2>4
      <3>2. CASE Route(t, m, safe) /\ pool' = (pool \ {<<<<t, m>>, "queued">>}) \cup {<<<<t, m>>, "routed">>}
        <4>1. RouteKept(s, n)'
          BY <2>4, <3>1, <3>2, Zenon DEF Route, HandleFailed, RouteKept
        <4>2. <<<<s, n>>, "panicked">> \in (pool \cup pending)' => <<<<s, n>>, "panicked">> \in pool \cup pending
          BY <2>2, <3>2, Zenon
        <4> QED
          BY <1>2, <2>2, <4>1, <4>2, Zenon DEF PoolIsSafe, Growing
      <3>3. CASE HandleFailed("panic", t, m, safe)
                 /\ pool' = (pool \ {<<<<t, m>>, "queued">>}) \cup {<<<<t, m>>, "panicked">>}
        <4>1. <<"panic", s, n>> \in dlq'
          BY <2>4, <3>1, <3>3 DEF HandleFailed
        <4>2. <<<<s, n>>, "routed">> \in (pool \cup pending)' => <<<<s, n>>, "routed">> \in pool \cup pending
          BY <2>2, <3>3, Zenon
        <4> QED
          BY <1>2, <2>2, <4>1, <4>2, RouteKeptStays, Zenon DEF PoolIsSafe
      <3> QED
        BY <2>1, <3>2, <3>3
    <2> QED
      BY <2>3, <2>4
  <1>7. CASE WriterStep
    <2>1. (pool \cup pending)' \subseteq pool \cup pending /\ unsafe' = unsafe
      <3>1. CASE ReceiveResult
        BY <3>1 DEF ReceiveResult
      <3>2. CASE TakeRecord \/ Drained \/ FlushAll \/ RoundEnds \/ BoundaryFails \/ SaveEnds
        BY <3>2, ZenonT(40) DEF TakeRecord, Drained, FlushAll, RoundEnds, BoundaryFails, SaveEnds, SaveFrame
      <3>3. CASE \E t \in Sources : DrainSource(t) \/ SaveBlocked(t) \/ SaveFails(t) \/ Save(t)
        BY <3>3, ZenonT(40) DEF DrainSource, SaveBlocked, SaveFails, Save, SaveFrame
      <3>4. CASE \E k \in Sinks : WriteRefused(k) \/ WriteSucceeds(k) \/ WriteFails(k) \/ WriterPanics(k)
        BY <3>4, ZenonT(40) DEF WriteRefused, WriteSucceeds, WriteFails, WriterPanics
      <3> QED
        BY <1>7, <3>1, <3>2, <3>3, <3>4 DEF WriterStep
    <2> QED
      BY <1>3, <2>1
  <1> QED
    BY <1>4, <1>5, <1>6, <1>7 DEF DagNext, PoolStep

LEMMA BatchWrittenKept ==
    ASSUME DagType, [DagNext]_vars, BatchWritten
    PROVE  BatchWritten'
  <1> USE DEF BatchWritten, durable, control, readers, workers, round
  <1>1. CASE wpc = "save" /\ UNCHANGED <<batch, writing>>
    <2>1. target \subseteq target'
      BY OnlyGrowing DEF Growing
    <2> QED
      BY <1>1, <2>1, Zenon
  <1>2. CASE wpc' # "save"
    BY <1>2
  <1>3. ASSUME NEW k \in Sinks, WriteSucceeds(k) PROVE BatchWritten'
    BY <1>3, ZenonT(40) DEF WriteSucceeds
  <1>4. CASE Start \/ Stop \/ Crash \/ RunStep \/ ReaderStep \/ PoolStep \/ UNCHANGED vars
    <2>1. wpc' # "save" \/ UNCHANGED <<wpc, batch, writing>>
      BY <1>4, ZenonT(40)
         DEF Start, Stop, Crash, RunStep, OpenSinks, RunEnds, WrapperReleased, ReaderStep, ReaderFrame,
                  OpenSource, Read, Send, ReadEnds, vars, PoolStep, Forward, ForwardEnds, RouteRecordSafely
    <2> QED
      BY <1>1, <1>2, <2>1, Zenon
  <1>5. CASE WriterStep /\ ~(\E k \in Sinks : WriteSucceeds(k))
    <2>1. CASE TakeRecord \/ ReceiveResult \/ Drained \/ FlushAll \/ RoundEnds \/ BoundaryFails \/ SaveEnds
      <3>1. wpc' # "save"
        BY <2>1, ZenonT(40)
           DEF TakeRecord, Apply, ReceiveResult, Drained, FlushAll, RoundEnds, BoundaryFails, SaveEnds,
                    SaveReturns, DagType, WriterType
      <3> QED
        BY <1>2, <3>1
    <2>2. CASE \E t \in Sources : DrainSource(t) \/ SaveFails(t)
      <3>1. wpc' # "save"
        BY <2>2, Zenon DEF DrainSource, Apply, SaveFails, SaveReturns
      <3> QED
        BY <1>2, <3>1
    <2>3. CASE \E t \in Sources : SaveBlocked(t) \/ Save(t)
      <3>1. wpc = "save" /\ UNCHANGED <<batch, writing>>
        BY <2>3, Zenon DEF SaveBlocked, Save
      <3> QED
        BY <1>1, <3>1
    <2>4. CASE \E k \in Sinks : WriteRefused(k) \/ WriteFails(k) \/ WriterPanics(k)
      <3>1. wpc' # "save"
        BY <2>4, Zenon DEF WriteRefused, WriteFails, WriterPanics
      <3> QED
        BY <1>2, <3>1
    <2> QED
      BY <1>5, <2>1, <2>2, <2>3, <2>4, ZenonT(40) DEF WriterStep
  <1> QED
    BY <1>3, <1>4, <1>5, ZenonT(40) DEF DagNext

(* The position a save covers. *)
LEMMA SavePoint ==
    ASSUME OneSink, DagType, BatchWritten, BatchOrder, wpc = "save", NEW s \in job \ blocks,
           NEW n \in 1..LastOf(batch[writing], s)
    PROVE  Gone(s, n)
  <1> DEFINE m == LastOf(batch[writing], s)
  <1>1. writing \in Sinks /\ batch[writing] \in Seq(Recs) /\ s \in SourcesOf(batch[writing]) /\ s \in Sources
    BY DEF DagType, BatchType
  <1>2. <<s, m>> \in Range(batch[writing]) /\ m \in Pos
    BY <1>1, LastIsInBatch, Zenon DEF DagType
  <1>3. n \in Pos
    BY <1>2, DagAssumption, SMT, Z3 DEF Pos
  <1>4. Accounted(s, n)
    <2>1. \A r \in Range(batch[writing]) : \A i \in 1..r[2] : Accounted(r[1], i)
      BY <1>1 DEF BatchOrder
    <2>2. \A i \in 1..m : Accounted(s, i)
      BY <1>2, <2>1, Zenon
    <2> QED
      BY <2>2
  <1>5. ASSUME NEW k \in Sinks, RouteKept(s, n), <<s, n>> \in Range(batch[k]) PROVE Gone(s, n)
    <2>1. k = writing
      BY <1>1 DEF OneSink
    <2>2. <<writing, s, n>> \in target
      BY <1>5, <2>1 DEF BatchWritten
    <2> QED
      BY <1>1, <1>3, <1>5, <2>2, InTheSink, Zenon
  <1> QED
    BY <1>4, <1>5 DEF Accounted

LEMMA CoveredKept ==
    ASSUME OneSink, DagType, Slot, [DagNext]_vars, Account
    PROVE  CoveredIsSettled'
  <1> USE DEF durable, control, readers, workers, round
  <1>1. Growing /\ \A s \in Sources : \A n \in 1..cp[s] : Gone(s, n)
    BY OnlyGrowing, Zenon DEF Account, CoveredIsSettled, Gone
  <1>2. SUFFICES \A s \in Sources : \A n \in 1..cp'[s] : Gone(s, n)
    BY <1>1, GoneStays, Zenon DEF CoveredIsSettled, Gone
  <1>3. CASE cp' = cp
    BY <1>1, <1>3, Zenon
  <1>4. ASSUME NEW t \in Sources, Save(t) \/ SaveFails(t)
        PROVE  \A s \in Sources : \A n \in 1..cp'[s] : Gone(s, n)
    <2>1. wpc = "save" /\ t \in job \ blocks
      BY <1>4 DEF Save, SaveFails
    <2>2. phase = "run"
      BY <2>1 DEF Slot, DagType, ControlType
    <2>3. BatchWritten /\ BatchOrder
      BY <2>2 DEF Account
    <2>4. \A n \in 1..LastOf(batch[writing], t) : Gone(t, n)
      BY <2>1, <2>3, SavePoint, Zenon
    <2>5. cp' = cp \/ cp' = [cp EXCEPT ![t] = LastOf(batch[writing], t)]
      BY <1>4 DEF Save, SaveFails
    <2>6. \A s \in Sources : cp'[s] = cp[s] \/ (s = t /\ cp'[s] = LastOf(batch[writing], t))
      BY <2>5 DEF DagType, SystemType
    <2> QED
      BY <1>1, <2>4, <2>6, Zenon
  <1>5. cp' = cp \/ \E t \in Sources : Save(t) \/ SaveFails(t)
    BY CheckpointSteps
  <1> QED
    BY <1>3, <1>4, <1>5

(* The record a step applies is accounted for from then on. *)
LEMMA Applied ==
    ASSUME NEW s \in Sources, NEW n \in Pos, NEW sinks, NEW safe \in BOOLEAN, Apply(s, n, sinks, safe), DagType,
           safe => \/ RouteKept(s, n)' /\ sinks = Routes[s][n]
                   \/ <<"panic", s, n>> \in dlq'
    PROVE  Accounted(s, n)'
  <1>1. CASE ~safe
    BY <1>1, Zenon DEF Apply, Accounted
  <1>2. CASE <<"panic", s, n>> \in dlq'
    BY <1>2, Zenon DEF Accounted, Gone, Settled
  <1>3. CASE RouteKept(s, n)' /\ sinks = Routes[s][n]
    <2>1. CASE Routes[s][n] = {}
      BY <1>3, <2>1 DEF Accounted, Gone, Settled, RouteKept
    <2>2. CASE Routes[s][n] # {}
      <3>1. PICK k \in Sinks : k \in sinks
        BY <1>3, <2>2, DagAssumption, Zenon
      <3>2. batch[k] \in Seq(Recs) /\ <<s, n>> \in Recs
        BY Zenon DEF DagType, BatchType, Recs
      <3>3. batch'[k] = Append(batch[k], <<s, n>>)
        BY <3>1 DEF Apply
      <3>4. <<s, n>> \in Range(batch'[k])
        BY <3>2, <3>3, SentRecords, ZenonT(40)
      <3> QED
        BY <1>3, <3>4, Zenon DEF Accounted
    <2> QED
      BY <2>1, <2>2, Zenon
  <1> QED
    BY <1>1, <1>2, <1>3, Zenon

(* The records of the batches after a step: those of before, and the one it applied. *)
LEMMA AppliedRecords ==
    ASSUME DagType, NEW s \in Sources, NEW n \in Pos, NEW sinks, NEW safe \in BOOLEAN, Apply(s, n, sinks, safe),
           NEW k \in Sinks, NEW r \in Range(batch'[k])
    PROVE  r \in Range(batch[k]) \/ r = <<s, n>>
  <1>1. batch[k] \in Seq(Recs) /\ <<s, n>> \in Recs
    BY DEF DagType, BatchType, Recs
  <1>2. batch'[k] = Append(batch[k], <<s, n>>) \/ batch'[k] = batch[k]
    BY DEF Apply
  <1> QED
    BY <1>1, <1>2, SentRecords, ZenonT(40)

(* TakeRecord applies the head of the channel; DrainSource the next result of a source. *)
LEMMA Taken ==
    ASSUME DagType, [DagNext]_vars, TakeRecord
    PROVE  \E s \in Sources, n \in Pos, safe \in BOOLEAN :
              /\ Head(chan) = <<s, n>> /\ Apply(s, n, Routes[s][n], safe)
              /\ Accounted(s, n)'
  <1>1. Head(chan) \in Recs
    BY HeadTaken, Zenon DEF DagType
  <1>2. PICK s \in Sources, n \in Pos : Head(chan) = <<s, n>>
    BY <1>1, SMTT(40), Z3T(40) DEF Recs
  <1>3. PICK safe \in BOOLEAN : Route(s, n, safe) /\ Apply(s, n, Routes[s][n], safe)
    <2>1. Head(chan)[1] = s /\ Head(chan)[2] = n
      BY <1>2, SMT, Z3
    <2>2. \E safe \in BOOLEAN : /\ Route(Head(chan)[1], Head(chan)[2], safe)
                               /\ Apply(Head(chan)[1], Head(chan)[2], Routes[Head(chan)[1]][Head(chan)[2]], safe)
      BY Zenon DEF TakeRecord
    <2> QED
      BY <2>1, <2>2, Zenon
  <1>4. safe => RouteKept(s, n)'
    BY <1>3 DEF Route, HandleFailed, RouteKept
  <1>5. Accounted(s, n)'
    BY <1>3, <1>4, Applied, Zenon
  <1> QED
    BY <1>2, <1>3, <1>5, SMTT(40), Z3T(40)

LEMMA DrainedOne ==
    ASSUME DagType, [DagNext]_vars, PoolIsSafe, NEW s \in Sources, DrainSource(s), NEW n, n = nextSeq[s]
    PROVE  /\ n \in Pos /\ nextSeq' = [nextSeq EXCEPT ![s] = @ + 1]
           /\ Accounted(s, n)'
           /\ \E sinks \in {Routes[s][n], {}}, safe \in BOOLEAN : Apply(s, n, sinks, safe)
  <1>1. PICK x \in pending : /\ x[1] = <<s, n>>
                             /\ nextSeq' = [nextSeq EXCEPT ![s] = @ + 1]
                             /\ Apply(s, x[1][2], IF x[2] = "routed" THEN Routes[s][x[1][2]] ELSE {},
                                      x[1] \notin unsafe)
    BY Zenon DEF DrainSource
  <1>2. /\ x \in Recs \X {"routed", "panicked"} /\ n \in Pos
        /\ x = <<<<s, n>>, "routed">> \/ x = <<<<s, n>>, "panicked">>
    <2>1. x \in Recs \X {"routed", "panicked"}
      BY <1>1, Zenon DEF DagType, PoolType
    <2>2. x[1] = <<s, n>>
      BY <1>1, Zenon
    <2> QED
      BY <2>1, <2>2, SMT, Z3 DEF Recs
  <1>3. Apply(s, n, IF x[2] = "routed" THEN Routes[s][n] ELSE {}, <<s, n>> \notin unsafe)
    BY <1>1, SMT, Z3
  <1>4. Growing
    BY OnlyGrowing
  <1>5. ASSUME <<s, n>> \notin unsafe
        PROVE  \/ RouteKept(s, n)' /\ (IF x[2] = "routed" THEN Routes[s][n] ELSE {}) = Routes[s][n]
               \/ <<"panic", s, n>> \in dlq'
    <2>1. CASE x = <<<<s, n>>, "routed">>
      <3>1. RouteKept(s, n)
        BY <1>2, <1>5, <2>1, ZenonT(40) DEF PoolIsSafe
      <3> QED
        BY <1>4, <2>1, <3>1, RouteKeptStays, ZenonT(40)
    <2>2. CASE x = <<<<s, n>>, "panicked">>
      BY <1>2, <1>4, <1>5, <2>2, Zenon DEF PoolIsSafe, Growing
    <2> QED
      BY <1>2, <2>1, <2>2, ZenonT(40)
  <1>6. Accounted(s, n)'
    <2> DEFINE sinks == IF x[2] = "routed" THEN Routes[s][n] ELSE {}
               safe == <<s, n>> \notin unsafe
    <2>1. safe \in BOOLEAN /\ Apply(s, n, sinks, safe)
      BY <1>3, ZenonT(40)
    <2>2. safe => (RouteKept(s, n)' /\ sinks = Routes[s][n]) \/ <<"panic", s, n>> \in dlq'
      BY <1>5, Zenon
    <2> HIDE DEF sinks, safe
    <2> QED
      BY <1>2, <2>1, <2>2, Applied, ZenonT(40)
  <1> QED
    BY <1>1, <1>2, <1>3, <1>6, ZenonT(40)

(* Every other step of a run leaves the batches the records they have, or fewer. *)
LEMMA OtherSteps ==
    ASSUME DagType, Slot, [DagNext]_vars, phase = "run", phase' = "run", ~TakeRecord,
           ~(\E s \in Sources : DrainSource(s))
    PROVE  /\ nextSeq' = nextSeq
           /\ \A k \in Sinks : Range(batch'[k]) \subseteq Range(batch[k])
  <1> USE DEF durable, control, readers, workers, round
  <1>1. ASSUME NEW l \in Sinks, batch' = [batch EXCEPT ![l] = <<>>]
        PROVE  \A k \in Sinks : Range(batch'[k]) \subseteq Range(batch[k])
    <2>1. SUFFICES ASSUME NEW k \in Sinks PROVE Range(batch'[k]) \subseteq Range(batch[k])
      OBVIOUS
    <2>2. batch'[k] = batch[k] \/ batch'[k] = <<>>
      BY <1>1 DEF DagType, BatchType
    <2>3. Range(<<>>) = {}
      BY SMT, Z3 DEF Range
    <2> QED
      BY <2>2, <2>3
  <1>2. CASE Start \/ Stop \/ Crash \/ RunStep \/ ReaderStep \/ UNCHANGED vars
    <2>1. UNCHANGED <<batch, nextSeq>>
      BY <1>2, ZenonT(40)
         DEF Start, Stop, Crash, RunStep, OpenSinks, RunEnds, WrapperReleased, ReaderStep, ReaderFrame,
                  OpenSource, Read, Send, ReadEnds, vars
    <2> QED
      BY <2>1
  <1>3. CASE PoolStep \/ ReceiveResult \/ Drained \/ FlushAll \/ RoundEnds
    <2>1. UNCHANGED <<batch, nextSeq>>
      BY <1>3, ZenonT(40)
         DEF PoolStep, Forward, ForwardEnds, RouteRecordSafely, ReceiveResult, Drained, FlushAll, RoundEnds
    <2> QED
      BY <2>1
  <1>4. CASE BoundaryFails \/ SaveEnds \/ (\E s \in Sources : SaveFails(s))
    <2>1. wpc = "save" /\ batch' = [batch EXCEPT ![writing] = <<>>]
      BY <1>4, Zenon DEF BoundaryFails, SaveEnds, SaveFails, SaveReturns, Discard
    <2>2. writing \in Sinks
      BY <2>1, Zenon DEF DagType, BatchType
    <2>3. nextSeq' = nextSeq
      BY <1>4, Zenon DEF BoundaryFails, SaveEnds, SaveFails, SaveFrame
    <2> QED
      BY <1>1, <2>1, <2>2, <2>3, Zenon
  <1>5. CASE \E s \in Sources : SaveBlocked(s) \/ Save(s)
    <2>1. UNCHANGED <<batch, nextSeq>>
      BY <1>5 DEF SaveBlocked, Save, SaveFrame
    <2> QED
      BY <2>1
  <1>6. ASSUME NEW l \in Sinks, WriteRefused(l) \/ WriteFails(l)
        PROVE  nextSeq' = nextSeq /\ \A k \in Sinks : Range(batch'[k]) \subseteq Range(batch[k])
    <2>1. nextSeq' = nextSeq /\ batch' = [batch EXCEPT ![l] = <<>>]
      BY <1>6, Zenon DEF WriteRefused, WriteFails, Discard
    <2> QED
      BY <1>1, <2>1, ZenonT(40)
  <1>7. CASE \E l \in Sinks : WriteSucceeds(l) \/ WriterPanics(l)
    <2>1. UNCHANGED <<batch, nextSeq>>
      BY <1>7, ZenonT(40) DEF WriteSucceeds, WriterPanics
    <2> QED
      BY <2>1
  <1> QED
    BY <1>2, <1>3, <1>4, <1>5, <1>6, <1>7, ZenonT(40) DEF DagNext, WriterStep

(* A run begins with nothing on its way. *)
LEMMA OrderBegins ==
    ASSUME DagType, [DagNext]_vars, CoveredIsSettled, phase # "run", phase' = "run"
    PROVE  BatchOrder' /\ ResultOrder' /\ ChannelOrder'
  <1> USE DEF durable, control, readers, workers, round
  <1>1. OpenSinks
    <2>1. CASE Start \/ Stop \/ Crash \/ RunEnds \/ WrapperReleased \/ ReaderStep \/ PoolStep \/ UNCHANGED vars
      BY <2>1, Zenon
         DEF Start, Stop, Crash, RunEnds, WrapperReleased, ReaderStep, ReaderFrame, OpenSource, Read, Send,
                  ReadEnds, vars, PoolStep, Forward, ForwardEnds, RouteRecordSafely
    <2>2. CASE WriterStep
      <3>1. phase' = phase
        <4>1. CASE TakeRecord \/ ReceiveResult \/ Drained \/ FlushAll \/ RoundEnds \/ BoundaryFails \/ SaveEnds
          BY <4>1, ZenonT(40)
             DEF TakeRecord, ReceiveResult, Drained, FlushAll, RoundEnds, BoundaryFails, SaveEnds, SaveFrame
        <4>2. CASE \E s \in Sources : DrainSource(s) \/ SaveBlocked(s) \/ SaveFails(s) \/ Save(s)
          BY <4>2, ZenonT(40) DEF DrainSource, SaveBlocked, SaveFails, Save, SaveFrame
        <4>3. CASE \E k \in Sinks : WriteRefused(k) \/ WriteSucceeds(k) \/ WriteFails(k) \/ WriterPanics(k)
          BY <4>3, ZenonT(40) DEF WriteRefused, WriteSucceeds, WriteFails, WriterPanics
        <4> QED
          BY <2>2, <4>1, <4>2, <4>3, Zenon DEF WriterStep
      <3> QED
        BY <3>1, Zenon
    <2> QED
      BY <2>1, <2>2, Zenon DEF DagNext, RunStep
  <1>2. /\ batch' = EmptyBatches /\ chan' = <<>>
        /\ nextSeq' = [s \in Sources |-> cp[s] + 1]
        /\ rpc' = [s \in Sources |-> "opening"]
    BY <1>1 DEF OpenSinks
  <1>3. \A k \in Sinks : Range(batch'[k]) = {}
    BY <1>2, SMT, Z3 DEF EmptyBatches, Range
  <1>4. ASSUME NEW s \in Sources, NEW n \in 1..(nextSeq'[s] - 1) PROVE Accounted(s, n)'
    <2>1. n \in 1..cp[s]
      BY <1>2, <1>4, SMT, Z3 DEF DagType, SystemType
    <2>2. Gone(s, n)
      BY <2>1, ZenonT(40) DEF CoveredIsSettled, Gone
    <2> QED
      BY <2>2, OnlyGrowing, GoneStays, Zenon DEF Accounted
  <1>5. BatchOrder' /\ ResultOrder'
    BY <1>3, <1>4, Zenon DEF BatchOrder, ResultOrder
  <1>6. ChannelOrder'
    <2>1. DOMAIN chan' = {}
      BY <1>2, SMT, Z3
    <2>2. \A s \in Sources : rpc'[s] = "opening"
      BY <1>2, Zenon
    <2> QED
      BY <2>1, <2>2 DEF ChannelOrder
  <1> QED
    BY <1>5, <1>6

LEMMA BatchOrderKept ==
    ASSUME OneSink, DagType, Slot, [DagNext]_vars, Account, phase = "run", phase' = "run"
    PROVE  BatchOrder'
  <1> SUFFICES ASSUME NEW k \in Sinks, NEW r \in Range(batch'[k]), NEW n \in 1..r[2]
               PROVE  Accounted(r[1], n)'
    BY DEF BatchOrder
  <1>1. BatchWritten /\ BatchOrder /\ PoolIsSafe
    BY DEF Account
  <1>2. \A s \in Sources, i \in Pos : Accounted(s, i) => Accounted(s, i)'
    BY <1>1, AccountedStays, Zenon
  <1>3. CASE r \in Range(batch[k])
    <2>1. r \in Recs
      BY <1>3, SMT, Z3 DEF DagType, BatchType, Range
    <2>2. r[1] \in Sources /\ n \in Pos
      BY <2>1, DagAssumption, SMTT(40), Z3T(40) DEF Recs, Pos
    <2> QED
      BY <1>1, <1>2, <1>3, <2>2, Zenon DEF BatchOrder
  <1>4. CASE TakeRecord
    <2>1. PICK s \in Sources, m \in Pos, safe \in BOOLEAN :
             Head(chan) = <<s, m>> /\ Apply(s, m, Routes[s][m], safe) /\ Accounted(s, m)'
      BY <1>4, Taken
    <2>2. r \in Range(batch[k]) \/ r = <<s, m>>
      BY <2>1, AppliedRecords, ZenonT(40)
    <2>3. CASE r = <<s, m>>
      <3>1. ~Parallel /\ chan \in Seq(Recs) /\ chan # <<>>
        BY <1>4, ZenonT(40) DEF TakeRecord, DagType, ReaderType
      <3>2. 1 \in DOMAIN chan /\ chan[1] = <<s, m>>
        BY <2>1, <3>1, SMTT(40), Z3T(40)
      <3>3. \A i \in 1..(m - 1) : Accounted(s, i)
        BY <3>1, <3>2, SMTT(40), Z3T(40) DEF Account, ChannelOrder
      <3>4. n = m \/ (n \in 1..(m - 1) /\ n \in Pos)
        BY <2>3, DagAssumption, SMTT(40), Z3T(40) DEF Pos
      <3> QED
        BY <1>2, <2>1, <2>3, <3>3, <3>4, Zenon
    <2> QED
      BY <1>3, <2>2, <2>3
  <1>5. ASSUME NEW s \in Sources, DrainSource(s) PROVE Accounted(r[1], n)'
    <2>0. PICK m : m = nextSeq[s]
      OBVIOUS
    <2>1. /\ m \in Pos /\ Accounted(s, m)'
          /\ \E sinks \in {Routes[s][m], {}}, safe \in BOOLEAN : Apply(s, m, sinks, safe)
      BY <1>1, <1>5, <2>0, DrainedOne, ZenonT(40)
    <2>2. r \in Range(batch[k]) \/ r = <<s, m>>
      <3>1. PICK sinks \in {Routes[s][m], {}}, safe \in BOOLEAN : Apply(s, m, sinks, safe)
        BY <2>1, Zenon
      <3> QED
        BY <2>1, <3>1, AppliedRecords, Zenon
    <2>3. CASE r = <<s, m>>
      <3>1. Parallel
        BY <1>5, ZenonT(40) DEF DrainSource, Slot, DagType, PoolType
      <3>2. \A i \in 1..(m - 1) : Accounted(s, i)
        BY <2>0, <3>1, Zenon DEF Account, ResultOrder
      <3>3. n = m \/ (n \in 1..(m - 1) /\ n \in Pos)
        BY <2>1, <2>3, DagAssumption, SMTT(40), Z3T(40) DEF Pos
      <3> QED
        BY <1>2, <2>1, <2>3, <3>2, <3>3, Zenon
    <2> QED
      BY <1>3, <2>2, <2>3
  <1> QED
    BY <1>3, <1>4, <1>5, OtherSteps, Zenon

LEMMA ResultOrderKept ==
    ASSUME OneSink, DagType, Slot, [DagNext]_vars, Account, Parallel, phase = "run", phase' = "run"
    PROVE  ResultOrder'
  <1>1. BatchWritten /\ ResultOrder /\ PoolIsSafe
    BY DEF Account
  <1>2. \A s \in Sources, i \in Pos : Accounted(s, i) => Accounted(s, i)'
    BY <1>1, AccountedStays
  <1>3. nextSeq \in [Sources -> 1..N + 1] /\ N \in Nat
    BY DagAssumption, Zenon DEF DagType, PoolType
  <1>4. ~TakeRecord
    BY DEF TakeRecord
  <1>5. ASSUME NEW s \in Sources, DrainSource(s) PROVE ResultOrder'
    <2>0. PICK m : m = nextSeq[s]
      BY Zenon
    <2>1. /\ m \in Pos /\ nextSeq' = [nextSeq EXCEPT ![s] = @ + 1] /\ Accounted(s, m)'
          /\ \E sinks \in {Routes[s][m], {}}, safe \in BOOLEAN : Apply(s, m, sinks, safe)
      BY <1>1, <1>5, <2>0, DrainedOne, ZenonT(40)
    <2> DEFINE Later(u) == nextSeq[u] \in Nat /\ nextSeq'[u] \in Nat /\ nextSeq[u] <= nextSeq'[u]
    <2>4. \A u \in Sources : Later(u)
      <3>1. nextSeq' = [nextSeq EXCEPT ![s] = @ + 1]
        BY <2>1, Zenon
      <3> QED
        BY <1>3, <3>1, SMT, Z3
    <2>2. ASSUME NEW t \in Sources, NEW n \in 1..(nextSeq'[t] - 1) PROVE Accounted(t, n)'
      <3>1. n \in Pos /\ (n \in 1..(nextSeq[t] - 1) \/ (t = s /\ n = m))
        BY <1>3, <2>0, <2>1, <2>2, SMTT(40), Z3T(40) DEF Pos
      <3> QED
        BY <1>1, <1>2, <2>1, <3>1, Zenon DEF ResultOrder
    <2>3. ASSUME NEW k \in Sinks, NEW r \in Range(batch'[k]) PROVE r[2] < nextSeq'[r[1]]
      <3>1. r \in Range(batch[k]) \/ r = <<s, m>>
        BY <2>1, <2>3, AppliedRecords, ZenonT(40)
      <3>2. CASE r \in Range(batch[k])
        <4>1. r[1] \in Sources /\ r[2] \in Nat
          BY <1>3, <3>2, SMTT(40), Z3T(40) DEF DagType, BatchType, Range, Recs, Pos
        <4>2. r[2] < nextSeq[r[1]]
          BY <1>1, <3>2, Zenon DEF ResultOrder
        <4> QED
          BY <2>4, <4>1, <4>2, SMTT(40), Z3T(40)
      <3>3. CASE r = <<s, m>>
        BY <1>3, <2>0, <2>1, <3>3, SMT, Z3
      <3> QED
        BY <3>1, <3>2, <3>3, Zenon
    <2> QED
      BY <2>2, <2>3 DEF ResultOrder
  <1>6. CASE ~(\E s \in Sources : DrainSource(s))
    <2>1. nextSeq' = nextSeq /\ \A k \in Sinks : Range(batch'[k]) \subseteq Range(batch[k])
      BY <1>4, <1>6, OtherSteps, Zenon
    <2>2. \A s \in Sources : \A n \in 1..(nextSeq[s] - 1) : n \in Pos
      BY <1>3, SMTT(40), Z3T(40) DEF Pos
    <2>3. \A s \in Sources : \A n \in 1..(nextSeq'[s] - 1) : Accounted(s, n)'
      BY <1>1, <1>2, <2>1, <2>2, Zenon DEF ResultOrder
    <2>4. \A k \in Sinks : \A r \in Range(batch'[k]) : r[2] < nextSeq'[r[1]]
      BY <1>1, <2>1, Zenon DEF ResultOrder
    <2> QED
      BY <2>3, <2>4, Zenon DEF ResultOrder
  <1> QED
    BY <1>5, <1>6, Zenon

(* Who changes the channel and the positions of the readers. *)
LEMMA ChannelSteps ==
    ASSUME [DagNext]_vars, phase = "run", phase' = "run", PoolEmpty, ~TakeRecord, ~ReaderStep
    PROVE  UNCHANGED <<chan, rpc, pos>>
  <1> USE DEF durable, control, readers, workers, round
  <1>1. CASE Start \/ Stop \/ Crash \/ RunStep \/ UNCHANGED vars
    BY <1>1, ZenonT(40) DEF Start, Stop, Crash, RunStep, OpenSinks, RunEnds, WrapperReleased, vars
  <1>2. CASE PoolStep
    BY <1>2, SMTT(40), Z3T(40) DEF PoolStep, Forward, ForwardEnds, RouteRecordSafely, PoolEmpty
  <1>3. CASE ReceiveResult \/ Drained \/ FlushAll \/ RoundEnds \/ BoundaryFails \/ SaveEnds
    BY <1>3, ZenonT(40) DEF ReceiveResult, Drained, FlushAll, RoundEnds, BoundaryFails, SaveEnds, SaveFrame
  <1>4. CASE \E s \in Sources : DrainSource(s) \/ SaveBlocked(s) \/ SaveFails(s) \/ Save(s)
    BY <1>4, ZenonT(40) DEF DrainSource, SaveBlocked, SaveFails, Save, SaveFrame
  <1>5. CASE \E k \in Sinks : WriteRefused(k) \/ WriteSucceeds(k) \/ WriteFails(k) \/ WriterPanics(k)
    BY <1>5, Zenon DEF WriteRefused, WriteSucceeds, WriteFails, WriterPanics
  <1> QED
    BY <1>1, <1>2, <1>3, <1>4, <1>5, Zenon DEF DagNext, WriterStep

LEMMA ChannelOrderKept ==
    ASSUME OneSink, DagType, Slot, [DagNext]_vars, Account, ~Parallel, phase = "run", phase' = "run"
    PROVE  ChannelOrder'
  <1> USE DEF durable, control, readers, workers, round
  <1>1. BatchWritten /\ ChannelOrder /\ PoolEmpty /\ CoveredIsSettled
    BY DEF Account, Slot
  <1>2. \A s \in Sources, i \in Pos : Accounted(s, i) => Accounted(s, i)'
    BY <1>1, AccountedStays, Zenon
  <1>3. chan \in Seq(Recs) /\ N \in Nat /\ pos \in [Sources -> 0..N] /\ rpc \in [Sources -> Readers]
    BY DagAssumption DEF DagType, ReaderType
  <1>4. \A i \in DOMAIN chan : chan[i] \in Recs /\ chan[i][1] \in Sources /\ \A n \in 1..(chan[i][2] - 1) : n \in Pos
    BY <1>3, SMTT(40), Z3T(40) DEF Recs, Pos
  <1>5. \A s \in Sources : \A n \in 1..pos[s] : n \in Pos
    BY <1>3, SMTT(40), Z3T(40) DEF Pos
  (* What was accounted for still is. *)
  <1>5a. \A i \in DOMAIN chan : \A n \in 1..(chan[i][2] - 1), s \in Sources : s = chan[i][1] =>
            Accounted(s, n)' \/ \E j \in 1..(i - 1) : chan[j] = <<s, n>>
    BY <1>1, <1>2, <1>4, ZenonT(40) DEF ChannelOrder
  <1>5b. \A s \in Sources : rpc[s] \in {"reading", "sending"} =>
            \A n \in 1..pos[s] : Accounted(s, n)' \/ \E j \in DOMAIN chan : chan[j] = <<s, n>>
    BY <1>1, <1>2, <1>5, ZenonT(40) DEF ChannelOrder
  (* The records in the channel, and the positions, when the channel is as it was. *)
  <1>6. ASSUME chan' = chan
        PROVE  /\ (\A i \in DOMAIN chan : \A n \in 1..(chan[i][2] - 1) :
                     Accounted(chan[i][1], n) \/ \E j \in 1..(i - 1) : chan[j] = <<chan[i][1], n>>)'
               /\ \A s \in Sources : rpc[s] \in {"reading", "sending"} =>
                     \A n \in 1..pos[s] : Accounted(s, n)' \/ \E j \in DOMAIN chan' : chan'[j] = <<s, n>>
    BY <1>4, <1>6, <1>5a, <1>5b, ZenonT(40)
  <1>7. CASE ~TakeRecord /\ ~ReaderStep
    <2>1. UNCHANGED <<chan, rpc, pos>>
      BY <1>1, <1>7, ChannelSteps, SMTT(40), Z3T(40)
    <2> QED
      BY <1>6, <2>1, Zenon DEF ChannelOrder
  <1>8. ASSUME NEW t \in Sources, Read(t) \/ ReadEnds(t) PROVE ChannelOrder'
    <2>1. chan' = chan /\ pos' = pos
      BY <1>8, Zenon DEF Read, ReadEnds
    <2>2. \A s \in Sources : rpc'[s] \in {"reading", "sending"} => rpc[s] \in {"reading", "sending"}
      BY <1>3, <1>8, Zenon DEF Read, ReadEnds
    <2> QED
      BY <1>6, <2>1, <2>2, Zenon DEF ChannelOrder
  <1>9. ASSUME NEW t \in Sources, OpenSource(t) PROVE ChannelOrder'
    <2>1. chan' = chan
      BY <1>9, Zenon DEF OpenSource
    <2>2. \A n \in 1..cp[t] : Accounted(t, n)'
      <3>1. \A n \in 1..cp[t] : Gone(t, n)
        BY <1>1, Zenon DEF CoveredIsSettled, Gone
      <3> QED
        BY <3>1, OnlyGrowing, GoneStays, Zenon DEF Accounted
    <2>3. \A s \in Sources : rpc'[s] \in {"reading", "sending"} =>
             \/ rpc[s] \in {"reading", "sending"} /\ pos'[s] = pos[s]
             \/ s = t /\ pos'[s] = cp[s]
      BY <1>3, <1>9, Zenon DEF OpenSource
    <2> QED
      BY <1>6, <2>1, <2>2, <2>3, Zenon DEF ChannelOrder
  <1>10. ASSUME NEW t \in Sources, Send(t) PROVE ChannelOrder'
    <2> DEFINE new == <<t, pos[t] + 1>>
    <2>1. /\ rpc[t] = "sending" /\ chan' = Append(chan, new)
          /\ pos' = [pos EXCEPT ![t] = @ + 1] /\ rpc' = [rpc EXCEPT ![t] = "reading"]
      BY <1>10 DEF Send
    <2>2. /\ DOMAIN chan' = 1..(Len(chan) + 1) /\ DOMAIN chan = 1..Len(chan) /\ Len(chan) \in Nat
          /\ chan'[Len(chan) + 1] = new
          /\ \A i \in DOMAIN chan : i \in DOMAIN chan' /\ chan'[i] = chan[i]
      <3>1. new \in Recs
        BY <1>3, <2>1, SMT, Z3 DEF DagType, ReaderType, Recs, Pos
      <3> HIDE DEF new
      <3> QED
        BY <1>3, <2>1, <3>1, SentPlaces, Zenon
    <2>3. \A n \in 1..pos[t] : Accounted(t, n)' \/ \E j \in DOMAIN chan : chan[j] = <<t, n>>
      BY <1>5b, <2>1, Zenon
    <2>4. ASSUME NEW i \in DOMAIN chan', NEW n \in 1..(chan'[i][2] - 1)
          PROVE  (Accounted(chan[i][1], n) \/ \E j \in 1..(i - 1) : chan[j] = <<chan[i][1], n>>)'
      <3>1. CASE i \in DOMAIN chan
        <4>0. PICK s \in Sources : s = chan[i][1] /\ n \in 1..(chan[i][2] - 1) /\ chan'[i] = chan[i]
          BY <1>4, <2>2, <2>4, <3>1, Zenon
        <4>1. Accounted(s, n)' \/ \E j \in 1..(i - 1) : chan[j] = <<s, n>>
          BY <1>5a, <3>1, <4>0, Zenon
        <4>2. \A j \in 1..(i - 1) : j \in DOMAIN chan
          BY <2>2, <3>1, SMTT(40), Z3T(40)
        <4> QED
          BY <2>2, <4>0, <4>1, <4>2, Zenon
      <3>2. CASE i = Len(chan) + 1
        <4>1. chan'[i][1] = t /\ n \in 1..pos[t] /\ 1..(i - 1) = DOMAIN chan
          BY <1>3, <2>2, <2>4, <3>2, SMTT(40), Z3T(40)
        <4>2. Accounted(t, n)' \/ \E j \in 1..(i - 1) : chan'[j] = <<t, n>>
          BY <2>2, <2>3, <4>1, Zenon
        <4> QED
          BY <4>1, <4>2, Zenon
      <3> QED
        BY <2>2, <3>1, <3>2, SMTT(40), Z3T(40)
    <2>5. ASSUME NEW s \in Sources, rpc'[s] \in {"reading", "sending"}, NEW n \in 1..pos'[s]
          PROVE  Accounted(s, n)' \/ \E j \in DOMAIN chan' : chan'[j] = <<s, n>>
      <3>1. rpc[s] \in {"reading", "sending"} /\ (n \in 1..pos[s] \/ (s = t /\ n = pos[t] + 1))
        BY <1>3, <2>1, <2>5, SMT, Z3
      <3>2. CASE n \in 1..pos[s]
        <4>1. Accounted(s, n)' \/ \E j \in DOMAIN chan : chan[j] = <<s, n>>
          BY <1>5b, <3>1, <3>2, Zenon
        <4> QED
          BY <2>2, <4>1, Zenon
      <3>3. CASE s = t /\ n = pos[t] + 1
        BY <2>2, <3>3, SMTT(40), Z3T(40)
      <3> QED
        BY <3>1, <3>2, <3>3, Zenon
    <2> QED
      BY <2>4, <2>5, Zenon DEF ChannelOrder
  <1>11. CASE TakeRecord
    <2>1. PICK t \in Sources, m \in Pos : Head(chan) = <<t, m>> /\ Accounted(t, m)'
      BY <1>11, Taken, Zenon
    <2>2. chan # <<>> /\ chan' = Tail(chan) /\ UNCHANGED <<rpc, pos>>
      BY <1>11 DEF TakeRecord
    <2>3. /\ DOMAIN chan = 1..Len(chan) /\ DOMAIN chan' = 1..(Len(chan) - 1) /\ Len(chan) \in Nat \ {0}
          /\ chan[1] = <<t, m>>
          /\ \A i \in DOMAIN chan' : i + 1 \in DOMAIN chan /\ chan'[i] = chan[i + 1]
      BY <1>3, <2>1, <2>2, TakenRecords, Zenon
    <2>4. ASSUME NEW s \in Sources, NEW n \in Pos, NEW j \in DOMAIN chan, chan[j] = <<s, n>>
          PROVE  Accounted(s, n)' \/ (j - 1 \in DOMAIN chan' /\ chan'[j - 1] = <<s, n>>)
      <3>1. CASE j = 1
        BY <2>1, <2>3, <2>4, <3>1, SMTT(40), Z3T(40)
      <3>2. CASE j # 1
        <4>1. j - 1 \in DOMAIN chan' /\ (j - 1) + 1 = j
          BY <2>3, <3>2, SMTT(40), Z3T(40)
        <4> QED
          BY <2>3, <2>4, <4>1, Zenon
      <3> QED
        BY <3>1, <3>2, ZenonT(40)
    <2>5. ASSUME NEW i \in DOMAIN chan', NEW n \in 1..(chan'[i][2] - 1)
          PROVE  (Accounted(chan[i][1], n) \/ \E j \in 1..(i - 1) : chan[j] = <<chan[i][1], n>>)'
      <3>1. PICK s \in Sources : /\ i + 1 \in DOMAIN chan /\ chan'[i] = chan[i + 1] /\ i \in Nat
                                 /\ s = chan[i + 1][1] /\ n \in Pos
        BY <1>4, <2>3, <2>5, SMTT(40), Z3T(40)
      <3>2. Accounted(s, n)' \/ \E j \in 1..i : chan[j] = <<s, n>>
        <4>1. Accounted(s, n)' \/ \E j \in 1..((i + 1) - 1) : chan[j] = <<s, n>>
          BY <1>5a, <2>5, <3>1, Zenon
        <4>2. (i + 1) - 1 = i
          BY <3>1, SMT, Z3
        <4> QED
          BY <4>1, <4>2, Zenon
      <3>3. ASSUME NEW j \in 1..i, chan[j] = <<s, n>>, ~Accounted(s, n)'
            PROVE  \E l \in 1..(i - 1) : chan'[l] = <<s, n>>
        <4>1. j \in DOMAIN chan
          BY <2>3, <3>1, <3>3, SMTT(40), Z3T(40)
        <4>2. j - 1 \in DOMAIN chan' /\ chan'[j - 1] = <<s, n>>
          BY <2>4, <3>1, <3>3, <4>1, Zenon
        <4>3. j - 1 \in 1..(i - 1)
          BY <2>3, <3>1, <3>3, <4>2, SMTT(40), Z3T(40)
        <4> QED
          BY <4>2, <4>3, Zenon
      <3> QED
        BY <3>1, <3>2, <3>3, Zenon
    <2>6. ASSUME NEW s \in Sources, rpc'[s] \in {"reading", "sending"}, NEW n \in 1..pos'[s]
          PROVE  Accounted(s, n)' \/ \E j \in DOMAIN chan' : chan'[j] = <<s, n>>
      <3>1. rpc[s] \in {"reading", "sending"} /\ n \in 1..pos[s] /\ n \in Pos
        BY <1>5, <2>2, <2>6, SMTT(40), Z3T(40)
      <3>2. Accounted(s, n)' \/ \E j \in DOMAIN chan : chan[j] = <<s, n>>
        BY <1>5b, <3>1, Zenon
      <3> QED
        BY <2>4, <3>1, <3>2, ZenonT(40)
    <2> QED
      BY <2>5, <2>6, Zenon DEF ChannelOrder
  <1> QED
    BY <1>7, <1>8, <1>9, <1>10, <1>11, Zenon DEF ReaderStep

LEMMA InitAccount == DagInit => Account
  BY SMT, Z3 DEF DagInit, Account, PoolIsSafe, BatchWritten, CoveredIsSettled

LEMMA AccountKept == OneSink /\ DagType /\ Slot /\ Account /\ [DagNext]_vars => Account'
  <1> SUFFICES ASSUME OneSink, DagType, Slot, Account, [DagNext]_vars PROVE Account'
    OBVIOUS
  <1>1. PoolIsSafe' /\ BatchWritten'
    BY PoolIsSafeKept, BatchWrittenKept DEF Account
  <1>2. CoveredIsSettled'
    BY CoveredKept
  <1>3. ASSUME phase' = "run" PROVE BatchOrder' /\ (IF Parallel THEN ResultOrder' ELSE ChannelOrder')
    <2>1. CASE phase # "run"
      BY <1>3, <2>1, OrderBegins, Zenon DEF Account
    <2>2. CASE phase = "run"
      BY <1>3, <2>2, BatchOrderKept, ResultOrderKept, ChannelOrderKept, Zenon
    <2> QED
      BY <2>1, <2>2, Zenon
  <1> QED
    BY <1>1, <1>2, <1>3, Zenon DEF Account

(* In a graph with one sink a checkpoint covers only records that are in the sink, in
   the dead letter queue or, behind an open breaker, given up by writeToSink; whatever
   the number of sources, the order in which the pool routes their records, the
   failures and the crashes (routeAndWriteParallel, saveCheckpoint). *)
THEOREM CheckpointsCoverSettled ==
    ASSUME OneSink
    PROVE  DagSpec => []CoveredIsSettled
  <1>1. DagInit => DagType /\ Slot /\ Account
    BY InitDagType, InitSlot, InitAccount, Zenon
  <1>2. DagType /\ Slot /\ Account /\ [DagNext]_vars => (DagType /\ Slot /\ Account)'
    BY OneSink, DagTypeKept, SlotKept, AccountKept, Zenon
  <1>3. Account => CoveredIsSettled
    BY DEF Account
  <1> QED
    BY <1>1, <1>2, <1>3, PTL DEF DagSpec

=============================================================================
