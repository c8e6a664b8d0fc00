------------------------------ MODULE DagProofs ------------------------------
(***************************************************************************)
(* Proofs about DAGExecutor for any number of sources, sinks, records, runs,*)
(* failures and crashes, and any sizes of batch, buffer and pool: types,    *)
(* generations and blocked checkpoints.                                     *)
(*                                                                          *)
(* That a run's goroutines are gone when its slot is free follows from what *)
(* each program point of the writer says about the readers and the pool     *)
(* (Slot).  What a checkpoint covers is in DagCheckpointProofs.             *)
(***************************************************************************)
EXTENDS DAGExecutor, TLAPS

(* The variables keep their types, and the positions of the readers and of the batches
   are in the source. *)
SystemType ==
    /\ cp \in [Sources -> 0..N]
    /\ target \subseteq Sinks \X Sources \X Pos
    /\ dlq \subseteq (Sinks \cup {"route", "panic"}) \X Sources \X Pos
    /\ dropped \subseteq Sinks \X Sources \X Pos

ControlType ==
    /\ status \in {"stopped", "running", "failed"}
    /\ runActive \in BOOLEAN /\ wrapActive \in BOOLEAN
    /\ ctxDone \in BOOLEAN /\ forwarding \in BOOLEAN
    /\ phase \in {"idle", "open", "run"}
    /\ breakerOpen \subseteq Sinks

ReaderType ==
    /\ rpc \in [Sources -> Readers]
    /\ pos \in [Sources -> 0..N]
    /\ \A s \in Sources : rpc[s] = "sending" => pos[s] < N
    /\ chan \in Seq(Recs) /\ Len(chan) <= Buffer

PoolType ==
    /\ pool \subseteq Recs \X {"queued", "routed", "panicked"}
    /\ pending \subseteq Recs \X {"routed", "panicked"}
    /\ unsafe \subseteq Recs
    /\ nextSeq \in [Sources -> 1..N + 1]

WriterType ==
    /\ wpc \in {"off", "select", "drain", "round", "save", "returned", "panicked"}
    /\ back \in {"select", "drain", "returned"}
    /\ wctx \in {"main", "flush", "flushDone"}
    /\ blocks \subseteq Sources
    /\ todo \subseteq Sinks

BatchType ==
    /\ batch \in [Sinks -> Seq(Recs)]
    /\ job \subseteq Sources
    /\ writing \in Sinks \cup {NoSink}
    /\ wpc = "save" => writing \in Sinks /\ job \subseteq SourcesOf(batch[writing])

(* Every set of positions has a last one: a fact of the naturals that the types carry,
   so that only PositionsAreBounded below needs the library on well-founded relations. *)
PositionsHaveLast == \A S \in SUBSET (0..N) : S # {} => \E x \in S : \A y \in S : x >= y

DagType ==
    /\ PositionsHaveLast
    /\ SystemType /\ ControlType /\ ReaderType /\ PoolType /\ WriterType /\ BatchType

(* What is left of a run, by program point. *)
PoolEmpty == ~forwarding /\ pool = {}

Slot ==
    /\ runActive <=> phase # "idle"
    /\ phase # "run" => /\ wpc \in {"off", "panicked"}
                        /\ \A s \in Sources : rpc[s] \in {"off", "done"}
    /\ ~Parallel => PoolEmpty
    /\ wpc \in {"off", "returned"} => PoolEmpty
    /\ wpc \in {"round", "save"} /\ back = "returned" => PoolEmpty
    /\ wpc = "drain" => back = "drain"
    /\ back = "drain" => Parallel

-----------------------------------------------------------------------------
(* Operators. *)

(* The last record of a source in a batch is one of its records there. *)
LEMMA LastIsInBatch ==
    ASSUME PositionsHaveLast, NEW q \in Seq(Recs), NEW s \in SourcesOf(q)
    PROVE  <<s, LastOf(q, s)>> \in Range(q) /\ LastOf(q, s) \in Pos
  <1> DEFINE S == {r[2] : r \in {x \in Range(q) : x[1] = s}}
  <1>1. Range(q) \subseteq Recs
    BY SMT, Z3 DEF Range
  <1>2. S \subseteq 0..N /\ S # {}
    BY <1>1, SMT, Z3 DEF SourcesOf, Recs, Pos
  <1>3. LastOf(q, s) \in S
    <2>1. LastOf(q, s) = Max(S)
      BY DEF LastOf
    <2> HIDE DEF S
    <2> QED
      BY <1>2, <2>1, Zenon DEF PositionsHaveLast, Max
  <1> QED
    BY <1>1, <1>3, SMT, Z3 DEF Recs

LEMMA SentPlaces ==
    ASSUME NEW q \in Seq(Recs), NEW r \in Recs
    PROVE  /\ Len(q) \in Nat /\ DOMAIN q = 1..Len(q) /\ DOMAIN Append(q, r) = 1..(Len(q) + 1)
           /\ Append(q, r)[Len(q) + 1] = r
           /\ \A i \in DOMAIN q : i \in DOMAIN Append(q, r) /\ Append(q, r)[i] = q[i]
  <1>1. Len(q) \in Nat /\ DOMAIN q = 1..Len(q) /\ DOMAIN Append(q, r) = 1..(Len(q) + 1)
    BY SMT, Z3
  <1>2. Append(q, r)[Len(q) + 1] = r
    BY SMT, Z3
  <1>3. \A i \in DOMAIN q : i \in DOMAIN Append(q, r) /\ Append(q, r)[i] = q[i]
    BY SMT, Z3
  <1> QED
    BY <1>1, <1>2, <1>3, Zenon

LEMMA SentRecords ==
    ASSUME NEW q \in Seq(Recs), NEW r \in Recs
    PROVE  Append(q, r) \in Seq(Recs) /\ Range(Append(q, r)) = Range(q) \cup {r}
  <1> DEFINE a == Append(q, r)
  <1>1. a \in Seq(Recs) /\ Len(q) + 1 \in DOMAIN a /\ \A i \in DOMAIN a : i \in DOMAIN q \/ i = Len(q) + 1
    BY SMT, Z3
  <1>2. a[Len(q) + 1] = r /\ \A i \in DOMAIN q : i \in DOMAIN a /\ a[i] = q[i]
    BY SentPlaces
  <1>3. \A x \in Range(q) \cup {r} : x \in Range(a)
    BY <1>1, <1>2, Zenon DEF Range
  <1>4. \A x \in Range(a) : x \in Range(q) \cup {r}
    BY <1>1, <1>2, Zenon DEF Range
  <1> QED
    BY <1>1, <1>3, <1>4, Zenon

LEMMA TakenRecords ==
    ASSUME NEW q \in Seq(Recs), q # <<>>
    PROVE  /\ Head(q) \in Recs /\ Tail(q) \in Seq(Recs)
           /\ Len(q) \in Nat \ {0} /\ Len(Tail(q)) = Len(q) - 1 /\ Head(q) = q[1]
           /\ DOMAIN q = 1..Len(q) /\ DOMAIN Tail(q) = 1..(Len(q) - 1)
           /\ \A i \in DOMAIN Tail(q) : i + 1 \in DOMAIN q /\ Tail(q)[i] = q[i + 1]
  <1>1. Head(q) \in Recs /\ Tail(q) \in Seq(Recs)
    BY SMT, Z3
  <1>2. Len(q) \in Nat \ {0} /\ Len(Tail(q)) = Len(q) - 1 /\ Head(q) = q[1]
    BY SMT, Z3
  <1>3. DOMAIN q = 1..Len(q) /\ DOMAIN Tail(q) = 1..(Len(q) - 1)
    BY SMT, Z3
  <1>4. \A i \in DOMAIN Tail(q) : i + 1 \in DOMAIN q /\ Tail(q)[i] = q[i + 1]
    BY SMT, Z3
  <1> QED
    BY <1>1, <1>2, <1>3, <1>4, Zenon

(* TakeRecord finds a record at the head of the channel. *)
LEMMA HeadTaken ==
    ASSUME ReaderType, TakeRecord
    PROVE  Head(chan) \in Recs /\ Head(chan)[1] \in Sources /\ Head(chan)[2] \in Pos
  <1>1. chan \in Seq(Recs) /\ chan # <<>>
    BY Zenon DEF TakeRecord, ReaderType
  <1>2. Head(chan) \in Recs
    BY <1>1, TakenRecords, Zenon
  <1> QED
    BY <1>2 DEF Recs

LEMMA PoolStates ==
    ASSUME NEW r \in Recs, NEW x \in {"queued", "routed", "panicked"}
    PROVE  <<r, x>> \in Recs \X {"queued", "routed", "panicked"}
  OBVIOUS

-----------------------------------------------------------------------------
(* Types. *)

LEMMA ControlTypeKept ==
    ASSUME DagType, [DagNext]_vars
    PROVE  ControlType'
  <1> USE DEF DagType, ControlType, durable, control, readers, workers, round
  <1>1. CASE Start \/ Stop \/ Crash \/ RunStep
    BY <1>1, DagAssumption, ZenonT(40) DEF Start, Stop, Crash, RunStep, OpenSinks, RunEnds, WrapperReleased
  <1>2. CASE ReaderStep
    BY <1>2, Zenon DEF ReaderStep, ReaderFrame, OpenSource, Read, Send, ReadEnds
  <1>3. CASE Forward \/ ForwardEnds
    BY <1>3, Zenon DEF Forward, ForwardEnds
  <1>4. ASSUME NEW s \in Sources, NEW n \in Pos, RouteRecordSafely(s, n) PROVE ControlType'
    <2>1. UNCHANGED <<runActive, wrapActive, ctxDone, phase, breakerOpen, forwarding>>
      BY <1>4 DEF RouteRecordSafely
    <2>2. status' \in {status, "failed"}
      BY <1>4 DEF RouteRecordSafely
    <2> QED
      BY <2>1, <2>2
  <1>5. CASE TakeRecord \/ ReceiveResult \/ Drained \/ FlushAll \/ RoundEnds \/ (\E s \in Sources : DrainSource(s))
    <2>1. UNCHANGED <<status, runActive, wrapActive, phase, ctxDone, breakerOpen, forwarding>>
      BY <1>5, ZenonT(40) DEF TakeRecord, ReceiveResult, Drained, FlushAll, RoundEnds, DrainSource
    <2> QED
      BY <2>1
  <1>6. ASSUME NEW k \in Sinks, WriteRefused(k) \/ WriteSucceeds(k) \/ WriteFails(k) \/ WriterPanics(k)
        PROVE  ControlType'
    BY <1>6 DEF WriteRefused, WriteSucceeds, WriteFails, WriterPanics, RecordFailure
  <1>7. CASE BoundaryFails \/ SaveEnds \/ (\E s \in Sources : SaveBlocked(s) \/ SaveFails(s) \/ Save(s))
    <2>1. breakerOpen' \subseteq Sinks
      BY <1>7, ZenonT(40) DEF BoundaryFails, SaveEnds, SaveBlocked, SaveFails, Save, RecordFailure, BatchType
    <2>2. UNCHANGED <<runActive, wrapActive, phase, forwarding>>
      BY <1>7 DEF BoundaryFails, SaveEnds, SaveBlocked, SaveFails, Save, SaveFrame
    <2>3. UNCHANGED <<status, ctxDone>> \/ (status' = "failed" /\ ctxDone' = TRUE)
      BY <1>7 DEF BoundaryFails, SaveEnds, SaveBlocked, SaveFails, Save
    <2> QED
      BY <2>1, <2>2, <2>3, Zenon
  <1>8. CASE UNCHANGED vars
    BY <1>8 DEF vars
  <1> QED
    BY <1>1, <1>2, <1>3, <1>4, <1>5, <1>6, <1>7, <1>8 DEF DagNext, PoolStep, WriterStep

LEMMA ReaderTypeKept ==
    ASSUME DagType, [DagNext]_vars
    PROVE  ReaderType'
  <1> USE DagAssumption DEF DagType, ReaderType, durable, control, readers, workers, round
  <1>1. CASE Start \/ Stop \/ RunEnds \/ WrapperReleased \/ UNCHANGED vars
    BY <1>1, Zenon DEF Start, Stop, RunEnds, WrapperReleased, vars
  <1>2. CASE Crash \/ OpenSinks
    <2>1. (chan' = <<>> \/ chan' = chan) /\ (pos' = pos \/ pos' = [s \in Sources |-> 0])
      BY <1>2 DEF Crash, OpenSinks
    <2>2. (rpc' = rpc /\ pos' = pos) \/ rpc' = [s \in Sources |-> "off"] \/ rpc' = [s \in Sources |-> "opening"]
      BY <1>2 DEF Crash, OpenSinks
    <2>3. chan' \in Seq(Recs) /\ Len(chan') <= Buffer
      <3>1. <<>> \in Seq(Recs) /\ Len(<<>>) <= Buffer
        BY SMT, Z3
      <3>2. CASE chan' = <<>>
        BY <3>1, <3>2
      <3>3. CASE chan' = chan
        BY <3>3
      <3> QED
        BY <2>1, <3>2, <3>3
    <2>4. pos' \in [Sources -> 0..N]
      BY <2>1, SMT, Z3
    <2>5. rpc' \in [Sources -> Readers]
      BY <2>2 DEF Readers
    <2>6. \A s \in Sources : rpc'[s] = "sending" => pos'[s] < N
      BY <2>2
    <2> QED
      BY <2>3, <2>4, <2>5, <2>6
  <1>3. ASSUME NEW s \in Sources, OpenSource(s) \/ Read(s) \/ ReadEnds(s) PROVE ReaderType'
    BY <1>3, Zenon DEF OpenSource, Read, ReadEnds, Readers, ReaderFrame, SystemType
  <1>4. ASSUME NEW s \in Sources, Send(s) PROVE ReaderType'
    <2>1. <<s, pos[s] + 1>> \in Recs
      BY <1>4, SMT, Z3 DEF Send, Recs, Pos
    <2>2. chan' \in Seq(Recs) /\ Len(chan') <= Buffer
      BY <1>4, <2>1, SMT, Z3 DEF Send
    <2>3. rpc' \in [Sources -> Readers] /\ pos' \in [Sources -> 0..N]
      BY <1>4, SMT, Z3 DEF Send, Readers
    <2> QED
      BY <1>4, <2>2, <2>3 DEF Send
  <1>5. CASE TakeRecord \/ Forward
    <2>1. chan # <<>> /\ chan' = Tail(chan) /\ UNCHANGED <<rpc, pos>>
      BY <1>5 DEF TakeRecord, Forward
    <2> QED
      BY <2>1, SMT, Z3
  <1>6. CASE PoolStep /\ ~Forward
    BY <1>6, Zenon DEF PoolStep, ForwardEnds, RouteRecordSafely
  <1>7. CASE WriterStep /\ ~TakeRecord
    BY <1>7, Zenon DEF WriterStep, ReceiveResult, Drained, FlushAll, RoundEnds, BoundaryFails, SaveEnds,
                DrainSource, SaveBlocked, SaveFails, Save, WriteRefused, WriteSucceeds, WriteFails, WriterPanics,
                SaveFrame
  <1> QED
    BY <1>1, <1>2, <1>3, <1>4, <1>5, <1>6, <1>7 DEF DagNext, RunStep, ReaderStep

LEMMA PoolTypeKept ==
    ASSUME DagType, [DagNext]_vars
    PROVE  PoolType'
  <1> DEFINE own == <<pool, pending, unsafe, nextSeq>>
  <1> USE DagAssumption DEF DagType, PoolType, durable, control, readers, workers, round
  <1>1. CASE Start \/ Stop \/ RunEnds \/ WrapperReleased \/ UNCHANGED vars
    BY <1>1, Zenon DEF Start, Stop, RunEnds, WrapperReleased, vars
  <1>2. CASE Crash \/ OpenSinks
    <2>1. UNCHANGED own \/ (pool' = {} /\ pending' = {} /\ unsafe' = {})
      BY <1>2 DEF Crash, OpenSinks
    <2>2. nextSeq' = nextSeq \/ nextSeq' = [s \in Sources |-> 1] \/ nextSeq' = [s \in Sources |-> cp[s] + 1]
      BY <1>2 DEF Crash, OpenSinks
    <2>3. nextSeq' \in [Sources -> 1..N + 1]
      BY <2>2, SMTT(40), Z3T(40) DEF SystemType
    <2> QED
      BY <2>1, <2>3
  <1>3. CASE ReaderStep
    BY <1>3 DEF ReaderStep, ReaderFrame, OpenSource, Read, Send, ReadEnds
  <1>4. CASE Forward
    <2>1. Head(chan) \in Recs
      BY <1>4, SMT, Z3 DEF Forward, ReaderType
    <2> QED
      BY <1>4, <2>1, SMT, Z3 DEF Forward
  <1>5. CASE ForwardEnds
    BY <1>5 DEF ForwardEnds
  <1>6. ASSUME NEW s \in Sources, NEW n \in Pos, RouteRecordSafely(s, n) PROVE PoolType'
    <2>1. <<s, n>> \in Recs
      BY DEF Recs
    <2>2. UNCHANGED <<pending, nextSeq>>
      BY <1>6 DEF RouteRecordSafely
    <2>3. unsafe' \subseteq unsafe \cup {<<s, n>>}
      BY <1>6, Zenon DEF RouteRecordSafely
    <2>4. pool' \subseteq pool \cup {<<<<s, n>>, "routed">>, <<<<s, n>>, "panicked">>}
      BY <1>6 DEF RouteRecordSafely
    <2>5. /\ <<<<s, n>>, "routed">> \in Recs \X {"queued", "routed", "panicked"}
          /\ <<<<s, n>>, "panicked">> \in Recs \X {"queued", "routed", "panicked"}
      BY <2>1, PoolStates, Zenon
    <2>6. pool' \subseteq Recs \X {"queued", "routed", "panicked"}
      BY <2>4, <2>5, Zenon
    <2>7. unsafe' \subseteq Recs
      BY <2>1, <2>3, Zenon
    <2> QED
      BY <2>2, <2>6, <2>7
  <1>7. CASE ReceiveResult
    BY <1>7 DEF ReceiveResult
  <1>8. ASSUME NEW s \in Sources, DrainSource(s) PROVE PoolType'
    <2>1. PICK x \in pending : /\ x[1] = <<s, nextSeq[s]>>
                               /\ pending' = pending \ {x}
                               /\ nextSeq' = [nextSeq EXCEPT ![s] = @ + 1]
      BY <1>8 DEF DrainSource
    <2>2. nextSeq[s] \in Pos
      BY <2>1, SMT, Z3 DEF Recs
    <2>3. nextSeq' \in [Sources -> 1..N + 1]
      BY <2>1, <2>2, SMT, Z3 DEF Pos
    <2> QED
      BY <1>8, <2>1, <2>3 DEF DrainSource
  <1>9. CASE WriterStep /\ ~ReceiveResult /\ ~(\E s \in Sources : DrainSource(s))
    <2>1. UNCHANGED own
      BY <1>9, ZenonT(40)
         DEF WriterStep, TakeRecord, Drained, FlushAll, RoundEnds, BoundaryFails, SaveEnds, SaveBlocked,
                  SaveFails, Save, WriteRefused, WriteSucceeds, WriteFails, WriterPanics, SaveFrame
    <2> QED
      BY <2>1
  <1> QED
    BY <1>1, <1>2, <1>3, <1>4, <1>5, <1>6, <1>7, <1>8, <1>9 DEF DagNext, RunStep, PoolStep

LEMMA WriterTypeKept ==
    ASSUME DagType, [DagNext]_vars
    PROVE  WriterType'
  <1> USE DEF DagType, WriterType, durable, control, readers, workers, round
  <1>1. CASE Start \/ Stop \/ Crash \/ RunStep \/ UNCHANGED vars
    BY <1>1, Zenon DEF Start, Stop, Crash, RunStep, OpenSinks, RunEnds, WrapperReleased, vars
  <1>2. CASE ReaderStep \/ PoolStep
    <2>1. UNCHANGED <<wpc, back, wctx, blocks, todo>>
      BY <1>2, ZenonT(40)
         DEF ReaderStep, ReaderFrame, OpenSource, Read, Send, ReadEnds, PoolStep, Forward, ForwardEnds,
                  RouteRecordSafely
    <2> QED
      BY <2>1
  <1>3. CASE TakeRecord
    <2>1. Head(chan)[1] \in Sources
      BY <1>3, SMT, Z3 DEF TakeRecord, ReaderType, Recs
    <2> QED
      BY <1>3, <2>1, Zenon DEF TakeRecord, Apply
  <1>4. CASE ReceiveResult \/ Drained \/ FlushAll \/ RoundEnds
    BY <1>4, ZenonT(40) DEF ReceiveResult, Drained, FlushAll, RoundEnds
  <1>5. ASSUME NEW s \in Sources, DrainSource(s) PROVE WriterType'
    BY <1>5, ZenonT(40) DEF DrainSource, Apply
  <1>6. ASSUME NEW k \in Sinks, WriteRefused(k) \/ WriteSucceeds(k) \/ WriteFails(k) \/ WriterPanics(k)
        PROVE  WriterType'
    <2>1. SourcesOf(batch[k]) \subseteq Sources
      BY SMT, Z3 DEF BatchType, SourcesOf, Range, Recs
    <2> QED
      BY <1>6, <2>1, ZenonT(40) DEF WriteRefused, WriteSucceeds, WriteFails, WriterPanics, Discard
  <1>7. CASE BoundaryFails \/ SaveEnds
    BY <1>7, ZenonT(40) DEF BoundaryFails, SaveEnds, SaveReturns, SaveFrame, Discard, BatchType
  <1>8. ASSUME NEW s \in Sources, SaveBlocked(s) \/ SaveFails(s) \/ Save(s) PROVE WriterType'
    BY <1>8 DEF SaveBlocked, SaveFails, Save, SaveReturns, SaveFrame, Discard
  <1> QED
    BY <1>1, <1>2, <1>3, <1>4, <1>5, <1>6, <1>7, <1>8 DEF DagNext, WriterStep

LEMMA SystemTypeKept ==
    ASSUME DagType, [DagNext]_vars
    PROVE  SystemType'
  <1> USE DEF DagType, SystemType, durable, control, readers, workers, round
  <1>1. CASE Start \/ Stop \/ Crash \/ RunStep \/ ReaderStep \/ UNCHANGED vars
    <2>1. UNCHANGED <<cp, target, dlq, dropped>>
      BY <1>1, ZenonT(40)
         DEF Start, Stop, Crash, RunStep, OpenSinks, RunEnds, WrapperReleased, ReaderStep, ReaderFrame,
                  OpenSource, Read, Send, ReadEnds, vars
    <2> QED
      BY <2>1
  <1>2. CASE Forward \/ ForwardEnds \/ ReceiveResult \/ Drained \/ FlushAll \/ RoundEnds \/ BoundaryFails \/ SaveEnds
    <2>1. UNCHANGED <<cp, target, dlq, dropped>>
      BY <1>2, Zenon
         DEF Forward, ForwardEnds, ReceiveResult, Drained, FlushAll, RoundEnds, BoundaryFails, SaveEnds, SaveFrame
    <2> QED
      BY <2>1
  <1>3. ASSUME NEW s \in Sources, DrainSource(s) \/ SaveBlocked(s) PROVE SystemType'
    <2>1. UNCHANGED <<cp, target, dlq, dropped>>
      BY <1>3, Zenon DEF DrainSource, SaveBlocked, SaveFrame
    <2> QED
      BY <2>1, SMTT(40), Z3T(40)
  <1>4. CASE TakeRecord
    <2>1. Head(chan)[1] \in Sources /\ Head(chan)[2] \in Pos
      BY <1>4, HeadTaken, Zenon
    <2>2. UNCHANGED <<cp, target, dropped>>
      BY <1>4 DEF TakeRecord
    <2>3. dlq' \subseteq dlq \cup {<<"route", Head(chan)[1], Head(chan)[2]>>}
      BY <1>4, Zenon DEF TakeRecord, Route, HandleFailed
    <2> QED
      BY <2>1, <2>2, <2>3, SMT, Z3
  <1>5. ASSUME NEW s \in Sources, NEW n \in Pos, RouteRecordSafely(s, n) PROVE SystemType'
    <2>1. UNCHANGED <<cp, target, dropped>>
      BY <1>5 DEF RouteRecordSafely
    <2>2. dlq' \subseteq dlq \cup {<<"route", s, n>>, <<"panic", s, n>>}
      BY <1>5 DEF RouteRecordSafely, Route, HandleFailed
    <2> QED
      BY <2>1, <2>2, SMTT(40), Z3T(40)
  <1>6. ASSUME NEW k \in Sinks, WriteRefused(k) \/ WriteSucceeds(k) \/ WriteFails(k) \/ WriterPanics(k)
        PROVE  SystemType'
    <2> DEFINE recs == {<<k, r[1], r[2]>> : r \in Range(batch[k])}
    <2>1. recs \subseteq Sinks \X Sources \X Pos
      BY SMT, Z3 DEF BatchType, Range, Recs
    <2>2. /\ cp' = cp
          /\ target' \subseteq target \cup recs
          /\ dropped' \subseteq dropped \cup recs
          /\ dlq' \subseteq dlq \cup recs
      BY <1>6, Zenon DEF WriteRefused, WriteSucceeds, WriteFails, WriterPanics
    <2> HIDE DEF recs
    <2> QED
      BY <2>1, <2>2
  <1>7. ASSUME NEW s \in Sources, SaveFails(s) \/ Save(s) PROVE SystemType'
    <2>1. LastOf(batch[writing], s) \in 0..N
      <3>1. batch[writing] \in Seq(Recs) /\ s \in SourcesOf(batch[writing])
        BY <1>7 DEF SaveFails, Save, BatchType
      <3>2. LastOf(batch[writing], s) \in Pos
        BY <3>1, LastIsInBatch, Zenon DEF DagType
      <3> QED
        BY <3>2, DagAssumption, SMT, Z3 DEF Pos
    <2>2. UNCHANGED <<target, dlq, dropped>>
      BY <1>7 DEF SaveFails, Save, SaveFrame
    <2>3. cp' = cp \/ cp' = [cp EXCEPT ![s] = LastOf(batch[writing], s)]
      BY <1>7 DEF SaveFails, Save
    <2> QED
      BY <2>1, <2>2, <2>3, Zenon
  <1> QED
    BY <1>1, <1>2, <1>3, <1>4, <1>5, <1>6, <1>7, ZenonT(40) DEF DagNext, PoolStep, WriterStep

LEMMA AppliedBatches ==
    ASSUME DagType, NEW s \in Sources, NEW n \in Pos, NEW sinks, NEW safe \in BOOLEAN, Apply(s, n, sinks, safe)
    PROVE  batch' \in [Sinks -> Seq(Recs)]
  <1>1. <<s, n>> \in Recs
    BY DEF Recs
  <1>2. \A k \in Sinks : batch[k] \in Seq(Recs) /\ Append(batch[k], <<s, n>>) \in Seq(Recs)
    BY <1>1, SMT, Z3 DEF DagType, BatchType
  <1> QED
    BY <1>2, Zenon DEF Apply

LEMMA BatchTypeKept ==
    ASSUME DagType, [DagNext]_vars
    PROVE  BatchType'
  <1> USE DEF DagType, BatchType, durable, control, readers, workers, round
  <1>1. CASE Start \/ Stop \/ RunEnds \/ WrapperReleased \/ ReaderStep \/ UNCHANGED vars
    <2>1. UNCHANGED <<batch, job, writing>> /\ (wpc' = "save" => wpc = "save")
      BY <1>1, Zenon
         DEF Start, Stop, RunEnds, WrapperReleased, ReaderStep, ReaderFrame, OpenSource, Read, Send, ReadEnds,
                  vars, WriterType
    <2> QED
      BY <2>1
  <1>2. CASE Crash \/ OpenSinks
    <2>1. batch' = batch \/ batch' = EmptyBatches
      BY <1>2 DEF Crash, OpenSinks
    <2>2. batch' \in [Sinks -> Seq(Recs)]
      <3>1. EmptyBatches \in [Sinks -> Seq(Recs)]
        BY SMT, Z3 DEF EmptyBatches
      <3> QED
        BY <2>1, <3>1
    <2>3. UNCHANGED <<job, writing>> \/ (job' = {} /\ writing' = NoSink)
      BY <1>2, Zenon DEF Crash, OpenSinks
    <2>4. wpc' = "save" => UNCHANGED <<wpc, batch, job, writing>>
      BY <1>2 DEF Crash, OpenSinks
    <2> QED
      BY <2>2, <2>3, <2>4
  <1>3. CASE Forward \/ ForwardEnds \/ ReceiveResult \/ Drained \/ FlushAll \/ RoundEnds
    <2>1. UNCHANGED <<batch, job, writing>> /\ (wpc' = "save" => wpc = "save")
      BY <1>3, Zenon DEF Forward, ForwardEnds, ReceiveResult, Drained, FlushAll, RoundEnds, WriterType
    <2> QED
      BY <2>1
  <1>4. ASSUME NEW s \in Sources, NEW n \in Pos, RouteRecordSafely(s, n) PROVE BatchType'
    <2>1. UNCHANGED <<batch, job, writing, wpc>>
      BY <1>4 DEF RouteRecordSafely
    <2> QED
      BY <2>1
  <1>5. CASE TakeRecord
    <2>1. Head(chan)[1] \in Sources /\ Head(chan)[2] \in Pos
      BY <1>5, HeadTaken, Zenon
    <2>2. PICK safe \in BOOLEAN : Apply(Head(chan)[1], Head(chan)[2], Routes[Head(chan)[1]][Head(chan)[2]], safe)
      BY <1>5, Zenon DEF TakeRecord
    <2>3. batch' \in [Sinks -> Seq(Recs)]
      BY <2>1, <2>2, AppliedBatches
    <2>4. wpc' = "round" /\ UNCHANGED <<job, writing>>
      BY <1>5, <2>2, Zenon DEF TakeRecord, Apply
    <2> QED
      BY <2>3, <2>4, SMTT(40), Z3T(40)
  <1>6. ASSUME NEW s \in Sources, DrainSource(s) PROVE BatchType'
    <2>1. PICK x \in pending : /\ x[1] = <<s, nextSeq[s]>>
                               /\ Apply(s, x[1][2], IF x[2] = "routed" THEN Routes[s][x[1][2]] ELSE {},
                                        x[1] \notin unsafe)
      BY <1>6, Zenon DEF DrainSource
    <2>2. x[1][2] \in Pos
      BY DEF PoolType, Recs
    <2>3. batch' \in [Sinks -> Seq(Recs)]
      BY <2>1, <2>2, AppliedBatches, Zenon
    <2>4. wpc' = "round" /\ UNCHANGED <<job, writing>>
      BY <1>6, <2>1, Zenon DEF DrainSource, Apply
    <2> QED
      BY <2>3, <2>4
  <1>7. ASSUME NEW k \in Sinks, WriteRefused(k) \/ WriteFails(k) PROVE BatchType'
    <2>1. UNCHANGED <<job, writing, wpc>> /\ wpc = "round" /\ batch' = [batch EXCEPT ![k] = <<>>]
      BY <1>7, Zenon DEF WriteRefused, WriteFails, Discard
    <2>2. batch' \in [Sinks -> Seq(Recs)]
      BY <2>1, SMT, Z3
    <2> QED
      BY <2>1, <2>2
  <1>8. ASSUME NEW k \in Sinks, WriteSucceeds(k) PROVE BatchType'
    <2>1. SourcesOf(batch[k]) \subseteq Sources
      BY SMT, Z3 DEF SourcesOf, Range, Recs
    <2> QED
      BY <1>8, <2>1, Zenon DEF WriteSucceeds
  <1>9. ASSUME NEW k \in Sinks, WriterPanics(k) PROVE BatchType'
    BY <1>9 DEF WriterPanics
  <1>10. CASE BoundaryFails \/ SaveEnds \/ (\E s \in Sources : SaveFails(s))
    <2>1. wpc = "save" /\ SaveReturns
      BY <1>10 DEF BoundaryFails, SaveEnds, SaveFails
    <2>2. batch' = [batch EXCEPT ![writing] = <<>>] /\ job' = {} /\ writing' = NoSink /\ wpc' = "round"
      BY <2>1 DEF SaveReturns, Discard
    <2>3. batch' \in [Sinks -> Seq(Recs)]
      BY <2>1, <2>2, SMT, Z3
    <2> QED
      BY <2>2, <2>3
  <1>11. ASSUME NEW s \in Sources, SaveBlocked(s) \/ Save(s) PROVE BatchType'
    BY <1>11 DEF SaveBlocked, Save
  <1> QED
    BY <1>1, <1>2, <1>3, <1>4, <1>5, <1>6, <1>7, <1>8, <1>9, <1>10, <1>11, ZenonT(40)
       DEF DagNext, RunStep, PoolStep, WriterStep

LEMMA DagTypeKept == DagType /\ [DagNext]_vars => DagType'
  BY SystemTypeKept, ControlTypeKept, ReaderTypeKept, PoolTypeKept, WriterTypeKept, BatchTypeKept, Zenon
  DEF DagType, PositionsHaveLast

(* The types say what the type invariant of the model says. *)
LEMMA DagTypeImplies == DagType => DagTypeOK
  <1> SUFFICES ASSUME DagType PROVE DagTypeOK
    OBVIOUS
  <1>1. Range(chan) \subseteq Recs
    BY SMT, Z3 DEF DagType, ReaderType, Range
  <1>2. \A k \in Sinks : Range(batch[k]) \subseteq Recs
    BY SMT, Z3 DEF DagType, BatchType, Range
  <1>3. /\ status \in {"stopped", "running", "failed"} /\ runActive \in BOOLEAN /\ wrapActive \in BOOLEAN
        /\ ctxDone \in BOOLEAN /\ forwarding \in BOOLEAN
        /\ phase \in {"idle", "open", "run"} /\ breakerOpen \subseteq Sinks
    BY DEF DagType, ControlType
  <1> QED
    BY <1>1, <1>2, <1>3, Zenon DEF DagTypeOK, DagType, SystemType, ReaderType, PoolType, WriterType, BatchType

-----------------------------------------------------------------------------
(* Generations. *)

LEMMA InitSlot == DagInit => Slot
  BY DEF DagInit, Slot, PoolEmpty

LEMMA SlotKept == DagType /\ Slot /\ [DagNext]_vars => Slot'
  <1> SUFFICES ASSUME DagType, Slot, [DagNext]_vars PROVE Slot'
    OBVIOUS
  <1> USE DagAssumption DEF Slot, PoolEmpty, durable, control, readers, workers, round
  <1>1. CASE Start \/ Stop \/ WrapperReleased \/ UNCHANGED vars
    <2>1. UNCHANGED <<wpc, rpc, forwarding, pool, back>>
      BY <1>1, ZenonT(40) DEF Start, Stop, WrapperReleased, vars
    <2>2. UNCHANGED <<runActive, phase>> \/ (~runActive /\ runActive' /\ phase' = "open")
      BY <1>1, ZenonT(40) DEF Start, Stop, WrapperReleased, vars
    <2> QED
      BY <2>1, <2>2, SMT, Z3
  <1>2. CASE OpenSinks \/ RunEnds
    BY <1>2, SMT, Z3 DEF OpenSinks, RunEnds
  <1>10. CASE Crash
    BY <1>10 DEF Crash
  <1>3. CASE ReaderStep
    <2>1. UNCHANGED <<runActive, phase, wpc, forwarding, pool, back>>
      BY <1>3, ZenonT(40) DEF ReaderStep, ReaderFrame, OpenSource, Read, Send, ReadEnds
    <2>2. phase = "run"
      BY <1>3, Zenon DEF ReaderStep, OpenSource, Read, Send, ReadEnds
    <2> QED
      BY <2>1, <2>2, ZenonT(40)
  <1>4. CASE Forward \/ ForwardEnds
    <2>1. forwarding /\ UNCHANGED <<runActive, phase, wpc, rpc, back>>
      BY <1>4 DEF Forward, ForwardEnds
    <2> QED
      BY <2>1, Zenon
  <1>5. ASSUME NEW s \in Sources, NEW n \in Pos, RouteRecordSafely(s, n) PROVE Slot'
    <2>1. pool # {} /\ UNCHANGED <<runActive, phase, wpc, rpc, back>>
      BY <1>5 DEF RouteRecordSafely
    <2> QED
      BY <2>1, Zenon
  <1>6. CASE TakeRecord \/ ReceiveResult \/ Drained
    <2>1. /\ UNCHANGED <<runActive, phase, rpc, forwarding>> /\ wpc \in {"select", "drain"}
          /\ pool' \subseteq pool
      BY <1>6, ZenonT(40) DEF TakeRecord, ReceiveResult, Drained
    <2>2. \/ wpc' = "round" /\ back' = "select"
          \/ wpc' = "drain" /\ back' = "drain" /\ Parallel
          \/ wpc' = "select" /\ back' = back
      BY <1>6 DEF TakeRecord, Apply, ReceiveResult, Drained
    <2> QED
      BY <2>1, <2>2
  <1>11. CASE FlushAll
    <2>1. /\ UNCHANGED <<runActive, phase, rpc, forwarding, pool>> /\ wpc = "select" /\ wpc' = "round"
          /\ back' = "returned" => InputClosed \/ ~Parallel
          /\ back' \in {"select", "returned"}
      BY <1>11, Zenon DEF FlushAll
    <2> QED
      BY <2>1 DEF InputClosed
  <1>12. CASE RoundEnds
    <2>1. UNCHANGED <<runActive, phase, rpc, forwarding, pool, back>> /\ wpc = "round" /\ wpc' = back
      BY <1>12 DEF RoundEnds
    <2>2. back \in {"select", "drain", "returned"}
      BY Zenon DEF DagType, WriterType
    <2> QED
      BY <2>1, <2>2
  <1>7. ASSUME NEW s \in Sources, DrainSource(s) PROVE Slot'
    BY <1>7 DEF DrainSource, Apply
  <1>8. ASSUME NEW k \in Sinks, WriteRefused(k) \/ WriteSucceeds(k) \/ WriteFails(k) \/ WriterPanics(k)
        PROVE  Slot'
    <2>1. UNCHANGED <<runActive, phase, rpc, forwarding, pool, back>>
      BY <1>8, ZenonT(40) DEF WriteRefused, WriteSucceeds, WriteFails, WriterPanics
    <2>2. wpc = "round" /\ wpc' \in {"round", "save", "panicked"}
      BY <1>8, ZenonT(40) DEF WriteRefused, WriteSucceeds, WriteFails, WriterPanics
    <2> QED
      BY <2>1, <2>2
  <1>9. CASE BoundaryFails \/ SaveEnds \/ (\E s \in Sources : SaveBlocked(s) \/ SaveFails(s) \/ Save(s))
    <2>1. wpc = "save" /\ wpc' \in {"save", "round"}
      BY <1>9, ZenonT(40) DEF BoundaryFails, SaveEnds, SaveBlocked, SaveFails, Save, SaveReturns
    <2>2. UNCHANGED <<runActive, phase, rpc, forwarding, pool, back>>
      BY <1>9, Zenon DEF BoundaryFails, SaveEnds, SaveBlocked, SaveFails, Save, SaveFrame
    <2> QED
      BY <2>1, <2>2
  <1> QED
    BY <1>1, <1>2, <1>3, <1>4, <1>5, <1>6, <1>7, <1>8, <1>9, <1>10, <1>11, <1>12, ZenonT(40)
    DEF DagNext, RunStep, PoolStep, WriterStep

(* A checkpoint moves only when a batch is saved. *)
LEMMA CheckpointSteps ==
    ASSUME [DagNext]_vars
    PROVE  cp' = cp \/ \E s \in Sources : Save(s) \/ SaveFails(s)
  <1> USE DEF durable, control, readers, workers, round
  <1>1. CASE Start \/ Stop \/ Crash \/ RunStep \/ ReaderStep \/ UNCHANGED vars
    BY <1>1, ZenonT(40)
       DEF Start, Stop, Crash, RunStep, OpenSinks, RunEnds, WrapperReleased, ReaderStep, ReaderFrame,
                OpenSource, Read, Send, ReadEnds, vars
  <1>2. CASE PoolStep
    BY <1>2, ZenonT(40) DEF PoolStep, Forward, ForwardEnds, RouteRecordSafely
  <1>3. CASE TakeRecord \/ ReceiveResult \/ Drained \/ FlushAll \/ RoundEnds \/ BoundaryFails \/ SaveEnds
    BY <1>3, Zenon DEF TakeRecord, ReceiveResult, Drained, FlushAll, RoundEnds, BoundaryFails, SaveEnds
  <1>4. CASE \E s \in Sources : DrainSource(s) \/ SaveBlocked(s)
    BY <1>4, ZenonT(40) DEF DrainSource, SaveBlocked
  <1>5. CASE \E k \in Sinks : WriteRefused(k) \/ WriteSucceeds(k) \/ WriteFails(k) \/ WriterPanics(k)
    BY <1>5, Zenon DEF WriteRefused, WriteSucceeds, WriteFails, WriterPanics
  <1> QED
    BY <1>1, <1>2, <1>3, <1>4, <1>5 DEF DagNext, WriterStep

(* A step that leaves a source blocked leaves its checkpoint. *)
LEMMA BlockedKept ==
    ASSUME DagType, [DagNext]_vars
    PROVE  \A s \in blocks \cap blocks' : cp'[s] = cp[s]
  <1> USE DEF durable, control, readers, workers, round
  <1>1. CASE cp' = cp
    BY <1>1
  <1>2. ASSUME NEW t \in Sources, Save(t) PROVE \A s \in blocks \cap blocks' : cp'[s] = cp[s]
    BY <1>2, Zenon DEF Save, DagType, SystemType, WriterType
  <1>3. ASSUME NEW t \in Sources, SaveFails(t) PROVE \A s \in blocks \cap blocks' : cp'[s] = cp[s]
    <2>1. t \notin blocks
      BY <1>3 DEF SaveFails
    <2>2. cp' = cp \/ cp' = [cp EXCEPT ![t] = LastOf(batch[writing], t)]
      BY <1>3 DEF SaveFails
    <2>3. \A s \in Sources \ {t} : cp'[s] = cp[s]
      BY <2>2 DEF DagType, SystemType
    <2>4. blocks \subseteq Sources
      BY DEF DagType, WriterType
    <2> QED
      BY <2>1, <2>3, <2>4
  <1> QED
    BY <1>1, <1>2, <1>3, CheckpointSteps

-----------------------------------------------------------------------------
(* The theorems. *)

LOCAL INSTANCE WellFoundedInduction

(* The largest position of a set is the one with the least distance to the end. *)
LEMMA PositionsAreBounded == PositionsHaveLast
  <1> SUFFICES ASSUME NEW S \in SUBSET (0..N), S # {}
               PROVE  \E x \in S : \A y \in S : x >= y
    BY DEF PositionsHaveLast
  <1> DEFINE T == {N - x : x \in S}
  <1>1. T \subseteq Nat /\ T # {}
    <2>1. \A x \in S : N - x \in Nat
      BY DagAssumption, SMT, Z3
    <2> QED
      BY <2>1, Zenon
  <1>2. PICK t \in T : \A y \in T : ~(<<y, t>> \in OpToRel(<, Nat))
    <2> HIDE DEF T
    <2> QED
      BY <1>1, WFMin, NatLessThanWellFounded, Zenon
  <1>3. ASSUME NEW y \in T PROVE t <= y
    <2>1. y \in Nat /\ t \in Nat
      BY <1>1
    <2>2. ~(y < t)
      BY <1>2, <2>1, Zenon DEF OpToRel
    <2> QED
      BY <2>1, <2>2, SMT, Z3
  <1>4. PICK x \in S : t = N - x
    OBVIOUS
  <1>5. ASSUME NEW y \in S PROVE x >= y
    <2>1. t <= N - y
      BY <1>3
    <2> QED
      BY <1>4, <2>1, DagAssumption, SMT, Z3
  <1> QED
    BY <1>5, Zenon

LEMMA InitDagType == DagInit => DagType
  <1> SUFFICES ASSUME DagInit PROVE DagType
    OBVIOUS
  <1> USE DagAssumption DEF DagInit
  <1>1. SystemType
    BY SMT, Z3 DEF SystemType
  <1>2. ControlType /\ WriterType
    BY ZenonT(40) DEF ControlType, WriterType
  <1>3. ReaderType
    BY SMT, Z3 DEF ReaderType, Readers
  <1>4. PoolType
    BY SMT, Z3 DEF PoolType
  <1>5. BatchType
    BY SMT, Z3 DEF BatchType, EmptyBatches
  <1> QED
    BY <1>1, <1>2, <1>3, <1>4, <1>5, PositionsAreBounded DEF DagType

(* The executor keeps to its types: the records channel never holds more than its
   capacity, positions and sequence numbers stay within the source, a batch under
   checkpoint belongs to the sink being written (executor.go). *)
THEOREM DagTypeCorrect == DagSpec => []DagTypeOK
  BY InitDagType, DagTypeKept, DagTypeImplies, PTL DEF DagSpec

(* No reader or writer of a run is left when its slot is free, nor is its pool unless
   the writer panicked: the second wg.Wait of runDAG before runActive is cleared. *)
THEOREM GenerationsDoNotOverlap == DagSpec => []NoGenerationOverlap
  <1>1. DagType /\ Slot => NoGenerationOverlap
    BY DEF Slot, PoolEmpty, NoGenerationOverlap
  <1>2. DagInit => DagType /\ Slot
    BY InitDagType, InitSlot
  <1>3. DagType /\ Slot /\ [DagNext]_vars => (DagType /\ Slot)'
    BY DagTypeKept, SlotKept
  <1> QED
    BY <1>1, <1>2, <1>3, PTL DEF DagSpec

(* A source that is blocked keeps its checkpoint until the next Start: saveCheckpoint
   skips the sources in checkpointBlocks and adds the one whose save fails. *)
THEOREM BlockedSourceStays == DagSpec => BlockedCheckpointStays
  BY BlockedKept, InitDagType, DagTypeKept, PTL DEF DagSpec, BlockedCheckpointStays

=============================================================================
