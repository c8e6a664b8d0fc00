-------------------------- MODULE BatchGoroutines ---------------------------
(***************************************************************************)
(* A batch whose records are worked on by several goroutines: the lookups   *)
(* of a batch (transform/enricher.go) and the pool of transform workers     *)
(* (pipeline.go).                                                           *)
(***************************************************************************)
EXTENDS Integers, Sequences, FiniteSets, SequencesExt

CONSTANTS
    Batch,        \* number of records of the batch
    Concurrency,  \* concurrency: slots of the semaphore
    MaxRetries,   \* max_retries
    MaxFaults,    \* bound: failures of the service, the database or the cache
    Workers,      \* transform_workers: the goroutines of the pool
    Count,        \* count of skip and limit
    Burst         \* burst of the rate limiter

VARIABLES
    conf,         \* [kind, name, maxInFlight, onError, cached] or [kind, chain]
    log,          \* what the pool's other transforms do with each record
    mem,          \* the batch in progress: goroutines, counters, results
    out,          \* what the batch returns: the records for the sink, ...
    dlq           \* ... and the failed ones of a lookup

-----------------------------------------------------------------------------
(* A batch of records enriched by concurrent calls to a service or a        *)
(* database (internal/etl/transform/enricher.go: EnricherTransform, and     *)
(* LookupTransform in query mode).  The batch loop starts one goroutine per *)
(* record, bounded by the semaphore (concurrency) and the in-flight counter *)
(* (max_in_flight); each asks the cache, calls with retries, and writes the *)
(* cache.  The batch's deadline may pass at any time.                       *)

enrich == <<conf, mem, out, dlq>>

Items == 1..Batch

\* at: the record the loop is at; slots: free slots of the semaphore; job: what
\* each goroutine is doing; result: ok, failed or none; done: ApplyBatch
\* has returned.
EnrichInit ==
    /\ conf \in [kind : {"enrich"}, name : {"enricher", "lookup"}, maxInFlight : {1, Concurrency},
                 onError : {"pass", "error"}, cached : BOOLEAN]
    /\ mem = [at |-> 1, step |-> "acquire", slots |-> Concurrency, inFlight |-> 0,
              job |-> [i \in Items |-> "none"], tries |-> [i \in Items |-> 0],
              result |-> [i \in Items |-> "none"], cancelled |-> FALSE, faults |-> 0,
              returned |-> FALSE]
    /\ out = << >>
    /\ dlq = {}

Unchanged == UNCHANGED <<conf, out, dlq>>

\* ApplyBatch: the next record takes a slot of the semaphore ...
AcquireSlot ==
    /\ mem.at <= Batch
    /\ mem.step = "acquire"
    /\ mem.slots > 0
    /\ mem' = [mem EXCEPT !.slots = @ - 1, !.step = "backpressure"]
    /\ Unchanged

\* ... and waits until fewer than max_in_flight calls are running.
StartJob ==
    /\ mem.at <= Batch
    /\ mem.step = "backpressure"
    /\ mem.inFlight < conf.maxInFlight
    /\ mem' = [mem EXCEPT !.inFlight = @ + 1, !.job[mem.at] = "cache",
                          !.at = @ + 1, !.step = "acquire"]
    /\ Unchanged

\* ApplyBatch after the deadline: the record fails without a call.
GiveUp ==
    /\ mem.at <= Batch
    /\ mem.cancelled
    /\ mem.step = "acquire" \/ mem.inFlight >= conf.maxInFlight
    /\ mem' = [mem EXCEPT !.slots = IF mem.step = "acquire" THEN @ ELSE @ + 1,
                          !.result[mem.at] = "failed", !.at = @ + 1, !.step = "acquire"]
    /\ Unchanged

\* A goroutine ends: collect, and the deferred release of slot and counter.
Finish(i, res, fault) ==
    mem' = [mem EXCEPT !.job[i] = "none", !.result[i] = res, !.inFlight = @ - 1,
                       !.slots = @ + 1, !.faults = @ + fault]

\* The cache in Redis, when configured: a hit ends the job, an error fails it.
ReadCache(i) ==
    /\ mem.job[i] = "cache"
    /\ \/ mem' = [mem EXCEPT !.job[i] = "call"]
       \/ conf.cached /\ Finish(i, "ok", 0)
       \/ conf.cached /\ mem.faults < MaxFaults /\ Finish(i, "failed", 1)
    /\ Unchanged

\* What becomes of a record whose call failed: onError, on_refresh_error.
CallFailed(i, fault) == Finish(i, IF conf.onError = "error" THEN "failed" ELSE "ok", fault)

\* fetchWithControls and queryWithControls: one attempt.  Past the deadline no
\* attempt succeeds; an error that is not retryable ends the call, and so does
\* the last attempt or a deadline that passes during the backoff.
Call(i) ==
    /\ mem.job[i] = "call"
    /\ \/ ~mem.cancelled /\ mem' = [mem EXCEPT !.job[i] = "write"]
       \/ mem.cancelled /\ CallFailed(i, 0)
       \/ mem.faults < MaxFaults /\ CallFailed(i, 1)
       \/ /\ mem.faults < MaxFaults
          /\ mem.tries[i] < MaxRetries
          /\ mem' = [mem EXCEPT !.tries[i] = @ + 1, !.faults = @ + 1]
       \/ mem.faults < MaxFaults /\ mem.tries[i] = MaxRetries /\ CallFailed(i, 1)
    /\ Unchanged

\* The row is applied, and written to the cache when there is one.
WriteCache(i) ==
    /\ mem.job[i] = "write"
    /\ \/ Finish(i, "ok", 0)
       \/ conf.cached /\ mem.faults < MaxFaults /\ Finish(i, "failed", 1)
    /\ Unchanged

\* The batch's deadline passes.
Deadline ==
    /\ ~mem.returned
    /\ ~mem.cancelled
    /\ mem' = [mem EXCEPT !.cancelled = TRUE]
    /\ Unchanged

\* compactSuccessfulLookupResults
compactSuccessfulLookupResults(good) == SetToSortSeq(good, <)

\* wg.Wait has returned: the batch goes on.  The enricher puts failed records
\* among its results as well, the lookup does not.
EnrichReturn ==
    /\ ~mem.returned
    /\ mem.at > Batch
    /\ \A i \in Items : mem.job[i] = "none"
    /\ mem' = [mem EXCEPT !.returned = TRUE]
    /\ dlq' = {i \in Items : mem.result[i] = "failed"}
    /\ out' = compactSuccessfulLookupResults(
                IF conf.name = "enricher" THEN Items ELSE {i \in Items : mem.result[i] = "ok"})
    /\ UNCHANGED conf

\* A step of the goroutine of record i.
Job(i) == ReadCache(i) \/ Call(i) \/ WriteCache(i)

EnrichNext ==
    \/ AcquireSlot \/ StartJob \/ GiveUp \/ Deadline \/ EnrichReturn
    \/ \E i \in Items : Job(i)

\* ------------------------------ properties --------------------------------

Running == {i \in Items : mem.job[i] # "none"}

\* Never more calls than max_in_flight and concurrency allow, and no slot or
\* count is lost on any way out of a job: at the end all are back.
CallsAreBounded ==
    /\ Cardinality(Running) <= conf.maxInFlight
    /\ mem.inFlight = Cardinality(Running)
    /\ mem.slots = Concurrency - Cardinality(Running) - (IF mem.step = "backpressure" THEN 1 ELSE 0)

\* The batch comes back in the order it was given, every record among the
\* results or the failures.  A lookup puts each in one of the two; the enricher
\* returns every record, the failed ones as well.
SettledInOrder ==
    mem.returned =>
        LET results == {out[k] : k \in DOMAIN out}
        IN  /\ \A k \in 1..Len(out) - 1 : out[k] < out[k + 1]
            /\ results \cup dlq = Items
            /\ conf.name = "lookup" => results \cap dlq = {}
            /\ conf.name = "enricher" => results = Items

EnrichReturned == mem.returned

-----------------------------------------------------------------------------
(* A batch spread over transform_workers goroutines (internal/etl/pipeline/ *)
(* pipeline.go, applyRecordTransformsParallel): the loop hands out places of *)
(* the batch over an unbuffered channel, each worker runs the whole chain on *)
(* its record, and the results are put back in order.  The chain may hold a  *)
(* transform that counts (skip.go, limit.go), or the rate limiter with its   *)
(* token bucket and refilling goroutine (nodes.go).                          *)

workers == <<conf, log, mem, out>>

PoolInit ==
    /\ conf \in [kind : {"workers"}, chain : {"stateless", "skip", "limit", "rate"}]
    /\ log \in [Items -> {"passed", "filtered", "failed"}]
    /\ mem = [next |-> 1, has |-> [w \in Workers |-> 0], result |-> [i \in Items |-> "none"],
              counter |-> 0, tokens |-> Burst, ended |-> {}, cancelled |-> FALSE]
    /\ out = [outs |-> << >>, filtered |-> 0, failed |-> {}, returned |-> FALSE]

\* jobs <- i: a worker that waits for a job takes the next place.
TakeJob(w) ==
    /\ mem.has[w] = 0
    /\ w \notin mem.ended
    /\ mem.next <= Batch
    /\ mem' = [mem EXCEPT !.has[w] = mem.next, !.next = @ + 1]
    /\ UNCHANGED <<conf, log, out>>

\* close(jobs) has happened: the worker's range loop ends.
EndWorker(w) ==
    /\ mem.has[w] = 0
    /\ w \notin mem.ended
    /\ mem.next > Batch
    /\ mem' = [mem EXCEPT !.ended = @ \cup {w}]
    /\ UNCHANGED <<conf, log, out>>

\* SkipTransform.Apply
SkipApply(m, verdict) ==
    IF m.counter < Count THEN [m |-> [m EXCEPT !.counter = @ + 1], verdict |-> "filtered"]
                         ELSE [m |-> m, verdict |-> verdict]

\* LimitTransform.Apply
LimitApply(m, verdict) ==
    IF m.counter >= Count THEN [m |-> m, verdict |-> "filtered"]
                          ELSE [m |-> [m EXCEPT !.counter = @ + 1], verdict |-> verdict]

\* RateLimiterTransform.Apply: a token, or the end of the context.
RateApply(m, verdict) ==
    {[m |-> [m EXCEPT !.tokens = @ - 1], verdict |-> verdict] : n \in 1..m.tokens}
    \cup (IF m.cancelled THEN {[m |-> m, verdict |-> "failed"]} ELSE {})

\* One record through the chain, the counting transform first.
ApplyChain(i) ==
    CASE conf.chain = "stateless" -> {[m |-> mem, verdict |-> log[i]]}
      [] conf.chain = "skip"      -> {SkipApply(mem, log[i])}
      [] conf.chain = "limit"     -> {LimitApply(mem, log[i])}
      [] conf.chain = "rate"      -> RateApply(mem, log[i])

\* A worker's step: the chain, and the result.
Work(w) ==
    /\ mem.has[w] # 0
    /\ \E res \in ApplyChain(mem.has[w]) :
        mem' = [res.m EXCEPT !.result[mem.has[w]] = res.verdict, !.has[w] = 0]
    /\ UNCHANGED <<conf, log, out>>

\* The refilling goroutine: a token per tick, dropped when the bucket is full.
Refill ==
    /\ conf.chain = "rate"
    /\ mem.tokens < Burst
    /\ ~out.returned
    /\ mem' = [mem EXCEPT !.tokens = @ + 1]
    /\ UNCHANGED <<conf, log, out>>

\* The commit context of the batch runs out.
CommitTimeout ==
    /\ conf.chain = "rate"
    /\ ~mem.cancelled
    /\ ~out.returned
    /\ mem' = [mem EXCEPT !.cancelled = TRUE]
    /\ UNCHANGED <<conf, log, out>>

\* The results in the order they arrived, not of the batch.
CollectAnyOrder(passed) == Reverse(SetToSortSeq(passed, <))

\* ordered[result.index] = result
Collect(passed) == SetToSortSeq(passed, <)

\* wg.Wait, and the loop over the ordered results.
PoolReturn ==
    /\ mem.ended = Workers
    /\ ~out.returned
    /\ out' = [outs |-> Collect({i \in Items : mem.result[i] = "passed"}),
               filtered |-> Cardinality({i \in Items : mem.result[i] = "filtered"}),
               failed |-> {i \in Items : mem.result[i] = "failed"},
               returned |-> TRUE]
    /\ UNCHANGED <<conf, log, mem>>

\* A step of the goroutine w.
Worker(w) == TakeJob(w) \/ EndWorker(w) \/ Work(w)

PoolNext ==
    \/ \E w \in Workers : Worker(w)
    \/ Refill \/ CommitTimeout \/ PoolReturn

\* ------------------------------ properties --------------------------------

\* What applyRecordTransformsSerial would give.
Serial ==
    [outs |-> SetToSortSeq({i \in Items : log[i] = "passed"}, <),
     failed |-> {i \in Items : log[i] = "failed"}]

\* The workers return what one worker would: the same records in the order of
\* the batch, the same failures, each record once.
ParallelEqualsSerial ==
    (out.returned /\ conf.chain = "stateless") =>
        /\ out.outs = Serial.outs
        /\ out.failed = Serial.failed
        /\ Len(out.outs) + out.filtered + Cardinality(out.failed) = Batch

\* limit lets exactly count records through and skip holds exactly count back,
\* however the workers interleave.  (Which ones they are is left to the schedule.)
CountsAreExact ==
    (out.returned /\ conf.chain \in {"limit", "skip"}) =>
        LET counted == IF Count < Batch THEN Count ELSE Batch
            through == IF conf.chain = "limit" THEN counted ELSE Batch - counted
        IN  /\ Len(out.outs) + Cardinality(out.failed) <= through
            /\ (\A i \in Items : log[i] = "passed") => Len(out.outs) = through

PoolReturned == out.returned

=============================================================================
