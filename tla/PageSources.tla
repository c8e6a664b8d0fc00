----------------------------- MODULE PageSources -----------------------------
(***************************************************************************)
(* The sources that read a web API page by page: http and rest_source       *)
(* (internal/etl/source/http.go, rest.go).  The API serves the items        *)
(* 1..Items in pages of PageSize.  And the redis source, which counts the   *)
(* keys it has read (redis.go).                                             *)
(*                                                                          *)
(* rd.at is where the reader stands: the page fetched last (http), the page *)
(* the next request asks for (rest_source: counted from 0 by offset, from 1 *)
(* by cursor or page token, where 0 is the empty token), and the number of  *)
(* pages fetched.  rd.committed is the position the next checkpoint takes.  *)
(***************************************************************************)
EXTENDS Downstream
CONSTANTS
    Items,        \* number of items the API serves
    PageSize,     \* page_size
    Junk,         \* items that are no JSON objects, where the API serves such
    MaxFailures,  \* bound: requests that fail for good, keys whose value cannot be read
    Keys,         \* the keys redis holds that match the pattern: numbers, in sort order
    MaxReads      \* bound: keys the redis source counts in a run

\* ----------------------------- configuration ------------------------------

\* limit is max_pages, 0 for none; totals says that the API reports the total;
\* junk that it serves items which are no objects.
NewHTTPSource ==
    {c \in [kind : {"http"}, mode : {"page"}, index : {0, 1}, total : {1, 2}, limit : {0, 1},
            totals : {FALSE}, junk : BOOLEAN] : c.index < c.total}

NewRestSource ==
    {c \in [kind : {"rest"}, mode : {"none", "offset", "token"}, index : {0}, total : {1},
            limit : {0, 1}, totals : BOOLEAN, junk : BOOLEAN] : c.totals => c.mode = "offset"}

Pages == (Items + PageSize - 1) \div PageSize

\* Items of page p, the first page being page 1: none beyond the last page.
ItemsOf(p) == {i \in 1..Items : (i - 1) \div PageSize = p - 1}

IsRecord(i) == ~(conf.junk /\ i \in Junk)

\* Items that are JSON objects become records, in the order of the page.
Records(p) ==
    LET kept == {i \in ItemsOf(p) : IsRecord(i)}
    IN  [n \in 1..Cardinality(kept) |->
            [row |-> CHOOSE i \in kept : Cardinality({j \in kept : j < i}) = n - 1]]

\* Pages a run has to read: those of the shard, up to max_pages.
Mine ==
    {p \in 1..Pages :
        /\ conf.limit > 0 => p <= conf.limit
        /\ (p - 1) % conf.total = conf.index
        /\ conf.mode = "none" => p = 1}

Wanted == {i \in 1..Items : \E p \in Mine : i \in ItemsOf(p) /\ IsRecord(i)}

\* --------------------------------- reader ---------------------------------

Start == [page |-> 0, count |-> 0]

Closed ==
    [at |-> Start, committed |-> Start, buffer |-> << >>, done |-> FALSE,
     failures |-> 0]

PageInit ==
    /\ PipeInit
    /\ upstream = << >>
    /\ conf \in NewHTTPSource \cup NewRestSource
    /\ rd = Closed

\* ValidateCheckpoint: page numbers and counts are not negative.
ValidateCheckpoint(cp) == cp.page >= 0 /\ cp.count >= 0

\* A shard of http starts at page shard_index, and fetchPage moves on by
\* shard_total before every request.  A position of page 0 is no position.
HttpStart(cp) ==
    [cp EXCEPT !.page = IF cp.page > 0 THEN cp.page
                        ELSE IF conf.total > 1 THEN conf.index
                        ELSE 0]

Open ==
    LET cp == SavedOr(Start)
    IN  /\ ~up
        /\ ValidateCheckpoint(cp)
        /\ up' = TRUE
        /\ rd' = [Closed EXCEPT !.at = IF conf.kind = "http" THEN HttpStart(cp) ELSE cp,
                                !.committed = cp]
        /\ UNCHANGED <<conf, upstream, queue, delivered, saved, crashes>>

\* fetchPage of http: the page counter moves before the request.
HttpPage == rd.at.page + conf.total

HttpFetched(at, records, short) ==
    rd' = [rd EXCEPT !.at = at, !.buffer = records,
                     !.done = short \/ records = << >>]

fetchHttpPage ==
    LET at == [rd.at EXCEPT !.page = HttpPage]
    IN  IF conf.limit > 0 /\ HttpPage > conf.limit
        THEN rd' = [rd EXCEPT !.at = at, !.done = TRUE]
        ELSE HttpFetched(at, Records(HttpPage), Cardinality(ItemsOf(HttpPage)) < PageSize)

\* The page the next request of rest_source asks for.
RestPage ==
    CASE conf.mode = "offset" -> rd.at.page + 1
      [] conf.mode = "token"  -> IF rd.at.page = 0 THEN 1 ELSE rd.at.page
      [] conf.mode = "none"   -> 1

\* The token of the page behind page p, from a Link header or a field of the
\* answer; 0 when there is none.
NextToken(p) == IF p < Pages THEN p + 1 ELSE 0

\* The position after page p: the next offset, or the token of the next page.
NextAt(p) ==
    [page  |-> CASE conf.mode = "offset" -> rd.at.page + 1
                 [] conf.mode = "token"  -> NextToken(p)
                 [] conf.mode = "none"   -> rd.at.page,
     count |-> rd.at.count + 1]

\* Whether page p was the last: a short page or the reported total, a missing
\* token, or no pagination.
LastPage(p) ==
    CASE conf.mode = "offset" -> \/ Cardinality(ItemsOf(p)) < PageSize
                                 \/ conf.totals /\ p * PageSize >= Items
      [] conf.mode = "token"  -> NextToken(p) = 0
      [] conf.mode = "none"   -> TRUE

\* fetchPage of rest_source: the position moves once the page is there.
fetchRestPage ==
    IF conf.limit > 0 /\ rd.at.count >= conf.limit
    THEN rd' = [rd EXCEPT !.done = TRUE]
    ELSE rd' = [rd EXCEPT !.at = NextAt(RestPage), !.buffer = Records(RestPage),
                          !.done = LastPage(RestPage) \/ Records(RestPage) = << >>]

fetchPage ==
    /\ up
    /\ ~rd.done
    /\ rd.buffer = << >>
    /\ IF conf.kind = "http" THEN fetchHttpPage ELSE fetchRestPage
    /\ UNCHANGED <<conf, upstream, up, queue, delivered, saved, crashes>>


\* fetchWithRetry gives up (retries exhausted, a 4xx answer, no token): Read
\* returns the error and the runner reads again.
FetchFails ==
    /\ up
    /\ ~rd.done
    /\ rd.buffer = << >>
    /\ rd.failures < MaxFailures
    /\ rd' = [rd EXCEPT !.failures = @ + 1,
                        !.at.page = IF conf.kind = "http" THEN HttpPage ELSE @]
    /\ UNCHANGED <<conf, upstream, up, queue, delivered, saved, crashes>>

\* Read: the page is committed when its last record is handed over.
Read ==
    /\ up
    /\ rd.buffer # << >>
    /\ emitReadRecord(<<Head(rd.buffer)>>)
    /\ rd' = [rd EXCEPT !.buffer = Tail(@),
                        !.committed = IF Len(rd.buffer) = 1 THEN rd.at ELSE @]
    /\ UNCHANGED <<conf, upstream, up, delivered, saved, crashes>>

\* CheckpointForRecord and Snapshot: the committed position, whatever the
\* record.
CheckpointForRecord(batch) == rd.committed

Write ==
    /\ up
    /\ queue # << >>
    /\ \E batch \in Batches : writeBatch(batch, CheckpointForRecord(batch), TRUE)
    /\ UNCHANGED <<conf, upstream, up, rd, crashes>>

Crash == ProcessCrash /\ rd' = Closed

PageNext == Open \/ fetchPage \/ FetchFails \/ Read \/ Write \/ Crash

\* ------------------------------- properties -------------------------------

\* Pages a reader opened at this position does not fetch again.
PagesBefore(cp) ==
    {p \in Mine : CASE conf.kind = "http"   -> p <= cp.page
                    [] conf.mode = "offset" -> p <= cp.page
                    [] conf.mode = "token"  -> p < cp.page
                    [] conf.mode = "none"   -> FALSE}

\* A page becomes the resume position only when all its records have left the
\* reader (Read, "Page fully consumed"), in a run that lost no page to a
\* failed request of http or to its shard arithmetic.
CommittedPageIsHandedOver ==
    up /\ crashes = 0 /\ conf.total = 1 /\ ~(conf.kind = "http" /\ rd.failures > 0) =>
        \A p \in PagesBefore(rd.committed) :
            {i \in ItemsOf(p) : IsRecord(i)} \subseteq delivered \cup RowsOf(queue)

\* What a crash costs rest_source: at most the records that were queued.  The
\* committed page is ahead of what is written, and is not fetched again
\* (CheckpointForRecord does not look at the record).
CrashCostsTheQueue ==
    conf.kind = "rest" =>
        LET covered == {i \in 1..Items : IsRecord(i) /\ \E p \in PagesBefore(SavedOr(Start)) : i \in ItemsOf(p)}
        IN  Cardinality(covered \ (delivered \cup RowsOf(queue))) <= crashes * Buffer

\* Every item arrives, and failed requests of rest_source cost none: the
\* position moves after the answer.  Four things do lose items: a crash (the
\* committed page may still be queued), a failed request of http (the page
\* counter has moved), a page without a single object (Read takes it for the
\* end), and sharding (ShardsReadAllPages).
AllItemsIn ==
    \/ Wanted \subseteq delivered
    \/ crashes > 0
    \/ conf.kind = "http" /\ rd.failures > 0
    \/ conf.junk
    \/ conf.total > 1

\* The shards of an http source share out all its pages, page p going to
\* shard (p - 1) % shard_total (Open, "shard i starts at page (shardIndex+1)").
ShardPagesIn ==
    \/ Wanted \subseteq delivered
    \/ crashes > 0
    \/ rd.failures > 0
    \/ conf.junk

ShardsReadAllPages == <>ShardPagesIn

-----------------------------------------------------------------------------
(* The redis source (internal/etl/source/redis.go): walks the keys with     *)
(* SCAN, whose pages come in an order of the server's choosing, and counts  *)
(* the keys it has emitted.  A position is such a count.                    *)
(*                                                                          *)
(* rd.left are the keys the running SCAN has not returned, rd.cursor        *)
(* whether it is under way (a cursor other than 0), rd.buffer the rest of   *)
(* the current page.                                                        *)

RedisClosed ==
    [left |-> {}, cursor |-> FALSE, buffer |-> << >>, processed |-> 0, skip |-> 0,
     scanDone |-> FALSE, pages |-> 0, failures |-> 0]

RedisInit ==
    /\ PipeInit
    /\ upstream = << >>
    /\ conf = [kind |-> "redis"]
    /\ rd = RedisClosed

Sorted(keys) ==
    [i \in 1..Cardinality(keys) |->
        CHOOSE k \in keys : Cardinality({other \in keys : other < k}) = i - 1]

\* The answers SCAN may give: a page of the keys not returned yet, and whether
\* the cursor is back at 0, which it is once all are returned.  A page may be
\* empty before the end (once in a row here).
ScanAnswers(reader) ==
    LET pool == IF reader.cursor THEN reader.left ELSE Keys
    IN  {answer \in [page : SUBSET pool, last : BOOLEAN] :
            /\ answer.last => answer.page = pool
            /\ answer.page = {} /\ ~answer.last => pool # {} /\ reader.pages = 0}

\* The keys of a page that are left after the checkpoint's count is skipped.
AfterSkip(reader, page) ==
    IF reader.skip >= Cardinality(page) THEN << >>
    ELSE SubSeq(Sorted(page), reader.skip + 1, Cardinality(page))

\* fetchNextPage: one SCAN call.  A cursor of 0 starts over; the scan is done
\* when the last page leaves nothing to read.
fetchNextPage(reader, answer) ==
    [reader EXCEPT
        !.left = (IF reader.cursor THEN @ ELSE Keys) \ answer.page,
        !.cursor = ~answer.last,
        !.buffer = AfterSkip(reader, answer.page),
        !.skip = Max({0, @ - Cardinality(answer.page)}),
        !.pages = IF answer.page = {} THEN 1 ELSE 0,
        !.scanDone = answer.last /\ AfterSkip(reader, answer.page) = << >>]

\* RedisValidateCheckpoint: a count.
RedisValidateCheckpoint(cp) == cp >= 0

\* RedisOpen: takes the count of the checkpoint and fetches the first page.
RedisOpen ==
    LET count  == SavedOr(0)
        reader == [RedisClosed EXCEPT !.skip = count, !.processed = count]
    IN  /\ ~up
        /\ RedisValidateCheckpoint(count)
        /\ up' = TRUE
        /\ \E answer \in ScanAnswers(reader) : rd' = fetchNextPage(reader, answer)
        /\ UNCHANGED <<conf, upstream, queue, delivered, saved, crashes>>

\* RedisRead refills its buffer while the scan is not done.
Refill ==
    /\ up
    /\ rd.buffer = << >>
    /\ ~rd.scanDone
    /\ \E answer \in ScanAnswers(rd) : rd' = fetchNextPage(rd, answer)
    /\ UNCHANGED <<conf, upstream, up, queue, delivered, saved, crashes>>

\* RedisRead emits the next key with its number.
RedisRead ==
    /\ up
    /\ rd.buffer # << >>
    /\ rd' = [rd EXCEPT !.buffer = Tail(@), !.processed = @ + 1]
    /\ emitReadRecord(<<[row |-> Head(rd.buffer), offset |-> rd.processed + 1]>>)
    /\ rd.processed < MaxReads
    /\ UNCHANGED <<conf, upstream, up, delivered, saved, crashes>>

\* readKey fails: the key is counted, the error returned, the key not read.
ReadKeyFails ==
    /\ up
    /\ rd.buffer # << >>
    /\ rd.failures < MaxFailures
    /\ rd' = [rd EXCEPT !.buffer = Tail(@), !.processed = @ + 1, !.failures = @ + 1]
    /\ UNCHANGED <<conf, upstream, up, queue, delivered, saved, crashes>>

RedisCheckpointForRecord(batch) == batch[Len(batch)].offset

RedisWrite ==
    /\ up
    /\ queue # << >>
    /\ \E batch \in Batches : writeBatch(batch, RedisCheckpointForRecord(batch), TRUE)
    /\ UNCHANGED <<conf, upstream, up, rd, crashes>>

RedisCrash == ProcessCrash /\ rd' = RedisClosed

RedisNext == RedisOpen \/ Refill \/ RedisRead \/ ReadKeyFails \/ RedisWrite \/ RedisCrash

\* ------------------------------- properties -------------------------------

\* In a run without a crash or an unreadable key, every key arrives, whatever
\* the pages SCAN cuts.
AllKeysIn == Keys \subseteq delivered \/ crashes > 0 \/ rd.failures > 0

=============================================================================
