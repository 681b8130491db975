# KETI Storage Engine Instance: models and proofs

A TLA+ development of the three programs under `src/` that carry out a query on
computational storage drives (CSDs). It says what the code does, checks on small
instances what must not go wrong and what must eventually happen, and proves part of
it for every plan, every number of results and every interleaving.

The modules are translated from the C++ source, not from its documents. The repository
has no tests; its own claims are those of `src/README.md`, of comments and of headers.

## 1. The system

```
 Query Engine --gRPC stream--> Storage Engine interface <--- Tmax's database
                               |  scans             |  all other snippets, fetches
                               v                    v
                    Offloading module          Merging module
                    Snippet Scheduler          Merge Query Manager (a thread per snippet)
                    CSD Status Manager              ^        |
                    Snippet Manager                 | tables | saved table
                               |                    |        v
                               v                    Buffer Manager
                              CSDs ----TCP--------->  (accept thread, merge threads)

 Each of the three programs runs an HTTP server in its main thread: log level, and in
 the offloading module the scheduling algorithm.
```

A query is a stream of snippets. A scan (FULL_SCAN, INDEX_SCAN, INDEX_TABLE_SCAN) goes
to the offloading module, which picks a CSD for every SST and sends it a message. Every
other snippet goes to the merging module, where a new thread reads one or two tables,
makes a third and saves it. The CSDs send results to the Buffer Manager, which merges
them into tables. After the last snippet the interface asks for the table of that
snippet; when it has been returned the query's buffer is deleted. Tmax's database asks
for files instead, which are offloaded without a plan, and fetches their chunks one by one.

| Component | State | Operations | What makes it correct |
|---|---|---|---|
| Buffer Manager (`merging_module/buffer_manager.*`) | `DataBuffer_`: per query a `QueryBuffer` with work buffers (`status`, rows, queue of results, block counts, two condition variables), a map of table names, `scanned_row_count`; the accept thread's connection; Tmax's chunk buffers | `bufferManagerInterface`, `pushResult`, `mergeResult`, `initializeBuffer`, `getTableData`, `getFinishedTableData`, `saveTableData`, `endQuery`; `t_*` for Tmax | each result merged once and decoded as it was encoded; "done" exactly when everything is merged; no reader gets an unfinished table or waits for ever; memory is not deleted under a thread, nor leaked |
| Merge Query Manager (`merging_module/merge_query_manager.*`) | per snippet: two input tables, a target, a result | `RunSnippetWork`: the type of work, group, project and aggregate, having, order, save | the result is what the snippet asks for, however its input is cut into batches |
| Merging interface (`merging_module/merging_interface.cc`) | none | `Aggregation` starts a thread; `GetQueryResult` waits, converts, ends the query; `GetTmaxQueryResult` | one answer per query; one taker per chunk |
| Internal queue (`include/internal_queue.h`) | `std::queue`, mutex, condition variable | `push_work`, `wait_and_pop` | first in, first out, no lost wakeup |
| Snippet Scheduler (`offloading_module/snippet_scheduler.*`) | `SnippetQueue_`, `SCHEDULING_ALGORITHM` | `PushQueue`, `runScheduler` with DCS, DSI, DFA, AUTO; `t_snippet_scheduling`, `t_offloading_snippet` | each SST goes to a CSD that has it; the thread never stops |
| Snippet Manager (`offloading_module/snippet_manager.*`) | none | `setupSnippet` (group SSTs by CSD), `serialize`, `sendSnippetToCSD` | every SST in one message; block count and column types as the CSD and the merging module use them |
| CSD Status Manager (`offloading_module/csd_status_manager.h`) | map from CSD to metrics | set by gRPC or by polling; read by the scheduler; listed for Tmax | readers get records somebody set as a whole; the newest comes to be shown |
| Offloading interface (`offloading_module/offloading_interface.cc`) | none | `Scheduling`, `PushCSDMetric`, `t_*` | passes on what it gets |
| Storage Engine interface (`storage_engine_interface/`) | none | the streaming handler, `SendQueryStatus`, `keti_send_snippet`, `PushCSDMetric`, `formatTable` | routes by type; answers every query with the last table |
| HTTP server (`include/httplib.h`, vendored) | pool of threads with a queue of connections; a buffer per request | `bind`, accept loop, keep-alive, routing to this repository's handlers | each client gets the answers to its own requests; every connection ends |

What is hard here, and where:

* **Threads that share buffers without a common lock.** `initializeBuffer` holds
  `buffer_mutex_`, every other access to `DataBuffer_` does not. A thread looks a work
  buffer up, lets go, and uses the pointer later; `endQuery` may have deleted it.
* **Two condition variables per work buffer**, one for readers of a whole table and one
  for readers that stream it, the first waited on without a loop.
* **Order and number of results.** The count of blocks decides when a table is done.
* **Streaming.** A join passes over a table while it grows, from `row_index` on.
* **A counter of the query** (`scanned_row_count`) that merge threads of different works
  increase under different locks.
* **A single scheduler thread.** A method that does not end stops all scheduling.
* **Scores that change** between two looks of one decision.
* **One accept thread**, which reads from one CSD at a time without timeouts and looks at
  little of what `recv` returns.
* **A row format that three programs must agree on**: the Snippet Manager declares the
  columns, the CSD encodes, the Buffer Manager cuts by the declared lengths.
* **A map of metrics with a mutex that two of its four users do not take.**
* **Fetches that compete** for chunks after one wait without a loop.
* **HTTP connections** that are kept alive, pipelined, silent or broken off.
* **Operators by hand**: hash keys made of text, batches, groups, aggregates, CASE.

`PROJECT.json` lists each hazard at its line with the properties that watch it.

## 2. The modules

| Module | Models | Refines |
|---|---|---|
| `FifoQueue` | what a queue promises its callers | |
| `InternalQueue` | `kQueue<T>`: producers, consumers, silent pushes, spurious wakeups | `FifoQueue` |
| `QueryPlan` | what the merging module promises for one query: tables fill, finish and are derived; one answer | |
| `BufferManager` | the Buffer Manager, the readers' threads and `GetQueryResult` of one query | `QueryPlan` |
| `JoinWork` | how each type of work makes its target table from two inputs, one streamed in batches | |
| `SnippetPipeline` | grouping, projection with aggregates and CASE, having, order: from target to result | |
| `SnippetMessage` | operators: the message for a CSD, its block count and the types of its columns | |
| `SnippetScheduler` | the scheduler thread with its four methods, `setupSnippet` with the messages, metrics and algorithm changes | |
| `RowFormat` | operators: a cell from the bytes of a CSD to the text of the answer | |
| `ResultReceiver` | the accept thread of the Buffer Manager, connection by connection and `recv` by `recv` | |
| `StorageEngine` | the three programs together for several queries, with failing calls and CSDs; extends `ResultReceiver`, `SnippetMessage`, `RowFormat` | |
| `TmaxQuery` | the Tmax path through all three programs | |
| `CsdStatus` | the map of metrics and the four kinds of thread that use it | |
| `HttpServer` | accept loop, thread pool, keep-alive, requests and the two handlers | |
| `*_proofs` | theorems about the module they extend | |
| `MC*` | constants of the instances that are model-checked | |

`StorageEngine` composes; what `SnippetScheduler` and `BufferManager` say in detail is one
step in it: that an SST goes to one CSD that holds it is `SstsReachHolders` there, that a
table is finished exactly when all results are merged is `DoneIsComplete` there.

### BufferManager and the code

One action per critical section, lookup or wait:

| Actor | Actions | Code |
|---|---|---|
| accept thread | `Receive` (initializeBuffer), `ReceiverLookup`, `PushResult` | `pushResult`, 200-225 |
| merge thread, one per work and query buffer | `MergerLookup`, `PopResult`, `MergeResult`, `CountResult` | `mergeResult`, 227-412 |
| thread of a merging snippet | `RunSnippetWork`, `BeginRead`, `FindName`, `ReaderLookup`, `WaitWorkDone`, `GetFinishedTableData`, `WaitWorkInProgress`, `GetTableData`, `SaveLookup`, `SaveTableData` | `getTableData`, `getFinishedTableData`, `saveTableData`, and the loop of `InnerJoin_hash` |
| gRPC thread of `GetQueryResult` | `GetQueryResult`, `ReaderLookup`, `WaitWorkDone`, `GetFinishedTableData`, `EndQuery` | `merging_interface.cc` 43-116, `endQuery` |
| any wait | `SpuriousWakeup`, if the instance allows it | |
| any thread | `ReaderFault`, `ReceiverFault`, `MergerFault` | use of a null or deleted buffer: undefined, the model stops |

`gen`, `live` and the pointers tell which incarnation of the query's buffer a pointer
refers to; a pointer is valid when it is to the live one. The rows of a scan are
identities `<<result, i>>`; the table of a merging work is its *lineage*, the rows it
read in the order it read them, cut by the limit clause. Values are the business of
`JoinWork` and `SnippetPipeline`. `mergeResult`'s section under `mu` is cut in two where
it reads and writes `scanned_row_count`, which another work's merge thread may do at
the same time; everything else in it is invisible to others until `mu` is released,
and `Locked` keeps others out meanwhile. `got`, `early` and `delivered` are histories.

### The rest and the code

* `InternalQueue`: a critical section of `work_mutex` is an action; the notification,
  after `lock.unlock()`, is another.
* `SnippetScheduler`: DCS is cut at every look at a score (`DcsSingle`, `DcsCompare`,
  `DcsAssign`), because metrics come in between, and keeps the code's penalty map; DFA
  is a step per SST, DSI one step with its stack, which no other thread can observe. A read past the end or a division by zero is `pc = "undefined"`, an
  endless loop `"spinning"`. `Groups` is `setupSnippet`, `Serialize` the message.
* `JoinWork`: tables are sequences of rows with two or three columns, `Arrive` adds a
  row to the streamed one at any time, `StreamBatch` is one turn of the loop over
  `GetTableData`. The target holds pairs of row numbers, 0 for the nulls of an outer
  join. Hash keys are what `to_string` makes of a value: `Text` tells types apart.
* `SnippetPipeline`: a step per group, then having and order. Values are small numbers
  with a type; averages are kept as `sum / parts`. A column to which a projection puts
  no value stays short, as in the code. `sort` may leave ties in any order, and
  anything if the comparison reads undefined values.
* `ResultReceiver`: a connection is a stream of units. `ReceiveLength`, `ReceiveText`,
  `ReceiveSize` and `ReceiveData` are each one `recv`, which returns any non-empty part
  of what has arrived; `Acknowledge` is an "ok". A peer that ends leaves a prefix and a FIN
  or a reset. Reading a text that has ended spins for ever, a reset ends the process,
  a length that never came is undefined: `stage` says how the thread was lost. A send to a
  closed peer does none of this: `main` makes an httplib `Server`
  (`merging_interface.cc:184`), which ignores SIGPIPE, and nobody looks at what `send`
  returns.
* `StorageEngine`: `ReadSnippet` is one turn of the handler's loop, with its call, which may
  fail and is only logged; `Schedule` picks a holder for each SST and may fail to connect,
  which is not looked at; `MergeResult`, `RunSnippetWork` and `Answer` end the way. `Hasty`
  CSDs close their side right after the data, without waiting for the second "ok".
* `TmaxQuery`: `next` walks a request's file list; `ChunkList` looks a file up by its name
  and so lists the chunks of all files of that name. `PopBack` takes the newest chunk; a fetch
  that was woken does not look again (`GetResultWoken`), and `back()` of an empty vector is
  undefined.
* `CsdStatus`: an entry is read and written in two halves, so that a thread without the mutex
  can come in between; `overlapped` remembers the entries where the puller met somebody. An
  insertion while another thread is in the map may crash, and so may using an entry that the
  puller is in or that it comes to, for `csd_ip` is a string (`racers` says who was there); a
  listing reads the numbers of an entry only.
* `HttpServer`: a request is two pieces, its line and the rest of its headers. `ReadLine`
  moves all that has arrived into the buffer of a stream that lives as long as the request.
  A timeout may happen to any read that finds nothing.

## 3. What is checked

All runs are exhaustive; times are for two workers.

| Run | Instance | States | Shows |
|---|---|---|---|
| `queue` | 2 producers, 2 consumers, 4 items | 186 | no wakeup is lost although only a push into an empty queue notifies; `kQueue` is a FIFO queue in which no item stays for ever |
| `join` | two scans with two results each (one without rows), a join that reads one whole and streams the other, batches of 2 rows, no spurious wakeups | 102,404 | types, completeness of finished tables, no early read, streaming in order and once, the buffer stays reclaimed, tables only grow, the answer has every row; the plan is carried out |
| `early_read` | the same with three results and spurious wakeups | violation | the wait of `getFinishedTableData` has no loop: a spurious wakeup hands out an unfinished table |
| `chain` | a scan in two results, two works in a row, the first with a limit longer than its table, the second with one that it reaches; spurious wakeups | 146,605 | the count of scanned rows is exact with one scan, the answer is cut as the plan and both cases of the limit make it, only a reader that was handed an unfinished table can use deleted memory, the query is answered |
| `schedule` | 2 CSDs; snippets of 0, 1, 2 and 3 SSTs, whole and by blocks, with projections of every kind; all four algorithms; 2 updates | 98,284 (1 min) | SSTs reach holders in one message each, the messages describe them and their columns, what stops the thread, and that it gets to every snippet otherwise |
| `target` | 18 works, all tables of up to 2 rows over 2 values, batches of 1 row | 342,084 | which works make exactly the rows asked for |
| `pipeline` | 12 queries, all tables of up to 3 rows over 2 values, nulls | 92,575 | which queries get exactly the result asked for, and in its order |
| `engine` | 2 queries at once on 2 CSDs, one of which scans two SSTs into a row with 14 columns of every type, one without rows; one failure anywhere | 179,933 (3 min) | every answer is whole and shows what is stored, or there was a failure that the property names; a query is answered unless it failed or the receiver is lost |
| `tmax` | 2 requests, one with a file named twice, one with an unknown file; 3 fetches, one of another type; one failure or spurious wakeup | 127,282 (1.5 min) | no chunk is lost or shared, chunks come as often as their file is named, a fetch waits only for nothing, what an empty take needs; files come in and fetches are answered |
| `csd_status` | 2 CSDs, one of them measured twice, 2 overlapping pushes, the puller, the scheduler, a listing | 869,094 (2.5 min) | records are whole until the puller meets somebody, the mutex excludes those who take it, the newest measurement comes to be shown again and again |
| `http` | 3 connections (one that waits for its answers, one that pipelines and begins with a line that is no HTTP, one silent), 2 threads, 3 answers per connection | 956,462 (1.5 min) | clients in step get their own answers, jobs do not wait for a sleeping thread, an end is announced, everything ends |

Why the bounds are enough for the questions: two consumers are the least for
`notify_one` to have a choice; two results per scan the least for an order, an empty
one for progress without rows, three rows in batches of two for a stream in one pass or
two; two scans the least to race on the counter; a chain of two works the least for a
wait on a work that itself waits, three rows under limits of four and of three the least for both
cases of `saveTableData`; two replicas the least for a choice, three SSTs for one
whose choice is between CSDs that are penalised already; two rows per side
the least for two hits, for a miss and for a seam between batches; three rows for groups
of different sizes, equal rows and ties; two queries the least for one to wait behind the
other's CSD, one failure is every way to fail since each loses something for good; two
fetches of one query the least for a rival; two measurements and two pushes the least for
a late push; three connections for two threads the least for a job that waits; three
answers reach the keep-alive limit with and without the client's own end. The initial
tables are all tables within the bound.

Two runs end in a violation. `early_read`, `NoEarlyRead`: `getFinishedTableData` tests the
status once and waits once, so that a spurious wakeup hands a join or the client a table that
is not finished. `AnswerComplete` and `AnswerCutAsPlanned` speak of answers without such a read
(`early`); `FaultOnlyAfterEarlyRead` says that nothing worse happens without one.
`non_equal_join`, `TargetExact`: without an equal filter
`InnerJoin_hash` falls back to a nested loop that starts again at row 0 in every batch, so
that rows are joined more than once.

### Where the code departs from what one expects

`TargetExactUnlessDeparts`, `ResultExactUnlessDeparts`, `ColumnsExactUnlessDeparts` and
`AnswerShowsWhatIsStored` say that the result is exact *except* in the listed cases
(`Departs`, `CellDeparts`), which the models contain.

Merging works (`merge_query_manager.cc`):

* UNION without a filter and CROSS_JOIN make nothing; FILTER filters a table it never
  read (26, 1705-1715).
* Keys are text: an integer and an equal float never meet; a date is left out when
  probing, but not when building (1151).
* Outer joins ignore filters that are not equalities; the right outer join looks a left
  column up in the right table, which adds an empty column and reads it (1594); they copy
  the null flag of another row (1501).
* UNION ALL adds the size of the snapshot, not of the batch, to the row count (1744).
* EXISTS reads an uninitialised flag if the table is empty (2036); DEPENDENCY_IN passes
  every row (2122, 2227); dependencies on a date compare the wrong field.
* AVG of integers truncates (276); MAX of strings and MIN/MAX of dates put no value
  (379); `=` in CASE compares types (778); an operator on a float and an integer takes
  the wrong field (693, 724, 757); an OR after an AND is not looked at (500).
* Aggregates over no rows give no row (145).

Buffers: a spurious wakeup in `getFinishedTableData`, which waits without a loop, hands out
an unfinished table (run `early_read`); a limit that reaches beyond the end of the
table drops no row, not even those before the offset (`buffer_manager.cc` 559);
`scanned_row_count` may lose additions of two scans (390).

Messages and rows: SSTs to be read whole are left out of a message with blocks, though they
are counted; a literal by itself gets column type 0 and blank cells; a sum of two decimals is
declared as long as their product, and from length 10 on its cells cannot be decoded, as
they are in TPC-H's query 9 (`snippet_manager.cc` 163-255, `buffer_manager.cc` 296-343).

Scheduling (`snippet_scheduler.cc`): DCS never updates its running maximum (75), so it takes
the last replica whatever the scores; the DFA loop tests the wrong index and spins for an SST
whose index is not below the number of its replicas (205); DSI's backtracking leaves an
incomplete stack that is then read when empty (183): together they are why
`StuckOnlyByManySsts` speaks of snippets with one SST; AUTO drops its block count in a
comma expression (239).

Failures: a failed connection to a CSD, or a CSD that ends early, leaves its query without an
answer for ever; one that ends inside a text leaves the accept thread spinning, for all
queries; `SendQueryStatus` without its monitor hangs the handler.

Tmax: the response is passed by value, so that an unknown file is still answered
`TMAX_ERROR_NONE`; the newest chunk is handed out first; a fetch of another type takes a chunk
that nobody gets.

Metrics: the puller writes without the mutex, so a mixed record may stay until the next clean
write; a reply that is no JSON object stops the thread for good (an assertion), one that never
comes hangs it; `keti_get_csd_status` drops the list it made.

HTTP: the path that sets the algorithm is spelled `/scheuling-algorithm`; an unknown algorithm
is answered 200; what a stream's buffer holds of the next request is lost with it, so
pipelined requests vanish; a refused request line leaves its headers to be answered 400 as
a request of their own; an HTTP/1.0 request may be told keep-alive and closed; a client that
half-closes gets no answer although its handler ran; if `bind` fails the program runs on
without HTTP.

### Fairness

* `BufferManager`: weak fairness for each thread. The operating system runs a thread that
  can run; no lock can be held for ever, because every section ends. For the accept
  thread it also means that the CSDs send all their results, and for the others that the
  stream delivers all its snippets: `QueryAnswered` is about what happens then.
  No fairness for spurious wakeups.
* `InternalQueue`: weak fairness for a consumer in `wait_and_pop` and for a producer that
  still has to notify; nobody must push.
* `SnippetScheduler`: weak fairness for the scheduler thread only.
* `StorageEngine`: weak fairness for the threads of each query, the scheduler and the
  receiver, and for CSDs that have not failed. Nobody must start a query and nothing must fail.
* `TmaxQuery`: one weak fairness for all threads and CSDs. Since no step can be repeated,
  each that stays possible is taken in the end.
* `CsdStatus`: weak fairness for the puller and the scheduler's copy, strong for the pushes
  (they compete for a mutex, which is given out in the end) and for a full reply: the collector
  is asked every five seconds and answers in full at some time.
* `HttpServer`: one weak fairness for the main thread and the pool. A read with
  nothing to read runs into its timeout. No client is obliged to anything.
* `JoinWork` and `SnippetPipeline` are sequential; only safety is stated.

### What is assumed of the outside

CSDs (external): a result covers at least one block, no block is covered by two results,
and each result carries the total of its work, as `Serialize` computes it. A result whose
blocks are counted twice would break `DoneIsComplete`. A CSD that has not failed follows the
receiver's protocol: its text parses, and it announces no more data than fits in `BUFF_SIZE`,
which the receiver does not check (`buffer_manager.cc` 76-88). Nor is the zero modelled that
the receiver writes behind its buffer when a whole text comes at once (67). Rows are encoded in the declared types. Plans: every work the final one
rests on is part of the stream, each table name is its work's. Projections come from the query's
parser in postfix order, each operator after two operands. These are `ASSUME`d in
`BufferManager`, `StorageEngine` and `SnippetScheduler`.

Some theorems need more of the constants than the code needs to run. That is a named predicate,
a hypothesis of those theorems, and the `MC` modules `ASSUME` it of their instances:

| Hypothesis | Says | Evaluated in |
|---|---|---|
| `LeadsToFinal` | the last work rests on every other, directly or through others | `MCBufferManager`, `MCBufferChain` |
| `ReadsOnce` | a table is one input of one work at most | `MCBufferManager`, `MCBufferChain` |
| `DsiPicksHolders` | DSI's search selects holders | `MCSnippetScheduler` |
| `CountsAgree` | a CSD is asked for as many blocks of an SST as the total counts, at least one | `MCStorageEngine` |
| `RowsFit` | a row has a cell for each column, and the cell is one the column is declared to hold: an integer, date or timestamp in its type's width, a decimal with two digits for each byte after the point, a text without zero bytes that its length prefix can count | `MCStorageEngine` |

## 4. What is proved

Theorems hold for every value of the constants that satisfies the named assumptions.

**InternalQueue** (`InternalQueue_proofs`). `TypeCorrect`; `WakeupsNotLost`: while an
item is queued a consumer is awake or a producer is about to notify, for any number of
threads, inductive with the types; `StepsAreFifo`: every step is a step of `FifoQueue`
or leaves it alone.

**BufferManager, its life** (`BufferManager_proofs`). The types are not inductive alone:
that a query has at most two buffers needs to know when one is made. `LifeInv` adds
`QueryLife` (the buffer exists from the first request to `endQuery`, and may be made
once more by a late thread), `PointersPast` (no pointer is from the future),
`PointersFound` (a pointer into the live buffer is to a work buffer it has),
`StreamCalls` and `Places`. One lemma per thread shows that its steps keep it.
`TypeCorrect` follows, and `FinishedTablesOnly`: if waits return only when notified, no
reader of a whole table gets an unfinished one, whatever the plan. The extra invariant
is `WokenByDone`: who was woken out of that wait finds the table done, because only the
last notification goes to that condition variable and a finished table stays finished.

**BufferManager, its tables** (`BufferManager_proofs`). `ScanInv` is the account
of the results: each is in exactly one of the hands of the accept thread, a queue, the
hands of a merge thread, or merged, and a work buffer's rows, blocks and status are those
of the results merged (`Accounts`). It must allow two merge threads for one work, since
`endQuery` does not stop the old one. From it:

* `TablesComplete`: a scanned table that is marked WorkDone has every row of every result
  of its work once and an empty queue, for every order of the results. The step from
  equal *numbers* of blocks to equal *sets* of results rests on the assumption that each
  result has a block of its own.
* `FinishedTablesStay`: while the buffer lasts, scanned tables only grow and no finished
  table changes. It needs that a finished one has taken all its results, so that
  no merge thread can hold another, and that a merging work saves once (`SavedOnce`).

**BufferManager, its end** (`BufferManager_proofs`). Here the plan must be one that
leads to its last work (`LeadsToFinal`): a work whose table nobody reads may still run
when the client is answered and meet the deleted buffer, so without this the theorem is
false. The two `MC` modules of `BufferManager` assume it, and TLC evaluates it.

* `NoUseOfDeletedMemory`: as long as nobody was handed an unfinished table, no thread
  uses a missing or deleted work buffer, although `endQuery` takes no lock.
* `BufferStaysReclaimed`: such a query's buffer is not made again after its end.

The invariant is `FaultInv`: while `early` is empty the query is `Calm`, that is, every
pointer and lookup in use is to the one live buffer, a scan work's status tells where
its merge thread is (`MergersMark`), a merging work is past its inputs only when they are
finished (`InputsFinished`), and when the client holds its answer every other thread is
through (`AllThrough`). The last part is `FinalIsLast`: a finished last table means that
every work is finished (`LeadsToFinal` with `InputsFinished` and `SavedOnce`), finished
scan works have taken every result (`TablesComplete`'s account), so nothing is left to
be accepted, pushed, merged or saved.

**BufferManager carries out its plan** (`BufferManager_proofs`). All but the first are about plans
with `LeadsToFinal`.

* `StreamsOnce`: what a merging work has streamed is its input up to `row_index`, each row once,
  in order, and all of it when the loop ends, for any size of a batch and any wakeup. It is
  inductive with what the account says of a table that only grows.
* `CarriesOutPlan`: every behaviour in which nobody is handed an unfinished table
  (`[]NoEarlyRead`) implements the safety part of `QueryPlan` under the mapping of
  `ImplementsPlan`: each step is a start, a row, a finish, a derivation or the answer there, or
  leaves it alone. The fairness of `QueryPlan` is left to TLC.
* `AnswersAreComplete` (also under `ReadsOnce`): without limits and early reads the
  answer has every row that came, once. `AnswerInvs` is where the rows are on their way: in
  exactly one of the tables that somebody has still to read, at the end in the last one.
* `AnswersAreCutAsPlanned` (under the same hypotheses): with limits anywhere, an answer without
  an early read is as long as `Sized` computes from the plan and the rows found, both cases of
  `saveTableData` included, and has none of them twice. `SizeInv` carries the lengths along the
  plan: a saved table's follows from the lengths of the tables its work read, which are
  finished by then.
* `OffsetsAreSkipped` (also under `[]NoEarlyRead`): a table as long as its limit's length or
  longer loses just the rows before the offset; a shorter one is saved as it is.
* `CountIsExact`: with one scan work `scanned_row_count` loses no addition, because the work
  buffer's own mutex then happens to protect it; with two an addition may be lost, which is
  why `ScannedExact` speaks of one.

**JoinWork** (`JoinWork_proofs`). `TargetExactHolds`: a work of any type makes just the rows it
was asked for, each as often as it should, for any tables, any batch size and any moments at which
rows arrive, unless it is of a kind that `Departs` lists. The invariant (`JoinMakes`) is that after
each batch the target has the rows made from the streamed table up to `row_index` and no others
(`Made`), next to what each step may take for granted of the tables (`Typed`). That no seam of two
batches repeats a row rests on marks (`Mark`): every row made carries the number of the streamed
row it was made from, a batch makes rows with marks beyond `row_index` only, so two batches
share none (`Marked`, `RoundsAdd`). That a hash key finds the rows that are equal, and only
those, needs that both sides are written the same way (`SameKey`): a float and an integer are not,
and the proof is where two more departures came to light, a join by IN and a subquery
without a filter; `Departs` and the instances of `MCJoinWork` have them now. What the loops over
rows and filters make is proved by induction over sets of numbers (`Inductive`, from the library's
`WFMin`) and functions by recursion (`Recursion`, `KeptIs`, `FlattenIs`, `AscendingIs`), so that no
theorem with an operator as its parameter is needed.

**SnippetScheduler** (`SnippetScheduler_proofs`). `MessagesReachHolders`: every SST of a snippet
that was set up is in exactly one message, to a holder, for all replicas, scores and changes of
the algorithm in between; `DcsGoesOn`: DCS never stops the thread, one SST stops it under no
algorithm. `SchedulerInv` adds `Once` (a snippet is queued, taken and set up once, so that
no two sets of messages mix) and `Chosen` (what the method at hand has picked so far). For DCS,
the last replica beats -1, so that something is selected before it is used. For DFA the
interesting fact is that its inner loop, which never looks at its own bound, ends at a free
replica: it runs only if fewer CSDs have been taken than this SST has replicas
(`Pigeonhole`). What DSI's search selects is computed by recursion over the SSTs, out of the
provers' reach: both theorems have `DsiPicksHolders` as a hypothesis, which `MCSnippetScheduler`
assumes and TLC evaluates. `MessagesAreDescriptions`: a message counts, per partition,
just the blocks it names, whole SSTs included, unless its SSTs are mixed, when `Serialize` puts
the whole SSTs of one partition under another.

`ColumnsAreExact` is about `calcul_return_column_type`: every column of every message has the type
and length of its value, for any schema and expressions of any length, unless `Departs` lists the
projection. The code keeps two stacks, one of types and one of the sizes of the decimals among
them, and each could run ahead of the other. `Matches` relates them to one stack of types
with their sizes: the sizes are those of the decimals, in order (`Ranks`). One lemma shows that
an operator keeps that (`OperatorStep`), one that a value does (`ValueStep`), and `AgreeAtEnd` is
the induction over the tokens, which also carries that a decimal once pushed stays somewhere on
the stack and that without one all that is left is INT32. What it assumes of the projections
(`ProjectionAssumption`: postfix order, a value behind THEN, names that the schema has) is what
makes the calls of `top` and `find` there defined; TLC evaluates it.

**CsdStatus** (`CsdStatus_proofs`). `OnlyUnlockedThreadsRace`: the mutex excludes those who take
it, for any number of pushes. `CopiesAreWhole`: the record that the scheduler copies is whole,
unless the puller met somebody in that entry. `StatusInv` says who may be in an entry
(`PullerPlace`, `Exclusive`), that a meeting of the puller with anybody is remembered
(`MeetingsSeen`), how far a writer has got with an entry (`Halves`), and that an entry in which
nobody is and nobody met is of one measurement (`EntriesWhole`).

**HttpServer** (`HttpServer_proofs`). `JobsNeverWait`: while a thread of the pool sleeps the jobs do
not outnumber the awake threads and the one about to be notified, for any finite pool. Its
argument is a count: a notification makes one sleeper awake, a thread takes one job and leaves
the awake ones. `ClientsInStep`: a client that waits for its answers gets each once and in order,
whoever else misbehaves. `StepInv` says that a connection is in one place (`Hands`), served by one
thread (`OneServer`), and, for a client in step, that the socket and the stream's buffer
together hold no more than one request, the one that is due (`Asking`): nothing is in the
buffer when it is thrown away. `ClosesAreAnnounced`: a connection closed with an answer was
told so in it, except to an HTTP/1.0 client, by what `process_request` decides before and after
the handler and the count of requests left.

**TmaxQuery** (`TmaxQuery_proofs`). `NoChunkLostOrShared`: each chunk that came in is in one place of
its buffer or taken by one fetch. `ChunkInv` needs that a chunk comes in once (`SentOnce`: a
snippet is sent once, and what its CSD sends was not sent before), because equal chunks could
not be told apart. `WaitsAreForNothing`: no fetch waits beside a chunk. `EmptyTakesHaveRivals`:
an empty take had a rival or a spurious wakeup; inductive with `Excused`, which says why a woken
fetch may find nothing. `ChunksAddUpToTheRequest`: a chunk comes in as often as its
file is named, a name listed twice included, and no less often if nothing fails; `SentInv` says
what has been sent for which place of a request.

**StorageEngine** (`StorageEngine_proofs`), for any number of queries, CSDs, SSTs, rows and failures.

* `ReceiverGoesOn`: the one accept thread ends, spins or reads a length nobody wrote only with a
  CSD that broke off. `ReceiverInv` (`ReceiverTypes`, `ServedOnce`, `Connections`) relates the wire
  to the place of the thread: what a CSD that did not fail has still to send is what the thread
  is about to read, byte count by byte count, and each CSD is served by one connection.
* `AnswersAreWhole`: an answer with rows has every SST of the scan, once and whole, unless a
  CSD of the query broke off. `EngineInv` follows an SST through the three programs: it is in one
  message (`Scheduled`), the messages of a query are for disjoint sets of SSTs and each makes one
  connection (`Messaged`), a connection makes one result, which is pushed and merged once
  (`PushedOnce`, `Finished`), and the answer is the merged results (`Answers`). A table is declared
  finished by comparing sums of blocks, so the proof has to show that a sum over some of
  the messages reaches the total only if it is over all of them: `SameCount` and `DoneIsCovered`,
  from `CountsAgree`, which gives every SST at least one block.
* `AnswersAreExact`: each cell of a row in an answer is printed as it is stored, unless
  `CellDeparts` lists it. The argument climbs from bytes to answers: for each type what a CSD
  encodes is decoded to the cell again, two's complement, complemented decimals, packed dates and
  length prefixes included (`CellComes`); by induction over the columns `getColOffset`'s offset plus
  its correction is where the encoded cells before end, whatever the lengths of the strings among them
  (`OffsetsAre`), so each row is cut where it was joined (`RowComes`); then each column has one value
  per row and none slips to another row (`ColumnIs`), except a column without a type, whose blanks
  are among the departures; and what a connection delivers are the rows of the SSTs in its
  message (`ResultsInv`). It assumes `RowsFit`, for a cell wider than its column's declared type
  could not have been stored; a column whose declared length is not its type's width (the code
  reads the width and steps by the length) is outside it.

Only model-checked:

* everything temporal beyond `[]`, because the provers do not handle ENABLED: `QueryAnswered`,
  `QueriesAnswered`, `EverySnippetScheduled`, `OffloadedFilesComeIn`, `FetchesAnswered`,
  `NewestShownAgain`, `EverythingEnds` and the fairness part of the refinements;
* what is about values that folds or recursion over data compute and was not rewritten as
  functions over numbers to be proved about: `ResultExactUnlessDeparts` and `ResultOrdered`, and with
  them `SnippetPipeline` as a whole.

## 5. What is not modelled

* The vendored `include/tmax-lib` (an expression and block library that the three programs
  link and do not call), binary libraries and the build.
* Of `include/httplib.h`: its client, TLS, file serving, multipart bodies, ranges and
  compression, which nobody here uses, and the limits on descriptors, URIs and headers.
* The CPU usage helpers nobody calls, logging, output and addresses.
* A race inside `std::unordered_map` of the Buffer Manager (an unlocked lookup during a rehash)
  has no outcome worth enumerating: a lookup is one action. `CsdStatus`, where the race is the
  subject, lets it crash or not.
* `checkTableStatus`, which nobody calls; SUBSTRING, EXTRACT, LIKE with a wildcard and division
  in `SnippetPipeline`. The values of works in `StorageEngine` are those of the scan passed on:
  what works compute is the business of `JoinWork` and `SnippetPipeline`.
* What CSDs and the metric collector do inside: they are external.

What would come next: a refinement of `StorageEngine`'s one-step table by `BufferManager`
and the order of rows in `SnippetPipeline`.
