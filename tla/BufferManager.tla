---------------------------- MODULE BufferManager ----------------------------
(***************************************************************************)
(* The Buffer Manager of the merging module                                  *)
(* (src/merging_module/buffer_manager.{h,cc}) while it serves one query: the *)
(* thread that accepts CSD results (pushResult), one merge thread per scan   *)
(* work (mergeResult), the threads of the Merge Query Manager that read      *)
(* tables and save the table they make (RunSnippetWork), and the gRPC        *)
(* handler that waits for the last table, returns it and then deletes the    *)
(* whole query buffer (GetQueryResult).                                      *)
(*                                                                           *)
(* initializeBuffer runs under buffer_mutex_; every other access to          *)
(* DataBuffer_ is a bare lookup, an action of its own here, so that endQuery  *)
(* can delete the buffer between a lookup and the use of the pointer.  A      *)
(* critical section of a work buffer's `mu' is one action, except the one of *)
(* mergeResult: it is cut where it adds to the query's scanned_row_count,     *)
(* which no lock of the query protects.                                      *)
(*                                                                           *)
(* Rows are what the CSDs sent, seen as identities; a work of the Merge       *)
(* Query Manager yields the rows it read, in the order it read them: the      *)
(* lineage of a table, not its contents.                                     *)
(***************************************************************************)
EXTENDS Naturals, Sequences, FiniteSets, FiniteSetsExt, SequencesExt, Functions

CONSTANTS
  Work,            \* the work ids of the query; a table's alias is its work id
  Whole,           \* [merging work -> table read with GetFinishedTableData]
  Streamed,        \* [merging work -> table read with GetTableData, or NoWork]
  NoWork,
  Limit,           \* [merging work -> the limit clause; length 0 means none]
  Final,           \* the last snippet of the stream: the table that is asked for
  Client,          \* the thread of the GetQueryResult call
  Result,          \* the results the CSDs send
  WorkOf,          \* [Result -> the scan work it belongs to]
  Blocks,          \* [Result -> the blocks it covers]
  RowCount,        \* [Result -> how many rows were found in them]
  Scanned,         \* [Result -> its scanned_row_count]
  BatchRows,       \* 1000000 in getTableData
  SpuriousWakeups  \* BOOLEAN: may a wait return without a notification?

MergeWork == DOMAIN Whole
ScanWork == Work \ MergeWork
ResultsOf(w) == {r \in Result : WorkOf[r] = w}
BlocksOf(w) == UNION {Blocks[r] : r \in ResultsOf(w)}
RowsOf(r) == [i \in 1..RowCount[r] |-> <<r, i>>]
Row == UNION {{r} \X (1..RowCount[r]) : r \in Result}
Reader == MergeWork \cup {Client}

ASSUME PlanAssumption ==
  /\ IsFiniteSet(Work)
  /\ MergeWork \subseteq Work
  /\ Whole \in [MergeWork -> Work]
  /\ Streamed \in [MergeWork -> Work \cup {NoWork}]
  /\ NoWork \notin Work
  /\ Limit \in [MergeWork -> [offset : Nat, length : Nat]]
  /\ \A w \in MergeWork : Limit[w].length # 0 => Limit[w].offset <= Limit[w].length
  /\ Final \in Work
  /\ Client \notin Work
  /\ BatchRows \in Nat \ {0}
  /\ SpuriousWakeups \in BOOLEAN

\* What the CSDs are taken to do (their code is not in this repository): a
\* result covers at least one block, and no block is covered twice.
ASSUME ResultAssumption ==
  /\ WorkOf \in [Result -> ScanWork]
  /\ \A r \in Result : IsFiniteSet(Blocks[r]) /\ Blocks[r] # {}
  /\ \A q, r \in Result : q # r => Blocks[q] \cap Blocks[r] = {}
  /\ IsFiniteSet(Result)
  /\ RowCount \in [Result -> Nat]
  /\ Scanned \in [Result -> Nat]

\* endQuery runs once for a query, so its buffer is created at most twice.
Generation == 1..2

VARIABLES
  gen,        \* how many QueryBuffers the query has had
  live,       \* is the last of them in DataBuffer_ ?
  allocated,  \* the keys of its work_buffer_list
  named,      \* the keys of its tablename_workid_map
  buf,        \* its work buffers; `got' is a history: the results merged
  scanned,    \* its scanned_row_count
  receiver,   \* the accept thread, inside pushResult
  delivered,  \* the results it has accepted
  merger,     \* the mergeResult threads, by generation and work
  pc, call, ptr,   \* per reader: where it is, in which call, with which pointer
  index,      \* per reader: row_index of the streaming loop
  whole, streamed, \* per reader: the rows read by either call
  answer,     \* what GetQueryResult returned
  early,      \* history: readers handed an unfinished table as a finished one
  fault       \* has a thread followed a null or dangling pointer?

queryBuffer == <<gen, live, allocated, named>>
reading == <<pc, call, ptr, index, whole, streamed, early, answer>>
vars == <<queryBuffer, buf, scanned, receiver, delivered, merger, reading, fault>>

Status == {"Initialized", "NotFinished", "WorkDone"}

WorkBuffer == [status : Status, rows : Seq(Row), merged : Nat, total : Nat,
               queue : Seq(Result), got : SUBSET Result]

MergeThread == [pc : {"none", "start", "pop", "merge", "count", "done"}, ptr : 0..2,
                item : Result \cup {<<>>}, loaded : Nat]

EmptyBuffer ==
  [status |-> "Initialized", rows |-> <<>>, merged |-> 0, total |-> 0, queue |-> <<>>,
   got |-> {}]

NoMerger == [pc |-> "none", ptr |-> 0, item |-> <<>>, loaded |-> 0]
NewMerger == [pc |-> "start", ptr |-> 0, item |-> <<>>, loaded |-> 0]

Init ==
  /\ gen = 0
  /\ live = FALSE
  /\ allocated = {}
  /\ named = {}
  /\ buf = [w \in Work |-> EmptyBuffer]
  /\ scanned = 0
  /\ receiver = [pc |-> "accept", ptr |-> 0, item |-> <<>>]
  /\ delivered = {}
  /\ merger = [g \in Generation |-> [w \in ScanWork |-> NoMerger]]
  /\ pc = [t \in Reader |-> "idle"]
  /\ call = [t \in Reader |-> "whole"]
  /\ ptr = [t \in Reader |-> 0]
  /\ index = [t \in Reader |-> 0]
  /\ whole = [t \in Reader |-> <<>>]
  /\ streamed = [t \in Reader |-> <<>>]
  /\ answer = [status |-> "none", rows |-> <<>>, scanned |-> 0]
  /\ early = {}
  /\ fault = "none"

\* `DataBuffer_[qid]->work_buffer_list[w]' yields a work buffer; otherwise
\* operator[] has just inserted a null pointer.
Found(w) == live /\ w \in allocated

\* A pointer got from that lookup still points to a work buffer.
Valid(p) == live /\ p = gen

\* mergeResult holds w's `mu' between its two steps on the query's counter.
Locked(w) == \E g \in Generation :
  /\ w \in ScanWork
  /\ merger[g][w].pc = "count"
  /\ merger[g][w].ptr = gen
------------------------------------------------------------------------------
(* initializeBuffer: W is {wid}, or {} for the work id -1 of a read by name.  *)

\* Faulty variant: the find before the insertion is missing.
MissingUnchecked(W) == W

\* The work buffers of W that the query's buffer lacks.
Missing(W) == IF live THEN W \ allocated ELSE W

InitializeBuffer(W) ==
  /\ gen' = IF live THEN gen ELSE gen + 1
  /\ live' = TRUE
  /\ allocated' = IF live THEN allocated \cup W ELSE W
  /\ named' = IF live THEN named \cup Missing(W) ELSE W
  /\ buf' = [w \in Work |-> IF w \in Missing(W) THEN EmptyBuffer ELSE buf[w]]
  /\ scanned' = IF live THEN scanned ELSE 0

\* The table that reader t's current call is about.
Target(t) == IF t = Client THEN Final
             ELSE IF call[t] = "stream" THEN Streamed[t] ELSE Whole[t]

\* The readers that wait on one of w's condition variables.
Waiting(w) == {t \in Reader : pc[t] = "wait" /\ ptr[t] = gen /\ Target(t) = w}

\* Faulty variants: one condition variable for both kinds of wait, and a last
\* notification that forgets work_done_condition.
NotifiedAny(w, done) == Waiting(w)
NotifiedProgress(w, done) == {t \in Waiting(w) : call[t] = "stream"}

\* notify_all on w's condition variables; `done' says whether on
\* work_done_condition too, or on work_in_progress_condition alone.
Notified(w, done) == {t \in Waiting(w) : call[t] = "stream" \/ done}
------------------------------------------------------------------------------
(* pushResult, on the thread that accepts the results.                        *)

Receive(r) ==
  /\ receiver.pc = "accept"
  /\ r \notin delivered
  /\ InitializeBuffer({WorkOf[r]})
  /\ delivered' = delivered \cup {r}
  /\ receiver' = [pc |-> "lookup", ptr |-> 0, item |-> r]
  /\ UNCHANGED <<merger, reading, fault>>

ReceiverLookup ==
  /\ receiver.pc = "lookup"
  /\ Found(WorkOf[receiver.item])
  /\ receiver' = [receiver EXCEPT !.pc = "push", !.ptr = gen]
  /\ UNCHANGED <<queryBuffer, buf, scanned, delivered, merger, reading, fault>>

\* The first result of a work fixes the number of blocks to wait for and starts
\* the merge thread; every result is queued.
PushResult ==
  LET r == receiver.item
      w == WorkOf[r]
      b == buf[w]
      first == b.status = "Initialized"
  IN  /\ receiver.pc = "push"
      /\ Valid(receiver.ptr)
      /\ ~ Locked(w)
      /\ buf' = [buf EXCEPT ![w] =
                  [status |-> IF first THEN "NotFinished" ELSE b.status,
                   rows |-> b.rows,
                   merged |-> b.merged,
                   total |-> IF first THEN Cardinality(BlocksOf(w)) ELSE b.total,
                   queue |-> Append(b.queue, r),
                   got |-> b.got]]
      /\ merger' = IF first
                    THEN [merger EXCEPT ![gen][w] = NewMerger]
                    ELSE merger
      /\ receiver' = [receiver EXCEPT !.pc = "accept"]
      /\ UNCHANGED <<queryBuffer, scanned, delivered, reading, fault>>
------------------------------------------------------------------------------
(* mergeResult: the thread <<g, w>> was started for w in the query's g-th     *)
(* buffer; it looks the work buffer up by the ids again.                      *)

MergerLookup(g, w) ==
  /\ merger[g][w].pc = "start"
  /\ Found(w)
  /\ merger' = [merger EXCEPT ![g][w].pc = "pop", ![g][w].ptr = gen]
  /\ UNCHANGED <<queryBuffer, buf, scanned, receiver, delivered, reading, fault>>

\* work_buffer_queue.wait_and_pop(); see InternalQueue.
PopResult(g, w) ==
  /\ merger[g][w].pc = "pop"
  /\ Valid(merger[g][w].ptr)
  /\ buf[w].queue # <<>>
  /\ merger' = [merger EXCEPT ![g][w].pc = "merge", ![g][w].item = Head(buf[w].queue)]
  /\ buf' = [buf EXCEPT ![w].queue = Tail(@)]
  /\ UNCHANGED <<queryBuffer, scanned, receiver, delivered, reading, fault>>

\* Take `mu', append the rows, add the blocks, and read scanned_row_count.
MergeResult(g, w) ==
  LET r == merger[g][w].item
      b == buf[w]
  IN  /\ merger[g][w].pc = "merge"
      /\ Valid(merger[g][w].ptr)
      /\ ~ Locked(w)
      /\ buf' = [buf EXCEPT ![w] = [b EXCEPT !.rows = @ \o RowsOf(r),
                                            !.merged = @ + Cardinality(Blocks[r]),
                                            !.got = @ \cup {r}]]
      /\ merger' = [merger EXCEPT ![g][w].pc = "count", ![g][w].loaded = scanned]
      /\ UNCHANGED <<queryBuffer, scanned, receiver, delivered, reading, fault>>

\* Faulty variant: the count is set instead of added to.
CountedLast(m) == Scanned[m.item]

\* The sum that goes back into scanned_row_count.
Counted(m) == m.loaded + Scanned[m.item]

\* Faulty variant: a drained queue is taken for the end of the work.
DrainedMeansMerged(b) == b.queue = <<>>

AllMerged(b) == b.merged = b.total

\* Write scanned_row_count back, notify, and finish when every block is merged.
CountResult(g, w) ==
  LET done == AllMerged(buf[w])
      woken == Notified(w, done)
  IN  /\ merger[g][w].pc = "count"
      /\ Valid(merger[g][w].ptr)
      /\ scanned' = Counted(merger[g][w])
      /\ buf' = [buf EXCEPT ![w].status = IF done THEN "WorkDone" ELSE @]
      /\ merger' = [merger EXCEPT ![g][w] =
                     [@ EXCEPT !.pc = IF done THEN "done" ELSE "pop",
                                !.item = <<>>, !.loaded = 0]]
      /\ pc' = [t \in Reader |-> IF t \in woken THEN "woken" ELSE pc[t]]
      /\ UNCHANGED <<queryBuffer, receiver, delivered, call, ptr, index, whole,
                     streamed, early, answer, fault>>
------------------------------------------------------------------------------
(* The readers: a thread per merging work, started by the Aggregation call,   *)
(* and the thread of GetQueryResult.  Each read is initializeBuffer, for a     *)
(* read by name the poll for the name, the lookup, and the section under `mu'. *)

RunSnippetWork(w) ==
  /\ pc[w] = "idle"
  /\ InitializeBuffer({w})
  /\ pc' = [pc EXCEPT ![w] = "begin"]
  /\ UNCHANGED <<receiver, delivered, merger, call, ptr, index, whole, streamed,
                 answer, early, fault>>

\* A merging work names its table, so it passes the work id -1.
BeginRead(w) ==
  /\ pc[w] = "begin"
  /\ InitializeBuffer({})
  /\ pc' = [pc EXCEPT ![w] = "poll"]
  /\ UNCHANGED <<receiver, delivered, merger, call, ptr, index, whole, streamed,
                 answer, early, fault>>

\* The loop that sleeps 100 ms at a time until the name is there.
FindName(w) ==
  /\ pc[w] = "poll"
  /\ live
  /\ Target(w) \in named
  /\ pc' = [pc EXCEPT ![w] = "lookup"]
  /\ UNCHANGED <<queryBuffer, buf, scanned, receiver, delivered, merger, call, ptr,
                 index, whole, streamed, answer, early, fault>>

GetQueryResult ==
  /\ pc[Client] = "idle"
  /\ InitializeBuffer({Final})
  /\ pc' = [pc EXCEPT ![Client] = "lookup"]
  /\ UNCHANGED <<receiver, delivered, merger, call, ptr, index, whole, streamed,
                 answer, early, fault>>

ReaderLookup(t) ==
  /\ pc[t] = "lookup"
  /\ Found(Target(t))
  /\ ptr' = [ptr EXCEPT ![t] = gen]
  /\ pc' = [pc EXCEPT ![t] = "lock"]
  /\ UNCHANGED <<queryBuffer, buf, scanned, receiver, delivered, merger, call,
                 index, whole, streamed, answer, early, fault>>

\* Reader t holds the `mu' of its table.
Enters(t) ==
  /\ pc[t] \in {"lock", "woken"}
  /\ Valid(ptr[t])
  /\ ~ Locked(Target(t))

\* getFinishedTableData: the status is tested once, before the wait.
WaitWorkDone(t) ==
  /\ call[t] = "whole"
  /\ pc[t] = "lock"
  /\ Enters(t)
  /\ buf[Target(t)].status # "WorkDone"
  /\ pc' = [pc EXCEPT ![t] = "wait"]
  /\ UNCHANGED <<queryBuffer, buf, scanned, receiver, delivered, merger, call, ptr,
                 index, whole, streamed, answer, early, fault>>

GetFinishedTableData(t) ==
  LET b == buf[Target(t)]
  IN  /\ call[t] = "whole"
      /\ Enters(t)
      /\ pc[t] = "woken" \/ b.status = "WorkDone"
      /\ whole' = [whole EXCEPT ![t] = b.rows]
      /\ early' = IF b.status = "WorkDone" THEN early ELSE early \cup {t}
      /\ \/ /\ t = Client
            /\ answer' = [status |-> b.status, rows |-> b.rows, scanned |-> scanned]
            /\ pc' = [pc EXCEPT ![t] = "end"]
            /\ UNCHANGED call
         \/ /\ t # Client
            /\ Streamed[t] = NoWork
            /\ pc' = [pc EXCEPT ![t] = "save"]
            /\ UNCHANGED <<call, answer>>
         \/ /\ t # Client
            /\ Streamed[t] # NoWork
            /\ pc' = [pc EXCEPT ![t] = "begin"]
            /\ call' = [call EXCEPT ![t] = "stream"]
            /\ UNCHANGED answer
      /\ UNCHANGED <<queryBuffer, buf, scanned, receiver, delivered, merger, ptr,
                     index, streamed, fault>>

\* getTableData waits while there is less than a batch of new rows and the
\* table is unfinished, whatever woke it up.
EnoughRows(t) ==
  LET b == buf[Streamed[t]]
  IN  Len(b.rows) >= index[t] + BatchRows \/ b.status = "WorkDone"

WaitWorkInProgress(w) ==
  /\ call[w] = "stream"
  /\ Enters(w)
  /\ ~ EnoughRows(w)
  /\ pc' = [pc EXCEPT ![w] = "wait"]
  /\ UNCHANGED <<queryBuffer, buf, scanned, receiver, delivered, merger, call, ptr,
                 index, whole, streamed, answer, early, fault>>

\* Faulty variant: each pass starts again at the first row.
NewRowsFromStart(w) == buf[Streamed[w]].rows

\* The rows of the snapshot from row_index on, which a join by an equal filter goes over.
\* Without one InnerJoin_hash goes over the whole snapshot in every pass: see JoinWork.
NewRows(w) == SubSeq(buf[Streamed[w]].rows, index[w] + 1, Len(buf[Streamed[w]].rows))

\* The snapshot that getTableData returns and the pass of the join loop over the
\* rows from row_index on; the loop ends with a finished table.
GetTableData(w) ==
  LET b == buf[Streamed[w]]
  IN  /\ call[w] = "stream"
      /\ Enters(w)
      /\ EnoughRows(w)
      /\ streamed' = [streamed EXCEPT ![w] = @ \o NewRows(w)]
      /\ index' = [index EXCEPT ![w] = Len(b.rows)]
      /\ pc' = [pc EXCEPT ![w] = IF b.status = "WorkDone" THEN "save" ELSE "begin"]
      /\ UNCHANGED <<queryBuffer, buf, scanned, receiver, delivered, merger, call, ptr,
                     whole, answer, early, fault>>

SpuriousWakeup(t) ==
  /\ SpuriousWakeups
  /\ pc[t] = "wait"
  /\ Valid(ptr[t])
  /\ pc' = [pc EXCEPT ![t] = "woken"]
  /\ UNCHANGED <<queryBuffer, buf, scanned, receiver, delivered, merger, call, ptr,
                 index, whole, streamed, answer, early, fault>>
------------------------------------------------------------------------------
(* saveTableData, at the end of RunSnippetWork.                               *)

SaveLookup(w) ==
  /\ pc[w] = "save"
  /\ Found(w)
  /\ ptr' = [ptr EXCEPT ![w] = gen]
  /\ pc' = [pc EXCEPT ![w] = "store"]
  /\ UNCHANGED <<queryBuffer, buf, scanned, receiver, delivered, merger, call,
                 index, whole, streamed, answer, early, fault>>

\* Faulty variant: the offset is left out.
LimitedFromFirst(rows, limit) ==
  IF limit.length # 0 /\ limit.length <= Len(rows) THEN SubSeq(rows, 1, limit.length) ELSE rows

\* The limit clause keeps the rows from `offset' up to `length', unless the
\* table is shorter than `length': then it is kept as it is.
Limited(rows, limit) ==
  IF limit.length # 0 /\ limit.length <= Len(rows)
  THEN SubSeq(rows, limit.offset + 1, limit.length)
  ELSE rows

\* Faulty variant: the streamed table does not reach the output.
OutputWholeOnly(w) == Limited(whole[w], Limit[w])

\* The lineage of the table that merging work w saves.
Output(w) == Limited(whole[w] \o streamed[w], Limit[w])

SaveTableData(w) ==
  /\ pc[w] = "store"
  /\ Valid(ptr[w])
  /\ buf' = [buf EXCEPT ![w] = [@ EXCEPT !.status = "WorkDone",
                                        !.rows = Output(w)]]
  /\ named' = named \cup {w}
  /\ pc' = [t \in Reader |-> IF t = w THEN "done"
                             ELSE IF t \in Notified(w, TRUE) THEN "woken" ELSE pc[t]]
  /\ UNCHANGED <<gen, live, allocated, scanned, receiver, delivered, merger, call, ptr,
                 index, whole, streamed, answer, early, fault>>

\* Faulty variants: the entry is deleted but not erased from the map, and the
\* map of names is not emptied.
EndQueryNotErased ==
  /\ pc[Client] = "end"
  /\ pc' = [pc EXCEPT ![Client] = "done"]
  /\ UNCHANGED <<queryBuffer, buf, scanned, receiver, delivered, merger, call, ptr,
                 index, whole, streamed, answer, early, fault>>

EndQueryKeepsNames ==
  /\ pc[Client] = "end"
  /\ live' = FALSE
  /\ allocated' = {}
  /\ pc' = [pc EXCEPT ![Client] = "done"]
  /\ UNCHANGED <<gen, named, buf, scanned, receiver, delivered, merger, call, ptr,
                 index, whole, streamed, answer, early, fault>>

\* endQuery deletes the query buffer with all its work buffers, under no lock.
EndQuery ==
  /\ pc[Client] = "end"
  /\ live' = FALSE
  /\ allocated' = {}
  /\ named' = {}
  /\ pc' = [pc EXCEPT ![Client] = "done"]
  /\ UNCHANGED <<gen, buf, scanned, receiver, delivered, merger, call, ptr, index,
                 whole, streamed, answer, early, fault>>
------------------------------------------------------------------------------
(* A lookup that finds nothing and a pointer into a deleted buffer: what comes *)
(* after is undefined, and the model stops there.                              *)

ReaderFault(t) ==
  /\ \/ pc[t] = "poll" /\ ~ live /\ fault' = "null"
     \/ pc[t] = "lookup" /\ ~ Found(Target(t)) /\ fault' = "null"
     \/ pc[t] = "save" /\ ~ Found(t) /\ fault' = "null"
     \/ pc[t] \in {"lock", "wait", "woken", "store"} /\ ~ Valid(ptr[t]) /\ fault' = "freed"
  /\ UNCHANGED <<queryBuffer, buf, scanned, receiver, delivered, merger, reading>>

ReceiverFault ==
  /\ \/ receiver.pc = "lookup" /\ ~ Found(WorkOf[receiver.item]) /\ fault' = "null"
     \/ receiver.pc = "push" /\ ~ Valid(receiver.ptr) /\ fault' = "freed"
  /\ UNCHANGED <<queryBuffer, buf, scanned, receiver, delivered, merger, reading>>

MergerFault(g, w) ==
  /\ \/ merger[g][w].pc = "start" /\ ~ Found(w) /\ fault' = "null"
     \/ /\ merger[g][w].pc \in {"pop", "merge", "count"}
        /\ ~ Valid(merger[g][w].ptr)
        /\ fault' = "freed"
  /\ UNCHANGED <<queryBuffer, buf, scanned, receiver, delivered, merger, reading>>
------------------------------------------------------------------------------
ReceiverStep ==
  /\ fault = "none"
  /\ (\E r \in Result : Receive(r)) \/ ReceiverLookup \/ PushResult \/ ReceiverFault

MergerStep(g, w) ==
  /\ fault = "none"
  /\ \/ MergerLookup(g, w) \/ PopResult(g, w) \/ MergeResult(g, w) \/ CountResult(g, w)
     \/ MergerFault(g, w)

WorkerStep(w) ==
  /\ fault = "none"
  /\ \/ RunSnippetWork(w) \/ BeginRead(w) \/ FindName(w) \/ ReaderLookup(w)
     \/ WaitWorkDone(w) \/ GetFinishedTableData(w)
     \/ WaitWorkInProgress(w) \/ GetTableData(w)
     \/ SaveLookup(w) \/ SaveTableData(w) \/ ReaderFault(w)

ClientStep ==
  /\ fault = "none"
  /\ \/ GetQueryResult \/ ReaderLookup(Client) \/ WaitWorkDone(Client)
     \/ GetFinishedTableData(Client) \/ EndQuery \/ ReaderFault(Client)

\* The query is over, or the process has failed.
Over == pc[Client] = "done" \/ fault # "none"

Next ==
  \/ ReceiverStep
  \/ \E g \in Generation, w \in ScanWork : MergerStep(g, w)
  \/ \E w \in MergeWork : WorkerStep(w)
  \/ ClientStep
  \/ fault = "none" /\ \E t \in Reader : SpuriousWakeup(t)
  \/ Over /\ UNCHANGED vars

\* The threads are scheduled, every CSD sends its results and every snippet of
\* the stream is handed over; a wait need not return spuriously.
Fairness ==
  /\ WF_vars(ReceiverStep)
  /\ \A g \in Generation, w \in ScanWork : WF_vars(MergerStep(g, w))
  /\ \A w \in MergeWork : WF_vars(WorkerStep(w))
  /\ WF_vars(ClientStep)

Spec == Init /\ [][Next]_vars /\ Fairness
------------------------------------------------------------------------------
TypeOK ==
  /\ gen \in 0..2
  /\ live \in BOOLEAN
  /\ allocated \subseteq Work
  /\ named \subseteq allocated
  /\ buf \in [Work -> WorkBuffer]
  /\ scanned \in Nat
  /\ receiver \in [pc : {"accept", "lookup", "push"}, ptr : 0..2, item : Result \cup {<<>>}]
  /\ receiver.pc # "accept" => receiver.item \in Result
  /\ delivered \subseteq Result
  /\ merger \in [Generation -> [ScanWork -> MergeThread]]
  /\ \A g \in Generation, w \in ScanWork :
       merger[g][w].pc \in {"merge", "count"} => merger[g][w].item \in Result
  /\ pc \in [Reader -> {"idle", "begin", "poll", "lookup", "lock", "wait", "woken",
                         "save", "store", "end", "done"}]
  /\ call \in [Reader -> {"whole", "stream"}]
  /\ ptr \in [Reader -> 0..2]
  /\ index \in [Reader -> Nat]
  /\ whole \in [Reader -> Seq(Row)]
  /\ streamed \in [Reader -> Seq(Row)]
  /\ answer \in [status : Status \cup {"none"}, rows : Seq(Row), scanned : Nat]
  /\ early \subseteq Reader
  /\ fault \in {"none", "null", "freed"}

AllRows(w) == UNION {Range(RowsOf(r)) : r \in ResultsOf(w)}

\* The sequence holds every row of the set, once.
HoldsOnce(rows, S) == Range(rows) = S /\ Len(rows) = Cardinality(S)

\* A scan work's table that mergeResult marks WorkDone holds every row of every
\* result, once; all results were merged and none is left in the queue
\* (buffer_manager.cc:388-409).
DoneIsComplete ==
  live => \A w \in ScanWork \cap allocated : buf[w].status = "WorkDone" =>
            /\ HoldsOnce(buf[w].rows, AllRows(w))
            /\ buf[w].got = ResultsOf(w)
            /\ buf[w].queue = <<>>

\* getFinishedTableData returns finished tables only (buffer_manager.cc:490-535).
NoEarlyRead == early = {}

\* The loop over getTableData passes over each row of the table it streams once
\* and in order, however the table is cut into batches (buffer_manager.cc:469).
StreamExactlyOnce ==
  (live /\ gen = 1) => \A w \in MergeWork :
    /\ call[w] = "stream" => streamed[w] = SubSeq(buf[Streamed[w]].rows, 1, index[w])
    /\ (call[w] = "stream" /\ pc[w] \in {"save", "store", "done"}) =>
          /\ buf[Streamed[w]].status = "WorkDone"
          /\ index[w] = Len(buf[Streamed[w]].rows)

\* Every table of the plan is read, directly or not, to make the last one: a set
\* of works that holds the last one and what its works read is all of them.
LeadsToFinal ==
  \A S \in SUBSET Work :
    /\ Final \in S
    /\ \A w \in S \cap MergeWork : {Whole[w], Streamed[w]} \ {NoWork} \subseteq S
    => S = Work

\* Each table of the plan is read once: by one work, as one of its two inputs.
ReadsOnce ==
  /\ \A w \in MergeWork : Whole[w] # Streamed[w]
  /\ \A v, w \in MergeWork :
       v # w => {Whole[v], Streamed[v]} \cap {Whole[w], Streamed[w]} \subseteq {NoWork}

\* endQuery pulls the buffers from under no thread as long as nobody was handed
\* an unfinished table (buffer_manager.cc:433-440).
FaultOnlyAfterEarlyRead == fault # "none" => early # {}

\* Without limit clauses, and with a plan that reads each table once, the answer
\* is made of every row the CSDs found, each once, through every merging work.
AnswerComplete ==
  /\ answer.status # "none"
  /\ early = {}
  /\ \A w \in MergeWork : Limit[w].length = 0
  => HoldsOnce(answer.rows, UNION {AllRows(w) : w \in ScanWork})

\* No late result or thread brings a query's buffer back to life: once the query
\* is answered, its memory stays reclaimed.
BufferReclaimed == pc[Client] = "done" /\ early = {} => ~ live

\* The rows the CSDs went over for a set of results, as identities too.
ScannedRows(S) == UNION {{r} \X (1..Scanned[r]) : r \in S}

ScannedTotal == Cardinality(ScannedRows(Result))

\* With a single scan work nothing is lost: the count reported is exact.
ScannedExact ==
  /\ answer.status # "none"
  /\ early = {}
  /\ Cardinality(ScanWork) = 1
  => answer.scanned = ScannedTotal

\* While the query lasts a table only grows at its end, and not after WorkDone.
TablesOnlyGrow ==
  [][live /\ live' /\ gen' = gen => \A w \in allocated :
       /\ IsPrefix(buf[w].rows, buf'[w].rows) \/ w \in MergeWork
       /\ buf[w].status = "WorkDone" => /\ buf'[w].status = "WorkDone"
                                        /\ buf'[w].rows = buf[w].rows]_vars

\* How long the tables of the plan are: a limit clause leaves length - offset rows, but
\* a table of fewer rows than `length' as it is, the first `offset' ones included.
Sized(n) ==
  /\ \A w \in ScanWork : n[w] = Cardinality(AllRows(w))
  /\ \A w \in MergeWork :
       LET read == n[Whole[w]] + (IF Streamed[w] = NoWork THEN 0 ELSE n[Streamed[w]])
       IN  n[w] = IF Limit[w].length \in 1..read THEN Limit[w].length - Limit[w].offset ELSE read

\* With limit clauses and a plan that reads each table once: the answer has as many rows
\* as the CSDs found, less what each work on the way to the last one cuts from the tables
\* it reads, and each is a row found and there once (buffer_manager.cc:537-593).
AnswerCutAsPlanned ==
  answer.status # "none" /\ early = {} =>
    LET found == UNION {AllRows(w) : w \in ScanWork}
    IN  /\ \E n \in [Work -> 0..Cardinality(found)] : Sized(n) /\ Len(answer.rows) = n[Final]
        /\ Range(answer.rows) \subseteq found
        /\ HoldsOnce(answer.rows, Range(answer.rows))

\* Until the query buffer is gone, a table's rows; the map to the plan.
Plan == INSTANCE QueryPlan WITH
  PlanWorks <- Work,
  Inputs <- [w \in Work |-> IF w \in ScanWork THEN {}
                            ELSE {Whole[w], Streamed[w]} \ {NoWork}],
  RowsFound <- [w \in ScanWork |-> AllRows(w)],
  Cut <- {w \in MergeWork : Limit[w].length # 0},
  LastWork <- Final,
  table <- [w \in Work |-> Range(buf[w].rows)],
  finished <- {w \in Work : buf[w].status = "WorkDone"},
  answered <- answer.status # "none",
  reply <- Range(answer.rows)

\* Threads, queues, batches and condition variables together carry out the plan:
\* every table is finished from finished inputs, and the query is answered once,
\* with the finished table of its last work.
ImplementsPlan == Plan!PlanSpec

\* GetQueryResult returns: no wakeup is lost between the merge threads, the
\* merging works and the client.
QueryAnswered == <>Over
==============================================================================
