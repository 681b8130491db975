---------------------------- MODULE StorageEngine ----------------------------
(***************************************************************************)
(* The three programs together, for several queries at a time: the interface    *)
(* (src/storage_engine_interface) reads the snippets of a query from its        *)
(* stream and calls the offloading module for a scan, the merging module for    *)
(* anything else, and at the end asks the merging module for the table of the    *)
(* last snippet; the offloading module's one thread sends the scans to CSDs;     *)
(* the CSDs send their results to the one receiving thread of the merging        *)
(* module (ResultReceiver); the merging module puts tables together and answers.  *)
(*                                                                           *)
(* The messages are SnippetMessage's and the rows go through RowFormat.  What     *)
(* SnippetScheduler and BufferManager say in detail is one step here: an SST is   *)
(* read by some CSD that holds it, and a merged result adds to its table.  Work k  *)
(* of a query is its k-th snippet; the first is a scan, the others pass on the     *)
(* table of the work before.                                                   *)
(*                                                                           *)
(* The calls may fail, which is only logged; a connection to a CSD may, which is   *)
(* not even looked at; a CSD may break off.                                      *)
(***************************************************************************)
EXTENDS ResultReceiver, SnippetMessage, RowFormat

CONSTANTS
  Query, Csd,
  Stream,       \* [Query -> sequence of "scan" and "merge"]
  SstInfo,      \* [Query -> sequence of SSTs, as SnippetMessage has them]
  Rows,         \* [Query -> for each SST a sequence of rows of cells]
  Schema,       \* [column -> its type and length]
  Projections,  \* [Query -> what its scan returns]
  Hasty,        \* the connections that may be closed without the second "ok"
  Metric,       \* is the interface's log level METRIC?
  MaxFaults     \* bound: how many failures in a behaviour

Ssts(q) == DOMAIN SstInfo[q]
Holders(q, i) == Range(SstInfo[q][i].csds)
Whole(info, c) == info.listed[c] = <<>>

\* SSTs that Mixed tells apart are left to SnippetScheduler.
ASSUME EngineAssumption ==
  /\ Peer = Query \X Csd
  /\ Hasty \subseteq Peer
  /\ \A q \in Query : /\ Stream[q] \in Seq({"scan", "merge"}) \ {<<>>}
                      /\ \A k \in DOMAIN Stream[q] : Stream[q][k] = "scan" <=> k = 1
                      /\ IsFiniteSet(Ssts(q)) /\ DOMAIN Rows[q] = Ssts(q)
                      /\ \A i \in Ssts(q) : Holders(q, i) \in (SUBSET Csd) \ {{}}
                      /\ \A i, j \in Ssts(q) : \A c \in Csd :
                           /\ Whole(SstInfo[q][i], c) = Whole(SstInfo[q][j], c)
                           /\ SstInfo[q][i].part[c] = SstInfo[q][j].part[c]
  /\ Metric \in BOOLEAN
  /\ MaxFaults \in Nat

VARIABLES
  pc,        \* per query, the handler: "idle", "hung", "reading", "asking", "answered"
  position,  \* per query: the snippets read from the stream
  queue,     \* SnippetQueue_: the queries whose scan waits to be scheduled
  inbox,     \* the messages that reached a CSD
  started,   \* the merging works, as <<query, work>>, that have a thread
  waiting,   \* per query: work_buffer_queue of its scan, the results pushed and not merged
  merged,    \* per query: the results merged, in that order
  finished,  \* the works whose table is finished
  answer,    \* per query: its kind, and the results that its rows are of
  faulty,    \* history: the queries one of whose own calls or CSDs failed
  faults     \* how many failures so far

interface == <<pc, position, answer>>
modules == <<queue, inbox, started, waiting, merged, finished>>
vars == <<receiverVars, interface, modules, faulty, faults>>

NoAnswer == [kind |-> "none", results |-> <<>>]

Init ==
  /\ ReceiverInit
  /\ pc = [q \in Query |-> "idle"]
  /\ position = [q \in Query |-> 0]
  /\ queue = <<>>
  /\ inbox = {}
  /\ started = {}
  /\ waiting = [q \in Query |-> <<>>]
  /\ merged = [q \in Query |-> <<>>]
  /\ finished = {}
  /\ answer = [q \in Query |-> NoAnswer]
  /\ faulty = {}
  /\ faults = 0

\* Something of q's own fails.
Fails(q) ==
  /\ faults < MaxFaults
  /\ faults' = faults + 1
  /\ faulty' = faulty \cup {q}

Works == UNCHANGED <<faulty, faults>>
------------------------------------------------------------------------------
(* OffloadingQueryInterface: one call per query, each on a thread of its own.    *)

Start(q) ==
  /\ pc[q] = "idle"
  /\ pc' = [pc EXCEPT ![q] = "reading"]
  /\ Works
  /\ UNCHANGED <<receiverVars, position, answer, modules>>

\* SendQueryStatus waits for the answer of a monitor that took the connection.
StatusHangs(q) ==
  /\ Metric
  /\ pc[q] = "idle"
  /\ pc' = [pc EXCEPT ![q] = "hung"]
  /\ Fails(q)
  /\ UNCHANGED <<receiverVars, position, answer, modules>>

\* The next snippet, to the offloading module or the merging module; the connectors only
\* log that a call failed.
ReadSnippet(q) ==
  LET k == position[q] + 1
  IN  /\ pc[q] = "reading"
      /\ k \in DOMAIN Stream[q]
      /\ position' = [position EXCEPT ![q] = k]
      /\ \/ /\ Stream[q][k] = "scan"
            /\ queue' = Append(queue, q)
            /\ Works
            /\ UNCHANGED started
         \/ /\ Stream[q][k] = "merge"
            /\ started' = started \cup {<<q, k>>}
            /\ Works
            /\ UNCHANGED queue
         \/ /\ Fails(q)
            /\ UNCHANGED <<queue, started>>
      /\ UNCHANGED <<receiverVars, pc, answer, inbox, waiting, merged, finished>>

\* The stream is over: GetQueryResult is called with the last snippet that was read, or
\* with one that nobody filled in.
AskForResult(q) ==
  /\ pc[q] = "reading"
  /\ position[q] = Len(Stream[q])
  /\ pc' = [pc EXCEPT ![q] = "asking"]
  /\ Works
  /\ UNCHANGED <<receiverVars, position, answer, modules>>

\* Read fails too when the client goes away: the handler then asks for whatever it read last.
StreamBreaks(q) ==
  /\ pc[q] = "reading"
  /\ position[q] < Len(Stream[q])
  /\ pc' = [pc EXCEPT ![q] = "asking"]
  /\ Fails(q)
  /\ UNCHANGED <<receiverVars, position, answer, modules>>

\* A call that fails leaves the result as it was made, and is answered with that.
ResultFails(q) ==
  /\ pc[q] = "asking"
  /\ pc' = [pc EXCEPT ![q] = "answered"]
  /\ answer' = [answer EXCEPT ![q] = [kind |-> "failed", results |-> <<>>]]
  /\ Fails(q)
  /\ UNCHANGED <<receiverVars, position, modules>>

Answer(q) ==
  /\ pc[q] = "asking"
  /\ <<q, position[q]>> \in finished
  /\ pc' = [pc EXCEPT ![q] = "answered"]
  /\ answer' = [answer EXCEPT ![q] = [kind |-> "rows", results |-> merged[q]]]
  /\ Works
  /\ UNCHANGED <<receiverVars, position, modules>>
------------------------------------------------------------------------------
(* The offloading module and the CSDs.                                          *)

Columns == [q \in Query |-> ReturnColumns(Schema, Projections[q])]

Messages(q, best) ==
  {Serialize(q, SstInfo[q], Columns[q], c, {i \in Ssts(q) : best[i] = c}) : c \in Range(best)}

\* sendSnippetToCSD looks at no result of connect and send.
Schedule ==
  LET q == Head(queue)
  IN  /\ queue # <<>>
      /\ queue' = Tail(queue)
      /\ \E best \in [Ssts(q) -> Csd] :
           /\ \A i \in Ssts(q) : best[i] \in Holders(q, i)
           /\ \/ inbox' = inbox \cup Messages(q, best) /\ Works
              \/ \E m \in Messages(q, best) :
                   inbox' = inbox \cup (Messages(q, best) \ {m}) /\ Fails(q)
      /\ UNCHANGED <<receiverVars, interface, started, waiting, merged, finished>>

\* The message that the result on connection p answers.
MessageOf(p) == CHOOSE m \in inbox : <<m.snippet, m.csd>> = p

RowsIn(q, ssts) == FlattenSeq([i \in Ssts(q) |-> IF i \in ssts THEN Rows[q][i] ELSE <<>>])

\* Two units stand for any data.
DataOf(p) == IF RowsIn(p[1], MessageOf(p).ssts) = <<>> THEN 0 ELSE 2

CsdAnswers(p) ==
  /\ \E m \in inbox : <<m.snippet, m.csd>> = p
  /\ Connect(p, DataOf(p))
  /\ Works
  /\ UNCHANGED <<interface, modules>>

CsdContinues(p) ==
  /\ SendData(p) \/ (oks[p] = 2 /\ Finish(p))
  /\ Works
  /\ UNCHANGED <<interface, modules>>

\* A hasty one may close without the second "ok", but need not.
CsdFinishesEarly(p) ==
  /\ p \in Hasty
  /\ oks[p] < 2
  /\ Finish(p)
  /\ Works
  /\ UNCHANGED <<interface, modules>>

CsdBreaksOff(p) ==
  /\ BreakOff(p)
  /\ Fails(p[1])
  /\ UNCHANGED <<interface, modules>>
------------------------------------------------------------------------------
(* The merging module.                                                          *)

\* pushResult: a result that has come goes to the queue of its query's scan.
PushResult ==
  LET result == delivered'[Len(delivered')]
  IN  waiting' = IF delivered' = delivered THEN waiting
                 ELSE [waiting EXCEPT ![result.peer[1]] = Append(@, result)]

Receive ==
  /\ ReceiverThread
  /\ PushResult
  /\ Works
  /\ UNCHANGED <<interface, queue, inbox, started, merged, finished>>

\* The counts are those of blocks told apart by their SST, or by the result they come with.
TotalBlockCount(q) == Cardinality(UNION {WholeBlocks(SstInfo[q], i) : i \in Ssts(q)})

MergedBlockCount(results) ==
  Cardinality(UNION {{k} \X (1..MessageOf(results[k].peer).csd_block_count) : k \in DOMAIN results})

\* Faulty variant: the work is done when it has more blocks than there are.
WorkDoneBeyond(q, results) == MergedBlockCount(results) > TotalBlockCount(q)

WorkDone(q, results) == MergedBlockCount(results) = TotalBlockCount(q)

\* mergeResult, one result.
MergeResult(q) ==
  /\ waiting[q] # <<>>
  /\ merged' = [merged EXCEPT ![q] = Append(@, Head(waiting[q]))]
  /\ waiting' = [waiting EXCEPT ![q] = Tail(@)]
  /\ finished' = finished \cup (IF WorkDone(q, merged'[q]) THEN {<<q, 1>>} ELSE {})
  /\ Works
  /\ UNCHANGED <<receiverVars, interface, queue, inbox, started>>

\* RunSnippetWork: it waits for the table it reads.
RunSnippetWork(q, k) ==
  /\ <<q, k>> \in started \ finished
  /\ <<q, k - 1>> \in finished
  /\ finished' = finished \cup {<<q, k>>}
  /\ Works
  /\ UNCHANGED <<receiverVars, interface, queue, inbox, started, waiting, merged>>
------------------------------------------------------------------------------
Engine(q) ==
  \/ ReadSnippet(q) \/ AskForResult(q) \/ Answer(q) \/ MergeResult(q)
  \/ \E k \in DOMAIN Stream[q] : RunSnippetWork(q, k)

Csds == \E p \in Peer : CsdAnswers(p) \/ CsdContinues(p)

Next ==
  \/ \E q \in Query : \/ Start(q) \/ Engine(q)
                       \/ StatusHangs(q) \/ StreamBreaks(q) \/ ResultFails(q)
  \/ Schedule
  \/ Csds
  \/ \E p \in Peer : CsdFinishesEarly(p) \/ CsdBreaksOff(p)
  \/ Receive

\* The threads of the three programs run, and a CSD that does not fail goes on.
Fairness ==
  /\ \A q \in Query : WF_vars(Engine(q))
  /\ WF_vars(Schedule) /\ WF_vars(Csds) /\ WF_vars(Receive)

Spec == Init /\ [][Next]_vars /\ Fairness
------------------------------------------------------------------------------
SstsOf(r) == MessageOf(r.peer).ssts

\* A CSD is asked for as many blocks of an SST as the SST is counted with in the total, and
\* for one at least: then the counts add up to the total just when no SST is missing.
CountsAgree ==
  \A q \in Query : \A i \in Ssts(q) :
    /\ SstInfo[q][i].blocks \in Nat \ {0}
    /\ \A c \in Holders(q, i) :
         LET blocks == BlocksOf(SstInfo[q], i, c)
         IN  IsFiniteSet(blocks) /\ Cardinality(blocks) = SstInfo[q][i].blocks

\* An answer with rows has every SST once, whatever failed before it and whatever order the
\* results came in; only a CSD that broke off leaves one without its data (zeros take their
\* place), and only a failed call is answered with nothing
\* (storage_engine_interface.cc:69-114, buffer_manager.cc:82-95 and 388-404).
AnswerIsWhole ==
  \A q \in Query : pc[q] = "answered" =>
    \/ answer[q].kind = "failed" /\ q \in faulty
    \/ /\ answer[q].kind = "rows"
       /\ \A i \in Ssts(q) :
            Cardinality({k \in DOMAIN answer[q].results : i \in SstsOf(answer[q].results[k])}) = 1
       /\ \A r \in Range(answer[q].results) : r.missing = 0 \/ q \in faulty

\* The tables hold rows of what their columns are declared to hold, and so many columns.
RowsFit ==
  \A q \in Query :
    /\ SstInfo[q] \in Seq(Range(SstInfo[q]))
    /\ Columns[q] \in Seq(Range(Columns[q]))
    /\ \A i \in Ssts(q) :
         /\ Rows[q][i] \in Seq(Range(Rows[q][i]))
         /\ \A row \in Range(Rows[q][i]) :
              /\ DOMAIN row = DOMAIN Columns[q]
              /\ \A j \in DOMAIN row : CellFits(Columns[q][j], row[j])

\* The rows of some SSTs as they are printed are as they are stored.
ShownRight(q, ssts) ==
  LET rows == RowsIn(q, ssts)
      shown == Answered([i \in DOMAIN rows |-> EncodedRow(Columns[q], rows[i])], Columns[q])
  IN  \A i \in DOMAIN rows : RowShown(Columns[q], rows[i], shown[i])

ShownAsStored ==
  UNION {{<<q, ssts, ShownRight(q, ssts)>> : ssts \in SUBSET Ssts(q)} : q \in Query}

\* The rows of a result that came whole are printed as they are stored, cell by cell, but
\* for the cells that CellDeparts lists: what the offloading module declares in the message
\* is what the merging module cuts and decodes the rows by (snippet_manager.cc:163-255,
\* buffer_manager.cc:234-386 and 647-674, merging_module_connector.h:26-109).
AnswerShowsWhatIsStored ==
  \A q \in Query : \A r \in Range(answer[q].results) :
    r.missing = 0 => <<q, SstsOf(r), TRUE>> \in ShownAsStored

\* The thread that receives the results is lost for all queries only when a CSD breaks off
\* while it is served, and waits for the end of a connection only when a result is without
\* data (buffer_manager.cc:50-98).
ReceiverStopsOnlyFor ==
  /\ Lost => serving[1] \in faulty
  /\ WaitsForEnd => dataUnits[serving] = 0

\* A query is answered, however slow others are, unless it has a failure of its own or the
\* receiving thread is lost: to a CSD that broke off, or to one that wants an "ok" for a
\* result without data (storage_engine_interface.cc:69-114, buffer_manager.cc:82-95).
QueriesAnswered ==
  \/ <>[] WaitsForEnd
  \/ \A q \in Query : pc[q] # "idle" ~> pc[q] = "answered" \/ q \in faulty \/ Lost
==============================================================================
