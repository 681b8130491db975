------------------------------- MODULE TmaxQuery -------------------------------
(***************************************************************************)
(* The other way through the engine, for Tmax's database: keti_send_snippet      *)
(* (src/storage_engine_interface/storage_engine_interface.cc) hands a request to  *)
(* offload files to the offloading module, which sends one snippet per file to    *)
(* the CSD that a fixed map names (t_snippet_scheduling, t_offloading_snippet,     *)
(* src/offloading_module/snippet_scheduler.cc), and a request to fetch to the      *)
(* merging module, which hands out the chunks that the CSDs sent back              *)
(* (t_buffer_manager_interface, t_result_merging, t_get_result,                   *)
(* src/merging_module/buffer_manager.cc), a chunk per call.                       *)
(*                                                                           *)
(* Every call has a thread of its own.  A chunk's bytes do not matter; it is the   *)
(* chunk it was asked as: its file's place in the request, and its own place.      *)
(* How a connection to the receiving thread fails is ResultReceiver's; here it    *)
(* either brings its chunk, brings it empty, or takes the thread with it.         *)
(***************************************************************************)
EXTENDS Naturals, Sequences, FiniteSets, SequencesExt, Functions

CONSTANTS
  Id,         \* the requests to offload
  Files,      \* [Id -> sequence of [name, chunks]]: file_list, with so many chunks each
  FileCsdMap, \* the file names in file_csd_map
  Fetch,      \* the calls to fetch
  IdOf,       \* [Fetch -> Id]
  OtherType,  \* the calls that reach the merging module with another type
  MaxFaults   \* bound: failures and spurious wakeups in a behaviour

ASSUME TmaxAssumption ==
  /\ Files \in [Id -> Seq([name : STRING, chunks : Nat])]
  /\ IdOf \in [Fetch -> Id]
  /\ OtherType \subseteq Fetch
  /\ MaxFaults \in Nat

VARIABLES
  next,      \* per request: the file to offload next, 0 before the call
  code,      \* per request: the error code of the response, "none" before it
  inbox,     \* the snippets that CSDs have
  underway,  \* the results that CSDs have sent and the receiver has not taken
  receiver,  \* the receiving thread: "accept" or "lost"
  chunks,    \* per request: chunk_buffer
  pc,        \* per fetch: "idle", "called", "wait", "woken", "done" or "undefined"
  taken,     \* per fetch: the chunk it took, as a sequence of one
  gone,      \* the fetches whose caller does not wait any more
  returned,  \* the fetches whose chunk reached the caller
  received,  \* history: the results pushed
  faulty,    \* history: the requests for which something failed
  faults

offloading == <<next, code, inbox>>
merging == <<underway, receiver, chunks, received>>
fetching == <<pc, taken, gone, returned>>
vars == <<offloading, merging, fetching, faulty, faults>>

Positions(id) == DOMAIN Files[id]
Name(id, i) == Files[id][i].name
Known(id, i) == Name(id, i) \in FileCsdMap

Init ==
  /\ next = [id \in Id |-> 0]
  /\ code = [id \in Id |-> "none"]
  /\ inbox = {}
  /\ underway = {}
  /\ receiver = "accept"
  /\ chunks = [id \in Id |-> <<>>]
  /\ pc = [f \in Fetch |-> "idle"]
  /\ taken = [f \in Fetch |-> <<>>]
  /\ gone = {}
  /\ returned = {}
  /\ received = {}
  /\ faulty = {}
  /\ faults = 0

Works == UNCHANGED <<faulty, faults>>

Fails(id) ==
  /\ faults < MaxFaults
  /\ faults' = faults + 1
  /\ faulty' = faulty \cup {id}
------------------------------------------------------------------------------
(* Offloading.                                                                *)

\* Faulty variant: the first file is passed over.
SendSnippetFromSecond(id) ==
  /\ next[id] = 0
  /\ next' = [next EXCEPT ![id] = 2]
  /\ Works
  /\ UNCHANGED <<code, inbox, merging, fetching>>

SendSnippet(id) ==
  /\ next[id] = 0
  /\ next' = [next EXCEPT ![id] = 1]
  /\ Works
  /\ UNCHANGED <<code, inbox, merging, fetching>>

\* Faulty variant: the chunks of every file are listed.
ChunkListOfAll(id, i) == UNION {{j} \X (1..Files[id][j].chunks) : j \in Positions(id)}

\* The chunk list of a snippet: those of every file of that name in the request.
ChunkList(id, i) ==
  UNION {{j} \X (1..Files[id][j].chunks) : j \in {k \in Positions(id) : Name(id, k) = Name(id, i)}}

\* t_offloading_snippet: what connect and send return is not looked at.
OffloadFile(id) ==
  LET i == next[id]
  IN  /\ i \in Positions(id)
      /\ Known(id, i)
      /\ next' = [next EXCEPT ![id] = i + 1]
      /\ \/ inbox' = inbox \cup {<<id, i>>} /\ Works
         \/ UNCHANGED inbox /\ Fails(id)
      /\ UNCHANGED <<code, merging, fetching>>

\* The end of the list, or a name that is not in the map: t_snippet_scheduling returns.  It
\* sets the error code of a copy, and the caller gets the response as it was made.
Respond(id) ==
  LET i == next[id]
  IN  /\ i # 0
      /\ code[id] = "none"
      /\ i \in Positions(id) => ~ Known(id, i)
      /\ code' = [code EXCEPT ![id] = "TMAX_ERROR_NONE"]
      /\ Works
      /\ UNCHANGED <<next, inbox, merging, fetching>>

\* A CSD reads the chunks of a snippet and sends each back; its code is not in this
\* repository.
CsdSends ==
  \E m \in inbox :
    /\ inbox' = inbox \ {m}
    /\ underway' = underway \cup {[id |-> m[1], by |-> m[2], chunk |-> c] : c \in ChunkList(m[1], m[2])}
    /\ Works
    /\ UNCHANGED <<next, code, receiver, chunks, received, fetching>>
------------------------------------------------------------------------------
(* Merging.                                                                   *)

Waiting(id) == {f \in Fetch : pc[f] = "wait" /\ IdOf[f] = id}

\* Faulty variant: one fetch is notified, and only when there was no chunk.
NotifiedOneIfEmpty(id) ==
  IF chunks[id] # <<>> \/ Waiting(id) = {} THEN {} ELSE {CHOOSE f \in Waiting(id) : TRUE}

\* notify_all.
Notified(id) == Waiting(id)

\* t_result_merging, in the critical section of the query's `mu'.
ResultMerging(r) ==
  /\ chunks' = [chunks EXCEPT ![r.id] = Append(@, r)]
  /\ received' = received \cup {r}
  /\ pc' = [f \in Fetch |-> IF f \in Notified(r.id) THEN "woken" ELSE pc[f]]

ReceiveResult ==
  /\ receiver = "accept"
  /\ \E r \in underway :
       /\ underway' = underway \ {r}
       /\ ResultMerging(r)
  /\ Works
  /\ UNCHANGED <<offloading, receiver, taken, gone, returned>>

\* The CSD breaks off: its text does not parse, or the thread is lost.
ReceiveFails ==
  /\ receiver = "accept"
  /\ \E r \in underway :
       /\ underway' = underway \ {r}
       /\ Fails(r.id)
  /\ \E now \in {"accept", "lost"} : receiver' = now
  /\ UNCHANGED <<offloading, chunks, received, fetching>>

CallFetch(f) ==
  /\ pc[f] = "idle"
  /\ pc' = [pc EXCEPT ![f] = "called"]
  /\ Works
  /\ UNCHANGED <<offloading, merging, taken, gone, returned>>

\* Faulty variants: the chunk stays; an empty buffer gives nothing.
PopBackKeeps(f) ==
  LET buffer == chunks[IdOf[f]]
  IN  /\ pc' = [pc EXCEPT ![f] = IF buffer = <<>> THEN "undefined" ELSE "done"]
      /\ taken' = [taken EXCEPT ![f] = IF buffer = <<>> THEN @ ELSE <<Last(buffer)>>]
      /\ UNCHANGED chunks

\* back() and pop_back().
PopBack(f) ==
  LET buffer == chunks[IdOf[f]]
  IN  IF buffer = <<>>
      THEN /\ pc' = [pc EXCEPT ![f] = "undefined"]
           /\ UNCHANGED <<chunks, taken>>
      ELSE /\ pc' = [pc EXCEPT ![f] = "done"]
           /\ taken' = [taken EXCEPT ![f] = <<Last(buffer)>>]
           /\ chunks' = [chunks EXCEPT ![IdOf[f]] = Front(@)]

\* Faulty variant: no fetch waits.
MustWaitNever(f) == FALSE

MustWait(f) == chunks[IdOf[f]] = <<>>

\* GetTmaxQueryResult makes no use of a chunk that it took for another type of request.
Returned(f) ==
  /\ returned' = IF pc'[f] = "done" /\ f \notin OtherType \cup gone THEN returned \cup {f} ELSE returned
  /\ UNCHANGED gone

\* t_get_result waits once, if there is nothing.
GetResult(f) ==
  /\ pc[f] = "called"
  /\ IF MustWait(f)
     THEN pc' = [pc EXCEPT ![f] = "wait"] /\ UNCHANGED <<chunks, taken>>
     ELSE PopBack(f)
  /\ Returned(f)
  /\ Works
  /\ UNCHANGED <<offloading, underway, receiver, received>>

\* After the wait it does not look again whether there is something.
GetResultWoken(f) ==
  /\ pc[f] = "woken"
  /\ PopBack(f)
  /\ Returned(f)
  /\ Works
  /\ UNCHANGED <<offloading, underway, receiver, received>>

SpuriousWakeup(f) ==
  /\ pc[f] = "wait"
  /\ pc' = [pc EXCEPT ![f] = "woken"]
  /\ Fails(IdOf[f])
  /\ UNCHANGED <<offloading, merging, taken, gone, returned>>

\* The interface's call fails: it answers with a response that nobody filled in, while the
\* thread of the merging module goes on.
CallFails(f) ==
  /\ pc[f] \in {"called", "wait", "woken"}
  /\ f \notin gone
  /\ gone' = gone \cup {f}
  /\ Fails(IdOf[f])
  /\ UNCHANGED <<offloading, merging, pc, taken, returned>>

\* A fetch took from an empty buffer: nothing the program does from then on is known.
Undefined == \E f \in Fetch : pc[f] = "undefined"
------------------------------------------------------------------------------
Offloading(id) == OffloadFile(id) \/ Respond(id)
Fetching(f) == GetResult(f) \/ GetResultWoken(f)

Next ==
  /\ ~ Undefined
  /\ \/ \E id \in Id : SendSnippet(id) \/ Offloading(id)
     \/ CsdSends \/ ReceiveResult \/ ReceiveFails
     \/ \E f \in Fetch : CallFetch(f) \/ Fetching(f) \/ SpuriousWakeup(f) \/ CallFails(f)

\* The threads run and the CSDs answer; the database need not call, and nothing need fail.
\* Nothing is ever done twice, so that one condition for all of them does.
Work ==
  /\ ~ Undefined
  /\ (\E id \in Id : Offloading(id)) \/ CsdSends \/ ReceiveResult \/ (\E f \in Fetch : Fetching(f))

Fairness == WF_vars(Work)

Spec == Init /\ [][Next]_vars /\ Fairness
------------------------------------------------------------------------------
\* Each chunk that came in is in the buffer of its query or has been taken by one fetch for
\* that query, and one that a caller did not get was taken for another type of request
\* or for a call that had failed (t_result_merging and t_get_result, buffer_manager.cc:604-645, merging_interface.cc:118-135).
EachChunkHandedOutOnce ==
  \A r \in received :
    LET takers == {f \in Fetch : taken[f] = <<r>>}
        held == {k \in DOMAIN chunks[r.id] : chunks[r.id][k] = r}
    IN  /\ Cardinality(takers) + Cardinality(held) = 1
        /\ \A f \in takers : IdOf[f] = r.id /\ f \in returned \cup OtherType \cup gone

\* No fetch waits beside a chunk: the check and the wait are one critical section, and
\* every chunk wakes every fetch that waits (buffer_manager.cc:622-640).
NobodyWaitsBesideAChunk == \A f \in Fetch : pc[f] = "wait" => chunks[IdOf[f]] = <<>>

\* A fetch takes from an empty buffer only after a spurious wakeup, or when another fetch
\* of the same query took the chunk that woke it (buffer_manager.cc:637-642).
EmptyTakeNeedsRival ==
  \A f \in Fetch : pc[f] = "undefined" =>
    \/ IdOf[f] \in faulty
    \/ \E g \in Fetch \ {f} : IdOf[g] = IdOf[f] /\ taken[g] # <<>>

\* What there will be to fetch: the files up to the first unknown name.
Offloaded(id) == {i \in Positions(id) : \A j \in 1..i : Known(id, j)}
SentFor(id, i) == {j \in Offloaded(id) : Name(id, j) = Name(id, i)}

\* Where a chunk may have got to.
Fetched(id, c) == {f \in Fetch : taken[f] # <<>> /\ taken[f][1].id = id /\ taken[f][1].chunk = c}
Held(id, c) == {k \in DOMAIN chunks[id] : chunks[id][k].chunk = c}

AllIn(id) ==
  /\ code[id] = "TMAX_ERROR_NONE"
  /\ \A m \in inbox : m[1] # id
  /\ \A r \in underway : r.id # id

\* What the fetches of a request took and what its buffer holds adds up to the request: a
\* chunk is there once for every place before the first unknown name at which its file's
\* name is listed - twice, if it is listed twice -, never more often, and no less often
\* once everything came in, unless something failed (snippet_scheduler.cc:312-330 and
\* 404-418, buffer_manager.cc:604-645).
ChunksComeAsNamed ==
  \A id \in Id : \A i \in Positions(id) : \A k \in 1..Files[id][i].chunks :
    LET came == Cardinality(Fetched(id, <<i, k>>)) + Cardinality(Held(id, <<i, k>>))
        named == Cardinality(SentFor(id, i))
    IN  /\ came <= named
        /\ AllIn(id) /\ id \notin faulty => came = named

\* A request is answered without an error, and the chunks of its files then come in, those
\* up to the first unknown name, unless something fails (snippet_scheduler.cc:286-330).
OffloadedFilesComeIn ==
  \A id \in Id : \A i \in Offloaded(id) : \A k \in 1..Files[id][i].chunks :
    code[id] = "TMAX_ERROR_NONE" ~>
      \/ \E r \in received : r.id = id /\ r.chunk = <<i, k>>
      \/ faulty # {} \/ Undefined

\* A fetch is answered once as many chunks came in as there are fetches for its query
\* (buffer_manager.cc:630-645).
FetchesAnswered ==
  \A f \in Fetch :
    LET rivals == {g \in Fetch : IdOf[g] = IdOf[f]}
        came == {r \in received : r.id = IdOf[f]}
    IN  pc[f] # "idle" /\ Cardinality(came) >= Cardinality(rivals) ~> pc[f] = "done" \/ Undefined
==============================================================================
