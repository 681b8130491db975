------------------------- MODULE BufferManager_proofs -------------------------
(***************************************************************************)
(* The Buffer Manager for every plan and every set of results: its types,    *)
(* the life of the query's buffer that they rest on, what a finished table   *)
(* holds, and then, for plans as the DBMS makes them and as long as no reader *)
(* was handed an unfinished table: no thread uses a work buffer that is not   *)
(* there, what a join streams is its table, each step is one of QueryPlan or  *)
(* none, and the answer and the count given with it are complete.             *)
(***************************************************************************)
EXTENDS BufferManager, TLAPS, SequenceTheorems, FiniteSetTheorems

\* The query's buffer is made by the first thread that needs it, lives until the
\* client ends the query, and may be made once more by a late thread.
QueryLife ==
  /\ pc[Client] = "idle" => (gen = 0 /\ ~ live) \/ (gen = 1 /\ live)
  /\ pc[Client] \notin {"idle", "done"} => gen = 1 /\ live
  /\ pc[Client] = "done" => (gen = 1 /\ ~ live) \/ (gen = 2 /\ live)

\* No thread holds a pointer into a buffer that is not yet made.
PointersPast ==
  /\ receiver.ptr <= gen
  /\ \A t \in Reader : ptr[t] <= gen
  /\ \A g \in Generation, w \in ScanWork : merger[g][w].ptr <= gen

\* Only a merging work with a table to stream streams.
StreamCalls ==
  /\ call[Client] = "whole"
  /\ \A w \in MergeWork : call[w] = "stream" => Streamed[w] # NoWork

\* A pointer into the live buffer points to a work buffer of it.
PointersFound ==
  live =>
    /\ \A t \in Reader : (pc[t] \in {"lock", "wait", "woken"} /\ ptr[t] = gen)
                            => Target(t) \in allocated
    /\ \A w \in MergeWork : (pc[w] = "store" /\ ptr[w] = gen) => w \in allocated
    /\ \A g \in Generation, w \in ScanWork :
         (merger[g][w].pc \in {"pop", "merge", "count"} /\ merger[g][w].ptr = gen)
            => w \in allocated

\* The client is never where only a merging work can be, and the other way round.
Places ==
  /\ pc[Client] \notin {"begin", "poll", "save", "store"}
  /\ \A w \in MergeWork : pc[w] # "end"

LifeInv == TypeOK /\ QueryLife /\ PointersPast /\ StreamCalls /\ PointersFound /\ Places
------------------------------------------------------------------------------
(* Facts about the constants.                                                 *)

BlocksIn(S) == UNION {Blocks[r] : r \in S}

\* The blocks of a set of results can be counted (buffer_manager.cc:388).
LEMMA BlocksFinite ==
  ASSUME NEW S \in SUBSET Result
  PROVE  IsFiniteSet(BlocksIn(S)) /\ Cardinality(BlocksIn(S)) \in Nat
<1> DEFINE T == {Blocks[r] : r \in S}
           f == [r \in S |-> Blocks[r]]
<1>1. IsFiniteSet(S)
  BY ResultAssumption, FS_Subset
<1>2. f \in Surjection(S, T)
  BY DEF Surjection
<1>3. IsFiniteSet(T)
  BY <1>1, <1>2, FS_Surjection
<1>4. \A B \in T : IsFiniteSet(B)
  BY ResultAssumption
<1>5. IsFiniteSet(UNION T)
  BY <1>3, <1>4, FS_UNION
<1>6. QED
  BY <1>5, FS_CardinalityType DEF BlocksIn

\* The total that pushResult sets is a number (buffer_manager.cc:218).
LEMMA BlocksOfFinite ==
  ASSUME NEW w \in ScanWork
  PROVE  Cardinality(BlocksOf(w)) \in Nat
<1>1. ResultsOf(w) \in SUBSET Result
  BY DEF ResultsOf
<1>2. QED
  BY <1>1, BlocksFinite DEF BlocksIn, BlocksOf

\* What one result adds to merged_block_count is a number.
LEMMA BlockCount ==
  ASSUME NEW r \in Result
  PROVE  Cardinality(Blocks[r]) \in Nat
BY ResultAssumption, FS_CardinalityType

\* A result contributes its own rows, each once (buffer_manager.cc:234-386).
LEMMA RowsOfType ==
  ASSUME NEW r \in Result
  PROVE  /\ RowsOf(r) \in Seq(Row)
         /\ Len(RowsOf(r)) = RowCount[r]
         /\ Range(RowsOf(r)) = {r} \X (1..RowCount[r])
<1>1. RowCount[r] \in Nat
  BY ResultAssumption
<1>2. \A i \in 1..RowCount[r] : <<r, i>> \in Row
  BY DEF Row
<1>3. RowsOf(r) \in [1..RowCount[r] -> Row]
  BY <1>2 DEF RowsOf
<1>4. RowsOf(r) \in Seq(Row)
  BY <1>1, <1>3, SeqDef
<1>5. Len(RowsOf(r)) = RowCount[r]
  BY <1>1, <1>4, LenProperties DEF RowsOf
<1>6. Range(RowsOf(r)) = {<<r, i>> : i \in 1..RowCount[r]}
  BY DEF Range, RowsOf
<1>7. {<<r, i>> : i \in 1..RowCount[r]} = {r} \X (1..RowCount[r])
  OBVIOUS
<1>8. QED
  BY <1>4, <1>5, <1>6, <1>7

\* Readers are the merging works and the client; results are of scan works.
LEMMA PlanTypes ==
  /\ MergeWork \in SUBSET Work
  /\ ScanWork \in SUBSET Work
  /\ Client \notin Work
  /\ Client \in Reader
  /\ MergeWork \subseteq Reader
  /\ \A t \in Reader : t # Client => t \in MergeWork
  /\ \A r \in Result : WorkOf[r] \in ScanWork /\ r \in ResultsOf(WorkOf[r])
BY PlanAssumption, ResultAssumption DEF Reader, ScanWork, ResultsOf

\* Every read is of a table of the plan.
LEMMA TargetType ==
  ASSUME LifeInv, NEW t \in Reader
  PROVE  Target(t) \in Work
BY PlanAssumption, PlanTypes DEF LifeInv, TypeOK, StreamCalls, Target
------------------------------------------------------------------------------
(* The types.                                                                  *)

\* A work buffer just made is one (buffer_manager.h:164-172).
LEMMA EmptyBufferType == EmptyBuffer \in WorkBuffer
BY DEF EmptyBuffer, WorkBuffer, Status

\* So is a merge thread, started or not.
LEMMA NoMergerType == NoMerger \in MergeThread /\ NewMerger \in MergeThread
BY DEF NoMerger, NewMerger, MergeThread

\* A step of one merge thread changes that thread alone.
LEMMA MergerUpdate ==
  ASSUME merger \in [Generation -> [ScanWork -> MergeThread]],
         NEW h \in Generation, NEW v \in ScanWork, NEW m \in MergeThread,
         merger' = [merger EXCEPT ![h][v] = m]
  PROVE  /\ merger' \in [Generation -> [ScanWork -> MergeThread]]
         /\ \A g \in Generation, w \in ScanWork :
              merger'[g][w] = IF g = h /\ w = v THEN m ELSE merger[g][w]
<1>1. merger' = [merger EXCEPT ![h] = [merger[h] EXCEPT ![v] = m]]
  OBVIOUS
<1>2. merger[h] \in [ScanWork -> MergeThread]
  OBVIOUS
<1>3. [merger[h] EXCEPT ![v] = m] \in [ScanWork -> MergeThread]
  BY <1>2
<1>4. QED
  BY <1>1, <1>2, <1>3

\* The rows that a merging work saves are rows.
LEMMA LimitedType ==
  ASSUME NEW w \in MergeWork, NEW rows \in Seq(Row)
  PROVE  Limited(rows, Limit[w]) \in Seq(Row)
<1> DEFINE m == Limit[w].offset + 1
           n == Limit[w].length
<1>1. m \in Int /\ n \in Int /\ m >= 1
  BY PlanAssumption
<1>2. CASE n # 0 /\ n <= Len(rows)
  <2>1. \A i \in m..n : rows[i] \in Row
    BY <1>1, <1>2, ElementOfSeq, LenProperties
  <2>2. SubSeq(rows, m, n) \in Seq(Row)
    BY <1>1, <2>1, SubSeqProperties
  <2>3. QED
    BY <1>2, <2>2 DEF Limited
<1>3. CASE ~ (n # 0 /\ n <= Len(rows))
  BY <1>3 DEF Limited
<1>4. QED
  BY <1>2, <1>3

\* initializeBuffer makes the query's first buffer, or its second one after
\* endQuery, and keeps the types (buffer_manager.cc:414-431).
LEMMA BufferMade ==
  ASSUME LifeInv, NEW W \in SUBSET Work, InitializeBuffer(W)
  PROVE  /\ gen' \in 1..2 /\ live' = TRUE
         /\ live => gen' = gen /\ allocated \subseteq allocated'
         /\ ~ live => gen' = gen + 1
         /\ W \subseteq allocated' /\ allocated' \subseteq Work /\ named' \subseteq allocated'
         /\ live => \A w \in allocated : buf'[w] = buf[w]
         /\ buf' \in [Work -> WorkBuffer]
         /\ scanned' \in Nat
<1>1. gen \in 0..2 /\ live \in BOOLEAN /\ (live => gen \in 1..2) /\ (~ live => gen \in 0..1)
  BY DEF LifeInv, TypeOK, QueryLife
<1>2. buf \in [Work -> WorkBuffer] /\ scanned \in Nat /\ allocated \subseteq Work
      /\ named \subseteq allocated
  BY DEF LifeInv, TypeOK, WorkBuffer
<1>3. buf' \in [Work -> WorkBuffer]
  BY <1>2, EmptyBufferType DEF InitializeBuffer
<1>4. CASE live
  BY <1>1, <1>2, <1>3, <1>4 DEF InitializeBuffer, Missing
<1>5. CASE ~ live
  BY <1>1, <1>2, <1>3, <1>5 DEF InitializeBuffer, Missing
<1>6. QED
  BY <1>4, <1>5, <1>1

\* The invariant holds before the first request.
LEMMA LifeInit == Init => LifeInv
<1> SUFFICES ASSUME Init PROVE LifeInv
  OBVIOUS
<1>1. TypeOK
  <2>1. buf \in [Work -> WorkBuffer]
    BY EmptyBufferType DEF Init
  <2>2. merger \in [Generation -> [ScanWork -> MergeThread]]
    BY NoMergerType DEF Init
  <2>3. \A g \in Generation, w \in ScanWork : merger[g][w] = NoMerger
    BY DEF Init
  <2>4. QED
    <3>1. receiver \in [pc : {"accept", "lookup", "push"}, ptr : 0..2, item : Result \cup {<<>>}]
      BY DEF Init
    <3>2. answer \in [status : Status \cup {"none"}, rows : Seq(Row), scanned : Nat]
      BY EmptySeq DEF Init
    <3>3. \A g \in Generation, w \in ScanWork : merger[g][w].pc = "none"
      BY <2>3 DEF NoMerger
    <3>4. QED
      BY <2>1, <2>2, <3>1, <3>2, <3>3, EmptySeq DEF Init, TypeOK
<1>2. \A g \in Generation, w \in ScanWork : merger[g][w] = NoMerger
  BY DEF Init
<1>3. QED
  BY <1>1, <1>2, PlanTypes
     DEF Init, LifeInv, QueryLife, PointersPast, StreamCalls, PointersFound, Places, NoMerger
------------------------------------------------------------------------------
(* One lemma per thread: its steps preserve LifeInv.                          *)

\* The accept thread keeps the invariant (buffer_manager.cc:12-225).
LEMMA ReceiverLife ==
  ASSUME LifeInv, ReceiverStep
  PROVE  LifeInv'
<1> USE PlanTypes DEF LifeInv
<1>1. ASSUME NEW r \in Result, Receive(r) PROVE LifeInv'
  <2>1. /\ gen' \in 1..2 /\ live' = TRUE
        /\ live => gen' = gen /\ allocated \subseteq allocated'
        /\ ~ live => gen' = gen + 1
        /\ allocated' \subseteq Work /\ named' \subseteq allocated'
        /\ buf' \in [Work -> WorkBuffer]
        /\ scanned' \in Nat
    BY <1>1, BufferMade DEF Receive
  <2>2. receiver' = [pc |-> "lookup", ptr |-> 0, item |-> r] /\ delivered' = delivered \cup {r}
        /\ UNCHANGED <<merger, reading, fault>>
    BY <1>1 DEF Receive
  <2>3. TypeOK'
    BY <2>1, <2>2 DEF TypeOK, WorkBuffer, reading
  <2>4. QueryLife'
    BY <2>1, <2>2 DEF QueryLife, reading
  <2>5. PointersPast'
    <3>1. gen \in 0..2 /\ gen' \in 0..2 /\ gen <= gen'
      BY <2>1 DEF TypeOK
    <3>2. ptr \in [Reader -> 0..2] /\ UNCHANGED <<ptr, merger>> /\ receiver'.ptr = 0
      BY <2>2 DEF TypeOK, reading
    <3>3. \A g \in Generation, w \in ScanWork : merger[g][w].ptr \in 0..2
      BY DEF TypeOK, MergeThread
    <3>4. QED
      BY <3>1, <3>2, <3>3 DEF PointersPast
  <2>6. StreamCalls' /\ Places'
    BY <2>2 DEF StreamCalls, Places, reading
  <2>7. PointersFound'
    BY <2>1, <2>2 DEF PointersFound, PointersPast, TypeOK, reading, Target
  <2>8. QED
    BY <2>3, <2>4, <2>5, <2>6, <2>7
<1>2. ASSUME ReceiverLookup PROVE LifeInv'
  <2>1. UNCHANGED <<gen, live, allocated, named, buf, scanned, delivered, merger, pc, call,
                    ptr, index, whole, streamed, early, answer, fault>>
    BY <1>2 DEF ReceiverLookup, queryBuffer, reading
  <2>2. receiver' = [receiver EXCEPT !.pc = "push", !.ptr = gen] /\ receiver.pc = "lookup"
    BY <1>2 DEF ReceiverLookup
  <2>3. TypeOK'
    BY <2>1, <2>2 DEF TypeOK
  <2>4. QueryLife' /\ PointersPast' /\ StreamCalls' /\ Places' /\ PointersFound'
    BY <2>1, <2>2 DEF QueryLife, PointersPast, StreamCalls, Places, PointersFound, Target, TypeOK
  <2>5. QED
    BY <2>3, <2>4
<1>3. ASSUME PushResult PROVE LifeInv'
  <2> DEFINE r == receiver.item
             w == WorkOf[r]
             b == buf[w]
             new == [status |-> IF b.status = "Initialized" THEN "NotFinished" ELSE b.status,
                     rows |-> b.rows,
                     merged |-> b.merged,
                     total |-> IF b.status = "Initialized" THEN Cardinality(BlocksOf(w)) ELSE b.total,
                     queue |-> Append(b.queue, r),
                     got |-> b.got]
  <2>1. UNCHANGED <<gen, live, allocated, named, scanned, delivered, pc, call,
                    ptr, index, whole, streamed, early, answer, fault>>
    BY <1>3 DEF PushResult, queryBuffer, reading
  <2>2. r \in Result /\ w \in ScanWork /\ w \in Work /\ gen \in Generation
    BY <1>3, ResultAssumption DEF PushResult, TypeOK, QueryLife, Valid, Generation
  <2>3. b \in WorkBuffer
    BY <2>2 DEF TypeOK, WorkBuffer
  <2>4. Append(b.queue, r) \in Seq(Result) /\ Cardinality(BlocksOf(w)) \in Nat
    BY <2>2, <2>3, AppendProperties, BlocksOfFinite DEF WorkBuffer
  <2>5. new \in WorkBuffer
    BY <2>3, <2>4 DEF WorkBuffer, Status
  <2>6. buf' = [buf EXCEPT ![w] = new]
    BY <1>3 DEF PushResult
  <2>7. buf' \in [Work -> WorkBuffer]
    BY <2>2, <2>5, <2>6 DEF TypeOK, WorkBuffer
  <2>8. \/ merger' = merger
        \/ merger' = [merger EXCEPT ![gen][w] = NewMerger]
    BY <1>3 DEF PushResult
  <2>9. /\ merger' \in [Generation -> [ScanWork -> MergeThread]]
        /\ \A g \in Generation, v \in ScanWork :
             merger'[g][v] = merger[g][v] \/ merger'[g][v] = NewMerger
    <3>1. merger \in [Generation -> [ScanWork -> MergeThread]]
      BY DEF TypeOK
    <3>2. CASE merger' = merger
      BY <3>1, <3>2
    <3>3. CASE merger' = [merger EXCEPT ![gen][w] = NewMerger]
      BY <2>2, <3>1, <3>3, NoMergerType, MergerUpdate
    <3>4. QED
      BY <2>8, <3>2, <3>3
  <2>10. \A g \in Generation, v \in ScanWork :
           \/ merger'[g][v] = merger[g][v]
           \/ merger'[g][v].ptr = 0 /\ merger'[g][v].pc = "start"
    BY <2>9 DEF NewMerger
  <2>11. /\ receiver' \in [pc : {"accept", "lookup", "push"}, ptr : 0..2,
                           item : Result \cup {<<>>}]
         /\ receiver'.pc = "accept"
         /\ receiver'.ptr = receiver.ptr
    BY <1>3 DEF PushResult, TypeOK
  <2>12. TypeOK'
    <3>1. \A g \in Generation, v \in ScanWork :
             merger'[g][v].pc \in {"merge", "count"} => merger'[g][v].item \in Result
      <4> SUFFICES ASSUME NEW g \in Generation, NEW v \in ScanWork,
                          merger'[g][v].pc \in {"merge", "count"}
                   PROVE  merger'[g][v].item \in Result
        OBVIOUS
      <4>1. merger'[g][v] = merger[g][v]
        BY <2>10
      <4>2. QED
        BY <4>1 DEF TypeOK
    <3>2. QED
      BY <2>1, <2>7, <2>9, <2>11, <3>1 DEF TypeOK
  <2>13. PointersPast'
    BY <2>1, <2>10, <2>11 DEF PointersPast, TypeOK
  <2>14. PointersFound'
    BY <2>1, <2>10 DEF PointersFound, Target
  <2>15. QueryLife' /\ StreamCalls' /\ Places'
    BY <2>1 DEF QueryLife, StreamCalls, Places
  <2>16. QED
    BY <2>12, <2>13, <2>14, <2>15
<1>4. ASSUME ReceiverFault PROVE LifeInv'
  BY <1>4 DEF ReceiverFault, TypeOK, QueryLife, PointersPast, StreamCalls, Places,
              PointersFound, Target, queryBuffer, reading
<1>5. QED
  BY <1>1, <1>2, <1>3, <1>4 DEF ReceiverStep

\* What the steps of a merge thread have in common: the thread itself moves on,
\* some work buffer changes and some readers wake up.
LEMMA MergerMoves ==
  ASSUME LifeInv, NEW g \in Generation, NEW w \in ScanWork, NEW n \in MergeThread,
         merger' = [merger EXCEPT ![g][w] = n],
         n.pc \in {"merge", "count"} => n.item \in Result,
         n.ptr <= gen,
         (live /\ n.pc \in {"pop", "merge", "count"} /\ n.ptr = gen) => w \in allocated,
         UNCHANGED <<gen, live, allocated, named, receiver, delivered, call,
                     ptr, index, whole, streamed, early, answer, fault>>,
         buf' \in [Work -> WorkBuffer],
         scanned' \in Nat,
         pc' = [t \in Reader |-> pc'[t]],
         \A t \in Reader : pc'[t] = pc[t] \/ (pc[t] = "wait" /\ pc'[t] = "woken")
  PROVE  LifeInv'
<1> USE PlanTypes DEF LifeInv
<1>1. /\ merger' \in [Generation -> [ScanWork -> MergeThread]]
      /\ \A h \in Generation, v \in ScanWork :
            merger'[h][v] = IF h = g /\ v = w THEN n ELSE merger[h][v]
  BY MergerUpdate DEF TypeOK
<1>2. \A h \in Generation, v \in ScanWork :
         (h = g /\ v = w /\ merger'[h][v] = n) \/ merger'[h][v] = merger[h][v]
  BY <1>1
<1>3. \A h \in Generation, v \in ScanWork :
         merger'[h][v].pc \in {"merge", "count"} => merger'[h][v].item \in Result
  BY <1>2 DEF TypeOK
<1>4. pc' \in [Reader -> {"idle", "begin", "poll", "lookup", "lock", "wait", "woken",
                          "save", "store", "end", "done"}]
  BY DEF TypeOK
<1>5. TypeOK'
  BY <1>1, <1>3, <1>4 DEF TypeOK
<1>6. PointersPast'
  BY <1>2 DEF PointersPast
<1>7. PointersFound'
  BY <1>2 DEF PointersFound, Target
<1>8. QueryLife' /\ StreamCalls' /\ Places'
  BY DEF QueryLife, StreamCalls, Places
<1>9. QED
  BY <1>5, <1>6, <1>7, <1>8

\* A merge thread keeps the invariant (buffer_manager.cc:227-412).
LEMMA MergerLife ==
  ASSUME LifeInv, NEW g \in Generation, NEW w \in ScanWork, MergerStep(g, w)
  PROVE  LifeInv'
<1> DEFINE m == merger[g][w]
           b == buf[w]
<1>1. /\ TypeOK /\ PointersPast /\ PointersFound /\ w \in Work
      /\ m \in MergeThread /\ b \in WorkBuffer /\ m.ptr <= gen
      /\ pc = [t \in Reader |-> pc[t]]
  BY PlanTypes DEF LifeInv, TypeOK, PointersPast
<1>2. ASSUME MergerLookup(g, w) PROVE LifeInv'
  <2> DEFINE n == [m EXCEPT !.pc = "pop", !.ptr = gen]
  <2>1. n \in MergeThread /\ n.ptr = gen /\ n.pc = "pop" /\ w \in allocated
    BY <1>1, <1>2 DEF MergeThread, TypeOK, MergerLookup, Found
  <2>2. merger' = [merger EXCEPT ![g][w] = n]
    BY <1>2 DEF MergerLookup
  <2>3. UNCHANGED <<gen, live, allocated, named, buf, scanned, receiver, delivered, pc, call,
                    ptr, index, whole, streamed, early, answer, fault>>
    BY <1>2 DEF MergerLookup, queryBuffer, reading
  <2>4. n.ptr <= gen /\ buf' \in [Work -> WorkBuffer] /\ scanned' \in Nat
    BY <1>1, <2>1, <2>3 DEF TypeOK
  <2> HIDE DEF n
  <2>5. QED
    BY <1>1, <2>1, <2>2, <2>3, <2>4, MergerMoves
<1>3. ASSUME PopResult(g, w) PROVE LifeInv'
  <2> DEFINE n == [m EXCEPT !.pc = "merge", !.item = Head(b.queue)]
  <2>1. Head(b.queue) \in Result /\ Tail(b.queue) \in Seq(Result)
    BY <1>1, <1>3, HeadTailProperties DEF PopResult, WorkBuffer
  <2>2. /\ n \in MergeThread /\ n.ptr = m.ptr /\ n.pc = "merge" /\ n.item \in Result
        /\ m.pc = "pop"
    BY <1>1, <1>3, <2>1 DEF MergeThread, PopResult
  <2>3. merger' = [merger EXCEPT ![g][w] = n]
    BY <1>3 DEF PopResult
  <2>4. UNCHANGED <<gen, live, allocated, named, scanned, receiver, delivered, pc, call,
                    ptr, index, whole, streamed, early, answer, fault>>
    BY <1>3 DEF PopResult, queryBuffer, reading
  <2>5. buf' \in [Work -> WorkBuffer]
    <3>1. [b EXCEPT !.queue = Tail(b.queue)] \in WorkBuffer
      BY <1>1, <2>1 DEF WorkBuffer
    <3>2. buf' = [buf EXCEPT ![w] = [b EXCEPT !.queue = Tail(b.queue)]]
      BY <1>3 DEF PopResult
    <3>3. QED
      BY <1>1, <3>1, <3>2 DEF TypeOK
  <2>6. (live /\ n.pc \in {"pop", "merge", "count"} /\ n.ptr = gen) => w \in allocated
    BY <1>1, <2>2 DEF PointersFound
  <2> HIDE DEF n
  <2>7. QED
    BY <1>1, <2>2, <2>3, <2>4, <2>5, <2>6, MergerMoves DEF TypeOK
<1>4. ASSUME MergeResult(g, w) PROVE LifeInv'
  <2> DEFINE r == m.item
             n == [m EXCEPT !.pc = "count", !.loaded = scanned]
             c == [b EXCEPT !.rows = b.rows \o RowsOf(r),
                            !.merged = b.merged + Cardinality(Blocks[r]),
                            !.got = b.got \cup {r}]
  <2>1. m.pc = "merge" /\ r \in Result
    BY <1>1, <1>4 DEF MergeResult, TypeOK
  <2>2. n \in MergeThread /\ n.ptr = m.ptr /\ n.pc = "count" /\ n.item \in Result
    BY <1>1, <2>1 DEF MergeThread, TypeOK
  <2>3. merger' = [merger EXCEPT ![g][w] = n]
    BY <1>4 DEF MergeResult
  <2>4. UNCHANGED <<gen, live, allocated, named, scanned, receiver, delivered, pc, call,
                    ptr, index, whole, streamed, early, answer, fault>>
    BY <1>4 DEF MergeResult, queryBuffer, reading
  <2>5. buf' \in [Work -> WorkBuffer]
    <3>1. b.rows \o RowsOf(r) \in Seq(Row) /\ b.merged + Cardinality(Blocks[r]) \in Nat
      <4>1. b.rows \in Seq(Row) /\ b.merged \in Nat
        BY <1>1 DEF WorkBuffer
      <4>2. RowsOf(r) \in Seq(Row) /\ Cardinality(Blocks[r]) \in Nat
        BY <2>1, RowsOfType, BlockCount
      <4> HIDE DEF b, r
      <4>3. QED
        BY <4>1, <4>2, ConcatProperties
    <3>2. c \in WorkBuffer
      BY <1>1, <2>1, <3>1 DEF WorkBuffer
    <3>3. buf' = [buf EXCEPT ![w] = c]
      BY <1>4 DEF MergeResult
    <3>4. QED
      BY <1>1, <3>2, <3>3 DEF TypeOK
  <2>6. (live /\ n.pc \in {"pop", "merge", "count"} /\ n.ptr = gen) => w \in allocated
    BY <1>1, <2>1, <2>2 DEF PointersFound
  <2> HIDE DEF n
  <2>7. QED
    BY <1>1, <2>2, <2>3, <2>4, <2>5, <2>6, MergerMoves DEF TypeOK
<1>5. ASSUME CountResult(g, w) PROVE LifeInv'
  <2> DEFINE done == AllMerged(b)
             n == [m EXCEPT !.pc = IF done THEN "done" ELSE "pop", !.item = <<>>, !.loaded = 0]
             c == [b EXCEPT !.status = IF done THEN "WorkDone" ELSE b.status]
  <2>1. m.pc = "count" /\ m.item \in Result
    BY <1>1, <1>5 DEF CountResult, TypeOK
  <2>2. n \in MergeThread /\ n.ptr = m.ptr /\ n.pc \in {"done", "pop"}
    BY <1>1, <2>1 DEF MergeThread
  <2>3. merger' = [merger EXCEPT ![g][w] = n]
    BY <1>5 DEF CountResult
  <2>4. UNCHANGED <<gen, live, allocated, named, receiver, delivered, call,
                    ptr, index, whole, streamed, early, answer, fault>>
    BY <1>5 DEF CountResult, queryBuffer
  <2>5. buf' \in [Work -> WorkBuffer]
    <3>1. c \in WorkBuffer
      BY <1>1 DEF WorkBuffer, Status
    <3>2. buf' = [buf EXCEPT ![w] = c]
      BY <1>5 DEF CountResult
    <3>3. QED
      BY <1>1, <3>1, <3>2 DEF TypeOK
  <2>6. scanned' \in Nat
    BY <1>1, <1>5, <2>1, ResultAssumption DEF CountResult, Counted, MergeThread
  <2>7. /\ pc' = [t \in Reader |-> pc'[t]]
        /\ \A t \in Reader : pc'[t] = pc[t] \/ (pc[t] = "wait" /\ pc'[t] = "woken")
    BY <1>5 DEF CountResult, Notified, Waiting
  <2>8. (live /\ n.pc \in {"pop", "merge", "count"} /\ n.ptr = gen) => w \in allocated
    BY <1>1, <2>1, <2>2 DEF PointersFound
  <2> HIDE DEF n
  <2>9. QED
    BY <1>1, <2>2, <2>3, <2>4, <2>5, <2>6, <2>7, <2>8, MergerMoves
<1>6. ASSUME MergerFault(g, w) PROVE LifeInv'
  BY <1>6 DEF MergerFault, LifeInv, TypeOK, QueryLife, PointersPast, StreamCalls, Places,
              PointersFound, Target, queryBuffer, reading
<1>7. QED
  BY <1>2, <1>3, <1>4, <1>5, <1>6 DEF MergerStep

Place == {"idle", "begin", "poll", "lookup", "lock", "wait", "woken", "save", "store",
          "end", "done"}

\* What the steps of a reader that leave the buffers alone have in common.
LEMMA ReaderMoves ==
  ASSUME LifeInv, NEW t \in Reader, NEW p \in Place,
         pc' = [pc EXCEPT ![t] = p],
         UNCHANGED <<gen, live, allocated, named, buf, scanned, receiver, delivered, merger,
                     fault>>,
         call' \in [Reader -> {"whole", "stream"}],
         ptr' \in [Reader -> 0..2],
         index' \in [Reader -> Nat],
         whole' \in [Reader -> Seq(Row)],
         streamed' \in [Reader -> Seq(Row)],
         answer' \in [status : Status \cup {"none"}, rows : Seq(Row), scanned : Nat],
         early' \subseteq Reader,
         \A u \in Reader \ {t} : call'[u] = call[u] /\ ptr'[u] = ptr[u],
         t = Client => /\ pc[t] \notin {"idle", "done"}
                       /\ p \notin {"idle", "done", "begin", "poll", "save", "store"}
                       /\ call'[t] = "whole",
         t # Client => /\ p # "end"
                       /\ call'[t] = "stream" => Streamed[t] # NoWork,
         ptr'[t] <= gen,
         (live /\ p \in {"lock", "wait", "woken"} /\ ptr'[t] = gen) => Target(t)' \in allocated,
         (live /\ p = "store" /\ ptr'[t] = gen) => t \in allocated
  PROVE  LifeInv'
<1> USE PlanTypes DEF LifeInv
<1>1. pc \in [Reader -> Place]
  BY DEF TypeOK, Place
<1>2. pc' \in [Reader -> Place] /\ \A u \in Reader : pc'[u] = IF u = t THEN p ELSE pc[u]
  BY <1>1
<1>3. TypeOK'
  BY <1>2 DEF TypeOK, Place
<1>4. QueryLife'
  BY <1>2 DEF QueryLife
<1>5. PointersPast'
  BY DEF PointersPast
<1>6. StreamCalls'
  BY DEF StreamCalls
<1>7. Places'
  BY <1>2 DEF Places
<1>8. PointersFound'
  <2>1. ASSUME live, NEW u \in Reader, pc'[u] \in {"lock", "wait", "woken"}, ptr'[u] = gen
        PROVE  Target(u)' \in allocated
    <3>1. CASE u = t
      BY <1>2, <2>1, <3>1
    <3>2. CASE u # t
      <4>1. Target(u)' = Target(u)
        BY <3>2 DEF Target
      <4>2. QED
        BY <1>2, <2>1, <3>2, <4>1 DEF PointersFound
    <3>3. QED
      BY <3>1, <3>2
  <2>2. ASSUME live, NEW u \in MergeWork, pc'[u] = "store", ptr'[u] = gen
        PROVE  u \in allocated
    BY <1>2, <2>2 DEF PointersFound
  <2>3. QED
    BY <2>1, <2>2 DEF PointersFound
<1>9. QED
  BY <1>3, <1>4, <1>5, <1>6, <1>7, <1>8

\* A reader's call of initializeBuffer.
LEMMA ReaderMakesBuffer ==
  ASSUME LifeInv, NEW t \in Reader, NEW p \in Place, NEW W \in SUBSET Work,
         InitializeBuffer(W),
         pc' = [pc EXCEPT ![t] = p],
         UNCHANGED <<receiver, delivered, merger, call, ptr, index, whole, streamed,
                     answer, early, fault>>,
         t = Client => pc[t] = "idle" /\ p = "lookup",
         t # Client => p \in {"begin", "poll"}
  PROVE  LifeInv'
<1> USE PlanTypes DEF LifeInv
<1>1. /\ gen' \in 1..2 /\ live' = TRUE
      /\ live => gen' = gen /\ allocated \subseteq allocated'
      /\ ~ live => gen' = gen + 1
      /\ allocated' \subseteq Work /\ named' \subseteq allocated'
      /\ buf' \in [Work -> WorkBuffer]
      /\ scanned' \in Nat
  BY BufferMade
<1>2. pc \in [Reader -> Place] /\ live \in BOOLEAN /\ gen \in 0..2
  BY DEF TypeOK, Place
<1>3. pc' \in [Reader -> Place] /\ \A u \in Reader : pc'[u] = IF u = t THEN p ELSE pc[u]
  BY <1>2
<1>4. TypeOK'
  BY <1>1, <1>3 DEF TypeOK, Place
<1>5. QueryLife'
  BY <1>1, <1>2, <1>3 DEF QueryLife
<1>6. PointersPast'
  <2>1. gen <= gen'
    BY <1>1, <1>2
  <2>2. receiver.ptr \in 0..2 /\ ptr \in [Reader -> 0..2]
    BY DEF TypeOK
  <2>3. \A g \in Generation, w \in ScanWork : merger[g][w].ptr \in 0..2
    BY DEF TypeOK, MergeThread
  <2>4. QED
    BY <1>1, <1>2, <2>1, <2>2, <2>3 DEF PointersPast
<1>7. StreamCalls' /\ Places'
  BY <1>3 DEF StreamCalls, Places
<1>8. PointersFound'
  BY <1>1, <1>2, <1>3 DEF PointersFound, PointersPast, Target
<1>9. QED
  BY <1>4, <1>5, <1>6, <1>7, <1>8

\* The steps that merging works and the client have in common.
LEMMA ReaderLife ==
  ASSUME LifeInv, NEW t \in Reader,
         \/ ReaderLookup(t) \/ WaitWorkDone(t) \/ GetFinishedTableData(t)
         \/ ReaderFault(t) \/ SpuriousWakeup(t)
  PROVE  LifeInv'
<1>1. /\ TypeOK /\ PointersPast /\ PointersFound /\ StreamCalls /\ Target(t) \in Work
      /\ pc \in [Reader -> Place]
      /\ t # Client => t \in MergeWork
      /\ ptr[t] <= gen /\ gen \in 0..2
      /\ call[t] = "whole" \/ (t # Client /\ Streamed[t] # NoWork)
  BY PlanTypes, TargetType DEF LifeInv, TypeOK, PointersPast, Place, StreamCalls
<1> USE <1>1
<1>2. ASSUME ReaderLookup(t) PROVE LifeInv'
  <2>1. /\ UNCHANGED <<gen, live, allocated, named, buf, scanned, receiver, delivered, merger,
                       call, index, whole, streamed, answer, early, fault>>
        /\ pc' = [pc EXCEPT ![t] = "lock"] /\ ptr' = [ptr EXCEPT ![t] = gen]
        /\ pc[t] = "lookup" /\ Target(t) \in allocated
    BY <1>2 DEF ReaderLookup, queryBuffer, Found
  <2>2. Target(t)' = Target(t)
    BY <2>1 DEF Target
  <2>3. /\ ptr' \in [Reader -> 0..2] /\ ptr'[t] = gen
        /\ \A u \in Reader \ {t} : ptr'[u] = ptr[u]
    BY <2>1 DEF TypeOK
  <2>4. /\ "lock" \in Place /\ ptr'[t] <= gen /\ Target(t)' \in allocated
        /\ call'[t] = "whole" \/ (t # Client /\ Streamed[t] # NoWork)
    BY <2>1, <2>2, <2>3 DEF Place
  <2>5. /\ call' \in [Reader -> {"whole", "stream"}] /\ index' \in [Reader -> Nat]
        /\ whole' \in [Reader -> Seq(Row)] /\ streamed' \in [Reader -> Seq(Row)]
        /\ answer' \in [status : Status \cup {"none"}, rows : Seq(Row), scanned : Nat]
        /\ early' \subseteq Reader
    BY <2>1 DEF TypeOK
  <2>6. QED
    BY <2>1, <2>3, <2>4, <2>5, ReaderMoves
<1>3. ASSUME WaitWorkDone(t) \/ SpuriousWakeup(t) PROVE LifeInv'
  <2>1. PICK p \in {"wait", "woken"} : pc' = [pc EXCEPT ![t] = p]
    BY <1>3 DEF WaitWorkDone, SpuriousWakeup
  <2>2. /\ UNCHANGED <<gen, live, allocated, named, buf, scanned, receiver, delivered, merger,
                       call, ptr, index, whole, streamed, answer, early, fault>>
        /\ pc[t] \in {"lock", "wait"}
    BY <1>3 DEF WaitWorkDone, SpuriousWakeup, queryBuffer
  <2>3. Target(t)' = Target(t)
    BY <2>2 DEF Target
  <2>4. (live /\ ptr[t] = gen) => Target(t) \in allocated
    BY <2>2 DEF PointersFound
  <2>5. QED
    BY <2>1, <2>2, <2>3, <2>4, ReaderMoves DEF TypeOK, Place
<1>4. ASSUME GetFinishedTableData(t) PROVE LifeInv'
  <2> DEFINE b == buf[Target(t)]
  <2>1. PICK p \in {"end", "save", "begin"} : pc' = [pc EXCEPT ![t] = p] /\ (t = Client <=> p = "end")
    BY <1>4 DEF GetFinishedTableData
  <2>2. /\ UNCHANGED <<gen, live, allocated, named, buf, scanned, receiver, delivered, merger,
                       ptr, index, streamed, fault>>
        /\ pc[t] \in {"lock", "woken"}
        /\ whole' = [whole EXCEPT ![t] = b.rows]
        /\ early' \in {early, early \cup {t}}
        /\ \/ call' = call
           \/ t # Client /\ Streamed[t] # NoWork /\ call' = [call EXCEPT ![t] = "stream"]
        /\ \/ answer' = answer
           \/ answer' = [status |-> b.status, rows |-> b.rows, scanned |-> scanned]
    BY <1>4 DEF GetFinishedTableData, Enters, queryBuffer
  <2>3. b \in WorkBuffer
    BY DEF TypeOK
  <2>4. /\ whole' \in [Reader -> Seq(Row)]
        /\ answer' \in [status : Status \cup {"none"}, rows : Seq(Row), scanned : Nat]
    BY <2>2, <2>3 DEF TypeOK, WorkBuffer
  <2>5. /\ call' \in [Reader -> {"whole", "stream"}]
        /\ \A u \in Reader \ {t} : call'[u] = call[u]
        /\ t = Client => call'[t] = "whole"
        /\ t # Client /\ call'[t] = "stream" => Streamed[t] # NoWork
    BY <2>2 DEF TypeOK, StreamCalls
  <2>6. early' \subseteq Reader
    BY <2>2 DEF TypeOK
  <2>7. QED
    BY <2>1, <2>2, <2>4, <2>5, <2>6, ReaderMoves DEF TypeOK, Place
<1>5. ASSUME ReaderFault(t) PROVE LifeInv'
  BY <1>5 DEF ReaderFault, LifeInv, TypeOK, QueryLife, PointersPast, StreamCalls, Places,
              PointersFound, Target, queryBuffer, reading
<1>6. QED
  BY <1>2, <1>3, <1>4, <1>5

\* So does the client, who alone deletes a buffer (merging_interface.cc:43-116).
LEMMA ClientLife ==
  ASSUME LifeInv, ClientStep
  PROVE  LifeInv'
<1>1. ASSUME GetQueryResult PROVE LifeInv'
  <2>1. /\ {Final} \in SUBSET Work /\ InitializeBuffer({Final}) /\ "lookup" \in Place
        /\ Client \in Reader /\ pc[Client] = "idle" /\ pc' = [pc EXCEPT ![Client] = "lookup"]
        /\ UNCHANGED <<receiver, delivered, merger, call, ptr, index, whole, streamed,
                       answer, early, fault>>
    BY <1>1, PlanAssumption, PlanTypes DEF GetQueryResult, Place
  <2>2. QED
    BY <2>1, ReaderMakesBuffer
<1>2. ASSUME EndQuery PROVE LifeInv'
  <2>1. /\ live' = FALSE /\ allocated' = {} /\ named' = {}
        /\ pc[Client] = "end" /\ pc' = [pc EXCEPT ![Client] = "done"]
        /\ UNCHANGED <<gen, buf, scanned, receiver, delivered, merger, call, ptr, index,
                       whole, streamed, answer, early, fault>>
    BY <1>2 DEF EndQuery
  <2>2. TypeOK'
    BY <2>1 DEF LifeInv, TypeOK
  <2>3. QED
    BY <2>1, <2>2, PlanTypes
       DEF LifeInv, TypeOK, QueryLife, PointersPast, StreamCalls, PointersFound, Places
<1>3. QED
  BY <1>1, <1>2, ReaderLife, PlanTypes DEF ClientStep

\* So does a merging work (merge_query_manager.cc:9-138).
LEMMA WorkerLife ==
  ASSUME LifeInv, NEW w \in MergeWork, WorkerStep(w)
  PROVE  LifeInv'
<1>1. /\ TypeOK /\ PointersPast /\ PointersFound /\ StreamCalls /\ Target(w) \in Work
      /\ pc \in [Reader -> Place]
      /\ w \in Reader /\ w # Client /\ w \in Work
      /\ ptr[w] <= gen /\ gen \in 0..2
      /\ call[w] = "stream" => Streamed[w] \in Work /\ Streamed[w] # NoWork
  BY PlanTypes, PlanAssumption, TargetType
     DEF LifeInv, TypeOK, PointersPast, Place, StreamCalls
<1> USE <1>1
<1>2. ASSUME RunSnippetWork(w) \/ BeginRead(w) PROVE LifeInv'
  <2>1. PICK p \in {"begin", "poll"}, W \in {{w}, {}} :
           /\ InitializeBuffer(W) /\ pc' = [pc EXCEPT ![w] = p]
           /\ UNCHANGED <<receiver, delivered, merger, call, ptr, index, whole, streamed,
                          answer, early, fault>>
    BY <1>2 DEF RunSnippetWork, BeginRead
  <2>2. W \in SUBSET Work /\ p \in Place
    BY DEF Place
  <2>3. QED
    BY <2>1, <2>2, ReaderMakesBuffer
<1>3. ASSUME FindName(w) \/ WaitWorkInProgress(w) PROVE LifeInv'
  <2>1. PICK p \in {"lookup", "wait"} :
           /\ pc' = [pc EXCEPT ![w] = p]
           /\ p = "wait" => pc[w] \in {"lock", "woken"}
    BY <1>3 DEF FindName, WaitWorkInProgress, Enters
  <2>2. UNCHANGED <<gen, live, allocated, named, buf, scanned, receiver, delivered, merger,
                    call, ptr, index, whole, streamed, answer, early, fault>>
    BY <1>3 DEF FindName, WaitWorkInProgress, queryBuffer
  <2>3. Target(w)' = Target(w)
    BY <2>2 DEF Target
  <2>4. (live /\ p = "wait" /\ ptr[w] = gen) => Target(w) \in allocated
    BY <2>1 DEF PointersFound
  <2>5. QED
    BY <2>1, <2>2, <2>3, <2>4, ReaderMoves DEF TypeOK, Place
<1>4. ASSUME GetTableData(w) PROVE LifeInv'
  <2> DEFINE b == buf[Streamed[w]]
             n == Len(b.rows)
             new == SubSeq(b.rows, index[w] + 1, n)
  <2>1. /\ call[w] = "stream"
        /\ streamed' = [streamed EXCEPT ![w] = streamed[w] \o new]
        /\ index' = [index EXCEPT ![w] = n]
        /\ UNCHANGED <<gen, live, allocated, named, buf, scanned, receiver, delivered, merger,
                       call, ptr, whole, answer, early, fault>>
    BY <1>4 DEF GetTableData, NewRows, queryBuffer
  <2>2. PICK p \in {"save", "begin"} : pc' = [pc EXCEPT ![w] = p]
    BY <1>4 DEF GetTableData
  <2>3. b.rows \in Seq(Row)
    BY <2>1 DEF TypeOK, WorkBuffer
  <2>4. n \in Nat
    BY <2>3, LenProperties
  <2>5. index[w] \in Nat
    BY DEF TypeOK
  <2>6. \A i \in index[w] + 1 .. n : b.rows[i] \in Row
    BY <2>3, <2>4, <2>5, ElementOfSeq
  <2>7. new \in Seq(Row)
    BY <2>4, <2>5, <2>6, SubSeqProperties
  <2>8. streamed[w] \o new \in Seq(Row)
    BY <2>7, ConcatProperties DEF TypeOK
  <2>9. streamed' \in [Reader -> Seq(Row)] /\ index' \in [Reader -> Nat]
    BY <2>1, <2>4, <2>8 DEF TypeOK
  <2>10. QED
    BY <2>1, <2>2, <2>9, ReaderMoves DEF TypeOK, Place
<1>5. ASSUME SaveLookup(w) PROVE LifeInv'
  <2>1. /\ UNCHANGED <<gen, live, allocated, named, buf, scanned, receiver, delivered, merger,
                       call, index, whole, streamed, answer, early, fault>>
        /\ pc' = [pc EXCEPT ![w] = "store"] /\ ptr' = [ptr EXCEPT ![w] = gen]
        /\ w \in allocated
    BY <1>5 DEF SaveLookup, queryBuffer, Found
  <2>2. /\ ptr' \in [Reader -> 0..2] /\ ptr'[w] = gen
        /\ \A u \in Reader \ {w} : ptr'[u] = ptr[u]
    BY <2>1 DEF TypeOK
  <2>3. "store" \in Place /\ ptr'[w] <= gen
    BY <2>2 DEF Place
  <2>4. /\ call' \in [Reader -> {"whole", "stream"}] /\ index' \in [Reader -> Nat]
        /\ whole' \in [Reader -> Seq(Row)] /\ streamed' \in [Reader -> Seq(Row)]
        /\ answer' \in [status : Status \cup {"none"}, rows : Seq(Row), scanned : Nat]
        /\ early' \subseteq Reader
    BY <2>1 DEF TypeOK
  <2>5. QED
    BY <2>1, <2>2, <2>3, <2>4, ReaderMoves
<1>6. ASSUME SaveTableData(w) PROVE LifeInv'
  <2> DEFINE c == [buf[w] EXCEPT !.status = "WorkDone", !.rows = Output(w)]
  <2>1. /\ UNCHANGED <<gen, live, allocated, scanned, receiver, delivered, merger, call, ptr,
                       index, whole, streamed, answer, early, fault>>
        /\ pc[w] = "store" /\ live /\ ptr[w] = gen
        /\ buf' = [buf EXCEPT ![w] = c]
        /\ named' = named \cup {w}
        /\ pc' = [t \in Reader |-> pc'[t]] /\ pc'[w] = "done"
        /\ \A t \in Reader \ {w} : pc'[t] = pc[t] \/ (pc[t] = "wait" /\ pc'[t] = "woken")
    BY <1>6 DEF SaveTableData, Valid, Notified, Waiting
  <2>2. whole[w] \o streamed[w] \in Seq(Row)
    BY ConcatProperties DEF TypeOK
  <2>3. Output(w) \in Seq(Row)
    BY <2>2, LimitedType DEF Output
  <2>4. c \in WorkBuffer
    <3>1. buf[w] \in WorkBuffer
      BY DEF TypeOK
    <3>2. QED
      BY <2>3, <3>1 DEF WorkBuffer, Status
  <2>5. buf' \in [Work -> WorkBuffer] /\ w \in allocated
    BY <2>1, <2>4 DEF TypeOK, PointersFound
  <2>6. pc' \in [Reader -> Place]
    BY <2>1 DEF Place
  <2>7. TypeOK'
    BY <2>1, <2>5, <2>6 DEF TypeOK, Place
  <2>8. QueryLife' /\ PointersPast' /\ StreamCalls' /\ Places'
    BY <2>1, PlanTypes DEF LifeInv, QueryLife, PointersPast, StreamCalls, Places
  <2>9. PointersFound'
    <3>1. \A t \in Reader : Target(t)' = Target(t)
      BY <2>1 DEF Target
    <3>2. \A t \in Reader :
             /\ pc'[t] \in {"lock", "wait", "woken"} => pc[t] \in {"lock", "wait", "woken"}
             /\ pc'[t] = "store" => pc[t] = "store"
      BY <2>1
    <3>3. QED
      BY <2>1, <3>1, <3>2, PlanTypes DEF PointersFound
  <2>10. QED
    BY <2>7, <2>8, <2>9 DEF LifeInv
<1>7. QED
  BY <1>2, <1>3, <1>4, <1>5, <1>6, ReaderLife DEF WorkerStep
------------------------------------------------------------------------------
\* The invariant is inductive: no step of any thread breaks it.
THEOREM LifeStep == LifeInv /\ [Next]_vars => LifeInv'
<1> SUFFICES ASSUME LifeInv, [Next]_vars PROVE LifeInv'
  OBVIOUS
<1>1. CASE UNCHANGED vars
  BY <1>1 DEF vars, LifeInv, TypeOK, QueryLife, PointersPast, StreamCalls, Places,
              PointersFound, Target, queryBuffer, reading
<1>2. CASE Next
  BY <1>1, <1>2, ReceiverLife, MergerLife, WorkerLife, ClientLife, ReaderLife DEF Next
<1>3. QED
  BY <1>1, <1>2

\* The Buffer Manager keeps its types whatever the plan, the results and the
\* interleaving: above all, a query has at most two buffers, and a saved table's
\* name is one of a work buffer of the live one (buffer_manager.h:151-239).
THEOREM TypeCorrect == Spec => []TypeOK
<1>1. LifeInv => TypeOK
  BY DEF LifeInv
<1>2. QED
  BY <1>1, LifeInit, LifeStep, PTL DEF Spec
------------------------------------------------------------------------------
(* Finished tables.                                                            *)

\* A table that is finished stays finished while its buffer lasts.
LEMMA DoneStays ==
  ASSUME LifeInv, Next, live, NEW w \in allocated, buf[w].status = "WorkDone"
  PROVE  buf'[w].status = "WorkDone"
<1>1. w \in Work /\ buf \in [Work -> WorkBuffer]
  BY DEF LifeInv, TypeOK
<1>2. ASSUME NEW W \in SUBSET Work, InitializeBuffer(W) PROVE buf'[w] = buf[w]
  BY <1>2, BufferMade
<1>3. ASSUME ReceiverStep PROVE buf'[w].status = "WorkDone"
  <2>1. ASSUME NEW r \in Result, Receive(r) PROVE buf'[w] = buf[w]
    BY <2>1, <1>2, PlanTypes DEF Receive
  <2>2. ASSUME PushResult PROVE buf'[w].status = "WorkDone"
    BY <2>2, <1>1 DEF PushResult
  <2>3. QED
    BY <1>3, <2>1, <2>2 DEF ReceiverStep, ReceiverLookup, ReceiverFault
<1>4. ASSUME NEW g \in Generation, NEW v \in ScanWork, MergerStep(g, v)
      PROVE buf'[w].status = "WorkDone"
  <2>1. ASSUME PopResult(g, v) PROVE buf'[w].status = "WorkDone"
    BY <2>1, <1>1 DEF PopResult, WorkBuffer
  <2>2. ASSUME MergeResult(g, v) PROVE buf'[w].status = "WorkDone"
    BY <2>2, <1>1 DEF MergeResult, WorkBuffer
  <2>3. ASSUME CountResult(g, v) PROVE buf'[w].status = "WorkDone"
    BY <2>3, <1>1 DEF CountResult, WorkBuffer
  <2>4. QED
    BY <1>4, <2>1, <2>2, <2>3 DEF MergerStep, MergerLookup, MergerFault
<1>5. ASSUME NEW v \in MergeWork, WorkerStep(v) PROVE buf'[w].status = "WorkDone"
  <2>1. ASSUME RunSnippetWork(v) \/ BeginRead(v) PROVE buf'[w] = buf[w]
    BY <2>1, <1>2, PlanTypes DEF RunSnippetWork, BeginRead
  <2>2. ASSUME SaveTableData(v) PROVE buf'[w].status = "WorkDone"
    BY <2>2, <1>1 DEF SaveTableData, WorkBuffer
  <2>3. QED
    BY <1>5, <2>1, <2>2 DEF WorkerStep, FindName, ReaderLookup, WaitWorkDone,
       GetFinishedTableData, WaitWorkInProgress, GetTableData, SaveLookup, ReaderFault
<1>6. ASSUME ClientStep PROVE buf'[w] = buf[w]
  <2>1. ASSUME GetQueryResult PROVE buf'[w] = buf[w]
    BY <2>1, <1>2, PlanAssumption DEF GetQueryResult
  <2>2. QED
    BY <1>6, <2>1 DEF ClientStep, ReaderLookup, WaitWorkDone, GetFinishedTableData,
       EndQuery, ReaderFault
<1>7. QED
  BY <1>3, <1>4, <1>5, <1>6 DEF Next, SpuriousWakeup, vars

\* A new query buffer is made only where there is none.
LEMMA BufferAge ==
  ASSUME Next, live'
  PROVE  (live => gen' = gen) /\ (~ live => gen' = gen + 1)
<1>1. ASSUME NEW W \in SUBSET Work, InitializeBuffer(W)
      PROVE  (live => gen' = gen) /\ (~ live => gen' = gen + 1)
  BY <1>1 DEF InitializeBuffer
<1>2. UNCHANGED <<gen, live>> \/ ~ live' \/ \E W \in SUBSET Work : InitializeBuffer(W)
  <2>1. ReceiverStep => UNCHANGED <<gen, live>> \/ \E W \in SUBSET Work : InitializeBuffer(W)
    BY PlanTypes DEF ReceiverStep, Receive, ReceiverLookup, PushResult, ReceiverFault,
       queryBuffer
  <2>2. ASSUME NEW g \in Generation, NEW w \in ScanWork, MergerStep(g, w)
        PROVE  UNCHANGED <<gen, live>>
    BY <2>2 DEF MergerStep, MergerLookup, PopResult, MergeResult, CountResult, MergerFault,
           queryBuffer
  <2>3. ASSUME NEW w \in MergeWork, WorkerStep(w)
        PROVE  UNCHANGED <<gen, live>> \/ \E W \in SUBSET Work : InitializeBuffer(W)
    BY <2>3, PlanTypes DEF WorkerStep, RunSnippetWork, BeginRead, FindName, ReaderLookup,
       WaitWorkDone, GetFinishedTableData, WaitWorkInProgress, GetTableData, SaveLookup,
       SaveTableData, ReaderFault, queryBuffer
  <2>4. ClientStep => \/ UNCHANGED <<gen, live>>
                      \/ ~ live'
                      \/ \E W \in SUBSET Work : InitializeBuffer(W)
    BY PlanAssumption DEF ClientStep, GetQueryResult, ReaderLookup, WaitWorkDone,
       GetFinishedTableData, EndQuery, ReaderFault, queryBuffer
  <2>5. QED
    BY <2>1, <2>2, <2>3, <2>4 DEF Next, SpuriousWakeup, queryBuffer, vars
<1>3. CASE UNCHANGED <<gen, live>>
  BY <1>3
<1>4. CASE \E W \in SUBSET Work : InitializeBuffer(W)
  BY <1>1, <1>4
<1>5. QED
  BY <1>2, <1>3, <1>4

\* Without spurious wakeups: a reader that was woken out of getFinishedTableData
\* was woken by the last notification.
WokenByDone ==
  /\ early = {}
  /\ live => \A t \in Reader :
       (pc[t] = "woken" /\ call[t] = "whole" /\ ptr[t] = gen)
          => buf[Target(t)].status = "WorkDone"

\* A step that leaves a reader's pc, call and pointer alone leaves its fact true.
LEMMA WokenStays ==
  ASSUME LifeInv, WokenByDone, Next, live', NEW t \in Reader,
         pc'[t] = "woken", pc[t] = "woken", call[t] = "whole", call'[t] = call[t],
         ptr'[t] = ptr[t], ptr'[t] = gen'
  PROVE  buf'[Target(t)].status = "WorkDone"
<1>1. live /\ ptr[t] = gen
  <2>1. gen \in 0..2 /\ ptr[t] \in 0..2 /\ ptr[t] <= gen
    BY DEF LifeInv, TypeOK, PointersPast
  <2>2. (live => gen' = gen) /\ (~ live => gen' = gen + 1)
    BY BufferAge
  <2>3. CASE live
    BY <2>2, <2>3
  <2>4. CASE ~ live
    BY <2>1, <2>2, <2>4
  <2>5. QED
    BY <2>3, <2>4
<1>2. Target(t) \in allocated
  BY <1>1 DEF LifeInv, PointersFound
<1>3. QED
  BY <1>1, <1>2, DoneStays DEF WokenByDone

\* A reader of a whole table that is past its wait, or woken from it, reads
\* a finished table; every step keeps that if waits do not return spuriously.
LEMMA WokenStep ==
  ASSUME ~ SpuriousWakeups
  PROVE  LifeInv /\ WokenByDone /\ [Next]_vars => WokenByDone'
<1> SUFFICES ASSUME LifeInv, WokenByDone, [Next]_vars PROVE WokenByDone'
  OBVIOUS
<1>1. CASE UNCHANGED vars
  BY <1>1 DEF vars, queryBuffer, reading, WokenByDone, Target
<1>2. CASE Next
  \* A thread that only tests and moves other readers on.
  <2>1. ASSUME early' = early,
               \A t \in Reader : pc'[t] = "woken" =>
                  pc[t] = "woken" /\ call'[t] = call[t] /\ ptr'[t] = ptr[t]
        PROVE  WokenByDone'
    <3>1. SUFFICES ASSUME live', NEW t \in Reader, pc'[t] = "woken", call'[t] = "whole",
                          ptr'[t] = gen'
                   PROVE  buf'[Target(t)'].status = "WorkDone"
      BY <2>1 DEF WokenByDone
    <3>2. Target(t)' = Target(t)
      BY <2>1, <3>1 DEF Target
    <3>3. QED
      BY <1>2, <2>1, <3>1, <3>2, WokenStays
  <2>2. ASSUME ReceiverStep PROVE WokenByDone'
    <3>1. UNCHANGED reading
      BY <2>2 DEF ReceiverStep, Receive, ReceiverLookup, PushResult, ReceiverFault
    <3>2. QED
      BY <2>1, <3>1 DEF reading
  <2>3. ASSUME NEW g \in Generation, NEW w \in ScanWork, MergerStep(g, w) PROVE WokenByDone'
    <3>1. CASE CountResult(g, w)
      <4>1. UNCHANGED <<gen, live, call, ptr, early>>
        BY <3>1 DEF CountResult, queryBuffer
      <4>2. SUFFICES ASSUME live', NEW t \in Reader, pc'[t] = "woken", call'[t] = "whole",
                            ptr'[t] = gen'
                     PROVE  buf'[Target(t)'].status = "WorkDone"
        BY <4>1 DEF WokenByDone
      <4>3. Target(t)' = Target(t)
        BY <4>1 DEF Target
      <4>4. CASE pc[t] = "woken"
        BY <1>2, <4>1, <4>2, <4>3, <4>4, WokenStays
      <4>5. CASE pc[t] # "woken"
        <5>1. Target(t) = w /\ AllMerged(buf[w])
          BY <3>1, <4>1, <4>2, <4>5 DEF CountResult, Notified, Waiting
        <5>2. QED
          BY <3>1, <4>3, <5>1, PlanTypes DEF CountResult, LifeInv, TypeOK, WorkBuffer
      <4>6. QED
        BY <4>4, <4>5
    <3>2. CASE ~ CountResult(g, w)
      <4>1. UNCHANGED reading
        BY <2>3, <3>2 DEF MergerStep, MergerLookup, PopResult, MergeResult, MergerFault
      <4>2. QED
        BY <2>1, <4>1 DEF reading
    <3>3. QED
      BY <3>1, <3>2
  <2>4. ASSUME NEW t \in Reader, GetFinishedTableData(t) PROVE WokenByDone'
    <3>1. buf[Target(t)].status = "WorkDone"
      BY <2>4 DEF GetFinishedTableData, Enters, Valid, WokenByDone
    <3>2. early' = early
      BY <2>4, <3>1 DEF GetFinishedTableData
    <3>3. PICK p \in {"end", "save", "begin"} : pc' = [pc EXCEPT ![t] = p]
      BY <2>4 DEF GetFinishedTableData
    <3>4. ptr' = ptr /\ (call' = call \/ call' = [call EXCEPT ![t] = "stream"])
      BY <2>4 DEF GetFinishedTableData
    <3>5. pc \in [Reader -> Place] /\ call \in [Reader -> {"whole", "stream"}]
      BY DEF LifeInv, TypeOK, Place
    <3>6. QED
      BY <2>1, <3>2, <3>3, <3>4, <3>5
  <2>5. ASSUME NEW t \in Reader, ReaderLookup(t) \/ WaitWorkDone(t) \/ ReaderFault(t)
        PROVE WokenByDone'
    <3>1. pc \in [Reader -> Place] /\ ptr \in [Reader -> 0..2]
      BY DEF LifeInv, TypeOK, Place
    <3>2. CASE ReaderLookup(t)
      BY <2>1, <3>1, <3>2 DEF ReaderLookup
    <3>3. CASE WaitWorkDone(t)
      BY <2>1, <3>1, <3>3 DEF WaitWorkDone
    <3>4. CASE ReaderFault(t)
      BY <2>1, <3>4 DEF ReaderFault, reading
    <3>5. QED
      BY <2>5, <3>2, <3>3, <3>4
  <2>6. ASSUME NEW w \in MergeWork, WorkerStep(w) PROVE WokenByDone'
    <3>1. pc \in [Reader -> Place] /\ ptr \in [Reader -> 0..2] /\ w \in Reader
      BY PlanTypes DEF LifeInv, TypeOK, Place
    <3>2. CASE \/ RunSnippetWork(w) \/ BeginRead(w) \/ FindName(w)
               \/ WaitWorkInProgress(w) \/ GetTableData(w) \/ SaveLookup(w)
      <4>1. PICK p \in Place : pc' = [pc EXCEPT ![w] = p] /\ p # "woken"
        BY <3>2 DEF RunSnippetWork, BeginRead, FindName, WaitWorkInProgress, GetTableData,
                    SaveLookup, Place
      <4>2. /\ early' = early /\ call' = call
            /\ ptr' = ptr \/ ptr' = [ptr EXCEPT ![w] = gen]
        BY <3>2 DEF RunSnippetWork, BeginRead, FindName, WaitWorkInProgress, GetTableData,
                    SaveLookup
      <4>3. QED
        BY <2>1, <3>1, <4>1, <4>2
    <3>3. CASE SaveTableData(w)
      <4>1. UNCHANGED <<gen, live, call, ptr, early>>
        BY <3>3 DEF SaveTableData
      <4>2. SUFFICES ASSUME live', NEW t \in Reader, pc'[t] = "woken", call'[t] = "whole",
                            ptr'[t] = gen'
                     PROVE  buf'[Target(t)'].status = "WorkDone"
        BY <4>1 DEF WokenByDone
      <4>3. Target(t)' = Target(t)
        BY <4>1 DEF Target
      <4>4. CASE pc[t] = "woken"
        BY <1>2, <4>1, <4>2, <4>3, <4>4, WokenStays
      <4>5. CASE pc[t] # "woken"
        <5>1. Target(t) = w
          BY <3>3, <4>1, <4>2, <4>5 DEF SaveTableData, Notified, Waiting
        <5>2. QED
          BY <3>3, <4>3, <5>1, PlanTypes DEF SaveTableData, LifeInv, TypeOK, WorkBuffer
      <4>6. QED
        BY <4>4, <4>5
    <3>4. QED
      BY <2>4, <2>5, <2>6, <3>1, <3>2, <3>3 DEF WorkerStep
  <2>7. ASSUME ClientStep PROVE WokenByDone'
    <3>1. pc \in [Reader -> Place] /\ Client \in Reader
      BY PlanTypes DEF LifeInv, TypeOK, Place
    <3>2. CASE GetQueryResult
      BY <2>1, <3>1, <3>2 DEF GetQueryResult
    <3>3. CASE EndQuery
      BY <2>1, <3>1, <3>3 DEF EndQuery
    <3>4. QED
      BY <2>4, <2>5, <2>7, <3>1, <3>2, <3>3 DEF ClientStep
  <2>8. QED
    BY <1>1, <1>2, <2>2, <2>3, <2>6, <2>7 DEF Next, SpuriousWakeup
<1>3. QED
  BY <1>1, <1>2

\* As long as waits return only when notified, every reader of a whole table is
\* given a finished one, for every plan: the single test before the wait of
\* getFinishedTableData is enough then, and only then (buffer_manager.cc:510-514).
THEOREM FinishedTablesOnly ==
  ASSUME ~ SpuriousWakeups
  PROVE  Spec => []NoEarlyRead
<1>1. Init => WokenByDone
  BY DEF Init, WokenByDone
<1>2. WokenByDone => NoEarlyRead
  BY DEF WokenByDone, NoEarlyRead
<1>3. QED
  BY <1>1, <1>2, LifeInit, LifeStep, WokenStep, PTL DEF Spec

------------------------------------------------------------------------------
(***************************************************************************)
(* What a finished table holds, for every plan and every set of results: the *)
(* results of a scan work are merged once each, whatever the order in which   *)
(* they come and however the threads interleave, and the count of blocks      *)
(* reaches the total with the last of them and not before.                    *)
(***************************************************************************)
RowsIn(S) == UNION {{r} \X (1..RowCount[r]) : r \in S}

\* The results in a work buffer, merged or in its queue.
Taken(b) == b.got \cup Range(b.queue)

\* A work buffer of scan work w is made up of the results merged into it: rows,
\* blocks and status.
Accounts(w, b) ==
  /\ b.got \subseteq ResultsOf(w)
  /\ b.merged = Cardinality(BlocksIn(b.got))
  /\ HoldsOnce(b.rows, RowsIn(b.got))
  /\ b.status = "Initialized" => b.got = {}
  /\ b.status # "Initialized" => b.total = Cardinality(BlocksOf(w))
  /\ b.status = "WorkDone" => b.merged = b.total

\* Its queue holds other results of w, each once.
Queues(w, b) ==
  /\ Range(b.queue) \subseteq ResultsOf(w) \ b.got
  /\ IsInjective(b.queue)
  /\ b.status = "Initialized" => b.queue = <<>>

\* Thread <<g, w>> is at one of the places, with a pointer into the live buffer.
At(g, w, places) == merger[g][w].pc \in places /\ merger[g][w].ptr = gen

BuffersAccount ==
  \A w \in ScanWork \cap allocated : /\ Accounts(w, buf[w]) /\ Queues(w, buf[w])
                                     /\ Taken(buf[w]) \subseteq delivered

\* What a merge thread has taken from a queue is in no buffer and in no other
\* thread's hands; two threads may merge for one work after endQuery.
MergersHold ==
  \A g \in Generation, w \in ScanWork :
    /\ At(g, w, {"merge"}) =>
         /\ merger[g][w].item \in ResultsOf(w) \cap delivered
         /\ merger[g][w].item \notin Taken(buf[w])
         /\ \A h \in Generation : h # g /\ At(h, w, {"merge"})
                                    => merger[h][w].item # merger[g][w].item
    /\ At(g, w, {"merge", "count"}) => buf[w].status # "Initialized"

\* Neither is what the accept thread is about to push.
ReceiverHolds ==
  receiver.pc # "accept" =>
    /\ \A w \in ScanWork \cap allocated : receiver.item \notin Taken(buf[w])
    /\ \A g \in Generation, w \in ScanWork :
         At(g, w, {"merge"}) => merger[g][w].item # receiver.item

ScanInv ==
  /\ receiver.pc # "accept" => receiver.item \in delivered
  /\ live => BuffersAccount /\ MergersHold /\ ReceiverHolds
------------------------------------------------------------------------------
(* Rows and blocks of a set of results.                                       *)

LEMMA UpTo ==
  ASSUME NEW n \in Nat
  PROVE  IsFiniteSet(1..n) /\ Cardinality(1..n) = n
<1>1. 1 \in Int /\ n \in Int
  OBVIOUS
<1>2. IsFiniteSet(1..n) /\ Cardinality(1..n) = IF 1 > n THEN 0 ELSE n - 1 + 1
  BY <1>1, FS_Interval, Zenon
<1>3. QED
  BY <1>2

\* A result's rows are as many as its row count says.
LEMMA RowsOfResult ==
  ASSUME NEW r \in Result
  PROVE  /\ IsFiniteSet({r} \X (1..RowCount[r]))
         /\ Cardinality({r} \X (1..RowCount[r])) = RowCount[r]
<1>1. RowCount[r] \in Nat
  BY ResultAssumption
<1>2. IsFiniteSet({r}) /\ Cardinality({r}) = 1
  BY FS_Singleton, Zenon
<1>3. IsFiniteSet(1..RowCount[r]) /\ Cardinality(1..RowCount[r]) = RowCount[r]
  BY <1>1, UpTo, Zenon
<1>4. /\ IsFiniteSet({r} \X (1..RowCount[r]))
      /\ Cardinality({r} \X (1..RowCount[r])) = Cardinality({r}) * Cardinality(1..RowCount[r])
  BY <1>2, <1>3, FS_Product, Zenon
<1>5. QED
  BY <1>1, <1>2, <1>3, <1>4

\* The rows of a set of results can be counted.
LEMMA RowsFinite ==
  ASSUME NEW S \in SUBSET Result
  PROVE  IsFiniteSet(RowsIn(S)) /\ Cardinality(RowsIn(S)) \in Nat
<1> DEFINE T == {{r} \X (1..RowCount[r]) : r \in S}
           f == [r \in S |-> {r} \X (1..RowCount[r])]
<1>1. IsFiniteSet(S)
  BY ResultAssumption, FS_Subset
<1>2. f \in Surjection(S, T)
  BY DEF Surjection
<1>3. IsFiniteSet(T)
  BY <1>1, <1>2, FS_Surjection
<1>4. \A R \in T : IsFiniteSet(R)
  BY RowsOfResult
<1>5. IsFiniteSet(UNION T)
  BY <1>3, <1>4, FS_UNION
<1>6. QED
  BY <1>5, FS_CardinalityType DEF RowsIn

\* Counts of disjoint sets add up.
LEMMA DisjointCount ==
  ASSUME NEW A, IsFiniteSet(A), NEW B, IsFiniteSet(B), A \cap B = {}
  PROVE  Cardinality(A \cup B) = Cardinality(A) + Cardinality(B)
<1>1. Cardinality(A \cup B) = Cardinality(A) + Cardinality(B) - Cardinality(A \cap B)
  BY FS_Union
<1>2. Cardinality(A \cap B) = 0
  BY FS_EmptySet
<1>3. Cardinality(A) \in Nat /\ Cardinality(B) \in Nat
  BY FS_CardinalityType
<1>4. QED
  BY <1>1, <1>2, <1>3

\* Another result adds its rows, and no others.
LEMMA OneMoreRows ==
  ASSUME NEW S \in SUBSET Result, NEW r \in Result, r \notin S
  PROVE  /\ RowsIn(S \cup {r}) = RowsIn(S) \cup Range(RowsOf(r))
         /\ Cardinality(RowsIn(S \cup {r})) = Cardinality(RowsIn(S)) + RowCount[r]
<1> DEFINE R == {r} \X (1..RowCount[r])
<1>1. Range(RowsOf(r)) = R
  BY RowsOfType
<1>2. RowsIn(S \cup {r}) = RowsIn(S) \cup R
  BY DEF RowsIn
<1>3. RowsIn(S) \cap R = {}
  BY DEF RowsIn
<1>4. IsFiniteSet(RowsIn(S)) /\ IsFiniteSet(R) /\ Cardinality(R) = RowCount[r]
  BY RowsFinite, RowsOfResult
<1> HIDE DEF R
<1>5. Cardinality(RowsIn(S) \cup R) = Cardinality(RowsIn(S)) + Cardinality(R)
  BY <1>3, <1>4, DisjointCount
<1>6. QED
  BY <1>1, <1>2, <1>4, <1>5

\* Another result adds its blocks, and no others.
LEMMA OneMoreBlocks ==
  ASSUME NEW S \in SUBSET Result, NEW r \in Result, r \notin S
  PROVE  Cardinality(BlocksIn(S \cup {r}))
           = Cardinality(BlocksIn(S)) + Cardinality(Blocks[r])
<1>1. BlocksIn(S \cup {r}) = BlocksIn(S) \cup Blocks[r]
  BY DEF BlocksIn
<1>2. BlocksIn(S) \cap Blocks[r] = {}
  BY ResultAssumption DEF BlocksIn
<1>3. IsFiniteSet(BlocksIn(S)) /\ IsFiniteSet(Blocks[r])
  BY BlocksFinite, ResultAssumption
<1>4. QED
  BY <1>1, <1>2, <1>3, DisjointCount

\* Every result has a block of its own, so that the same number of blocks means
\* the same results (buffer_manager.cc:397).
LEMMA SameBlocks ==
  ASSUME NEW w \in ScanWork, NEW S \in SUBSET ResultsOf(w),
         Cardinality(BlocksIn(S)) = Cardinality(BlocksOf(w))
  PROVE  S = ResultsOf(w)
<1>1. ResultsOf(w) \in SUBSET Result /\ S \in SUBSET Result
  BY DEF ResultsOf
<1>2. BlocksOf(w) = BlocksIn(ResultsOf(w))
  BY DEF BlocksOf, BlocksIn
<1>3. BlocksIn(S) \in SUBSET BlocksOf(w) /\ IsFiniteSet(BlocksOf(w))
  BY <1>1, <1>2, BlocksFinite DEF BlocksIn
<1>4. BlocksIn(S) = BlocksOf(w)
  BY <1>3, FS_Subset
<1>5. ASSUME NEW r \in ResultsOf(w) PROVE r \in S
  <2>1. PICK x : x \in Blocks[r]
    BY <1>1, ResultAssumption
  <2>2. x \in BlocksIn(S)
    BY <1>2, <1>4, <2>1 DEF BlocksIn
  <2>3. PICK q \in S : x \in Blocks[q]
    BY <2>2 DEF BlocksIn
  <2>4. QED
    BY <1>1, <2>1, <2>3, ResultAssumption
<1>6. QED
  BY <1>5
------------------------------------------------------------------------------
(* Queues without repetition.                                                 *)

\* Pushing a new result.
LEMMA PushQueue ==
  ASSUME NEW q \in Seq(Result), IsInjective(q), NEW r \in Result, r \notin Range(q)
  PROVE  Range(Append(q, r)) = Range(q) \cup {r} /\ IsInjective(Append(q, r))
<1> DEFINE a == Append(q, r)
<1>1. /\ a \in Seq(Result) /\ Len(a) = Len(q) + 1 /\ Len(q) \in Nat
      /\ \A i \in 1..Len(q) : a[i] = q[i]
      /\ a[Len(q) + 1] = r
  BY AppendProperties, LenProperties
<1>2. DOMAIN a = 1..(Len(q) + 1) /\ DOMAIN q = 1..Len(q)
  BY <1>1, LenProperties
<1> HIDE DEF a
<1>3. 1..(Len(q) + 1) = (1..Len(q)) \cup {Len(q) + 1}
  BY <1>1
<1>4. Range(a) = Range(q) \cup {r}
  BY <1>1, <1>2, <1>3 DEF Range
<1>5. \A i \in DOMAIN q : q[i] # r
  BY DEF Range
<1>6. IsInjective(a)
  BY <1>1, <1>2, <1>3, <1>5 DEF IsInjective
<1>7. QED
  BY <1>4, <1>6 DEF a

\* Popping the oldest one.
LEMMA PopQueue ==
  ASSUME NEW q \in Seq(Result), IsInjective(q), q # <<>>
  PROVE  /\ Head(q) \in Range(q) /\ Range(Tail(q)) = Range(q) \ {Head(q)}
         /\ IsInjective(Tail(q))
<1> DEFINE t == Tail(q)
<1>1. /\ t \in Seq(Result) /\ Len(t) = Len(q) - 1 /\ Len(q) \in Nat \ {0}
      /\ \A i \in 1..Len(t) : t[i] = q[i + 1]
  BY HeadTailProperties, EmptySeq
<1>2. DOMAIN t = 1..Len(t) /\ DOMAIN q = 1..Len(q) /\ Head(q) = q[1]
  BY <1>1, LenProperties
<1> HIDE DEF t
<1>3. \A i \in 1..Len(t) : i + 1 \in DOMAIN q
  BY <1>1, <1>2
<1>4. \A i \in DOMAIN q : i # 1 => i - 1 \in 1..Len(t) /\ t[i - 1] = q[i]
  BY <1>1, <1>2
<1>5. Head(q) \in Range(q)
  BY <1>1, <1>2 DEF Range
<1>6. \A i \in DOMAIN t : t[i] \in Range(q) /\ t[i] # Head(q)
  BY <1>1, <1>2, <1>3 DEF Range, IsInjective
<1>7. \A x \in Range(q) : x # Head(q) => x \in Range(t)
  BY <1>2, <1>4 DEF Range
<1>8. Range(t) = Range(q) \ {Head(q)}
  BY <1>6, <1>7 DEF Range
<1>9. IsInjective(t)
  <2>1. SUFFICES ASSUME NEW i \in 1..Len(t), NEW j \in 1..Len(t), t[i] = t[j]
                 PROVE  i = j
    BY <1>2 DEF IsInjective
  <2>2. q[i + 1] = q[j + 1] /\ i + 1 \in DOMAIN q /\ j + 1 \in DOMAIN q
    BY <1>1, <1>3, <2>1
  <2>3. i + 1 = j + 1
    BY <2>2 DEF IsInjective
  <2>4. QED
    BY <1>1, <2>3
<1>10. QED
  BY <1>5, <1>8, <1>9 DEF t
------------------------------------------------------------------------------
(* One work buffer.                                                           *)

\* A new one (buffer_manager.h:164-172).
LEMMA EmptyAccounts ==
  ASSUME NEW w \in ScanWork
  PROVE  /\ Accounts(w, EmptyBuffer) /\ Queues(w, EmptyBuffer)
         /\ Taken(EmptyBuffer) = {}
<1>1. /\ EmptyBuffer.status = "Initialized" /\ EmptyBuffer.rows = <<>>
      /\ EmptyBuffer.merged = 0 /\ EmptyBuffer.queue = <<>> /\ EmptyBuffer.got = {}
  BY DEF EmptyBuffer
<1>2. Range(<<>>) = {} /\ IsInjective(<<>>) /\ Len(<<>>) = 0
  BY DEF Range, IsInjective
<1>3. RowsIn({}) = {} /\ BlocksIn({}) = {} /\ Cardinality({}) = 0
  BY FS_EmptySet DEF RowsIn, BlocksIn
<1>4. QED
  BY <1>1, <1>2, <1>3 DEF Accounts, Queues, Taken, HoldsOnce

\* A finished one has every result of the work, and none is left in the queue.
LEMMA DoneHasAll ==
  ASSUME NEW w \in ScanWork, NEW b \in WorkBuffer, Accounts(w, b), Queues(w, b),
         b.status = "WorkDone"
  PROVE  b.got = ResultsOf(w) /\ b.queue = <<>>
<1>1. b.got \in SUBSET ResultsOf(w)
      /\ Cardinality(BlocksIn(b.got)) = Cardinality(BlocksOf(w))
  BY DEF Accounts
<1>2. b.got = ResultsOf(w)
  BY <1>1, SameBlocks
<1>3. b.queue \in Seq(Result) /\ Range(b.queue) = {}
  BY <1>2 DEF Queues, WorkBuffer
<1>4. Len(b.queue) \in Nat /\ DOMAIN b.queue = 1..Len(b.queue)
  BY <1>3, LenProperties
<1>5. b.queue = <<>>
  <2>1. SUFFICES ASSUME b.queue # <<>> PROVE FALSE
    OBVIOUS
  <2>2. 1 \in DOMAIN b.queue
    BY <1>3, <1>4, <2>1, EmptySeq
  <2>3. QED
    BY <1>3, <2>2 DEF Range
<1>6. QED
  BY <1>2, <1>5

\* pushResult puts a result into it that it does not have.
LEMMA PushAccounts ==
  ASSUME NEW w \in ScanWork, NEW b \in WorkBuffer, Accounts(w, b), Queues(w, b),
         NEW r \in ResultsOf(w), r \notin Taken(b),
         NEW c \in WorkBuffer,
         c.got = b.got, c.rows = b.rows, c.merged = b.merged,
         c.queue = Append(b.queue, r),
         b.status = "Initialized" =>
           c.status = "NotFinished" /\ c.total = Cardinality(BlocksOf(w)),
         b.status # "Initialized" => c.status = b.status /\ c.total = b.total
  PROVE  /\ Accounts(w, c) /\ Queues(w, c)
         /\ Taken(c) = Taken(b) \cup {r} /\ c.status # "Initialized"
<1>1. b.queue \in Seq(Result) /\ r \in Result /\ r \notin b.got /\ r \notin Range(b.queue)
  BY DEF WorkBuffer, ResultsOf, Taken
<1>2. Range(c.queue) = Range(b.queue) \cup {r} /\ IsInjective(c.queue)
  BY <1>1, PushQueue DEF Queues
<1>3. c.status # "Initialized"
  BY DEF Accounts
<1>4. Accounts(w, c)
  BY <1>3 DEF Accounts
<1>5. Queues(w, c)
  BY <1>1, <1>2, <1>3 DEF Queues
<1>6. QED
  BY <1>2, <1>3, <1>4, <1>5 DEF Taken

\* wait_and_pop takes one out of its queue.
LEMMA PopAccounts ==
  ASSUME NEW w \in ScanWork, NEW b \in WorkBuffer, Accounts(w, b), Queues(w, b),
         b.queue # <<>>,
         NEW c \in WorkBuffer,
         c.got = b.got, c.rows = b.rows, c.merged = b.merged, c.total = b.total,
         c.status = b.status, c.queue = Tail(b.queue)
  PROVE  /\ Accounts(w, c) /\ Queues(w, c) /\ c.status # "Initialized"
         /\ Taken(c) \subseteq Taken(b)
         /\ Head(b.queue) \in (ResultsOf(w) \cap Taken(b)) \ Taken(c)
<1>1. b.queue \in Seq(Result)
  BY DEF WorkBuffer
<1>2. /\ Head(b.queue) \in Range(b.queue) /\ Range(c.queue) = Range(b.queue) \ {Head(b.queue)}
      /\ IsInjective(c.queue)
  BY <1>1, PopQueue DEF Queues
<1>3. c.status # "Initialized"
  BY DEF Queues
<1>4. Accounts(w, c)
  BY DEF Accounts
<1>5. Queues(w, c)
  BY <1>2, <1>3 DEF Queues
<1>6. QED
  BY <1>2, <1>3, <1>4, <1>5 DEF Taken, Queues

\* mergeResult adds the rows and blocks of a result that it did not have; the
\* work cannot have been finished.
LEMMA MergeAccounts ==
  ASSUME NEW w \in ScanWork, NEW b \in WorkBuffer, Accounts(w, b), Queues(w, b),
         b.status # "Initialized", NEW r \in ResultsOf(w), r \notin Taken(b),
         NEW c \in WorkBuffer,
         c.got = b.got \cup {r}, c.rows = b.rows \o RowsOf(r),
         c.merged = b.merged + Cardinality(Blocks[r]),
         c.total = b.total, c.status = b.status, c.queue = b.queue
  PROVE  Accounts(w, c) /\ Queues(w, c) /\ Taken(c) = Taken(b) \cup {r}
<1>1. b.rows \in Seq(Row) /\ r \in Result /\ r \notin b.got /\ r \notin Range(b.queue)
      /\ b.got \in SUBSET Result
  BY DEF WorkBuffer, ResultsOf, Taken
<1>2. b.status # "WorkDone"
  BY <1>1, DoneHasAll
<1>3. c.merged = Cardinality(BlocksIn(c.got))
  BY <1>1, OneMoreBlocks DEF Accounts
<1>4. HoldsOnce(c.rows, RowsIn(c.got))
  <2>1. RowsOf(r) \in Seq(Row) /\ Len(RowsOf(r)) = RowCount[r]
    BY <1>1, RowsOfType
  <2>2. Range(c.rows) = Range(b.rows) \cup Range(RowsOf(r))
    BY <1>1, <2>1, RangeConcatenation
  <2>3. Len(c.rows) = Len(b.rows) + RowCount[r]
    BY <1>1, <2>1, ConcatProperties
  <2>4. QED
    BY <1>1, <2>2, <2>3, OneMoreRows DEF Accounts, HoldsOnce
<1>5. Accounts(w, c)
  BY <1>2, <1>3, <1>4 DEF Accounts
<1>6. Queues(w, c)
  BY <1>1 DEF Queues
<1>7. QED
  BY <1>5, <1>6 DEF Taken

\* It is finished when the counts of blocks are equal.
LEMMA CountAccounts ==
  ASSUME NEW w \in ScanWork, NEW b \in WorkBuffer, Accounts(w, b), Queues(w, b),
         b.status # "Initialized",
         NEW c \in WorkBuffer,
         c.got = b.got, c.rows = b.rows, c.merged = b.merged, c.total = b.total,
         c.status = (IF AllMerged(b) THEN "WorkDone" ELSE b.status), c.queue = b.queue
  PROVE  /\ Accounts(w, c) /\ Queues(w, c) /\ Taken(c) = Taken(b)
         /\ c.status # "Initialized"
<1>1. c.status # "Initialized" /\ (c.status = "WorkDone" => c.merged = c.total)
  BY DEF AllMerged, Accounts
<1>2. QED
  BY <1>1 DEF Accounts, Queues, Taken
------------------------------------------------------------------------------
(* All of them, and what the threads hold.                                    *)

\* No result is there before the first one is received.
LEMMA ScanInit == Init => ScanInv
BY DEF Init, ScanInv

\* The invariant does not look at the readers and their tables.
LEMMA TablesStay ==
  ASSUME ScanInv, UNCHANGED <<gen, live, allocated, delivered, merger>>,
         \A w \in ScanWork : buf'[w] = buf[w],
         receiver'.pc # "accept" => receiver.pc # "accept" /\ receiver'.item = receiver.item
  PROVE  ScanInv'
<1>1. \A g \in Generation, w \in ScanWork :
         /\ At(g, w, {"merge"})' <=> At(g, w, {"merge"})
         /\ At(g, w, {"merge", "count"})' <=> At(g, w, {"merge", "count"})
  BY DEF At
<1>2. live' => BuffersAccount'
  BY DEF ScanInv, BuffersAccount
<1>3. live' => MergersHold'
  BY <1>1 DEF ScanInv, MergersHold
<1>4. live' => ReceiverHolds'
  BY <1>1 DEF ScanInv, ReceiverHolds
<1>5. receiver'.pc # "accept" => receiver'.item \in delivered'
  BY DEF ScanInv
<1>6. QED
  BY <1>2, <1>3, <1>4, <1>5 DEF ScanInv

\* A buffer that is made again is empty, and nobody holds a pointer into it; a work
\* buffer that is added to the query's is empty (buffer_manager.cc:414-431).
LEMMA TablesMade ==
  ASSUME LifeInv, ScanInv, NEW W \in SUBSET Work, InitializeBuffer(W), merger' = merger,
         delivered \subseteq delivered',
         receiver'.pc # "accept" =>
           /\ receiver'.item \in delivered'
           /\ \/ receiver.pc # "accept" /\ receiver'.item = receiver.item
              \/ receiver'.item \notin delivered
  PROVE  ScanInv'
<1>1. \A w \in ScanWork : Accounts(w, EmptyBuffer) /\ Queues(w, EmptyBuffer)
      /\ Taken(EmptyBuffer) = {}
  BY EmptyAccounts
<1>2. CASE live
  <2>1. /\ gen' = gen /\ live' = TRUE
        /\ \A w \in allocated : buf'[w] = buf[w]
        /\ \A w \in allocated' : w \in allocated \/ buf'[w] = EmptyBuffer
    BY <1>2 DEF InitializeBuffer, Missing, LifeInv, TypeOK
  <2>2. \A g \in Generation, w \in ScanWork :
           /\ At(g, w, {"merge"})' <=> At(g, w, {"merge"})
           /\ At(g, w, {"merge", "count"})' <=> At(g, w, {"merge", "count"})
    BY <2>1 DEF At
  <2>3. \A g \in Generation, w \in ScanWork :
           /\ At(g, w, {"merge"}) => w \in allocated /\ buf'[w] = buf[w]
           /\ At(g, w, {"merge", "count"}) => w \in allocated /\ buf'[w] = buf[w]
    BY <1>2, <2>1 DEF LifeInv, PointersFound, At
  <2>4. BuffersAccount /\ MergersHold /\ ReceiverHolds
    BY <1>2 DEF ScanInv
  <2>5. BuffersAccount'
    BY <1>1, <2>1, <2>4 DEF BuffersAccount
  <2>6. MergersHold'
    BY <2>2, <2>3, <2>4 DEF MergersHold
  <2>7. ReceiverHolds'
    <3>1. SUFFICES ASSUME receiver'.pc # "accept"
                   PROVE  /\ \A w \in ScanWork \cap allocated' :
                               receiver'.item \notin Taken(buf'[w])
                          /\ \A g \in Generation, w \in ScanWork :
                               At(g, w, {"merge"})' => merger'[g][w].item # receiver'.item
      BY DEF ReceiverHolds
    <3>2. CASE receiver.pc # "accept" /\ receiver'.item = receiver.item
      BY <1>1, <2>1, <2>2, <2>4, <3>2 DEF ReceiverHolds
    <3>3. CASE receiver'.item \notin delivered
      BY <1>1, <2>1, <2>2, <2>4, <3>3 DEF BuffersAccount, MergersHold
    <3>4. QED
      BY <3>1, <3>2, <3>3
  <2>8. QED
    BY <2>5, <2>6, <2>7 DEF ScanInv
<1>3. CASE ~ live
  <2>1. gen' = gen + 1 /\ gen \in 0..2
    BY <1>3 DEF InitializeBuffer, LifeInv, TypeOK
  <2>2. \A w \in ScanWork \cap allocated' : buf'[w] = EmptyBuffer
    BY <1>3 DEF InitializeBuffer, Missing, LifeInv, TypeOK
  <2>3. \A g \in Generation, w \in ScanWork : merger[g][w].ptr # gen'
    <3>1. SUFFICES ASSUME NEW g \in Generation, NEW w \in ScanWork
                   PROVE  merger[g][w].ptr # gen'
      OBVIOUS
    <3>2. merger[g][w].ptr \in 0..2 /\ merger[g][w].ptr <= gen
      BY DEF LifeInv, TypeOK, MergeThread, PointersPast
    <3>3. QED
      BY <2>1, <3>2
  <2>4. \A g \in Generation, w \in ScanWork :
           ~ At(g, w, {"merge"})' /\ ~ At(g, w, {"merge", "count"})'
    BY <2>3 DEF At
  <2>5. BuffersAccount'
    BY <1>1, <2>2 DEF BuffersAccount
  <2>6. MergersHold'
    BY <2>4 DEF MergersHold
  <2>7. ReceiverHolds'
    BY <1>1, <2>2, <2>4 DEF ReceiverHolds
  <2>8. QED
    BY <2>5, <2>6, <2>7 DEF ScanInv
<1>4. QED
  BY <1>2, <1>3

\* A merge thread moves on and leaves `c' in its work buffer: what it holds it took
\* from the buffer, and what it has put there it held.
LEMMA MergerTables ==
  ASSUME LifeInv, ScanInv, live, NEW g \in Generation, NEW w \in ScanWork, w \in allocated,
         NEW n \in MergeThread, NEW c \in WorkBuffer,
         merger' = [merger EXCEPT ![g][w] = n], buf' = [buf EXCEPT ![w] = c],
         UNCHANGED <<gen, live, allocated, delivered, receiver>>,
         Accounts(w, c), Queues(w, c),
         buf[w].status # "Initialized" \/ n.pc \in {"merge", "count"}
            => c.status # "Initialized",
         \/ Taken(c) \subseteq Taken(buf[w])
         \/ At(g, w, {"merge"}) /\ Taken(c) = Taken(buf[w]) \cup {merger[g][w].item},
         n.pc = "merge" => n.item \in (ResultsOf(w) \cap Taken(buf[w])) \ Taken(c)
  PROVE  ScanInv'
<1>1. /\ merger' \in [Generation -> [ScanWork -> MergeThread]]
      /\ \A h \in Generation, v \in ScanWork :
            merger'[h][v] = IF h = g /\ v = w THEN n ELSE merger[h][v]
  BY MergerUpdate DEF LifeInv, TypeOK
<1>2. /\ buf'[w] = c
      /\ \A v \in ScanWork : v # w => buf'[v] = buf[v]
  BY PlanTypes DEF LifeInv, TypeOK
<1>3. BuffersAccount /\ MergersHold /\ ReceiverHolds
  BY DEF ScanInv
<1>4. Taken(buf[w]) \subseteq delivered /\ Taken(c) \subseteq delivered
  BY <1>3 DEF BuffersAccount, MergersHold
<1>5. BuffersAccount'
  BY <1>2, <1>3, <1>4 DEF BuffersAccount
<1>6. \A h \in Generation, v \in ScanWork :
         /\ ~ (h = g /\ v = w) =>
              /\ merger'[h][v] = merger[h][v]
              /\ At(h, v, {"merge"})' <=> At(h, v, {"merge"})
              /\ At(h, v, {"merge", "count"})' <=> At(h, v, {"merge", "count"})
  BY <1>1 DEF At
<1>7. /\ At(g, w, {"merge"})' => n.pc = "merge"
      /\ At(g, w, {"merge", "count"})' => n.pc \in {"merge", "count"}
      /\ merger'[g][w] = n
  BY <1>1 DEF At
<1>8. \A h \in Generation : h # g /\ At(h, w, {"merge"}) => merger[h][w].item \notin Taken(c)
  BY <1>3 DEF MergersHold
<1>9. MergersHold'
  <2>1. SUFFICES ASSUME NEW h \in Generation, NEW v \in ScanWork
                 PROVE  /\ At(h, v, {"merge"})' =>
                             /\ merger'[h][v].item \in ResultsOf(v) \cap delivered
                             /\ merger'[h][v].item \notin Taken(buf'[v])
                             /\ \A k \in Generation : k # h /\ At(k, v, {"merge"})'
                                  => merger'[k][v].item # merger'[h][v].item
                        /\ At(h, v, {"merge", "count"})' => buf'[v].status # "Initialized"
    BY DEF MergersHold
  <2>2. CASE v # w
    BY <1>2, <1>3, <1>6, <2>2 DEF MergersHold
  <2>3. CASE v = w /\ h = g
    BY <1>2, <1>3, <1>4, <1>6, <1>7, <2>3 DEF MergersHold
  <2>4. CASE v = w /\ h # g
    <3>1. At(h, w, {"merge"})' => /\ merger'[h][w].item = merger[h][w].item
                                 /\ merger[h][w].item \in ResultsOf(w) \cap delivered
                                 /\ merger[h][w].item \notin Taken(buf[w])
                                 /\ merger[h][w].item \notin Taken(c)
      BY <1>3, <1>6, <1>8, <2>4 DEF MergersHold
    <3>2. \A k \in Generation :
             k # h /\ At(h, w, {"merge"})' /\ At(k, w, {"merge"})'
                => merger'[k][w].item # merger'[h][w].item
      BY <1>3, <1>6, <1>7, <2>4, <3>1 DEF MergersHold
    <3>3. At(h, w, {"merge", "count"})' => c.status # "Initialized"
      BY <1>3, <1>6, <2>4 DEF MergersHold
    <3>4. QED
      BY <1>2, <2>4, <3>1, <3>2, <3>3
  <2>5. QED
    BY <2>2, <2>3, <2>4
<1>10. ReceiverHolds'
  BY <1>2, <1>3, <1>6, <1>7 DEF ReceiverHolds
<1>11. QED
  BY <1>5, <1>9, <1>10 DEF ScanInv

\* The accept thread pushes what it holds: from then on the buffer has it.
LEMMA PushTables ==
  ASSUME LifeInv, ScanInv, live, receiver.pc # "accept", NEW w \in ScanWork,
         NEW c \in WorkBuffer, buf' = [buf EXCEPT ![w] = c],
         w \in allocated => /\ Accounts(w, c) /\ Queues(w, c)
                            /\ Taken(c) = Taken(buf[w]) \cup {receiver.item},
         c.status # "Initialized",
         \A g \in Generation, v \in ScanWork :
            merger'[g][v] = merger[g][v] \/ merger'[g][v].pc = "start",
         UNCHANGED <<gen, live, allocated, delivered>>, receiver'.pc = "accept"
  PROVE  ScanInv'
<1>1. /\ buf'[w] = c
      /\ \A v \in ScanWork : v # w => buf'[v] = buf[v]
  BY PlanTypes DEF LifeInv, TypeOK
<1>2. BuffersAccount /\ MergersHold /\ ReceiverHolds /\ receiver.item \in delivered
  BY DEF ScanInv
<1>3. BuffersAccount'
  BY <1>1, <1>2 DEF BuffersAccount
<1>4. \A g \in Generation, v \in ScanWork :
         /\ At(g, v, {"merge"})' => At(g, v, {"merge"}) /\ merger'[g][v] = merger[g][v]
         /\ At(g, v, {"merge", "count"})' => At(g, v, {"merge", "count"})
  BY DEF At
<1>5. \A g \in Generation, v \in ScanWork :
         At(g, v, {"merge"}) => /\ v \in allocated
                                /\ merger[g][v].item # receiver.item
                                /\ merger[g][v].item \notin Taken(buf'[v])
  <2>1. \A g \in Generation, v \in ScanWork :
           At(g, v, {"merge"}) => /\ v \in allocated
                                  /\ merger[g][v].item # receiver.item
                                  /\ merger[g][v].item \notin Taken(buf[v])
    BY <1>2 DEF LifeInv, PointersFound, At, MergersHold, ReceiverHolds
  <2>2. QED
    BY <1>1, <2>1
<1>6. MergersHold'
  BY <1>1, <1>2, <1>4, <1>5 DEF MergersHold
<1>7. QED
  BY <1>3, <1>6 DEF ScanInv, ReceiverHolds
------------------------------------------------------------------------------
(* The threads, one by one.                                                   *)

\* The accept thread keeps the account of the results (buffer_manager.cc:200-225).
LEMMA ReceiverScan ==
  ASSUME LifeInv, ScanInv, ReceiverStep
  PROVE  ScanInv'
<1>1. ASSUME NEW r \in Result, Receive(r) PROVE ScanInv'
  <2>1. {WorkOf[r]} \in SUBSET Work
    BY PlanTypes
  <2>2. /\ InitializeBuffer({WorkOf[r]}) /\ merger' = merger
        /\ delivered' = delivered \cup {r} /\ r \notin delivered
        /\ receiver' = [pc |-> "lookup", ptr |-> 0, item |-> r]
    BY <1>1 DEF Receive
  <2>3. receiver'.item = r /\ receiver'.item \in delivered' /\ receiver'.item \notin delivered
    BY <2>2
  <2>4. delivered \subseteq delivered'
    BY <2>2
  <2>5. QED
    BY <2>1, <2>2, <2>3, <2>4, TablesMade
<1>2. ASSUME ReceiverLookup \/ ReceiverFault PROVE ScanInv'
  <2>1. /\ UNCHANGED <<gen, live, allocated, delivered, merger, buf>>
        /\ receiver'.pc # "accept" => receiver.pc # "accept" /\ receiver'.item = receiver.item
    BY <1>2 DEF ReceiverLookup, ReceiverFault, queryBuffer, LifeInv, TypeOK
  <2>2. QED
    BY <2>1, TablesStay
<1>3. ASSUME PushResult PROVE ScanInv'
  <2> DEFINE r == receiver.item
             w == WorkOf[r]
             b == buf[w]
             c == [status |-> IF b.status = "Initialized" THEN "NotFinished" ELSE b.status,
                   rows |-> b.rows,
                   merged |-> b.merged,
                   total |-> IF b.status = "Initialized" THEN Cardinality(BlocksOf(w))
                             ELSE b.total,
                   queue |-> Append(b.queue, r),
                   got |-> b.got]
  <2>1. /\ UNCHANGED <<gen, live, allocated, delivered>>
        /\ live /\ receiver.pc = "push" /\ receiver'.pc = "accept"
        /\ buf' = [buf EXCEPT ![w] = c]
    BY <1>3 DEF PushResult, queryBuffer, Valid, LifeInv, TypeOK
  <2>2. r \in Result /\ w \in ScanWork /\ w \in Work /\ gen \in Generation /\ r \in ResultsOf(w)
    BY <2>1, PlanTypes DEF LifeInv, TypeOK, QueryLife, Generation
  <2>3. b \in WorkBuffer
    BY <2>2 DEF LifeInv, TypeOK
  <2>4. Append(b.queue, r) \in Seq(Result) /\ Cardinality(BlocksOf(w)) \in Nat
    BY <2>2, <2>3, AppendProperties, BlocksOfFinite DEF WorkBuffer
  <2>5. c \in WorkBuffer
    BY <2>3, <2>4 DEF WorkBuffer, Status
  <2>6. /\ c.got = b.got /\ c.rows = b.rows /\ c.merged = b.merged
        /\ c.queue = Append(b.queue, r)
        /\ b.status = "Initialized" =>
             c.status = "NotFinished" /\ c.total = Cardinality(BlocksOf(w))
        /\ b.status # "Initialized" => c.status = b.status /\ c.total = b.total
    OBVIOUS
  <2>7. \A g \in Generation, v \in ScanWork :
           merger'[g][v] = merger[g][v] \/ merger'[g][v].pc = "start"
    <3>1. merger \in [Generation -> [ScanWork -> MergeThread]]
      BY DEF LifeInv, TypeOK
    <3>2. \/ merger' = merger
          \/ merger' = [merger EXCEPT ![gen][w] = NewMerger]
      BY <1>3 DEF PushResult
    <3>3. NewMerger.pc = "start"
      BY DEF NewMerger
    <3>4. QED
      BY <2>2, <3>1, <3>2, <3>3, NoMergerType, MergerUpdate
  <2> HIDE DEF c
  <2>8. c.status # "Initialized"
    BY <2>6
  <2>9. ASSUME w \in allocated
        PROVE  Accounts(w, c) /\ Queues(w, c) /\ Taken(c) = Taken(buf[w]) \cup {r}
    <3>1. Accounts(w, b) /\ Queues(w, b) /\ r \notin Taken(b)
      BY <2>1, <2>2, <2>9 DEF ScanInv, BuffersAccount, ReceiverHolds
    <3>2. QED
      BY <2>2, <2>3, <2>5, <2>6, <3>1, PushAccounts
  <2>10. receiver.pc # "accept"
    BY <2>1
  <2> HIDE DEF w, b, r
  <2>11. w \in allocated => /\ Accounts(w, c) /\ Queues(w, c)
                            /\ Taken(c) = Taken(buf[w]) \cup {receiver.item}
    BY <2>9 DEF r
  <2>12. QED
    BY <2>1, <2>2, <2>5, <2>7, <2>8, <2>10, <2>11, PushTables
<1>4. QED
  BY <1>1, <1>2, <1>3 DEF ReceiverStep

\* So do the merge threads (buffer_manager.cc:227-412).
LEMMA MergerScan ==
  ASSUME LifeInv, ScanInv, NEW g \in Generation, NEW w \in ScanWork, MergerStep(g, w)
  PROVE  ScanInv'
<1> DEFINE m == merger[g][w]
           b == buf[w]
<1>1. /\ w \in Work /\ m \in MergeThread /\ b \in WorkBuffer
      /\ buf \in [Work -> WorkBuffer] /\ gen \in 0..2
  BY PlanTypes DEF LifeInv, TypeOK
<1>2. ASSUME live, w \in allocated
      PROVE  Accounts(w, b) /\ Queues(w, b) /\ Taken(b) \subseteq delivered
  BY <1>2 DEF ScanInv, BuffersAccount
<1>3. ASSUME live, m.pc \in {"pop", "merge", "count"}, m.ptr = gen PROVE w \in allocated
  BY <1>3 DEF LifeInv, PointersFound
<1>4. ASSUME MergerLookup(g, w) PROVE ScanInv'
  <2> DEFINE n == [m EXCEPT !.pc = "pop", !.ptr = gen]
  <2>1. n \in MergeThread /\ n.pc = "pop" /\ live /\ w \in allocated
    BY <1>1, <1>4 DEF MergeThread, MergerLookup, Found
  <2>2. merger' = [merger EXCEPT ![g][w] = n] /\ buf' = [buf EXCEPT ![w] = b]
    BY <1>1, <1>4 DEF MergerLookup
  <2>3. UNCHANGED <<gen, live, allocated, delivered, receiver>>
    BY <1>4 DEF MergerLookup, queryBuffer
  <2> HIDE DEF n
  <2>4. n.pc # "merge" /\ n.pc \notin {"merge", "count"}
    BY <2>1
  <2>5. Accounts(w, b) /\ Queues(w, b)
    BY <1>2, <2>1
  <2> HIDE DEF b
  <2>6. b.status = buf[w].status /\ Taken(b) = Taken(buf[w])
    BY DEF b
  <2>7. QED
    BY <1>1, <2>1, <2>2, <2>3, <2>4, <2>5, <2>6, MergerTables
<1>5. ASSUME PopResult(g, w) PROVE ScanInv'
  <2> DEFINE n == [m EXCEPT !.pc = "merge", !.item = Head(b.queue)]
             c == [b EXCEPT !.queue = Tail(b.queue)]
  <2>1. /\ b.queue # <<>> /\ live /\ w \in allocated
        /\ UNCHANGED <<gen, live, allocated, delivered, receiver>>
    BY <1>3, <1>5 DEF PopResult, Valid, queryBuffer
  <2>2. Head(b.queue) \in Result /\ Tail(b.queue) \in Seq(Result)
    BY <1>1, <2>1, HeadTailProperties DEF WorkBuffer
  <2>3. /\ n \in MergeThread /\ n.pc = "merge" /\ n.item = Head(b.queue)
        /\ c \in WorkBuffer
    BY <1>1, <2>2 DEF MergeThread, WorkBuffer
  <2>4. merger' = [merger EXCEPT ![g][w] = n] /\ buf' = [buf EXCEPT ![w] = c]
    BY <1>5 DEF PopResult
  <2>5. /\ c.got = b.got /\ c.rows = b.rows /\ c.merged = b.merged /\ c.total = b.total
        /\ c.status = b.status /\ c.queue = Tail(b.queue)
    BY <1>1 DEF WorkBuffer
  <2> HIDE DEF n, c
  <2>6. /\ Accounts(w, c) /\ Queues(w, c) /\ c.status # "Initialized"
        /\ Taken(c) \subseteq Taken(b)
        /\ Head(b.queue) \in (ResultsOf(w) \cap Taken(b)) \ Taken(c)
    BY <1>1, <1>2, <2>1, <2>3, <2>5, PopAccounts
  <2>7. QED
    BY <2>1, <2>3, <2>4, <2>6, MergerTables
<1>6. ASSUME MergeResult(g, w) PROVE ScanInv'
  <2> DEFINE r == m.item
             n == [m EXCEPT !.pc = "count", !.loaded = scanned]
             c == [b EXCEPT !.rows = b.rows \o RowsOf(r),
                            !.merged = b.merged + Cardinality(Blocks[r]),
                            !.got = b.got \cup {r}]
  <2>1. /\ m.pc = "merge" /\ m.ptr = gen /\ live /\ r \in Result /\ w \in allocated
        /\ UNCHANGED <<gen, live, allocated, delivered, receiver>>
    BY <1>3, <1>6 DEF MergeResult, Valid, queryBuffer, LifeInv, TypeOK
  <2>2. /\ r \in ResultsOf(w) /\ r \notin Taken(b) /\ b.status # "Initialized"
        /\ At(g, w, {"merge"})
    BY <2>1 DEF ScanInv, MergersHold, At
  <2>3. b.rows \o RowsOf(r) \in Seq(Row) /\ b.merged + Cardinality(Blocks[r]) \in Nat
    BY <1>1, <2>1, RowsOfType, ConcatProperties, BlockCount DEF WorkBuffer
  <2>4. n \in MergeThread /\ n.pc = "count" /\ c \in WorkBuffer
    BY <1>1, <2>1, <2>3 DEF MergeThread, WorkBuffer, LifeInv, TypeOK
  <2>5. merger' = [merger EXCEPT ![g][w] = n] /\ buf' = [buf EXCEPT ![w] = c]
    BY <1>6 DEF MergeResult
  <2>6. /\ c.got = b.got \cup {r} /\ c.rows = b.rows \o RowsOf(r)
        /\ c.merged = b.merged + Cardinality(Blocks[r])
        /\ c.total = b.total /\ c.status = b.status /\ c.queue = b.queue
    BY <1>1 DEF WorkBuffer
  <2> HIDE DEF n, c
  <2>7. Accounts(w, c) /\ Queues(w, c) /\ Taken(c) = Taken(b) \cup {r}
    <3>1. Accounts(w, b) /\ Queues(w, b)
      BY <1>2, <2>1
    <3>2. b \in WorkBuffer
      BY <1>1
    <3> HIDE DEF b, r
    <3>3. QED
      BY <2>2, <2>4, <2>6, <3>1, <3>2, MergeAccounts
  <2>8. c.status # "Initialized"
    BY <2>2, <2>6
  <2>9. QED
    BY <2>1, <2>2, <2>4, <2>5, <2>7, <2>8, MergerTables
<1>7. ASSUME CountResult(g, w) PROVE ScanInv'
  <2> DEFINE done == AllMerged(b)
             n == [m EXCEPT !.pc = IF done THEN "done" ELSE "pop", !.item = <<>>, !.loaded = 0]
             c == [b EXCEPT !.status = IF done THEN "WorkDone" ELSE b.status]
  <2>1. /\ m.pc = "count" /\ m.ptr = gen /\ live /\ w \in allocated
        /\ UNCHANGED <<gen, live, allocated, delivered, receiver>>
    BY <1>3, <1>7 DEF CountResult, Valid, queryBuffer
  <2>2. b.status # "Initialized"
    BY <2>1 DEF ScanInv, MergersHold, At
  <2>3. n \in MergeThread /\ n.pc # "merge" /\ c \in WorkBuffer
    BY <1>1 DEF MergeThread, WorkBuffer, Status
  <2>4. merger' = [merger EXCEPT ![g][w] = n] /\ buf' = [buf EXCEPT ![w] = c]
    BY <1>7 DEF CountResult
  <2>5. /\ c.got = b.got /\ c.rows = b.rows /\ c.merged = b.merged /\ c.total = b.total
        /\ c.status = (IF AllMerged(b) THEN "WorkDone" ELSE b.status) /\ c.queue = b.queue
    BY <1>1 DEF WorkBuffer
  <2> HIDE DEF n, c
  <2>6. /\ Accounts(w, c) /\ Queues(w, c) /\ Taken(c) = Taken(b) /\ c.status # "Initialized"
    BY <1>1, <1>2, <2>1, <2>2, <2>3, <2>5, CountAccounts
  <2>7. QED
    BY <2>1, <2>3, <2>4, <2>6, MergerTables
<1>8. ASSUME MergerFault(g, w) PROVE ScanInv'
  BY <1>8, TablesStay DEF MergerFault, queryBuffer
<1>9. QED
  BY <1>4, <1>5, <1>6, <1>7, <1>8 DEF MergerStep

\* The readers and the client do not touch the tables of scan works; they may make
\* buffers, and the client deletes them (buffer_manager.cc:414-537).
LEMMA ReaderScan ==
  ASSUME LifeInv, ScanInv,
         \/ \E w \in MergeWork : WorkerStep(w)
         \/ ClientStep
         \/ \E t \in Reader : SpuriousWakeup(t)
  PROVE  ScanInv'
<1>1. ASSUME NEW W \in SUBSET Work, InitializeBuffer(W),
             UNCHANGED <<receiver, delivered, merger>>
      PROVE  ScanInv'
  <2>1. delivered \subseteq delivered'
        /\ (receiver'.pc # "accept" => receiver'.item \in delivered')
    BY <1>1 DEF ScanInv
  <2>2. QED
    BY <1>1, <2>1, TablesMade
<1>2. ASSUME UNCHANGED <<gen, live, allocated, delivered, merger, receiver>>,
             \A w \in ScanWork : buf'[w] = buf[w]
      PROVE  ScanInv'
  BY <1>2, TablesStay
<1>3. ASSUME NEW w \in MergeWork, WorkerStep(w) PROVE ScanInv'
  <2>1. CASE RunSnippetWork(w) \/ BeginRead(w)
    BY <1>1, <2>1, PlanTypes DEF RunSnippetWork, BeginRead
  <2>2. CASE SaveTableData(w)
    <3>1. \A v \in ScanWork : buf'[v] = buf[v]
      BY <2>2 DEF SaveTableData, ScanWork, MergeWork, LifeInv, TypeOK
    <3>2. QED
      BY <1>2, <2>2, <3>1 DEF SaveTableData
  <2>3. CASE ~ (RunSnippetWork(w) \/ BeginRead(w) \/ SaveTableData(w))
    <3>1. UNCHANGED <<gen, live, allocated, delivered, merger, receiver, buf>>
      BY <1>3, <2>3 DEF WorkerStep, FindName, ReaderLookup, WaitWorkDone, GetFinishedTableData,
         WaitWorkInProgress, GetTableData, SaveLookup, ReaderFault, queryBuffer
    <3>2. QED
      BY <1>2, <3>1
  <2>4. QED
    BY <2>1, <2>2, <2>3
<1>4. ASSUME ClientStep PROVE ScanInv'
  <2>1. CASE GetQueryResult
    BY <1>1, <2>1, PlanAssumption DEF GetQueryResult
  <2>2. CASE EndQuery
    BY <2>2 DEF EndQuery, ScanInv
  <2>3. CASE ~ (GetQueryResult \/ EndQuery)
    <3>1. UNCHANGED <<gen, live, allocated, delivered, merger, receiver, buf>>
      BY <1>4, <2>3 DEF ClientStep, ReaderLookup, WaitWorkDone, GetFinishedTableData,
         ReaderFault, queryBuffer
    <3>2. QED
      BY <1>2, <3>1
  <2>4. QED
    BY <2>1, <2>2, <2>3
<1>5. ASSUME NEW t \in Reader, SpuriousWakeup(t) PROVE ScanInv'
  BY <1>2, <1>5 DEF SpuriousWakeup, queryBuffer
<1>6. QED
  BY <1>3, <1>4, <1>5
------------------------------------------------------------------------------
\* Every step of every thread keeps the account of the results.
LEMMA ScanStep == LifeInv /\ ScanInv /\ [Next]_vars => ScanInv'
<1> SUFFICES ASSUME LifeInv, ScanInv, [Next]_vars PROVE ScanInv'
  OBVIOUS
<1>1. CASE UNCHANGED vars
  <2>1. UNCHANGED <<gen, live, allocated, delivered, merger, receiver, buf>>
    BY <1>1 DEF vars, queryBuffer
  <2>2. QED
    BY <2>1, TablesStay
<1>2. CASE Next
  BY <1>1, <1>2, ReceiverScan, MergerScan, ReaderScan DEF Next
<1>3. QED
  BY <1>1, <1>2

\* A scan work's table is finished when every result of the work is merged into it.
LEMMA DoneComplete == LifeInv /\ ScanInv => DoneIsComplete
<1>1. SUFFICES ASSUME LifeInv, ScanInv, live, NEW w \in ScanWork \cap allocated,
                      buf[w].status = "WorkDone"
               PROVE  /\ HoldsOnce(buf[w].rows, AllRows(w))
                      /\ buf[w].got = ResultsOf(w)
                      /\ buf[w].queue = <<>>
  BY DEF DoneIsComplete
<1>2. buf[w] \in WorkBuffer /\ Accounts(w, buf[w]) /\ Queues(w, buf[w])
  BY <1>1, PlanTypes DEF LifeInv, TypeOK, ScanInv, BuffersAccount
<1>3. buf[w].got = ResultsOf(w) /\ buf[w].queue = <<>>
  BY <1>1, <1>2, DoneHasAll
<1>4. AllRows(w) = RowsIn(ResultsOf(w))
  BY RowsOfType DEF AllRows, RowsIn, ResultsOf
<1>5. QED
  BY <1>2, <1>3, <1>4 DEF Accounts

\* Whatever the plan, the number of CSD results, the order in which they come and
\* the interleaving of the threads, also after endQuery: the table of a scan work
\* that is marked WorkDone holds every row of every result of the work once, and
\* none of its results is still in the queue (buffer_manager.cc:388-409).
THEOREM TablesComplete == Spec => []DoneIsComplete
BY DoneComplete, LifeInit, LifeStep, ScanInit, ScanStep, PTL DEF Spec
------------------------------------------------------------------------------
(* Tables only grow.                                                          *)

\* A sequence of rows is a prefix of itself and of what is appended to it.
LEMMA PrefixConcat ==
  ASSUME NEW s \in Seq(Row), NEW t \in Seq(Row)
  PROVE  IsPrefix(s, s) /\ IsPrefix(s, s \o t)
<1> DEFINE u == s \o t
<1>1. /\ u \in Seq(Row) /\ Len(s) \in Nat /\ Len(t) \in Nat /\ Len(u) = Len(s) + Len(t)
      /\ \A i \in 1..Len(s) : u[i] = s[i] /\ s[i] \in Row
  BY ConcatProperties, LenProperties, ElementOfSeq
<1> HIDE DEF u
<1>2. \A i \in 1..Len(s) : s[i] \in Row /\ u[i] \in Row
  BY <1>1
<1>3. /\ SubSeq(s, 1, Len(s)) \in Seq(Row) /\ SubSeq(u, 1, Len(s)) \in Seq(Row)
      /\ Len(SubSeq(s, 1, Len(s))) = Len(s) /\ Len(SubSeq(u, 1, Len(s))) = Len(s)
      /\ \A i \in 1..Len(s) : SubSeq(s, 1, Len(s))[i] = s[i] /\ SubSeq(u, 1, Len(s))[i] = u[i]
  BY <1>1, <1>2, SubSeqProperties
<1>4. SubSeq(s, 1, Len(s)) = SubSeq(u, 1, Len(s))
  BY <1>1, <1>3, SeqEqual
<1>5. QED
  BY <1>1, <1>4 DEF IsPrefix, u

\* The table of a merging work is finished only by the work itself, at its end.
SavedOnce ==
  live => \A w \in MergeWork \cap allocated : buf[w].status = "WorkDone" => pc[w] = "done"

\* Nothing but saveTableData changes the buffer of a merging work, and a reader
\* that is done stays so.
LEMMA SavedStep == LifeInv /\ SavedOnce /\ [Next]_vars => SavedOnce'
<1> SUFFICES ASSUME LifeInv, SavedOnce, [Next]_vars PROVE SavedOnce'
  OBVIOUS
<1>1. /\ pc \in [Reader -> Place] /\ buf \in [Work -> WorkBuffer] /\ EmptyBuffer.status = "Initialized"
      /\ MergeWork \cap ScanWork = {} /\ MergeWork \subseteq Work
  BY PlanTypes DEF LifeInv, TypeOK, Place, EmptyBuffer, ScanWork
<1>2. ASSUME UNCHANGED <<live, allocated>>,
             \A w \in MergeWork : /\ buf'[w].status = buf[w].status
                                  /\ pc[w] = "done" => pc'[w] = "done"
      PROVE  SavedOnce'
  BY <1>2 DEF SavedOnce
<1>3. ASSUME NEW W \in SUBSET Work, InitializeBuffer(W),
             \A w \in MergeWork : pc[w] = "done" => pc'[w] = "done"
      PROVE  SavedOnce'
  <2>1. \A w \in Work \cap allocated' : \/ live /\ w \in allocated /\ buf'[w] = buf[w]
                                        \/ buf'[w] = EmptyBuffer
    BY <1>1, <1>3 DEF InitializeBuffer, Missing
  <2>2. QED
    BY <1>1, <1>3, <2>1 DEF SavedOnce
<1>4. CASE UNCHANGED vars
  BY <1>2, <1>4 DEF vars, queryBuffer, reading
<1>5. ASSUME ReceiverStep PROVE SavedOnce'
  <2>1. ASSUME NEW r \in Result, Receive(r) PROVE SavedOnce'
    BY <1>3, <2>1, PlanTypes DEF Receive, reading
  <2>2. CASE PushResult
    <3>1. WorkOf[receiver.item] \in ScanWork
      BY <2>2, PlanTypes DEF PushResult, LifeInv, TypeOK
    <3>2. \A w \in MergeWork : buf'[w] = buf[w]
      BY <1>1, <2>2, <3>1 DEF PushResult
    <3>3. QED
      BY <1>2, <2>2, <3>2 DEF PushResult, queryBuffer, reading
  <2>3. CASE ReceiverLookup \/ ReceiverFault
    BY <1>2, <2>3 DEF ReceiverLookup, ReceiverFault, queryBuffer, reading
  <2>4. QED
    BY <1>5, <2>1, <2>2, <2>3 DEF ReceiverStep
<1>6. ASSUME NEW g \in Generation, NEW w \in ScanWork, MergerStep(g, w) PROVE SavedOnce'
  <2>1. \A v \in MergeWork : buf'[v] = buf[v]
    BY <1>1, <1>6 DEF MergerStep, MergerLookup, PopResult, MergeResult, CountResult, MergerFault
  <2>2. UNCHANGED <<live, allocated>>
    BY <1>6 DEF MergerStep, MergerLookup, PopResult, MergeResult, CountResult, MergerFault,
                queryBuffer
  <2>3. \A v \in MergeWork : pc[v] = "done" => pc'[v] = "done"
    BY <1>6, PlanTypes DEF MergerStep, MergerLookup, PopResult, MergeResult, CountResult,
       MergerFault, reading, Notified, Waiting
  <2>4. QED
    BY <1>2, <2>1, <2>2, <2>3
<1>7. ASSUME NEW w \in MergeWork, WorkerStep(w) PROVE SavedOnce'
  <2>1. CASE RunSnippetWork(w) \/ BeginRead(w)
    BY <1>1, <1>3, <2>1, PlanTypes DEF RunSnippetWork, BeginRead
  <2>2. CASE SaveTableData(w)
    <3>1. pc'[w] = "done" /\ UNCHANGED <<live, allocated>>
      BY <2>2, PlanTypes DEF SaveTableData
    <3>2. \A v \in MergeWork : v # w =>
             buf'[v] = buf[v] /\ (pc[v] = "done" => pc'[v] = "done")
      BY <1>1, <2>2, PlanTypes DEF SaveTableData, Notified, Waiting
    <3>3. QED
      BY <3>1, <3>2 DEF SavedOnce
  <2>3. CASE ~ (RunSnippetWork(w) \/ BeginRead(w) \/ SaveTableData(w))
    <3>1. UNCHANGED <<live, allocated, buf>>
      BY <1>7, <2>3 DEF WorkerStep, FindName, ReaderLookup, WaitWorkDone, GetFinishedTableData,
         WaitWorkInProgress, GetTableData, SaveLookup, ReaderFault, queryBuffer
    <3>2. \A v \in MergeWork : pc[v] = "done" => pc'[v] = "done"
      BY <1>1, <1>7, <2>3, PlanTypes DEF WorkerStep, FindName, ReaderLookup, WaitWorkDone,
         GetFinishedTableData, WaitWorkInProgress, GetTableData, SaveLookup, ReaderFault,
         reading, Enters
    <3>3. QED
      BY <1>2, <3>1, <3>2
  <2>4. QED
    BY <2>1, <2>2, <2>3
<1>8. ASSUME ClientStep PROVE SavedOnce'
  <2>1. Client \notin MergeWork
    BY PlanTypes
  <2>2. CASE GetQueryResult
    BY <1>1, <1>3, <2>1, <2>2, PlanAssumption DEF GetQueryResult
  <2>3. CASE EndQuery
    BY <2>3 DEF EndQuery, SavedOnce
  <2>4. CASE ~ (GetQueryResult \/ EndQuery)
    <3>1. UNCHANGED <<live, allocated, buf>>
      BY <1>8, <2>4 DEF ClientStep, ReaderLookup, WaitWorkDone, GetFinishedTableData,
         ReaderFault, queryBuffer
    <3>2. \A v \in MergeWork : pc'[v] = pc[v]
      BY <1>1, <1>8, <2>1, <2>4, PlanTypes DEF ClientStep, ReaderLookup, WaitWorkDone,
         GetFinishedTableData, ReaderFault, reading
    <3>3. QED
      BY <1>2, <3>1, <3>2
  <2>5. QED
    BY <2>2, <2>3, <2>4
<1>9. ASSUME NEW t \in Reader, SpuriousWakeup(t) PROVE SavedOnce'
  <2>1. \A w \in MergeWork : pc[w] = "done" => pc'[w] = "done"
    BY <1>1, <1>9, PlanTypes DEF SpuriousWakeup
  <2>2. QED
    BY <1>2, <1>9, <2>1 DEF SpuriousWakeup, queryBuffer
<1>10. QED
  BY <1>4, <1>5, <1>6, <1>7, <1>8, <1>9 DEF Next

\* One table over one step, while the buffer it is in lasts.
Grows(w) ==
  /\ IsPrefix(buf[w].rows, buf'[w].rows) \/ w \in MergeWork
  /\ buf[w].status = "WorkDone" => /\ buf'[w].status = "WorkDone"
                                   /\ buf'[w].rows = buf[w].rows

\* A table whose status and rows stay has not shrunk.
LEMMA StillGrows ==
  ASSUME LifeInv, NEW w \in Work, buf'[w].rows = buf[w].rows,
         buf[w].status = "WorkDone" => buf'[w].status = "WorkDone"
  PROVE  Grows(w)
<1>1. buf[w].rows \in Seq(Row)
  BY DEF LifeInv, TypeOK, WorkBuffer
<1>2. QED
  BY <1>1, PrefixConcat DEF Grows

\* mergeResult only appends, and to an unfinished table: a finished one has every
\* result of its work already (buffer_manager.cc:234-386).
LEMMA MergeGrows ==
  ASSUME LifeInv, ScanInv, NEW g \in Generation, NEW v \in ScanWork, MergeResult(g, v)
  PROVE  Grows(v)
<1> DEFINE m == merger[g][v]
           b == buf[v]
           r == m.item
<1>1. /\ m.pc = "merge" /\ m.ptr = gen /\ live /\ v \in Work /\ b \in WorkBuffer /\ r \in Result
  BY PlanTypes DEF MergeResult, Valid, LifeInv, TypeOK
<1>2. v \in allocated
  BY <1>1 DEF LifeInv, PointersFound
<1>3. /\ r \in ResultsOf(v) /\ r \notin Taken(b)
      /\ Accounts(v, b) /\ Queues(v, b)
  BY <1>1, <1>2 DEF ScanInv, MergersHold, BuffersAccount, At
<1>4. b.status # "WorkDone"
  BY <1>1, <1>3, DoneHasAll DEF Taken
<1>5. buf'[v].rows = b.rows \o RowsOf(r)
  BY <1>1 DEF MergeResult, LifeInv, TypeOK, WorkBuffer
<1>6. b.rows \in Seq(Row) /\ RowsOf(r) \in Seq(Row)
  BY <1>1, RowsOfType DEF WorkBuffer
<1>7. QED
  BY <1>4, <1>5, <1>6, PrefixConcat DEF Grows

\* No step of any thread shrinks a table or changes a finished one.
LEMMA GrowStep ==
  ASSUME LifeInv, ScanInv, SavedOnce, Next, live, live', gen' = gen, NEW w \in allocated
  PROVE  Grows(w)
<1>1. w \in Work /\ buf \in [Work -> WorkBuffer] /\ MergeWork \cap ScanWork = {}
      /\ buf[w] \in WorkBuffer
  BY DEF LifeInv, TypeOK, ScanWork
<1>2. ASSUME buf'[w] = buf[w] PROVE Grows(w)
  BY <1>1, <1>2, StillGrows
<1>3. ASSUME NEW W \in SUBSET Work, InitializeBuffer(W) PROVE Grows(w)
  BY <1>2, <1>3, BufferMade
<1>4. ASSUME ReceiverStep PROVE Grows(w)
  <2>1. ASSUME NEW r \in Result, Receive(r) PROVE Grows(w)
    BY <1>3, <2>1, PlanTypes DEF Receive
  <2>2. ASSUME PushResult PROVE Grows(w)
    <3>1. buf'[w].rows = buf[w].rows
          /\ (buf[w].status = "WorkDone" => buf'[w].status = "WorkDone")
      BY <1>1, <2>2 DEF PushResult
    <3>2. QED
      BY <1>1, <3>1, StillGrows
  <2>3. QED
    BY <1>2, <1>4, <2>1, <2>2 DEF ReceiverStep, ReceiverLookup, ReceiverFault
<1>5. ASSUME NEW g \in Generation, NEW v \in ScanWork, MergerStep(g, v) PROVE Grows(w)
  <2>1. ASSUME PopResult(g, v) \/ CountResult(g, v) PROVE Grows(w)
    <3>1. buf'[w].rows = buf[w].rows
          /\ (buf[w].status = "WorkDone" => buf'[w].status = "WorkDone")
      <4>1. CASE PopResult(g, v)
        BY <1>1, <4>1 DEF PopResult, WorkBuffer
      <4>2. CASE CountResult(g, v)
        BY <1>1, <4>2 DEF CountResult, WorkBuffer
      <4>3. QED
        BY <2>1, <4>1, <4>2
    <3>2. QED
      BY <1>1, <3>1, StillGrows
  <2>2. ASSUME MergeResult(g, v) PROVE Grows(w)
    <3>1. CASE v = w
      BY <2>2, <3>1, MergeGrows
    <3>2. CASE v # w
      BY <1>1, <1>2, <2>2, <3>2 DEF MergeResult
    <3>3. QED
      BY <3>1, <3>2
  <2>3. QED
    BY <1>2, <1>5, <2>1, <2>2 DEF MergerStep, MergerLookup, MergerFault
<1>6. ASSUME NEW v \in MergeWork, WorkerStep(v) PROVE Grows(w)
  <2>1. ASSUME RunSnippetWork(v) \/ BeginRead(v) PROVE Grows(w)
    BY <1>3, <2>1, PlanTypes DEF RunSnippetWork, BeginRead
  <2>2. ASSUME SaveTableData(v) PROVE Grows(w)
    <3>1. CASE v = w
      <4>1. buf[w].status # "WorkDone"
        BY <2>2, <3>1 DEF SaveTableData, SavedOnce
      <4>2. QED
        BY <1>6, <3>1, <4>1 DEF Grows
    <3>2. CASE v # w
      BY <1>1, <1>2, <2>2, <3>2 DEF SaveTableData
    <3>3. QED
      BY <3>1, <3>2
  <2>3. QED
    BY <1>2, <1>6, <2>1, <2>2 DEF WorkerStep, FindName, ReaderLookup, WaitWorkDone,
       GetFinishedTableData, WaitWorkInProgress, GetTableData, SaveLookup, ReaderFault
<1>7. ASSUME ClientStep PROVE Grows(w)
  <2>1. ASSUME GetQueryResult PROVE Grows(w)
    BY <1>3, <2>1, PlanAssumption DEF GetQueryResult
  <2>2. QED
    BY <1>2, <1>7, <2>1 DEF ClientStep, ReaderLookup, WaitWorkDone, GetFinishedTableData,
       EndQuery, ReaderFault
<1>8. QED
  BY <1>2, <1>4, <1>5, <1>6, <1>7 DEF Next, SpuriousWakeup, vars

\* For every plan and every interleaving: while a query's buffer lasts, no thread
\* takes rows out of a scanned table, and none touches a table once it is marked
\* WorkDone, so that what one reader got every later reader gets
\* (buffer_manager.cc:234-412, 537-593).
THEOREM FinishedTablesStay == Spec => TablesOnlyGrow
<1>1. Init => SavedOnce
  BY DEF Init, SavedOnce
<1>2. LifeInv /\ ScanInv /\ SavedOnce /\ [Next]_vars =>
        [live /\ live' /\ gen' = gen => \A w \in allocated :
          /\ IsPrefix(buf[w].rows, buf'[w].rows) \/ w \in MergeWork
          /\ buf[w].status = "WorkDone" => /\ buf'[w].status = "WorkDone"
                                           /\ buf'[w].rows = buf[w].rows]_vars
  BY GrowStep DEF Grows
<1>3. QED
  BY <1>1, <1>2, LifeInit, LifeStep, ScanInit, ScanStep, SavedStep, PTL
     DEF Spec, TablesOnlyGrow

------------------------------------------------------------------------------
(***************************************************************************)
(* No thread of a query uses a work buffer that is not there, whatever the    *)
(* plan, as long as no reader was handed an unfinished table: when the client *)
(* has got the last table, every other thread of the query is through.        *)
(***************************************************************************)
Finished(w) == w \in allocated /\ buf[w].status = "WorkDone"

\* Every thread of the query is through, and no result is to come.
AllThrough ==
  /\ delivered = Result
  /\ receiver.pc = "accept"
  /\ \A g \in Generation, w \in ScanWork : merger[g][w].pc \in {"none", "done"}
  /\ \A w \in MergeWork : pc[w] = "done"

\* There is one buffer, and nothing has happened before it is made.
OneBuffer ==
  /\ gen <= 1
  /\ gen = 0 => /\ delivered = {} /\ receiver.pc = "accept"
                /\ \A t \in Reader : pc[t] = "idle" /\ call[t] = "whole"

\* Each thread finds what it looks up, and its pointer is to the live buffer.
ReceiverSafe ==
  receiver.pc # "accept" => /\ live /\ WorkOf[receiver.item] \in allocated
                            /\ receiver.pc = "push" => receiver.ptr = gen

MergersSafe ==
  \A g \in Generation, w \in ScanWork :
    /\ merger[g][w].pc # "none" => g = gen
    /\ merger[g][w].pc \notin {"none", "done"} =>
         /\ live /\ w \in allocated
         /\ merger[g][w].pc # "start" => merger[g][w].ptr = gen

ReadersSafe ==
  /\ \A t \in Reader :
       /\ pc[t] \notin {"idle", "done"} => live
       /\ pc[t] = "lookup" => Target(t) \in allocated
       /\ pc[t] \in {"lock", "wait", "woken", "store"} => ptr[t] = gen
  /\ \A w \in MergeWork : live /\ pc[w] # "idle" => w \in allocated

\* The merge thread of a work tells its status.
MergersMark ==
  live => \A g \in Generation, w \in ScanWork : g = gen =>
    /\ Finished(w) => merger[g][w].pc = "done"
    /\ merger[g][w].pc = "none" <=> (w \in allocated => buf[w].status = "Initialized")

\* A merging work is past its inputs only when they are finished.
InputsFinished ==
  live => \A w \in MergeWork :
    /\ call[w] = "stream" \/ pc[w] \in {"save", "store", "done"} => Finished(Whole[w])
    /\ pc[w] \in {"save", "store", "done"} /\ Streamed[w] # NoWork => Finished(Streamed[w])

Calm ==
  /\ fault = "none"
  /\ OneBuffer /\ ReceiverSafe /\ MergersSafe /\ ReadersSafe /\ MergersMark /\ InputsFinished
  /\ pc[Client] \in {"end", "done"} => AllThrough

FaultInv == early = {} => Calm
------------------------------------------------------------------------------
\* A query starts calm.
LEMMA CalmInit == Init => Calm
<1> SUFFICES ASSUME Init PROVE Calm
  OBVIOUS
<1>1. \A g \in Generation, w \in ScanWork : merger[g][w].pc = "none"
  BY DEF Init, NoMerger
<1>2. QED
  BY <1>1, PlanTypes DEF Init, Calm, OneBuffer, ReceiverSafe, MergersSafe, ReadersSafe,
     MergersMark, InputsFinished

\* initializeBuffer, from whichever thread: nobody's buffer goes away, and the
\* work buffers that are added are those of works not begun.
LEMMA CalmMade ==
  ASSUME LifeInv, Calm, NEW W \in SUBSET Work, InitializeBuffer(W),
         UNCHANGED <<merger, ptr, call, fault>>,
         pc[Client] \notin {"end", "done"}, pc'[Client] \notin {"end", "done"},
         \/ receiver' = receiver
         \/ receiver'.pc = "lookup" /\ WorkOf[receiver'.item] \in W,
         \A t \in Reader : \/ pc'[t] = pc[t]
                           \/ pc'[t] \in {"begin", "poll"}
                           \/ pc'[t] = "lookup" /\ Target(t) \in W,
         \A w \in MergeWork : pc'[w] # "idle" /\ pc[w] = "idle" => w \in W
  PROVE  Calm'
<1>1. /\ gen' = 1 /\ live' = TRUE /\ (live <=> gen = 1) /\ (~ live <=> gen = 0)
      /\ W \subseteq allocated' /\ (live => gen' = gen /\ allocated \subseteq allocated')
  BY DEF LifeInv, TypeOK, QueryLife, Calm, OneBuffer, InitializeBuffer
<1>2. \A w \in Work : w \in allocated' =>
         \/ live /\ w \in allocated /\ buf'[w] = buf[w]
         \/ (live => w \notin allocated) /\ buf'[w].status = "Initialized"
  BY DEF InitializeBuffer, Missing, EmptyBuffer
<1>3. \A w \in Work : live /\ Finished(w) => Finished(w)'
  BY <1>1, <1>2 DEF Finished
<1>4. \A t \in Reader : Target(t)' = Target(t)
  BY DEF Target
<1>5. ScanWork \subseteq Work /\ MergeWork \subseteq Reader
      /\ \A w \in MergeWork : Whole[w] \in Work /\ (Streamed[w] # NoWork => Streamed[w] \in Work)
  BY PlanTypes, PlanAssumption
<1>6. \A g \in Generation, w \in ScanWork : ~ live => merger[g][w].pc = "none"
  BY <1>1 DEF Calm, MergersSafe, Generation
<1>7. OneBuffer'
  BY <1>1 DEF OneBuffer
<1>8. ReceiverSafe'
  BY <1>1 DEF Calm, ReceiverSafe
<1>9. MergersSafe'
  BY <1>1, <1>6 DEF Calm, MergersSafe
<1>10. ReadersSafe'
  <2>1. \A t \in Reader : pc'[t] = "lookup" => Target(t)' \in allocated'
    BY <1>1, <1>4 DEF Calm, ReadersSafe
  <2>2. \A t \in Reader : pc'[t] \in {"lock", "wait", "woken", "store"} => ptr'[t] = gen'
    BY <1>1 DEF Calm, ReadersSafe
  <2>3. \A w \in MergeWork : pc'[w] # "idle" => w \in allocated'
    BY <1>1, <1>5 DEF Calm, ReadersSafe, OneBuffer
  <2>4. QED
    BY <1>1, <2>1, <2>2, <2>3 DEF ReadersSafe
<1>11. MergersMark'
  <2>1. SUFFICES ASSUME NEW g \in Generation, NEW w \in ScanWork, g = 1
                 PROVE  /\ Finished(w)' => merger[g][w].pc = "done"
                        /\ merger[g][w].pc = "none" <=>
                             (w \in allocated' => buf'[w].status = "Initialized")
    BY <1>1 DEF MergersMark
  <2>2. CASE live
    <3>1. /\ Finished(w) => merger[g][w].pc = "done"
          /\ merger[g][w].pc = "none" <=> (w \in allocated => buf[w].status = "Initialized")
      BY <1>1, <2>1, <2>2 DEF Calm, MergersMark
    <3>2. QED
      BY <1>1, <1>2, <1>5, <2>2, <3>1 DEF Finished
  <2>3. CASE ~ live
    BY <1>2, <1>5, <1>6, <2>3 DEF Finished
  <2>4. QED
    BY <2>2, <2>3
<1>12. InputsFinished'
  <2>1. \A w \in MergeWork : ~ live => call[w] = "whole" /\ pc'[w] \notin {"save", "store", "done"}
    BY <1>1, <1>5 DEF Calm, OneBuffer
  <2>2. \A w \in MergeWork :
          /\ pc'[w] \in {"save", "store", "done"} => pc[w] \in {"save", "store", "done"}
          /\ call'[w] = call[w]
    BY <1>5
  <2>3. QED
    BY <1>3, <1>5, <2>1, <2>2 DEF Calm, InputsFinished
<1>13. QED
  BY <1>7, <1>8, <1>9, <1>10, <1>11, <1>12 DEF Calm

\* A step of one reader that leaves the buffers and the other threads alone.
LEMMA CalmReader ==
  ASSUME LifeInv, Calm, live, NEW t \in Reader,
         UNCHANGED <<gen, live, allocated, buf, receiver, delivered, merger, fault>>,
         \A u \in Reader : u # t => pc'[u] = pc[u] /\ ptr'[u] = ptr[u] /\ call'[u] = call[u],
         pc'[t] = "lookup" => Target(t)' \in allocated,
         pc'[t] \in {"lock", "wait", "woken", "store"} => ptr'[t] = gen,
         t \in MergeWork =>
           /\ pc[t] # "done" /\ t \in allocated
           /\ call'[t] = "stream" \/ pc'[t] \in {"save", "store", "done"} => Finished(Whole[t])
           /\ pc'[t] \in {"save", "store", "done"} /\ Streamed[t] # NoWork
                => Finished(Streamed[t]),
         t = Client /\ pc'[t] \in {"end", "done"} => AllThrough
  PROVE  Calm'
<1>1. \A w \in Work : Finished(w)' <=> Finished(w)
  BY DEF Finished
<1>2. \A w \in MergeWork : Whole[w] \in Work /\ (Streamed[w] # NoWork => Streamed[w] \in Work)
  BY PlanAssumption
<1>3. \A u \in Reader : u # t => Target(u)' = Target(u)
  BY DEF Target
<1>4. gen = 1
  BY DEF LifeInv, TypeOK, QueryLife, Calm, OneBuffer
<1>5. OneBuffer' /\ ReceiverSafe' /\ MergersSafe'
  BY <1>4 DEF Calm, OneBuffer, ReceiverSafe, MergersSafe
<1>6. ReadersSafe'
  BY <1>3, PlanTypes DEF Calm, ReadersSafe
<1>7. MergersMark'
  BY DEF Calm, MergersMark, Finished
<1>8. InputsFinished'
  BY <1>1, <1>2, PlanTypes DEF Calm, InputsFinished
<1>9. pc'[Client] \in {"end", "done"} => AllThrough'
  <2>1. CASE t = Client
    BY <2>1, PlanTypes DEF AllThrough
  <2>2. CASE t # Client
    BY <2>2, PlanTypes DEF AllThrough, Calm
  <2>3. QED
    BY <2>1, <2>2
<1>10. QED
  BY <1>5, <1>6, <1>7, <1>8, <1>9 DEF Calm

\* When the last table is finished every table is: a finished merging work has read
\* finished inputs only.
LEMMA AllFinished ==
  ASSUME LeadsToFinal, LifeInv, SavedOnce, Calm, live, Finished(Final)
  PROVE  \A w \in Work : Finished(w)
<1> DEFINE D == {w \in Work : Finished(w)}
<1>1. \A w \in MergeWork : Finished(w) => pc[w] = "done"
  BY DEF SavedOnce, Finished
<1>2. \A w \in D \cap MergeWork : {Whole[w], Streamed[w]} \ {NoWork} \subseteq D
  BY <1>1, PlanAssumption DEF Calm, InputsFinished
<1>3. D = Work
  <2>1. D \in SUBSET Work /\ Final \in D
    BY PlanAssumption
  <2> HIDE DEF D
  <2>2. QED
    BY <1>2, <2>1 DEF LeadsToFinal
<1>4. QED
  BY <1>3

\* And with it every thread is through: a finished scan work has taken all its results.
LEMMA FinalIsLast ==
  ASSUME LeadsToFinal, LifeInv, ScanInv, SavedOnce, Calm, live, Finished(Final)
  PROVE  AllThrough
<1>1. gen = 1 /\ gen \in Generation
  BY DEF LifeInv, TypeOK, QueryLife, Calm, OneBuffer, Generation
<1>2. \A w \in MergeWork : Finished(w) => pc[w] = "done"
  BY DEF SavedOnce, Finished
<1>3. \A w \in Work : Finished(w)
  BY AllFinished
<1>4. \A w \in ScanWork : /\ w \in allocated /\ buf[w].status = "WorkDone"
                          /\ Accounts(w, buf[w]) /\ Queues(w, buf[w])
                          /\ Taken(buf[w]) \subseteq delivered
                          /\ buf[w] \in WorkBuffer
  BY <1>3, PlanTypes DEF Finished, ScanInv, BuffersAccount, LifeInv, TypeOK
<1>5. \A w \in ScanWork : buf[w].got = ResultsOf(w)
  BY <1>4, DoneHasAll
<1>6. \A w \in ScanWork : ResultsOf(w) \subseteq Taken(buf[w])
  BY <1>5 DEF Taken
<1>7. delivered = Result
  BY <1>4, <1>6, PlanTypes DEF LifeInv, TypeOK
<1>8. receiver.pc = "accept"
  <2>1. SUFFICES ASSUME receiver.pc # "accept" PROVE FALSE
    OBVIOUS
  <2>2. receiver.item \in Result
    BY <2>1 DEF LifeInv, TypeOK
  <2>3. WorkOf[receiver.item] \in ScanWork /\ receiver.item \in ResultsOf(WorkOf[receiver.item])
    BY <2>2, PlanTypes
  <2>4. QED
    BY <1>4, <1>6, <2>1, <2>3 DEF ScanInv, ReceiverHolds
<1>9. \A g \in Generation, w \in ScanWork : merger[g][w].pc \in {"none", "done"}
  BY <1>3, PlanTypes DEF Calm, MergersSafe, MergersMark
<1>10. \A w \in MergeWork : pc[w] = "done"
  BY <1>2, <1>3, PlanTypes
<1>11. QED
  BY <1>7, <1>8, <1>9, <1>10 DEF AllThrough
------------------------------------------------------------------------------
(* The threads, one by one.                                                   *)

\* The accept thread finds the work buffer that it has just made sure of, and
\* starts a merge thread exactly for a work that has none.
LEMMA ReceiverCalm ==
  ASSUME LifeInv, Calm, ReceiverStep
  PROVE  Calm'
<1>1. ASSUME NEW r \in Result, Receive(r) PROVE Calm'
  <2>1. {WorkOf[r]} \in SUBSET Work
    BY PlanTypes
  <2>2. /\ InitializeBuffer({WorkOf[r]}) /\ r \notin delivered
        /\ UNCHANGED <<merger, ptr, call, fault, pc>>
        /\ receiver' = [pc |-> "lookup", ptr |-> 0, item |-> r]
    BY <1>1 DEF Receive, reading
  <2>3. pc[Client] \notin {"end", "done"}
    BY <2>2 DEF Calm, AllThrough
  <2>4. receiver'.pc = "lookup" /\ WorkOf[receiver'.item] \in {WorkOf[r]}
    BY <2>2
  <2>5. QED
    BY <2>1, <2>2, <2>3, <2>4, CalmMade
<1>2. ASSUME ReceiverLookup PROVE Calm'
  <2>1. /\ UNCHANGED <<gen, live, allocated, buf, delivered, merger, fault, pc, ptr, call>>
        /\ receiver.pc = "lookup" /\ receiver'.pc = "push" /\ receiver'.ptr = gen
        /\ receiver'.item = receiver.item
    BY <1>2 DEF ReceiverLookup, queryBuffer, reading, LifeInv, TypeOK
  <2>2. live /\ gen = 1 /\ pc[Client] \notin {"end", "done"}
    BY <2>1 DEF Calm, AllThrough, ReceiverSafe, LifeInv, TypeOK, QueryLife, OneBuffer
  <2>3. OneBuffer' /\ ReceiverSafe' /\ MergersSafe' /\ MergersMark'
    BY <2>1, <2>2 DEF Calm, OneBuffer, ReceiverSafe, MergersSafe, MergersMark, Finished
  <2>4. ReadersSafe' /\ InputsFinished'
    BY <2>1 DEF Calm, ReadersSafe, InputsFinished, Target, Finished
  <2>5. QED
    BY <2>1, <2>2, <2>3, <2>4 DEF Calm
<1>3. ASSUME PushResult PROVE Calm'
  <2> DEFINE w == WorkOf[receiver.item]
  <2>1. /\ UNCHANGED <<gen, live, allocated, delivered, fault, pc, ptr, call>>
        /\ receiver.pc = "push" /\ receiver'.pc = "accept"
        /\ w \in ScanWork /\ w \in Work
    BY <1>3, PlanTypes DEF PushResult, queryBuffer, reading, LifeInv, TypeOK
  <2>2. live /\ gen = 1 /\ gen \in Generation /\ w \in allocated
        /\ pc[Client] \notin {"end", "done"}
    BY <2>1 DEF Calm, AllThrough, ReceiverSafe, LifeInv, TypeOK, QueryLife, OneBuffer, Generation
  <2>3. /\ \A v \in Work : v # w => buf'[v] = buf[v]
        /\ buf'[w].status = IF buf[w].status = "Initialized" THEN "NotFinished"
                            ELSE buf[w].status
    BY <1>3, <2>1 DEF PushResult, LifeInv, TypeOK
  <2>4. \A g \in Generation, v \in ScanWork :
           merger'[g][v] = IF buf[w].status = "Initialized" /\ g = gen /\ v = w
                           THEN NewMerger ELSE merger[g][v]
    <3>1. merger \in [Generation -> [ScanWork -> MergeThread]]
      BY DEF LifeInv, TypeOK
    <3>2. CASE buf[w].status = "Initialized"
      <4>1. merger' = [merger EXCEPT ![gen][w] = NewMerger]
        BY <1>3, <3>2 DEF PushResult
      <4>2. QED
        BY <2>1, <2>2, <3>1, <3>2, <4>1, NoMergerType, MergerUpdate
    <3>3. CASE buf[w].status # "Initialized"
      BY <1>3, <3>3 DEF PushResult
    <3>4. QED
      BY <3>2, <3>3
  <2>5. NewMerger.pc = "start"
    BY DEF NewMerger
  <2> HIDE DEF w
  <2>6. \A v \in Work : Finished(v) <=> Finished(v)'
    BY <2>1, <2>3 DEF Finished
  <2>7. OneBuffer' /\ ReceiverSafe'
    BY <2>1, <2>2 DEF Calm, OneBuffer, ReceiverSafe
  <2>8. MergersSafe'
    BY <2>1, <2>2, <2>4, <2>5 DEF Calm, MergersSafe
  <2>9. MergersMark'
    <3>1. SUFFICES ASSUME NEW g \in Generation, NEW v \in ScanWork, g = gen
                   PROVE  /\ Finished(v)' => merger'[g][v].pc = "done"
                          /\ merger'[g][v].pc = "none" <=>
                               (v \in allocated => buf'[v].status = "Initialized")
      BY <2>1 DEF MergersMark
    <3>2. /\ Finished(v) => merger[g][v].pc = "done"
          /\ merger[g][v].pc = "none" <=> (v \in allocated => buf[v].status = "Initialized")
      BY <2>2, <3>1 DEF Calm, MergersMark
    <3>3. v \in Work
      BY PlanTypes
    <3>4. CASE v = w /\ buf[w].status = "Initialized"
      BY <2>1, <2>2, <2>3, <2>4, <2>5, <3>1, <3>4 DEF Finished
    <3>5. CASE ~ (v = w /\ buf[w].status = "Initialized")
      BY <2>1, <2>3, <2>4, <2>6, <3>1, <3>2, <3>3, <3>5
    <3>6. QED
      BY <3>4, <3>5
  <2>10. ReadersSafe'
    BY <2>1 DEF Calm, ReadersSafe, Target
  <2>11. InputsFinished'
    BY <2>1, <2>6, PlanAssumption DEF Calm, InputsFinished
  <2>12. QED
    BY <2>1, <2>2, <2>7, <2>8, <2>9, <2>10, <2>11 DEF Calm
<1>4. ~ ReceiverFault
  BY DEF ReceiverFault, Calm, ReceiverSafe, Found, Valid
<1>5. QED
  BY <1>1, <1>2, <1>3, <1>4 DEF ReceiverStep

\* A step of a merge thread leaves the buffers where they are; the thread is
\* through when it marks its table, and only then.
LEMMA CalmMerger ==
  ASSUME LifeInv, Calm, NEW g \in Generation, NEW w \in ScanWork,
         merger[g][w].pc \notin {"none", "done"}, NEW n \in MergeThread,
         merger' = [merger EXCEPT ![g][w] = n], n.pc \notin {"none", "start"}, n.ptr = gen,
         UNCHANGED <<gen, live, allocated, receiver, delivered, fault, ptr, call>>,
         \A v \in Work : v # w => buf'[v] = buf[v],
         \/ n.pc # "done" /\ buf'[w].status = buf[w].status
         \/ n.pc = "done" /\ buf'[w].status = "WorkDone",
         \A t \in Reader : pc'[t] = pc[t] \/ (pc[t] = "wait" /\ pc'[t] = "woken")
  PROVE  Calm'
<1>1. /\ live /\ gen = 1 /\ g = gen /\ w \in allocated /\ w \in Work
      /\ pc[Client] \notin {"end", "done"}
  BY PlanTypes DEF Calm, AllThrough, MergersSafe, LifeInv, TypeOK, QueryLife, OneBuffer
<1>2. /\ merger' \in [Generation -> [ScanWork -> MergeThread]]
      /\ \A h \in Generation, v \in ScanWork :
            merger'[h][v] = IF h = g /\ v = w THEN n ELSE merger[h][v]
  BY MergerUpdate DEF LifeInv, TypeOK
<1>3. buf[w].status # "Initialized" /\ ~ Finished(w)
  BY <1>1 DEF Calm, MergersMark
<1>4. \A v \in Work : Finished(v) => Finished(v)'
  BY <1>3 DEF Finished
<1>5. OneBuffer' /\ ReceiverSafe'
  BY <1>1 DEF Calm, OneBuffer, ReceiverSafe
<1>6. MergersSafe'
  BY <1>1, <1>2 DEF Calm, MergersSafe
<1>7. MergersMark'
  <2>1. SUFFICES ASSUME NEW h \in Generation, NEW v \in ScanWork, h = gen
                 PROVE  /\ Finished(v)' => merger'[h][v].pc = "done"
                        /\ merger'[h][v].pc = "none" <=>
                             (v \in allocated => buf'[v].status = "Initialized")
    BY DEF MergersMark
  <2>2. /\ Finished(v) => merger[h][v].pc = "done"
        /\ merger[h][v].pc = "none" <=> (v \in allocated => buf[v].status = "Initialized")
    BY <1>1, <2>1 DEF Calm, MergersMark
  <2>3. CASE v = w
    BY <1>1, <1>2, <1>3, <2>1, <2>3 DEF Finished
  <2>4. CASE v # w
    BY <1>2, <2>2, <2>4, PlanTypes DEF Finished
  <2>5. QED
    BY <2>3, <2>4
<1>8. ReadersSafe'
  <2>1. \A t \in Reader :
           /\ Target(t)' = Target(t)
           /\ pc'[t] = "lookup" => pc[t] = "lookup"
           /\ pc'[t] \in {"lock", "wait", "woken", "store"} =>
                pc[t] \in {"lock", "wait", "woken", "store"}
           /\ pc'[t] # "idle" => pc[t] # "idle"
    BY DEF Target
  <2>2. QED
    BY <1>1, <2>1, PlanTypes DEF Calm, ReadersSafe
<1>9. InputsFinished'
  <2>1. \A v \in MergeWork :
           pc'[v] \in {"save", "store", "done"} => pc[v] \in {"save", "store", "done"}
    BY PlanTypes
  <2>2. QED
    BY <1>1, <1>4, <2>1, PlanAssumption DEF Calm, InputsFinished
<1>10. pc'[Client] \notin {"end", "done"}
  BY <1>1, PlanTypes
<1>11. QED
  BY <1>5, <1>6, <1>7, <1>8, <1>9, <1>10 DEF Calm

\* The merge threads keep the query calm.
LEMMA MergerCalm ==
  ASSUME LifeInv, Calm, NEW g \in Generation, NEW w \in ScanWork, MergerStep(g, w)
  PROVE  Calm'
<1> DEFINE m == merger[g][w]
           b == buf[w]
<1>1. /\ w \in Work /\ m \in MergeThread /\ b \in WorkBuffer /\ buf \in [Work -> WorkBuffer]
      /\ gen \in 0..2 /\ scanned \in Nat
  BY PlanTypes DEF LifeInv, TypeOK
<1>2. m.pc \notin {"none", "done"} => live /\ w \in allocated
      /\ (m.pc # "start" => m.ptr = gen)
  BY DEF Calm, MergersSafe
<1>3. ASSUME MergerLookup(g, w) PROVE Calm'
  <2> DEFINE n == [m EXCEPT !.pc = "pop", !.ptr = gen]
  <2>1. n \in MergeThread /\ n.pc = "pop" /\ n.ptr = gen /\ m.pc = "start"
    BY <1>1, <1>3 DEF MergeThread, MergerLookup
  <2>2. merger' = [merger EXCEPT ![g][w] = n]
        /\ UNCHANGED <<gen, live, allocated, buf, receiver, delivered, fault, pc, ptr, call>>
    BY <1>3 DEF MergerLookup, queryBuffer, reading
  <2> HIDE DEF n
  <2>3. QED
    BY <2>1, <2>2, CalmMerger
<1>4. ASSUME PopResult(g, w) PROVE Calm'
  <2> DEFINE n == [m EXCEPT !.pc = "merge", !.item = Head(b.queue)]
  <2>1. Head(b.queue) \in Result
    BY <1>1, <1>4, HeadTailProperties DEF PopResult, WorkBuffer
  <2>2. n \in MergeThread /\ n.pc = "merge" /\ n.ptr = gen /\ m.pc = "pop"
    BY <1>1, <1>4, <2>1 DEF MergeThread, PopResult, Valid
  <2>3. merger' = [merger EXCEPT ![g][w] = n]
        /\ UNCHANGED <<gen, live, allocated, receiver, delivered, fault, pc, ptr, call>>
    BY <1>4 DEF PopResult, queryBuffer, reading
  <2>4. buf'[w].status = b.status /\ \A v \in Work : v # w => buf'[v] = buf[v]
    BY <1>1, <1>4 DEF PopResult, WorkBuffer
  <2> HIDE DEF n
  <2>5. QED
    BY <2>2, <2>3, <2>4, CalmMerger
<1>5. ASSUME MergeResult(g, w) PROVE Calm'
  <2> DEFINE n == [m EXCEPT !.pc = "count", !.loaded = scanned]
  <2>1. n \in MergeThread /\ n.pc = "count" /\ n.ptr = gen /\ m.pc = "merge"
    BY <1>1, <1>5 DEF MergeThread, MergeResult, Valid
  <2>2. merger' = [merger EXCEPT ![g][w] = n]
        /\ UNCHANGED <<gen, live, allocated, receiver, delivered, fault, pc, ptr, call>>
    BY <1>5 DEF MergeResult, queryBuffer, reading
  <2>3. buf'[w].status = b.status /\ \A v \in Work : v # w => buf'[v] = buf[v]
    BY <1>1, <1>5 DEF MergeResult, WorkBuffer
  <2> HIDE DEF n
  <2>4. QED
    BY <2>1, <2>2, <2>3, CalmMerger
<1>6. ASSUME CountResult(g, w) PROVE Calm'
  <2> DEFINE done == AllMerged(b)
             n == [m EXCEPT !.pc = IF done THEN "done" ELSE "pop", !.item = <<>>, !.loaded = 0]
  <2>1. n \in MergeThread /\ n.pc \in {"done", "pop"} /\ n.ptr = gen /\ m.pc = "count"
    BY <1>1, <1>6 DEF MergeThread, CountResult, Valid
  <2>2. merger' = [merger EXCEPT ![g][w] = n]
        /\ UNCHANGED <<gen, live, allocated, receiver, delivered, fault, ptr, call>>
    BY <1>6 DEF CountResult, queryBuffer
  <2>3. \A v \in Work : v # w => buf'[v] = buf[v]
    BY <1>1, <1>6 DEF CountResult
  <2>4. \/ n.pc # "done" /\ buf'[w].status = b.status
        \/ n.pc = "done" /\ buf'[w].status = "WorkDone"
    <3>1. CASE done
      BY <1>1, <1>6, <3>1 DEF CountResult, MergeThread, WorkBuffer
    <3>2. CASE ~ done
      BY <1>1, <1>6, <3>2 DEF CountResult, MergeThread, WorkBuffer
    <3>3. QED
      BY <3>1, <3>2
  <2>5. \A t \in Reader : pc'[t] = pc[t] \/ (pc[t] = "wait" /\ pc'[t] = "woken")
    BY <1>6 DEF CountResult, Notified, Waiting
  <2>6. m.pc \notin {"none", "done"} /\ n.pc \notin {"none", "start"}
    BY <2>1
  <2> HIDE DEF n
  <2>7. QED
    BY <2>1, <2>2, <2>3, <2>4, <2>5, <2>6, CalmMerger
<1>7. ~ MergerFault(g, w)
  BY <1>2 DEF MergerFault, Found, Valid
<1>8. QED
  BY <1>3, <1>4, <1>5, <1>6, <1>7 DEF MergerStep

\* A merging work has its own buffer and finds the tables it reads; it is past a
\* read only with the finished table, since nobody is handed another.
LEMMA WorkerCalm ==
  ASSUME LifeInv, Calm, NEW w \in MergeWork, WorkerStep(w), early' = {}
  PROVE  Calm'
<1>1. /\ w \in Reader /\ w # Client /\ w \in Work /\ w \notin ScanWork
      /\ pc \in [Reader -> Place] /\ call \in [Reader -> {"whole", "stream"}]
      /\ ptr \in [Reader -> 0..2] /\ buf \in [Work -> WorkBuffer]
  BY PlanTypes DEF LifeInv, TypeOK, Place, ScanWork
<1>2. /\ pc[w] \notin {"idle", "done"} => live /\ w \in allocated
      /\ pc[w] = "lookup" => Target(w) \in allocated
      /\ pc[w] \in {"lock", "wait", "woken", "store"} => ptr[w] = gen
  BY <1>1 DEF Calm, ReadersSafe
<1>3. live => /\ call[w] = "stream" \/ pc[w] \in {"save", "store", "done"} => Finished(Whole[w])
              /\ pc[w] \in {"save", "store", "done"} /\ Streamed[w] # NoWork
                   => Finished(Streamed[w])
  BY DEF Calm, InputsFinished
<1>4. pc[w] # "done" => pc[Client] \notin {"end", "done"}
  BY DEF Calm, AllThrough
<1>5. pc[w] = "lookup" /\ call[w] = "stream" => Streamed[w] # NoWork
  BY DEF LifeInv, StreamCalls
<1>6. CASE RunSnippetWork(w)
  <2>1. /\ InitializeBuffer({w}) /\ {w} \in SUBSET Work /\ pc[w] = "idle"
        /\ UNCHANGED <<merger, ptr, call, fault, receiver>>
        /\ \A t \in Reader : pc'[t] = IF t = w THEN "begin" ELSE pc[t]
    BY <1>1, <1>6 DEF RunSnippetWork
  <2>2. /\ pc[Client] \notin {"end", "done"} /\ pc'[Client] \notin {"end", "done"}
        /\ \A t \in Reader : pc'[t] = pc[t] \/ pc'[t] \in {"begin", "poll"}
        /\ \A v \in MergeWork : pc'[v] # "idle" /\ pc[v] = "idle" => v \in {w}
    BY <1>1, <1>4, <2>1, PlanTypes
  <2>3. QED
    BY <2>1, <2>2, CalmMade
<1>7. CASE BeginRead(w)
  <2>1. /\ InitializeBuffer({}) /\ {} \in SUBSET Work /\ pc[w] = "begin"
        /\ UNCHANGED <<merger, ptr, call, fault, receiver>>
        /\ \A t \in Reader : pc'[t] = IF t = w THEN "poll" ELSE pc[t]
    BY <1>1, <1>7 DEF BeginRead
  <2>2. /\ pc[Client] \notin {"end", "done"} /\ pc'[Client] \notin {"end", "done"}
        /\ \A t \in Reader : pc'[t] = pc[t] \/ pc'[t] \in {"begin", "poll"}
        /\ \A v \in MergeWork : pc'[v] # "idle" /\ pc[v] = "idle" => v \in {}
    BY <1>1, <1>4, <2>1, PlanTypes
  <2>3. QED
    BY <2>1, <2>2, CalmMade
<1>8. ASSUME pc[w] \notin {"idle", "done"},
             UNCHANGED <<gen, live, allocated, buf, receiver, delivered, merger, fault>>,
             \A u \in Reader : u # w => pc'[u] = pc[u] /\ ptr'[u] = ptr[u] /\ call'[u] = call[u],
             pc'[w] = "lookup" => Target(w)' \in allocated,
             pc'[w] \in {"lock", "wait", "woken", "store"} => ptr'[w] = gen,
             call'[w] = "stream" \/ pc'[w] \in {"save", "store", "done"} => Finished(Whole[w]),
             pc'[w] \in {"save", "store", "done"} /\ Streamed[w] # NoWork => Finished(Streamed[w])
      PROVE  Calm'
  BY <1>1, <1>2, <1>8, CalmReader
<1>9. CASE FindName(w)
  <2>1. /\ pc[w] = "poll" /\ pc'[w] = "lookup" /\ live
        /\ UNCHANGED <<gen, live, allocated, buf, receiver, delivered, merger, fault, ptr, call>>
        /\ \A u \in Reader : u # w => pc'[u] = pc[u]
    BY <1>1, <1>9 DEF FindName, queryBuffer
  <2>2. Target(w)' \in allocated
    BY <1>9, <2>1 DEF FindName, Target, LifeInv, TypeOK
  <2>3. call'[w] = call[w]
    BY <2>1
  <2>4. QED
    BY <1>3, <1>8, <2>1, <2>2, <2>3
<1>10. CASE ReaderLookup(w)
  <2>1. /\ pc[w] = "lookup" /\ pc'[w] = "lock" /\ ptr'[w] = gen /\ live
        /\ UNCHANGED <<gen, live, allocated, buf, receiver, delivered, merger, fault, call>>
        /\ \A u \in Reader : u # w => pc'[u] = pc[u] /\ ptr'[u] = ptr[u]
    BY <1>1, <1>10 DEF ReaderLookup, queryBuffer, Found
  <2>2. QED
    BY <1>3, <1>8, <2>1
<1>11. CASE WaitWorkDone(w) \/ WaitWorkInProgress(w)
  <2>1. /\ pc[w] \in {"lock", "woken"} /\ pc'[w] = "wait" /\ live
        /\ UNCHANGED <<gen, live, allocated, buf, receiver, delivered, merger, fault, call, ptr>>
        /\ \A u \in Reader : u # w => pc'[u] = pc[u]
    BY <1>1, <1>11 DEF WaitWorkDone, WaitWorkInProgress, queryBuffer, Enters, Valid
  <2>2. ptr'[w] = gen
    BY <1>2, <2>1
  <2>3. QED
    BY <1>3, <1>8, <2>1, <2>2
<1>12. CASE GetFinishedTableData(w)
  <2>1. /\ pc[w] \in {"lock", "woken"} /\ live /\ call[w] = "whole" /\ ptr[w] = gen
        /\ UNCHANGED <<gen, live, allocated, buf, receiver, delivered, merger, fault, ptr>>
    BY <1>1, <1>12 DEF GetFinishedTableData, queryBuffer, Enters, Valid
  <2>2. Target(w) = Whole[w] /\ Target(w) \in allocated
    BY <1>1, <2>1 DEF Target, LifeInv, PointersFound
  <2>3. buf[Target(w)].status = "WorkDone"
    BY <1>12 DEF GetFinishedTableData
  <2>4. Finished(Whole[w])
    BY <2>2, <2>3 DEF Finished
  <2>5. \A u \in Reader : u # w => pc'[u] = pc[u] /\ ptr'[u] = ptr[u] /\ call'[u] = call[u]
    BY <1>1, <1>12, <2>1 DEF GetFinishedTableData
  <2>6. \/ Streamed[w] = NoWork /\ pc'[w] = "save"
        \/ pc'[w] = "begin"
    BY <1>1, <1>12 DEF GetFinishedTableData
  <2>7. QED
    BY <1>8, <2>1, <2>4, <2>5, <2>6
<1>13. CASE GetTableData(w)
  <2>1. /\ pc[w] \in {"lock", "woken"} /\ live /\ call[w] = "stream" /\ ptr[w] = gen
        /\ UNCHANGED <<gen, live, allocated, buf, receiver, delivered, merger, fault, ptr, call>>
        /\ \A u \in Reader : u # w => pc'[u] = pc[u]
        /\ pc'[w] = IF buf[Streamed[w]].status = "WorkDone" THEN "save" ELSE "begin"
    BY <1>1, <1>13 DEF GetTableData, queryBuffer, Enters, Valid
  <2>2. Streamed[w] \in allocated
    BY <1>1, <2>1 DEF Target, LifeInv, PointersFound
  <2>3. pc'[w] \in {"save", "store", "done"} => Finished(Streamed[w])
    BY <2>1, <2>2 DEF Finished
  <2>4. pc'[w] \in {"save", "begin"}
    BY <2>1
  <2>5. QED
    BY <1>3, <1>8, <2>1, <2>3, <2>4
<1>14. CASE SaveLookup(w)
  <2>1. /\ pc[w] = "save" /\ pc'[w] = "store" /\ ptr'[w] = gen /\ live
        /\ UNCHANGED <<gen, live, allocated, buf, receiver, delivered, merger, fault, call>>
        /\ \A u \in Reader : u # w => pc'[u] = pc[u] /\ ptr'[u] = ptr[u]
    BY <1>1, <1>14 DEF SaveLookup, queryBuffer, Found
  <2>2. QED
    BY <1>3, <1>8, <2>1
<1>15. CASE SaveTableData(w)
  <2>1. /\ pc[w] = "store" /\ live /\ w \in allocated /\ pc'[w] = "done"
        /\ UNCHANGED <<gen, live, allocated, receiver, delivered, merger, fault, call, ptr>>
        /\ pc[Client] \notin {"end", "done"}
    BY <1>1, <1>2, <1>4, <1>15 DEF SaveTableData, Valid
  <2>2. buf'[w].status = "WorkDone" /\ \A v \in Work : v # w => buf'[v] = buf[v]
    BY <1>1, <1>15 DEF SaveTableData, WorkBuffer
  <2>3. \A t \in Reader : t # w => pc'[t] = pc[t] \/ (pc[t] = "wait" /\ pc'[t] = "woken")
    BY <1>15 DEF SaveTableData, Notified, Waiting
  <2>4. gen = 1
    BY <2>1 DEF LifeInv, TypeOK, QueryLife, Calm, OneBuffer
  <2>5. \A v \in Work : Finished(v) => Finished(v)'
    BY <2>1, <2>2 DEF Finished
  <2>6. OneBuffer' /\ ReceiverSafe' /\ MergersSafe'
    BY <2>1, <2>4 DEF Calm, OneBuffer, ReceiverSafe, MergersSafe
  <2>7. MergersMark'
    BY <1>1, <2>1, <2>2, PlanTypes DEF Calm, MergersMark, Finished
  <2>8. ReadersSafe'
    <3>1. \A t \in Reader : t # w =>
             /\ Target(t)' = Target(t)
             /\ pc'[t] = "lookup" => pc[t] = "lookup"
             /\ pc'[t] \in {"lock", "wait", "woken", "store"} =>
                  pc[t] \in {"lock", "wait", "woken", "store"}
             /\ pc'[t] # "idle" => pc[t] # "idle"
      BY <2>1, <2>3 DEF Target
    <3>2. QED
      BY <2>1, <3>1, PlanTypes DEF Calm, ReadersSafe
  <2>9. InputsFinished'
    <3>1. \A v \in MergeWork :
             pc'[v] \in {"save", "store", "done"} => pc[v] \in {"save", "store", "done"}
      BY <2>1, <2>3, PlanTypes
    <3>2. QED
      BY <2>1, <2>5, <3>1, PlanAssumption DEF Calm, InputsFinished
  <2>10. pc'[Client] \notin {"end", "done"}
    BY <1>1, <2>1, <2>3, PlanTypes
  <2>11. QED
    BY <2>1, <2>6, <2>7, <2>8, <2>9, <2>10 DEF Calm
<1>16. ~ ReaderFault(w)
  BY <1>2 DEF ReaderFault, Found, Valid
<1>17. QED
  BY <1>6, <1>7, <1>9, <1>10, <1>11, <1>12, <1>13, <1>14, <1>15, <1>16 DEF WorkerStep

\* The client ends the query with the finished last table in hand, so with every
\* other thread through (buffer_manager.cc:433-440).
LEMMA ClientCalm ==
  ASSUME LeadsToFinal, LifeInv, ScanInv, SavedOnce, Calm, ClientStep, early' = {}
  PROVE  Calm'
<1>1. /\ Client \in Reader /\ Client \notin MergeWork /\ Final \in Work
      /\ \A w \in MergeWork : w # Client /\ w \in Reader
      /\ pc \in [Reader -> Place] /\ call \in [Reader -> {"whole", "stream"}]
      /\ ptr \in [Reader -> 0..2]
  BY PlanTypes, PlanAssumption DEF LifeInv, TypeOK, Place
<1>2. /\ pc[Client] \notin {"idle", "done"} => live
      /\ pc[Client] = "lookup" => Target(Client) \in allocated
      /\ pc[Client] \in {"lock", "wait", "woken", "store"} => ptr[Client] = gen
      /\ pc[Client] \notin {"poll", "save"} /\ Target(Client) = Final
  BY <1>1 DEF Calm, ReadersSafe, LifeInv, Places, Target
<1>3. CASE GetQueryResult
  <2>1. /\ InitializeBuffer({Final}) /\ {Final} \in SUBSET Work /\ pc[Client] = "idle"
        /\ UNCHANGED <<merger, ptr, call, fault, receiver>>
        /\ \A t \in Reader : pc'[t] = IF t = Client THEN "lookup" ELSE pc[t]
    BY <1>1, <1>3 DEF GetQueryResult
  <2>2. /\ pc[Client] \notin {"end", "done"} /\ pc'[Client] \notin {"end", "done"}
        /\ \A t \in Reader : pc'[t] = pc[t] \/ (pc'[t] = "lookup" /\ Target(t) \in {Final})
        /\ \A v \in MergeWork : pc'[v] # "idle" /\ pc[v] = "idle" => v \in {Final}
    BY <1>1, <1>2, <2>1
  <2>3. QED
    BY <2>1, <2>2, CalmMade
<1>4. ASSUME live,
             UNCHANGED <<gen, live, allocated, buf, receiver, delivered, merger, fault, call>>,
             \A u \in Reader : u # Client => pc'[u] = pc[u] /\ ptr'[u] = ptr[u],
             pc'[Client] # "lookup",
             pc'[Client] \in {"lock", "wait", "woken", "store"} => ptr'[Client] = gen,
             pc'[Client] \in {"end", "done"} => AllThrough
      PROVE  Calm'
  BY <1>1, <1>4, CalmReader
<1>5. CASE ReaderLookup(Client)
  <2>1. /\ pc[Client] = "lookup" /\ pc'[Client] = "lock" /\ ptr'[Client] = gen /\ live
        /\ UNCHANGED <<gen, live, allocated, buf, receiver, delivered, merger, fault, call>>
        /\ \A u \in Reader : u # Client => pc'[u] = pc[u] /\ ptr'[u] = ptr[u]
    BY <1>1, <1>5 DEF ReaderLookup, queryBuffer, Found
  <2>2. QED
    BY <1>4, <2>1
<1>6. CASE WaitWorkDone(Client)
  <2>1. /\ pc[Client] \in {"lock", "woken"} /\ pc'[Client] = "wait" /\ live
        /\ UNCHANGED <<gen, live, allocated, buf, receiver, delivered, merger, fault, call, ptr>>
        /\ \A u \in Reader : u # Client => pc'[u] = pc[u]
    BY <1>1, <1>6 DEF WaitWorkDone, queryBuffer, Enters, Valid
  <2>2. ptr'[Client] = gen
    BY <1>2, <2>1
  <2>3. QED
    BY <1>4, <2>1, <2>2
<1>7. CASE GetFinishedTableData(Client)
  <2>1. /\ pc[Client] \in {"lock", "woken"} /\ live /\ ptr[Client] = gen
        /\ UNCHANGED <<gen, live, allocated, buf, receiver, delivered, merger, fault, ptr, call>>
        /\ pc' = [pc EXCEPT ![Client] = "end"]
    BY <1>1, <1>7 DEF GetFinishedTableData, queryBuffer, Enters, Valid
  <2>2. Final \in allocated
    BY <1>1, <1>2, <2>1 DEF LifeInv, PointersFound
  <2>3. buf[Final].status = "WorkDone"
    BY <1>2, <1>7 DEF GetFinishedTableData
  <2>4. AllThrough
    BY <2>1, <2>2, <2>3, FinalIsLast DEF Finished
  <2>5. pc'[Client] = "end" /\ \A u \in Reader : u # Client => pc'[u] = pc[u]
    BY <1>1, <2>1
  <2>6. QED
    BY <1>4, <2>1, <2>4, <2>5
<1>8. CASE EndQuery
  <2>1. /\ pc[Client] = "end" /\ ~ live' /\ allocated' = {}
        /\ UNCHANGED <<gen, buf, receiver, delivered, merger, fault, call, ptr>>
        /\ pc'[Client] = "done" /\ \A u \in Reader : u # Client => pc'[u] = pc[u]
    BY <1>1, <1>8 DEF EndQuery
  <2>2. AllThrough /\ gen = 1
    BY <2>1 DEF Calm, LifeInv, QueryLife
  <2>3. AllThrough' /\ OneBuffer' /\ ReceiverSafe' /\ MergersMark' /\ InputsFinished'
    BY <1>1, <2>1, <2>2 DEF Calm, AllThrough, OneBuffer, ReceiverSafe, MergersMark,
       InputsFinished
  <2>4. MergersSafe'
    BY <2>1, <2>2 DEF Calm, AllThrough, MergersSafe
  <2>5. ReadersSafe'
    <3>1. \A t \in Reader : t = Client \/ t \in MergeWork
      BY DEF Reader
    <3>2. \A t \in Reader : pc'[t] = "done"
      BY <1>1, <2>1, <2>2, <3>1 DEF AllThrough
    <3>3. QED
      BY <1>1, <2>1, <3>2 DEF ReadersSafe
  <2>6. QED
    BY <2>1, <2>3, <2>4, <2>5 DEF Calm
<1>9. ~ ReaderFault(Client)
  BY <1>1, <1>2 DEF ReaderFault, Found, Valid
<1>10. QED
  BY <1>3, <1>5, <1>6, <1>7, <1>8, <1>9 DEF ClientStep
------------------------------------------------------------------------------
\* Every step that hands out no unfinished table keeps the query calm; the plan is
\* one that reads all its tables.
LEMMA FaultStep ==
  ASSUME LeadsToFinal, LifeInv, ScanInv, SavedOnce, FaultInv, [Next]_vars
  PROVE  FaultInv'
<1> SUFFICES ASSUME early' = {} PROVE Calm'
  BY DEF FaultInv
<1>1. CASE UNCHANGED vars
  <2>1. UNCHANGED <<gen, live, allocated, buf, receiver, delivered, merger, pc, call, ptr,
                    early, fault>>
    BY <1>1 DEF vars, queryBuffer, reading
  <2>2. Calm
    BY <2>1 DEF FaultInv
  <2>3. OneBuffer' /\ ReceiverSafe' /\ MergersSafe' /\ MergersMark'
    BY <2>1, <2>2 DEF Calm, OneBuffer, ReceiverSafe, MergersSafe, MergersMark, Finished
  <2>4. ReadersSafe' /\ InputsFinished' /\ (pc'[Client] \in {"end", "done"} => AllThrough')
    BY <2>1, <2>2 DEF Calm, ReadersSafe, InputsFinished, Target, Finished, AllThrough
  <2>5. QED
    BY <2>1, <2>2, <2>3, <2>4 DEF Calm
<1>2. ASSUME ReceiverStep PROVE Calm'
  <2>1. early = early'
    BY <1>2 DEF ReceiverStep, Receive, ReceiverLookup, PushResult, ReceiverFault, reading
  <2>2. QED
    BY <1>2, <2>1, ReceiverCalm DEF FaultInv
<1>3. ASSUME NEW g \in Generation, NEW w \in ScanWork, MergerStep(g, w) PROVE Calm'
  <2>1. early = early'
    BY <1>3 DEF MergerStep, MergerLookup, PopResult, MergeResult, CountResult, MergerFault,
       reading
  <2>2. QED
    BY <1>3, <2>1, MergerCalm DEF FaultInv
<1>4. ASSUME NEW w \in MergeWork, WorkerStep(w) PROVE Calm'
  <2>1. early \subseteq early'
    BY <1>4 DEF WorkerStep, RunSnippetWork, BeginRead, FindName, ReaderLookup, WaitWorkDone,
       GetFinishedTableData, WaitWorkInProgress, GetTableData, SaveLookup, SaveTableData,
       ReaderFault, reading
  <2>2. Calm
    BY <2>1 DEF FaultInv
  <2>3. QED
    BY <1>4, <2>2, WorkerCalm
<1>5. ASSUME ClientStep PROVE Calm'
  <2>1. early \subseteq early'
    BY <1>5 DEF ClientStep, GetQueryResult, ReaderLookup, WaitWorkDone, GetFinishedTableData,
       EndQuery, ReaderFault, reading
  <2>2. Calm
    BY <2>1 DEF FaultInv
  <2>3. QED
    BY <1>5, <2>2, ClientCalm
<1>6. ASSUME NEW t \in Reader, SpuriousWakeup(t) PROVE Calm'
  <2>1. /\ pc[t] = "wait" /\ live /\ ptr[t] = gen /\ early = early'
        /\ UNCHANGED <<gen, live, allocated, buf, receiver, delivered, merger, fault, call, ptr>>
        /\ pc'[t] = "woken" /\ \A u \in Reader : u # t => pc'[u] = pc[u]
    BY <1>6 DEF SpuriousWakeup, queryBuffer, Valid, LifeInv, TypeOK
  <2>2. Calm
    BY <2>1 DEF FaultInv
  <2>3. t \in MergeWork => /\ t \in allocated
                           /\ call[t] = "stream" => Finished(Whole[t])
    BY <2>1, <2>2 DEF Calm, ReadersSafe, InputsFinished
  <2>4. QED
    BY <2>1, <2>2, <2>3, CalmReader
<1>7. QED
  BY <1>1, <1>2, <1>3, <1>4, <1>5, <1>6 DEF Next

\* For every plan that reads all its tables, any number of results and every
\* interleaving: as long as no reader was handed an unfinished table, no thread
\* uses a work buffer that endQuery has deleted or that was never made
\* (buffer_manager.cc:433-440).
THEOREM NoUseOfDeletedMemory ==
  ASSUME LeadsToFinal
  PROVE  Spec => []FaultOnlyAfterEarlyRead
<1>1. Init => SavedOnce /\ FaultInv
  BY CalmInit DEF Init, SavedOnce, FaultInv
<1>2. LifeInv /\ ScanInv /\ SavedOnce /\ FaultInv /\ [Next]_vars => FaultInv'
  BY FaultStep
<1>3. FaultInv => FaultOnlyAfterEarlyRead
  BY DEF FaultInv, Calm, FaultOnlyAfterEarlyRead
<1>4. QED
  BY <1>1, <1>2, <1>3, LifeInit, LifeStep, ScanInit, ScanStep, SavedStep, PTL DEF Spec

\* And once such a query is answered its buffer stays deleted: no late result and
\* no late thread makes it again (buffer_manager.cc:433-440).
THEOREM BufferStaysReclaimed ==
  ASSUME LeadsToFinal
  PROVE  Spec => []BufferReclaimed
<1>1. Init => SavedOnce /\ FaultInv
  BY CalmInit DEF Init, SavedOnce, FaultInv
<1>2. LifeInv /\ ScanInv /\ SavedOnce /\ FaultInv /\ [Next]_vars => FaultInv'
  BY FaultStep
<1>3. LifeInv /\ FaultInv => BufferReclaimed
  BY DEF LifeInv, TypeOK, QueryLife, FaultInv, Calm, OneBuffer, BufferReclaimed
<1>4. QED
  BY <1>1, <1>2, <1>3, LifeInit, LifeStep, ScanInit, ScanStep, SavedStep, PTL DEF Spec

------------------------------------------------------------------------------
(* What a join streams.                                                       *)

\* Work w has read what it reads.
Past(w) == pc[w] \in {"save", "store", "done"}

\* What work w has streamed is the table it streams, up to row_index.
StreamsSo(w) ==
  LET rows == buf[Streamed[w]].rows
  IN  /\ index[w] <= Len(rows)
      /\ streamed[w] = SubSeq(rows, 1, index[w])
      /\ index[w] > 0 \/ Past(w) => Streamed[w] \in allocated
      /\ Past(w) => buf[Streamed[w]].status = "WorkDone" /\ index[w] = Len(rows)

\* A merging work saves its whole table at once.
UnsavedEmpty ==
  \A w \in MergeWork \cap allocated : buf[w].status # "WorkDone" => buf[w].rows = <<>>

\* Before its last read a work has streamed up to row_index; after it, everything.
StreamInv ==
  /\ \A w \in MergeWork : call[w] = "whole" => index[w] = 0 /\ streamed[w] = <<>>
  /\ gen = 0 => \A w \in MergeWork : call[w] = "whole"
  /\ gen = 1 /\ live => UnsavedEmpty /\ \A w \in MergeWork : call[w] = "stream" => StreamsSo(w)

\* A table that grows keeps its rows up to any index it had.
LEMMA PrefixKept ==
  ASSUME NEW s \in Seq(Row), NEW t \in Seq(Row), IsPrefix(s, t), NEW i \in 0..Len(s)
  PROVE  i <= Len(t) /\ SubSeq(t, 1, i) = SubSeq(s, 1, i)
<1>1. Len(s) \in Nat /\ Len(t) \in Nat /\ Len(s) <= Len(t)
      /\ SubSeq(s, 1, Len(s)) = SubSeq(t, 1, Len(s))
  BY LenProperties DEF IsPrefix
<1>2. i \in Int /\ 0 <= i /\ i <= Len(s)
  BY <1>1
<1>3. CASE i = 0
  BY <1>1, <1>3, SubSeqEmpty
<1>4. CASE i # 0
  <2>1. \A u \in Seq(Row) : Len(s) <= Len(u) /\ Len(u) \in Nat
           => SubSeq(SubSeq(u, 1, Len(s)), 1, i) = SubSeq(u, 1, i)
    <3>1. SUFFICES ASSUME NEW u \in Seq(Row), Len(s) <= Len(u), Len(u) \in Nat
                   PROVE  SubSeq(SubSeq(u, 1, Len(s)), 1, i) = SubSeq(u, 1, i)
      OBVIOUS
    <3> DEFINE n == Len(s)
               m == Len(u)
    <3>2. n \in Nat /\ m \in Nat /\ n <= m /\ i \in 1..n
      BY <1>1, <1>2, <1>4, <3>1
    <3> HIDE DEF n, m
    <3>3. /\ 1 \in 1..m /\ n \in 1..m /\ 1 \in 1..(n - 1 + 1) /\ i \in 1..(n - 1 + 1)
          /\ 1 + 1 - 1 = 1 /\ 1 + i - 1 = i
      BY <1>2, <3>2
    <3>4. SubSeq(SubSeq(u, 1, n), 1, i) = SubSeq(u, 1 + 1 - 1, 1 + i - 1)
      BY <3>3, SubSeqOfSubSeq DEF m
    <3>5. QED
      BY <3>3, <3>4 DEF n
  <2>2. QED
    BY <1>1, <1>2, <2>1
<1>5. QED
  BY <1>3, <1>4

\* Nothing streamed is nothing.
LEMMA NothingStreamed ==
  ASSUME NEW rows \in Seq(Row)
  PROVE  SubSeq(rows, 1, 0) = <<>>
BY SubSeqEmpty

\* A step that moves no row_index and takes no work past its last read keeps what was
\* streamed, because tables only grow.
LEMMA StreamKept ==
  ASSUME LifeInv, StreamInv, gen = 1, live, buf' \in [Work -> WorkBuffer],
         UNCHANGED <<index, streamed, call>>, allocated \subseteq allocated',
         \A w \in MergeWork : call[w] = "stream" /\ Past(w)' => Past(w),
         \A v \in allocated : Grows(v)
  PROVE  \A w \in MergeWork : call'[w] = "stream" => StreamsSo(w)'
<1> SUFFICES ASSUME NEW w \in MergeWork, call[w] = "stream" PROVE StreamsSo(w)'
  OBVIOUS
<1> DEFINE v == Streamed[w]
           s == buf[v].rows
           t == buf'[v].rows
           i == index[w]
<1>1. w \in Reader /\ v \in Work
  BY PlanTypes, PlanAssumption DEF LifeInv, StreamCalls
<1>2. s \in Seq(Row) /\ t \in Seq(Row) /\ i \in Nat /\ Len(s) \in Nat /\ Len(t) \in Nat
  BY <1>1, LenProperties DEF LifeInv, TypeOK, WorkBuffer
<1>3. /\ i <= Len(s) /\ streamed[w] = SubSeq(s, 1, i)
      /\ i > 0 \/ Past(w) => v \in allocated
      /\ Past(w) => buf[v].status = "WorkDone" /\ i = Len(s)
  BY DEF StreamInv, StreamsSo
<1>4. Past(w)' => buf'[v].status = "WorkDone" /\ t = s
  BY <1>3 DEF Grows
<1>5. i <= Len(t) /\ SubSeq(t, 1, i) = SubSeq(s, 1, i)
  <2>1. CASE i = 0
    <3>1. SubSeq(t, 1, 0) = <<>> /\ SubSeq(s, 1, 0) = <<>>
      <4> HIDE DEF s, t
      <4>1. QED
        BY <1>2, NothingStreamed
    <3>2. 0 <= Len(t)
      BY <1>2
    <3> HIDE DEF s, t, i
    <3>3. QED
      BY <2>1, <3>1, <3>2
  <2>2. CASE i # 0 /\ IsPrefix(s, t)
    <3>1. i \in 0..Len(s)
      BY <1>2, <1>3
    <3> HIDE DEF s, t, i
    <3>2. QED
      BY <1>2, <2>2, <3>1, PrefixKept
  <2>3. CASE i # 0 /\ ~ IsPrefix(s, t)
    <3>1. v \in MergeWork \cap allocated
      BY <1>2, <1>3, <2>3 DEF Grows
    <3>2. s # <<>>
      BY <1>2, <1>3, <2>3, EmptySeq
    <3>3. buf[v].status = "WorkDone"
      BY <3>1, <3>2 DEF StreamInv, UnsavedEmpty
    <3>4. t = s
      BY <3>1, <3>3 DEF Grows
    <3>5. QED
      BY <1>3, <3>4
  <2>4. QED
    BY <2>1, <2>2, <2>3
<1> HIDE DEF i, s, t
<1>6. i' = i
  BY DEF i
<1>7. QED
  BY <1>3, <1>4, <1>5 DEF StreamsSo, i, s, t

\* The steps that change what a reader has read (buffer_manager.cc:433-593).
LEMMA WhoReads ==
  ASSUME LifeInv, Next
  PROVE  \/ /\ UNCHANGED <<call, index, streamed, whole, answer, early>>
            /\ \A w \in MergeWork : Past(w)' => Past(w)
         \/ \E t \in Reader : GetFinishedTableData(t)
         \/ \E w \in MergeWork : GetTableData(w)
<1> DEFINE Still == /\ UNCHANGED <<call, index, streamed, whole, answer, early>>
                    /\ \A w \in MergeWork : Past(w)' => Past(w)
<1>1. /\ \A w \in MergeWork : w \in Reader /\ w # Client
      /\ \A t \in Reader : t # Client => t \in MergeWork
      /\ Client \in Reader /\ pc \in [Reader -> Place]
  BY PlanTypes DEF LifeInv, TypeOK, Place
<1>2. ASSUME NEW t \in Reader, NEW p, pc' = [pc EXCEPT ![t] = p],
             p \in {"save", "store", "done"} => t = Client \/ Past(t)
      PROVE  \A w \in MergeWork : Past(w)' => Past(w)
  BY <1>1, <1>2 DEF Past
<1>3. ASSUME pc' = pc PROVE \A w \in MergeWork : Past(w)' => Past(w)
  BY <1>3 DEF Past
<1>4. CASE ReceiverStep
  BY <1>3, <1>4 DEF ReceiverStep, Receive, ReceiverLookup, PushResult, ReceiverFault, reading
<1>5. ASSUME NEW g \in Generation, NEW w \in ScanWork, MergerStep(g, w) PROVE Still
  <2>1. CASE CountResult(g, w)
    <3>1. \A t \in Reader : pc'[t] = "woken" \/ pc'[t] = pc[t]
      BY <2>1 DEF CountResult
    <3>2. QED
      BY <1>1, <2>1, <3>1 DEF CountResult, Past
  <2>2. QED
    BY <1>3, <1>5, <2>1 DEF MergerStep, MergerLookup, PopResult, MergeResult, MergerFault, reading
<1>6. ASSUME NEW w \in MergeWork, WorkerStep(w)
      PROVE  Still \/ GetFinishedTableData(w) \/ GetTableData(w)
  <2>1. CASE RunSnippetWork(w) \/ BeginRead(w) \/ FindName(w)
    BY <1>1, <1>2, <2>1 DEF RunSnippetWork, BeginRead, FindName
  <2>2. CASE ReaderLookup(w) \/ WaitWorkDone(w) \/ WaitWorkInProgress(w)
    BY <1>1, <1>2, <2>2 DEF ReaderLookup, WaitWorkDone, WaitWorkInProgress
  <2>3. CASE SaveLookup(w)
    BY <1>1, <1>2, <2>3 DEF SaveLookup, Past
  <2>4. CASE SaveTableData(w)
    <3>1. \A t \in Reader : t # w => pc'[t] = "woken" \/ pc'[t] = pc[t]
      BY <2>4 DEF SaveTableData
    <3>2. QED
      BY <1>1, <2>4, <3>1 DEF SaveTableData, Past
  <2>5. CASE ReaderFault(w)
    BY <1>3, <2>5 DEF ReaderFault, reading
  <2>6. QED
    BY <1>6, <2>1, <2>2, <2>3, <2>4, <2>5 DEF WorkerStep
<1>7. CASE ClientStep
  <2>1. CASE GetQueryResult \/ ReaderLookup(Client) \/ WaitWorkDone(Client) \/ EndQuery
    BY <1>1, <1>2, <2>1 DEF GetQueryResult, ReaderLookup, WaitWorkDone, EndQuery
  <2>2. CASE ReaderFault(Client)
    BY <1>3, <2>2 DEF ReaderFault, reading
  <2>3. QED
    BY <1>1, <1>7, <2>1, <2>2 DEF ClientStep
<1>8. ASSUME NEW t \in Reader, SpuriousWakeup(t) PROVE Still
  BY <1>1, <1>2, <1>8 DEF SpuriousWakeup
<1>9. CASE UNCHANGED vars
  BY <1>3, <1>9 DEF vars, reading
<1>10. QED
  BY <1>1, <1>4, <1>5, <1>6, <1>7, <1>8, <1>9 DEF Next

\* The steps that change a table or the buffer it is in (buffer_manager.cc:160-625).
LEMMA WhoWrites ==
  ASSUME LifeInv, Next
  PROVE  \/ \E W \in SUBSET Work : InitializeBuffer(W)
         \/ UNCHANGED <<gen, live, allocated, buf>>
         \/ /\ UNCHANGED <<gen, live, allocated>>
            /\ \/ PushResult
               \/ \E g \in Generation, w \in ScanWork :
                    PopResult(g, w) \/ MergeResult(g, w) \/ CountResult(g, w)
               \/ \E w \in MergeWork : SaveTableData(w)
         \/ EndQuery /\ UNCHANGED <<gen, buf>> /\ ~ live'
<1>1. CASE ReceiverStep
  <2>1. ASSUME NEW r \in Result, Receive(r) PROVE \E W \in SUBSET Work : InitializeBuffer(W)
    BY <2>1, PlanTypes DEF Receive
  <2>2. QED
    BY <1>1, <2>1 DEF ReceiverStep, ReceiverLookup, PushResult, ReceiverFault, queryBuffer
<1>2. ASSUME NEW g \in Generation, NEW w \in ScanWork, MergerStep(g, w)
      PROVE  \/ UNCHANGED <<gen, live, allocated, buf>>
             \/ /\ UNCHANGED <<gen, live, allocated>>
                /\ PopResult(g, w) \/ MergeResult(g, w) \/ CountResult(g, w)
  BY <1>2 DEF MergerStep, MergerLookup, PopResult, MergeResult, CountResult, MergerFault,
     queryBuffer
<1>3. ASSUME NEW w \in MergeWork, WorkerStep(w)
      PROVE  \/ \E W \in SUBSET Work : InitializeBuffer(W)
             \/ UNCHANGED <<gen, live, allocated, buf>>
             \/ UNCHANGED <<gen, live, allocated>> /\ SaveTableData(w)
  <2>1. CASE RunSnippetWork(w) \/ BeginRead(w)
    BY <2>1, PlanTypes DEF RunSnippetWork, BeginRead
  <2>2. QED
    BY <1>3, <2>1 DEF WorkerStep, FindName, ReaderLookup, WaitWorkDone, GetFinishedTableData,
       WaitWorkInProgress, GetTableData, SaveLookup, SaveTableData, ReaderFault, queryBuffer
<1>4. CASE ClientStep
  <2>1. CASE GetQueryResult
    BY <2>1, PlanAssumption DEF GetQueryResult
  <2>2. QED
    BY <1>4, <2>1 DEF ClientStep, ReaderLookup, WaitWorkDone, GetFinishedTableData, EndQuery,
       ReaderFault, queryBuffer
<1>5. QED
  BY <1>1, <1>2, <1>3, <1>4 DEF Next, SpuriousWakeup, vars, queryBuffer

\* A step that writes a work's buffer has one to write to.
LEMMA WritersAreLive ==
  ASSUME \/ PushResult
         \/ \E g \in Generation, w \in ScanWork :
              PopResult(g, w) \/ MergeResult(g, w) \/ CountResult(g, w)
         \/ \E w \in MergeWork : SaveTableData(w)
  PROVE  live
<1>1. CASE PushResult
  BY <1>1 DEF PushResult, Valid
<1>2. ASSUME NEW g \in Generation, NEW w \in ScanWork, PopResult(g, w)
      PROVE  live
  BY <1>2 DEF PopResult, Valid
<1>3. ASSUME NEW g \in Generation, NEW w \in ScanWork, MergeResult(g, w)
      PROVE  live
  BY <1>3 DEF MergeResult, Valid
<1>4. ASSUME NEW g \in Generation, NEW w \in ScanWork, CountResult(g, w)
      PROVE  live
  BY <1>4 DEF CountResult, Valid
<1>5. ASSUME NEW w \in MergeWork, SaveTableData(w) PROVE live
  BY <1>5 DEF SaveTableData, Valid
<1>6. QED
  BY <1>1, <1>2, <1>3, <1>4, <1>5

\* One query's buffer, made once: what is asked of every step of its life.
LEMMA BufferStep ==
  ASSUME LifeInv, Next
  PROVE  /\ gen <= gen'
         /\ gen = 0 => \/ gen' = 0 /\ allocated' = allocated /\ buf' = buf
                       \/ \E W \in SUBSET Work : InitializeBuffer(W) /\ ~ live
         /\ gen' = 1 /\ live' /\ gen # 0 => gen = 1 /\ live /\ allocated \subseteq allocated'
<1>1. gen \in 0..2 /\ (live => gen # 0) /\ live \in BOOLEAN
  BY DEF LifeInv, TypeOK, QueryLife
<1>2. ASSUME NEW W \in SUBSET Work, InitializeBuffer(W)
      PROVE  /\ gen <= gen' /\ gen' # 0
             /\ gen = 0 => ~ live
             /\ gen' = 1 /\ gen # 0 => gen = 1 /\ live /\ allocated \subseteq allocated'
  BY <1>1, <1>2 DEF InitializeBuffer
<1>3. ASSUME PushResult \/ (\E g \in Generation, w \in ScanWork :
                    PopResult(g, w) \/ MergeResult(g, w) \/ CountResult(g, w))
               \/ \E w \in MergeWork : SaveTableData(w)
      PROVE  gen # 0
  BY <1>1, <1>3, WritersAreLive
<1>4. EndQuery => gen # 0
  BY DEF EndQuery, LifeInv, QueryLife
<1>5. QED
  BY <1>1, <1>2, <1>3, <1>4, WhoWrites

\* A merging work's buffer is empty until the work saves its table.
LEMMA UnsavedStep ==
  ASSUME LifeInv, StreamInv, Next, gen' = 1, live'
  PROVE  UnsavedEmpty'
<1>1. MergeWork \cap ScanWork = {} /\ MergeWork \subseteq Work /\ EmptyBuffer.rows = <<>>
  BY PlanTypes DEF ScanWork, EmptyBuffer
<1>2. buf \in [Work -> WorkBuffer]
  BY DEF LifeInv, TypeOK
<1>3. CASE gen = 0
  <2>1. live \in BOOLEAN /\ gen' # 0
    BY DEF LifeInv, TypeOK
  <2>2. PICK W \in SUBSET Work : InitializeBuffer(W) /\ ~ live
    BY <1>3, <2>1, BufferStep
  <2>3. \A w \in Work \cap allocated' : buf'[w] = EmptyBuffer
    BY <2>2 DEF InitializeBuffer, Missing
  <2>4. QED
    BY <1>1, <2>3 DEF UnsavedEmpty
<1>4. CASE gen # 0
  <2>1. gen = 1 /\ live /\ UnsavedEmpty
    BY <1>4, BufferStep DEF StreamInv
  <2>2. ASSUME NEW W \in SUBSET Work, InitializeBuffer(W) PROVE UnsavedEmpty'
    <3>1. \A w \in Work \cap allocated' : buf'[w] = EmptyBuffer \/ (w \in allocated /\ buf'[w] = buf[w])
      BY <2>1, <2>2 DEF InitializeBuffer, Missing
    <3>2. QED
      BY <1>1, <2>1, <3>1 DEF UnsavedEmpty
  <2>3. ASSUME allocated' = allocated, \A w \in MergeWork : buf'[w] = buf[w] PROVE UnsavedEmpty'
    BY <2>1, <2>3 DEF UnsavedEmpty
  <2>4. CASE UNCHANGED <<gen, live, allocated, buf>>
    BY <2>3, <2>4
  <2>5. ASSUME allocated' = allocated, PushResult PROVE UnsavedEmpty'
    <3>1. receiver.item \in Result
      BY <2>5 DEF PushResult, LifeInv, TypeOK
    <3>2. \A w \in MergeWork : buf'[w] = buf[w]
      BY <1>1, <1>2, <2>5, <3>1, PlanTypes DEF PushResult
    <3>3. QED
      BY <2>3, <2>5, <3>2
  <2>6. ASSUME allocated' = allocated, NEW g \in Generation, NEW v \in ScanWork,
               PopResult(g, v) \/ MergeResult(g, v) \/ CountResult(g, v)
        PROVE  UnsavedEmpty'
    <3>1. \A w \in MergeWork : buf'[w] = buf[w]
      BY <1>1, <1>2, <2>6 DEF PopResult, MergeResult, CountResult
    <3>2. QED
      BY <2>3, <2>6, <3>1
  <2>7. ASSUME allocated' = allocated, NEW v \in MergeWork, SaveTableData(v) PROVE UnsavedEmpty'
    <3>1. \A w \in MergeWork : buf'[w] = buf[w] \/ buf'[w].status = "WorkDone"
      BY <1>1, <1>2, <2>7 DEF SaveTableData, WorkBuffer
    <3>2. QED
      BY <2>1, <2>7, <3>1 DEF UnsavedEmpty
  <2>8. QED
    BY <2>2, <2>4, <2>5, <2>6, <2>7, WhoWrites
<1>5. QED
  BY <1>3, <1>4

\* A work turns to its second table with row_index 0 and nothing streamed.
LEMMA StreamBegins ==
  ASSUME LifeInv, StreamInv, NEW t \in Reader, GetFinishedTableData(t), gen = 1, live
  PROVE  /\ \A w \in MergeWork : call'[w] = "whole" => index'[w] = 0 /\ streamed'[w] = <<>>
         /\ \A w \in MergeWork : call'[w] = "stream" => StreamsSo(w)'
<1>1. /\ UNCHANGED <<buf, allocated, index, streamed>> /\ call[t] = "whole"
      /\ call' = call \/ (t # Client /\ call' = [call EXCEPT ![t] = "stream"] /\ pc'[t] = "begin")
      /\ \E p : pc' = [pc EXCEPT ![t] = p]
  BY DEF GetFinishedTableData, queryBuffer, LifeInv, TypeOK
<1>2. /\ call \in [Reader -> {"whole", "stream"}] /\ pc \in [Reader -> Place]
      /\ \A w \in MergeWork : w \in Reader
  BY PlanTypes DEF LifeInv, TypeOK, Place
<1>3. ASSUME NEW w \in MergeWork, w # t, call'[w] = "stream" PROVE StreamsSo(w)'
  <2>1. call[w] = "stream" /\ pc'[w] = pc[w]
    BY <1>1, <1>2, <1>3
  <2>2. QED
    BY <1>1, <2>1 DEF StreamInv, StreamsSo, Past
<1>4. ASSUME t \in MergeWork, call'[t] = "stream" PROVE StreamsSo(t)'
  <2>1. call'[t] = "stream" /\ pc'[t] = "begin" /\ Streamed[t] \in Work
    <3>1. call'[t] = "stream" /\ pc'[t] = "begin"
      BY <1>1, <1>4
    <3>2. Streamed[t] # NoWork
      BY <1>1, <1>4 DEF GetFinishedTableData
    <3>3. QED
      BY <1>4, <3>1, <3>2, PlanAssumption
  <2>2. index[t] = 0 /\ streamed[t] = <<>> /\ buf[Streamed[t]].rows \in Seq(Row)
    BY <1>1, <1>4, <2>1 DEF StreamInv, LifeInv, TypeOK, WorkBuffer
  <2>3. SubSeq(buf[Streamed[t]].rows, 1, 0) = <<>> /\ Len(buf[Streamed[t]].rows) \in Nat
    BY <2>2, NothingStreamed, LenProperties
  <2>4. QED
    BY <1>1, <2>1, <2>2, <2>3 DEF StreamsSo, Past
<1>5. QED
  <2>1. \A w \in MergeWork : call'[w] = "whole" => call[w] = "whole"
    BY <1>1, <1>2
  <2>2. QED
    BY <1>1, <1>3, <1>4, <2>1 DEF StreamInv

\* What was read and what is new are the table.
LEMMA StreamJoins ==
  ASSUME NEW rows \in Seq(Row), NEW i \in Nat, i <= Len(rows)
  PROVE  SubSeq(rows, 1, i) \o SubSeq(rows, i + 1, Len(rows)) = SubSeq(rows, 1, Len(rows))
<1> DEFINE n == Len(rows)
<1>1. n \in Nat /\ i <= n
  BY LenProperties
<1> HIDE DEF n
<1>2. 1 \in 1..(n + 1) /\ i \in (1 - 1)..n /\ n \in i..n
  BY <1>1
<1>3. SubSeq(rows, 1, i) \o SubSeq(rows, i + 1, n) = SubSeq(rows, 1, n)
  BY <1>2, ConcatAdjacentSubSeq DEF n
<1>4. QED
  BY <1>3 DEF n

\* A pass of the join loop takes up where the last one stopped.
LEMMA StreamGoesOn ==
  ASSUME LifeInv, StreamInv, NEW w \in MergeWork, GetTableData(w), gen = 1, live
  PROVE  /\ \A u \in MergeWork : call'[u] = "whole" => index'[u] = 0 /\ streamed'[u] = <<>>
         /\ \A u \in MergeWork : call'[u] = "stream" => StreamsSo(u)'
<1> DEFINE v == Streamed[w]
           rows == buf[v].rows
           i == index[w]
           n == Len(rows)
<1>1. /\ UNCHANGED <<buf, allocated, call>> /\ call[w] = "stream"
      /\ streamed' = [streamed EXCEPT ![w] = @ \o SubSeq(rows, i + 1, n)]
      /\ index' = [index EXCEPT ![w] = n]
      /\ pc' = [pc EXCEPT ![w] = IF buf[v].status = "WorkDone" THEN "save" ELSE "begin"]
      /\ pc[w] \in {"lock", "woken"} /\ ptr[w] = gen
  BY DEF GetTableData, queryBuffer, NewRows, Enters, Valid
<1>2. /\ \A u \in MergeWork : u \in Reader
      /\ pc \in [Reader -> Place] /\ index \in [Reader -> Nat] /\ streamed \in [Reader -> Seq(Row)]
  BY PlanTypes DEF LifeInv, TypeOK, Place
<1>3. v \in Work /\ v \in allocated
  BY <1>1, <1>2, PlanAssumption DEF LifeInv, StreamCalls, PointersFound, Target
<1>4. rows \in Seq(Row) /\ n \in Nat
  BY <1>3, LenProperties DEF LifeInv, TypeOK, WorkBuffer
<1>5. i \in Nat /\ i <= n /\ streamed[w] = SubSeq(rows, 1, i)
  BY <1>1, <1>2 DEF StreamInv, StreamsSo
<1>6. SubSeq(rows, 1, i) \o SubSeq(rows, i + 1, n) = SubSeq(rows, 1, n)
  BY <1>4, <1>5, StreamJoins
<1>7. /\ streamed'[w] = SubSeq(rows, 1, n) /\ index'[w] = n
      /\ pc'[w] = IF buf[v].status = "WorkDone" THEN "save" ELSE "begin"
  <2>1. streamed'[w] = streamed[w] \o SubSeq(rows, i + 1, n)
    BY <1>1, <1>2
  <2>2. QED
    BY <1>1, <1>2, <1>5, <1>6, <2>1
<1>8. StreamsSo(w)'
  <2>1. buf' = buf /\ allocated' = allocated
    BY <1>1
  <2>2. index'[w] <= n
    BY <1>4, <1>7
  <2>3. Past(w)' => buf[v].status = "WorkDone"
    BY <1>7 DEF Past
  <2>4. index'[w] = n /\ streamed'[w] = SubSeq(rows, 1, index'[w])
    BY <1>7
  <2>5. QED
    BY <1>3, <2>1, <2>2, <2>3, <2>4 DEF StreamsSo
<1>9. ASSUME NEW u \in MergeWork, u # w
      PROVE  index'[u] = index[u] /\ streamed'[u] = streamed[u] /\ pc'[u] = pc[u]
  BY <1>1, <1>2, <1>9
<1>10. ASSUME NEW u \in MergeWork, u # w, call'[u] = "stream" PROVE StreamsSo(u)'
  BY <1>1, <1>9, <1>10 DEF StreamInv, StreamsSo, Past
<1>11. QED
  BY <1>1, <1>8, <1>9, <1>10 DEF StreamInv

\* Every step of every thread.
LEMMA StreamStep ==
  ASSUME LifeInv, LifeInv', ScanInv, SavedOnce, StreamInv, [Next]_vars
  PROVE  StreamInv'
<1>1. CASE UNCHANGED vars
  BY <1>1 DEF vars, queryBuffer, reading, StreamInv, UnsavedEmpty, StreamsSo, Past
<1>2. ASSUME Next PROVE StreamInv'
  <2>1. gen = 0 => ~ live
    BY DEF LifeInv, TypeOK, QueryLife
  <2>2. ASSUME NEW t \in Reader, GetFinishedTableData(t) PROVE gen # 0
    BY <2>1, <2>2 DEF GetFinishedTableData, Enters, Valid
  <2>3. ASSUME NEW w \in MergeWork, GetTableData(w) PROVE gen # 0
    BY <2>1, <2>3 DEF GetTableData, Enters, Valid
  <2>4. ASSUME gen = 0 PROVE StreamInv'
    <3>1. UNCHANGED <<call, index, streamed>>
      BY <1>2, <2>2, <2>3, <2>4, WhoReads
    <3>2. gen' = 1 /\ live' => UnsavedEmpty'
      BY <1>2, UnsavedStep
    <3>3. QED
      BY <2>4, <3>1, <3>2 DEF StreamInv
  <2>5. ASSUME gen # 0, ~ (gen' = 1 /\ live') PROVE StreamInv'
    <3>1. gen' # 0
      BY <1>2, <2>5, BufferStep DEF LifeInv, TypeOK
    <3>2. \A w \in MergeWork : call'[w] = "whole" => index'[w] = 0 /\ streamed'[w] = <<>>
      <4>1. CASE UNCHANGED <<call, index, streamed>>
        BY <4>1 DEF StreamInv
      <4>2. ASSUME NEW t \in Reader, GetFinishedTableData(t)
            PROVE  \A w \in MergeWork : call'[w] = "whole" => index'[w] = 0 /\ streamed'[w] = <<>>
        <5>1. /\ UNCHANGED <<index, streamed>>
              /\ call' = call \/ call' = [call EXCEPT ![t] = "stream"]
          BY <4>2 DEF GetFinishedTableData
        <5>2. \A w \in MergeWork : call'[w] = "whole" => call[w] = "whole"
          BY <5>1, PlanTypes DEF LifeInv, TypeOK
        <5>3. QED
          BY <5>1, <5>2 DEF StreamInv
      <4>3. ASSUME NEW w \in MergeWork, GetTableData(w)
            PROVE  \A u \in MergeWork : call'[u] = "whole" => index'[u] = 0 /\ streamed'[u] = <<>>
        <5>1. /\ call' = call /\ call[w] = "stream"
              /\ \E x, y : index' = [index EXCEPT ![w] = x] /\ streamed' = [streamed EXCEPT ![w] = y]
          BY <4>3 DEF GetTableData
        <5>2. \A u \in MergeWork : u # w => index'[u] = index[u] /\ streamed'[u] = streamed[u]
          BY <5>1, PlanTypes DEF LifeInv, TypeOK
        <5>3. QED
          BY <5>1, <5>2 DEF StreamInv
      <4>4. QED
        BY <1>2, <4>1, <4>2, <4>3, WhoReads
    <3>3. QED
      BY <2>5, <3>1, <3>2 DEF StreamInv
  <2>6. ASSUME gen # 0, gen' = 1, live' PROVE StreamInv'
    <3>1. gen = 1 /\ live /\ allocated \subseteq allocated' /\ UnsavedEmpty'
      BY <1>2, <2>6, BufferStep, UnsavedStep
    <3>2. SUFFICES /\ \A w \in MergeWork : call'[w] = "whole" => index'[w] = 0 /\ streamed'[w] = <<>>
                   /\ \A w \in MergeWork : call'[w] = "stream" => StreamsSo(w)'
      BY <2>6, <3>1 DEF StreamInv
    <3>3. CASE /\ UNCHANGED <<call, index, streamed>>
               /\ \A w \in MergeWork : Past(w)' => Past(w)
      <4>1. \A v \in allocated : Grows(v)
        BY <1>2, <2>6, <3>1, GrowStep
      <4>2. buf' \in [Work -> WorkBuffer]
        BY DEF LifeInv, TypeOK
      <4>3. \A w \in MergeWork : call'[w] = "stream" => StreamsSo(w)'
        BY <3>1, <3>3, <4>1, <4>2, StreamKept
      <4>4. QED
        BY <3>3, <4>3 DEF StreamInv
    <3>4. ASSUME NEW t \in Reader, GetFinishedTableData(t)
          PROVE  /\ \A w \in MergeWork : call'[w] = "whole" => index'[w] = 0 /\ streamed'[w] = <<>>
                 /\ \A w \in MergeWork : call'[w] = "stream" => StreamsSo(w)'
      BY <3>1, <3>4, StreamBegins
    <3>5. ASSUME NEW w \in MergeWork, GetTableData(w)
          PROVE  /\ \A u \in MergeWork : call'[u] = "whole" => index'[u] = 0 /\ streamed'[u] = <<>>
                 /\ \A u \in MergeWork : call'[u] = "stream" => StreamsSo(u)'
      BY <3>1, <3>5, StreamGoesOn
    <3>6. QED
      BY <1>2, <3>3, <3>4, <3>5, WhoReads
  <2>7. QED
    BY <2>4, <2>5, <2>6
<1>3. QED
  BY <1>1, <1>2

\* A query begins with nothing streamed.
LEMMA StreamInit == Init => StreamInv
BY PlanTypes DEF Init, StreamInv

\* For every plan, any batch size, every interleaving and every wakeup, also a spurious
\* one: what a join has streamed is its table up to row_index, each row once and in order,
\* and all of it when the join ends (buffer_manager.cc:537-593, merge_query_manager.cc).
THEOREM StreamsOnce == Spec => []StreamExactlyOnce
<1>1. StreamInv => StreamExactlyOnce
  BY DEF StreamInv, StreamsSo, StreamExactlyOnce, Past
<1>2. Init => SavedOnce
  BY DEF Init, SavedOnce
<1>3. QED
  BY <1>1, <1>2, LifeInit, LifeStep, ScanInit, ScanStep, SavedStep, StreamInit, StreamStep, PTL DEF Spec

------------------------------------------------------------------------------
(* What the steps of a query do to the tables, and what its readers have read. *)

\* A work that nobody has asked for has an empty buffer.
Fresh ==
  /\ ~ live => allocated = {}
  /\ gen = 0 \/ live => \A w \in Work : w \notin allocated => buf[w] = EmptyBuffer

\* What a merging work has read with getFinishedTableData is the table.
WholeRead ==
  \A w \in MergeWork : call[w] = "stream" \/ Past(w) => whole[w] = buf[Whole[w]].rows

\* A work with a table to stream streams it before it saves its own.
CallsPast == \A w \in MergeWork : Past(w) /\ Streamed[w] # NoWork => call[w] = "stream"

\* There is no answer before the client has the last table.
Unanswered == pc[Client] \notin {"end", "done"} => answer.status = "none"

\* What the readers of a calm query have read.
ReadInv == Fresh /\ WholeRead /\ CallsPast /\ Unanswered

\* Readers handed an unfinished table are remembered.
LEMMA EarlyStays == LifeInv /\ [Next]_vars => early \subseteq early'
<1> SUFFICES ASSUME LifeInv, [Next]_vars PROVE early \subseteq early'
  OBVIOUS
<1>1. CASE UNCHANGED vars
  BY <1>1 DEF vars, reading
<1>2. CASE Next
  BY <1>2, WhoReads DEF GetFinishedTableData, GetTableData
<1>3. QED
  BY <1>1, <1>2

\* While a query is calm its tables change in four ways only; in particular a buffer
\* that is made holds what the model held before, nothing.
LEMMA CalmBuffers ==
  ASSUME LifeInv, Calm, Calm', Fresh, Next
  PROVE  \/ buf' = buf
         \/ /\ live /\ live' /\ gen = 1 /\ UNCHANGED <<gen, allocated>>
            /\ \/ PushResult
               \/ \E g \in Generation, w \in ScanWork :
                    PopResult(g, w) \/ MergeResult(g, w) \/ CountResult(g, w)
               \/ \E w \in MergeWork : SaveTableData(w)
<1>1. gen \in 0..1 /\ gen' <= 1 /\ buf \in [Work -> WorkBuffer] /\ (live => gen = 1)
  BY DEF LifeInv, TypeOK, Calm, OneBuffer, QueryLife
<1>2. ASSUME NEW W \in SUBSET Work, InitializeBuffer(W) PROVE buf' = buf
  <2>1. gen = 0 \/ live
    BY <1>1, <1>2 DEF InitializeBuffer
  <2>2. \A w \in Missing(W) : w \notin allocated
    BY DEF Missing, Fresh
  <2>3. \A w \in Missing(W) : buf[w] = EmptyBuffer
    BY <2>1, <2>2 DEF Fresh, Missing
  <2>4. buf' = [w \in Work |-> buf[w]]
    BY <1>2, <2>3 DEF InitializeBuffer
  <2>5. QED
    BY <1>1, <2>4
<1>3. ASSUME PushResult \/ (\E g \in Generation, w \in ScanWork :
                    PopResult(g, w) \/ MergeResult(g, w) \/ CountResult(g, w))
               \/ \E w \in MergeWork : SaveTableData(w)
      PROVE  live
  BY <1>3, WritersAreLive
<1>4. QED
  BY <1>1, <1>2, <1>3, WhoWrites

\* Buffers are made empty, and what is written is written to a buffer that was made.
LEMMA FreshStep ==
  ASSUME LifeInv, Calm, Calm', Fresh, Next
  PROVE  Fresh'
<1>1. gen \in 0..1 /\ gen' <= 1 /\ buf \in [Work -> WorkBuffer] /\ live \in BOOLEAN
      /\ (live => gen = 1) /\ (gen = 0 => ~ live)
  BY DEF LifeInv, TypeOK, Calm, OneBuffer, QueryLife
<1>2. ASSUME NEW W \in SUBSET Work, InitializeBuffer(W) PROVE Fresh'
  <2>1. live' /\ (gen = 0 \/ live)
    BY <1>1, <1>2 DEF InitializeBuffer
  <2>2. \A w \in Work : w \notin allocated' => w \notin allocated /\ buf'[w] = buf[w]
    BY <1>2 DEF InitializeBuffer, Missing, Fresh
  <2>3. QED
    BY <2>1, <2>2 DEF Fresh
<1>3. CASE UNCHANGED <<gen, live, allocated, buf>>
  BY <1>3 DEF Fresh
<1>4. ASSUME NEW v \in allocated, UNCHANGED <<gen, live, allocated>>,
             \A w \in Work : w # v => buf'[w] = buf[w]
      PROVE  Fresh'
  BY <1>4 DEF Fresh
<1>5. ASSUME PushResult, UNCHANGED <<gen, live, allocated>> PROVE Fresh'
  <2>1. WorkOf[receiver.item] \in allocated
    BY <1>5 DEF PushResult, Calm, ReceiverSafe
  <2>2. \A w \in Work : w # WorkOf[receiver.item] => buf'[w] = buf[w]
    BY <1>1, <1>5 DEF PushResult
  <2>3. QED
    BY <1>4, <1>5, <2>1, <2>2
<1>6. ASSUME UNCHANGED <<gen, live, allocated>>, NEW g \in Generation, NEW v \in ScanWork,
             PopResult(g, v) \/ MergeResult(g, v) \/ CountResult(g, v)
      PROVE  Fresh'
  <2>1. v \in allocated
    BY <1>6 DEF PopResult, MergeResult, CountResult, Calm, MergersSafe
  <2>2. \A w \in Work : w # v => buf'[w] = buf[w]
    BY <1>1, <1>6 DEF PopResult, MergeResult, CountResult
  <2>3. QED
    BY <1>4, <1>6, <2>1, <2>2
<1>7. ASSUME UNCHANGED <<gen, live, allocated>>, NEW v \in MergeWork, SaveTableData(v)
      PROVE  Fresh'
  <2>1. v \in allocated
    BY <1>7 DEF SaveTableData, Valid, Calm, ReadersSafe
  <2>2. \A w \in Work : w # v => buf'[w] = buf[w]
    BY <1>1, <1>7 DEF SaveTableData
  <2>3. QED
    BY <1>4, <1>7, <2>1, <2>2
<1>8. CASE EndQuery /\ UNCHANGED <<gen, buf>> /\ ~ live'
  <2>1. gen = 1
    BY <1>8 DEF EndQuery, LifeInv, QueryLife
  <2>2. QED
    BY <1>8, <2>1 DEF EndQuery, Fresh
<1>9. QED
  BY <1>2, <1>3, <1>5, <1>6, <1>7, <1>8, WhoWrites

\* A finished table stays what it is, also when the query is over.
LEMMA FinishedRows ==
  ASSUME LifeInv, ScanInv, SavedOnce, Calm, Calm', Fresh, Next, NEW w \in Work,
         live => Finished(w)
  PROVE  buf'[w].rows = buf[w].rows
<1>1. ASSUME live, live', gen' = gen PROVE buf'[w].rows = buf[w].rows
  BY <1>1, GrowStep DEF Finished, Grows
<1>2. QED
  BY <1>1, CalmBuffers

\* The client answers once, and does nothing else after that but end the query.
LEMMA ClientStays ==
  ASSUME LifeInv, Next, pc[Client] \in {"end", "done"}
  PROVE  pc'[Client] \in {"end", "done"}
<1>1. /\ Client \in Reader /\ Client \notin MergeWork /\ pc \in [Reader -> Place]
      /\ \A t \in Reader : t # Client => t \in MergeWork
  BY PlanTypes DEF LifeInv, TypeOK, Place
<1>2. ASSUME NEW w \in MergeWork, NEW p, pc' = [pc EXCEPT ![w] = p]
      PROVE  pc'[Client] = pc[Client]
  BY <1>1, <1>2
<1>3. CASE ReceiverStep
  BY <1>3 DEF ReceiverStep, Receive, ReceiverLookup, PushResult, ReceiverFault, reading
<1>4. ASSUME NEW g \in Generation, NEW w \in ScanWork, MergerStep(g, w)
      PROVE  pc'[Client] = pc[Client]
  <2>1. CASE CountResult(g, w)
    BY <1>1, <2>1 DEF CountResult, Notified, Waiting
  <2>2. QED
    BY <1>4, <2>1 DEF MergerStep, MergerLookup, PopResult, MergeResult, MergerFault, reading
<1>5. ASSUME NEW w \in MergeWork, WorkerStep(w) PROVE pc'[Client] = pc[Client]
  <2>1. CASE SaveTableData(w)
    BY <1>1, <2>1 DEF SaveTableData, Notified, Waiting
  <2>2. CASE GetFinishedTableData(w)
    BY <1>1, <1>2, <2>2 DEF GetFinishedTableData
  <2>3. CASE ReaderFault(w)
    BY <2>3 DEF ReaderFault, reading
  <2>4. QED
    BY <1>2, <1>5, <2>1, <2>2, <2>3 DEF WorkerStep, RunSnippetWork, BeginRead, FindName,
       ReaderLookup, WaitWorkDone, WaitWorkInProgress, GetTableData, SaveLookup
<1>6. CASE ClientStep
  BY <1>1, <1>6 DEF ClientStep, GetQueryResult, ReaderLookup, WaitWorkDone,
     GetFinishedTableData, Enters, EndQuery, ReaderFault, reading
<1>7. ASSUME NEW t \in Reader, SpuriousWakeup(t) PROVE pc'[Client] = pc[Client]
  BY <1>1, <1>7 DEF SpuriousWakeup
<1>8. CASE UNCHANGED vars
  BY <1>8 DEF vars, reading
<1>9. QED
  BY <1>3, <1>4, <1>5, <1>6, <1>7, <1>8 DEF Next

\* What the readers have read goes on being what the tables hold.
LEMMA ReadStep ==
  ASSUME LifeInv, ScanInv, SavedOnce, Calm, Calm', ReadInv, Next
  PROVE  ReadInv'
<1>1. /\ \A w \in MergeWork : w \in Reader /\ w # Client /\ Whole[w] \in Work
      /\ pc \in [Reader -> Place] /\ call \in [Reader -> {"whole", "stream"}]
      /\ whole \in [Reader -> Seq(Row)]
  BY PlanTypes, PlanAssumption DEF LifeInv, TypeOK, Place
<1>2. Fresh'
  BY FreshStep DEF ReadInv
<1>3. CASE /\ UNCHANGED <<call, index, streamed, whole, answer, early>>
           /\ \A w \in MergeWork : Past(w)' => Past(w)
  <2>1. ASSUME NEW w \in MergeWork, call'[w] = "stream" \/ Past(w)'
        PROVE  whole'[w] = buf'[Whole[w]].rows
    <3>1. call[w] = "stream" \/ Past(w)
      BY <1>3, <2>1
    <3>2. live => Finished(Whole[w])
      BY <3>1 DEF Calm, InputsFinished, Past
    <3>3. buf'[Whole[w]].rows = buf[Whole[w]].rows
      BY <1>1, <3>2, FinishedRows DEF ReadInv
    <3>4. QED
      BY <1>3, <3>1, <3>3 DEF ReadInv, WholeRead
  <2>2. CallsPast'
    BY <1>3 DEF ReadInv, CallsPast
  <2>3. Unanswered'
    BY <1>3, ClientStays DEF ReadInv, Unanswered
  <2>4. QED
    BY <1>2, <2>1, <2>2, <2>3 DEF ReadInv, WholeRead
<1>4. ASSUME NEW t \in Reader, GetFinishedTableData(t) PROVE ReadInv'
  <2>1. /\ buf' = buf /\ call[t] = "whole" /\ whole' = [whole EXCEPT ![t] = buf[Target(t)].rows]
        /\ \/ t = Client /\ pc' = [pc EXCEPT ![t] = "end"] /\ call' = call
           \/ /\ t # Client /\ Streamed[t] = NoWork /\ pc' = [pc EXCEPT ![t] = "save"]
              /\ UNCHANGED <<call, answer>>
           \/ /\ t # Client /\ pc' = [pc EXCEPT ![t] = "begin"] /\ UNCHANGED answer
              /\ call' = [call EXCEPT ![t] = "stream"]
    BY <1>4 DEF GetFinishedTableData
  <2>2. \A w \in MergeWork : w # t => /\ whole'[w] = whole[w] /\ call'[w] = call[w]
                                      /\ pc'[w] = pc[w]
    BY <1>1, <2>1
  <2>3. t \in MergeWork => whole'[t] = buf'[Whole[t]].rows
    BY <1>1, <2>1 DEF Target
  <2>4. WholeRead'
    BY <2>1, <2>2, <2>3 DEF ReadInv, WholeRead, Past
  <2>5. CallsPast'
    <3>1. t \in MergeWork /\ Past(t)' => Streamed[t] = NoWork
      BY <1>1, <2>1 DEF Past
    <3>2. QED
      BY <2>2, <3>1 DEF ReadInv, CallsPast, Past
  <2>6. Unanswered'
    <3>1. CASE t = Client
      BY <1>1, <2>1, <3>1, PlanTypes DEF Unanswered
    <3>2. CASE t # Client
      BY <2>1, <3>2, ClientStays DEF ReadInv, Unanswered
    <3>3. QED
      BY <3>1, <3>2
  <2>7. QED
    BY <1>2, <2>4, <2>5, <2>6 DEF ReadInv
<1>5. ASSUME NEW w \in MergeWork, GetTableData(w) PROVE ReadInv'
  <2>1. /\ UNCHANGED <<buf, call, whole, answer>> /\ call[w] = "stream"
        /\ \E p : pc' = [pc EXCEPT ![w] = p]
    BY <1>5 DEF GetTableData
  <2>2. \A u \in MergeWork : u # w => pc'[u] = pc[u]
    BY <1>1, <2>1
  <2>3. WholeRead'
    BY <2>1, <2>2 DEF ReadInv, WholeRead, Past
  <2>4. CallsPast'
    BY <2>1, <2>2 DEF ReadInv, CallsPast, Past
  <2>5. Unanswered'
    BY <2>1, ClientStays DEF ReadInv, Unanswered
  <2>6. QED
    BY <1>2, <2>3, <2>4, <2>5 DEF ReadInv
<1>6. QED
  BY <1>3, <1>4, <1>5, WhoReads

\* Nothing is read at first.
LEMMA ReadInit == Init => ReadInv
<1> SUFFICES ASSUME Init PROVE ReadInv
  OBVIOUS
<1>1. Fresh
  BY DEF Init, Fresh
<1>2. \A w \in MergeWork : call[w] = "whole" /\ pc[w] = "idle"
  BY PlanTypes DEF Init
<1>3. WholeRead /\ CallsPast
  BY <1>2 DEF WholeRead, CallsPast, Past
<1>4. Unanswered
  BY DEF Init, Unanswered
<1>5. QED
  BY <1>1, <1>3, <1>4 DEF ReadInv
------------------------------------------------------------------------------
(* The plan that the threads carry out.                                       *)

\* The plan's state as the buffers have it.
TableOf(w) == Range(buf[w].rows)
FinishedSet == {w \in Work : buf[w].status = "WorkDone"}
PlanInputs(w) == {Whole[w], Streamed[w]} \ {NoWork}

\* A step that changes no table's rows and finishes none does nothing to the plan.
LEMMA PlanStutter ==
  ASSUME \A w \in Work : /\ buf'[w].rows = buf[w].rows
                         /\ buf'[w].status = "WorkDone" <=> buf[w].status = "WorkDone",
         answer' = answer
  PROVE  UNCHANGED Plan!planVars
<1>1. [w \in Work |-> Range(buf[w].rows)]' = [w \in Work |-> Range(buf[w].rows)]
  OBVIOUS
<1>2. {w \in Work : buf[w].status = "WorkDone"}' = {w \in Work : buf[w].status = "WorkDone"}
  OBVIOUS
<1>3. QED
  BY <1>1, <1>2 DEF Plan!planVars

\* Rows that come to a scanned table which is not finished.
LEMMA PlanCollects ==
  ASSUME NEW w \in ScanWork, w \in Work, w \notin FinishedSet, FinishedSet' = FinishedSet,
         NEW new \in SUBSET (AllRows(w) \ TableOf(w)), new # {},
         TableOf(w)' = TableOf(w) \cup new,
         \A v \in Work : v # w => TableOf(v)' = TableOf(v),
         answer' = answer
  PROVE  Plan!PlanNext
<1> DEFINE table == [v \in Work |-> Range(buf[v].rows)]
           inputs == [v \in Work |-> IF v \in ScanWork THEN {} ELSE {Whole[v], Streamed[v]} \ {NoWork}]
<1>1. inputs[w] = {}
  OBVIOUS
<1>2. table' = [table EXCEPT ![w] = @ \cup new]
  BY DEF TableOf
<1>3. \E extra \in SUBSET ([v \in ScanWork |-> AllRows(v)][w] \ table[w]) :
         extra # {} /\ table' = [table EXCEPT ![w] = @ \cup extra]
  <2>1. [v \in ScanWork |-> AllRows(v)][w] \ table[w] = AllRows(w) \ TableOf(w)
    BY DEF TableOf
  <2>2. new \in SUBSET ([v \in ScanWork |-> AllRows(v)][w] \ table[w])
    BY <2>1
  <2> HIDE DEF table
  <2>3. QED
    BY <1>2, <2>2
<1>4. w \notin {v \in Work : buf[v].status = "WorkDone"}
  BY DEF FinishedSet
<1>5. UNCHANGED <<{v \in Work : buf[v].status = "WorkDone"}, answer.status # "none", Range(answer.rows)>>
  BY DEF FinishedSet
<1>6. Plan!Collect(w)
  BY <1>1, <1>3, <1>4, <1>5 DEF Plan!Collect
<1>7. QED
  BY <1>6 DEF Plan!PlanNext

------------------------------------------------------------------------------
(* The steps of the plan (QueryPlan), one lemma for each.                     *)

\* A scanned table that is finished as it is.
LEMMA PlanFinishes ==
  ASSUME NEW w \in ScanWork, w \in Work, w \notin FinishedSet,
         FinishedSet' = FinishedSet \cup {w}, TableOf(w) = AllRows(w),
         \A v \in Work : TableOf(v)' = TableOf(v), answer' = answer
  PROVE  Plan!PlanNext
<1> DEFINE table == [v \in Work |-> Range(buf[v].rows)]
           inputs == [v \in Work |-> IF v \in ScanWork THEN {} ELSE {Whole[v], Streamed[v]} \ {NoWork}]
<1>1. inputs[w] = {}
  OBVIOUS
<1>2. table' = table
  BY DEF TableOf
<1>3. table[w] = [v \in ScanWork |-> AllRows(v)][w]
  BY DEF TableOf
<1>4. /\ w \notin {v \in Work : buf[v].status = "WorkDone"}
      /\ {v \in Work : buf[v].status = "WorkDone"}'
           = {v \in Work : buf[v].status = "WorkDone"} \cup {w}
  BY DEF FinishedSet
<1>5. UNCHANGED <<table, answer.status # "none", Range(answer.rows)>>
  BY <1>2
<1>6. Plan!Finish(w)
  BY <1>1, <1>3, <1>4, <1>5 DEF Plan!Finish
<1>7. QED
  BY <1>6 DEF Plan!PlanNext

\* The table of a merging work that is saved, from finished inputs.
LEMMA PlanDerives ==
  ASSUME NEW w \in MergeWork, w \in Work, w \notin FinishedSet,
         FinishedSet' = FinishedSet \cup {w},
         PlanInputs(w) # {}, PlanInputs(w) \subseteq FinishedSet,
         NEW kept \in SUBSET UNION {TableOf(v) : v \in PlanInputs(w)},
         Limit[w].length # 0 \/ kept = UNION {TableOf(v) : v \in PlanInputs(w)},
         TableOf(w)' = kept,
         \A v \in Work : v # w => TableOf(v)' = TableOf(v),
         answer' = answer
  PROVE  Plan!PlanNext
<1> DEFINE table == [v \in Work |-> Range(buf[v].rows)]
           inputs == [v \in Work |-> IF v \in ScanWork THEN {} ELSE {Whole[v], Streamed[v]} \ {NoWork}]
           input == UNION {table[v] : v \in inputs[w]}
           done == {v \in Work : buf[v].status = "WorkDone"}
           cut == {v \in MergeWork : Limit[v].length # 0}
<1>1. inputs[w] = PlanInputs(w)
  BY DEF PlanInputs, ScanWork
<1>2. table' = [table EXCEPT ![w] = kept]
  BY DEF TableOf
<1>3. input = UNION {TableOf(v) : v \in PlanInputs(w)}
  <2>1. \A v \in PlanInputs(w) : table[v] = TableOf(v)
    BY DEF TableOf, FinishedSet
  <2> HIDE DEF table, inputs
  <2>2. QED
    BY <1>1, <2>1
<1>4. done = FinishedSet /\ done' = done \cup {w}
  BY DEF FinishedSet
<1>5. inputs[w] # {} /\ w \notin done /\ inputs[w] \subseteq done
  BY <1>1, <1>4
<1>6. \E k \in SUBSET input : (w \in cut \/ k = input) /\ table' = [table EXCEPT ![w] = k]
  BY <1>2, <1>3
<1>7. UNCHANGED <<answer.status # "none", Range(answer.rows)>>
  OBVIOUS
<1>8. Plan!Derive(w)
  BY <1>4, <1>5, <1>6, <1>7 DEF Plan!Derive
<1>9. QED
  BY <1>8 DEF Plan!PlanNext

\* The answer is the finished last table, and is given once.
LEMMA PlanReplies ==
  ASSUME answer.status = "none", answer'.status # "none", Final \in FinishedSet,
         Range(answer'.rows) = TableOf(Final), FinishedSet' = FinishedSet,
         \A v \in Work : TableOf(v)' = TableOf(v)
  PROVE  Plan!PlanNext
<1> DEFINE table == [v \in Work |-> Range(buf[v].rows)]
<1>1. table' = table
  BY DEF TableOf
<1>2. Final \in Work /\ table[Final] = TableOf(Final)
  BY PlanAssumption DEF TableOf
<1>3. /\ Final \in {v \in Work : buf[v].status = "WorkDone"}
      /\ UNCHANGED {v \in Work : buf[v].status = "WorkDone"}
  BY DEF FinishedSet
<1>4. Plan!Reply
  BY <1>1, <1>2, <1>3 DEF Plan!Reply
<1>5. QED
  BY <1>4 DEF Plan!PlanNext
------------------------------------------------------------------------------
(* The steps that carry out the plan.                                         *)

\* The limit clause keeps rows that are there.
LEMMA LimitedRange ==
  ASSUME NEW w \in MergeWork, NEW rows \in Seq(Row)
  PROVE  /\ Range(Limited(rows, Limit[w])) \subseteq Range(rows)
         /\ Limit[w].length = 0 => Limited(rows, Limit[w]) = rows
<1> DEFINE m == Limit[w].offset + 1
           n == Limit[w].length
           k == Len(rows)
<1>1. m \in Int /\ n \in Nat /\ m >= 1 /\ k \in Nat
  BY PlanAssumption, LenProperties
<1>2. CASE n # 0 /\ n <= k
  <2>1. Limited(rows, Limit[w]) = SubSeq(rows, m, n)
    BY <1>2 DEF Limited
  <2> HIDE DEF m, n, k
  <2>2. \A i \in m..n : i \in 1..k
    BY <1>1, <1>2
  <2>3. \A i \in m..n : rows[i] \in Row
    BY <2>2, ElementOfSeq DEF k
  <2>4. /\ SubSeq(rows, m, n) \in Seq(Row)
        /\ Len(SubSeq(rows, m, n)) = IF m <= n THEN n - m + 1 ELSE 0
        /\ \A i \in 1..(n - m + 1) : SubSeq(rows, m, n)[i] = rows[m + i - 1]
    BY <1>1, <2>3, SubSeqProperties
  <2>5. SUFFICES ASSUME NEW i \in DOMAIN SubSeq(rows, m, n)
                 PROVE  SubSeq(rows, m, n)[i] \in Range(rows)
    BY <1>2, <2>1 DEF Range, n
  <2>6. i \in 1..(n - m + 1) /\ m + i - 1 \in 1..k
    BY <1>1, <1>2, <2>4, <2>5, LenProperties
  <2>7. SubSeq(rows, m, n)[i] = rows[m + i - 1] /\ m + i - 1 \in DOMAIN rows
    BY <2>4, <2>6, LenProperties DEF k
  <2>8. QED
    BY <2>7 DEF Range
<1>3. CASE ~ (n # 0 /\ n <= k)
  BY <1>3 DEF Limited
<1>4. QED
  BY <1>2, <1>3

\* What a merging work has read when it saves its table: its inputs, all of them.
LEMMA InputRows ==
  ASSUME LifeInv, Calm, ReadInv, StreamInv, live, NEW w \in MergeWork, Past(w)
  PROVE  /\ whole[w] = buf[Whole[w]].rows
         /\ streamed[w] = IF Streamed[w] = NoWork THEN <<>> ELSE buf[Streamed[w]].rows
         /\ \A v \in PlanInputs(w) : v \in Work /\ Finished(v)
         /\ Whole[w] \in PlanInputs(w)
<1>1. w \in Reader /\ Whole[w] \in Work /\ Whole[w] # NoWork /\ gen = 1
      /\ call \in [Reader -> {"whole", "stream"}]
      /\ Streamed[w] \in Work \cup {NoWork}
  BY PlanTypes, PlanAssumption DEF LifeInv, TypeOK, QueryLife, Calm, OneBuffer
<1>2. whole[w] = buf[Whole[w]].rows
  BY DEF ReadInv, WholeRead
<1>3. Finished(Whole[w]) /\ (Streamed[w] # NoWork => Finished(Streamed[w]))
  BY DEF Calm, InputsFinished, Past
<1>4. CASE Streamed[w] = NoWork
  BY <1>1, <1>2, <1>3, <1>4 DEF LifeInv, StreamCalls, StreamInv, PlanInputs
<1>5. CASE Streamed[w] # NoWork
  <2>1. call[w] = "stream"
    BY <1>5 DEF ReadInv, CallsPast
  <2>2. index[w] = Len(buf[Streamed[w]].rows)
        /\ streamed[w] = SubSeq(buf[Streamed[w]].rows, 1, index[w])
    BY <1>1, <2>1 DEF StreamInv, StreamsSo
  <2>3. buf[Streamed[w]].rows \in Seq(Row)
    BY <1>1, <1>5 DEF LifeInv, TypeOK, WorkBuffer
  <2>4. SubSeq(buf[Streamed[w]].rows, 1, Len(buf[Streamed[w]].rows)) = buf[Streamed[w]].rows
    BY <2>3, SubSeqFull
  <2>5. QED
    BY <1>1, <1>2, <1>3, <1>5, <2>2, <2>4 DEF PlanInputs
<1>6. QED
  BY <1>4, <1>5

\* What saveTableData makes of what the work has read (buffer_manager.cc:537-593).
LEMMA SavedTable ==
  ASSUME LifeInv, SavedOnce, Calm, ReadInv, StreamInv, NEW w \in MergeWork, SaveTableData(w)
  PROVE  /\ w \in Work /\ live /\ w \notin FinishedSet /\ answer' = answer
         /\ FinishedSet' = FinishedSet \cup {w}
         /\ PlanInputs(w) \subseteq FinishedSet /\ Whole[w] \in PlanInputs(w)
         /\ \A v \in Work : v # w => buf'[v] = buf[v]
         /\ whole[w] \in Seq(Row) /\ streamed[w] \in Seq(Row)
         /\ whole[w] \o streamed[w] \in Seq(Row)
         /\ Range(whole[w] \o streamed[w]) = UNION {TableOf(v) : v \in PlanInputs(w)}
         /\ buf'[w].rows = Output(w)
<1> DEFINE rows == whole[w] \o streamed[w]
           input == UNION {TableOf(v) : v \in PlanInputs(w)}
<1>1. /\ w \in Work /\ w \in Reader /\ buf \in [Work -> WorkBuffer] /\ w \in allocated /\ live
      /\ buf[w].status # "WorkDone" /\ Past(w) /\ answer' = answer
      /\ whole[w] \in Seq(Row) /\ streamed[w] \in Seq(Row)
  BY PlanTypes DEF SaveTableData, Valid, Calm, ReadersSafe, SavedOnce, LifeInv, TypeOK, Past
<1>2. /\ \A v \in Work : v # w => buf'[v] = buf[v]
      /\ buf'[w].status = "WorkDone" /\ buf'[w].rows = Output(w)
  <2>1. buf' = [buf EXCEPT ![w] = [@ EXCEPT !.status = "WorkDone", !.rows = Output(w)]]
    BY DEF SaveTableData
  <2>2. \A v \in Work : v # w => buf'[v] = buf[v]
    BY <1>1, <2>1
  <2>3. buf'[w] = [buf[w] EXCEPT !.status = "WorkDone", !.rows = Output(w)]
    BY <1>1, <2>1
  <2>4. buf'[w].status = "WorkDone" /\ buf'[w].rows = Output(w)
    BY <1>1, <2>3 DEF WorkBuffer
  <2>5. QED
    BY <2>2, <2>4
<1>3. /\ whole[w] = buf[Whole[w]].rows
      /\ streamed[w] = IF Streamed[w] = NoWork THEN <<>> ELSE buf[Streamed[w]].rows
      /\ \A v \in PlanInputs(w) : v \in Work /\ Finished(v)
      /\ Whole[w] \in PlanInputs(w)
  BY <1>1, InputRows
<1>4. Range(rows) = input
  <2>1. Range(rows) = Range(whole[w]) \cup Range(streamed[w])
    BY <1>1, RangeConcatenation
  <2>2. Range(<<>>) = {}
    BY DEF Range
  <2>3. Range(whole[w]) = TableOf(Whole[w])
    BY <1>3 DEF TableOf
  <2>4. CASE Streamed[w] = NoWork
    <3>1. PlanInputs(w) = {Whole[w]}
      BY <1>3, <2>4 DEF PlanInputs
    <3>2. QED
      BY <1>3, <2>1, <2>2, <2>3, <2>4, <3>1
  <2>5. CASE Streamed[w] # NoWork
    <3>1. PlanInputs(w) = {Whole[w], Streamed[w]}
      BY <1>3, <2>5 DEF PlanInputs
    <3>2. Range(streamed[w]) = TableOf(Streamed[w])
      BY <1>3, <2>5 DEF TableOf
    <3>3. QED
      BY <2>1, <2>3, <3>1, <3>2
  <2>6. QED
    BY <2>4, <2>5
<1>5. rows \in Seq(Row)
  BY <1>1, ConcatProperties
<1>6. /\ w \notin FinishedSet /\ FinishedSet' = FinishedSet \cup {w}
      /\ PlanInputs(w) \subseteq FinishedSet
  BY <1>1, <1>2, <1>3 DEF FinishedSet, Finished
<1>7. QED
  BY <1>1, <1>2, <1>3, <1>4, <1>5, <1>6

\* saveTableData derives a table of the plan (buffer_manager.cc:537-593).
LEMMA SavePlan ==
  ASSUME LifeInv, SavedOnce, Calm, ReadInv, StreamInv, NEW w \in MergeWork, SaveTableData(w)
  PROVE  Plan!PlanNext
<1> DEFINE rows == whole[w] \o streamed[w]
           input == UNION {TableOf(v) : v \in PlanInputs(w)}
<1>1. /\ w \in Work /\ live /\ w \notin FinishedSet /\ answer' = answer
      /\ FinishedSet' = FinishedSet \cup {w}
      /\ PlanInputs(w) \subseteq FinishedSet /\ PlanInputs(w) # {}
      /\ \A v \in Work : v # w => buf'[v] = buf[v]
      /\ rows \in Seq(Row) /\ Range(rows) = input
      /\ buf'[w].rows = Limited(rows, Limit[w])
  BY SavedTable DEF Output
<1>2. TableOf(w)' \in SUBSET input
      /\ (Limit[w].length # 0 \/ TableOf(w)' = input)
  <2>1. TableOf(w)' = Range(Limited(rows, Limit[w]))
    BY <1>1 DEF TableOf
  <2> HIDE DEF rows, input
  <2>2. QED
    BY <1>1, <2>1, LimitedRange
<1>3. \A v \in Work : v # w => TableOf(v)' = TableOf(v)
  BY <1>1 DEF TableOf
<1>4. QED
  BY <1>1, <1>2, <1>3, PlanDerives

\* mergeResult collects the rows of a result that the table does not have, or none
\* (buffer_manager.cc:234-386).
LEMMA MergePlan ==
  ASSUME LifeInv, ScanInv, Calm, NEW g \in Generation, NEW w \in ScanWork, MergeResult(g, w)
  PROVE  [Plan!PlanNext]_(Plan!planVars)
<1> DEFINE b == buf[w]
           r == merger[g][w].item
           new == {r} \X (1..RowCount[r])
<1>1. /\ w \in Work /\ buf \in [Work -> WorkBuffer] /\ b \in WorkBuffer /\ live /\ w \in allocated
      /\ merger[g][w].pc = "merge" /\ merger[g][w].ptr = gen /\ r \in Result
      /\ answer' = answer
  BY PlanTypes DEF MergeResult, Valid, LifeInv, TypeOK, Calm, MergersSafe, reading
<1>2. /\ r \in ResultsOf(w) /\ r \notin Taken(b) /\ Accounts(w, b) /\ Queues(w, b)
  BY <1>1 DEF ScanInv, MergersHold, BuffersAccount, At
<1>3. b.status # "WorkDone"
  BY <1>1, <1>2, DoneHasAll DEF Taken
<1>4. /\ \A v \in Work : v # w => buf'[v] = buf[v]
      /\ buf'[w].status = b.status /\ buf'[w].rows = b.rows \o RowsOf(r)
  BY <1>1 DEF MergeResult, WorkBuffer
<1>5. RowsOf(r) \in Seq(Row) /\ Range(RowsOf(r)) = new
  BY <1>1, RowsOfType
<1>6. TableOf(w)' = TableOf(w) \cup new
  BY <1>1, <1>4, <1>5, RangeConcatenation DEF TableOf, WorkBuffer
<1>7. TableOf(w) = RowsIn(b.got) /\ r \notin b.got
  BY <1>2 DEF Accounts, HoldsOnce, TableOf, Taken
<1>8. new \cap TableOf(w) = {}
  BY <1>7 DEF RowsIn
<1>9. new \subseteq AllRows(w)
  BY <1>2, <1>5 DEF AllRows
<1>10. new \in SUBSET (AllRows(w) \ TableOf(w))
  BY <1>8, <1>9
<1>11. /\ FinishedSet' = FinishedSet /\ w \notin FinishedSet
       /\ \A v \in Work : v # w => TableOf(v)' = TableOf(v)
  BY <1>1, <1>3, <1>4 DEF FinishedSet, TableOf
<1> HIDE DEF new
<1>12. CASE new = {}
  <2>1. [v \in Work |-> Range(buf[v].rows)]' = [v \in Work |-> Range(buf[v].rows)]
    BY <1>6, <1>11, <1>12 DEF TableOf
  <2>2. {v \in Work : buf[v].status = "WorkDone"}' = {v \in Work : buf[v].status = "WorkDone"}
    BY <1>11 DEF FinishedSet
  <2>3. QED
    BY <1>1, <2>1, <2>2 DEF Plan!planVars
<1>13. CASE new # {}
  BY <1>1, <1>6, <1>10, <1>11, <1>13, PlanCollects
<1>14. QED
  BY <1>12, <1>13

\* The last result of a work finishes its table, and no other does
\* (buffer_manager.cc:388-409).
LEMMA CountedTable ==
  ASSUME LifeInv, LifeInv', ScanInv', Calm, NEW g \in Generation, NEW w \in ScanWork,
         CountResult(g, w)
  PROVE  /\ w \in Work /\ answer' = answer /\ w \notin FinishedSet
         /\ \A v \in Work : buf'[v].rows = buf[v].rows
         /\ \/ FinishedSet' = FinishedSet
            \/ /\ FinishedSet' = FinishedSet \cup {w}
               /\ buf'[w].rows \in Seq(Row) /\ HoldsOnce(buf'[w].rows, AllRows(w))
<1>1. /\ w \in Work /\ buf \in [Work -> WorkBuffer] /\ live /\ w \in allocated
      /\ buf' \in [Work -> WorkBuffer]
      /\ merger[g][w].pc = "count" /\ g = gen /\ answer' = answer
      /\ live' /\ allocated' = allocated
  BY PlanTypes DEF CountResult, Valid, LifeInv, TypeOK, Calm, MergersSafe, queryBuffer
<1>2. /\ \A v \in Work : v # w => buf'[v] = buf[v]
      /\ buf'[w].rows = buf[w].rows
      /\ buf'[w].status = IF AllMerged(buf[w]) THEN "WorkDone" ELSE buf[w].status
  BY <1>1 DEF CountResult, WorkBuffer
<1>3. w \notin FinishedSet
  BY <1>1 DEF Calm, MergersMark, Finished, FinishedSet
<1>4. CASE AllMerged(buf[w])
  <2>1. FinishedSet' = FinishedSet \cup {w}
    BY <1>1, <1>2, <1>3, <1>4 DEF FinishedSet
  <2>2. DoneIsComplete'
    BY DoneComplete, PTL
  <2>3. HoldsOnce(buf'[w].rows, AllRows(w))
    BY <1>1, <1>2, <1>4, <2>2 DEF DoneIsComplete
  <2>4. QED
    BY <1>1, <1>2, <1>3, <2>1, <2>3 DEF WorkBuffer
<1>5. CASE ~ AllMerged(buf[w])
  <2>1. FinishedSet' = FinishedSet
    BY <1>1, <1>2, <1>5 DEF FinishedSet
  <2>2. QED
    BY <1>1, <1>2, <1>3, <2>1
<1>6. QED
  BY <1>4, <1>5

\* Counting a result finishes a table of the plan or does nothing to it.
LEMMA CountPlan ==
  ASSUME LifeInv, LifeInv', ScanInv', Calm, NEW g \in Generation, NEW w \in ScanWork,
         CountResult(g, w)
  PROVE  [Plan!PlanNext]_(Plan!planVars)
<1>1. /\ w \in Work /\ answer' = answer /\ w \notin FinishedSet
      /\ \A v \in Work : buf'[v].rows = buf[v].rows
      /\ \/ FinishedSet' = FinishedSet
         \/ /\ FinishedSet' = FinishedSet \cup {w}
            /\ HoldsOnce(buf'[w].rows, AllRows(w))
  BY CountedTable
<1>2. CASE FinishedSet' = FinishedSet \cup {w} /\ HoldsOnce(buf'[w].rows, AllRows(w))
  <2>1. TableOf(w)' = AllRows(w)
    BY <1>2 DEF HoldsOnce, TableOf
  <2>2. \A v \in Work : TableOf(v)' = TableOf(v)
    BY <1>1 DEF TableOf
  <2>3. QED
    BY <1>1, <1>2, <2>1, <2>2, PlanFinishes
<1>3. CASE FinishedSet' = FinishedSet
  BY <1>1, <1>3, PlanStutter DEF FinishedSet
<1>4. QED
  BY <1>1, <1>2, <1>3

------------------------------------------------------------------------------
(* Every step is a step of the plan.                                          *)

\* Each step of a query that is calm is a step of its plan or none.
LEMMA PlanStep ==
  ASSUME LifeInv, LifeInv', ScanInv, ScanInv', SavedOnce, StreamInv, Calm, Calm', ReadInv,
         early' = {}, [Next]_vars
  PROVE  [Plan!PlanNext]_(Plan!planVars)
<1>1. CASE UNCHANGED vars
  BY <1>1, PlanStutter DEF vars, reading
<1>2. CASE Next
  <2>1. ASSUME NEW g \in Generation, NEW w \in ScanWork,
               PopResult(g, w) \/ MergeResult(g, w) \/ CountResult(g, w)
        PROVE  [Plan!PlanNext]_(Plan!planVars)
    <3>1. CASE PopResult(g, w)
      <4>1. buf \in [Work -> WorkBuffer] /\ w \in Work /\ answer' = answer
        BY <3>1, PlanTypes DEF LifeInv, TypeOK, PopResult, reading
      <4>2. \A v \in Work : buf'[v].rows = buf[v].rows /\ buf'[v].status = buf[v].status
        BY <3>1, <4>1 DEF PopResult, WorkBuffer
      <4>3. QED
        BY <4>1, <4>2, PlanStutter
    <3>2. CASE MergeResult(g, w)
      BY <3>2, MergePlan
    <3>3. CASE CountResult(g, w)
      BY <3>3, CountPlan
    <3>4. QED
      BY <2>1, <3>1, <3>2, <3>3
  <2>2. ASSUME PushResult PROVE [Plan!PlanNext]_(Plan!planVars)
    <3>1. buf \in [Work -> WorkBuffer] /\ answer' = answer
      BY <2>2 DEF LifeInv, TypeOK, PushResult, reading
    <3>2. \A v \in Work : /\ buf'[v].rows = buf[v].rows
                          /\ buf'[v].status = "WorkDone" <=> buf[v].status = "WorkDone"
      BY <2>2, <3>1 DEF PushResult
    <3>3. QED
      BY <3>1, <3>2, PlanStutter
  <2>3. CASE buf' = buf
    <3>1. ASSUME answer' = answer PROVE [Plan!PlanNext]_(Plan!planVars)
      BY <2>3, <3>1, PlanStutter
    <3>2. ASSUME NEW t \in Reader, GetFinishedTableData(t)
          PROVE  [Plan!PlanNext]_(Plan!planVars)
      <4>1. CASE t # Client
        BY <3>1, <3>2, <4>1 DEF GetFinishedTableData
      <4>2. CASE t = Client
        <5>1. /\ answer' = [status |-> buf[Final].status, rows |-> buf[Final].rows,
                            scanned |-> scanned]
              /\ Final \in Work /\ t \in Reader
              /\ early' = IF buf[Final].status = "WorkDone" THEN early ELSE early \cup {t}
              /\ pc[Client] \notin {"end", "done"}
          BY <3>2, <4>2, PlanAssumption DEF GetFinishedTableData, Target, Enters
        <5>2. buf[Final].status = "WorkDone"
          BY <5>1
        <5>3. answer.status = "none" /\ answer'.status # "none"
          BY <5>1, <5>2 DEF ReadInv, Unanswered
        <5>4. Range(answer'.rows) = TableOf(Final) /\ Final \in FinishedSet
          BY <5>1, <5>2 DEF TableOf, FinishedSet
        <5>5. FinishedSet' = FinishedSet /\ \A v \in Work : TableOf(v)' = TableOf(v)
          BY <2>3 DEF TableOf, FinishedSet
        <5>6. QED
          BY <5>3, <5>4, <5>5, PlanReplies
      <4>3. QED
        BY <4>1, <4>2
    <3>3. ASSUME NEW w \in MergeWork, GetTableData(w) PROVE answer' = answer
      BY <3>3 DEF GetTableData
    <3>4. QED
      BY <1>2, <3>1, <3>2, <3>3, WhoReads
  <2>4. QED
    BY <1>2, <2>1, <2>2, <2>3, SavePlan, CalmBuffers DEF ReadInv
<1>3. QED
  BY <1>1, <1>2

\* A query that begins begins its plan.
LEMMA PlanBegins == Init => Plan!PlanInit
<1> SUFFICES ASSUME Init PROVE Plan!PlanInit
  OBVIOUS
<1>1. \A w \in Work : buf[w].rows = <<>> /\ buf[w].status # "WorkDone"
  BY DEF Init, EmptyBuffer
<1>2. Range(<<>>) = {}
  BY DEF Range
<1>3. [w \in Work |-> Range(buf[w].rows)] = [w \in Work |-> {}]
  BY <1>1, <1>2
<1>4. {w \in Work : buf[w].status = "WorkDone"} = {}
  BY <1>1
<1>5. (answer.status # "none") = FALSE /\ Range(answer.rows) = {}
  BY <1>2 DEF Init
<1>6. QED
  BY <1>3, <1>4, <1>5 DEF Plan!PlanInit

\* The inductive invariant of the plan: the second part holds while the query is calm.
PlanInv ==
  /\ LifeInv /\ ScanInv /\ SavedOnce /\ StreamInv /\ FaultInv
  /\ early = {} => ReadInv

\* It holds at first and is kept by every step.
LEMMA PlanInvInit == Init => PlanInv
BY LifeInit, ScanInit, StreamInit, CalmInit, ReadInit DEF PlanInv, Init, SavedOnce, FaultInv

LEMMA PlanInvStep ==
  ASSUME LeadsToFinal
  PROVE  PlanInv /\ [Next]_vars => PlanInv'
<1> SUFFICES ASSUME PlanInv, [Next]_vars PROVE PlanInv'
  OBVIOUS
<1>1. LifeInv' /\ ScanInv' /\ SavedOnce' /\ FaultInv'
  BY LifeStep, ScanStep, SavedStep, FaultStep DEF PlanInv
<1>2. StreamInv'
  BY <1>1, StreamStep DEF PlanInv
<1>3. ASSUME early' = {} PROVE ReadInv'
  <2>1. early = {} /\ Calm /\ Calm' /\ ReadInv
    BY <1>1, <1>3, EarlyStays DEF PlanInv, FaultInv
  <2>2. CASE Next
    BY <2>1, <2>2, ReadStep DEF PlanInv
  <2>3. CASE UNCHANGED vars
    BY <2>1, <2>3 DEF vars, reading, queryBuffer, ReadInv, Fresh, WholeRead, CallsPast,
       Unanswered, Past
  <2>4. QED
    BY <2>2, <2>3
<1>4. QED
  BY <1>1, <1>2, <1>3 DEF PlanInv

\* For every plan that reads all its tables, any results and every interleaving, as
\* long as no reader is handed an unfinished table: what the threads, queues, batches
\* and condition variables do is to collect, finish, derive and reply, in an order the
\* plan allows (buffer_manager.cc:12-593).
THEOREM CarriesOutPlan ==
  ASSUME LeadsToFinal
  PROVE  Spec /\ []NoEarlyRead => Plan!PlanInit /\ [][Plan!PlanNext]_(Plan!planVars)
<1>1. PlanInv /\ PlanInv' /\ NoEarlyRead' /\ [Next]_vars => [Plan!PlanNext]_(Plan!planVars)
  BY PlanStep, EarlyStays DEF PlanInv, FaultInv, NoEarlyRead
<1>2. PlanInv /\ [Next]_vars => PlanInv'
  BY PlanInvStep
<1>3. QED
  BY <1>1, <1>2, PlanInvInit, PlanBegins, PTL DEF Spec

------------------------------------------------------------------------------
(* The rows that came are in the tables still to be read, at the end in the   *)
(* answer.                                                                    *)

\* The finished tables that no finished work has read.
UnreadSet == {w \in FinishedSet : \A v \in MergeWork \cap FinishedSet : w \notin PlanInputs(v)}

\* The rows that came for the finished scans.
FoundRows == UNION {AllRows(v) : v \in ScanWork \cap FinishedSet}

\* No work has a limit clause.
Unlimited == \A w \in MergeWork : Limit[w].length = 0

\* Finished tables have no row twice, and between them every row found is in one of
\* those still to be read.
AnswerInv ==
  /\ \A w \in FinishedSet : IsInjective(buf[w].rows)
  /\ \A v \in MergeWork \cap FinishedSet : PlanInputs(v) \subseteq FinishedSet
  /\ \A v, w \in UnreadSet : v # w => TableOf(v) \cap TableOf(w) = {}
  /\ \A w \in FinishedSet : TableOf(w) \subseteq FoundRows
  /\ Unlimited => UNION {TableOf(w) : w \in UnreadSet} = FoundRows

\* Rows of different works are different.
LEMMA RowsApart ==
  ASSUME NEW v \in ScanWork, NEW w \in ScanWork, v # w
  PROVE  AllRows(v) \cap AllRows(w) = {}
BY RowsOfType DEF AllRows, ResultsOf

\* A table that holds a set once has no row twice, and the other way round.
LEMMA OnceIsInjective ==
  ASSUME NEW s \in Seq(Row)
  PROVE  HoldsOnce(s, Range(s)) <=> IsInjective(s)
<1> DEFINE n == Len(s)
<1>1. n \in Nat /\ DOMAIN s = 1..n /\ s \in [1..n -> Range(s)]
  BY LenProperties DEF Range
<1>2. s \in Surjection(1..n, Range(s))
  BY <1>1 DEF Surjection, Range
<1>3. IsFiniteSet(1..n) /\ Cardinality(1..n) = n
  BY <1>1, FS_Interval
<1>4. Cardinality(Range(s)) = Cardinality(1..n) <=> s \in Injection(1..n, Range(s))
  BY <1>2, <1>3, FS_Surjection
<1>5. s \in Injection(1..n, Range(s)) <=> IsInjective(s)
  BY <1>1 DEF Injection, IsInjective
<1>6. QED
  BY <1>3, <1>4, <1>5 DEF HoldsOnce

\* Two tables without a row in common, one after the other.
LEMMA InjectiveConcat ==
  ASSUME NEW s \in Seq(Row), NEW t \in Seq(Row), IsInjective(s), IsInjective(t),
         Range(s) \cap Range(t) = {}
  PROVE  IsInjective(s \o t)
<1> DEFINE u == s \o t
           m == Len(s)
           n == Len(t)
<1>1. /\ m \in Nat /\ n \in Nat /\ Len(u) = m + n /\ u \in Seq(Row)
      /\ DOMAIN s = 1..m /\ DOMAIN t = 1..n /\ DOMAIN u = 1..(m + n)
  BY ConcatProperties, LenProperties
<1>2. /\ \A i \in 1..m : u[i] = s[i]
      /\ \A i \in m + 1 .. m + n : u[i] = t[i - m] /\ i - m \in 1..n
  BY <1>1, ConcatProperties
<1> HIDE DEF u, m, n
<1>3. SUFFICES ASSUME NEW i \in 1..(m + n), NEW j \in 1..(m + n), u[i] = u[j]
               PROVE  i = j
  BY <1>1 DEF IsInjective, u
<1>4. \A k \in 1..(m + n) : k \in 1..m \/ k \in m + 1 .. m + n
  BY <1>1
<1>5. \A k \in 1..m : u[k] \in Range(s)
  BY <1>1, <1>2 DEF Range
<1>6. \A k \in m + 1 .. m + n : u[k] \in Range(t)
  BY <1>1, <1>2 DEF Range
<1>7. CASE i \in 1..m /\ j \in 1..m
  BY <1>1, <1>2, <1>3, <1>7 DEF IsInjective
<1>8. CASE i \in m + 1 .. m + n /\ j \in m + 1 .. m + n
  <2>1. t[i - m] = t[j - m] /\ i - m \in 1..n /\ j - m \in 1..n
    BY <1>2, <1>3, <1>8
  <2>2. i - m = j - m
    BY <1>1, <2>1 DEF IsInjective
  <2>3. QED
    BY <1>1, <1>8, <2>2
<1>9. QED
  BY <1>3, <1>4, <1>5, <1>6, <1>7, <1>8

\* The limit clause keeps rows from the offset on, each once.
LEMMA InjectiveLimited ==
  ASSUME NEW w \in MergeWork, NEW rows \in Seq(Row), IsInjective(rows)
  PROVE  /\ IsInjective(Limited(rows, Limit[w]))
         /\ Limit[w].length # 0 /\ Limit[w].length <= Len(rows) =>
              \A i \in DOMAIN rows :
                rows[i] \in Range(Limited(rows, Limit[w])) => i > Limit[w].offset
<1> DEFINE m == Limit[w].offset + 1
           n == Limit[w].length
           k == Len(rows)
           kept == SubSeq(rows, m, n)
<1>1. m \in Int /\ n \in Nat /\ m >= 1 /\ k \in Nat /\ DOMAIN rows = 1..k
      /\ Limit[w].offset \in Nat
  BY PlanAssumption, LenProperties
<1>2. CASE n # 0 /\ n <= k
  <2>1. Limited(rows, Limit[w]) = kept
    BY <1>2 DEF Limited
  <2> HIDE DEF m, n, k
  <2>2. \A i \in m..n : i \in 1..k
    BY <1>1, <1>2
  <2>3. \A i \in m..n : rows[i] \in Row
    BY <2>2, ElementOfSeq DEF k
  <2>4. /\ kept \in Seq(Row)
        /\ Len(kept) = IF m <= n THEN n - m + 1 ELSE 0
        /\ \A i \in 1..(n - m + 1) : kept[i] = rows[m + i - 1]
    BY <1>1, <2>3, SubSeqProperties
  <2>5. DOMAIN kept = 1..(n - m + 1)
    <3>1. DOMAIN kept = 1..Len(kept)
      BY <2>4, LenProperties
    <3> HIDE DEF kept
    <3>2. CASE m <= n
      BY <1>1, <2>4, <3>1, <3>2
    <3>3. CASE ~ (m <= n)
      <4>1. Len(kept) = 0
        BY <2>4, <3>3
      <4>2. n - m + 1 <= 0 /\ n - m + 1 \in Int
        BY <1>1, <3>3
      <4>3. 1..(n - m + 1) = {} /\ 1..0 = {}
        BY <4>2
      <4>4. QED
        BY <3>1, <4>1, <4>3
    <3>4. QED
      BY <3>2, <3>3
  <2> HIDE DEF kept
  <2>6. \A i \in DOMAIN kept : m + i - 1 \in 1..k /\ kept[i] = rows[m + i - 1] /\ i \in Int
                               /\ m + i - 1 >= m
    BY <1>1, <1>2, <2>4, <2>5
  <2>7. IsInjective(kept)
    <3>1. SUFFICES ASSUME NEW i \in DOMAIN kept, NEW j \in DOMAIN kept, kept[i] = kept[j]
                   PROVE  i = j
      BY DEF IsInjective
    <3>2. m + i - 1 = m + j - 1
      BY <1>1, <2>6, <3>1 DEF IsInjective
    <3>3. QED
      BY <1>1, <2>6, <3>2
  <2>8. ASSUME NEW i \in 1..k, rows[i] \in Range(kept) PROVE i >= m
    <3>1. PICK j \in DOMAIN kept : kept[j] = rows[i]
      BY <2>8 DEF Range
    <3>2. i = m + j - 1
      BY <1>1, <2>6, <2>8, <3>1 DEF IsInjective
    <3>3. QED
      BY <2>6, <3>2
  <2>9. \A i \in DOMAIN rows : rows[i] \in Range(kept) => i > Limit[w].offset
    BY <1>1, <2>8 DEF m
  <2>10. QED
    BY <2>1, <2>7, <2>9
<1>3. CASE ~ (n # 0 /\ n <= k)
  BY <1>3 DEF Limited
<1>4. QED
  BY <1>2, <1>3

\* A step that finishes no table and leaves the finished ones alone.
LEMMA AnswerStays ==
  ASSUME AnswerInv, FinishedSet' = FinishedSet,
         \A w \in FinishedSet : buf'[w].rows = buf[w].rows
  PROVE  AnswerInv'
<1>1. \A w \in FinishedSet : TableOf(w)' = TableOf(w)
  BY DEF TableOf
<1>2. UnreadSet' = UnreadSet /\ UnreadSet \subseteq FinishedSet
  BY DEF UnreadSet, PlanInputs
<1>3. FoundRows' = FoundRows
  BY DEF FoundRows
<1>4. UNION {TableOf(w) : w \in UnreadSet}' = UNION {TableOf(w) : w \in UnreadSet}
  <2>1. \A w \in UnreadSet : TableOf(w)' = TableOf(w)
    BY <1>1, <1>2
  <2>2. QED
    BY <1>2, <2>1
<1>5. (\A w \in FinishedSet : IsInjective(buf[w].rows))'
  BY DEF AnswerInv
<1>6. (\A v, w \in UnreadSet : v # w => TableOf(v) \cap TableOf(w) = {})'
  BY <1>1, <1>2 DEF AnswerInv
<1>7. (\A w \in FinishedSet : TableOf(w) \subseteq FoundRows)'
  BY <1>1, <1>3 DEF AnswerInv
<1>8. (\A v \in MergeWork \cap FinishedSet : PlanInputs(v) \subseteq FinishedSet)'
  BY DEF AnswerInv, PlanInputs
<1>9. Unlimited' => (UNION {TableOf(w) : w \in UnreadSet} = FoundRows)'
  BY <1>3, <1>4 DEF AnswerInv, Unlimited
<1>10. QED
  BY <1>5, <1>6, <1>7, <1>8, <1>9 DEF AnswerInv

\* A scan work's table that is finished: its rows are new, and unread.
LEMMA AnswerScans ==
  ASSUME AnswerInv, NEW w \in ScanWork, w \in Work, w \notin FinishedSet,
         FinishedSet' = FinishedSet \cup {w},
         TableOf(w)' = AllRows(w), IsInjective(buf'[w].rows),
         \A v \in FinishedSet : buf'[v].rows = buf[v].rows
  PROVE  AnswerInv'
<1>1. \A v \in FinishedSet : TableOf(v)' = TableOf(v)
  BY DEF TableOf
<1>2. UnreadSet \subseteq FinishedSet /\ MergeWork \cap {w} = {}
  BY DEF UnreadSet, ScanWork
<1>3. MergeWork \cap FinishedSet' = MergeWork \cap FinishedSet
  BY <1>2
<1>4. \A v \in MergeWork \cap FinishedSet : w \notin PlanInputs(v)
  BY DEF AnswerInv
<1>5. UnreadSet' = UnreadSet \cup {w}
  BY <1>3, <1>4 DEF UnreadSet, PlanInputs
<1>6. FoundRows' = FoundRows \cup AllRows(w)
  BY DEF FoundRows
<1>7. FoundRows \cap AllRows(w) = {}
  BY RowsApart DEF FoundRows
<1>8. (\A v \in FinishedSet : IsInjective(buf[v].rows))'
  BY DEF AnswerInv
<1>9. (\A v \in FinishedSet : TableOf(v) \subseteq FoundRows)'
  BY <1>1, <1>6 DEF AnswerInv
<1>10. (\A v \in MergeWork \cap FinishedSet : PlanInputs(v) \subseteq FinishedSet)'
  BY <1>3 DEF AnswerInv, PlanInputs
<1>11. \A v \in UnreadSet : TableOf(v)' = TableOf(v) /\ TableOf(v) \cap AllRows(w) = {}
  BY <1>1, <1>2, <1>7 DEF AnswerInv
<1>12. (\A v, u \in UnreadSet : v # u => TableOf(v) \cap TableOf(u) = {})'
  <2>1. SUFFICES ASSUME NEW v \in UnreadSet', NEW u \in UnreadSet', v # u
                 PROVE  TableOf(v)' \cap TableOf(u)' = {}
    OBVIOUS
  <2>2. CASE v \in UnreadSet /\ u \in UnreadSet
    BY <1>11, <2>1, <2>2 DEF AnswerInv
  <2>3. CASE v = w \/ u = w
    BY <1>5, <1>11, <2>1, <2>3
  <2>4. QED
    BY <1>5, <2>2, <2>3
<1>13. (UNION {TableOf(v) : v \in UnreadSet})'
         = (UNION {TableOf(v) : v \in UnreadSet}) \cup AllRows(w)
  <2>1. \A v \in UnreadSet' : v \in UnreadSet \/ v = w
    BY <1>5
  <2>2. QED
    BY <1>5, <1>11, <2>1
<1>14. Unlimited' => (UNION {TableOf(v) : v \in UnreadSet} = FoundRows)'
  BY <1>6, <1>13 DEF AnswerInv, Unlimited
<1>15. QED
  BY <1>8, <1>9, <1>10, <1>12, <1>14 DEF AnswerInv

\* The inputs of a work are read by no other (ReadsOnce).
LEMMA InputsUnread ==
  ASSUME ReadsOnce, AnswerInv, NEW w \in MergeWork, w \notin FinishedSet,
         PlanInputs(w) \subseteq FinishedSet
  PROVE  PlanInputs(w) \subseteq UnreadSet
<1>1. SUFFICES ASSUME NEW v \in PlanInputs(w), NEW u \in MergeWork \cap FinishedSet,
                      v \in PlanInputs(u)
               PROVE  FALSE
  BY DEF UnreadSet
<1>2. u # w
  OBVIOUS
<1>3. v \in {Whole[u], Streamed[u]} \cap {Whole[w], Streamed[w]} /\ v # NoWork
  BY <1>1 DEF PlanInputs
<1>4. QED
  BY <1>2, <1>3 DEF ReadsOnce

\* A merging work's table that is saved takes the place of the tables it read.
LEMMA AnswerDerives ==
  ASSUME ReadsOnce, AnswerInv, NEW w \in MergeWork, w \in Work, w \notin FinishedSet,
         FinishedSet' = FinishedSet \cup {w},
         PlanInputs(w) \subseteq FinishedSet,
         TableOf(w)' \subseteq UNION {TableOf(v) : v \in PlanInputs(w)},
         Unlimited => TableOf(w)' = UNION {TableOf(v) : v \in PlanInputs(w)},
         IsInjective(buf'[w].rows),
         \A v \in FinishedSet : buf'[v].rows = buf[v].rows
  PROVE  AnswerInv'
<1> DEFINE input == UNION {TableOf(v) : v \in PlanInputs(w)}
<1>1. \A v \in FinishedSet : TableOf(v)' = TableOf(v)
  BY DEF TableOf
<1>2. PlanInputs(w) \subseteq UnreadSet /\ UnreadSet \subseteq FinishedSet
  BY InputsUnread DEF UnreadSet
<1>3. \A v \in MergeWork \cap FinishedSet : w \notin PlanInputs(v)
  BY DEF AnswerInv
<1>4. UnreadSet' = (UnreadSet \ PlanInputs(w)) \cup {w}
  <2>1. \A v : v \in MergeWork \cap FinishedSet' <=> v \in MergeWork \cap FinishedSet \/ v = w
    OBVIOUS
  <2>2. w \notin PlanInputs(w)
    OBVIOUS
  <2>3. \A x : x \in UnreadSet' <=> /\ x \in FinishedSet'
                                    /\ \A v \in MergeWork \cap FinishedSet' : x \notin PlanInputs(v)
    BY DEF UnreadSet, PlanInputs
  <2>4. \A x : x \in UnreadSet <=> /\ x \in FinishedSet
                                   /\ \A v \in MergeWork \cap FinishedSet : x \notin PlanInputs(v)
    BY DEF UnreadSet
  <2>5. \A x : x \in UnreadSet' <=> (x \in UnreadSet /\ x \notin PlanInputs(w)) \/ x = w
    BY <1>3, <2>1, <2>2, <2>3, <2>4
  <2>6. QED
    BY <2>5
<1>5. FoundRows' = FoundRows
  BY DEF FoundRows, ScanWork
<1>6. input \subseteq FoundRows
  BY DEF AnswerInv
<1>7. \A v \in UnreadSet \ PlanInputs(w) : TableOf(v) \cap input = {} /\ TableOf(v)' = TableOf(v)
  <2>1. \A v \in UnreadSet \ PlanInputs(w) : \A u \in PlanInputs(w) :
          TableOf(v) \cap TableOf(u) = {}
    BY <1>2 DEF AnswerInv
  <2>2. QED
    BY <1>1, <1>2, <2>1
<1>8. (\A v \in FinishedSet : IsInjective(buf[v].rows))'
  BY DEF AnswerInv
<1>9. (\A v \in FinishedSet : TableOf(v) \subseteq FoundRows)'
  BY <1>1, <1>5, <1>6 DEF AnswerInv
<1>10. (\A v \in MergeWork \cap FinishedSet : PlanInputs(v) \subseteq FinishedSet)'
  BY DEF AnswerInv, PlanInputs
<1>11. (\A v, u \in UnreadSet : v # u => TableOf(v) \cap TableOf(u) = {})'
  <2>1. SUFFICES ASSUME NEW v \in UnreadSet', NEW u \in UnreadSet', v # u
                 PROVE  TableOf(v)' \cap TableOf(u)' = {}
    OBVIOUS
  <2>2. CASE v \in UnreadSet \ PlanInputs(w) /\ u \in UnreadSet \ PlanInputs(w)
    BY <1>7, <2>1, <2>2 DEF AnswerInv
  <2>3. CASE v = w /\ u \in UnreadSet \ PlanInputs(w)
    BY <1>7, <2>3
  <2>4. CASE u = w /\ v \in UnreadSet \ PlanInputs(w)
    BY <1>7, <2>4
  <2>5. QED
    BY <1>4, <2>1, <2>2, <2>3, <2>4
<1>12. Unlimited => (UNION {TableOf(v) : v \in UnreadSet} = FoundRows)'
  <2>1. SUFFICES ASSUME Unlimited PROVE (UNION {TableOf(v) : v \in UnreadSet})' = FoundRows
    BY <1>5
  <2>2. UNION {TableOf(v) : v \in UnreadSet} = FoundRows
    BY <2>1 DEF AnswerInv
  <2>3. \A x : (\E v \in UnreadSet' : x \in TableOf(v)') <=> (\E v \in UnreadSet : x \in TableOf(v))
    <3>1. ASSUME NEW x, NEW v \in UnreadSet', x \in TableOf(v)'
          PROVE  \E u \in UnreadSet : x \in TableOf(u)
      BY <1>2, <1>4, <1>7, <3>1
    <3>2. ASSUME NEW x, NEW v \in UnreadSet, x \in TableOf(v)
          PROVE  \E u \in UnreadSet' : x \in TableOf(u)'
      <4>1. CASE v \in PlanInputs(w)
        BY <1>4, <2>1, <3>2, <4>1
      <4>2. CASE v \notin PlanInputs(w)
        BY <1>4, <1>7, <3>2, <4>2
      <4>3. QED
        BY <4>1, <4>2
    <3>3. QED
      BY <3>1, <3>2
  <2>4. QED
    BY <2>2, <2>3
<1>13. QED
  BY <1>8, <1>9, <1>10, <1>11, <1>12 DEF AnswerInv, Unlimited

\* No table is finished at first.
LEMMA AnswerInit == Init => AnswerInv
<1> SUFFICES ASSUME Init PROVE AnswerInv
  OBVIOUS
<1>1. FinishedSet = {}
  BY DEF Init, EmptyBuffer, FinishedSet
<1>2. UnreadSet = {} /\ FoundRows = {}
  BY <1>1 DEF UnreadSet, FoundRows
<1>3. QED
  BY <1>1, <1>2 DEF AnswerInv

\* A finished table keeps its rows.
LEMMA FinishedStay ==
  ASSUME LifeInv, ScanInv, SavedOnce, Calm, Calm', Fresh, Next, NEW w \in FinishedSet
  PROVE  buf'[w].rows = buf[w].rows
<1>1. w \in Work /\ buf[w].status = "WorkDone" /\ EmptyBuffer.status # "WorkDone"
  BY DEF FinishedSet, EmptyBuffer
<1>2. live => Finished(w)
  BY <1>1 DEF Fresh, Finished
<1>3. QED
  BY <1>1, <1>2, FinishedRows

\* What a merging work read has no row twice.
LEMMA InputsInjective ==
  ASSUME ReadsOnce, AnswerInv, LifeInv, SavedOnce, Calm, ReadInv, StreamInv,
         NEW w \in MergeWork, SaveTableData(w)
  PROVE  IsInjective(whole[w] \o streamed[w])
<1>1. /\ w \in Work /\ live /\ w \notin FinishedSet
      /\ PlanInputs(w) \subseteq FinishedSet /\ Whole[w] \in PlanInputs(w)
      /\ whole[w] \in Seq(Row) /\ streamed[w] \in Seq(Row)
  BY SavedTable
<1>2. /\ whole[w] = buf[Whole[w]].rows
      /\ streamed[w] = IF Streamed[w] = NoWork THEN <<>> ELSE buf[Streamed[w]].rows
  BY <1>1, InputRows DEF SaveTableData, Past
<1>3. IsInjective(whole[w])
  BY <1>1, <1>2 DEF AnswerInv
<1>4. CASE Streamed[w] = NoWork
  BY <1>1, <1>2, <1>3, <1>4, ConcatEmptySeq
<1>5. CASE Streamed[w] # NoWork
  <2>1. Streamed[w] \in PlanInputs(w) /\ Whole[w] # Streamed[w]
    BY <1>5 DEF PlanInputs, ReadsOnce
  <2>2. IsInjective(streamed[w])
    BY <1>1, <1>2, <1>5, <2>1 DEF AnswerInv
  <2>3. PlanInputs(w) \subseteq UnreadSet
    BY <1>1, InputsUnread
  <2>4. TableOf(Whole[w]) \cap TableOf(Streamed[w]) = {}
    BY <1>1, <2>1, <2>3 DEF AnswerInv
  <2>5. Range(whole[w]) \cap Range(streamed[w]) = {}
    BY <1>2, <1>5, <2>4 DEF TableOf
  <2>6. QED
    BY <1>1, <1>3, <2>2, <2>5, InjectiveConcat
<1>6. QED
  BY <1>4, <1>5

\* Every step that hands out no unfinished table keeps AnswerInv.
LEMMA AnswerStep ==
  ASSUME ReadsOnce, AnswerInv, LifeInv, LifeInv', ScanInv, ScanInv', SavedOnce, StreamInv,
         Calm, Calm', ReadInv, Next
  PROVE  AnswerInv'
<1>1. \A w \in FinishedSet : buf'[w].rows = buf[w].rows
  BY FinishedStay DEF ReadInv
<1>2. ASSUME FinishedSet' = FinishedSet PROVE AnswerInv'
  BY <1>1, <1>2, AnswerStays
<1>3. ASSUME NEW g \in Generation, NEW w \in ScanWork,
             PopResult(g, w) \/ MergeResult(g, w) \/ CountResult(g, w)
      PROVE  AnswerInv'
  <2>1. CASE PopResult(g, w) \/ MergeResult(g, w)
    <3>1. buf \in [Work -> WorkBuffer] /\ w \in Work
      BY PlanTypes DEF LifeInv, TypeOK
    <3>2. \A v \in Work : buf'[v].status = buf[v].status
      <4>1. CASE PopResult(g, w)
        BY <3>1, <4>1 DEF PopResult, WorkBuffer
      <4>2. CASE MergeResult(g, w)
        BY <3>1, <4>2 DEF MergeResult, WorkBuffer
      <4>3. QED
        BY <2>1, <4>1, <4>2
    <3>3. QED
      BY <1>2, <3>2 DEF FinishedSet
  <2>2. CASE CountResult(g, w)
    <3>1. /\ w \in Work /\ w \notin FinishedSet
          /\ \A v \in Work : buf'[v].rows = buf[v].rows
          /\ \/ FinishedSet' = FinishedSet
             \/ /\ FinishedSet' = FinishedSet \cup {w}
                /\ buf'[w].rows \in Seq(Row) /\ HoldsOnce(buf'[w].rows, AllRows(w))
      BY <2>2, CountedTable
    <3>2. CASE FinishedSet' = FinishedSet \cup {w} /\ buf'[w].rows \in Seq(Row)
               /\ HoldsOnce(buf'[w].rows, AllRows(w))
      <4>1. TableOf(w)' = AllRows(w)
        BY <3>2 DEF HoldsOnce, TableOf
      <4>2. IsInjective(buf'[w].rows)
        BY <3>2, OnceIsInjective DEF HoldsOnce
      <4>3. QED
        BY <1>1, <3>1, <3>2, <4>1, <4>2, AnswerScans
    <3>3. QED
      BY <1>2, <3>1, <3>2
  <2>3. QED
    BY <1>3, <2>1, <2>2
<1>4. ASSUME PushResult PROVE AnswerInv'
  <2>1. \A v \in Work : buf'[v].status = "WorkDone" <=> buf[v].status = "WorkDone"
    BY <1>4 DEF LifeInv, TypeOK, PushResult
  <2>2. QED
    BY <1>2, <2>1 DEF FinishedSet
<1>5. ASSUME NEW w \in MergeWork, SaveTableData(w) PROVE AnswerInv'
  <2> DEFINE rows == whole[w] \o streamed[w]
             input == UNION {TableOf(v) : v \in PlanInputs(w)}
  <2>1. /\ w \in Work /\ w \notin FinishedSet
        /\ FinishedSet' = FinishedSet \cup {w}
        /\ PlanInputs(w) \subseteq FinishedSet
        /\ rows \in Seq(Row) /\ Range(rows) = input
        /\ buf'[w].rows = Limited(rows, Limit[w])
    BY <1>5, SavedTable DEF Output
  <2>2. IsInjective(rows)
    BY <1>5, InputsInjective
  <2>3. TableOf(w)' = Range(Limited(rows, Limit[w]))
    BY <2>1 DEF TableOf
  <2> HIDE DEF rows
  <2>4. TableOf(w)' \subseteq input /\ (Unlimited => TableOf(w)' = input)
    <3>1. /\ Range(Limited(rows, Limit[w])) \subseteq Range(rows)
          /\ Limit[w].length = 0 => Limited(rows, Limit[w]) = rows
      BY <2>1, LimitedRange
    <3>2. Unlimited => Limit[w].length = 0
      BY DEF Unlimited
    <3> HIDE DEF input
    <3>3. QED
      BY <2>1, <2>3, <3>1, <3>2
  <2>5. IsInjective(buf'[w].rows)
    BY <2>1, <2>2, InjectiveLimited
  <2>6. QED
    BY <1>1, <2>1, <2>4, <2>5, AnswerDerives
<1>6. CASE buf' = buf
  BY <1>2, <1>6 DEF FinishedSet
<1>7. QED
  BY <1>3, <1>4, <1>5, <1>6, CalmBuffers DEF ReadInv

\* Every table but the last is an input of another (LeadsToFinal).
LEMMA OthersAreRead ==
  ASSUME LeadsToFinal, NEW w \in Work, w # Final
  PROVE  \E v \in MergeWork : w \in PlanInputs(v)
<1> DEFINE S == Work \ {w}
<1>1. S \in SUBSET Work /\ Final \in S /\ S # Work
  BY PlanAssumption
<1>2. \A v \in MergeWork : PlanInputs(v) \subseteq Work
  BY PlanAssumption DEF PlanInputs
<1> HIDE DEF S
<1>3. PICK v \in S \cap MergeWork : ~ (PlanInputs(v) \subseteq S)
  BY <1>1 DEF LeadsToFinal, PlanInputs
<1>4. w \in PlanInputs(v)
  BY <1>2, <1>3 DEF S
<1>5. QED
  BY <1>3, <1>4

\* When the last table is finished it is made of every row found.
LEMMA LastTable ==
  ASSUME LeadsToFinal, AnswerInv, LifeInv, SavedOnce, Calm, ReadInv, live,
         buf[Final].status = "WorkDone"
  PROVE  /\ IsInjective(buf[Final].rows)
         /\ Unlimited => TableOf(Final) = UNION {AllRows(w) : w \in ScanWork}
<1>1. Final \in Work /\ EmptyBuffer.status # "WorkDone" /\ ScanWork \subseteq Work
      /\ MergeWork \subseteq Work
  BY PlanAssumption DEF EmptyBuffer, ScanWork
<1>2. Finished(Final)
  BY <1>1 DEF ReadInv, Fresh, Finished
<1>3. FinishedSet = Work
  BY <1>2, AllFinished DEF Finished, FinishedSet
<1>4. FoundRows = UNION {AllRows(w) : w \in ScanWork}
  BY <1>1, <1>3 DEF FoundRows
<1>5. UnreadSet \subseteq {Final}
  BY <1>1, <1>3, OthersAreRead DEF UnreadSet
<1>6. ASSUME Unlimited PROVE TableOf(Final) = FoundRows
  <2>1. UNION {TableOf(w) : w \in UnreadSet} = FoundRows /\ TableOf(Final) \subseteq FoundRows
    BY <1>1, <1>3, <1>6 DEF AnswerInv
  <2>2. UNION {TableOf(w) : w \in UnreadSet} \subseteq TableOf(Final)
    BY <1>5
  <2>3. QED
    BY <2>1, <2>2
<1>7. QED
  BY <1>1, <1>3, <1>4, <1>6 DEF AnswerInv

\* What was answered.
AnswerSo ==
  answer.status # "none" /\ Unlimited
    => HoldsOnce(answer.rows, UNION {AllRows(w) : w \in ScanWork})

\* The client answers with the last table.
LEMMA AnswerGiven ==
  ASSUME LeadsToFinal, AnswerInv, LifeInv, SavedOnce, Calm, ReadInv, AnswerSo, early' = {},
         [Next]_vars
  PROVE  AnswerSo'
<1>1. CASE answer' = answer
  BY <1>1 DEF AnswerSo, Unlimited
<1>2. CASE GetFinishedTableData(Client)
  <2>1. /\ answer' = [status |-> buf[Final].status, rows |-> buf[Final].rows,
                      scanned |-> scanned]
        /\ Final \in Work /\ live /\ Client \in Reader
        /\ early' = IF buf[Final].status = "WorkDone" THEN early ELSE early \cup {Client}
    BY <1>2, PlanAssumption, PlanTypes DEF GetFinishedTableData, Target, Enters, Valid
  <2>2. buf[Final].status = "WorkDone" /\ buf[Final].rows \in Seq(Row)
    BY <2>1 DEF LifeInv, TypeOK, WorkBuffer
  <2>3. HoldsOnce(buf[Final].rows, Range(buf[Final].rows))
    BY <2>1, <2>2, LastTable, OnceIsInjective
  <2>4. Unlimited => HoldsOnce(buf[Final].rows, UNION {AllRows(w) : w \in ScanWork})
    BY <2>1, <2>2, <2>3, LastTable DEF TableOf
  <2>5. QED
    BY <2>1, <2>4 DEF AnswerSo, Unlimited
<1>3. CASE Next /\ ~ GetFinishedTableData(Client)
  BY <1>1, <1>3, WhoReads DEF GetFinishedTableData, GetTableData
<1>4. QED
  BY <1>1, <1>2, <1>3 DEF vars, reading

\* The inductive invariant behind AnswerComplete.
AnswerInvs == PlanInv /\ (early = {} => AnswerInv /\ AnswerSo)

\* Every step keeps it.
LEMMA AnswerInvStep ==
  ASSUME LeadsToFinal, ReadsOnce
  PROVE  AnswerInvs /\ [Next]_vars => AnswerInvs'
<1> SUFFICES ASSUME AnswerInvs, [Next]_vars PROVE AnswerInvs'
  OBVIOUS
<1>1. PlanInv'
  BY PlanInvStep DEF AnswerInvs
<1>2. ASSUME early' = {} PROVE AnswerInv' /\ AnswerSo'
  <2>1. early = {} /\ Calm /\ Calm' /\ ReadInv /\ AnswerInv /\ AnswerSo
    BY <1>1, <1>2, EarlyStays DEF AnswerInvs, PlanInv, FaultInv
  <2>2. AnswerSo'
    BY <1>2, <2>1, AnswerGiven DEF AnswerInvs, PlanInv
  <2>3. CASE Next
    BY <1>1, <2>1, <2>2, <2>3, AnswerStep DEF AnswerInvs, PlanInv
  <2>4. CASE UNCHANGED vars
    <3>1. FinishedSet' = FinishedSet /\ buf' = buf
      BY <2>4 DEF vars, FinishedSet
    <3>2. QED
      BY <2>1, <2>2, <3>1, AnswerStays
  <2>5. QED
    BY <2>3, <2>4
<1>3. QED
  BY <1>1, <1>2 DEF AnswerInvs

\* For every plan that reads each of its tables once and has no limit clause, any
\* results and every interleaving: as long as no reader was handed an unfinished table,
\* the answer is made of every row that the CSDs found, each once, however the tables
\* were cut into batches and passed on (buffer_manager.cc:433-593).
THEOREM AnswersAreComplete ==
  ASSUME LeadsToFinal, ReadsOnce
  PROVE  Spec => []AnswerComplete
<1>1. Init => AnswerInvs
  BY PlanInvInit, AnswerInit DEF AnswerInvs, AnswerSo, Init
<1>2. AnswerInvs => AnswerComplete
  BY DEF AnswerInvs, AnswerSo, AnswerComplete, Unlimited
<1>3. AnswerInvs /\ [Next]_vars => AnswerInvs'
  BY AnswerInvStep
<1>4. QED
  BY <1>1, <1>2, <1>3, PTL DEF Spec

------------------------------------------------------------------------------
(* The limit clause.                                                          *)

\* Only saveTableData brings a merging work to its end.
LEMMA WhoEnds ==
  ASSUME LifeInv, Next, NEW w \in MergeWork, pc'[w] = "done"
  PROVE  pc[w] = "done" \/ SaveTableData(w)
<1>1. /\ w \in Reader /\ w # Client /\ pc \in [Reader -> Place]
  BY PlanTypes DEF LifeInv, TypeOK, Place
<1>2. ASSUME NEW t \in Reader, NEW p, pc' = [pc EXCEPT ![t] = p], p # "done" \/ t = Client
      PROVE  pc[w] = "done"
  BY <1>1, <1>2
<1>3. ASSUME \A t \in Reader : pc'[t] = pc[t] \/ pc'[t] = "woken" PROVE pc[w] = "done"
  BY <1>1, <1>3
<1>4. CASE ReceiverStep
  BY <1>3, <1>4 DEF ReceiverStep, Receive, ReceiverLookup, PushResult, ReceiverFault, reading
<1>5. ASSUME NEW g \in Generation, NEW v \in ScanWork, MergerStep(g, v) PROVE pc[w] = "done"
  <2>1. CASE CountResult(g, v)
    BY <1>3, <2>1 DEF CountResult
  <2>2. QED
    BY <1>3, <1>5, <2>1 DEF MergerStep, MergerLookup, PopResult, MergeResult, MergerFault, reading
<1>6. ASSUME NEW v \in MergeWork, WorkerStep(v) PROVE pc[w] = "done" \/ SaveTableData(w)
  <2>1. CASE SaveTableData(v)
    BY <1>1, <2>1 DEF SaveTableData
  <2>2. CASE GetFinishedTableData(v)
    <3>1. v \in Reader
      BY PlanTypes
    <3>2. QED
      BY <1>2, <2>2, <3>1 DEF GetFinishedTableData
  <2>3. CASE GetTableData(v)
    BY <1>2, <2>3, PlanTypes DEF GetTableData
  <2>4. CASE ReaderFault(v)
    BY <1>3, <2>4 DEF ReaderFault, reading
  <2>5. CASE RunSnippetWork(v) \/ BeginRead(v) \/ FindName(v) \/ ReaderLookup(v)
    BY <1>2, <2>5, PlanTypes DEF RunSnippetWork, BeginRead, FindName, ReaderLookup
  <2>6. CASE WaitWorkDone(v) \/ WaitWorkInProgress(v) \/ SaveLookup(v)
    BY <1>2, <2>6, PlanTypes DEF WaitWorkDone, WaitWorkInProgress, SaveLookup
  <2>7. QED
    BY <1>6, <2>1, <2>2, <2>3, <2>4, <2>5, <2>6 DEF WorkerStep
<1>7. CASE ClientStep
  BY <1>2, <1>3, <1>7, PlanTypes DEF ClientStep, GetQueryResult, ReaderLookup, WaitWorkDone,
     GetFinishedTableData, EndQuery, ReaderFault, reading
<1>8. ASSUME NEW t \in Reader, SpuriousWakeup(t) PROVE pc[w] = "done"
  BY <1>2, <1>8 DEF SpuriousWakeup
<1>9. CASE UNCHANGED vars
  BY <1>3, <1>9 DEF vars, reading
<1>10. QED
  BY <1>4, <1>5, <1>6, <1>7, <1>8, <1>9 DEF Next

\* A merging work that is done has saved what it read, which has no row twice.
SavedSo ==
  \A w \in MergeWork : pc[w] = "done" =>
    w \in FinishedSet /\ buf[w].rows = Output(w) /\ IsInjective(whole[w] \o streamed[w])

\* Every step of a calm query keeps that.
LEMMA SavedSoStep ==
  ASSUME ReadsOnce, AnswerInv, LifeInv, ScanInv, SavedOnce, StreamInv, Calm, Calm', ReadInv,
         SavedSo, Next
  PROVE  SavedSo'
<1> SUFFICES ASSUME NEW w \in MergeWork, pc'[w] = "done"
             PROVE  /\ w \in FinishedSet' /\ buf'[w].rows = Output(w)'
                    /\ IsInjective(whole'[w] \o streamed'[w])
  BY DEF SavedSo
<1>1. CASE SaveTableData(w)
  <2>1. whole' = whole /\ streamed' = streamed
    BY <1>1 DEF SaveTableData
  <2>2. w \in FinishedSet' /\ buf'[w].rows = Output(w)
    BY <1>1, SavedTable
  <2>3. IsInjective(whole[w] \o streamed[w])
    BY <1>1, InputsInjective
  <2>4. QED
    BY <2>1, <2>2, <2>3 DEF Output
<1>2. CASE pc[w] = "done"
  <2>1. w \in FinishedSet /\ buf[w].rows = Output(w) /\ IsInjective(whole[w] \o streamed[w])
    BY <1>2 DEF SavedSo
  <2>2. buf'[w].rows = buf[w].rows
    BY <2>1, FinishedStay DEF ReadInv
  <2>3. w \in FinishedSet'
    <3>1. /\ live => w \in allocated
          /\ w \in Work /\ buf[w].status = "WorkDone"
      BY <1>2, <2>1 DEF Calm, ReadersSafe, FinishedSet
    <3>2. CASE buf' = buf
      BY <2>1, <3>2 DEF FinishedSet
    <3>3. CASE live
      BY <3>1, <3>3, DoneStays DEF FinishedSet
    <3>4. QED
      BY <3>2, <3>3, CalmBuffers DEF ReadInv
  <2>4. whole'[w] = whole[w] /\ streamed'[w] = streamed[w]
    <3>1. /\ w \in Reader /\ whole \in [Reader -> Seq(Row)] /\ streamed \in [Reader -> Seq(Row)]
      BY PlanTypes DEF LifeInv, TypeOK
    <3>2. ASSUME NEW t \in Reader, GetFinishedTableData(t)
          PROVE  whole'[w] = whole[w] /\ streamed'[w] = streamed[w]
      BY <1>2, <3>1, <3>2 DEF GetFinishedTableData, Enters
    <3>3. ASSUME NEW v \in MergeWork, GetTableData(v)
          PROVE  whole'[w] = whole[w] /\ streamed'[w] = streamed[w]
      BY <1>2, <3>1, <3>3 DEF GetTableData, Enters
    <3>4. QED
      BY <3>2, <3>3, WhoReads
  <2>5. QED
    BY <2>1, <2>2, <2>3, <2>4 DEF Output
<1>3. QED
  BY <1>1, <1>2, WhoEnds

\* A limit clause that is not longer than the table it is applied to drops its first
\* `offset' rows.
OffsetSkipped ==
  \A w \in MergeWork :
    LET input == whole[w] \o streamed[w]
    IN  (pc[w] = "done" /\ Limit[w].length \in 1..Len(input)) =>
          \A i \in DOMAIN input : input[i] \in Range(buf[w].rows) => i > Limit[w].offset

\* For every plan that reads each of its tables once: as long as no reader is handed an
\* unfinished table, the rows that such a limit clause drops are the first ones that its
\* work read (buffer_manager.cc:537-593).
THEOREM OffsetsAreSkipped ==
  ASSUME LeadsToFinal, ReadsOnce
  PROVE  Spec /\ []NoEarlyRead => []OffsetSkipped
<1> DEFINE Inv == AnswerInvs /\ (early = {} => SavedSo)
<1>1. Init => Inv
  <2>1. Init => SavedSo
    BY PlanTypes DEF Init, SavedSo
  <2>2. QED
    BY <2>1, PlanInvInit, AnswerInit DEF AnswerInvs, AnswerSo, Init
<1>2. Inv /\ [Next]_vars => Inv'
  <2> SUFFICES ASSUME Inv, [Next]_vars PROVE Inv'
    OBVIOUS
  <2>1. AnswerInvs'
    BY AnswerInvStep
  <2>2. ASSUME early' = {} PROVE SavedSo'
    <3>1. /\ early = {} /\ Calm /\ Calm' /\ ReadInv /\ AnswerInv /\ SavedSo
          /\ LifeInv /\ ScanInv /\ SavedOnce /\ StreamInv
      BY <2>1, <2>2, EarlyStays DEF AnswerInvs, PlanInv, FaultInv
    <3>2. CASE Next
      BY <3>1, <3>2, SavedSoStep
    <3>3. CASE UNCHANGED vars
      BY <3>1, <3>3 DEF vars, reading, SavedSo, FinishedSet, Output
    <3>4. QED
      BY <3>2, <3>3
  <2>3. QED
    BY <2>1, <2>2
<1>3. Inv /\ NoEarlyRead => OffsetSkipped
  <2> SUFFICES ASSUME Inv, NoEarlyRead, NEW w \in MergeWork, pc[w] = "done",
                      Limit[w].length \in 1..Len(whole[w] \o streamed[w])
               PROVE  \A i \in DOMAIN (whole[w] \o streamed[w]) :
                         (whole[w] \o streamed[w])[i] \in Range(buf[w].rows)
                           => i > Limit[w].offset
    BY DEF OffsetSkipped
  <2> DEFINE rows == whole[w] \o streamed[w]
  <2>1. w \in Reader /\ whole[w] \in Seq(Row) /\ streamed[w] \in Seq(Row)
    BY PlanTypes DEF AnswerInvs, PlanInv, LifeInv, TypeOK
  <2>2. rows \in Seq(Row) /\ Len(rows) \in Nat
    BY <2>1, ConcatProperties, LenProperties
  <2>3. buf[w].rows = Limited(rows, Limit[w]) /\ IsInjective(rows)
    BY DEF SavedSo, NoEarlyRead, Output
  <2>4. Limit[w].length \in 1..Len(rows)
    OBVIOUS
  <2> HIDE DEF rows
  <2>5. Limit[w].length # 0 /\ Limit[w].length <= Len(rows)
    BY <2>2, <2>4
  <2>6. \A i \in DOMAIN rows : rows[i] \in Range(Limited(rows, Limit[w])) => i > Limit[w].offset
    BY <2>2, <2>3, <2>5, InjectiveLimited
  <2>7. QED
    BY <2>3, <2>6 DEF rows
<1> HIDE DEF Inv
<1>4. QED
  BY <1>1, <1>2, <1>3, PTL DEF Spec

------------------------------------------------------------------------------
(* How long the answer is.                                                    *)

ReadLength(w) ==
  Len(buf[Whole[w]].rows) + (IF Streamed[w] = NoWork THEN 0 ELSE Len(buf[Streamed[w]].rows))

CutLength(w, m) ==
  IF Limit[w].length \in 1..m THEN Limit[w].length - Limit[w].offset ELSE m

\* The limit clause, by the length of what it leaves.
LEMMA LimitedLength ==
  ASSUME NEW w \in MergeWork, NEW rows \in Seq(Row)
  PROVE  Len(Limited(rows, Limit[w])) = CutLength(w, Len(rows))
<1> DEFINE m == Limit[w].offset + 1
           n == Limit[w].length
           k == Len(rows)
           kept == SubSeq(rows, m, n)
<1>1. /\ m \in Int /\ n \in Nat /\ m >= 1 /\ k \in Nat /\ DOMAIN rows = 1..k
      /\ Limit[w].offset \in Nat /\ (n # 0 => Limit[w].offset <= n)
  BY PlanAssumption, LenProperties
<1>2. CASE n # 0 /\ n <= k
  <2>1. Limited(rows, Limit[w]) = kept
    BY <1>2 DEF Limited
  <2>2. CutLength(w, k) = n - Limit[w].offset
    <3>1. n \in 1..k
      BY <1>1, <1>2
    <3>2. QED
      BY <3>1 DEF CutLength
  <2> HIDE DEF m, n, k
  <2>3. \A i \in m..n : i \in 1..k
    BY <1>1, <1>2
  <2>4. \A i \in m..n : rows[i] \in Row
    BY <2>3, ElementOfSeq DEF k
  <2>5. Len(kept) = IF m <= n THEN n - m + 1 ELSE 0
    BY <1>1, <2>4, SubSeqProperties
  <2>6. Len(kept) = n - Limit[w].offset
    BY <1>1, <1>2, <2>5 DEF m
  <2>7. QED
    BY <2>1, <2>2, <2>6 DEF k
<1>3. CASE ~ (n # 0 /\ n <= k)
  BY <1>1, <1>3 DEF Limited, CutLength
<1>4. QED
  BY <1>2, <1>3

\* Finished tables are as long as the plan makes them.
SizeInv ==
  \A w \in FinishedSet :
    /\ w \in ScanWork => Len(buf[w].rows) = Cardinality(AllRows(w))
    /\ w \in MergeWork => Len(buf[w].rows) = CutLength(w, ReadLength(w))

\* What a merging work read stays as long as it is.
LEMMA ReadLengthStays ==
  ASSUME AnswerInv, \A v \in FinishedSet : buf'[v].rows = buf[v].rows,
         NEW w \in MergeWork, PlanInputs(w) \subseteq FinishedSet
  PROVE  ReadLength(w)' = ReadLength(w)
<1>1. Whole[w] \in FinishedSet /\ (Streamed[w] # NoWork => Streamed[w] \in FinishedSet)
  BY PlanAssumption DEF PlanInputs
<1>2. QED
  BY <1>1 DEF ReadLength

LEMMA SizeStays ==
  ASSUME AnswerInv, SizeInv, FinishedSet' = FinishedSet,
         \A v \in FinishedSet : buf'[v].rows = buf[v].rows
  PROVE  SizeInv'
<1> SUFFICES ASSUME NEW w \in FinishedSet
             PROVE  /\ w \in ScanWork => Len(buf'[w].rows) = Cardinality(AllRows(w))
                    /\ w \in MergeWork => Len(buf'[w].rows) = CutLength(w, ReadLength(w)')
  BY DEF SizeInv, CutLength
<1>1. CASE w \in MergeWork
  <2>1. PlanInputs(w) \subseteq FinishedSet
    BY <1>1 DEF AnswerInv
  <2>2. ReadLength(w)' = ReadLength(w)
    BY <1>1, <2>1, ReadLengthStays
  <2>3. QED
    BY <1>1, <2>2 DEF SizeInv, ScanWork
<1>2. CASE w \notin MergeWork
  BY <1>2 DEF SizeInv
<1>3. QED
  BY <1>1, <1>2

\* One more finished table, of the right length.
LEMMA SizeGrows ==
  ASSUME AnswerInv, SizeInv, NEW w \in Work, w \notin FinishedSet, FinishedSet' = FinishedSet \cup {w},
         \A v \in FinishedSet : buf'[v].rows = buf[v].rows,
         w \in ScanWork => Len(buf'[w].rows) = Cardinality(AllRows(w)),
         w \in MergeWork => /\ PlanInputs(w) \subseteq FinishedSet
                            /\ Len(buf'[w].rows) = CutLength(w, ReadLength(w))
  PROVE  SizeInv'
<1> SUFFICES ASSUME NEW v \in FinishedSet'
             PROVE  /\ v \in ScanWork => Len(buf'[v].rows) = Cardinality(AllRows(v))
                    /\ v \in MergeWork => Len(buf'[v].rows) = CutLength(v, ReadLength(v)')
  BY DEF SizeInv, CutLength
<1>1. ASSUME v \in MergeWork, PlanInputs(v) \subseteq FinishedSet PROVE ReadLength(v)' = ReadLength(v)
  BY <1>1, ReadLengthStays
<1>2. CASE v = w
  BY <1>1, <1>2
<1>3. CASE v # w
  <2>1. v \in FinishedSet
    BY <1>3
  <2>2. v \in MergeWork => PlanInputs(v) \subseteq FinishedSet
    BY <2>1 DEF AnswerInv
  <2>3. QED
    BY <1>1, <2>1, <2>2 DEF SizeInv
<1>4. QED
  BY <1>2, <1>3

\* A saved table has the length that its inputs and its limit clause make.
LEMMA SavedLength ==
  ASSUME LifeInv, SavedOnce, Calm, ReadInv, StreamInv, NEW w \in MergeWork, SaveTableData(w)
  PROVE  Len(buf'[w].rows) = CutLength(w, ReadLength(w))
<1> DEFINE rows == whole[w] \o streamed[w]
<1>1. /\ live /\ whole[w] \in Seq(Row) /\ streamed[w] \in Seq(Row) /\ rows \in Seq(Row)
      /\ buf'[w].rows = Limited(rows, Limit[w])
  BY SavedTable DEF Output
<1>2. /\ whole[w] = buf[Whole[w]].rows
      /\ streamed[w] = IF Streamed[w] = NoWork THEN <<>> ELSE buf[Streamed[w]].rows
  BY <1>1, InputRows DEF SaveTableData, Past
<1>3. Len(rows) = Len(whole[w]) + Len(streamed[w])
  BY <1>1, ConcatProperties
<1>4. Len(streamed[w]) = IF Streamed[w] = NoWork THEN 0 ELSE Len(buf[Streamed[w]].rows)
  BY <1>2
<1> HIDE DEF rows
<1>5. Len(rows) = ReadLength(w)
  BY <1>2, <1>3, <1>4 DEF ReadLength
<1>6. Len(Limited(rows, Limit[w])) = CutLength(w, Len(rows))
  BY <1>1, LimitedLength
<1>7. QED
  BY <1>1, <1>5, <1>6

\* Every step that hands out no unfinished table keeps SizeInv.
LEMMA SizeStep ==
  ASSUME ReadsOnce, AnswerInv, SizeInv, LifeInv, LifeInv', ScanInv, ScanInv', SavedOnce, StreamInv,
         Calm, Calm', ReadInv, Next
  PROVE  SizeInv'
<1>1. \A w \in FinishedSet : buf'[w].rows = buf[w].rows
  BY FinishedStay DEF ReadInv
<1>2. ASSUME FinishedSet' = FinishedSet PROVE SizeInv'
  BY <1>1, <1>2, SizeStays
<1>3. ASSUME NEW g \in Generation, NEW w \in ScanWork,
             PopResult(g, w) \/ MergeResult(g, w) \/ CountResult(g, w)
      PROVE  SizeInv'
  <2>1. CASE PopResult(g, w) \/ MergeResult(g, w)
    <3>1. buf \in [Work -> WorkBuffer] /\ w \in Work
      BY PlanTypes DEF LifeInv, TypeOK
    <3>2. \A v \in Work : buf'[v].status = buf[v].status
      <4>1. CASE PopResult(g, w)
        BY <3>1, <4>1 DEF PopResult, WorkBuffer
      <4>2. CASE MergeResult(g, w)
        BY <3>1, <4>2 DEF MergeResult, WorkBuffer
      <4>3. QED
        BY <2>1, <4>1, <4>2
    <3>3. QED
      BY <1>2, <3>2 DEF FinishedSet
  <2>2. CASE CountResult(g, w)
    <3>1. /\ w \in Work /\ w \notin FinishedSet
          /\ \/ FinishedSet' = FinishedSet
             \/ /\ FinishedSet' = FinishedSet \cup {w}
                /\ HoldsOnce(buf'[w].rows, AllRows(w))
      BY <2>2, CountedTable
    <3>2. CASE FinishedSet' = FinishedSet \cup {w} /\ HoldsOnce(buf'[w].rows, AllRows(w))
      <4>1. Len(buf'[w].rows) = Cardinality(AllRows(w))
        BY <3>2 DEF HoldsOnce
      <4>2. w \notin MergeWork
        BY DEF ScanWork
      <4>3. QED
        BY <1>1, <3>1, <3>2, <4>1, <4>2, SizeGrows
    <3>3. QED
      BY <1>2, <3>1, <3>2
  <2>3. QED
    BY <1>3, <2>1, <2>2
<1>4. ASSUME PushResult PROVE SizeInv'
  <2>1. \A v \in Work : buf'[v].status = "WorkDone" <=> buf[v].status = "WorkDone"
    BY <1>4 DEF LifeInv, TypeOK, PushResult
  <2>2. QED
    BY <1>2, <2>1 DEF FinishedSet
<1>5. ASSUME NEW w \in MergeWork, SaveTableData(w) PROVE SizeInv'
  <2>1. /\ w \in Work /\ w \notin FinishedSet
        /\ FinishedSet' = FinishedSet \cup {w}
        /\ PlanInputs(w) \subseteq FinishedSet
    BY <1>5, SavedTable
  <2>2. Len(buf'[w].rows) = CutLength(w, ReadLength(w))
    BY <1>5, SavedLength
  <2>3. w \notin ScanWork
    BY DEF ScanWork
  <2>4. QED
    BY <1>1, <2>1, <2>2, <2>3, SizeGrows
<1>6. CASE buf' = buf
  BY <1>2, <1>6 DEF FinishedSet
<1>7. QED
  BY <1>3, <1>4, <1>5, <1>6, CalmBuffers DEF ReadInv

EveryRow == UNION {AllRows(w) : w \in ScanWork}

\* What may be answered.
CutAsPlanned(rows) ==
  /\ \E n \in [Work -> 0..Cardinality(EveryRow)] : Sized(n) /\ Len(rows) = n[Final]
  /\ Range(rows) \subseteq EveryRow
  /\ HoldsOnce(rows, Range(rows))

\* When the last table is finished, the lengths of the tables are those of the plan.
LEMMA LastLength ==
  ASSUME LeadsToFinal, AnswerInv, SizeInv, LifeInv, SavedOnce, Calm, ReadInv, live,
         buf[Final].status = "WorkDone"
  PROVE  CutAsPlanned(buf[Final].rows)
<1>1. /\ Final \in Work /\ EmptyBuffer.status # "WorkDone" /\ ScanWork \subseteq Work
      /\ MergeWork \subseteq Work /\ buf \in [Work -> WorkBuffer]
  BY PlanAssumption DEF EmptyBuffer, ScanWork, LifeInv, TypeOK
<1>2. Finished(Final)
  BY <1>1 DEF ReadInv, Fresh, Finished
<1>3. FinishedSet = Work
  BY <1>2, AllFinished DEF Finished, FinishedSet
<1>4. FoundRows = EveryRow
  BY <1>1, <1>3 DEF FoundRows, EveryRow
<1>5. \A w \in Work : buf[w].rows \in Seq(Row)
  BY <1>1 DEF WorkBuffer
<1>6. \A w \in Work : HoldsOnce(buf[w].rows, TableOf(w)) /\ TableOf(w) \subseteq EveryRow
  <2>1. \A w \in Work : IsInjective(buf[w].rows) /\ TableOf(w) \subseteq EveryRow
    BY <1>3, <1>4 DEF AnswerInv
  <2>2. QED
    BY <1>5, <2>1, OnceIsInjective DEF TableOf
<1>7. IsFiniteSet(EveryRow)
  <2>1. Row = RowsIn(Result)
    BY DEF Row, RowsIn
  <2>2. IsFiniteSet(Row)
    BY <2>1, RowsFinite
  <2>3. EveryRow \in SUBSET Row
    <3>1. \A r \in Result : Range(RowsOf(r)) \subseteq Row
      BY RowsOfType, Zenon DEF Row
    <3>2. \A w \in ScanWork : AllRows(w) \subseteq Row
      BY <3>1 DEF AllRows, ResultsOf
    <3>3. QED
      BY <3>2, Zenon DEF EveryRow
  <2>4. QED
    BY <2>2, <2>3, FS_Subset
<1> DEFINE n == [w \in Work |-> Len(buf[w].rows)]
<1>8. \A w \in Work : Len(buf[w].rows) \in 0..Cardinality(EveryRow)
  <2> SUFFICES ASSUME NEW w \in Work PROVE Len(buf[w].rows) \in 0..Cardinality(EveryRow)
    OBVIOUS
  <2>1. Len(buf[w].rows) = Cardinality(TableOf(w)) /\ Len(buf[w].rows) \in Nat
    BY <1>5, <1>6, LenProperties DEF HoldsOnce
  <2>2. Cardinality(TableOf(w)) <= Cardinality(EveryRow)
    BY <1>6, <1>7, FS_Subset
  <2>3. Cardinality(EveryRow) \in Nat
    BY <1>7, FS_CardinalityType
  <2>4. QED
    BY <2>1, <2>2, <2>3
<1>9. n \in [Work -> 0..Cardinality(EveryRow)] /\ n[Final] = Len(buf[Final].rows)
  BY <1>1, <1>8
<1>10. Sized(n)
  <2>1. ASSUME NEW w \in ScanWork PROVE n[w] = Cardinality(AllRows(w))
    BY <1>1, <1>3 DEF SizeInv
  <2>2. ASSUME NEW w \in MergeWork
        PROVE  n[w] = CutLength(w, n[Whole[w]] + (IF Streamed[w] = NoWork THEN 0 ELSE n[Streamed[w]]))
    <3>1. w \in Work /\ Whole[w] \in Work /\ (Streamed[w] # NoWork => Streamed[w] \in Work)
      BY <1>1, PlanAssumption
    <3>2. n[w] = CutLength(w, ReadLength(w))
      BY <1>3, <3>1 DEF SizeInv
    <3>3. ReadLength(w) = n[Whole[w]] + (IF Streamed[w] = NoWork THEN 0 ELSE n[Streamed[w]])
      BY <3>1 DEF ReadLength
    <3>4. QED
      BY <3>2, <3>3
  <2> HIDE DEF n
  <2>3. QED
    BY <2>1, <2>2 DEF Sized, CutLength
<1> HIDE DEF n
<1>11. \E l \in [Work -> 0..Cardinality(EveryRow)] : Sized(l) /\ Len(buf[Final].rows) = l[Final]
  BY <1>9, <1>10
<1>12. QED
  BY <1>1, <1>6, <1>11 DEF CutAsPlanned, TableOf

CutSo == answer.status # "none" => CutAsPlanned(answer.rows)

\* The client answers with the last table.
LEMMA CutGiven ==
  ASSUME LeadsToFinal, AnswerInv, SizeInv, LifeInv, SavedOnce, Calm, ReadInv, CutSo, early' = {},
         [Next]_vars
  PROVE  CutSo'
<1>1. CASE answer' = answer
  BY <1>1 DEF CutSo, CutAsPlanned, Sized, EveryRow
<1>2. CASE GetFinishedTableData(Client)
  <2>1. /\ answer' = [status |-> buf[Final].status, rows |-> buf[Final].rows,
                      scanned |-> scanned]
        /\ live
        /\ early' = IF buf[Final].status = "WorkDone" THEN early ELSE early \cup {Client}
    BY <1>2, PlanAssumption, PlanTypes DEF GetFinishedTableData, Target, Enters, Valid
  <2>2. buf[Final].status = "WorkDone"
    BY <2>1
  <2>3. CutAsPlanned(buf[Final].rows)
    BY <2>1, <2>2, LastLength
  <2>4. answer'.rows = buf[Final].rows
    BY <2>1
  <2>5. QED
    BY <2>3, <2>4 DEF CutSo, CutAsPlanned, Sized, EveryRow
<1>3. CASE Next /\ ~ GetFinishedTableData(Client)
  BY <1>1, <1>3, WhoReads DEF GetFinishedTableData, GetTableData
<1>4. QED
  BY <1>1, <1>2, <1>3 DEF vars, reading

\* For every plan that reads each of its tables once, with any limit clauses, any results
\* and every interleaving: as long as no reader was handed an unfinished table, the answer
\* is as long as the results, the works and their limit clauses make it, of rows that were
\* found, none twice (buffer_manager.cc:433-593).
THEOREM AnswersAreCutAsPlanned ==
  ASSUME LeadsToFinal, ReadsOnce
  PROVE  Spec => []AnswerCutAsPlanned
<1> DEFINE Inv == AnswerInvs /\ (early = {} => SizeInv /\ CutSo)
<1>1. Init => Inv
  <2>1. ASSUME Init PROVE FinishedSet = {} /\ answer.status = "none"
    BY <2>1 DEF Init, EmptyBuffer, FinishedSet
  <2>2. Init => SizeInv /\ CutSo
    BY <2>1 DEF SizeInv, CutSo
  <2>3. QED
    BY <2>2, PlanInvInit, AnswerInit DEF AnswerInvs, AnswerSo, Init
<1>2. Inv /\ [Next]_vars => Inv'
  <2> SUFFICES ASSUME Inv, [Next]_vars PROVE Inv'
    OBVIOUS
  <2>1. AnswerInvs'
    BY AnswerInvStep
  <2>2. ASSUME early' = {} PROVE SizeInv' /\ CutSo'
    <3>1. /\ early = {} /\ Calm /\ Calm' /\ ReadInv /\ AnswerInv /\ SizeInv /\ CutSo
          /\ LifeInv /\ ScanInv /\ SavedOnce /\ StreamInv /\ LifeInv' /\ ScanInv'
      BY <2>1, <2>2, EarlyStays DEF AnswerInvs, PlanInv, FaultInv
    <3>2. CutSo'
      BY <2>2, <3>1, CutGiven
    <3>3. CASE Next
      BY <3>1, <3>2, <3>3, SizeStep
    <3>4. CASE UNCHANGED vars
      <4>1. FinishedSet' = FinishedSet /\ buf' = buf
        BY <3>4 DEF vars, FinishedSet
      <4>2. QED
        BY <3>1, <3>2, <4>1, SizeStays
    <3>5. QED
      BY <3>3, <3>4
  <2>3. QED
    BY <2>1, <2>2
<1>3. Inv => AnswerCutAsPlanned
  BY DEF CutSo, CutAsPlanned, AnswerCutAsPlanned, EveryRow
<1> HIDE DEF Inv
<1>4. QED
  BY <1>1, <1>2, <1>3, PTL DEF Spec

------------------------------------------------------------------------------
(* scanned_row_count.                                                         *)

\* The rows a result's count stands for are as many.
LEMMA ScannedOfResult ==
  ASSUME NEW r \in Result
  PROVE  /\ IsFiniteSet({r} \X (1..Scanned[r]))
         /\ Cardinality({r} \X (1..Scanned[r])) = Scanned[r]
<1>1. Scanned[r] \in Nat
  BY ResultAssumption
<1>2. IsFiniteSet({r}) /\ Cardinality({r}) = 1
  BY FS_Singleton, Zenon
<1>3. IsFiniteSet(1..Scanned[r]) /\ Cardinality(1..Scanned[r]) = Scanned[r]
  BY <1>1, UpTo, Zenon
<1>4. /\ IsFiniteSet({r} \X (1..Scanned[r]))
      /\ Cardinality({r} \X (1..Scanned[r])) = Cardinality({r}) * Cardinality(1..Scanned[r])
  BY <1>2, <1>3, FS_Product, Zenon
<1>5. QED
  BY <1>1, <1>2, <1>3, <1>4

\* Another result adds its count.
LEMMA OneMoreScanned ==
  ASSUME NEW S \in SUBSET Result, NEW r \in Result, r \notin S
  PROVE  Cardinality(ScannedRows(S \cup {r})) = Cardinality(ScannedRows(S)) + Scanned[r]
<1> DEFINE T == {{q} \X (1..Scanned[q]) : q \in S}
           f == [q \in S |-> {q} \X (1..Scanned[q])]
           R == {r} \X (1..Scanned[r])
<1>1. IsFiniteSet(S)
  BY ResultAssumption, FS_Subset
<1>2. f \in Surjection(S, T)
  BY DEF Surjection
<1>3. IsFiniteSet(T)
  BY <1>1, <1>2, FS_Surjection
<1>4. \A Q \in T : IsFiniteSet(Q)
  BY ScannedOfResult
<1>5. IsFiniteSet(UNION T)
  BY <1>3, <1>4, FS_UNION
<1>6. ScannedRows(S) = UNION T
  BY DEF ScannedRows
<1>7. ScannedRows(S \cup {r}) = ScannedRows(S) \cup R
  BY DEF ScannedRows
<1>8. ScannedRows(S) \cap R = {}
  BY DEF ScannedRows
<1>9. IsFiniteSet(R) /\ Cardinality(R) = Scanned[r]
  BY ScannedOfResult
<1> HIDE DEF R, T
<1>10. QED
  BY <1>5, <1>6, <1>7, <1>8, <1>9, DisjointCount

\* Some merge thread of w is between reading the query's count and writing it.
Counting(w) == \E g \in Generation : merger[g][w].pc = "count"

\* The count that a set of results makes.
SumOf(S) == Cardinality(ScannedRows(S))

\* With a single scan work its lock protects the count too: it is the sum over the
\* results merged, or will be when the thread in the critical section writes it.
ScannedInv ==
  Cardinality(ScanWork) = 1 => \A w \in ScanWork :
    /\ ~ Counting(w) => scanned = SumOf(buf[w].got)
    /\ \A g \in Generation : merger[g][w].pc = "count" =>
         /\ merger[g][w].item \in buf[w].got
         /\ merger[g][w].loaded = SumOf(buf[w].got \ {merger[g][w].item})

\* The only scan work.
LEMMA OnlyScan ==
  ASSUME Cardinality(ScanWork) = 1, NEW v \in ScanWork, NEW w \in ScanWork
  PROVE  v = w
<1>1. IsFiniteSet(ScanWork)
  BY PlanAssumption, FS_Subset DEF ScanWork
<1>2. PICK x : ScanWork = {x}
  BY <1>1, FS_Singleton
<1>3. QED
  BY <1>2

\* Steps that leave the count, the results merged and the counting threads alone.
LEMMA ScannedStays ==
  ASSUME ScannedInv, scanned' = scanned,
         \A w \in ScanWork : buf'[w].got = buf[w].got,
         \A g \in Generation, w \in ScanWork :
           \/ merger'[g][w] = merger[g][w]
           \/ merger'[g][w].pc # "count" /\ merger[g][w].pc # "count"
  PROVE  ScannedInv'
<1>1. \A g \in Generation, w \in ScanWork :
        /\ merger'[g][w].pc = "count" <=> merger[g][w].pc = "count"
        /\ merger'[g][w].pc = "count" => /\ merger'[g][w].item = merger[g][w].item
                                         /\ merger'[g][w].loaded = merger[g][w].loaded
  OBVIOUS
<1>2. \A w \in ScanWork : Counting(w)' <=> Counting(w)
  BY <1>1 DEF Counting
<1>3. \A x : SumOf(x)' = SumOf(x)
  BY DEF SumOf, ScannedRows
<1>4. QED
  BY <1>1, <1>2, <1>3 DEF ScannedInv

\* mergeResult: it takes the lock, so nobody counts, and reads the count.
LEMMA ScannedRead ==
  ASSUME ScannedInv, LifeInv, ScanInv, Calm, NEW g \in Generation, NEW w \in ScanWork,
         MergeResult(g, w)
  PROVE  ScannedInv'
<1> DEFINE r == merger[g][w].item
           got == buf[w].got
<1>1. /\ buf \in [Work -> WorkBuffer] /\ w \in Work /\ r \in Result
      /\ merger \in [Generation -> [ScanWork -> MergeThread]]
      /\ scanned' = scanned /\ merger[g][w].pc = "merge" /\ merger[g][w].ptr = gen /\ live
      /\ w \in allocated
  BY PlanTypes DEF LifeInv, TypeOK, MergeResult, Calm, MergersSafe, Valid
<1>2. r \notin got
  BY <1>1 DEF ScanInv, MergersHold, At, Taken
<1>3. ~ Counting(w)
  BY <1>1 DEF MergeResult, Locked, Counting, Calm, MergersSafe
<1>4. buf'[w].got = got \cup {r}
  BY <1>1 DEF MergeResult, WorkBuffer
<1> DEFINE n == [merger[g][w] EXCEPT !.pc = "count", !.loaded = scanned]
<1>5. /\ n \in MergeThread /\ n.pc = "count" /\ n.item = r /\ n.loaded = scanned
      /\ merger' = [merger EXCEPT ![g][w] = n]
  <2>1. n \in MergeThread /\ n.pc = "count" /\ n.item = r /\ n.loaded = scanned
    <3>1. merger[g][w] \in MergeThread /\ scanned \in Nat
      BY <1>1 DEF LifeInv, TypeOK
    <3>2. QED
      BY <3>1 DEF MergeThread
  <2>2. merger' = [merger EXCEPT ![g][w] = n]
    BY DEF MergeResult
  <2>3. QED
    BY <2>1, <2>2
<1> HIDE DEF n
<1>6. \A h \in Generation : merger'[h][w] = IF h = g THEN n ELSE merger[h][w]
  BY <1>1, <1>5, MergerUpdate
<1>7. Counting(w)'
  BY <1>5, <1>6 DEF Counting
<1> HIDE DEF r, got
<1>8. ASSUME Cardinality(ScanWork) = 1, NEW h \in Generation, merger'[h][w].pc = "count"
      PROVE  /\ merger'[h][w].item \in buf'[w].got
             /\ merger'[h][w].loaded = SumOf(buf'[w].got \ {merger'[h][w].item})
  <2>1. h = g
    BY <1>3, <1>6, <1>8 DEF Counting
  <2>2. merger'[h][w].item = r /\ merger'[h][w].loaded = scanned
    BY <1>5, <1>6, <2>1
  <2>3. scanned = SumOf(got)
    BY <1>3, <1>8 DEF ScannedInv, got
  <2>4. (got \cup {r}) \ {r} = got
    BY <1>2
  <2>5. QED
    BY <1>4, <2>2, <2>3, <2>4
<1>9. SUFFICES ASSUME Cardinality(ScanWork) = 1, NEW v \in ScanWork
               PROVE  /\ Counting(v)'
                      /\ \A h \in Generation : merger'[h][v].pc = "count" =>
                           /\ merger'[h][v].item \in buf'[v].got
                           /\ merger'[h][v].loaded = SumOf(buf'[v].got \ {merger'[h][v].item})
  BY DEF ScannedInv, SumOf, ScannedRows
<1>10. v = w
  BY <1>9, OnlyScan
<1>11. QED
  BY <1>7, <1>8, <1>9, <1>10

\* And writes the count back with the result's own added.
LEMMA ScannedWritten ==
  ASSUME ScannedInv, LifeInv, Calm, NEW g \in Generation, NEW w \in ScanWork,
         CountResult(g, w)
  PROVE  ScannedInv'
<1> DEFINE r == merger[g][w].item
           got == buf[w].got
<1>1. /\ buf \in [Work -> WorkBuffer] /\ w \in Work /\ r \in Result
      /\ got \in SUBSET Result
      /\ merger \in [Generation -> [ScanWork -> MergeThread]]
      /\ merger[g][w].pc = "count" /\ g = gen
      /\ scanned' = merger[g][w].loaded + Scanned[r]
  BY PlanTypes DEF LifeInv, TypeOK, CountResult, Calm, MergersSafe, Counted, WorkBuffer
<1>2. buf'[w].got = got
  BY <1>1 DEF CountResult, WorkBuffer
<1> DEFINE n == [merger[g][w] EXCEPT !.pc = IF AllMerged(buf[w]) THEN "done" ELSE "pop",
                                     !.item = <<>>, !.loaded = 0]
<1>3. n \in MergeThread /\ n.pc # "count" /\ merger' = [merger EXCEPT ![g][w] = n]
  <2>1. n \in MergeThread /\ n.pc # "count"
    <3>1. merger[g][w] \in MergeThread
      BY <1>1
    <3>2. QED
      BY <3>1 DEF MergeThread
  <2>2. merger' = [merger EXCEPT ![g][w] = n]
    BY DEF CountResult
  <2>3. QED
    BY <2>1, <2>2
<1> HIDE DEF n
<1>4. \A h \in Generation : merger'[h][w] = IF h = g THEN n ELSE merger[h][w]
  BY <1>1, <1>3, MergerUpdate
<1>5. \A h \in Generation : merger'[h][w].pc # "count"
  BY <1>1, <1>3, <1>4 DEF Calm, MergersSafe
<1> HIDE DEF r, got
<1>6. ASSUME Cardinality(ScanWork) = 1 PROVE scanned' = SumOf(got)
  <2>1. r \in got /\ merger[g][w].loaded = SumOf(got \ {r})
    BY <1>1, <1>6 DEF ScannedInv, r, got
  <2>2. (got \ {r}) \cup {r} = got
    BY <2>1
  <2>3. Cardinality(ScannedRows((got \ {r}) \cup {r}))
          = Cardinality(ScannedRows(got \ {r})) + Scanned[r]
    BY <1>1, OneMoreScanned
  <2>4. QED
    BY <1>1, <2>1, <2>2, <2>3 DEF SumOf
<1>7. SUFFICES ASSUME Cardinality(ScanWork) = 1, NEW v \in ScanWork
               PROVE  /\ scanned' = SumOf(buf'[v].got)
                      /\ \A h \in Generation : merger'[h][v].pc # "count"
  BY DEF ScannedInv, SumOf, ScannedRows
<1>8. v = w
  BY <1>7, OnlyScan
<1>9. QED
  BY <1>2, <1>5, <1>6, <1>7, <1>8

\* initializeBuffer starts the count with the buffer, from nothing.
LEMMA ScannedMade ==
  ASSUME ScannedInv, LifeInv, Calm, Calm', Fresh, Next, NEW W \in SUBSET Work,
         InitializeBuffer(W), merger' = merger
  PROVE  ScannedInv'
<1>1. gen \in 0..1 /\ gen' <= 1 /\ gen' \in Nat
  BY DEF LifeInv, TypeOK, Calm, OneBuffer, QueryLife, InitializeBuffer
<1>2. gen = 0 \/ live
  BY <1>1 DEF InitializeBuffer
<1>3. buf' = buf
  <2>1. \A w \in Missing(W) : buf[w] = EmptyBuffer
    BY <1>2 DEF Fresh, Missing
  <2>2. buf' = [w \in Work |-> buf[w]]
    BY <2>1 DEF InitializeBuffer
  <2>3. QED
    BY <2>2 DEF LifeInv, TypeOK
<1>4. CASE live
  BY <1>3, <1>4, ScannedStays DEF InitializeBuffer
<1>5. CASE ~ live
  <2>1. gen = 0 /\ scanned' = 0
    BY <1>2, <1>5 DEF InitializeBuffer
  <2>2. \A w \in Work : buf[w] = EmptyBuffer /\ buf[w].got = {}
    BY <1>5, <2>1 DEF Fresh, EmptyBuffer
  <2>3. \A g \in Generation, w \in ScanWork : merger[g][w].pc = "none"
    BY <2>1 DEF Calm, MergersSafe, Generation
  <2>4. SumOf({}) = 0
    BY FS_EmptySet DEF SumOf, ScannedRows
  <2>5. ~ (\E w \in ScanWork : Counting(w))
    BY <2>3 DEF Counting
  <2>6. Cardinality(ScanWork) = 1 => \A w \in ScanWork : scanned = 0
    BY <2>2, <2>4, <2>5, PlanTypes DEF ScannedInv
  <2>7. scanned' = scanned \/ ~ (Cardinality(ScanWork) = 1 /\ ScanWork # {})
    BY <2>1, <2>6
  <2>8. CASE scanned' = scanned
    BY <1>3, <2>8, ScannedStays
  <2>9. CASE ~ (Cardinality(ScanWork) = 1 /\ ScanWork # {})
    BY <2>9 DEF ScannedInv
  <2>10. QED
    BY <2>7, <2>8, <2>9
<1>6. QED
  BY <1>4, <1>5

\* Every step that hands out no unfinished table keeps the count.
LEMMA ScannedStep ==
  ASSUME ScannedInv, LifeInv, ScanInv, Calm, Calm', Fresh, [Next]_vars
  PROVE  ScannedInv'
<1>1. /\ buf \in [Work -> WorkBuffer] /\ ScanWork \subseteq Work /\ MergeWork \cap ScanWork = {}
      /\ merger \in [Generation -> [ScanWork -> MergeThread]] /\ gen \in 0..2
  BY DEF LifeInv, TypeOK, ScanWork
<1>2. ASSUME UNCHANGED <<buf, merger, scanned>> PROVE ScannedInv'
  BY <1>2, ScannedStays
<1>3. CASE UNCHANGED vars
  BY <1>2, <1>3 DEF vars
<1>4. CASE ReceiverStep /\ Next
  <2>1. ASSUME NEW r \in Result, Receive(r) PROVE ScannedInv'
    BY <1>4, <2>1, ScannedMade, PlanTypes DEF Receive
  <2>2. CASE PushResult
    <3> DEFINE w == WorkOf[receiver.item]
    <3>1. /\ scanned' = scanned /\ w \in ScanWork /\ live /\ gen = 1 /\ gen \in Generation
          /\ w \in allocated
      BY <1>1, <2>2, PlanTypes DEF PushResult, Valid, LifeInv, TypeOK, Calm, ReceiverSafe,
         OneBuffer, QueryLife, Generation
    <3>2. \A v \in ScanWork : buf'[v].got = buf[v].got
      BY <1>1, <2>2 DEF PushResult
    <3>3. CASE merger' = merger
      BY <3>1, <3>2, <3>3, ScannedStays
    <3>4. CASE buf[w].status = "Initialized" /\ merger' = [merger EXCEPT ![gen][w] = NewMerger]
      <4>1. merger[gen][w].pc = "none"
        BY <3>1, <3>4 DEF Calm, MergersMark
      <4>2. NewMerger.pc # "count" /\ NewMerger \in MergeThread
        BY NoMergerType DEF NewMerger
      <4> HIDE DEF w
      <4>3. \A g \in Generation, v \in ScanWork :
              merger'[g][v] = IF g = gen /\ v = w THEN NewMerger ELSE merger[g][v]
        BY <1>1, <3>1, <3>4, <4>2, MergerUpdate
      <4>4. QED
        BY <3>1, <3>2, <4>1, <4>2, <4>3, ScannedStays
    <3>5. QED
      BY <2>2, <3>3, <3>4 DEF PushResult
  <2>3. QED
    BY <1>2, <1>4, <2>1, <2>2 DEF ReceiverStep, ReceiverLookup, ReceiverFault
<1>5. ASSUME NEW g \in Generation, NEW w \in ScanWork, MergerStep(g, w) PROVE ScannedInv'
  <2> DEFINE m == merger[g][w]
  <2>1. m \in MergeThread
    BY <1>1
  <2>2. ASSUME NEW n \in MergeThread, merger' = [merger EXCEPT ![g][w] = n],
               n.pc # "count", m.pc # "count", scanned' = scanned,
               \A v \in ScanWork : buf'[v].got = buf[v].got
        PROVE  ScannedInv'
    <3>1. \A h \in Generation, v \in ScanWork :
            merger'[h][v] = IF h = g /\ v = w THEN n ELSE merger[h][v]
      BY <1>1, <2>2, MergerUpdate
    <3>2. QED
      BY <2>2, <3>1, ScannedStays
  <2>3. CASE MergerLookup(g, w)
    <3> DEFINE n == [m EXCEPT !.pc = "pop", !.ptr = gen]
    <3>1. n \in MergeThread /\ n.pc # "count"
      BY <1>1, <2>1 DEF MergeThread
    <3>2. merger' = [merger EXCEPT ![g][w] = n] /\ m.pc # "count"
      BY <2>3 DEF MergerLookup
    <3> HIDE DEF n
    <3>3. QED
      BY <2>2, <2>3, <3>1, <3>2 DEF MergerLookup
  <2>4. CASE PopResult(g, w)
    <3> DEFINE n == [m EXCEPT !.pc = "merge", !.item = Head(buf[w].queue)]
    <3>1. Head(buf[w].queue) \in Result
      BY <1>1, <2>4, HeadTailProperties DEF PopResult, WorkBuffer
    <3>2. n \in MergeThread /\ n.pc # "count"
      BY <2>1, <3>1 DEF MergeThread
    <3>3. merger' = [merger EXCEPT ![g][w] = n] /\ m.pc # "count"
      BY <2>4 DEF PopResult
    <3>4. \A v \in ScanWork : buf'[v].got = buf[v].got
      BY <1>1, <2>4 DEF PopResult, WorkBuffer
    <3> HIDE DEF n
    <3>5. QED
      BY <2>2, <2>4, <3>2, <3>3, <3>4 DEF PopResult
  <2>5. QED
    BY <1>2, <1>5, <2>3, <2>4, ScannedRead, ScannedWritten DEF MergerStep, MergerFault
<1>6. ASSUME NEW w \in MergeWork, WorkerStep(w), Next PROVE ScannedInv'
  <2>1. CASE SaveTableData(w)
    <3>1. \A v \in ScanWork : buf'[v].got = buf[v].got
      BY <1>1, <2>1 DEF SaveTableData
    <3>2. QED
      BY <2>1, <3>1, ScannedStays DEF SaveTableData
  <2>2. CASE RunSnippetWork(w) \/ BeginRead(w)
    BY <1>6, <2>2, ScannedMade, PlanTypes DEF RunSnippetWork, BeginRead
  <2>3. QED
    BY <1>2, <1>6, <2>1, <2>2 DEF WorkerStep, FindName, ReaderLookup, WaitWorkDone,
       GetFinishedTableData, WaitWorkInProgress, GetTableData, SaveLookup, ReaderFault
<1>7. CASE ClientStep /\ Next
  <2>1. CASE GetQueryResult
    BY <1>7, <2>1, ScannedMade, PlanAssumption DEF GetQueryResult
  <2>2. QED
    BY <1>2, <1>7, <2>1 DEF ClientStep, ReaderLookup, WaitWorkDone, GetFinishedTableData,
       EndQuery, ReaderFault
<1>8. ASSUME NEW t \in Reader, SpuriousWakeup(t) PROVE ScannedInv'
  BY <1>2, <1>8 DEF SpuriousWakeup
<1>9. QED
  BY <1>3, <1>4, <1>5, <1>6, <1>7, <1>8 DEF Next

\* Nothing is counted at first.
LEMMA ScannedInit == Init => ScannedInv
<1> SUFFICES ASSUME Init PROVE ScannedInv
  OBVIOUS
<1>1. \A w \in ScanWork : buf[w].got = {} /\ ~ Counting(w)
  BY PlanTypes DEF Init, EmptyBuffer, NoMerger, Counting
<1>2. SumOf({}) = 0 /\ scanned = 0
  BY FS_EmptySet DEF SumOf, ScannedRows, Init
<1>3. QED
  BY <1>1, <1>2 DEF ScannedInv, Counting

\* The count that was reported.
CountSo == answer.status # "none" /\ Cardinality(ScanWork) = 1 => answer.scanned = ScannedTotal

\* The client is given the count as it is then: all of it.
LEMMA CountGiven ==
  ASSUME LeadsToFinal, LifeInv, ScanInv, SavedOnce, Calm, ReadInv, ScannedInv, CountSo,
         early' = {}, [Next]_vars
  PROVE  CountSo'
<1>1. CASE answer' = answer
  BY <1>1 DEF CountSo, ScannedTotal, ScannedRows
<1>2. CASE GetFinishedTableData(Client)
  <2>1. /\ answer' = [status |-> buf[Final].status, rows |-> buf[Final].rows,
                      scanned |-> scanned]
        /\ Final \in Work /\ live /\ Client \in Reader
        /\ early' = IF buf[Final].status = "WorkDone" THEN early ELSE early \cup {Client}
    BY <1>2, PlanAssumption, PlanTypes DEF GetFinishedTableData, Target, Enters, Valid
  <2>2. Finished(Final)
    BY <2>1 DEF ReadInv, Fresh, Finished, EmptyBuffer
  <2>3. AllThrough /\ \A w \in Work : Finished(w)
    BY <2>1, <2>2, FinalIsLast, AllFinished
  <2>4. ASSUME Cardinality(ScanWork) = 1 PROVE scanned = ScannedTotal
    <3>1. IsFiniteSet(ScanWork)
      BY PlanAssumption, FS_Subset DEF ScanWork
    <3>2. PICK w : ScanWork = {w}
      BY <2>4, <3>1, FS_Singleton
    <3>3. w \in ScanWork /\ w \in Work /\ ~ Counting(w)
      BY <2>3, <3>2, PlanTypes DEF AllThrough, Counting
    <3>4. DoneIsComplete
      BY DoneComplete
    <3>5. buf[w].got = ResultsOf(w)
      BY <2>1, <2>3, <3>3, <3>4 DEF DoneIsComplete, Finished
    <3>6. ResultsOf(w) = Result
      BY <3>2, ResultAssumption DEF ResultsOf
    <3>7. QED
      BY <2>4, <3>3, <3>5, <3>6 DEF ScannedInv, SumOf, ScannedTotal
  <2>5. QED
    BY <2>1, <2>4 DEF CountSo, ScannedTotal, ScannedRows
<1>3. CASE Next /\ ~ GetFinishedTableData(Client)
  BY <1>1, <1>3, WhoReads DEF GetFinishedTableData, GetTableData
<1>4. QED
  BY <1>1, <1>2, <1>3 DEF vars, reading

\* With a single scan work, for any results and every interleaving: no addition to
\* scanned_row_count is lost, and the client is told exactly what the CSDs reported,
\* although no lock of the query protects the count (buffer_manager.cc:377).
THEOREM CountIsExact ==
  ASSUME LeadsToFinal
  PROVE  Spec => []ScannedExact
<1> DEFINE Inv == PlanInv /\ (early = {} => ScannedInv /\ CountSo)
<1>1. Init => Inv
  BY PlanInvInit, ScannedInit DEF CountSo, Init
<1>2. Inv /\ [Next]_vars => Inv'
  <2> SUFFICES ASSUME Inv, [Next]_vars PROVE Inv'
    OBVIOUS
  <2>1. PlanInv'
    BY PlanInvStep
  <2>2. ASSUME early' = {} PROVE ScannedInv' /\ CountSo'
    <3>1. /\ early = {} /\ Calm /\ Calm' /\ ReadInv /\ ScannedInv /\ CountSo
          /\ LifeInv /\ ScanInv /\ SavedOnce
      BY <2>1, <2>2, EarlyStays DEF PlanInv, FaultInv
    <3>2. ScannedInv'
      BY <3>1, ScannedStep DEF ReadInv
    <3>3. CountSo'
      BY <2>2, <3>1, CountGiven
    <3>4. QED
      BY <3>2, <3>3
  <2>3. QED
    BY <2>1, <2>2
<1>3. Inv => ScannedExact
  BY DEF CountSo, ScannedExact
<1> HIDE DEF Inv
<1>4. QED
  BY <1>1, <1>2, <1>3, PTL DEF Spec
==============================================================================
