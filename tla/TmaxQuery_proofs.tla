-------------------------- MODULE TmaxQuery_proofs --------------------------
(***************************************************************************)
(* Tmax's way through the engine, for any number of requests, files, fetches *)
(* and failures: what becomes of a chunk, and when a fetch waits or takes    *)
(* from an empty buffer.                                                     *)
(***************************************************************************)
EXTENDS TmaxQuery, FiniteSetTheorems, TLAPS

Result == [id : Id, by : Nat, chunk : Nat \X Nat]

Types ==
  /\ next \in [Id -> Nat]
  /\ inbox \subseteq Id \X Nat
  /\ underway \subseteq Result
  /\ received \subseteq Result
  /\ chunks \in [Id -> Seq(Result)]
  /\ pc \in [Fetch -> {"idle", "called", "wait", "woken", "done", "undefined"}]
  /\ taken \in [Fetch -> Seq(Result)]

\* A file is offloaded once, and what its CSD sends comes in once.
SentOnce ==
  /\ \A m \in inbox : m[2] < next[m[1]]
  /\ \A r \in underway \cup received : r.by < next[r.id] /\ <<r.id, r.by>> \notin inbox
  /\ underway \cap received = {}

\* Where the chunks that came in are: each in one place.
Placed ==
  /\ \A r \in received : \/ \E k \in DOMAIN chunks[r.id] : chunks[r.id][k] = r
                         \/ \E f \in Fetch : taken[f] = <<r>>
  /\ \A id \in Id : \A k \in DOMAIN chunks[id] : chunks[id][k] \in received /\ chunks[id][k].id = id
  /\ \A id \in Id : \A k, l \in DOMAIN chunks[id] : chunks[id][k] = chunks[id][l] => k = l
  /\ \A f \in Fetch : \A id \in Id : \A k \in DOMAIN chunks[id] : taken[f] # <<chunks[id][k]>>

\* What a fetch has taken.
Takers ==
  /\ \A f, g \in Fetch : taken[f] = taken[g] /\ taken[f] # <<>> => f = g
  /\ \A f \in Fetch : taken[f] # <<>> =>
       /\ pc[f] = "done"
       /\ f \in returned \cup OtherType \cup gone
       /\ \E r \in received : taken[f] = <<r>> /\ r.id = IdOf[f]

\* Why there may be nothing for a fetch that was woken.
Excused(f) ==
  \/ IdOf[f] \in faulty
  \/ \E g \in Fetch \ {f} : IdOf[g] = IdOf[f] /\ taken[g] # <<>>

WaitInv ==
  /\ Types
  /\ NobodyWaitsBesideAChunk
  /\ \A f \in Fetch : pc[f] = "woken" => chunks[IdOf[f]] # <<>> \/ Excused(f)
  /\ EmptyTakeNeedsRival

ChunkInv == Types /\ SentOnce /\ Placed /\ Takers

\* The chunks of a request's files are pairs of the file's place and the chunk's.
LEMMA ChunkListType ==
  ASSUME NEW id \in Id, NEW i \in Nat
  PROVE  ChunkList(id, i) \subseteq Nat \X Nat
<1>1. \A j \in Positions(id) : j \in Nat /\ Files[id][j].chunks \in Nat
  <2> DEFINE File == [name : STRING, chunks : Nat]
             files == Files[id]
  <2>1. files \in Seq(File)
    BY TmaxAssumption
  <2>2. \A file \in File : file.chunks \in Nat
    OBVIOUS
  <2> HIDE DEF File, files
  <2>3. \A j \in DOMAIN files : j \in Nat /\ files[j] \in File
    BY <2>1
  <2>4. QED
    BY <2>2, <2>3 DEF Positions, files
<1>2. QED
  BY <1>1 DEF ChunkList

\* back() and pop_back().
LEMMA LastFront ==
  ASSUME NEW S, NEW s \in Seq(S), s # <<>>
  PROVE  /\ Last(s) \in S /\ Last(s) = s[Len(s)] /\ Len(s) \in DOMAIN s
         /\ Front(s) \in Seq(S)
         /\ DOMAIN Front(s) = DOMAIN s \ {Len(s)}
         /\ \A k \in DOMAIN Front(s) : Front(s)[k] = s[k]
<1>1. Len(s) \in Nat /\ Len(s) >= 1 /\ DOMAIN s = 1..Len(s)
  OBVIOUS
<1>2. Last(s) = s[Len(s)] /\ Len(s) \in DOMAIN s
  BY <1>1 DEF Last
<1>3. /\ Front(s) \in Seq(S) /\ DOMAIN Front(s) = 1..(Len(s) - 1)
      /\ \A k \in DOMAIN Front(s) : Front(s)[k] = s[k]
  BY <1>1 DEF Front
<1>4. QED
  BY <1>1, <1>2, <1>3

\* Where the chunks are does not depend on anything else.
LEMMA PlacedSame ==
  ASSUME Placed, UNCHANGED <<received, chunks, taken>>
  PROVE  Placed'
<1>1. received' = received /\ chunks' = chunks /\ taken' = taken
  OBVIOUS
<1>2. ASSUME NEW r \in received'
      PROVE  \/ \E k \in DOMAIN chunks'[r.id] : chunks'[r.id][k] = r
             \/ \E f \in Fetch : taken'[f] = <<r>>
  BY <1>1, Zenon DEF Placed
<1>3. \A id \in Id : \A k \in DOMAIN chunks'[id] : chunks'[id][k] \in received' /\ chunks'[id][k].id = id
  BY <1>1, Zenon DEF Placed
<1>4. \A id \in Id : \A k, l \in DOMAIN chunks'[id] : chunks'[id][k] = chunks'[id][l] => k = l
  BY <1>1, Zenon DEF Placed
<1>5. ASSUME NEW f \in Fetch, NEW id \in Id, NEW k \in DOMAIN chunks'[id]
      PROVE  taken'[f] # <<chunks'[id][k]>>
  <2>1. k \in DOMAIN chunks[id]
    BY <1>1
  <2>2. taken[f] # <<chunks[id][k]>>
    BY <2>1 DEF Placed
  <2>3. QED
    BY <1>1, <2>2
<1>6. QED
  BY <1>2, <1>3, <1>4, <1>5, Zenon DEF Placed

\* A step that takes the newest chunk from the buffer, or finds none.
LEMMA PopStep ==
  ASSUME ChunkInv, NEW f \in Fetch, PopBack(f), Returned(f), pc[f] # "done",
         UNCHANGED <<next, inbox, underway, received>>
  PROVE  ChunkInv'
<1> DEFINE id == IdOf[f]
           buffer == chunks[id]
<1>1. Types /\ SentOnce /\ Placed /\ Takers /\ id \in Id /\ buffer \in Seq(Result)
  BY TmaxAssumption DEF ChunkInv, Types
<1>2. returned \subseteq returned' /\ gone' = gone
  BY DEF Returned
<1>3. CASE buffer = <<>>
  <2>1. /\ pc' = [pc EXCEPT ![f] = "undefined"] /\ UNCHANGED <<chunks, taken>>
    BY <1>3 DEF PopBack
  <2>2. Types'
    BY <1>1, <2>1 DEF Types
  <2>3. SentOnce' /\ Placed'
    <3> HIDE DEF id, buffer
    <3>1. SentOnce'
      BY <1>1 DEF SentOnce
    <3>2. UNCHANGED <<received, chunks, taken>>
      BY <2>1
    <3>3. Placed'
      BY <1>1, <3>2, PlacedSame
    <3>4. QED
      BY <3>1, <3>3
  <2>4. Takers'
    BY <1>1, <1>2, <2>1 DEF Types, Takers
  <2>5. QED
    BY <2>2, <2>3, <2>4 DEF ChunkInv
<1>4. CASE buffer # <<>>
  <2> DEFINE r == Last(buffer)
  <2>1. /\ r \in Result /\ r = buffer[Len(buffer)] /\ Len(buffer) \in DOMAIN buffer
        /\ Front(buffer) \in Seq(Result)
        /\ DOMAIN Front(buffer) = DOMAIN buffer \ {Len(buffer)}
        /\ \A k \in DOMAIN Front(buffer) : Front(buffer)[k] = buffer[k]
    <3> HIDE DEF id, buffer
    <3>1. QED
      BY <1>1, <1>4, LastFront
  <2>2. /\ pc' = [pc EXCEPT ![f] = "done"] /\ taken' = [taken EXCEPT ![f] = <<r>>]
        /\ chunks' = [chunks EXCEPT ![id] = Front(buffer)]
    BY <1>4 DEF PopBack
  <2>3. f \in returned' \cup OtherType \cup gone
    BY <1>1, <2>2 DEF Returned, Types
  <2> HIDE DEF r
  <2>4. r \in received /\ r.id = id
    BY <1>1, <2>1 DEF Placed
  <2>5. /\ chunks' \in [Id -> Seq(Result)] /\ chunks'[id] = Front(buffer)
        /\ \A i \in Id \ {id} : chunks'[i] = chunks[i]
        /\ taken' \in [Fetch -> Seq(Result)] /\ taken'[f] = <<r>>
        /\ \A g \in Fetch \ {f} : taken'[g] = taken[g]
        /\ pc'[f] = "done" /\ \A g \in Fetch \ {f} : pc'[g] = pc[g]
        /\ pc' \in [Fetch -> {"idle", "called", "wait", "woken", "done", "undefined"}]
    BY <1>1, <2>1, <2>2 DEF Types
  <2>6. Types'
    BY <1>1, <2>5 DEF Types
  <2>7. SentOnce'
    BY <1>1 DEF SentOnce
  <2> HIDE DEF id, buffer
  <2>8. \A i \in Id : \A k \in DOMAIN chunks'[i] :
          k \in DOMAIN chunks[i] /\ chunks'[i][k] = chunks[i][k] /\ (i = id => k # Len(buffer))
    BY <2>1, <2>5 DEF buffer
  <2>9. Placed'
    <3>1. ASSUME NEW q \in received
          PROVE  \/ \E k \in DOMAIN chunks'[q.id] : chunks'[q.id][k] = q
                 \/ \E g \in Fetch : taken'[g] = <<q>>
      <4>1. q.id \in Id
        BY <1>1 DEF Types, Result
      <4>2. CASE q = r
        BY <2>5, <4>2
      <4>3. ASSUME q # r, NEW k \in DOMAIN chunks[q.id], chunks[q.id][k] = q
            PROVE  k \in DOMAIN chunks'[q.id] /\ chunks'[q.id][k] = q
        <5>1. CASE q.id = id
          <6>1. k \in DOMAIN buffer /\ buffer[k] = q /\ k # Len(buffer)
            BY <2>1, <4>2, <4>3, <5>1 DEF buffer
          <6>2. QED
            BY <2>1, <2>5, <5>1, <6>1
        <5>2. CASE q.id # id
          BY <2>5, <4>1, <4>3, <5>2
        <5>3. QED
          BY <5>1, <5>2
      <4>4. ASSUME NEW g \in Fetch, taken[g] = <<q>>
            PROVE  taken'[g] = <<q>>
        <5>1. taken[g] # <<>>
          BY <4>4
        <5>2. taken[g] # <<>> => pc[g] = "done"
          BY <1>1, <4>4 DEF Takers
        <5>3. g # f
          BY <5>1, <5>2
        <5>4. QED
          BY <2>5, <4>4, <5>3
      <4>5. QED
        BY <1>1, <4>2, <4>3, <4>4 DEF Placed
    <3>2. \A i \in Id : \A k \in DOMAIN chunks'[i] : chunks'[i][k] \in received /\ chunks'[i][k].id = i
      BY <1>1, <2>8 DEF Placed
    <3>3. \A i \in Id : \A k, l \in DOMAIN chunks'[i] : chunks'[i][k] = chunks'[i][l] => k = l
      BY <1>1, <2>8 DEF Placed
    <3>4. ASSUME NEW g \in Fetch, NEW i \in Id, NEW k \in DOMAIN chunks'[i]
          PROVE  taken'[g] # <<chunks'[i][k]>>
      <4>1. CASE g # f
        <5>1. taken'[g] = taken[g] /\ k \in DOMAIN chunks[i] /\ chunks'[i][k] = chunks[i][k]
          BY <2>5, <2>8, <4>1
        <5>2. taken[g] # <<chunks[i][k]>>
          BY <1>1, <5>1 DEF Placed
        <5>3. QED
          BY <5>1, <5>2
      <4>2. CASE g = f
        <5>1. chunks'[i][k] # r
          <6>1. CASE i = id
            BY <1>1, <2>1, <2>8, <6>1 DEF Placed, buffer
          <6>2. CASE i # id
            BY <1>1, <2>4, <2>8, <6>2 DEF Placed
          <6>3. QED
            BY <6>1, <6>2
        <5>2. QED
          BY <2>5, <4>2, <5>1
      <4>3. QED
        BY <4>1, <4>2
    <3>5. QED
      BY <3>1, <3>2, <3>3, <3>4 DEF Placed
  <2>10. Takers'
    <3>1. ASSUME NEW g \in Fetch \ {f} PROVE taken[g] # <<r>>
      BY <1>1, <2>1 DEF Placed, buffer
    <3>2. \A g, h \in Fetch : taken'[g] = taken'[h] /\ taken'[g] # <<>> => g = h
      BY <1>1, <2>5, <3>1 DEF Takers
    <3>3. ASSUME NEW g \in Fetch, taken'[g] # <<>>
          PROVE  /\ pc'[g] = "done" /\ g \in returned' \cup OtherType \cup gone'
                 /\ \E q \in received' : taken'[g] = <<q>> /\ q.id = IdOf[g]
      <4>1. CASE g = f
        BY <1>2, <2>3, <2>4, <2>5, <4>1 DEF id
      <4>2. CASE g # f
        BY <1>1, <1>2, <2>5, <3>3, <4>2 DEF Takers
      <4>3. QED
        BY <4>1, <4>2
    <3>4. QED
      BY <3>2, <3>3 DEF Takers
  <2>11. QED
    BY <2>6, <2>7, <2>9, <2>10 DEF ChunkInv
<1>5. QED
  BY <1>3, <1>4

\* A step that moves no chunk.
LEMMA QuietStep ==
  ASSUME ChunkInv, UNCHANGED <<next, inbox, underway, received, chunks, taken>>,
         pc' \in [Fetch -> {"idle", "called", "wait", "woken", "done", "undefined"}],
         \A f \in Fetch : pc[f] = "done" => pc'[f] = "done",
         returned \subseteq returned', gone \subseteq gone'
  PROVE  ChunkInv'
<1>1. Types' /\ SentOnce'
  BY DEF ChunkInv, Types, SentOnce
<1>2. Placed'
  BY PlacedSame DEF ChunkInv
<1>3. Takers'
  BY DEF ChunkInv, Takers
<1>4. QED
  BY <1>1, <1>2, <1>3 DEF ChunkInv

LEMMA OffloadStep ==
  ASSUME ChunkInv, NEW id \in Id, SendSnippet(id) \/ OffloadFile(id)
  PROVE  ChunkInv'
<1>1. /\ Types /\ SentOnce /\ Placed /\ Takers
      /\ UNCHANGED <<underway, received, chunks, taken, pc, returned, gone>>
  BY DEF ChunkInv, SendSnippet, OffloadFile, merging, fetching
<1>2. next[id] \in Nat
  BY <1>1 DEF Types
<1>3. Placed' /\ Takers'
  BY <1>1 DEF Placed, Takers
<1>4. CASE SendSnippet(id)
  <2>1. next[id] = 0 /\ next' = [next EXCEPT ![id] = 1] /\ inbox' = inbox
    BY <1>4 DEF SendSnippet
  <2>2. Types'
    BY <1>1, <2>1 DEF Types
  <2>3. \A i \in Id : next'[i] \in Nat /\ next[i] \in Nat /\ next[i] <= next'[i]
    BY <1>1, <1>2, <2>1 DEF Types
  <2>4. \A m \in inbox : m[1] \in Id /\ m[2] \in Nat
    BY <1>1 DEF Types
  <2>5. \A r \in underway \cup received : r.id \in Id /\ r.by \in Nat
    BY <1>1 DEF Types, Result
  <2>6. SentOnce'
    BY <1>1, <2>1, <2>3, <2>4, <2>5 DEF SentOnce
  <2>7. QED
    BY <1>3, <2>2, <2>6 DEF ChunkInv
<1>5. CASE OffloadFile(id)
  <2> DEFINE i == next[id]
  <2>1. next' = [next EXCEPT ![id] = i + 1] /\ inbox' \in {inbox, inbox \cup {<<id, i>>}}
    BY <1>5 DEF OffloadFile
  <2>2. Types'
    BY <1>1, <1>2, <2>1 DEF Types
  <2>3. \A j \in Id : next'[j] \in Nat /\ next[j] \in Nat /\ next[j] <= next'[j]
    BY <1>1, <1>2, <2>1 DEF Types
  <2>4. \A m \in inbox : m[1] \in Id /\ m[2] \in Nat
    BY <1>1 DEF Types
  <2>5. \A r \in underway \cup received : r.id \in Id /\ r.by \in Nat
    BY <1>1 DEF Types, Result
  <2>6. next'[id] = i + 1 /\ i < i + 1 /\ i \in Nat
    BY <1>1, <1>2, <2>1 DEF Types
  <2>7. \A m \in inbox' : m[2] < next'[m[1]]
    <3>1. \A m \in inbox : m[2] < next'[m[1]]
      BY <1>1, <2>3, <2>4 DEF SentOnce
    <3>2. QED
      BY <2>1, <2>6, <3>1
  <2>8. ASSUME NEW r \in underway \cup received PROVE r.by < next'[r.id] /\ <<r.id, r.by>> \notin inbox'
    <3>1. r.by < next[r.id] /\ <<r.id, r.by>> \notin inbox
      BY <1>1 DEF SentOnce
    <3>2. <<r.id, r.by>> # <<id, i>>
      BY <2>5, <2>6, <3>1
    <3>3. r.by < next'[r.id]
      BY <2>3, <2>5, <3>1
    <3>4. QED
      BY <2>1, <3>1, <3>2, <3>3
  <2>9. SentOnce'
    BY <1>1, <2>7, <2>8 DEF SentOnce
  <2>10. QED
    BY <1>3, <2>2, <2>9 DEF ChunkInv
<1>6. QED
  BY <1>4, <1>5

\* A CSD sends the chunks of a snippet: none of them has been sent before.
LEMMA SendStep ==
  ASSUME ChunkInv, CsdSends
  PROVE  ChunkInv'
<1>1. /\ Types /\ SentOnce /\ Placed /\ Takers
      /\ UNCHANGED <<next, received, chunks, taken, pc, returned, gone>>
  BY DEF ChunkInv, CsdSends, fetching
<1>2. PICK m \in inbox :
        /\ inbox' = inbox \ {m}
        /\ underway' = underway \cup {[id |-> m[1], by |-> m[2], chunk |-> c] : c \in ChunkList(m[1], m[2])}
  BY DEF CsdSends
<1> DEFINE new == {[id |-> m[1], by |-> m[2], chunk |-> c] : c \in ChunkList(m[1], m[2])}
<1>3. m[1] \in Id /\ m[2] \in Nat /\ m = <<m[1], m[2]>> /\ m[2] < next[m[1]]
  BY <1>1 DEF Types, SentOnce
<1>4. \A r \in new : r \in Result /\ r.id = m[1] /\ r.by = m[2]
  <2>1. ChunkList(m[1], m[2]) \subseteq Nat \X Nat
    BY <1>3, ChunkListType
  <2>2. QED
    BY <1>3, <2>1 DEF Result
<1> HIDE DEF new
<1>5. underway' = underway \cup new
  BY <1>2 DEF new
<1>6. Types'
  BY <1>1, <1>2, <1>4, <1>5 DEF Types
<1>7. Placed' /\ Takers'
  BY <1>1 DEF Placed, Takers
<1>8. new \cap received = {}
  BY <1>1, <1>3, <1>4 DEF SentOnce
<1>9. ASSUME NEW r \in underway' \cup received' PROVE r.by < next'[r.id] /\ <<r.id, r.by>> \notin inbox'
  <2>1. CASE r \in new
    BY <1>1, <1>2, <1>3, <1>4, <2>1
  <2>2. CASE r \notin new
    BY <1>1, <1>2, <1>5, <2>2 DEF SentOnce
  <2>3. QED
    BY <2>1, <2>2
<1>10. SentOnce'
  BY <1>1, <1>2, <1>5, <1>8, <1>9 DEF SentOnce
<1>11. QED
  BY <1>6, <1>7, <1>10 DEF ChunkInv

\* A chunk comes in: it was nowhere yet, and goes to the end of its buffer.
LEMMA ReceiveStep ==
  ASSUME ChunkInv, ReceiveResult
  PROVE  ChunkInv'
<1>1. /\ Types /\ SentOnce /\ Placed /\ Takers
      /\ UNCHANGED <<next, inbox, taken, returned, gone>>
  BY DEF ChunkInv, ReceiveResult, offloading
<1>2. PICK r \in underway : underway' = underway \ {r} /\ ResultMerging(r)
  BY DEF ReceiveResult
<1>3. r \in Result /\ r.id \in Id /\ r \notin received /\ chunks[r.id] \in Seq(Result)
  BY <1>1 DEF Types, Result, SentOnce
<1>4. /\ chunks' = [chunks EXCEPT ![r.id] = Append(chunks[r.id], r)]
      /\ received' = received \cup {r}
      /\ pc' = [f \in Fetch |-> IF f \in Notified(r.id) THEN "woken" ELSE pc[f]]
  BY <1>2 DEF ResultMerging
<1> DEFINE n == Len(chunks[r.id]) + 1
           new == Append(chunks[r.id], r)
<1>5. /\ new \in Seq(Result) /\ DOMAIN new = DOMAIN chunks[r.id] \cup {n} /\ new[n] = r
      /\ n \notin DOMAIN chunks[r.id]
      /\ \A k \in DOMAIN chunks[r.id] : new[k] = chunks[r.id][k]
  BY <1>3
<1> HIDE DEF n, new
<1>6. /\ chunks' \in [Id -> Seq(Result)] /\ chunks'[r.id] = new
      /\ \A i \in Id \ {r.id} : chunks'[i] = chunks[i]
  BY <1>1, <1>3, <1>4, <1>5 DEF Types, new
<1>7. Types'
  <2>1. pc' \in [Fetch -> {"idle", "called", "wait", "woken", "done", "undefined"}]
    BY <1>1, <1>4 DEF Types
  <2>2. underway' \subseteq Result /\ received' \subseteq Result
    BY <1>1, <1>2, <1>3, <1>4 DEF Types
  <2>3. QED
    BY <1>1, <1>6, <2>1, <2>2 DEF Types
<1>8. SentOnce'
  BY <1>1, <1>2, <1>4 DEF SentOnce
<1>9. \A i \in Id : \A k \in DOMAIN chunks'[i] :
        \/ i = r.id /\ k = n /\ chunks'[i][k] = r
        \/ k \in DOMAIN chunks[i] /\ chunks'[i][k] = chunks[i][k] /\ chunks'[i][k] # r
  BY <1>1, <1>3, <1>5, <1>6 DEF Placed
<1>10. Placed'
  <2>1. ASSUME NEW q \in received'
        PROVE  \/ \E k \in DOMAIN chunks'[q.id] : chunks'[q.id][k] = q
               \/ \E g \in Fetch : taken'[g] = <<q>>
    <3>1. CASE q = r
      BY <1>5, <1>6, <3>1
    <3>2. CASE q # r
      <4>1. q \in received /\ q.id \in Id
        BY <1>1, <1>4, <3>2 DEF Types, Result
      <4>2. ASSUME NEW k \in DOMAIN chunks[q.id], chunks[q.id][k] = q
            PROVE  k \in DOMAIN chunks'[q.id] /\ chunks'[q.id][k] = q
        <5>1. CASE q.id = r.id
          BY <1>5, <1>6, <4>2, <5>1
        <5>2. CASE q.id # r.id
          BY <1>6, <4>1, <4>2, <5>2
        <5>3. QED
          BY <5>1, <5>2
      <4>3. QED
        BY <1>1, <4>1, <4>2 DEF Placed
    <3>3. QED
      BY <3>1, <3>2
  <2>2. \A i \in Id : \A k \in DOMAIN chunks'[i] : chunks'[i][k] \in received' /\ chunks'[i][k].id = i
    BY <1>1, <1>4, <1>9 DEF Placed
  <2>3. \A i \in Id : \A k, l \in DOMAIN chunks'[i] : chunks'[i][k] = chunks'[i][l] => k = l
    BY <1>1, <1>9 DEF Placed
  <2>4. ASSUME NEW g \in Fetch, NEW i \in Id, NEW k \in DOMAIN chunks'[i]
        PROVE  taken'[g] # <<chunks'[i][k]>>
    <3>1. CASE chunks'[i][k] = r
      <4>1. taken[g] # <<r>>
        <5>1. SUFFICES ASSUME taken[g] = <<r>> PROVE FALSE
          OBVIOUS
        <5>2. PICK q \in received : taken[g] = <<q>>
          <6>1. taken[g] # <<>>
            BY <5>1
          <6>2. QED
            BY <1>1, <6>1 DEF Takers
        <5>3. QED
          BY <1>3, <5>1, <5>2
      <4>2. QED
        BY <1>1, <3>1, <4>1
    <3>2. CASE chunks'[i][k] # r
      <4>1. k \in DOMAIN chunks[i] /\ chunks'[i][k] = chunks[i][k]
        BY <1>9, <3>2
      <4>2. taken[g] # <<chunks[i][k]>>
        BY <1>1, <4>1 DEF Placed
      <4>3. QED
        BY <1>1, <4>1, <4>2
    <3>3. QED
      BY <3>1, <3>2
  <2>5. QED
    BY <2>1, <2>2, <2>3, <2>4 DEF Placed
<1>11. Takers'
  <2>1. \A f \in Fetch : pc[f] = "done" => pc'[f] = "done"
    BY <1>1, <1>4 DEF Notified, Waiting, Types
  <2>2. QED
    BY <1>1, <1>4, <2>1 DEF Takers
<1>12. QED
  BY <1>7, <1>8, <1>10, <1>11 DEF ChunkInv

LEMMA ReceiveFailsStep ==
  ASSUME ChunkInv, ReceiveFails
  PROVE  ChunkInv'
<1>1. /\ Types /\ SentOnce /\ Placed /\ Takers
      /\ UNCHANGED <<next, inbox, received, chunks, taken, pc, returned, gone>>
      /\ underway' \subseteq underway
  BY DEF ChunkInv, ReceiveFails, offloading, fetching
<1>2. Types' /\ SentOnce' /\ Takers'
  BY <1>1 DEF Types, SentOnce, Takers
<1>3. Placed'
  BY <1>1, PlacedSame
<1>4. QED
  BY <1>2, <1>3 DEF ChunkInv

LEMMA ChunkStart == Init => ChunkInv
BY TmaxAssumption DEF Init, ChunkInv, Types, SentOnce, Placed, Takers

LEMMA ChunkStep == ChunkInv /\ [Next]_vars => ChunkInv'
<1> SUFFICES ASSUME ChunkInv, [Next]_vars PROVE ChunkInv'
  OBVIOUS
<1>1. Types
  BY DEF ChunkInv
<1>2. CASE UNCHANGED vars
  BY <1>1, <1>2, QuietStep DEF vars, offloading, merging, fetching, Types
<1>3. ASSUME NEW id \in Id, SendSnippet(id) \/ Offloading(id) PROVE ChunkInv'
  <2>1. CASE SendSnippet(id) \/ OffloadFile(id)
    BY <2>1, OffloadStep
  <2>2. CASE Respond(id)
    BY <1>1, <2>2, QuietStep DEF Respond, merging, fetching, Types
  <2>3. QED
    BY <1>3, <2>1, <2>2 DEF Offloading
<1>4. CASE CsdSends \/ ReceiveResult \/ ReceiveFails
  BY <1>4, SendStep, ReceiveStep, ReceiveFailsStep
<1>5. ASSUME NEW f \in Fetch, CallFetch(f) \/ Fetching(f) \/ SpuriousWakeup(f) \/ CallFails(f)
      PROVE  ChunkInv'
  <2>1. CASE CallFetch(f)
    <3>1. pc[f] = "idle" /\ pc' = [pc EXCEPT ![f] = "called"]
      BY <2>1 DEF CallFetch
    <3>2. UNCHANGED <<next, inbox, underway, received, chunks, taken, gone, returned>>
      BY <2>1 DEF CallFetch, offloading, merging
    <3>3. QED
      BY <1>1, <3>1, <3>2, QuietStep DEF Types
  <2>2. CASE GetResult(f)
    <3>1. pc[f] = "called" /\ Returned(f) /\ UNCHANGED <<next, inbox, underway, received>>
      BY <2>2 DEF GetResult, offloading
    <3>2. CASE PopBack(f)
      BY <3>1, <3>2, PopStep
    <3>3. CASE pc' = [pc EXCEPT ![f] = "wait"] /\ UNCHANGED <<chunks, taken>>
      <4>1. returned \subseteq returned' /\ gone' = gone
        BY <3>1 DEF Returned
      <4>2. QED
        BY <1>1, <3>1, <3>3, <4>1, QuietStep DEF Types
    <3>4. QED
      BY <2>2, <3>2, <3>3 DEF GetResult
  <2>3. CASE GetResultWoken(f)
    <3>1. pc[f] = "woken" /\ PopBack(f) /\ Returned(f) /\ UNCHANGED <<next, inbox, underway, received>>
      BY <2>3 DEF GetResultWoken, offloading
    <3>2. QED
      BY <3>1, PopStep
  <2>4. CASE SpuriousWakeup(f)
    <3>1. pc[f] = "wait" /\ pc' = [pc EXCEPT ![f] = "woken"]
      BY <2>4 DEF SpuriousWakeup
    <3>2. UNCHANGED <<next, inbox, underway, received, chunks, taken, gone, returned>>
      BY <2>4 DEF SpuriousWakeup, offloading, merging
    <3>3. QED
      BY <1>1, <3>1, <3>2, QuietStep DEF Types
  <2>5. CASE CallFails(f)
    <3>1. gone' = gone \cup {f}
      BY <2>5 DEF CallFails
    <3>2. UNCHANGED <<next, inbox, underway, received, chunks, pc, taken, returned>>
      BY <2>5 DEF CallFails, offloading, merging
    <3>3. QED
      BY <1>1, <3>1, <3>2, QuietStep DEF Types
  <2>6. QED
    BY <1>5, <2>1, <2>2, <2>3, <2>4, <2>5 DEF Fetching
<1>6. QED
  BY <1>2, <1>3, <1>4, <1>5 DEF Next

LEMMA ChunkInvariant == Spec => []ChunkInv
<1>1. QED
  BY ChunkStart, ChunkStep, PTL DEF Spec

\* Each chunk that came in is in the buffer of its query or has been taken by one fetch for
\* that query, however the fetches run against each other and whatever fails.
THEOREM NoChunkLostOrShared == Spec => []EachChunkHandedOutOnce
<1>1. ChunkInv => EachChunkHandedOutOnce
  <2> SUFFICES ASSUME ChunkInv, NEW r \in received
               PROVE  LET takers == {f \in Fetch : taken[f] = <<r>>}
                          held == {k \in DOMAIN chunks[r.id] : chunks[r.id][k] = r}
                      IN  /\ Cardinality(takers) + Cardinality(held) = 1
                          /\ \A f \in takers : IdOf[f] = r.id /\ f \in returned \cup OtherType \cup gone
    BY DEF EachChunkHandedOutOnce
  <2> DEFINE takers == {f \in Fetch : taken[f] = <<r>>}
             held == {k \in DOMAIN chunks[r.id] : chunks[r.id][k] = r}
  <2>1. Placed /\ Takers /\ r.id \in Id
    BY DEF ChunkInv, Types, Result
  <2>2. ASSUME NEW f \in takers
        PROVE  IdOf[f] = r.id /\ f \in returned \cup OtherType \cup gone
    <3>1. taken[f] # <<>> /\ f \in Fetch /\ taken[f] = <<r>>
      OBVIOUS
    <3>2. PICK q \in received : taken[f] = <<q>> /\ q.id = IdOf[f]
      BY <2>1, <3>1 DEF Takers
    <3>3. q = r
      BY <3>1, <3>2
    <3>4. f \in returned \cup OtherType \cup gone
      BY <2>1, <3>1 DEF Takers
    <3>5. QED
      BY <3>2, <3>3, <3>4
  <2>3. ASSUME NEW f \in takers PROVE takers = {f} /\ held = {}
    <3>1. f \in Fetch /\ taken[f] = <<r>>
      OBVIOUS
    <3>2. ASSUME NEW g \in takers PROVE g = f
      <4>1. g \in Fetch /\ taken[g] = <<r>>
        BY <3>2
      <4>2. taken[g] = taken[f] /\ taken[g] # <<>>
        BY <3>1, <4>1
      <4>3. QED
        BY <2>1, <3>1, <4>1, <4>2 DEF Takers
    <3>3. ASSUME NEW k \in held PROVE FALSE
      BY <2>1, <3>1, <3>3 DEF Placed
    <3>4. QED
      BY <3>2, <3>3
  <2>4. ASSUME NEW k \in held PROVE held = {k} /\ takers = {}
    <3>1. k \in DOMAIN chunks[r.id] /\ chunks[r.id][k] = r
      OBVIOUS
    <3>2. \A l \in held : l = k
      BY <2>1, <3>1 DEF Placed
    <3>3. QED
      BY <2>3, <3>2
  <2>5. takers # {} \/ held # {}
    BY <2>1 DEF Placed
  <2> HIDE DEF takers, held
  <2>6. Cardinality(takers) + Cardinality(held) = 1
    <3>1. CASE takers # {}
      <4>1. PICK f \in takers : takers = {f} /\ held = {}
        BY <2>3, <3>1
      <4>2. Cardinality(takers) = 1 /\ Cardinality(held) = 0
        BY <4>1, FS_Singleton, FS_EmptySet
      <4>3. QED
        BY <4>2
    <3>2. CASE held # {}
      <4>1. PICK k \in held : held = {k} /\ takers = {}
        BY <2>4, <3>2
      <4>2. Cardinality(held) = 1 /\ Cardinality(takers) = 0
        BY <4>1, FS_Singleton, FS_EmptySet
      <4>3. QED
        BY <4>2
    <3>3. QED
      BY <2>5, <3>1, <3>2
  <2>7. QED
    BY <2>2, <2>6 DEF takers, held
<1>2. QED
  BY <1>1, ChunkInvariant, PTL

\* A step that leaves the buffers alone.
LEMMA QuietWait ==
  ASSUME WaitInv, Types', UNCHANGED <<chunks, taken>>, faulty \subseteq faulty',
         \A f \in Fetch :
           \/ pc'[f] = pc[f]
           \/ pc'[f] \in {"called", "done"}
           \/ pc'[f] = "wait" /\ chunks[IdOf[f]] = <<>>
           \/ pc'[f] = "woken" /\ IdOf[f] \in faulty'
           \/ pc'[f] = "undefined" /\ pc[f] = "woken" /\ chunks[IdOf[f]] = <<>>
  PROVE  WaitInv'
<1>1. \A f \in Fetch : Excused(f) => Excused(f)'
  BY DEF Excused
<1>2. NobodyWaitsBesideAChunk'
  BY DEF WaitInv, NobodyWaitsBesideAChunk
<1>3. \A f \in Fetch : pc'[f] = "woken" => chunks'[IdOf[f]] # <<>> \/ Excused(f)'
  BY <1>1 DEF WaitInv, Excused
<1>4. ASSUME NEW f \in Fetch, pc'[f] = "undefined" PROVE Excused(f)'
  BY <1>1, <1>4 DEF WaitInv, EmptyTakeNeedsRival, Excused
<1>5. EmptyTakeNeedsRival'
  BY <1>4 DEF EmptyTakeNeedsRival, Excused
<1>6. QED
  BY <1>2, <1>3, <1>5 DEF WaitInv

\* A fetch that takes a chunk is the rival of every other one for its query.
LEMMA PopWait ==
  ASSUME WaitInv, Types', NEW f \in Fetch, PopBack(f), chunks[IdOf[f]] # <<>>, UNCHANGED faulty
  PROVE  WaitInv'
<1> DEFINE id == IdOf[f]
           buffer == chunks[id]
           r == Last(buffer)
<1>1. /\ pc' = [pc EXCEPT ![f] = "done"] /\ taken' = [taken EXCEPT ![f] = <<r>>]
      /\ chunks' = [chunks EXCEPT ![id] = Front(buffer)]
  BY DEF PopBack
<1> HIDE DEF r
<1>2. Types /\ NobodyWaitsBesideAChunk /\ EmptyTakeNeedsRival
  BY DEF WaitInv
<1>3. /\ pc'[f] = "done" /\ taken'[f] # <<>>
      /\ \A g \in Fetch \ {f} : pc'[g] = pc[g] /\ taken'[g] = taken[g]
      /\ \A g \in Fetch : IdOf[g] # id => chunks'[IdOf[g]] = chunks[IdOf[g]]
  BY <1>1, <1>2, TmaxAssumption DEF Types
<1>4. \A g \in Fetch \ {f} : IdOf[g] = id => Excused(g)'
  BY <1>3 DEF Excused
<1>5. \A g \in Fetch : Excused(g) => Excused(g)'
  BY <1>3 DEF Excused
<1>6. NobodyWaitsBesideAChunk'
  BY <1>2, <1>3 DEF NobodyWaitsBesideAChunk
<1>7. \A g \in Fetch : pc'[g] = "woken" => chunks'[IdOf[g]] # <<>> \/ Excused(g)'
  BY <1>3, <1>4, <1>5 DEF WaitInv
<1>8. \A g \in Fetch : pc'[g] = "undefined" => Excused(g)'
  BY <1>2, <1>3, <1>5 DEF EmptyTakeNeedsRival, Excused
<1>9. EmptyTakeNeedsRival'
  BY <1>8 DEF EmptyTakeNeedsRival, Excused
<1>10. QED
  BY <1>6, <1>7, <1>9 DEF WaitInv

\* A chunk that comes in wakes every fetch that waits for its query.
LEMMA ReceiveWait ==
  ASSUME WaitInv, Types', ReceiveResult
  PROVE  WaitInv'
<1>1. PICK r \in underway : ResultMerging(r)
  BY DEF ReceiveResult
<1>2. /\ Types /\ NobodyWaitsBesideAChunk /\ EmptyTakeNeedsRival
      /\ r \in Result /\ r.id \in Id /\ chunks[r.id] \in Seq(Result)
  BY DEF WaitInv, Types, Result
<1>3. /\ chunks' = [chunks EXCEPT ![r.id] = Append(chunks[r.id], r)]
      /\ pc' = [f \in Fetch |-> IF f \in Notified(r.id) THEN "woken" ELSE pc[f]]
      /\ UNCHANGED <<taken, faulty>>
  BY <1>1 DEF ReceiveResult, ResultMerging, Works
<1>4. /\ chunks'[r.id] # <<>>
      /\ \A f \in Fetch : IdOf[f] # r.id => chunks'[IdOf[f]] = chunks[IdOf[f]]
  <2> DEFINE new == Append(chunks[r.id], r)
  <2>1. new # <<>>
    <3>1. Len(new) = Len(chunks[r.id]) + 1 /\ Len(chunks[r.id]) \in Nat
      BY <1>2
    <3>2. QED
      BY <3>1
  <2> HIDE DEF new
  <2>2. chunks' = [chunks EXCEPT ![r.id] = new]
    BY <1>3 DEF new
  <2>3. QED
    BY <1>2, <2>1, <2>2, TmaxAssumption DEF Types
<1>5. \A f \in Fetch : \/ pc'[f] = pc[f] /\ (pc[f] = "wait" => IdOf[f] # r.id)
                       \/ pc'[f] = "woken" /\ IdOf[f] = r.id
  BY <1>3 DEF Notified, Waiting
<1>6. NobodyWaitsBesideAChunk'
  BY <1>2, <1>4, <1>5 DEF NobodyWaitsBesideAChunk
<1>7. \A f \in Fetch : Excused(f) => Excused(f)'
  BY <1>3 DEF Excused
<1>8. \A f \in Fetch : pc'[f] = "woken" => chunks'[IdOf[f]] # <<>> \/ Excused(f)'
  BY <1>4, <1>5, <1>7 DEF WaitInv
<1>9. \A f \in Fetch : pc'[f] = "undefined" => Excused(f)'
  BY <1>2, <1>5, <1>7 DEF EmptyTakeNeedsRival, Excused
<1>10. EmptyTakeNeedsRival'
  BY <1>9 DEF EmptyTakeNeedsRival, Excused
<1>11. QED
  BY <1>6, <1>8, <1>10 DEF WaitInv

LEMMA WaitStart == Init => WaitInv
<1> SUFFICES ASSUME Init PROVE WaitInv
  OBVIOUS
<1>1. Types
  BY ChunkStart DEF ChunkInv
<1>2. \A f \in Fetch : pc[f] = "idle"
  BY DEF Init
<1>3. QED
  BY <1>1, <1>2 DEF WaitInv, NobodyWaitsBesideAChunk, EmptyTakeNeedsRival

LEMMA WaitStep == WaitInv /\ Types' /\ [Next]_vars => WaitInv'
<1> SUFFICES ASSUME WaitInv, Types', [Next]_vars PROVE WaitInv'
  OBVIOUS
<1>1. Types
  BY DEF WaitInv
<1>2. CASE UNCHANGED vars
  BY <1>2, QuietWait DEF vars, merging, fetching
<1>3. CASE \E id \in Id : SendSnippet(id) \/ Offloading(id)
  <2>1. UNCHANGED <<chunks, taken, pc>> /\ faulty \subseteq faulty'
    BY <1>3 DEF SendSnippet, Offloading, OffloadFile, Respond, merging, fetching, Works, Fails
  <2>2. QED
    BY <2>1, QuietWait
<1>4. CASE CsdSends \/ ReceiveFails
  <2>1. UNCHANGED <<chunks, taken, pc>> /\ faulty \subseteq faulty'
    BY <1>4 DEF CsdSends, ReceiveFails, fetching, Works, Fails
  <2>2. QED
    BY <2>1, QuietWait
<1>5. CASE ReceiveResult
  BY <1>5, ReceiveWait
<1>6. ASSUME NEW f \in Fetch, CallFetch(f) \/ Fetching(f) \/ SpuriousWakeup(f) \/ CallFails(f)
      PROVE  WaitInv'
  <2>1. CASE CallFetch(f)
    <3>1. pc' = [pc EXCEPT ![f] = "called"] /\ UNCHANGED <<chunks, taken, faulty>>
      BY <2>1 DEF CallFetch, merging, Works
    <3>2. QED
      BY <1>1, <3>1, QuietWait DEF Types
  <2>2. CASE GetResult(f)
    <3>1. UNCHANGED faulty
      BY <2>2 DEF GetResult, Works
    <3>2. CASE chunks[IdOf[f]] = <<>>
      <4>1. pc' = [pc EXCEPT ![f] = "wait"] /\ UNCHANGED <<chunks, taken>>
        BY <2>2, <3>2 DEF GetResult, MustWait
      <4>2. QED
        BY <1>1, <3>1, <3>2, <4>1, QuietWait DEF Types
    <3>3. CASE chunks[IdOf[f]] # <<>>
      <4>1. PopBack(f)
        BY <2>2, <3>3 DEF GetResult, MustWait
      <4>2. QED
        BY <3>1, <3>3, <4>1, PopWait
    <3>4. QED
      BY <3>2, <3>3
  <2>3. CASE GetResultWoken(f)
    <3>1. pc[f] = "woken" /\ PopBack(f) /\ UNCHANGED faulty
      BY <2>3 DEF GetResultWoken, Works
    <3>2. CASE chunks[IdOf[f]] = <<>>
      <4>1. pc' = [pc EXCEPT ![f] = "undefined"] /\ UNCHANGED <<chunks, taken>>
        BY <3>1, <3>2 DEF PopBack
      <4>2. QED
        BY <1>1, <3>1, <3>2, <4>1, QuietWait DEF Types
    <3>3. CASE chunks[IdOf[f]] # <<>>
      BY <3>1, <3>3, PopWait
    <3>4. QED
      BY <3>2, <3>3
  <2>4. CASE SpuriousWakeup(f)
    <3>1. pc' = [pc EXCEPT ![f] = "woken"] /\ UNCHANGED <<chunks, taken>> /\ faulty' = faulty \cup {IdOf[f]}
      BY <2>4 DEF SpuriousWakeup, merging, Fails
    <3>2. QED
      BY <1>1, <3>1, QuietWait DEF Types
  <2>5. CASE CallFails(f)
    <3>1. UNCHANGED <<pc, chunks, taken>> /\ faulty \subseteq faulty'
      BY <2>5 DEF CallFails, merging, Fails
    <3>2. QED
      BY <3>1, QuietWait
  <2>6. QED
    BY <1>6, <2>1, <2>2, <2>3, <2>4, <2>5 DEF Fetching
<1>7. QED
  BY <1>2, <1>3, <1>4, <1>5, <1>6 DEF Next

\* No fetch waits while there is a chunk for it, for every number of fetches and of chunks.
THEOREM WaitsAreForNothing == Spec => []NobodyWaitsBesideAChunk
<1>1. ChunkInv => Types
  BY DEF ChunkInv
<1>2. WaitInv => NobodyWaitsBesideAChunk
  BY DEF WaitInv
<1>3. QED
  BY <1>1, <1>2, WaitStart, WaitStep, ChunkInvariant, PTL DEF Spec

\* A fetch that takes from an empty buffer had a rival for its chunk or a spurious wakeup.
THEOREM EmptyTakesHaveRivals == Spec => []EmptyTakeNeedsRival
<1>1. ChunkInv => Types
  BY DEF ChunkInv
<1>2. WaitInv => EmptyTakeNeedsRival
  BY DEF WaitInv
<1>3. QED
  BY <1>1, <1>2, WaitStart, WaitStep, ChunkInvariant, PTL DEF Spec

\* Two functions into one set, one-to-one each, that never meet.
Apart(f, g, S, T, N) ==
  /\ f \in [S -> N] /\ \A x, y \in S : f[x] = f[y] => x = y
  /\ g \in [T -> N] /\ \A x, y \in T : g[x] = g[y] => x = y
  /\ \A x \in S : \A y \in T : f[x] # g[y]

SumsWithin(S, T, N) == Cardinality(S) + Cardinality(T) <= Cardinality(N)
SumsUpTo(S, T, N) == Cardinality(S) + Cardinality(T) = Cardinality(N)

LEMMA ApartSum ==
  ASSUME NEW S, NEW T, NEW N, IsFiniteSet(N), NEW f, NEW g, Apart(f, g, S, T, N)
  PROVE  /\ SumsWithin(S, T, N)
         /\ (\A n \in N : (\E x \in S : f[x] = n) \/ \E y \in T : g[y] = n) => SumsUpTo(S, T, N)
<1> DEFINE A == {f[x] : x \in S}
           B == {g[y] : y \in T}
<1>1. A \in SUBSET N /\ B \in SUBSET N /\ A \cap B = {}
  BY DEF Apart
<1>2. f \in Injection(S, A) /\ f \in Surjection(S, A) /\ g \in Injection(T, B) /\ g \in Surjection(T, B)
  BY DEF Apart, Injection, Surjection, IsInjective
<1>3. (\A n \in N : (\E x \in S : f[x] = n) \/ \E y \in T : g[y] = n) => A \cup B = N
  BY <1>1
<1> HIDE DEF A, B
<1>4. IsFiniteSet(A) /\ IsFiniteSet(B)
  BY <1>1, FS_Subset
<1>5. Cardinality(S) = Cardinality(A)
  BY <1>2, <1>4, FS_Injection
<1>6. Cardinality(T) = Cardinality(B)
  BY <1>2, <1>4, FS_Injection
<1>7. Cardinality(A \cup B) = Cardinality(A) + Cardinality(B)
  <2>1. Cardinality(A \cup B) = Cardinality(A) + Cardinality(B) - Cardinality(A \cap B)
    BY <1>4, FS_Union
  <2>2. Cardinality(A \cap B) = 0
    BY <1>1, FS_EmptySet
  <2>3. Cardinality(A) \in Nat /\ Cardinality(B) \in Nat
    BY <1>4, FS_CardinalityType
  <2>4. QED
    BY <2>1, <2>2, <2>3
<1>8. Cardinality(A \cup B) <= Cardinality(N)
  <2>1. A \cup B \in SUBSET N
    BY <1>1
  <2>2. QED
    BY <2>1, FS_Subset
<1>9. QED
  BY <1>3, <1>5, <1>6, <1>7, <1>8 DEF SumsWithin, SumsUpTo

Before(id) == 1..(next[id] - 1)
Sent == underway \cup received

\* What was offloaded so far is under way or in, all of it, unless something failed.
SentInv ==
  /\ \A id \in Id : Before(id) \subseteq Offloaded(id)
  /\ \A m \in inbox : m[2] >= 1
  /\ \A r \in Sent : r.by >= 1 /\ r.chunk \in ChunkList(r.id, r.by)
  /\ \A id \in Id \ faulty : \A j \in Before(id) :
       \/ <<id, j>> \in inbox
       \/ \A c \in ChunkList(id, j) : [id |-> id, by |-> j, chunk |-> c] \in Sent
  /\ \A id \in Id : code[id] = "TMAX_ERROR_NONE" =>
       next[id] # 0 /\ (next[id] \in Positions(id) => ~ Known(id, next[id]))

LEMMA SentQuiet ==
  ASSUME SentInv, UNCHANGED <<next, code, inbox>>, Sent' = Sent, faulty \subseteq faulty'
  PROVE  SentInv'
BY DEF SentInv, Before, Offloaded, Known

LEMMA SentOffload ==
  ASSUME SentInv, Types, NEW id \in Id, SendSnippet(id) \/ Offloading(id)
  PROVE  SentInv'
<1>1. /\ next \in [Id -> Nat] /\ inbox \subseteq Id \X Nat
      /\ faulty \subseteq faulty' /\ Sent' = Sent
  BY DEF Types, SendSnippet, Offloading, OffloadFile, Respond, Works, Fails, merging, Sent
<1>2. /\ \A j \in Id : Before(j) \subseteq Offloaded(j)
      /\ \A m \in inbox : m[2] >= 1
      /\ \A r \in Sent : r.by >= 1 /\ r.chunk \in ChunkList(r.id, r.by)
      /\ \A i \in Id \ faulty : \A j \in Before(i) :
           \/ <<i, j>> \in inbox
           \/ \A c \in ChunkList(i, j) : [id |-> i, by |-> j, chunk |-> c] \in Sent
      /\ \A i \in Id : code[i] = "TMAX_ERROR_NONE" =>
           next[i] # 0 /\ (next[i] \in Positions(i) => ~ Known(i, next[i]))
  BY DEF SentInv
<1>3. CASE SendSnippet(id)
  <2>1. /\ next[id] = 0 /\ next' = [next EXCEPT ![id] = 1]
        /\ UNCHANGED <<code, inbox>>
    BY <1>3 DEF SendSnippet
  <2>2. /\ next'[id] = 1 /\ \A j \in Id \ {id} : next'[j] = next[j]
        /\ Before(id)' = {} /\ \A j \in Id \ {id} : Before(j)' = Before(j)
    BY <1>1, <2>1 DEF Before
  <2>3. \A j \in Id : Before(j)' \subseteq Offloaded(j)'
    BY <1>2, <2>2 DEF Offloaded, Known
  <2>4. \A i \in Id \ faulty' : \A j \in Before(i)' :
           \/ <<i, j>> \in inbox'
           \/ \A c \in ChunkList(i, j) : [id |-> i, by |-> j, chunk |-> c] \in Sent'
    BY <1>1, <1>2, <2>1, <2>2
  <2>5. \A i \in Id : code'[i] = "TMAX_ERROR_NONE" =>
           next'[i] # 0 /\ (next'[i] \in Positions(i) => ~ Known(i, next'[i]))
    BY <1>2, <2>1, <2>2
  <2>6. QED
    BY <1>1, <1>2, <2>1, <2>3, <2>4, <2>5 DEF SentInv
<1>4. CASE OffloadFile(id)
  <2> DEFINE i == next[id]
  <2>1. /\ i \in Positions(id) /\ Known(id, i) /\ next' = [next EXCEPT ![id] = i + 1]
        /\ UNCHANGED code
        /\ inbox' = inbox \cup {<<id, i>>} \/ (inbox' = inbox /\ id \in faulty')
    BY <1>4 DEF OffloadFile, Fails
  <2>2. i \in Nat /\ i >= 1
    <3>1. Files[id] \in Seq([name : STRING, chunks : Nat])
      BY TmaxAssumption
    <3>2. QED
      BY <1>1, <2>1, <3>1 DEF Positions
  <2>3. /\ next'[id] = i + 1 /\ \A j \in Id \ {id} : next'[j] = next[j]
        /\ Before(id)' = Before(id) \cup {i} /\ \A j \in Id \ {id} : Before(j)' = Before(j)
    BY <1>1, <2>1, <2>2 DEF Before
  <2>4. i \in Offloaded(id)
    <3>1. ASSUME NEW j \in 1..i PROVE Known(id, j)
      <4>1. CASE j = i
        BY <2>1, <4>1
      <4>2. CASE j # i
        <5>1. j \in Before(id)
          BY <2>2, <4>2 DEF Before
        <5>2. j \in Offloaded(id) /\ j \in 1..j
          BY <1>2, <2>2, <5>1
        <5>3. QED
          BY <5>2 DEF Offloaded
      <4>3. QED
        BY <4>1, <4>2
    <3>2. QED
      BY <2>1, <3>1 DEF Offloaded
  <2> HIDE DEF i
  <2>5. \A j \in Id : Before(j)' \subseteq Offloaded(j)
    BY <1>2, <2>3, <2>4
  <2>6. \A m \in inbox' : m[2] >= 1
    BY <1>2, <2>1, <2>2
  <2>7. ASSUME NEW j \in Id \ faulty', NEW k \in Before(j)'
        PROVE  \/ <<j, k>> \in inbox'
               \/ \A c \in ChunkList(j, k) : [id |-> j, by |-> k, chunk |-> c] \in Sent'
    <3>1. CASE j = id /\ k = i
      BY <2>1, <2>7, <3>1
    <3>2. CASE ~ (j = id /\ k = i)
      <4>1. k \in Before(j) /\ j \in Id \ faulty
        BY <1>1, <2>3, <3>2
      <4>2. QED
        BY <1>1, <1>2, <2>1, <4>1
    <3>3. QED
      BY <3>1, <3>2
  <2>8. \A j \in Id : code'[j] = "TMAX_ERROR_NONE" =>
           next'[j] # 0 /\ (next'[j] \in Positions(j) => ~ Known(j, next'[j]))
    BY <1>2, <2>1, <2>3 DEF i
  <2>9. QED
    BY <1>1, <1>2, <2>5, <2>6, <2>7, <2>8 DEF SentInv, Offloaded, Known
<1>5. CASE Respond(id)
  <2>1. /\ next[id] # 0 /\ (next[id] \in Positions(id) => ~ Known(id, next[id]))
        /\ code' = [code EXCEPT ![id] = "TMAX_ERROR_NONE"]
        /\ UNCHANGED <<next, inbox>>
    BY <1>5 DEF Respond
  <2>2. \A j \in Id : code'[j] = "TMAX_ERROR_NONE" => j = id \/ code[j] = "TMAX_ERROR_NONE"
    BY <2>1
  <2>3. QED
    BY <1>1, <1>2, <2>1, <2>2 DEF SentInv, Before, Offloaded, Known
<1>6. QED
  BY <1>3, <1>4, <1>5 DEF Offloading

LEMMA SentCsd ==
  ASSUME SentInv, Types, CsdSends
  PROVE  SentInv'
<1>1. PICK m \in inbox :
        /\ inbox' = inbox \ {m}
        /\ underway' = underway \cup {[id |-> m[1], by |-> m[2], chunk |-> c] : c \in ChunkList(m[1], m[2])}
  BY DEF CsdSends
<1>2. UNCHANGED <<next, code, received, faulty>>
  BY DEF CsdSends, Works
<1> DEFINE new == {[id |-> m[1], by |-> m[2], chunk |-> c] : c \in ChunkList(m[1], m[2])}
<1>3. Sent' = Sent \cup new /\ m = <<m[1], m[2]>>
  BY <1>1, <1>2 DEF Sent, Types
<1>4. \A r \in new : r.by >= 1 /\ r.chunk \in ChunkList(r.id, r.by)
  BY DEF SentInv
<1>5. \A r \in Sent' : r.by >= 1 /\ r.chunk \in ChunkList(r.id, r.by)
  BY <1>3, <1>4 DEF SentInv
<1>6. ASSUME NEW id \in Id \ faulty, NEW j \in Before(id)
      PROVE  \/ <<id, j>> \in inbox'
             \/ \A c \in ChunkList(id, j) : [id |-> id, by |-> j, chunk |-> c] \in Sent'
  <2>1. CASE <<id, j>> = m
    BY <1>3, <2>1
  <2>2. CASE <<id, j>> # m
    BY <1>1, <1>3, <2>2 DEF SentInv
  <2>3. QED
    BY <2>1, <2>2
<1>7. QED
  BY <1>1, <1>2, <1>5, <1>6 DEF SentInv, Before, Offloaded, Known

LEMMA SentStep == SentInv /\ Types /\ [Next]_vars => SentInv'
<1> SUFFICES ASSUME SentInv, Types, [Next]_vars PROVE SentInv'
  OBVIOUS
<1>1. CASE \E id \in Id : SendSnippet(id) \/ Offloading(id)
  BY <1>1, SentOffload
<1>2. CASE CsdSends
  BY <1>2, SentCsd
<1>3. CASE ReceiveResult
  <2>1. UNCHANGED <<next, code, inbox, faulty>> /\ Sent' = Sent
    BY <1>3 DEF ReceiveResult, ResultMerging, Works, offloading, Sent
  <2>2. QED
    BY <2>1, SentQuiet
<1>4. CASE ReceiveFails
  <2>1. PICK r \in underway : underway' = underway \ {r} /\ faulty' = faulty \cup {r.id}
    BY <1>4 DEF ReceiveFails, Fails
  <2>2. UNCHANGED <<next, code, inbox, received>>
    BY <1>4 DEF ReceiveFails, offloading
  <2>3. Sent' \subseteq Sent /\ \A q \in Sent : q \in Sent' \/ q = r
    BY <2>1, <2>2 DEF Sent
  <2>4. ASSUME NEW id \in Id \ faulty', NEW j \in Before(id)
        PROVE  \/ <<id, j>> \in inbox
               \/ \A c \in ChunkList(id, j) : [id |-> id, by |-> j, chunk |-> c] \in Sent'
    <3>1. id # r.id /\ id \in Id \ faulty
      BY <2>1
    <3>2. \A c \in ChunkList(id, j) : [id |-> id, by |-> j, chunk |-> c] # r
      BY <3>1
    <3>3. QED
      BY <2>3, <3>1, <3>2 DEF SentInv
  <2>5. QED
    BY <2>2, <2>3, <2>4 DEF SentInv, Before, Offloaded, Known
<1>5. CASE \E f \in Fetch : CallFetch(f) \/ Fetching(f) \/ SpuriousWakeup(f) \/ CallFails(f)
  <2>1. UNCHANGED <<next, code, inbox, underway, received>> /\ faulty \subseteq faulty'
    BY <1>5 DEF CallFetch, Fetching, GetResult, GetResultWoken, SpuriousWakeup, CallFails, offloading,
                merging, Works, Fails
  <2>2. QED
    BY <2>1, SentQuiet DEF Sent
<1>6. CASE UNCHANGED vars
  BY <1>6, SentQuiet DEF vars, offloading, merging, Sent
<1>7. QED
  BY <1>1, <1>2, <1>3, <1>4, <1>5, <1>6 DEF Next

\* A chunk is in the list of a snippet if its file has the name that the snippet is for.
LEMMA ListedByName ==
  ASSUME NEW id \in Id, NEW i \in Positions(id), NEW k \in 1..Files[id][i].chunks, NEW j
  PROVE  <<i, k>> \in ChunkList(id, j) <=> Name(id, i) = Name(id, j)
<1>1. ASSUME <<i, k>> \in ChunkList(id, j) PROVE Name(id, i) = Name(id, j)
  <2>1. PICK l \in Positions(id) : Name(id, l) = Name(id, j) /\ <<i, k>> \in {l} \X (1..Files[id][l].chunks)
    BY <1>1 DEF ChunkList
  <2>2. QED
    BY <2>1
<1>2. ASSUME Name(id, i) = Name(id, j) PROVE <<i, k>> \in ChunkList(id, j)
  <2>1. <<i, k>> \in {i} \X (1..Files[id][i].chunks)
    OBVIOUS
  <2>2. QED
    BY <1>2, <2>1 DEF ChunkList
<1>3. QED
  BY <1>1, <1>2

LEMMA ComeAsNamed == ChunkInv /\ SentInv => ChunksComeAsNamed
<1> SUFFICES ASSUME ChunkInv, SentInv, NEW id \in Id, NEW i \in Positions(id),
                    NEW k \in 1..Files[id][i].chunks
             PROVE  /\ SumsWithin(Fetched(id, <<i, k>>), Held(id, <<i, k>>), SentFor(id, i))
                    /\ AllIn(id) /\ id \notin faulty =>
                         SumsUpTo(Fetched(id, <<i, k>>), Held(id, <<i, k>>), SentFor(id, i))
  BY DEF ChunksComeAsNamed, SumsWithin, SumsUpTo
<1> DEFINE c == <<i, k>>
           S == Fetched(id, c)
           T == Held(id, c)
           N == SentFor(id, i)
           f == [x \in S |-> taken[x][1].by]
           g == [y \in T |-> chunks[id][y].by]
<1>1. Types /\ SentOnce /\ Placed /\ Takers
  BY DEF ChunkInv
<1>2. IsFiniteSet(N)
  <2>1. Files[id] \in Seq([name : STRING, chunks : Nat])
    BY TmaxAssumption
  <2>2. Positions(id) = 1..Len(Files[id]) /\ Len(Files[id]) \in Nat
    BY <2>1 DEF Positions
  <2>3. N \in SUBSET (1..Len(Files[id])) /\ IsFiniteSet(1..Len(Files[id]))
    BY <2>2, FS_Interval DEF SentFor, Offloaded
  <2>4. QED
    BY <2>3, FS_Subset
<1>3. ASSUME NEW r \in received, r.id = id, r.chunk = c
      PROVE  r = [id |-> id, by |-> r.by, chunk |-> c] /\ r.by \in N
  <2>1. r \in Result /\ r.by \in Nat /\ r.by >= 1 /\ r.by < next[id] /\ next[id] \in Nat
    BY <1>1, <1>3 DEF Types, Result, SentOnce, SentInv, Sent
  <2>2. r.by \in Offloaded(id)
    BY <2>1 DEF SentInv, Before
  <2>3. c \in ChunkList(id, r.by)
    BY <1>3 DEF SentInv, Sent
  <2>4. Name(id, i) = Name(id, r.by)
    BY <2>3, ListedByName
  <2>5. r = [id |-> id, by |-> r.by, chunk |-> c]
    BY <1>3, <2>1 DEF Result
  <2>6. QED
    BY <2>2, <2>4, <2>5 DEF SentFor
<1>4. ASSUME NEW x \in S PROVE \E r \in received : r.id = id /\ r.chunk = c /\ taken[x] = <<r>> /\ f[x] = r.by
  <2>1. x \in Fetch /\ taken[x] # <<>> /\ taken[x][1].id = id /\ taken[x][1].chunk = c /\ f[x] = taken[x][1].by
    BY DEF Fetched
  <2>2. PICK r \in received : taken[x] = <<r>>
    BY <1>1, <2>1 DEF Takers
  <2>3. QED
    BY <2>1, <2>2
<1>5. ASSUME NEW y \in T PROVE \E r \in received : r.id = id /\ r.chunk = c /\ chunks[id][y] = r /\ g[y] = r.by
  <2>1. y \in DOMAIN chunks[id] /\ chunks[id][y].chunk = c /\ g[y] = chunks[id][y].by
    BY DEF Held
  <2>2. QED
    BY <1>1, <2>1 DEF Placed
<1>6. S \subseteq Fetch /\ T \subseteq DOMAIN chunks[id]
  BY DEF Fetched, Held
<1>7. f = [x \in S |-> f[x]] /\ g = [y \in T |-> g[y]]
  OBVIOUS
<1> HIDE DEF c, S, T, N, f, g
<1>8. f \in [S -> N] /\ g \in [T -> N]
  <2>1. \A x \in S : f[x] \in N
    BY <1>3, <1>4
  <2>2. \A y \in T : g[y] \in N
    BY <1>3, <1>5
  <2>3. QED
    BY <1>7, <2>1, <2>2
<1>9. ASSUME NEW x \in S, NEW y \in S, f[x] = f[y] PROVE x = y
  <2>1. PICK q \in received : q.id = id /\ q.chunk = c /\ taken[x] = <<q>> /\ f[x] = q.by
    BY <1>4
  <2>2. PICK r \in received : r.id = id /\ r.chunk = c /\ taken[y] = <<r>> /\ f[y] = r.by
    BY <1>4
  <2>3. q = r
    BY <1>3, <1>9, <2>1, <2>2
  <2>4. taken[x] = taken[y] /\ taken[x] # <<>>
    BY <2>1, <2>2, <2>3
  <2>5. QED
    BY <1>1, <1>6, <2>4 DEF Takers
<1>10. ASSUME NEW x \in T, NEW y \in T, g[x] = g[y] PROVE x = y
  <2>1. PICK q \in received : q.id = id /\ q.chunk = c /\ chunks[id][x] = q /\ g[x] = q.by
    BY <1>5
  <2>2. PICK r \in received : r.id = id /\ r.chunk = c /\ chunks[id][y] = r /\ g[y] = r.by
    BY <1>5
  <2>3. q = r
    BY <1>3, <1>10, <2>1, <2>2
  <2>4. QED
    BY <1>1, <1>6, <2>1, <2>2, <2>3 DEF Placed
<1>11. ASSUME NEW x \in S, NEW y \in T PROVE f[x] # g[y]
  <2>1. PICK q \in received : q.id = id /\ q.chunk = c /\ taken[x] = <<q>> /\ f[x] = q.by
    BY <1>4
  <2>2. PICK r \in received : r.id = id /\ r.chunk = c /\ chunks[id][y] = r /\ g[y] = r.by
    BY <1>5
  <2>3. q # r
    BY <1>1, <1>6, <2>1, <2>2 DEF Placed
  <2>4. QED
    BY <1>3, <2>1, <2>2, <2>3
<1>12. Apart(f, g, S, T, N)
  BY <1>8, <1>9, <1>10, <1>11 DEF Apart
<1>13. ASSUME AllIn(id), id \notin faulty, NEW n \in N
       PROVE  (\E x \in S : f[x] = n) \/ \E y \in T : g[y] = n
  <2> DEFINE r == [id |-> id, by |-> n, chunk |-> c]
  <2>1. /\ code[id] = "TMAX_ERROR_NONE"
        /\ \A m \in inbox : m[1] # id
        /\ \A q \in underway : q.id # id
    BY <1>13 DEF AllIn
  <2>2. n \in Offloaded(id) /\ Name(id, n) = Name(id, i)
    BY DEF N, SentFor
  <2>3. n \in Before(id)
    <3>1. Files[id] \in Seq([name : STRING, chunks : Nat])
      BY TmaxAssumption
    <3>2. Positions(id) = 1..Len(Files[id]) /\ Len(Files[id]) \in Nat /\ next[id] \in Nat
      BY <1>1, <3>1 DEF Positions, Types
    <3>3. next[id] # 0 /\ (next[id] \in Positions(id) => ~ Known(id, next[id]))
      BY <2>1 DEF SentInv
    <3>4. n \in Positions(id) /\ \A j \in 1..n : Known(id, j)
      BY <2>2 DEF Offloaded
    <3>5. QED
      BY <3>2, <3>3, <3>4 DEF Before
  <2>4. c \in ChunkList(id, n)
    BY <2>2, ListedByName DEF c
  <2>5. <<id, n>> \notin inbox
    BY <2>1
  <2>6. r \in received
    BY <1>13, <2>1, <2>3, <2>4, <2>5 DEF SentInv, Sent
  <2>7. r.id = id /\ r.chunk = c /\ r.by = n
    OBVIOUS
  <2> HIDE DEF r
  <2>8. CASE \E y \in DOMAIN chunks[id] : chunks[id][y] = r
    <3>1. PICK y \in DOMAIN chunks[id] : chunks[id][y] = r
      BY <2>8
    <3>2. y \in T
      BY <2>7, <3>1 DEF T, Held
    <3>3. g[y] = n
      BY <2>7, <3>1, <3>2 DEF g
    <3>4. QED
      BY <3>2, <3>3
  <2>9. CASE \E x \in Fetch : taken[x] = <<r>>
    <3>1. PICK x \in Fetch : taken[x] = <<r>>
      BY <2>9
    <3>2. taken[x] # <<>> /\ taken[x][1] = r
      BY <3>1
    <3>3. taken[x][1].id = id /\ taken[x][1].chunk = c /\ taken[x][1].by = n
      BY <2>7, <3>2
    <3>4. x \in S
      BY <3>2, <3>3 DEF S, Fetched
    <3>5. f[x] = n
      BY <3>3, <3>4 DEF f
    <3>6. QED
      BY <3>4, <3>5
  <2>10. QED
    BY <1>1, <2>6, <2>7, <2>8, <2>9 DEF Placed
<1>14. SumsWithin(S, T, N)
  BY <1>2, <1>12, ApartSum
<1>15. ASSUME AllIn(id), id \notin faulty PROVE SumsUpTo(S, T, N)
  BY <1>2, <1>12, <1>13, <1>15, ApartSum
<1>16. QED
  BY <1>14, <1>15 DEF S, T, N, c

\* Whatever is requested, fails and fetches: no chunk is there more often than its file's
\* name is offloaded, and none less often once all of it came in and nothing failed.
THEOREM ChunksAddUpToTheRequest == Spec => []ChunksComeAsNamed
<1>1. Init => SentInv
  BY DEF Init, SentInv, Before, Sent
<1>2. ChunkInv => Types
  BY DEF ChunkInv
<1>3. QED
  BY <1>1, <1>2, SentStep, ComeAsNamed, ChunkInvariant, PTL DEF Spec
=============================================================================
