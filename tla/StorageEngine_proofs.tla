------------------------ MODULE StorageEngine_proofs ------------------------
(***************************************************************************)
(* The thread that receives results is lost only to a CSD that broke off, an      *)
(* answer with rows has every SST once, and its rows are printed as they are       *)
(* stored.                                                                     *)
(*                                                                           *)
(* The first is an invariant of the receiver and its connections: what is on the  *)
(* wire of a CSD that did not fail is what the thread is about to read.  The      *)
(* second follows a result: a message per CSD for SSTs that no other message has,  *)
(* one connection per message, one result per connection, which is delivered,     *)
(* pushed and merged once; so results of a query are of different SSTs, and the     *)
(* blocks they come with add up to the total just when no SST is missing, if a     *)
(* CSD is asked for as many blocks of an SST as the total counts (CountsAgree).   *)
(*                                                                           *)
(* The third goes from a cell to a table: what each type's encoding makes of a     *)
(* cell that fits its column is decoded to that cell again (CellComes), the        *)
(* offsets found in a row are where its cells start (OffsetsAre), so each column   *)
(* gets one value from each row (ColumnIs), and the rows that a connection brings   *)
(* are those of the SSTs in its message (ResultsInv).                            *)
(***************************************************************************)
EXTENDS StorageEngine, TLAPS, SequenceTheorems, FunctionTheorems, FiniteSetTheorems,
        WellFoundedInduction

(* The invariant of the receiver.                                             *)

Result == [peer : Peer, missing : Nat]
Places == {"accept", "length", "text", "size", "data", "exited", "spinning", "undefined"}

ReceiverTypes ==
  /\ backlog \in Seq(Peer)
  /\ phase \in [Peer -> {"idle", "text", "data", "over"}]
  /\ dataUnits \in [Peer -> Nat]
  /\ wire \in [Peer -> Nat]
  /\ closed \in [Peer -> {"open", "fin", "reset"}]
  /\ oks \in [Peer -> Nat]
  /\ stage \in Places
  /\ serving \in IF stage = "accept" THEN {NoPeer} ELSE Peer
  /\ left \in Nat
  /\ sized \in BOOLEAN
  /\ delivered \in Seq(Result)
  /\ faulty \subseteq Query

\* A connection waits, is served and is done with once each.
ServedOnce ==
  /\ \A k, l \in DOMAIN backlog : backlog[k] = backlog[l] => k = l
  /\ \A k, l \in DOMAIN delivered : delivered[k].peer = delivered[l].peer => k = l
  /\ \A k \in DOMAIN backlog : backlog[k] # serving /\ phase[backlog[k]] # "idle"
  /\ serving \in Peer => phase[serving] # "idle"
  /\ \A k \in DOMAIN delivered : /\ phase[delivered[k].peer] # "idle"
                                 /\ delivered[k].peer # serving
                                 /\ \A l \in DOMAIN backlog : delivered[k].peer # backlog[l]

\* What is under way from a CSD that did not fail.
Waiting(p) ==
  /\ oks[p] = 0
  /\ wire[p] <= 1 + TextUnits
  /\ p[1] \notin faulty => phase[p] = "text" /\ closed[p] = "open" /\ wire[p] = 1 + TextUnits

Served(p) ==
  /\ stage = "length" => Waiting(p)
  /\ stage = "text" =>
       /\ oks[p] = 0 /\ wire[p] <= left /\ left > 0
       /\ p[1] \notin faulty => phase[p] = "text" /\ closed[p] = "open" /\ wire[p] = left
  /\ stage = "size" /\ p[1] \notin faulty =>
       /\ closed[p] # "reset"
       /\ wire[p] = IF phase[p] = "text" THEN 0 ELSE 1 + dataUnits[p]
  /\ stage = "data" =>
       /\ left = 0 => Ended \/ (sized /\ dataUnits[p] = 0)
       /\ left # 0 => sized
       /\ p[1] \notin faulty => /\ closed[p] # "reset" /\ sized /\ wire[p] = left
                               /\ phase[p] \in {"data", "over"}

PeersSo == \A p \in Peer : /\ closed[p] # "open" => phase[p] = "over"
                           /\ phase[p] = "idle" => oks[p] = 0
AllWaiting == \A k \in DOMAIN backlog : Waiting(backlog[k])
OneServed == serving \in Peer => Served(serving)
Delivered ==
  /\ Lost => serving[1] \in faulty
  /\ \A k \in DOMAIN delivered : delivered[k].missing = 0 \/ delivered[k].peer[1] \in faulty

Connections == PeersSo /\ AllWaiting /\ OneServed /\ Delivered

ReceiverInv == ReceiverTypes /\ ServedOnce /\ Connections
------------------------------------------------------------------------------
(* The invariant of the three programs.                                       *)

EngineTypes ==
  /\ pc \in [Query -> {"idle", "hung", "reading", "asking", "answered"}]
  /\ position \in [Query -> Nat]
  /\ queue \in Seq(Query)
  /\ waiting \in [Query -> Seq(Result)]
  /\ merged \in [Query -> Seq(Result)]
  /\ answer \in [Query -> [kind : {"none", "failed", "rows"}, results : Seq(Result)]]

\* A query's scan is queued once and scheduled once.
Scheduled ==
  /\ \A k, l \in DOMAIN queue : queue[k] = queue[l] => k = l
  /\ \A k \in DOMAIN queue : position[queue[k]] >= 1
  /\ \A m \in inbox : /\ m.snippet \in Query /\ position[m.snippet] >= 1
                      /\ \A k \in DOMAIN queue : queue[k] # m.snippet

\* Each SST is in one message, and each message is to another CSD.
Messaged ==
  /\ \A m \in inbox : /\ m.csd \in Csd /\ m.ssts \subseteq Ssts(m.snippet) /\ m.ssts # {}
                      /\ \A i \in m.ssts : m.csd \in Holders(m.snippet, i)
                      /\ m.csd_block_count = CsdBlockCount(SstInfo[m.snippet], m.csd, m.ssts)
  /\ \A m, n \in inbox : m.snippet = n.snippet /\ (m.csd = n.csd \/ m.ssts \cap n.ssts # {}) => m = n
  /\ \A p \in Peer : phase[p] # "idle" => \E m \in inbox : <<m.snippet, m.csd>> = p

\* Results of q, from different CSDs.
ResultsOf(q, results) ==
  /\ \A k \in DOMAIN results : results[k] \in Range(delivered) /\ results[k].peer[1] = q
  /\ \A k, l \in DOMAIN results : results[k].peer = results[l].peer => k = l

\* They answer messages that have every SST of q among them.
Covers(q, results) ==
  \A i \in Ssts(q) : \E k \in DOMAIN results, m \in inbox :
    <<m.snippet, m.csd>> = results[k].peer /\ i \in m.ssts

\* What was pushed and what of it was merged are different results.
PushedOnce ==
  \A q \in Query : /\ ResultsOf(q, waiting[q]) /\ ResultsOf(q, merged[q])
                   /\ \A k \in DOMAIN waiting[q], l \in DOMAIN merged[q] :
                        waiting[q][k].peer # merged[q][l].peer

\* A table is finished only when no SST is missing.
Finished == \A q \in Query : \A k : <<q, k>> \in finished => Covers(q, merged[q])

Answers ==
  \A q \in Query : pc[q] = "answered" =>
    \/ answer[q].kind = "failed" /\ q \in faulty
    \/ answer[q].kind = "rows" /\ ResultsOf(q, answer[q].results) /\ Covers(q, answer[q].results)
------------------------------------------------------------------------------
(* The receiver and its connections.                                          *)

\* A sequence with one more at its end, and without its first.
LEMMA AppendOf ==
  ASSUME NEW S, NEW q \in Seq(S), NEW x \in S
  PROVE  LET n == Len(q) + 1
         IN  /\ Append(q, x) \in Seq(S) /\ Len(q) \in Nat /\ Len(Append(q, x)) = n
             /\ DOMAIN Append(q, x) = DOMAIN q \cup {n} /\ n \notin DOMAIN q /\ Append(q, x)[n] = x
             /\ \A k \in DOMAIN q : Append(q, x)[k] = q[k]
OBVIOUS

LEMMA TailOf ==
  ASSUME NEW S, NEW q \in Seq(S), q # <<>>
  PROVE  /\ Head(q) = q[1] /\ 1 \in DOMAIN q /\ Head(q) \in S /\ Tail(q) \in Seq(S)
         /\ \A k \in DOMAIN Tail(q) : k + 1 \in DOMAIN q /\ Tail(q)[k] = q[k + 1] /\ k \in Nat \ {0}
<1>1. Len(q) \in Nat /\ Len(q) >= 1 /\ DOMAIN q = 1..Len(q) /\ q[1] \in S
  OBVIOUS
<1>2. Tail(q) \in Seq(S) /\ DOMAIN Tail(q) = 1..(Len(q) - 1) /\ Head(q) = q[1]
  OBVIOUS
<1>3. QED
  BY <1>1, <1>2

\* A failure of somebody else, or of nobody.
LEMMA ReceiverRests ==
  ASSUME ReceiverInv, UNCHANGED receiverVars, faulty \subseteq faulty', faulty' \subseteq Query
  PROVE  ReceiverInv'
<1>1. ReceiverTypes' /\ ServedOnce'
  BY DEF ReceiverInv, ReceiverTypes, ServedOnce, receiverVars
<1>2. Connections'
  BY DEF ReceiverInv, Connections, PeersSo, AllWaiting, OneServed, Delivered, Waiting, Served, Ended,
     Lost, receiverVars
<1>3. QED
  BY <1>1, <1>2 DEF ReceiverInv

\* Who is where.
LEMMA WhoIsWhere ==
  ASSUME ReceiverTypes
  PROVE  /\ \A k \in DOMAIN backlog : backlog[k] \in Peer
         /\ \A k \in DOMAIN delivered : delivered[k].peer \in Peer /\ delivered[k].missing \in Nat
         /\ serving \in Peer <=> stage # "accept"
         /\ stage = "accept" => serving = NoPeer
<1>1. /\ backlog \in Seq(Peer) /\ delivered \in Seq(Result)
      /\ serving \in IF stage = "accept" THEN {NoPeer} ELSE Peer
  BY DEF ReceiverTypes
<1>2. \A k \in DOMAIN delivered : delivered[k] \in Result
  BY <1>1
<1>3. \A k \in DOMAIN backlog : backlog[k] \in Peer
  BY <1>1
<1>4. QED
  BY <1>1, <1>2, <1>3, ReceiverAssumption DEF Result

\* A connection comes: it waits, and is nobody else's.
LEMMA ConnectKeeps ==
  ASSUME ReceiverInv, NEW p \in Peer, NEW n \in Nat, Connect(p, n), faulty' = faulty
  PROVE  ReceiverInv'
<1>1. /\ ReceiverTypes /\ ServedOnce /\ Connections /\ TextUnits \in Nat \ {0}
      /\ phase[p] = "idle" /\ closed[p] = "open" /\ oks[p] = 0
  BY ReceiverAssumption DEF ReceiverInv, Connect, Connections, PeersSo, ReceiverTypes
<1>2. /\ phase' = [phase EXCEPT ![p] = "text"] /\ dataUnits' = [dataUnits EXCEPT ![p] = n]
      /\ wire' = [wire EXCEPT ![p] = 1 + TextUnits] /\ backlog' = Append(backlog, p)
      /\ UNCHANGED <<closed, oks, stage, serving, left, sized, delivered>>
  BY DEF Connect
<1>3. /\ backlog' \in Seq(Peer)
      /\ \A k \in DOMAIN backlog' : backlog'[k] = p \/ (k \in DOMAIN backlog /\ backlog'[k] = backlog[k])
      /\ \A k, l \in DOMAIN backlog' : backlog'[k] = p /\ backlog'[l] = p => k = l
  <2>1. backlog \in Seq(Peer) /\ \A k \in DOMAIN backlog : backlog[k] # p
    BY <1>1 DEF ReceiverTypes, ServedOnce
  <2>2. QED
    BY <1>2, <2>1, AppendOf
<1>4. ReceiverTypes'
  BY <1>1, <1>2, <1>3 DEF ReceiverTypes
<1>5. /\ phase'[p] = "text" /\ wire'[p] = 1 + TextUnits
      /\ \A r \in Peer : r # p => phase'[r] = phase[r] /\ wire'[r] = wire[r] /\ dataUnits'[r] = dataUnits[r]
  BY <1>1, <1>2 DEF ReceiverTypes
<1>6. /\ serving # p /\ \A k \in DOMAIN delivered : delivered[k].peer \in Peer /\ delivered[k].peer # p
      /\ \A k \in DOMAIN backlog : backlog[k] \in Peer /\ backlog[k] # p
  BY <1>1, WhoIsWhere DEF ServedOnce
<1>7. ServedOnce'
  BY <1>1, <1>2, <1>3, <1>5, <1>6 DEF ServedOnce
<1>8. Connections'
  <2>1. PeersSo'
    BY <1>1, <1>2, <1>5 DEF Connections, PeersSo
  <2>2. Waiting(p)'
    BY <1>1, <1>2, <1>5 DEF Waiting, ReceiverTypes
  <2>3. ASSUME NEW r \in Peer, r # p, Waiting(r) PROVE Waiting(r)'
    BY <1>2, <1>5, <2>3 DEF Waiting
  <2>4. AllWaiting'
    BY <1>1, <1>3, <1>6, <2>2, <2>3 DEF Connections, AllWaiting
  <2>5. OneServed'
    BY <1>1, <1>2, <1>5, <1>6 DEF Connections, OneServed, Served, Waiting, Ended
  <2>6. Delivered'
    BY <1>1, <1>2 DEF Connections, Delivered, Lost
  <2>7. QED
    BY <2>1, <2>4, <2>5, <2>6 DEF Connections
<1>9. QED
  BY <1>4, <1>7, <1>8 DEF ReceiverInv

\* A step on the side of a CSD that has connected.
LEMMA PeerKeeps ==
  ASSUME ReceiverInv, NEW p \in Peer, phase[p] # "idle", phase'[p] # "idle",
         UNCHANGED <<dataUnits, oks, receiver>>, ReceiverTypes', faulty \subseteq faulty',
         \A r \in Peer : r # p => phase'[r] = phase[r] /\ wire'[r] = wire[r] /\ closed'[r] = closed[r],
         closed'[p] # "open" => phase'[p] = "over",
         Waiting(p) => Waiting(p)', Served(p) /\ serving = p => Served(p)'
  PROVE  ReceiverInv'
<1>1. /\ ReceiverTypes /\ ServedOnce /\ Connections
      /\ UNCHANGED <<backlog, stage, serving, left, sized, delivered>>
  BY DEF ReceiverInv, receiver
<1>2. /\ \A k \in DOMAIN backlog : backlog[k] \in Peer
      /\ \A k \in DOMAIN delivered : delivered[k].peer \in Peer
  BY <1>1, WhoIsWhere
<1>3. ServedOnce'
  BY <1>1, <1>2 DEF ServedOnce
<1>4. PeersSo'
  BY <1>1 DEF Connections, PeersSo
<1>5. ASSUME NEW r \in Peer, Waiting(r) PROVE Waiting(r)'
  <2>1. CASE r # p
    BY <1>5, <2>1 DEF Waiting
  <2>2. QED
    BY <1>5, <2>1
<1>6. AllWaiting'
  BY <1>1, <1>2, <1>5 DEF Connections, AllWaiting
<1>7. OneServed'
  <2>1. ASSUME serving \in Peer, serving # p, Served(serving) PROVE Served(serving)'
    BY <1>1, <2>1 DEF Served, Waiting, Ended
  <2>2. ASSUME serving = p, Served(p) PROVE Served(serving)'
    BY <1>1, <2>2 DEF Served, Waiting, Ended
  <2>3. QED
    BY <1>1, <2>1, <2>2 DEF Connections, OneServed
<1>8. Delivered'
  BY <1>1 DEF Connections, Delivered, Lost
<1>9. QED
  BY <1>3, <1>4, <1>6, <1>7, <1>8 DEF ReceiverInv, Connections

\* It sends its data only after an "ok", and then the text has been read.
LEMMA SendDataKeeps ==
  ASSUME ReceiverInv, NEW p \in Peer, SendData(p), faulty' = faulty
  PROVE  ReceiverInv'
<1>1. /\ ReceiverTypes /\ PeersSo /\ phase[p] = "text" /\ oks[p] = 1 /\ dataUnits[p] \in Nat
      /\ phase' = [phase EXCEPT ![p] = "data"] /\ wire' = [wire EXCEPT ![p] = wire[p] + 1 + dataUnits[p]]
      /\ UNCHANGED <<dataUnits, closed, oks, receiver>>
  BY DEF ReceiverInv, Connections, SendData, ReceiverTypes
<1>2. ReceiverTypes'
  BY <1>1 DEF ReceiverTypes, receiver
<1>3. /\ phase'[p] = "data" /\ wire'[p] = wire[p] + 1 + dataUnits[p] /\ wire[p] \in Nat /\ closed[p] = "open"
      /\ \A r \in Peer : r # p => phase'[r] = phase[r] /\ wire'[r] = wire[r] /\ closed'[r] = closed[r]
  BY <1>1 DEF ReceiverTypes, PeersSo
<1>4. ~ Waiting(p)
  BY <1>1 DEF Waiting
<1>5. ASSUME Served(p), serving = p PROVE Served(p)'
  <2>1. stage \notin {"length", "text"}
    BY <1>1, <1>4, <1>5 DEF Served
  <2>2. stage' = stage /\ left' = left /\ sized' = sized /\ serving' = serving
    BY <1>1 DEF receiver
  <2>3. QED
    BY <1>1, <1>3, <1>5, <2>1, <2>2 DEF Served, Ended
<1>6. QED
  BY <1>1, <1>2, <1>3, <1>4, <1>5, PeerKeeps

\* It closes after its data.
LEMMA FinishKeeps ==
  ASSUME ReceiverInv, NEW p \in Peer, Finish(p), faulty' = faulty
  PROVE  ReceiverInv'
<1>1. /\ ReceiverTypes /\ PeersSo /\ phase[p] = "data" /\ closed[p] = "open"
      /\ phase' = [phase EXCEPT ![p] = "over"] /\ closed' = [closed EXCEPT ![p] = "fin"]
      /\ UNCHANGED <<dataUnits, wire, oks, receiver>>
  BY DEF ReceiverInv, Connections, Finish, ReceiverTypes, PeersSo
<1>2. ReceiverTypes'
  BY <1>1 DEF ReceiverTypes, receiver
<1>3. /\ phase'[p] = "over" /\ closed'[p] = "fin"
      /\ \A r \in Peer : r # p => phase'[r] = phase[r] /\ wire'[r] = wire[r] /\ closed'[r] = closed[r]
  BY <1>1 DEF ReceiverTypes
<1>4. ASSUME Waiting(p) PROVE Waiting(p)'
  BY <1>1, <1>4 DEF Waiting
<1>5. ASSUME Served(p), serving = p PROVE Served(p)'
  <2>1. stage' = stage /\ left' = left /\ sized' = sized /\ serving' = serving
    BY <1>1 DEF receiver
  <2>2. QED
    BY <1>1, <1>3, <1>4, <1>5, <2>1 DEF Served, Ended
<1>6. QED
  BY <1>1, <1>2, <1>3, <1>4, <1>5, PeerKeeps

\* One that breaks off is faulty from then on.
LEMMA BreakOffKeeps ==
  ASSUME ReceiverInv, NEW p \in Peer, BreakOff(p), faulty' = faulty \cup {p[1]}, p[1] \in Query
  PROVE  ReceiverInv'
<1>1. /\ ReceiverTypes /\ PeersSo /\ phase[p] \in {"text", "data"} /\ closed[p] = "open"
      /\ phase' = [phase EXCEPT ![p] = "over"] /\ UNCHANGED <<dataUnits, oks, receiver>>
  BY DEF ReceiverInv, Connections, BreakOff, ReceiverTypes, PeersSo
<1>2. PICK n \in 0..wire[p] : wire' = [wire EXCEPT ![p] = n]
  BY DEF BreakOff
<1>3. PICK how \in {"fin", "reset"} : closed' = [closed EXCEPT ![p] = how]
  BY DEF BreakOff
<1>4. wire[p] \in Nat /\ n \in Nat /\ n <= wire[p]
  BY <1>1, <1>2 DEF ReceiverTypes
<1>5. ReceiverTypes'
  BY <1>1, <1>2, <1>3, <1>4 DEF ReceiverTypes, receiver
<1>6. /\ phase'[p] = "over" /\ closed'[p] # "open" /\ wire'[p] = n
      /\ \A r \in Peer : r # p => phase'[r] = phase[r] /\ wire'[r] = wire[r] /\ closed'[r] = closed[r]
  BY <1>1, <1>2, <1>3 DEF ReceiverTypes
<1>7. ASSUME Waiting(p) PROVE Waiting(p)'
  BY <1>1, <1>4, <1>6, <1>7, ReceiverAssumption DEF Waiting
<1>8. ASSUME Served(p), serving = p PROVE Served(p)'
  <2>1. stage' = stage /\ left' = left /\ sized' = sized /\ serving' = serving /\ left \in Nat
    BY <1>1 DEF receiver, ReceiverTypes
  <2>2. QED
    BY <1>1, <1>4, <1>6, <1>7, <1>8, <2>1 DEF Served, Ended
<1>9. QED
  BY <1>1, <1>5, <1>6, <1>7, <1>8, PeerKeeps
------------------------------------------------------------------------------
(* The thread.                                                                *)

\* A step of the thread that goes on with the connection it serves, or is lost with it.
LEMMA ServingKeeps ==
  ASSUME ReceiverInv, ReceiverTypes', serving \in Peer, stage' # "accept",
         UNCHANGED <<backlog, phase, dataUnits, serving, delivered, faulty>>,
         \A r \in Peer : r # serving => wire'[r] = wire[r] /\ closed'[r] = closed[r] /\ oks'[r] = oks[r],
         closed'[serving] # "open" => phase[serving] = "over",
         Served(serving)', Lost' => serving[1] \in faulty
  PROVE  ReceiverInv'
<1>1. /\ ReceiverTypes /\ ServedOnce /\ PeersSo /\ AllWaiting /\ OneServed /\ Delivered
      /\ \A k \in DOMAIN backlog : backlog[k] \in Peer /\ backlog[k] # serving
      /\ phase[serving] # "idle"
  BY WhoIsWhere DEF ReceiverInv, Connections, ServedOnce
<1>2. ServedOnce'
  BY <1>1 DEF ServedOnce
<1>3. PeersSo'
  BY <1>1 DEF PeersSo
<1>4. AllWaiting'
  BY <1>1 DEF AllWaiting, Waiting
<1>5. OneServed' /\ Delivered'
  BY <1>1 DEF OneServed, Delivered
<1>6. QED
  BY <1>2, <1>3, <1>4, <1>5 DEF ReceiverInv, Connections

\* The next connection is served.
LEMMA AcceptKeeps ==
  ASSUME ReceiverInv, Accept, faulty' = faulty
  PROVE  ReceiverInv'
<1>1. /\ ReceiverTypes /\ ServedOnce /\ PeersSo /\ AllWaiting /\ Delivered /\ backlog \in Seq(Peer)
      /\ backlog # <<>> /\ stage = "accept" /\ serving = NoPeer
  BY DEF ReceiverInv, Connections, Accept, ReceiverTypes
<1>2. /\ serving' = Head(backlog) /\ backlog' = Tail(backlog) /\ stage' = "length"
      /\ UNCHANGED <<phase, dataUnits, wire, closed, oks, left, sized, delivered>>
  BY DEF Accept, peers
<1>3. /\ serving' = backlog[1] /\ 1 \in DOMAIN backlog /\ serving' \in Peer /\ backlog' \in Seq(Peer)
      /\ \A k \in DOMAIN backlog' : k + 1 \in DOMAIN backlog /\ backlog'[k] = backlog[k + 1] /\ k \in Nat \ {0}
  BY <1>1, <1>2, TailOf
<1>4. ReceiverTypes'
  BY <1>1, <1>2, <1>3 DEF ReceiverTypes, Places
<1>5. ServedOnce'
  <2>1. \A k, l \in DOMAIN backlog' : backlog'[k] = backlog'[l] => k = l
    BY <1>1, <1>3 DEF ServedOnce
  <2>2. \A k \in DOMAIN backlog' : backlog'[k] # serving' /\ phase'[backlog'[k]] # "idle"
    BY <1>1, <1>2, <1>3 DEF ServedOnce
  <2>3. \A k \in DOMAIN delivered : /\ delivered[k].peer # serving'
                                    /\ \A l \in DOMAIN backlog' : delivered[k].peer # backlog'[l]
    BY <1>1, <1>3 DEF ServedOnce
  <2>4. QED
    BY <1>1, <1>2, <1>3, <2>1, <2>2, <2>3 DEF ServedOnce
<1>6. PeersSo' /\ Delivered'
  BY <1>1, <1>2 DEF PeersSo, Delivered, Lost
<1>7. AllWaiting' /\ OneServed'
  BY <1>1, <1>2, <1>3 DEF AllWaiting, OneServed, Served, Waiting
<1>8. QED
  BY <1>4, <1>5, <1>6, <1>7 DEF ReceiverInv, Connections

\* Only a peer that failed ends before it has sent what it owes.
LEMMA LengthKeeps ==
  ASSUME ReceiverInv, ReceiveLength, faulty' = faulty
  PROVE  ReceiverInv'
<1>1. /\ ReceiverTypes /\ PeersSo /\ OneServed /\ stage = "length" /\ serving \in Peer
      /\ UNCHANGED <<phase, dataUnits, backlog, oks, serving, sized, delivered>>
      /\ TextUnits \in Nat \ {0} /\ wire[serving] \in Nat
  BY WhoIsWhere, ReceiverAssumption DEF ReceiverInv, Connections, ReceiveLength, peers, ReceiverTypes
<1>2. Waiting(serving)
  BY <1>1 DEF OneServed, Served
<1>3. CASE /\ wire[serving] > 0 /\ left' = TextUnits /\ stage' = "text" /\ closed' = closed
           /\ wire' = [wire EXCEPT ![serving] = wire[serving] - 1]
  <2>1. ReceiverTypes'
    BY <1>1, <1>3 DEF ReceiverTypes, Places
  <2>2. wire'[serving] = wire[serving] - 1 /\ \A r \in Peer : r # serving => wire'[r] = wire[r]
    BY <1>1, <1>3 DEF ReceiverTypes
  <2>3. Served(serving)'
    BY <1>1, <1>2, <1>3, <2>2 DEF Served, Waiting
  <2>4. QED
    BY <1>1, <1>3, <2>1, <2>2, <2>3, ServingKeeps DEF PeersSo, Lost
<1>4. CASE Ended /\ stage' = "undefined" /\ Reported /\ UNCHANGED <<wire, left>>
  <2>1. ReceiverTypes'
    BY <1>1, <1>4 DEF ReceiverTypes, Places, Reported
  <2>2. closed[serving] # "open" /\ wire[serving] = 0 /\ \A r \in Peer : r # serving => closed'[r] = closed[r]
    BY <1>1, <1>4 DEF ReceiverTypes, Reported, Ended
  <2>3. serving[1] \in faulty
    BY <1>2, <2>2 DEF Waiting
  <2>4. Served(serving)'
    BY <1>4 DEF Served
  <2>5. QED
    BY <1>1, <1>4, <2>1, <2>2, <2>3, <2>4, ServingKeeps DEF PeersSo
<1>5. QED
  BY <1>3, <1>4 DEF ReceiveLength, Available

\* The thread is lost in a loop of recv only with a connection that ended early.
LEMMA EndedKeeps ==
  ASSUME ReceiverInv, ReceiveEnded, faulty' = faulty
  PROVE  ReceiverInv'
<1>1. /\ ReceiverTypes /\ PeersSo /\ OneServed /\ stage \in {"text", "data"} /\ serving \in Peer
      /\ left > 0 /\ Ended /\ stage' \in {"exited", "spinning"}
      /\ UNCHANGED <<phase, dataUnits, backlog, wire, closed, oks, serving, left, sized, delivered>>
  BY WhoIsWhere DEF ReceiverInv, Connections, ReceiveEnded, peers
<1>2. ReceiverTypes'
  BY <1>1 DEF ReceiverTypes, Places
<1>3. left \in Nat /\ left # 0 /\ wire[serving] = 0 /\ closed[serving] # "open"
  BY <1>1 DEF ReceiverTypes, Ended
<1>4. serving[1] \in faulty
  BY <1>1, <1>3 DEF OneServed, Served
<1>5. Served(serving)'
  BY <1>1 DEF Served
<1>6. QED
  BY <1>1, <1>2, <1>3, <1>4, <1>5, ServingKeeps DEF PeersSo

\* An "ok" to the connection that is served.
LEMMA AcknowledgeTypes ==
  ASSUME ReceiverTypes, PeersSo, serving \in Peer, Acknowledge
  PROVE  /\ oks' \in [Peer -> Nat] /\ closed' \in [Peer -> {"open", "fin", "reset"}]
         /\ \A r \in Peer : r # serving => closed'[r] = closed[r] /\ oks'[r] = oks[r]
         /\ closed'[serving] # "open" => phase[serving] = "over"
         /\ closed[serving] = "open" => closed'[serving] = "open"
<1>1. oks' = [oks EXCEPT ![serving] = oks[serving] + 1] /\ oks[serving] \in Nat
  BY DEF Acknowledge, ReceiverTypes
<1>2. oks' \in [Peer -> Nat] /\ \A r \in Peer : r # serving => oks'[r] = oks[r]
  BY <1>1 DEF ReceiverTypes
<1>3. \/ closed' = closed
      \/ closed[serving] = "fin" /\ \E how \in {"fin", "reset"} : closed' = [closed EXCEPT ![serving] = how]
  BY DEF Acknowledge
<1>4. QED
  BY <1>2, <1>3 DEF ReceiverTypes, PeersSo

\* When the text is whole, the "ok" for it is sent.
LEMMA TextKeeps ==
  ASSUME ReceiverInv, ReceiveText, faulty' = faulty
  PROVE  ReceiverInv'
<1>1. /\ ReceiverTypes /\ PeersSo /\ OneServed /\ stage = "text" /\ serving \in Peer
      /\ UNCHANGED <<phase, dataUnits, backlog, serving, sized, delivered>>
      /\ wire[serving] \in Nat /\ left \in Nat
  BY WhoIsWhere DEF ReceiverInv, Connections, ReceiveText, peers, ReceiverTypes
<1>2. PICK n \in 1..RecvMax :
        /\ n <= wire[serving] /\ wire' = [wire EXCEPT ![serving] = wire[serving] - n] /\ left' = left - n
        /\ IF n = left THEN stage' = "size" /\ Acknowledge ELSE UNCHANGED <<stage, closed, oks>>
  BY DEF ReceiveText, Available
<1>3. n \in Nat /\ n >= 1
  BY <1>2, ReceiverAssumption
<1>4. /\ oks[serving] = 0 /\ wire[serving] <= left
      /\ serving[1] \notin faulty => /\ phase[serving] = "text" /\ closed[serving] = "open"
                                     /\ wire[serving] = left
  BY <1>1 DEF OneServed, Served
<1>5. /\ wire' \in [Peer -> Nat] /\ wire'[serving] = wire[serving] - n /\ left' \in Nat
      /\ \A r \in Peer : r # serving => wire'[r] = wire[r]
  BY <1>1, <1>2, <1>3, <1>4 DEF ReceiverTypes
<1>6. CASE n = left
  <2>1. stage' = "size" /\ Acknowledge
    BY <1>2, <1>6
  <2>2. ReceiverTypes'
    BY <1>1, <1>5, <2>1, AcknowledgeTypes DEF ReceiverTypes, Places
  <2>3. Served(serving)'
    BY <1>1, <1>2, <1>4, <1>5, <1>6, <2>1, AcknowledgeTypes DEF Served
  <2>4. QED
    BY <1>1, <1>5, <2>1, <2>2, <2>3, AcknowledgeTypes, ServingKeeps DEF Lost
<1>7. CASE n # left
  <2>1. UNCHANGED <<stage, closed, oks>>
    BY <1>2, <1>7
  <2>2. ReceiverTypes'
    BY <1>1, <1>5, <2>1 DEF ReceiverTypes
  <2>3. Served(serving)'
    BY <1>1, <1>2, <1>3, <1>4, <1>5, <1>7, <2>1 DEF Served
  <2>4. QED
    BY <1>1, <1>5, <2>1, <2>2, <2>3, ServingKeeps DEF Lost, PeersSo
<1>8. QED
  BY <1>6, <1>7

\* A size that never came is one of a CSD that failed.
LEMMA SizeKeeps ==
  ASSUME ReceiverInv, ReceiveSize, faulty' = faulty
  PROVE  ReceiverInv'
<1>1. /\ ReceiverTypes /\ PeersSo /\ OneServed /\ stage = "size" /\ serving \in Peer /\ stage' = "data"
      /\ UNCHANGED <<phase, dataUnits, backlog, oks, serving, delivered>>
      /\ wire[serving] \in Nat /\ dataUnits[serving] \in Nat
      /\ phase[serving] \in {"text", "data", "over"}
  BY WhoIsWhere DEF ReceiverInv, Connections, ReceiveSize, peers, ReceiverTypes, ServedOnce
<1>2. serving[1] \notin faulty =>
        /\ closed[serving] # "reset"
        /\ wire[serving] = IF phase[serving] = "text" THEN 0 ELSE 1 + dataUnits[serving]
  BY <1>1 DEF OneServed, Served
<1>3. CASE /\ wire[serving] > 0 /\ left' = dataUnits[serving] /\ sized' = TRUE /\ closed' = closed
           /\ wire' = [wire EXCEPT ![serving] = wire[serving] - 1]
  <2>1. ReceiverTypes'
    BY <1>1, <1>3 DEF ReceiverTypes, Places
  <2>2. wire'[serving] = wire[serving] - 1 /\ \A r \in Peer : r # serving => wire'[r] = wire[r]
    BY <1>1, <1>3 DEF ReceiverTypes
  <2>3. Served(serving)'
    BY <1>1, <1>2, <1>3, <2>2 DEF Served
  <2>4. QED
    BY <1>1, <1>3, <2>1, <2>2, <2>3, ServingKeeps DEF PeersSo, Lost
<1>4. CASE Ended /\ left' = 0 /\ sized' = FALSE /\ Reported /\ wire' = wire
  <2>1. ReceiverTypes'
    BY <1>1, <1>4 DEF ReceiverTypes, Places, Reported
  <2>2. /\ closed[serving] # "open" /\ closed'[serving] = "fin" /\ wire[serving] = 0
        /\ \A r \in Peer : r # serving => closed'[r] = closed[r]
    BY <1>1, <1>4 DEF ReceiverTypes, Reported, Ended
  <2>3. phase[serving] = "over"
    BY <1>1, <2>2 DEF PeersSo
  <2>4. serving[1] \in faulty
    BY <1>1, <1>2, <2>2, <2>3
  <2>5. Served(serving)'
    BY <1>1, <1>4, <2>2, <2>4 DEF Served, Ended
  <2>6. QED
    BY <1>1, <1>4, <2>1, <2>2, <2>3, <2>5, ServingKeeps DEF Lost
<1>5. QED
  BY <1>3, <1>4 DEF ReceiveSize, Available, Announced

\* A result is pushed: whole, or from a CSD that failed.
LEMMA DeliverKeeps ==
  ASSUME ReceiverInv, Deliver, serving \in Peer, stage = "data", faulty' = faulty,
         UNCHANGED <<peers, backlog, sized>>, wire' \in [Peer -> Nat], left' \in Nat,
         \A r \in Peer : r # serving => wire'[r] = wire[r],
         sized => left' = 0
  PROVE  ReceiverInv'
<1> DEFINE r == [peer |-> serving, missing |-> IF sized THEN left' ELSE dataUnits[serving]]
           n == Len(delivered) + 1
<1>1. /\ ReceiverTypes /\ ServedOnce /\ PeersSo /\ AllWaiting /\ OneServed /\ Delivered
      /\ UNCHANGED <<phase, dataUnits, backlog, sized>> /\ dataUnits[serving] \in Nat
      /\ serving' = NoPeer /\ stage' = "accept" /\ Acknowledge
      /\ phase[serving] # "idle"
      /\ \A k \in DOMAIN backlog : backlog[k] \in Peer /\ backlog[k] # serving
  BY WhoIsWhere DEF ReceiverInv, Connections, Deliver, peers, ReceiverTypes, ServedOnce
<1>2. /\ r \in Result /\ r.peer = serving /\ r.missing = IF sized THEN 0 ELSE dataUnits[serving]
      /\ r.missing = 0 \/ r.peer[1] \in faulty
  <2>1. r.peer = serving /\ r.missing = IF sized THEN 0 ELSE dataUnits[serving]
    OBVIOUS
  <2>2. r \in Result
    BY <1>1 DEF Result
  <2>3. sized \/ serving[1] \in faulty
    BY <1>1 DEF OneServed, Served
  <2>4. QED
    BY <2>1, <2>2, <2>3
<1>3. delivered' = Append(delivered, r) /\ delivered \in Seq(Result)
  BY <1>1 DEF Deliver, ReceiverTypes
<1> HIDE DEF r
<1>4. /\ delivered' \in Seq(Result) /\ DOMAIN delivered' = DOMAIN delivered \cup {n} /\ n \notin DOMAIN delivered
      /\ delivered'[n] = r /\ \A k \in DOMAIN delivered : delivered'[k] = delivered[k]
  BY <1>2, <1>3, AppendOf
<1> HIDE DEF n
<1>5. ReceiverTypes'
  BY <1>1, <1>4, AcknowledgeTypes DEF ReceiverTypes, Places
<1>6. \A k \in DOMAIN delivered : delivered[k].peer # serving
  BY <1>1 DEF ServedOnce
<1>7. ServedOnce'
  <2>1. \A k, l \in DOMAIN delivered' : delivered'[k].peer = delivered'[l].peer => k = l
    BY <1>1, <1>2, <1>4, <1>6 DEF ServedOnce
  <2>2. \A k \in DOMAIN delivered' : /\ phase'[delivered'[k].peer] # "idle"
                                     /\ delivered'[k].peer # serving'
                                     /\ \A l \in DOMAIN backlog' : delivered'[k].peer # backlog'[l]
    <3>1. \A k \in DOMAIN delivered : delivered[k].peer \in Peer
      BY <1>1, WhoIsWhere
    <3>2. QED
      BY <1>1, <1>2, <1>4, <3>1, ReceiverAssumption DEF ServedOnce
  <2>3. \A k \in DOMAIN backlog' : backlog'[k] # serving' /\ phase'[backlog'[k]] # "idle"
    BY <1>1, ReceiverAssumption DEF ServedOnce
  <2>4. QED
    BY <1>1, <2>1, <2>2, <2>3, ReceiverAssumption DEF ServedOnce
<1>8. PeersSo'
  BY <1>1, AcknowledgeTypes DEF PeersSo
<1>9. AllWaiting'
  BY <1>1, AcknowledgeTypes DEF AllWaiting, Waiting
<1>10. OneServed' /\ Delivered'
  BY <1>1, <1>2, <1>4, ReceiverAssumption DEF OneServed, Delivered, Lost
<1>11. QED
  BY <1>5, <1>7, <1>8, <1>9, <1>10 DEF ReceiverInv, Connections

\* The data is received part by part.
LEMMA DataKeeps ==
  ASSUME ReceiverInv, ReceiveData, faulty' = faulty
  PROVE  ReceiverInv'
<1>1. /\ ReceiverTypes /\ PeersSo /\ OneServed /\ stage = "data" /\ serving \in Peer /\ left > 0
      /\ UNCHANGED <<peers, backlog, sized>> /\ UNCHANGED <<phase, dataUnits>>
      /\ wire[serving] \in Nat /\ left \in Nat
  BY WhoIsWhere DEF ReceiverInv, Connections, ReceiveData, peers, ReceiverTypes
<1>2. PICK n \in 1..left :
        /\ n <= wire[serving] /\ wire' = [wire EXCEPT ![serving] = wire[serving] - n] /\ left' = left - n
        /\ IF n = left THEN Deliver ELSE UNCHANGED <<closed, oks, delivered, serving, stage>>
  BY DEF ReceiveData, Available, Enough
<1>3. n \in Nat /\ n >= 1 /\ n <= left
  BY <1>1, <1>2
<1>4. /\ wire' \in [Peer -> Nat] /\ wire'[serving] = wire[serving] - n /\ left' \in Nat
      /\ \A r \in Peer : r # serving => wire'[r] = wire[r]
  BY <1>1, <1>2, <1>3 DEF ReceiverTypes
<1>5. CASE n = left
  BY <1>1, <1>2, <1>4, <1>5, DeliverKeeps
<1>6. CASE n # left
  <2>1. UNCHANGED <<closed, oks, delivered, serving, stage>>
    BY <1>2, <1>6
  <2>2. ReceiverTypes'
    BY <1>1, <1>4, <2>1 DEF ReceiverTypes
  <2>3. Served(serving)'
    BY <1>1, <1>2, <1>3, <1>4, <1>6, <2>1 DEF OneServed, Served
  <2>4. QED
    BY <1>1, <1>4, <2>1, <2>2, <2>3, ServingKeeps DEF Lost, PeersSo
<1>7. QED
  BY <1>5, <1>6

\* A result without data is pushed when its connection ends.
LEMMA NothingKeeps ==
  ASSUME ReceiverInv, ReceiveNothing, faulty' = faulty
  PROVE  ReceiverInv'
<1>1. /\ ReceiverTypes /\ PeersSo /\ OneServed /\ stage = "data" /\ serving \in Peer /\ left = 0 /\ Ended
      /\ UNCHANGED <<peers, backlog, wire, left, sized>> /\ UNCHANGED <<phase, dataUnits>>
      /\ wire \in [Peer -> Nat]
  BY WhoIsWhere DEF ReceiverInv, Connections, ReceiveNothing, peers, ReceiverTypes
<1>2. CASE closed[serving] = "reset" /\ stage' = "exited" /\ UNCHANGED <<closed, oks, delivered, serving>>
  <2>1. ReceiverTypes'
    BY <1>1, <1>2 DEF ReceiverTypes, Places
  <2>2. serving[1] \in faulty
    BY <1>1, <1>2 DEF OneServed, Served
  <2>3. Served(serving)'
    BY <1>2 DEF Served
  <2>4. QED
    BY <1>1, <1>2, <2>1, <2>2, <2>3, ServingKeeps DEF PeersSo
<1>3. CASE Deliver
  BY <1>1, <1>3, DeliverKeeps DEF ReceiverTypes
<1>4. QED
  BY <1>2, <1>3 DEF ReceiveNothing

\* Every step of the thread.
LEMMA ThreadKeeps ==
  ASSUME ReceiverInv, ReceiverThread, faulty' = faulty
  PROVE  ReceiverInv'
BY AcceptKeeps, LengthKeeps, TextKeeps, SizeKeeps, DataKeeps, NothingKeeps, EndedKeeps DEF ReceiverThread
------------------------------------------------------------------------------
(* The receiver beside the other programs.                                    *)

\* The steps of the three programs and of the CSDs, as the receiver sees them.
LEMMA ReceiverStep == ReceiverInv /\ EngineTypes /\ [Next]_vars => ReceiverInv'
<1> SUFFICES ASSUME ReceiverInv, EngineTypes, [Next]_vars PROVE ReceiverInv'
  OBVIOUS
<1>1. faulty \subseteq Query /\ \A p \in Peer : p[1] \in Query
  BY EngineAssumption DEF ReceiverInv, ReceiverTypes
<1>2. CASE UNCHANGED receiverVars /\ faulty' \subseteq Query /\ faulty \subseteq faulty'
  BY <1>2, ReceiverRests
<1>3. CASE Receive
  BY <1>3, ThreadKeeps DEF Receive, Works
<1>4. ASSUME NEW p \in Peer, CsdAnswers(p) PROVE ReceiverInv'
  <2>1. DataOf(p) \in Nat
    BY DEF DataOf
  <2>2. QED
    BY <1>4, <2>1, ConnectKeeps DEF CsdAnswers, Works
<1>5. ASSUME NEW p \in Peer, CsdContinues(p) \/ CsdFinishesEarly(p) PROVE ReceiverInv'
  BY <1>5, SendDataKeeps, FinishKeeps DEF CsdContinues, CsdFinishesEarly, Works
<1>6. ASSUME NEW p \in Peer, CsdBreaksOff(p) PROVE ReceiverInv'
  BY <1>1, <1>6, BreakOffKeeps DEF CsdBreaksOff, Fails
<1>7. ASSUME NEW q \in Query, Start(q) \/ Engine(q) \/ StatusHangs(q) \/ StreamBreaks(q) \/ ResultFails(q)
      PROVE  ReceiverInv'
  BY <1>1, <1>2, <1>7 DEF Start, Engine, StatusHangs, StreamBreaks, ResultFails, ReadSnippet, AskForResult, Answer,
     MergeResult, RunSnippetWork, Works, Fails
<1>8. CASE Schedule
  <2>1. queue # <<>> /\ UNCHANGED receiverVars /\ (Works \/ Fails(Head(queue)))
    BY <1>8 DEF Schedule
  <2>2. Head(queue) \in Query
    BY <2>1, TailOf DEF EngineTypes
  <2>3. QED
    BY <1>1, <1>2, <2>1, <2>2 DEF Works, Fails
<1>9. CASE UNCHANGED vars
  BY <1>1, <1>2, <1>9 DEF vars
<1>10. QED
  BY <1>3, <1>4, <1>5, <1>6, <1>7, <1>8, <1>9 DEF Next, Csds

\* At first nobody is connected.
LEMMA ReceiverStart == Init => ReceiverInv
<1> SUFFICES ASSUME Init PROVE ReceiverInv
  OBVIOUS
<1>1. ReceiverTypes
  <2>1. backlog \in Seq(Peer) /\ delivered \in Seq(Result)
    BY DEF Init, ReceiverInit
  <2>2. /\ phase \in [Peer -> {"idle", "text", "data", "over"}]
        /\ closed \in [Peer -> {"open", "fin", "reset"}]
    BY DEF Init, ReceiverInit
  <2>3. dataUnits \in [Peer -> Nat] /\ wire \in [Peer -> Nat] /\ oks \in [Peer -> Nat]
    BY DEF Init, ReceiverInit
  <2>4. stage = "accept" /\ stage \in Places /\ serving = NoPeer /\ left \in Nat /\ sized \in BOOLEAN /\ faulty = {}
    BY DEF Init, ReceiverInit, Places
  <2>5. QED
    BY <2>1, <2>2, <2>3, <2>4 DEF ReceiverTypes
<1>2. ServedOnce
  BY ReceiverAssumption DEF Init, ReceiverInit, ServedOnce
<1>3. Connections
  BY ReceiverAssumption DEF Init, ReceiverInit, Connections, PeersSo, AllWaiting, OneServed, Delivered, Lost
<1>4. QED
  BY <1>1, <1>2, <1>3 DEF ReceiverInv

\* At first nothing is read, sent, merged or answered.
LEMMA EngineStart == Init => EngineTypes
<1> SUFFICES ASSUME Init PROVE EngineTypes
  OBVIOUS
<1>1. queue \in Seq(Query) /\ NoAnswer \in [kind : {"none", "failed", "rows"}, results : Seq(Result)]
  BY DEF Init, NoAnswer
<1>2. /\ pc \in [Query -> {"idle", "hung", "reading", "asking", "answered"}]
      /\ position \in [Query -> Nat]
  BY DEF Init
<1>3. /\ waiting \in [Query -> Seq(Result)]
      /\ merged \in [Query -> Seq(Result)]
  BY DEF Init
<1>4. answer \in [Query -> [kind : {"none", "failed", "rows"}, results : Seq(Result)]]
  BY <1>1 DEF Init
<1>5. QED
  BY <1>1, <1>2, <1>3, <1>4 DEF EngineTypes

\* What a step of the receiving thread delivers.
LEMMA ResultComes ==
  ASSUME ReceiverInv, ReceiverThread, ReceiverTypes'
  PROVE  \/ delivered' = delivered
         \/ \E r \in Result : /\ delivered' = Append(delivered, r)
                              /\ \A k \in DOMAIN delivered : delivered[k].peer # r.peer
<1> DEFINE r == [peer |-> serving, missing |-> IF sized THEN left' ELSE dataUnits[serving]]
<1>1. CASE Deliver /\ stage = "data"
  <2>1. serving \in Peer /\ left' \in Nat /\ dataUnits[serving] \in Nat
    BY <1>1, WhoIsWhere DEF ReceiverInv, ReceiverTypes
  <2>2. r \in Result /\ r.peer = serving
    BY <2>1 DEF Result
  <2>3. delivered' = Append(delivered, r)
    BY <1>1 DEF Deliver
  <2>4. \A k \in DOMAIN delivered : delivered[k].peer # serving
    BY DEF ReceiverInv, ServedOnce
  <2>5. QED
    BY <2>2, <2>3, <2>4
<1>2. CASE delivered' = delivered
  BY <1>2
<1>3. QED
  BY <1>1, <1>2 DEF ReceiverThread, Accept, ReceiveLength, ReceiveText, ReceiveSize, ReceiveData, ReceiveNothing,
     ReceiveEnded

\* It waits for the work of its query's scan.
LEMMA ResultWaits ==
  ASSUME ReceiverInv, EngineTypes, Receive, ReceiverInv'
  PROVE  \/ UNCHANGED <<delivered, waiting>>
         \/ \E r \in Result :
              /\ delivered' = Append(delivered, r) /\ r.peer[1] \in Query
              /\ waiting' = [waiting EXCEPT ![r.peer[1]] = Append(waiting[r.peer[1]], r)]
              /\ \A k \in DOMAIN delivered : delivered[k].peer # r.peer
<1>1. CASE delivered' = delivered
  BY <1>1 DEF Receive, PushResult
<1>2. CASE \E r \in Result : /\ delivered' = Append(delivered, r)
                             /\ \A k \in DOMAIN delivered : delivered[k].peer # r.peer
  <2>1. PICK r \in Result : /\ delivered' = Append(delivered, r)
                            /\ \A k \in DOMAIN delivered : delivered[k].peer # r.peer
    BY <1>2
  <2>2. delivered \in Seq(Result) /\ r.peer[1] \in Query
    BY EngineAssumption DEF ReceiverInv, ReceiverTypes, Result
  <2>3. delivered'[Len(delivered')] = r /\ delivered' # delivered
    BY <2>1, <2>2, AppendOf
  <2>4. waiting' = [waiting EXCEPT ![r.peer[1]] = Append(@, r)]
    BY <2>3 DEF Receive, PushResult
  <2>5. QED
    BY <2>1, <2>2, <2>4 DEF EngineTypes
<1>3. QED
  BY <1>1, <1>2, ResultComes DEF Receive, ReceiverInv

\* The types of the three programs' variables.
LEMMA TypesStep == ReceiverInv /\ ReceiverInv' /\ EngineTypes /\ [Next]_vars => EngineTypes'
<1> SUFFICES ASSUME ReceiverInv, ReceiverInv', EngineTypes, [Next]_vars PROVE EngineTypes'
  OBVIOUS
<1>1. CASE UNCHANGED <<pc, position, queue, waiting, merged, answer>>
  BY <1>1 DEF EngineTypes
<1>2. CASE Receive
  <2>1. UNCHANGED <<pc, position, queue, merged, answer>>
    BY <1>2 DEF Receive, interface
  <2>2. waiting' \in [Query -> Seq(Result)]
    <3>1. CASE \E r \in Result : /\ r.peer[1] \in Query
                                 /\ waiting' = [waiting EXCEPT ![r.peer[1]] = Append(waiting[r.peer[1]], r)]
      <4>1. PICK r \in Result : /\ r.peer[1] \in Query
                                /\ waiting' = [waiting EXCEPT ![r.peer[1]] = Append(waiting[r.peer[1]], r)]
        BY <3>1
      <4>2. waiting[r.peer[1]] \in Seq(Result)
        BY <4>1 DEF EngineTypes
      <4>3. Append(waiting[r.peer[1]], r) \in Seq(Result)
        BY <4>1, <4>2, AppendOf
      <4>4. QED
        BY <4>1, <4>3 DEF EngineTypes
    <3>2. CASE waiting' = waiting
      BY <3>2 DEF EngineTypes
    <3>3. QED
      BY <1>2, <3>1, <3>2, ResultWaits
  <2>3. QED
    BY <2>1, <2>2 DEF EngineTypes
<1>3. ASSUME NEW q \in Query, MergeResult(q) PROVE EngineTypes'
  <2>1. waiting[q] \in Seq(Result) /\ merged[q] \in Seq(Result) /\ waiting[q] # <<>>
    BY <1>3 DEF EngineTypes, MergeResult
  <2>2. Head(waiting[q]) \in Result /\ Tail(waiting[q]) \in Seq(Result)
    BY <2>1, TailOf
  <2>3. Append(merged[q], Head(waiting[q])) \in Seq(Result)
    BY <2>1, <2>2, AppendOf
  <2>4. /\ merged' = [merged EXCEPT ![q] = Append(merged[q], Head(waiting[q]))]
        /\ waiting' = [waiting EXCEPT ![q] = Tail(waiting[q])]
        /\ UNCHANGED <<pc, position, queue, answer>>
    BY <1>3 DEF MergeResult, EngineTypes, interface
  <2>5. QED
    BY <2>2, <2>3, <2>4 DEF EngineTypes
<1>4. CASE Schedule
  <2>1. queue # <<>> /\ queue' = Tail(queue) /\ UNCHANGED <<pc, position, waiting, merged, answer>>
    BY <1>4 DEF Schedule, interface
  <2>2. queue' \in Seq(Query)
    BY <2>1, TailOf DEF EngineTypes
  <2>3. QED
    BY <2>1, <2>2 DEF EngineTypes
<1>5. ASSUME NEW q \in Query, ReadSnippet(q) PROVE EngineTypes'
  <2>1. /\ position' = [position EXCEPT ![q] = position[q] + 1]
        /\ queue' = Append(queue, q) \/ queue' = queue
        /\ UNCHANGED <<pc, waiting, merged, answer>>
    BY <1>5 DEF ReadSnippet
  <2>2. queue \in Seq(Query) /\ Append(queue, q) \in Seq(Query)
    BY AppendOf DEF EngineTypes
  <2>3. position' \in [Query -> Nat]
    BY <2>1 DEF EngineTypes
  <2>4. QED
    BY <2>1, <2>2, <2>3 DEF EngineTypes
<1>6. ASSUME NEW q \in Query, Answer(q) \/ ResultFails(q) PROVE EngineTypes'
  <2>1. PICK kind \in {"failed", "rows"}, results \in {<<>>, merged[q]} :
          answer' = [answer EXCEPT ![q] = [kind |-> kind, results |-> results]]
    BY <1>6 DEF Answer, ResultFails
  <2>2. [kind |-> kind, results |-> results] \in [kind : {"none", "failed", "rows"}, results : Seq(Result)]
    <3>1. <<>> \in Seq(Result) /\ merged[q] \in Seq(Result)
      BY DEF EngineTypes
    <3>2. QED
      BY <3>1
  <2>3. pc' = [pc EXCEPT ![q] = "answered"] /\ UNCHANGED <<position, queue, waiting, merged>>
    BY <1>6 DEF Answer, ResultFails, modules
  <2>4. answer' \in [Query -> [kind : {"none", "failed", "rows"}, results : Seq(Result)]]
    BY <2>1, <2>2 DEF EngineTypes
  <2>5. pc' \in [Query -> {"idle", "hung", "reading", "asking", "answered"}]
    BY <2>3 DEF EngineTypes
  <2>6. QED
    BY <2>3, <2>4, <2>5 DEF EngineTypes
<1>7. ASSUME NEW q \in Query, Start(q) \/ StatusHangs(q) \/ AskForResult(q) \/ StreamBreaks(q)
      PROVE  EngineTypes'
  <2>1. PICK place \in {"reading", "hung", "asking"} : pc' = [pc EXCEPT ![q] = place]
    BY <1>7 DEF Start, StatusHangs, AskForResult, StreamBreaks
  <2>2. UNCHANGED <<position, queue, waiting, merged, answer>>
    BY <1>7 DEF Start, StatusHangs, AskForResult, StreamBreaks, modules
  <2>3. pc' \in [Query -> {"idle", "hung", "reading", "asking", "answered"}]
    BY <2>1 DEF EngineTypes
  <2>4. QED
    BY <2>2, <2>3 DEF EngineTypes
<1>8. ASSUME NEW q \in Query, NEW k, RunSnippetWork(q, k) PROVE EngineTypes'
  BY <1>1, <1>8 DEF RunSnippetWork, interface
<1>9. ASSUME NEW p \in Peer, CsdAnswers(p) \/ CsdContinues(p) \/ CsdFinishesEarly(p) \/ CsdBreaksOff(p)
      PROVE  EngineTypes'
  BY <1>1, <1>9 DEF CsdAnswers, CsdContinues, CsdFinishesEarly, CsdBreaksOff, interface, modules
<1>10. CASE UNCHANGED vars
  BY <1>1, <1>10 DEF vars, interface, modules
<1>11. QED
  BY <1>2, <1>3, <1>4, <1>5, <1>6, <1>7, <1>8, <1>9, <1>10 DEF Next, Csds, Engine

\* Of all that the three programs and the CSDs do, only a CSD that breaks off while it is
\* served makes the receiving thread end, spin or read an undefined length, and only a
\* result without data makes it wait for the end of a connection, for any number of queries
\* and CSDs, any sizes and any order (buffer_manager.cc:50-98).
THEOREM ReceiverGoesOn == Spec => []ReceiverStopsOnlyFor
<1>1. ReceiverInv => ReceiverStopsOnlyFor
  <2> SUFFICES ASSUME ReceiverInv PROVE ReceiverStopsOnlyFor
    OBVIOUS
  <2>1. Lost => serving[1] \in faulty
    BY DEF ReceiverInv, Connections, Delivered
  <2>2. ASSUME WaitsForEnd PROVE dataUnits[serving] = 0
    BY <2>2, WhoIsWhere DEF ReceiverInv, Connections, OneServed, Served, WaitsForEnd
  <2>3. QED
    BY <2>1, <2>2 DEF ReceiverStopsOnlyFor
<1>2. QED
  BY <1>1, ReceiverStart, EngineStart, ReceiverStep, TypesStep, PTL DEF Spec
------------------------------------------------------------------------------
(* Counting.                                                                  *)

\* The sets of a family, taken together.
Together(K, A) == UNION {A[k] : k \in K}

FiniteFamily(K, A) == IsFiniteSet(K) /\ \A k \in K : IsFiniteSet(A[k])

\* Two finite families of disjoint sets that are, member by member, of the same size.
Matched(K, A, B) ==
  /\ FiniteFamily(K, A) /\ FiniteFamily(K, B)
  /\ \A k \in K : Cardinality(A[k]) = Cardinality(B[k])
  /\ \A k, l \in K : k # l => A[k] \cap A[l] = {} /\ B[k] \cap B[l] = {}

\* Taken together it is finite.
LEMMA FamilyIsFinite ==
  ASSUME NEW K, NEW A, FiniteFamily(K, A)
  PROVE  IsFiniteSet(Together(K, A))
<1> DEFINE S == {A[k] : k \in K}
           f == [k \in K |-> A[k]]
<1>1. f \in Surjection(K, S) /\ IsFiniteSet(K)
  <2>1. f \in [K -> S]
    OBVIOUS
  <2>2. \A s \in S : \E k \in K : f[k] = s
    OBVIOUS
  <2>3. QED
    BY <2>1, <2>2 DEF Surjection, FiniteFamily
<1>2. IsFiniteSet(S)
  BY <1>1, FS_Surjection
<1>3. \A s \in S : IsFiniteSet(s)
  BY DEF FiniteFamily
<1>4. QED
  BY <1>2, <1>3, FS_UNION DEF Together

\* They are of the same size when taken together.
LEMMA SameCount ==
  ASSUME NEW K, NEW A, NEW B, Matched(K, A, B)
  PROVE  Cardinality(Together(K, A)) = Cardinality(Together(K, B))
<1> DEFINE S == Together(K, A)
           T == Together(K, B)
           f == [k \in K |-> CHOOSE b : b \in Bijection(A[k], B[k])]
           owner == [x \in S |-> CHOOSE k \in K : x \in A[k]]
           g == [x \in S |-> f[owner[x]][x]]
<1>1. /\ IsFiniteSet(S) /\ \A k \in K : IsFiniteSet(A[k]) /\ IsFiniteSet(B[k])
      /\ S = UNION {A[k] : k \in K} /\ T = UNION {B[k] : k \in K}
  BY FamilyIsFinite DEF Matched, FiniteFamily, Together
<1> HIDE DEF S, T
<1>2. \A k \in K : f[k] \in Bijection(A[k], B[k])
  <2> SUFFICES ASSUME NEW k \in K PROVE f[k] \in Bijection(A[k], B[k])
    OBVIOUS
  <2>1. ExistsBijection(A[k], B[k])
    BY <1>1, FS_SameCardinalityBij DEF Matched
  <2>2. \E h : h \in Bijection(A[k], B[k])
    BY <2>1 DEF ExistsBijection
  <2>3. QED
    BY <2>2
<1>3. \A x \in S : owner[x] \in K /\ x \in A[owner[x]]
  BY <1>1
<1>4. \A k \in K : \A x \in A[k] : x \in S /\ owner[x] = k
  BY <1>1, <1>3 DEF Matched
<1>5. \A x \in S : g[x] = f[owner[x]][x]
  OBVIOUS
<1> HIDE DEF f, owner
<1>6. \A k \in K : /\ \A x \in A[k] : f[k][x] \in B[k]
                   /\ \A x, y \in A[k] : f[k][x] = f[k][y] => x = y
                   /\ \A y \in B[k] : \E x \in A[k] : f[k][x] = y
  BY <1>2, Fun_BijectionProperties DEF Bijection, Injection, Surjection, IsInjective
<1>7. \A x \in S : g[x] \in B[owner[x]] /\ g[x] \in T
  BY <1>1, <1>3, <1>5, <1>6
<1>8. \A x, y \in S : g[x] = g[y] => x = y
  <2> SUFFICES ASSUME NEW x \in S, NEW y \in S, g[x] = g[y] PROVE x = y
    OBVIOUS
  <2>1. owner[x] \in K /\ owner[y] \in K /\ g[x] \in B[owner[x]] /\ g[x] \in B[owner[y]]
    BY <1>3, <1>7
  <2>2. owner[x] = owner[y]
    BY <2>1 DEF Matched
  <2>3. QED
    BY <1>3, <1>5, <1>6, <2>2
<1>9. \A y \in T : \E x \in S : g[x] = y
  BY <1>1, <1>4, <1>5, <1>6
<1>10. g \in [S -> T]
  BY <1>7
<1> HIDE DEF g
<1>11. g \in Bijection(S, T)
  BY <1>8, <1>9, <1>10, Fun_IsBij
<1>12. ExistsBijection(S, T)
  BY <1>11 DEF ExistsBijection
<1>13. Cardinality(T) = Cardinality(S)
  BY <1>1, <1>12, FS_Bijection
<1>14. QED
  BY <1>13 DEF S, T

\* The blocks of an SST are nobody else's.
LEMMA BlocksAreOfOne ==
  ASSUME CountsAgree, NEW q \in Query, NEW i \in Ssts(q)
  PROVE  /\ \A x \in WholeBlocks(SstInfo[q], i) : x[1][1] = i
         /\ \A c : \A x \in BlocksOf(SstInfo[q], i, c) : x[1][1] = i
         /\ WholeBlocks(SstInfo[q], i) # {}
         /\ IsFiniteSet(WholeBlocks(SstInfo[q], i))
         /\ Cardinality(WholeBlocks(SstInfo[q], i)) = SstInfo[q][i].blocks
<1> DEFINE n == SstInfo[q][i].blocks
<1>1. n \in Nat /\ n >= 1 /\ WholeBlocks(SstInfo[q], i) = {<<i, 0>>} \X (1..n)
  BY DEF CountsAgree, WholeBlocks
<1> HIDE DEF n
<1>2. \A k, m : \A x \in {<<i, k>>} \X (1..m) : x[1][1] = i
  OBVIOUS
<1>3. \A c : \A x \in BlocksOf(SstInfo[q], i, c) : x[1][1] = i
  BY <1>2 DEF BlocksOf, WholeBlocks, RunBlocks
<1>4. /\ IsFiniteSet({<<i, 0>>}) /\ Cardinality({<<i, 0>>}) = 1
      /\ IsFiniteSet(1..n) /\ Cardinality(1..n) = n
  <2>1. IsFiniteSet({<<i, 0>>}) /\ Cardinality({<<i, 0>>}) = 1
    BY FS_Singleton, Zenon
  <2>2. IsFiniteSet(1..n) /\ Cardinality(1..n) = n
    BY <1>1, FS_Interval
  <2>3. QED
    BY <2>1, <2>2
<1>5. /\ IsFiniteSet({<<i, 0>>} \X (1..n))
      /\ Cardinality({<<i, 0>>} \X (1..n)) = Cardinality({<<i, 0>>}) * Cardinality(1..n)
  BY <1>4, FS_Product
<1>6. <<<<i, 0>>, 1>> \in {<<i, 0>>} \X (1..n)
  BY <1>1
<1>7. Cardinality({<<i, 0>>} \X (1..n)) = n
  BY <1>1, <1>4, <1>5
<1>8. QED
  BY <1>1, <1>2, <1>3, <1>5, <1>6, <1>7 DEF n

\* A CSD that holds some SSTs is asked for as many blocks as those SSTs have in the total.
LEMMA AskedForWhatCounts ==
  ASSUME CountsAgree, NEW q \in Query, NEW c, NEW ssts \in SUBSET Ssts(q),
         \A i \in ssts : c \in Holders(q, i)
  PROVE  /\ IsFiniteSet(UNION {WholeBlocks(SstInfo[q], i) : i \in ssts})
         /\ CsdBlockCount(SstInfo[q], c, ssts)
              = Cardinality(UNION {WholeBlocks(SstInfo[q], i) : i \in ssts})
<1> DEFINE A == [i \in ssts |-> BlocksOf(SstInfo[q], i, c)]
           B == [i \in ssts |-> WholeBlocks(SstInfo[q], i)]
<1>1. IsFiniteSet(ssts)
  BY EngineAssumption, FS_Subset
<1>2. \A i \in ssts : A[i] = BlocksOf(SstInfo[q], i, c) /\ B[i] = WholeBlocks(SstInfo[q], i)
  OBVIOUS
<1>3. /\ Together(ssts, A) = UNION {BlocksOf(SstInfo[q], i, c) : i \in ssts}
      /\ Together(ssts, B) = UNION {WholeBlocks(SstInfo[q], i) : i \in ssts}
  BY DEF Together
<1> HIDE DEF A, B
<1>4. \A i \in ssts : IsFiniteSet(A[i]) /\ IsFiniteSet(B[i]) /\ Cardinality(A[i]) = Cardinality(B[i])
  BY <1>2, BlocksAreOfOne DEF CountsAgree
<1>5. \A i, j \in ssts : i # j => A[i] \cap A[j] = {} /\ B[i] \cap B[j] = {}
  BY <1>2, BlocksAreOfOne
<1>6. Matched(ssts, A, B) /\ FiniteFamily(ssts, B)
  BY <1>1, <1>4, <1>5 DEF Matched, FiniteFamily
<1>7. /\ IsFiniteSet(Together(ssts, B))
      /\ Cardinality(Together(ssts, A)) = Cardinality(Together(ssts, B))
  BY <1>6, FamilyIsFinite, SameCount
<1>8. CsdBlockCount(SstInfo[q], c, ssts) = Cardinality(Together(ssts, A))
  BY <1>3 DEF CsdBlockCount
<1>9. QED
  BY <1>3, <1>7, <1>8

\* The blocks of all SSTs are finitely many.
LEMMA AskedForAll ==
  ASSUME CountsAgree, NEW q \in Query
  PROVE  IsFiniteSet(UNION {WholeBlocks(SstInfo[q], i) : i \in Ssts(q)})
<1> DEFINE B == [i \in Ssts(q) |-> WholeBlocks(SstInfo[q], i)]
<1>1. \A i \in Ssts(q) : IsFiniteSet(B[i])
  BY BlocksAreOfOne
<1>2. Together(Ssts(q), B) = UNION {WholeBlocks(SstInfo[q], i) : i \in Ssts(q)}
  BY DEF Together
<1> HIDE DEF B
<1>3. FiniteFamily(Ssts(q), B)
  BY <1>1, EngineAssumption DEF FiniteFamily
<1>4. QED
  BY <1>2, <1>3, FamilyIsFinite

\* The messages that some results answer are to different CSDs for different SSTs of q.
Apart(q, results) ==
  /\ \A k \in DOMAIN results :
       LET m == MessageOf(results[k].peer)
       IN  /\ m.ssts \subseteq Ssts(q) /\ \A i \in m.ssts : m.csd \in Holders(q, i)
           /\ m.csd_block_count = CsdBlockCount(SstInfo[q], m.csd, m.ssts)
  /\ \A k, l \in DOMAIN results : k # l => SstsOf(results[k]) \cap SstsOf(results[l]) = {}

\* The count says that the work is done only when no SST is missing.
LEMMA DoneIsCovered ==
  ASSUME CountsAgree, NEW q \in Query, NEW results \in Seq(Result), Apart(q, results), WorkDone(q, results)
  PROVE  \A i \in Ssts(q) : \E k \in DOMAIN results : i \in SstsOf(results[k])
<1> DEFINE K == DOMAIN results
           count(k) == MessageOf(results[k].peer).csd_block_count
           A == [k \in K |-> {k} \X (1..count(k))]
           B == [k \in K |-> UNION {WholeBlocks(SstInfo[q], i) : i \in SstsOf(results[k])}]
           all == UNION {WholeBlocks(SstInfo[q], i) : i \in Ssts(q)}
           come == Together(K, B)
<1>1. IsFiniteSet(K)
  <2>1. K = 1..Len(results) /\ Len(results) \in Nat
    OBVIOUS
  <2>2. QED
    BY <2>1, FS_Interval
<1>2. \A k \in K : A[k] = {k} \X (1..count(k)) /\ B[k] = UNION {WholeBlocks(SstInfo[q], i) : i \in SstsOf(results[k])}
  OBVIOUS
<1>3. MergedBlockCount(results) = Cardinality(Together(K, A))
  BY DEF MergedBlockCount, Together
<1>4. \A k \in K : /\ SstsOf(results[k]) \subseteq Ssts(q) /\ IsFiniteSet(B[k])
                   /\ count(k) = Cardinality(B[k])
  <2> SUFFICES ASSUME NEW k \in K
               PROVE  /\ SstsOf(results[k]) \subseteq Ssts(q) /\ IsFiniteSet(B[k])
                      /\ count(k) = Cardinality(B[k])
    OBVIOUS
  <2> DEFINE m == MessageOf(results[k].peer)
  <2>1. /\ m.ssts \subseteq Ssts(q) /\ \A i \in m.ssts : m.csd \in Holders(q, i)
        /\ m.csd_block_count = CsdBlockCount(SstInfo[q], m.csd, m.ssts)
    BY DEF Apart
  <2>2. SstsOf(results[k]) = m.ssts /\ count(k) = m.csd_block_count
    BY DEF SstsOf
  <2> HIDE DEF m, count, A, B
  <2>3. /\ IsFiniteSet(UNION {WholeBlocks(SstInfo[q], i) : i \in m.ssts})
        /\ CsdBlockCount(SstInfo[q], m.csd, m.ssts)
             = Cardinality(UNION {WholeBlocks(SstInfo[q], i) : i \in m.ssts})
    BY <2>1, AskedForWhatCounts
  <2>4. B[k] = UNION {WholeBlocks(SstInfo[q], i) : i \in m.ssts}
    BY <1>2, <2>2
  <2>5. QED
    BY <2>1, <2>2, <2>3, <2>4
<1> HIDE DEF count, A, B
<1>5. \A k \in K : IsFiniteSet(A[k]) /\ Cardinality(A[k]) = Cardinality(B[k])
  <2> SUFFICES ASSUME NEW k \in K PROVE IsFiniteSet(A[k]) /\ Cardinality(A[k]) = Cardinality(B[k])
    OBVIOUS
  <2>1. count(k) \in Nat
    BY <1>4, FS_CardinalityType
  <2>2. /\ IsFiniteSet({k}) /\ Cardinality({k}) = 1
        /\ IsFiniteSet(1..count(k)) /\ Cardinality(1..count(k)) = count(k)
    <3>1. IsFiniteSet({k}) /\ Cardinality({k}) = 1
      BY FS_Singleton, Zenon
    <3>2. IsFiniteSet(1..count(k)) /\ Cardinality(1..count(k)) = count(k)
      BY <2>1, FS_Interval
    <3>3. QED
      BY <3>1, <3>2
  <2>3. /\ IsFiniteSet({k} \X (1..count(k)))
        /\ Cardinality({k} \X (1..count(k))) = Cardinality({k}) * Cardinality(1..count(k))
    BY <2>2, FS_Product
  <2>4. Cardinality({k} \X (1..count(k))) = count(k)
    BY <2>1, <2>2, <2>3
  <2>5. QED
    BY <1>2, <1>4, <2>3, <2>4
<1>6. \A k, l \in K : k # l => A[k] \cap A[l] = {} /\ B[k] \cap B[l] = {}
  <2> SUFFICES ASSUME NEW k \in K, NEW l \in K, k # l PROVE A[k] \cap A[l] = {} /\ B[k] \cap B[l] = {}
    OBVIOUS
  <2>1. A[k] \cap A[l] = {}
    BY <1>2
  <2>2. SstsOf(results[k]) \cap SstsOf(results[l]) = {}
    BY DEF Apart
  <2>3. \A x \in B[k] : x[1][1] \in SstsOf(results[k])
    BY <1>2, <1>4, BlocksAreOfOne
  <2>4. \A x \in B[l] : x[1][1] \in SstsOf(results[l])
    BY <1>2, <1>4, BlocksAreOfOne
  <2>5. QED
    BY <2>1, <2>2, <2>3, <2>4
<1>7. Cardinality(come) = MergedBlockCount(results)
  <2>1. Matched(K, A, B)
    BY <1>1, <1>4, <1>5, <1>6 DEF Matched, FiniteFamily
  <2>2. QED
    BY <1>3, <2>1, SameCount
<1>8. come \subseteq all
  BY <1>2, <1>4 DEF Together
<1>9. IsFiniteSet(all)
  BY AskedForAll
<1>10. come = all
  <2>1. Cardinality(come) = Cardinality(all)
    BY <1>7 DEF WorkDone, TotalBlockCount
  <2> HIDE DEF come, all
  <2>2. QED
    BY <1>8, <1>9, <2>1, FS_Subset
<1>11. ASSUME NEW i \in Ssts(q) PROVE \E k \in K : i \in SstsOf(results[k])
  <2>1. PICK x : x \in WholeBlocks(SstInfo[q], i)
    BY BlocksAreOfOne
  <2>2. x[1][1] = i /\ x \in come
    BY <1>10, <2>1, BlocksAreOfOne
  <2>3. PICK k \in K : x \in B[k]
    BY <2>2 DEF Together
  <2>4. PICK j \in SstsOf(results[k]) : x \in WholeBlocks(SstInfo[q], j)
    BY <1>2, <2>3
  <2>5. j = i
    BY <1>4, <2>2, <2>4, BlocksAreOfOne
  <2>6. QED
    BY <2>4, <2>5
<1>12. QED
  BY <1>11
------------------------------------------------------------------------------
(* The messages.                                                              *)

\* The messages of one scan: each to another CSD, for the SSTs chosen for it.
LEMMA MessageIs ==
  ASSUME NEW q \in Query, NEW best \in [Ssts(q) -> Csd], \A i \in Ssts(q) : best[i] \in Holders(q, i),
         NEW m \in Messages(q, best)
  PROVE  /\ m.snippet = q /\ m.csd \in Csd /\ m.ssts = {i \in Ssts(q) : best[i] = m.csd} /\ m.ssts # {}
         /\ \A i \in m.ssts : m.csd \in Holders(q, i)
         /\ m.csd_block_count = CsdBlockCount(SstInfo[q], m.csd, m.ssts)
         /\ m = Serialize(q, SstInfo[q], Columns[q], m.csd, m.ssts)
<1>1. PICK c \in Range(best) : m = Serialize(q, SstInfo[q], Columns[q], c, {i \in Ssts(q) : best[i] = c})
  BY DEF Messages
<1>2. \E i \in Ssts(q) : best[i] = c
  BY <1>1 DEF Range
<1> DEFINE ssts == {i \in Ssts(q) : best[i] = c}
<1>3. ssts # {} /\ c \in Csd /\ \A i \in ssts : c \in Holders(q, i)
  BY <1>2
<1> HIDE DEF ssts
<1>4. /\ m.snippet = q /\ m.csd = c /\ m.ssts = ssts
      /\ m.csd_block_count = CsdBlockCount(SstInfo[q], c, ssts)
  BY <1>1 DEF Serialize, ssts
<1>5. m = Serialize(q, SstInfo[q], Columns[q], c, ssts)
  BY <1>1 DEF ssts
<1>6. QED
  BY <1>3, <1>4, <1>5 DEF ssts

\* The queue and the messages on their way: who adds to them and who takes.
LEMMA QueueSteps ==
  ASSUME EngineTypes, [Next]_vars
  PROVE  \/ UNCHANGED <<position, queue, inbox>>
         \/ \E q \in Query :
              /\ position' = [position EXCEPT ![q] = position[q] + 1] /\ inbox' = inbox
              /\ queue' = queue \/ (queue' = Append(queue, q) /\ position[q] = 0)
         \/ Schedule
<1>1. ASSUME NEW q \in Query, ReadSnippet(q)
      PROVE  /\ position' = [position EXCEPT ![q] = position[q] + 1] /\ inbox' = inbox
             /\ queue' = queue \/ (queue' = Append(queue, q) /\ position[q] = 0)
  <2>1. position[q] \in Nat
    BY DEF EngineTypes
  <2>2. ASSUME queue' # queue PROVE queue' = Append(queue, q) /\ position[q] + 1 = 1
    BY <1>1, <2>2, EngineAssumption DEF ReadSnippet
  <2>3. QED
    BY <1>1, <2>1, <2>2 DEF ReadSnippet
<1>2. ASSUME NEW q \in Query,
             \/ Start(q) \/ StatusHangs(q) \/ AskForResult(q) \/ StreamBreaks(q)
             \/ Answer(q) \/ ResultFails(q)
      PROVE  UNCHANGED <<position, queue, inbox>>
  BY <1>2 DEF Start, StatusHangs, AskForResult, StreamBreaks, Answer, ResultFails, modules
<1>3. ASSUME NEW q \in Query, NEW k, MergeResult(q) \/ RunSnippetWork(q, k)
      PROVE  UNCHANGED <<position, queue, inbox>>
  BY <1>3 DEF MergeResult, RunSnippetWork, interface
<1>4. ASSUME NEW p \in Peer, CsdAnswers(p) \/ CsdContinues(p) \/ CsdFinishesEarly(p) \/ CsdBreaksOff(p)
      PROVE  UNCHANGED <<position, queue, inbox>>
  BY <1>4 DEF CsdAnswers, CsdContinues, CsdFinishesEarly, CsdBreaksOff, interface, modules
<1>5. ASSUME Receive \/ UNCHANGED vars PROVE UNCHANGED <<position, queue, inbox>>
  BY <1>5 DEF Receive, interface, modules, vars
<1>6. QED
  BY <1>1, <1>2, <1>3, <1>4, <1>5 DEF Next, Csds, Engine

\* What the offloading module sends.
LEMMA ScheduleSends ==
  ASSUME EngineTypes, Schedule
  PROVE  /\ queue # <<>> /\ queue' = Tail(queue) /\ position' = position /\ Head(queue) \in Query
         /\ \E best \in [Ssts(Head(queue)) -> Csd] :
              /\ \A i \in Ssts(Head(queue)) : best[i] \in Holders(Head(queue), i)
              /\ inbox \subseteq inbox' /\ inbox' \subseteq inbox \cup Messages(Head(queue), best)
<1>1. queue # <<>> /\ queue' = Tail(queue) /\ position' = position
  BY DEF Schedule, interface
<1>2. Head(queue) \in Query
  BY <1>1, TailOf DEF EngineTypes
<1>3. PICK best \in [Ssts(Head(queue)) -> Csd] :
        /\ \A i \in Ssts(Head(queue)) : best[i] \in Holders(Head(queue), i)
        /\ \/ inbox' = inbox \cup Messages(Head(queue), best)
           \/ \E m \in Messages(Head(queue), best) : inbox' = inbox \cup (Messages(Head(queue), best) \ {m})
  BY DEF Schedule
<1>4. inbox \subseteq inbox' /\ inbox' \subseteq inbox \cup Messages(Head(queue), best)
  BY <1>3
<1>5. QED
  BY <1>1, <1>2, <1>3, <1>4

\* A scan is in the queue or in the messages, and only when it was read from the stream.
LEMMA ScheduledStep == EngineTypes /\ Scheduled /\ [Next]_vars => Scheduled'
<1> SUFFICES ASSUME EngineTypes, Scheduled, [Next]_vars PROVE Scheduled'
  OBVIOUS
<1>1. queue \in Seq(Query) /\ position \in [Query -> Nat] /\ \A k \in DOMAIN queue : queue[k] \in Query
  BY DEF EngineTypes
<1>2. CASE UNCHANGED <<position, queue, inbox>>
  BY <1>2 DEF Scheduled
<1>3. ASSUME NEW q \in Query, position' = [position EXCEPT ![q] = position[q] + 1], inbox' = inbox,
             queue' = queue \/ (queue' = Append(queue, q) /\ position[q] = 0)
      PROVE  Scheduled'
  <2>1. \A r \in Query : position'[r] >= position[r] /\ position'[r] \in Nat /\ position[r] \in Nat
    BY <1>1, <1>3
  <2>2. position'[q] >= 1
    BY <1>1, <1>3
  <2>3. CASE queue' = queue
    BY <1>1, <1>3, <2>1, <2>3 DEF Scheduled
  <2>4. CASE queue' = Append(queue, q) /\ position[q] = 0
    <3>1. (\A k \in DOMAIN queue : queue[k] # q) /\ \A m \in inbox : m.snippet # q
      BY <2>4 DEF Scheduled
    <3>2. /\ \A k \in DOMAIN queue' : queue'[k] = q \/ (k \in DOMAIN queue /\ queue'[k] = queue[k])
          /\ \A k, l \in DOMAIN queue' : queue'[k] = q /\ queue'[l] = q => k = l
      BY <1>1, <2>4, <3>1, AppendOf
    <3>3. \A k, l \in DOMAIN queue' : queue'[k] = queue'[l] => k = l
      BY <3>1, <3>2 DEF Scheduled
    <3>4. \A k \in DOMAIN queue' : position'[queue'[k]] >= 1
      BY <1>1, <2>1, <2>2, <3>2 DEF Scheduled
    <3>5. \A m \in inbox : /\ m.snippet \in Query /\ position'[m.snippet] >= 1
                           /\ \A k \in DOMAIN queue' : queue'[k] # m.snippet
      BY <2>1, <3>1, <3>2 DEF Scheduled
    <3>6. QED
      BY <1>3, <3>3, <3>4, <3>5 DEF Scheduled
  <2>5. QED
    BY <1>3, <2>3, <2>4
<1>4. CASE Schedule
  <2> DEFINE q == Head(queue)
  <2>1. queue # <<>> /\ queue' = Tail(queue) /\ position' = position /\ q \in Query
    BY <1>4, ScheduleSends
  <2>2. PICK best \in [Ssts(q) -> Csd] :
          /\ \A i \in Ssts(q) : best[i] \in Holders(q, i)
          /\ inbox' \subseteq inbox \cup Messages(q, best)
    BY <1>4, ScheduleSends
  <2>3. /\ q = queue[1] /\ 1 \in DOMAIN queue
        /\ \A k \in DOMAIN queue' : k + 1 \in DOMAIN queue /\ queue'[k] = queue[k + 1] /\ k \in Nat \ {0}
    BY <1>1, <2>1, TailOf
  <2> HIDE DEF q
  <2>4. \A m \in inbox' : m \in inbox \/ m.snippet = q
    BY <2>1, <2>2, MessageIs
  <2>5. \A k \in DOMAIN queue' : queue'[k] # q
    BY <2>3 DEF Scheduled
  <2>6. \A k, l \in DOMAIN queue' : queue'[k] = queue'[l] => k = l
    BY <2>3 DEF Scheduled
  <2>7. \A k \in DOMAIN queue' : position'[queue'[k]] >= 1
    BY <2>1, <2>3 DEF Scheduled
  <2>8. \A m \in inbox' : /\ m.snippet \in Query /\ position'[m.snippet] >= 1
                          /\ \A k \in DOMAIN queue' : queue'[k] # m.snippet
    BY <2>1, <2>3, <2>4, <2>5 DEF Scheduled
  <2>9. QED
    BY <2>6, <2>7, <2>8 DEF Scheduled
<1>5. QED
  BY <1>2, <1>3, <1>4, QueueSteps

\* A connection is made only for a message, and is never undone.
LEMMA WhoConnects ==
  ASSUME ReceiverTypes, [Next]_vars, NEW p \in Peer, phase'[p] # "idle"
  PROVE  phase[p] # "idle" \/ \E m \in inbox : <<m.snippet, m.csd>> = p
<1>1. phase \in [Peer -> {"idle", "text", "data", "over"}]
  BY DEF ReceiverTypes
<1>2. CASE phase' = phase
  BY <1>2
<1>3. CASE CsdAnswers(p)
  BY <1>3 DEF CsdAnswers
<1>4. ASSUME NEW r \in Peer, r # p, CsdAnswers(r) PROVE phase'[p] = phase[p]
  BY <1>1, <1>4 DEF CsdAnswers, Connect
<1>5. ASSUME NEW r \in Peer, CsdContinues(r) \/ CsdFinishesEarly(r) \/ CsdBreaksOff(r) PROVE phase[p] # "idle"
  BY <1>1, <1>5 DEF CsdContinues, CsdFinishesEarly, CsdBreaksOff, SendData, Finish, BreakOff
<1>6. CASE Receive
  BY <1>2, <1>6 DEF Receive, ReceiverThread, Accept, ReceiveLength, ReceiveText, ReceiveSize, ReceiveData,
     ReceiveNothing, ReceiveEnded, peers
<1>7. ASSUME NEW q \in Query, Start(q) \/ Engine(q) \/ StatusHangs(q) \/ StreamBreaks(q) \/ ResultFails(q)
      PROVE  phase' = phase
  BY <1>7 DEF Start, Engine, StatusHangs, StreamBreaks, ResultFails, ReadSnippet, AskForResult, Answer,
     MergeResult, RunSnippetWork, receiverVars
<1>8. ASSUME Schedule \/ UNCHANGED vars PROVE phase' = phase
  BY <1>8 DEF Schedule, vars, receiverVars
<1>9. QED
  BY <1>2, <1>3, <1>4, <1>5, <1>6, <1>7, <1>8 DEF Next, Csds

\* Messages of one query are of different CSDs and SSTs.
LEMMA MessagedStep == ReceiverInv /\ EngineTypes /\ Scheduled /\ Messaged /\ [Next]_vars => Messaged'
<1> SUFFICES ASSUME ReceiverInv, EngineTypes, Scheduled, Messaged, [Next]_vars PROVE Messaged'
  OBVIOUS
<1>1. ASSUME inbox \subseteq inbox'
      PROVE  \A p \in Peer : phase'[p] # "idle" => \E m \in inbox' : <<m.snippet, m.csd>> = p
  BY <1>1, WhoConnects DEF Messaged, ReceiverInv
<1>2. CASE inbox' = inbox
  BY <1>1, <1>2 DEF Messaged
<1>3. CASE Schedule
  <2> DEFINE q == Head(queue)
  <2>1. queue # <<>> /\ q \in Query
    BY <1>3, ScheduleSends
  <2>2. PICK best \in [Ssts(q) -> Csd] :
          /\ \A i \in Ssts(q) : best[i] \in Holders(q, i)
          /\ inbox \subseteq inbox' /\ inbox' \subseteq inbox \cup Messages(q, best)
    BY <1>3, ScheduleSends
  <2>3. q = queue[1] /\ 1 \in DOMAIN queue
    BY <2>1, TailOf DEF EngineTypes
  <2> HIDE DEF q
  <2>4. \A m \in inbox : m.snippet # q
    BY <2>3 DEF Scheduled
  <2>5. \A m \in Messages(q, best) :
          /\ m.snippet = q /\ m.csd \in Csd /\ m.ssts = {i \in Ssts(q) : best[i] = m.csd} /\ m.ssts # {}
          /\ \A i \in m.ssts : m.csd \in Holders(q, i)
          /\ m.csd_block_count = CsdBlockCount(SstInfo[q], m.csd, m.ssts)
          /\ m = Serialize(q, SstInfo[q], Columns[q], m.csd, m.ssts)
    BY <2>1, <2>2, MessageIs
  <2>6. \A m \in inbox' : m \in inbox \/ m \in Messages(q, best)
    BY <2>2
  <2>7. ASSUME NEW m \in inbox'
        PROVE  /\ m.csd \in Csd /\ m.ssts \subseteq Ssts(m.snippet) /\ m.ssts # {}
               /\ \A i \in m.ssts : m.csd \in Holders(m.snippet, i)
               /\ m.csd_block_count = CsdBlockCount(SstInfo[m.snippet], m.csd, m.ssts)
    <3>1. CASE m \in inbox
      BY <3>1 DEF Messaged
    <3>2. CASE m \in Messages(q, best)
      <4>1. m.ssts \subseteq Ssts(q)
        BY <2>5, <3>2
      <4>2. QED
        BY <2>5, <3>2, <4>1
    <3>3. QED
      BY <2>6, <3>1, <3>2
  <2>8. ASSUME NEW m \in Messages(q, best), NEW n \in Messages(q, best), m.csd = n.csd \/ m.ssts \cap n.ssts # {}
        PROVE  m = n
    <3>1. m.ssts = {i \in Ssts(q) : best[i] = m.csd} /\ n.ssts = {i \in Ssts(q) : best[i] = n.csd}
      BY <2>5
    <3>2. m.csd = n.csd
      BY <2>8, <3>1
    <3>3. m.ssts = n.ssts
      BY <3>1, <3>2
    <3>4. /\ m = Serialize(q, SstInfo[q], Columns[q], m.csd, m.ssts)
          /\ n = Serialize(q, SstInfo[q], Columns[q], n.csd, n.ssts)
      BY <2>5
    <3>5. QED
      BY <3>2, <3>3, <3>4
  <2>9. ASSUME NEW m \in inbox', NEW n \in inbox', m.snippet = n.snippet,
               m.csd = n.csd \/ m.ssts \cap n.ssts # {}
        PROVE  m = n
    <3>1. CASE m \in inbox /\ n \in inbox
      BY <2>9, <3>1 DEF Messaged
    <3>2. CASE m \in Messages(q, best) /\ n \in Messages(q, best)
      BY <2>8, <2>9, <3>2
    <3>3. QED
      BY <2>4, <2>5, <2>6, <2>9, <3>1, <3>2
  <2>10. QED
    BY <1>1, <2>2, <2>7, <2>9 DEF Messaged
<1>4. QED
  BY <1>2, <1>3, QueueSteps
------------------------------------------------------------------------------
(* From the results to the answer.                                            *)

\* What comes is not taken back.
LEMMA Growth ==
  ASSUME ReceiverInv, ReceiverInv', EngineTypes, [Next]_vars
  PROVE  inbox \subseteq inbox' /\ faulty \subseteq faulty' /\ Range(delivered) \subseteq Range(delivered')
<1>1. inbox \subseteq inbox'
  BY QueueSteps, ScheduleSends
<1>2. faulty \subseteq faulty' /\ (Receive \/ delivered' = delivered)
  <2>1. ASSUME NEW p \in Peer, CsdAnswers(p) \/ CsdContinues(p) \/ CsdFinishesEarly(p) \/ CsdBreaksOff(p)
        PROVE  faulty \subseteq faulty' /\ delivered' = delivered
    BY <2>1 DEF CsdAnswers, CsdContinues, CsdFinishesEarly, CsdBreaksOff, Connect, SendData, Finish, BreakOff,
       Works, Fails, receiver
  <2>2. ASSUME NEW q \in Query, Start(q) \/ Engine(q) \/ StatusHangs(q) \/ StreamBreaks(q) \/ ResultFails(q)
        PROVE  faulty \subseteq faulty' /\ delivered' = delivered
    BY <2>2 DEF Start, Engine, StatusHangs, StreamBreaks, ResultFails, ReadSnippet, AskForResult, Answer,
       MergeResult, RunSnippetWork, receiverVars, Works, Fails
  <2>3. ASSUME Schedule \/ UNCHANGED vars PROVE faulty \subseteq faulty' /\ delivered' = delivered
    BY <2>3 DEF Schedule, vars, receiverVars, Works, Fails
  <2>4. ASSUME Receive PROVE faulty \subseteq faulty'
    BY <2>4 DEF Receive, Works
  <2>5. QED
    BY <2>1, <2>2, <2>3, <2>4 DEF Next, Csds
<1>3. Range(delivered) \subseteq Range(delivered')
  <2>1. CASE \E r \in Result : delivered' = Append(delivered, r)
    <3>1. delivered \in Seq(Result)
      BY DEF ReceiverInv, ReceiverTypes
    <3>2. \A k \in DOMAIN delivered : k \in DOMAIN delivered' /\ delivered'[k] = delivered[k]
      BY <2>1, <3>1, AppendOf
    <3>3. QED
      BY <3>2 DEF Range
  <2>2. QED
    BY <1>2, <2>1, ResultWaits
<1>4. QED
  BY <1>1, <1>2, <1>3

\* A result that has come answers a message.
LEMMA ItsMessage ==
  ASSUME ReceiverInv, Messaged, NEW r \in Range(delivered)
  PROVE  /\ MessageOf(r.peer) \in inbox /\ <<MessageOf(r.peer).snippet, MessageOf(r.peer).csd>> = r.peer
         /\ r.missing = 0 \/ r.peer[1] \in faulty
<1>1. PICK k \in DOMAIN delivered : r = delivered[k]
  BY DEF Range
<1>2. r.peer \in Peer /\ phase[r.peer] # "idle"
  BY <1>1, WhoIsWhere DEF ReceiverInv, ServedOnce
<1>3. \E m \in inbox : <<m.snippet, m.csd>> = r.peer
  BY <1>2 DEF Messaged
<1>4. MessageOf(r.peer) \in inbox /\ <<MessageOf(r.peer).snippet, MessageOf(r.peer).csd>> = r.peer
  BY <1>3 DEF MessageOf
<1>5. QED
  BY <1>1, <1>4 DEF ReceiverInv, Connections, Delivered

\* Results from different CSDs are of different SSTs.
LEMMA ResultsApart ==
  ASSUME ReceiverInv, Messaged, Scheduled, NEW q \in Query, NEW results, ResultsOf(q, results)
  PROVE  Apart(q, results)
<1>1. ASSUME NEW k \in DOMAIN results
      PROVE  LET m == MessageOf(results[k].peer)
             IN  m \in inbox /\ m.snippet = q /\ <<m.snippet, m.csd>> = results[k].peer
  <2>1. results[k] \in Range(delivered) /\ results[k].peer[1] = q
    BY DEF ResultsOf
  <2>2. QED
    BY <2>1, ItsMessage
<1>2. ASSUME NEW k \in DOMAIN results
      PROVE  LET m == MessageOf(results[k].peer)
             IN  /\ m.ssts \subseteq Ssts(q) /\ \A i \in m.ssts : m.csd \in Holders(q, i)
                 /\ m.csd_block_count = CsdBlockCount(SstInfo[q], m.csd, m.ssts)
  <2> DEFINE m == MessageOf(results[k].peer)
  <2>1. m \in inbox /\ m.snippet = q
    BY <1>1
  <2> HIDE DEF m
  <2>2. /\ m.ssts \subseteq Ssts(q) /\ \A i \in m.ssts : m.csd \in Holders(q, i)
        /\ m.csd_block_count = CsdBlockCount(SstInfo[q], m.csd, m.ssts)
    BY <2>1 DEF Messaged
  <2>3. QED
    BY <2>2 DEF m
<1>3. ASSUME NEW k \in DOMAIN results, NEW l \in DOMAIN results, k # l
      PROVE  SstsOf(results[k]) \cap SstsOf(results[l]) = {}
  <2> DEFINE m == MessageOf(results[k].peer)
             n == MessageOf(results[l].peer)
  <2>1. /\ m \in inbox /\ m.snippet = q /\ <<m.snippet, m.csd>> = results[k].peer
        /\ n \in inbox /\ n.snippet = q /\ <<n.snippet, n.csd>> = results[l].peer
    BY <1>1
  <2>2. SstsOf(results[k]) = m.ssts /\ SstsOf(results[l]) = n.ssts
    BY DEF SstsOf
  <2> HIDE DEF m, n
  <2>3. results[k].peer # results[l].peer
    BY <1>3 DEF ResultsOf
  <2>4. m # n
    BY <2>1, <2>3
  <2>5. m.ssts \cap n.ssts = {}
    BY <2>1, <2>4 DEF Messaged
  <2>6. QED
    BY <2>2, <2>5
<1>4. QED
  BY <1>2, <1>3 DEF Apart

\* When the work of the scan is done with some results, they cover the scan.
LEMMA DoneCovers ==
  ASSUME CountsAgree, ReceiverInv, Messaged, Scheduled, NEW q \in Query, NEW results \in Seq(Result),
         ResultsOf(q, results), WorkDone(q, results)
  PROVE  Covers(q, results)
<1> SUFFICES ASSUME NEW i \in Ssts(q)
             PROVE  \E k \in DOMAIN results, m \in inbox :
                      <<m.snippet, m.csd>> = results[k].peer /\ i \in m.ssts
  BY DEF Covers
<1>1. PICK k \in DOMAIN results : i \in SstsOf(results[k])
  BY ResultsApart, DoneIsCovered
<1>2. results[k] \in Range(delivered)
  BY DEF ResultsOf
<1>3. /\ MessageOf(results[k].peer) \in inbox
      /\ <<MessageOf(results[k].peer).snippet, MessageOf(results[k].peer).csd>> = results[k].peer
  BY <1>2, ItsMessage
<1>4. QED
  BY <1>1, <1>3 DEF SstsOf

\* Who pushes, merges and finishes.
LEMMA WorkSteps ==
  ASSUME ReceiverInv, ReceiverInv', EngineTypes, [Next]_vars
  PROVE  \/ UNCHANGED <<waiting, merged, finished>>
         \/ Receive
         \/ \E q \in Query : MergeResult(q)
         \/ \E q \in Query : \E k : RunSnippetWork(q, k)
<1>1. ASSUME NEW q \in Query,
             \/ Start(q) \/ ReadSnippet(q) \/ StatusHangs(q) \/ AskForResult(q) \/ StreamBreaks(q)
             \/ Answer(q) \/ ResultFails(q)
      PROVE  UNCHANGED <<waiting, merged, finished>>
  BY <1>1 DEF Start, ReadSnippet, StatusHangs, AskForResult, StreamBreaks, Answer, ResultFails, modules
<1>2. ASSUME NEW p \in Peer, CsdAnswers(p) \/ CsdContinues(p) \/ CsdFinishesEarly(p) \/ CsdBreaksOff(p)
      PROVE  UNCHANGED <<waiting, merged, finished>>
  BY <1>2 DEF CsdAnswers, CsdContinues, CsdFinishesEarly, CsdBreaksOff, modules
<1>3. ASSUME Schedule \/ UNCHANGED vars PROVE UNCHANGED <<waiting, merged, finished>>
  BY <1>3 DEF Schedule, vars, modules
<1>4. QED
  BY <1>1, <1>2, <1>3 DEF Next, Csds, Engine

\* mergeResult takes the first result that waits.
LEMMA MergedOne ==
  ASSUME EngineTypes, NEW q \in Query, MergeResult(q)
  PROVE  LET n == Len(merged[q]) + 1
         IN  /\ 1 \in DOMAIN waiting[q] /\ merged'[q] = Append(merged[q], waiting[q][1])
             /\ merged'[q] \in Seq(Result)
             /\ DOMAIN merged'[q] = DOMAIN merged[q] \cup {n} /\ n \notin DOMAIN merged[q]
             /\ merged'[q][n] = waiting[q][1] /\ \A k \in DOMAIN merged[q] : merged'[q][k] = merged[q][k]
             /\ \A k \in DOMAIN waiting'[q] : /\ k + 1 \in DOMAIN waiting[q] /\ k \in Nat \ {0}
                                              /\ waiting'[q][k] = waiting[q][k + 1]
             /\ \A r \in Query : r # q => waiting'[r] = waiting[r] /\ merged'[r] = merged[r]
<1>1. /\ waiting[q] \in Seq(Result) /\ merged[q] \in Seq(Result) /\ waiting[q] # <<>>
      /\ merged' = [merged EXCEPT ![q] = Append(merged[q], Head(waiting[q]))]
      /\ waiting' = [waiting EXCEPT ![q] = Tail(waiting[q])]
  BY DEF EngineTypes, MergeResult
<1>2. /\ merged'[q] = Append(merged[q], Head(waiting[q])) /\ waiting'[q] = Tail(waiting[q])
      /\ \A r \in Query : r # q => waiting'[r] = waiting[r] /\ merged'[r] = merged[r]
  BY <1>1 DEF EngineTypes
<1>3. /\ Head(waiting[q]) = waiting[q][1] /\ 1 \in DOMAIN waiting[q] /\ waiting[q][1] \in Result
      /\ \A k \in DOMAIN waiting'[q] : /\ k + 1 \in DOMAIN waiting[q] /\ k \in Nat \ {0}
                                       /\ waiting'[q][k] = waiting[q][k + 1]
  <2> DEFINE w == waiting[q]
  <2>1. w \in Seq(Result) /\ w # <<>> /\ waiting'[q] = Tail(w)
    BY <1>1, <1>2
  <2> HIDE DEF w
  <2>2. /\ Head(w) = w[1] /\ 1 \in DOMAIN w /\ Head(w) \in Result
        /\ \A k \in DOMAIN Tail(w) : k + 1 \in DOMAIN w /\ Tail(w)[k] = w[k + 1] /\ k \in Nat \ {0}
    BY <2>1, TailOf
  <2>3. QED
    BY <2>1, <2>2 DEF w
<1>4. QED
  BY <1>1, <1>2, <1>3, AppendOf

\* A result goes from the queue of its scan to its table, once.
LEMMA PushedStep == ReceiverInv /\ ReceiverInv' /\ EngineTypes /\ PushedOnce /\ [Next]_vars => PushedOnce'
<1> SUFFICES ASSUME ReceiverInv, ReceiverInv', EngineTypes, PushedOnce, [Next]_vars PROVE PushedOnce'
  OBVIOUS
<1>1. Range(delivered) \subseteq Range(delivered')
  BY Growth
<1>2. CASE UNCHANGED <<waiting, merged>>
  BY <1>1, <1>2 DEF PushedOnce, ResultsOf
<1>3. CASE Receive /\ waiting' # waiting
  <2>1. PICK r \in Result :
          /\ delivered' = Append(delivered, r) /\ r.peer[1] \in Query
          /\ waiting' = [waiting EXCEPT ![r.peer[1]] = Append(waiting[r.peer[1]], r)]
          /\ \A k \in DOMAIN delivered : delivered[k].peer # r.peer
    BY <1>3, ResultWaits
  <2>2. merged' = merged
    BY <1>3 DEF Receive
  <2>3. \A x \in Range(delivered) : x.peer # r.peer
    BY <2>1 DEF Range
  <2>4. r \in Range(delivered')
    <3>1. delivered \in Seq(Result)
      BY DEF ReceiverInv, ReceiverTypes
    <3>2. Len(delivered) + 1 \in DOMAIN delivered' /\ delivered'[Len(delivered) + 1] = r
      BY <2>1, <3>1, AppendOf
    <3>3. QED
      BY <3>2 DEF Range
  <2>5. ASSUME NEW q \in Query
        PROVE  /\ ResultsOf(q, waiting[q])' /\ ResultsOf(q, merged[q])'
               /\ \A k \in DOMAIN waiting'[q], l \in DOMAIN merged'[q] : waiting'[q][k].peer # merged'[q][l].peer
    <3>1. /\ ResultsOf(q, waiting[q]) /\ ResultsOf(q, merged[q])
          /\ \A k \in DOMAIN waiting[q], l \in DOMAIN merged[q] : waiting[q][k].peer # merged[q][l].peer
      BY DEF PushedOnce
    <3>2. CASE q # r.peer[1]
      <4>1. waiting'[q] = waiting[q]
        BY <2>1, <3>2 DEF EngineTypes
      <4>2. QED
        BY <1>1, <2>2, <3>1, <4>1 DEF ResultsOf
    <3>3. CASE q = r.peer[1]
      <4>1. waiting'[q] = Append(waiting[q], r) /\ waiting[q] \in Seq(Result)
        BY <2>1, <3>3 DEF EngineTypes
      <4>2. /\ \A k \in DOMAIN waiting'[q] :
                 waiting'[q][k] = r \/ (k \in DOMAIN waiting[q] /\ waiting'[q][k] = waiting[q][k])
            /\ \A k, l \in DOMAIN waiting'[q] : waiting'[q][k] = r /\ waiting'[q][l] = r =>
                 k = l \/ k \in DOMAIN waiting[q] \/ l \in DOMAIN waiting[q]
        BY <4>1, AppendOf
      <4>3. /\ \A k \in DOMAIN waiting[q] : waiting[q][k] \in Range(delivered) /\ waiting[q][k].peer # r.peer
            /\ \A k \in DOMAIN merged[q] : merged[q][k] \in Range(delivered) /\ merged[q][k].peer # r.peer
        BY <2>3, <3>1 DEF ResultsOf
      <4>4. \A k \in DOMAIN waiting[q] : waiting'[q][k] = waiting[q][k]
        BY <4>1, AppendOf
      <4>5. \A k, l \in DOMAIN waiting'[q] : waiting'[q][k].peer = waiting'[q][l].peer => k = l
        BY <3>1, <4>2, <4>3, <4>4 DEF ResultsOf
      <4>6. \A k \in DOMAIN waiting'[q] : waiting'[q][k] \in Range(delivered') /\ waiting'[q][k].peer[1] = q
        BY <1>1, <2>4, <3>1, <3>3, <4>2 DEF ResultsOf
      <4>7. ResultsOf(q, waiting[q])'
        BY <4>5, <4>6 DEF ResultsOf
      <4>8. ResultsOf(q, merged[q])'
        BY <1>1, <2>2, <3>1 DEF ResultsOf
      <4>9. QED
        BY <2>2, <3>1, <4>2, <4>3, <4>7, <4>8
    <3>4. QED
      BY <3>2, <3>3
  <2>6. QED
    BY <2>5 DEF PushedOnce
<1>4. ASSUME NEW q0 \in Query, MergeResult(q0) PROVE PushedOnce'
  <2> DEFINE n == Len(merged[q0]) + 1
             r == waiting[q0][1]
  <2>1. /\ 1 \in DOMAIN waiting[q0]
        /\ DOMAIN merged'[q0] = DOMAIN merged[q0] \cup {n} /\ n \notin DOMAIN merged[q0]
        /\ merged'[q0][n] = r /\ \A k \in DOMAIN merged[q0] : merged'[q0][k] = merged[q0][k]
        /\ \A k \in DOMAIN waiting'[q0] : /\ k + 1 \in DOMAIN waiting[q0] /\ k \in Nat \ {0}
                                          /\ waiting'[q0][k] = waiting[q0][k + 1]
        /\ \A q \in Query : q # q0 => waiting'[q] = waiting[q] /\ merged'[q] = merged[q]
    BY <1>4, MergedOne
  <2> HIDE DEF n, r
  <2>2. /\ ResultsOf(q0, waiting[q0]) /\ ResultsOf(q0, merged[q0])
        /\ \A k \in DOMAIN waiting[q0], l \in DOMAIN merged[q0] : waiting[q0][k].peer # merged[q0][l].peer
    BY DEF PushedOnce
  <2>3. /\ r \in Range(delivered') /\ r.peer[1] = q0
        /\ \A l \in DOMAIN merged[q0] : merged[q0][l].peer # r.peer
        /\ \A k \in DOMAIN waiting'[q0] : waiting'[q0][k].peer # r.peer
    BY <1>1, <2>1, <2>2 DEF ResultsOf, r
  <2>4. ResultsOf(q0, waiting[q0])'
    <3>1. \A k \in DOMAIN waiting'[q0] : waiting'[q0][k] \in Range(delivered') /\ waiting'[q0][k].peer[1] = q0
      BY <1>1, <2>1, <2>2 DEF ResultsOf
    <3>2. \A k, l \in DOMAIN waiting'[q0] : waiting'[q0][k].peer = waiting'[q0][l].peer => k = l
      BY <2>1, <2>2 DEF ResultsOf
    <3>3. QED
      BY <3>1, <3>2 DEF ResultsOf
  <2>5. ResultsOf(q0, merged[q0])'
    <3>1. \A k \in DOMAIN merged'[q0] : merged'[q0][k] \in Range(delivered') /\ merged'[q0][k].peer[1] = q0
      BY <1>1, <2>1, <2>2, <2>3 DEF ResultsOf
    <3>2. \A k, l \in DOMAIN merged'[q0] : merged'[q0][k].peer = merged'[q0][l].peer => k = l
      BY <2>1, <2>2, <2>3 DEF ResultsOf
    <3>3. QED
      BY <3>1, <3>2 DEF ResultsOf
  <2>6. \A k \in DOMAIN waiting'[q0], l \in DOMAIN merged'[q0] : waiting'[q0][k].peer # merged'[q0][l].peer
    BY <2>1, <2>2, <2>3
  <2>7. ASSUME NEW q \in Query, q # q0
        PROVE  /\ ResultsOf(q, waiting[q])' /\ ResultsOf(q, merged[q])'
               /\ \A k \in DOMAIN waiting'[q], l \in DOMAIN merged'[q] : waiting'[q][k].peer # merged'[q][l].peer
    <3>1. /\ ResultsOf(q, waiting[q]) /\ ResultsOf(q, merged[q])
          /\ \A k \in DOMAIN waiting[q], l \in DOMAIN merged[q] : waiting[q][k].peer # merged[q][l].peer
      BY DEF PushedOnce
    <3>2. waiting'[q] = waiting[q] /\ merged'[q] = merged[q]
      BY <2>1, <2>7
    <3>3. QED
      BY <1>1, <3>1, <3>2 DEF ResultsOf
  <2>8. QED
    BY <2>4, <2>5, <2>6, <2>7 DEF PushedOnce
<1>5. ASSUME NEW q \in Query, NEW k, RunSnippetWork(q, k) PROVE PushedOnce'
  BY <1>2, <1>5 DEF RunSnippetWork
<1>6. QED
  BY <1>2, <1>3, <1>4, <1>5, WorkSteps DEF Receive

\* A table is finished when the scan's results cover it; the next work waits for that.
LEMMA FinishedStep ==
  ASSUME CountsAgree, ReceiverInv, ReceiverInv', EngineTypes, Scheduled, Messaged, Scheduled', Messaged',
         PushedOnce, PushedOnce', Finished, [Next]_vars
  PROVE  Finished'
<1>1. inbox \subseteq inbox'
  BY Growth
<1>2. CASE UNCHANGED <<merged, finished>>
  BY <1>1, <1>2 DEF Finished, Covers
<1>3. ASSUME NEW q0 \in Query, MergeResult(q0) PROVE Finished'
  <2>1. /\ merged'[q0] \in Seq(Result)
        /\ \A k \in DOMAIN merged[q0] : k \in DOMAIN merged'[q0] /\ merged'[q0][k] = merged[q0][k]
        /\ \A q \in Query : q # q0 => merged'[q] = merged[q]
    BY <1>3, MergedOne
  <2>2. UNCHANGED receiverVars /\ inbox' = inbox
    BY <1>3 DEF MergeResult
  <2>3. ASSUME NEW q \in Query, Covers(q, merged[q]) PROVE Covers(q, merged'[q])
    <3>1. \A k \in DOMAIN merged[q] : k \in DOMAIN merged'[q] /\ merged'[q][k] = merged[q][k]
      BY <2>1
    <3>2. QED
      BY <2>3, <3>1 DEF Covers
  <2>4. ASSUME WorkDone(q0, merged'[q0]) PROVE Covers(q0, merged'[q0])
    <3>1. ResultsOf(q0, merged'[q0])
      BY <2>2 DEF PushedOnce, ResultsOf, receiverVars
    <3>2. QED
      BY <2>1, <2>4, <3>1, DoneCovers
  <2>5. ASSUME NEW q \in Query, NEW k, <<q, k>> \in finished' PROVE Covers(q, merged'[q])
    <3>1. CASE <<q, k>> \in finished
      BY <2>3, <3>1 DEF Finished
    <3>2. CASE <<q, k>> \notin finished
      <4>1. q = q0 /\ WorkDone(q0, merged'[q0])
        BY <1>3, <2>5, <3>2 DEF MergeResult
      <4>2. QED
        BY <2>4, <4>1
    <3>3. QED
      BY <3>1, <3>2
  <2>6. QED
    BY <2>2, <2>5 DEF Finished, Covers
<1>4. ASSUME NEW q0 \in Query, NEW k0, RunSnippetWork(q0, k0) PROVE Finished'
  <2>1. <<q0, k0 - 1>> \in finished /\ finished' = finished \cup {<<q0, k0>>} /\ merged' = merged
    BY <1>4 DEF RunSnippetWork
  <2>2. Covers(q0, merged[q0])
    BY <2>1 DEF Finished
  <2>3. ASSUME NEW q \in Query, NEW k, <<q, k>> \in finished' PROVE Covers(q, merged[q])
    BY <2>1, <2>2, <2>3 DEF Finished
  <2>4. QED
    BY <1>1, <2>1, <2>3 DEF Finished, Covers
<1>5. CASE Receive
  BY <1>2, <1>5 DEF Receive
<1>6. QED
  BY <1>2, <1>3, <1>4, <1>5, WorkSteps

\* Who is answered, and by what.
LEMMA AnswerSteps ==
  ASSUME EngineTypes, [Next]_vars
  PROVE  \/ \A q \in Query : pc'[q] = "answered" => pc[q] = "answered" /\ answer'[q] = answer[q]
         \/ \E q \in Query :
              /\ \A r \in Query : r # q => pc'[r] = pc[r] /\ answer'[r] = answer[r]
              /\ \/ answer'[q].kind = "failed" /\ q \in faulty'
                 \/ /\ answer'[q].kind = "rows" /\ answer'[q].results = merged[q]
                    /\ \E k : <<q, k>> \in finished
<1>1. CASE UNCHANGED <<pc, answer>>
  BY <1>1
<1>2. ASSUME NEW q \in Query, Start(q) \/ StatusHangs(q) \/ AskForResult(q) \/ StreamBreaks(q)
      PROVE  \A r \in Query : pc'[r] = "answered" => pc[r] = "answered" /\ answer'[r] = answer[r]
  <2>1. PICK place \in {"reading", "hung", "asking"} : pc' = [pc EXCEPT ![q] = place]
    BY <1>2 DEF Start, StatusHangs, AskForResult, StreamBreaks
  <2>2. answer' = answer
    BY <1>2 DEF Start, StatusHangs, AskForResult, StreamBreaks
  <2>3. QED
    BY <2>1, <2>2 DEF EngineTypes
<1>3. ASSUME NEW q \in Query, Answer(q)
      PROVE  /\ \A r \in Query : r # q => pc'[r] = pc[r] /\ answer'[r] = answer[r]
             /\ answer'[q].kind = "rows" /\ answer'[q].results = merged[q]
             /\ \E k : <<q, k>> \in finished
  BY <1>3 DEF Answer, EngineTypes
<1>4. ASSUME NEW q \in Query, ResultFails(q)
      PROVE  /\ \A r \in Query : r # q => pc'[r] = pc[r] /\ answer'[r] = answer[r]
             /\ answer'[q].kind = "failed" /\ q \in faulty'
  BY <1>4 DEF ResultFails, Fails, EngineTypes
<1>5. ASSUME NEW q \in Query, NEW k, ReadSnippet(q) \/ MergeResult(q) \/ RunSnippetWork(q, k)
      PROVE  UNCHANGED <<pc, answer>>
  BY <1>5 DEF ReadSnippet, MergeResult, RunSnippetWork, interface
<1>6. ASSUME NEW p \in Peer, CsdAnswers(p) \/ CsdContinues(p) \/ CsdFinishesEarly(p) \/ CsdBreaksOff(p)
      PROVE  UNCHANGED <<pc, answer>>
  BY <1>6 DEF CsdAnswers, CsdContinues, CsdFinishesEarly, CsdBreaksOff, interface
<1>7. ASSUME Receive \/ Schedule \/ UNCHANGED vars PROVE UNCHANGED <<pc, answer>>
  BY <1>7 DEF Receive, Schedule, vars, interface
<1>8. QED
  BY <1>1, <1>2, <1>3, <1>4, <1>5, <1>6, <1>7 DEF Next, Csds, Engine

\* An answer has what was merged when the table was finished.
LEMMA AnswersStep ==
  ReceiverInv /\ ReceiverInv' /\ EngineTypes /\ PushedOnce /\ Finished /\ Answers /\ [Next]_vars => Answers'
<1> SUFFICES ASSUME ReceiverInv, ReceiverInv', EngineTypes, PushedOnce, Finished, Answers, [Next]_vars,
                    NEW q \in Query, pc'[q] = "answered"
             PROVE  \/ answer'[q].kind = "failed" /\ q \in faulty'
                    \/ /\ answer'[q].kind = "rows"
                       /\ ResultsOf(q, answer[q].results)' /\ Covers(q, answer[q].results)'
  BY DEF Answers
<1>1. inbox \subseteq inbox' /\ faulty \subseteq faulty' /\ Range(delivered) \subseteq Range(delivered')
  BY Growth
<1>2. ASSUME NEW results, answer'[q].results = results, ResultsOf(q, results), Covers(q, results)
      PROVE  ResultsOf(q, answer[q].results)' /\ Covers(q, answer[q].results)'
  <2>1. ResultsOf(q, answer[q].results)'
    BY <1>1, <1>2 DEF ResultsOf
  <2>2. Covers(q, answer[q].results)'
    BY <1>1, <1>2 DEF Covers
  <2>3. QED
    BY <2>1, <2>2
<1>3. CASE pc[q] = "answered" /\ answer'[q] = answer[q]
  BY <1>1, <1>2, <1>3 DEF Answers
<1>4. CASE answer'[q].kind = "rows" /\ answer'[q].results = merged[q] /\ \E k : <<q, k>> \in finished
  BY <1>2, <1>4 DEF PushedOnce, Finished
<1>5. CASE answer'[q].kind = "failed" /\ q \in faulty'
  BY <1>5
<1>6. QED
  BY <1>3, <1>4, <1>5, AnswerSteps

\* What holds of all that is kept.
EngineInv == ReceiverInv /\ EngineTypes /\ Scheduled /\ Messaged /\ PushedOnce /\ Finished /\ Answers

\* It holds at first,
LEMMA EngineInvStart == Init => EngineInv
<1> SUFFICES ASSUME Init PROVE EngineInv
  OBVIOUS
<1>1. queue = <<>> /\ inbox = {} /\ finished = {} /\ phase = [p \in Peer |-> "idle"]
  BY DEF Init, ReceiverInit
<1>2. Scheduled
  BY <1>1 DEF Scheduled
<1>3. Messaged
  BY <1>1 DEF Messaged
<1>4. PushedOnce
  BY DEF Init, PushedOnce, ResultsOf
<1>5. Finished
  BY <1>1 DEF Finished
<1>6. Answers
  BY DEF Init, Answers
<1>7. QED
  BY <1>2, <1>3, <1>4, <1>5, <1>6, ReceiverStart, EngineStart DEF EngineInv

\* and every step keeps it.
LEMMA EngineInvStep == ASSUME CountsAgree PROVE EngineInv /\ [Next]_vars => EngineInv'
<1> SUFFICES ASSUME EngineInv, [Next]_vars PROVE EngineInv'
  OBVIOUS
<1>1. ReceiverInv /\ EngineTypes /\ Scheduled /\ Messaged /\ PushedOnce /\ Finished /\ Answers
  BY DEF EngineInv
<1>2. ReceiverInv'
  BY <1>1, ReceiverStep
<1>3. EngineTypes' /\ Scheduled' /\ Messaged'
  BY <1>1, <1>2, TypesStep, ScheduledStep, MessagedStep
<1>4. PushedOnce'
  BY <1>1, <1>2, PushedStep
<1>5. Finished'
  BY <1>1, <1>2, <1>3, <1>4, FinishedStep
<1>6. Answers'
  BY <1>1, <1>2, AnswersStep
<1>7. QED
  BY <1>2, <1>3, <1>4, <1>5, <1>6 DEF EngineInv

\* An answer with rows has every SST once.
LEMMA EachOnce ==
  ASSUME ReceiverInv, Messaged, Scheduled, NEW q \in Query, NEW results,
         ResultsOf(q, results), Covers(q, results), NEW i \in Ssts(q)
  PROVE  Cardinality({k \in DOMAIN results : i \in SstsOf(results[k])}) = 1
<1>1. PICK k \in DOMAIN results, m \in inbox : <<m.snippet, m.csd>> = results[k].peer /\ i \in m.ssts
  BY DEF Covers
<1>2. m = MessageOf(results[k].peer)
  <2>1. results[k] \in Range(delivered)
    BY DEF ResultsOf
  <2>2. /\ MessageOf(results[k].peer) \in inbox
        /\ <<MessageOf(results[k].peer).snippet, MessageOf(results[k].peer).csd>> = results[k].peer
    BY <2>1, ItsMessage
  <2>3. QED
    BY <1>1, <2>2 DEF Messaged
<1>3. i \in SstsOf(results[k])
  BY <1>1, <1>2 DEF SstsOf
<1>4. \A l \in DOMAIN results : i \in SstsOf(results[l]) => l = k
  BY <1>3, ResultsApart DEF Apart
<1>5. {l \in DOMAIN results : i \in SstsOf(results[l])} = {k}
  BY <1>3, <1>4
<1>6. QED
  BY <1>5, FS_Singleton

\* An answer with rows has every SST of the scan once, and has it whole unless a CSD of the
\* query broke off; only a call that failed is answered with nothing.  This is what
\* the counts of blocks are for, in the message, in the result and in the total
\* (snippet_manager.cc:63-79, buffer_manager.cc:200-225 and 388-404,
\* storage_engine_interface.cc:69-114).
THEOREM AnswersAreWhole == ASSUME CountsAgree PROVE Spec => []AnswerIsWhole
<1>1. EngineInv => AnswerIsWhole
  <2> SUFFICES ASSUME EngineInv, NEW q \in Query, pc[q] = "answered",
                      answer[q].kind # "failed" \/ q \notin faulty
               PROVE  /\ answer[q].kind = "rows"
                      /\ \A i \in Ssts(q) :
                           Cardinality({k \in DOMAIN answer[q].results : i \in SstsOf(answer[q].results[k])}) = 1
                      /\ \A r \in Range(answer[q].results) : r.missing = 0 \/ q \in faulty
    BY DEF AnswerIsWhole
  <2>1. ReceiverInv /\ Scheduled /\ Messaged
    BY DEF EngineInv
  <2>2. answer[q].kind = "rows" /\ ResultsOf(q, answer[q].results) /\ Covers(q, answer[q].results)
    BY DEF EngineInv, Answers
  <2>3. \A i \in Ssts(q) : Cardinality({k \in DOMAIN answer[q].results : i \in SstsOf(answer[q].results[k])}) = 1
    BY <2>1, <2>2, EachOnce
  <2>4. \A r \in Range(answer[q].results) : r \in Range(delivered) /\ r.peer[1] = q
    BY <2>2 DEF ResultsOf, Range
  <2>5. \A r \in Range(answer[q].results) : r.missing = 0 \/ q \in faulty
    BY <2>1, <2>4, ItsMessage
  <2>6. QED
    BY <2>2, <2>3, <2>5
<1>2. EngineInv /\ [Next]_vars => EngineInv'
  BY EngineInvStep
<1>3. QED
  BY <1>1, <1>2, EngineInvStart, PTL DEF Spec

------------------------------------------------------------------------------
(* Types, and what is made of a cell of each.                                 *)

\* The integer types and how wide they are.
LEMMA WidthIs ==
  /\ DOMAIN Width = {1, 2, 3, 7, 8}
  /\ Width[1] = 1 /\ Width[2] = 2 /\ Width[3] = 4 /\ Width[7] = 4 /\ Width[8] = 8
BY DEF Width, MySQL_BYTE, MySQL_INT16, MySQL_INT32, MySQL_INT64, MySQL_TIMESTAMP

\* The types that are not integers.
LEMMA OtherTypes ==
  /\ MySQL_FLOAT32 = 4 /\ MySQL_DOUBLE = 5 /\ MySQL_DATE = 14 /\ MySQL_VARSTRING = 15
  /\ MySQL_NEWDECIMAL = 246 /\ MySQL_STRING = 254
BY DEF MySQL_FLOAT32, MySQL_DOUBLE, MySQL_DATE, MySQL_VARSTRING, MySQL_NEWDECIMAL, MySQL_STRING

\* A value below 65536 comes back from its two bytes, one below 256 from one.
LEMMA BytesAreValue ==
  ASSUME NEW v \in Nat
  PROVE  /\ v < 256 => Value(Bytes(v, 1)) = v
         /\ v < 65536 => Value(Bytes(v, 2)) = v
         /\ v < 16777216 => Value(Bytes(v, 3)) = v
<1>1. DOMAIN Unit = 1..4 /\ Unit[1] = 1 /\ Unit[2] = 256 /\ Unit[3] = 65536
  BY SMT DEF Unit
<1>2. v < 256 => Value(Bytes(v, 1)) = v
  BY <1>1 DEF Value, Part, Bytes
<1>3. v < 65536 => Value(Bytes(v, 2)) = v
  BY <1>1 DEF Value, Part, Bytes
<1>4. v < 16777216 => Value(Bytes(v, 3)) = v
  <2> DEFINE b == Bytes(v, 3)
  <2>1. DOMAIN b = 1..3 /\ b[1] = v % 256 /\ b[2] = (v \div 256) % 256 /\ b[3] = (v \div 65536) % 256
    BY <1>1 DEF Bytes
  <2> HIDE DEF b
  <2>2. Value(b) = (v % 256) + ((v \div 256) % 256) * 256 + ((v \div 65536) % 256) * 65536
    BY <1>1, <2>1 DEF Value, Part
  <2>3. v \div 65536 = (v \div 256) \div 256
    OBVIOUS
  <2>4. \A x \in Nat : x = (x \div 256) * 256 + (x % 256) /\ x \div 256 \in Nat /\ x % 256 \in Nat
    OBVIOUS
  <2>5. v < 16777216 => (v \div 256) \div 256 < 256
    OBVIOUS
  <2>6. v < 16777216 => ((v \div 256) \div 256) % 256 = (v \div 256) \div 256
    BY <2>4, <2>5
  <2>7. /\ v = (v \div 256) * 256 + (v % 256)
        /\ v \div 256 = ((v \div 256) \div 256) * 256 + ((v \div 256) % 256)
    BY <2>4
  <2>8. QED
    BY <2>2, <2>3, <2>6, <2>7 DEF b
<1>5. QED
  BY <1>2, <1>3, <1>4

\* The types that have an encoding.
IsInt(t) == t \in DOMAIN Width
IsFloat(t) == t \in {MySQL_FLOAT32, MySQL_DOUBLE}
Typed(t) ==
  IsInt(t) \/ IsFloat(t) \/ t = MySQL_NEWDECIMAL \/ t = MySQL_DATE \/ t = MySQL_STRING \/ t = MySQL_VARSTRING

\* A column is of one of them.
LEMMA TypesApart ==
  ASSUME NEW t
  PROVE  /\ IsInt(t) => ~ IsFloat(t) /\ t # MySQL_NEWDECIMAL /\ t # MySQL_DATE
                        /\ t # MySQL_STRING /\ t # MySQL_VARSTRING
         /\ IsFloat(t) => t # MySQL_NEWDECIMAL /\ t # MySQL_DATE /\ t # MySQL_STRING /\ t # MySQL_VARSTRING
         /\ t = MySQL_NEWDECIMAL => t # MySQL_DATE /\ t # MySQL_STRING /\ t # MySQL_VARSTRING
         /\ t = MySQL_DATE => t # MySQL_STRING /\ t # MySQL_VARSTRING
         /\ t = MySQL_STRING => t # MySQL_VARSTRING
BY WidthIs, OtherTypes DEF IsInt, IsFloat

Absolute(column, cell) ==
  <<cell.whole[1] + 128>> \o Tail(cell.whole) \o Bytes(cell.fraction, column.length - 6)

\* What a CSD makes of a cell, by its type,
LEMMA EncodedInteger ==
  ASSUME NEW column, NEW cell, IsInt(column.type)
  PROVE  Encoded(column, cell) = SubSeq(cell.bytes, 1, Width[column.type])
BY TypesApart, ZenonT(30) DEF Encoded, IsInt, IsFloat

LEMMA EncodedFloat ==
  ASSUME NEW column, NEW cell, IsFloat(column.type)
  PROVE  Encoded(column, cell) = <<cell.tenths>> \o Zeros(column.length - 1)
BY TypesApart, ZenonT(30) DEF Encoded, IsInt, IsFloat

LEMMA EncodedDecimal ==
  ASSUME NEW column, NEW cell, column.type = MySQL_NEWDECIMAL
  PROVE  Encoded(column, cell) =
           IF cell.negative THEN Complement(Absolute(column, cell)) ELSE Absolute(column, cell)
BY TypesApart, ZenonT(30) DEF Encoded, IsInt, IsFloat, Absolute

LEMMA EncodedDate ==
  ASSUME NEW column, NEW cell, column.type = MySQL_DATE
  PROVE  Encoded(column, cell) = Bytes(cell.day[1] * 512 + cell.day[2] * 32 + cell.day[3], 3)
BY TypesApart, ZenonT(30) DEF Encoded, IsInt, IsFloat

LEMMA EncodedString ==
  ASSUME NEW column, NEW cell, column.type = MySQL_STRING
  PROVE  Encoded(column, cell) = cell.chars \o [k \in 1..(column.length - Len(cell.chars)) |-> 32]
BY TypesApart, ZenonT(30) DEF Encoded, IsInt, IsFloat

LEMMA EncodedVarstring ==
  ASSUME NEW column, NEW cell, column.type = MySQL_VARSTRING
  PROVE  Encoded(column, cell) = Bytes(Len(cell.chars), Prefix(column.length)) \o cell.chars
BY TypesApart, ZenonT(30) DEF Encoded, IsInt, IsFloat, Prefix

LEMMA EncodedUntyped ==
  ASSUME NEW column, NEW cell, ~ Typed(column.type)
  PROVE  Encoded(column, cell) = Zeros(column.length)
BY ZenonT(30) DEF Encoded, Typed, IsInt, IsFloat

\* what mergeResult makes of that,
LEMMA DecodedInteger ==
  ASSUME NEW t, NEW bytes, IsInt(t)
  PROVE  Decoded(t, bytes) = <<[is |-> "int", bytes |-> Extended(SubSeq(bytes, 1, Width[t]))]>>
BY TypesApart, ZenonT(30) DEF Decoded, IsInt, IsFloat

LEMMA DecodedFloat ==
  ASSUME NEW t, NEW bytes, IsFloat(t)
  PROVE  Decoded(t, bytes) = <<[is |-> "float", tenths |-> bytes[1]]>>
BY TypesApart, ZenonT(30) DEF Decoded, IsInt, IsFloat

LEMMA DecodedAsDecimal ==
  ASSUME NEW bytes
  PROVE  Decoded(MySQL_NEWDECIMAL, bytes) = <<DecodedDecimal(bytes)>>
BY TypesApart, ZenonT(30) DEF Decoded, IsInt, IsFloat

LEMMA DecodedDate ==
  ASSUME NEW bytes
  PROVE  Decoded(MySQL_DATE, bytes) = <<[is |-> "int", bytes |-> Extended(bytes \o <<0>>)]>>
BY TypesApart, ZenonT(30) DEF Decoded, IsInt, IsFloat

LEMMA DecodedString ==
  ASSUME NEW bytes
  PROVE  Decoded(MySQL_STRING, bytes) = <<[is |-> "string", chars |-> Cut(bytes)]>>
BY TypesApart, ZenonT(30) DEF Decoded, IsInt, IsFloat

LEMMA DecodedVarstring ==
  ASSUME NEW bytes, NEW n, n = Len(bytes), NEW first, first = IF n < 258 THEN 2 ELSE 3
  PROVE  Decoded(MySQL_VARSTRING, bytes) = <<[is |-> "string", chars |-> Cut(SubSeq(bytes, first, n))]>>
BY TypesApart, ZenonT(30) DEF Decoded, IsInt, IsFloat

\* and how that is printed.
LEMMA KindBy ==
  ASSUME NEW t
  PROVE  /\ IsInt(t) => ColumnKind(t) = "TYPE_INT"
         /\ IsFloat(t) \/ t = MySQL_NEWDECIMAL => ColumnKind(t) = "TYPE_FLOAT"
         /\ t = MySQL_DATE => ColumnKind(t) = "TYPE_DATE"
         /\ t = MySQL_STRING \/ t = MySQL_VARSTRING => ColumnKind(t) = "TYPE_STRING"
         /\ ~ Typed(t) => ColumnKind(t) = "TYPE_EMPTY"
<1>1. IsInt(t) => ColumnKind(t) = "TYPE_INT"
  BY TypesApart, ZenonT(30) DEF ColumnKind, IsInt, IsFloat
<1>2. IsFloat(t) \/ t = MySQL_NEWDECIMAL => ColumnKind(t) = "TYPE_FLOAT"
  BY TypesApart, ZenonT(30) DEF ColumnKind, IsInt, IsFloat
<1>3. t = MySQL_DATE => ColumnKind(t) = "TYPE_DATE"
  BY TypesApart, ZenonT(30) DEF ColumnKind, IsInt, IsFloat
<1>4. t = MySQL_STRING \/ t = MySQL_VARSTRING => ColumnKind(t) = "TYPE_STRING"
  BY TypesApart, ZenonT(30) DEF ColumnKind, IsInt, IsFloat
<1>5. ~ Typed(t) => ColumnKind(t) = "TYPE_EMPTY"
  BY Zenon DEF ColumnKind, Typed, IsInt, IsFloat
<1>6. QED
  BY <1>1, <1>2, <1>3, <1>4, <1>5

\* What formatTable prints, by the kind of vector.
LEMMA PrintedBy ==
  ASSUME NEW column, NEW cell, NEW kind, kind = ColumnKind(column.type)
  PROVE  /\ kind = "TYPE_INT" => Printed(column, cell) = [cell EXCEPT !.bytes = Narrowed(@)]
         /\ kind = "TYPE_DATE" =>
              Printed(column, cell) =
                LET number == Signed(SubSeq(cell.bytes, 1, 4))
                IN  [is |-> "date", day |-> <<number \div 512, (number % 512) \div 32, (number % 512) % 32>>]
         /\ kind = "TYPE_FLOAT" =>
              Printed(column, cell) = IF cell.is = "float" /\ RealSize(column) = 0
                                      THEN [cell EXCEPT !.tenths = 10 * ((@ + 5) \div 10)] ELSE cell
         /\ kind = "TYPE_STRING" => Printed(column, cell) = cell
<1>0. /\ kind = "TYPE_INT" => kind # "TYPE_DATE" /\ kind # "TYPE_FLOAT" /\ kind # "TYPE_STRING"
      /\ kind = "TYPE_DATE" => kind # "TYPE_FLOAT" /\ kind # "TYPE_STRING"
      /\ kind = "TYPE_FLOAT" => kind # "TYPE_STRING"
  OBVIOUS
<1>1. kind = "TYPE_INT" => Printed(column, cell) = [cell EXCEPT !.bytes = Narrowed(@)]
  BY <1>0, ZenonT(30) DEF Printed
<1>2. kind = "TYPE_DATE" =>
        Printed(column, cell) =
          LET number == Signed(SubSeq(cell.bytes, 1, 4))
          IN  [is |-> "date", day |-> <<number \div 512, (number % 512) \div 32, (number % 512) % 32>>]
  BY <1>0, ZenonT(30) DEF Printed
<1>3. kind = "TYPE_FLOAT" =>
        Printed(column, cell) = IF cell.is = "float" /\ RealSize(column) = 0
                                THEN [cell EXCEPT !.tenths = 10 * ((@ + 5) \div 10)] ELSE cell
  BY <1>0, ZenonT(30) DEF Printed
<1>4. kind = "TYPE_STRING" => Printed(column, cell) = cell
  BY <1>0, ZenonT(30) DEF Printed
<1>5. QED
  BY <1>1, <1>2, <1>3, <1>4

------------------------------------------------------------------------------
(* Integers, what has no type, and floats.                                    *)

\* What getColOffset adds to `tune' for a column with these bytes.
Grown(column, bytes) ==
  IF column.type # MySQL_VARSTRING THEN 0
  ELSE Value(SubSeq(bytes, 1, Prefix(column.length))) + Prefix(column.length) - column.length

\* The bytes of a cell are as many as getColOffset finds,
Found(column, bytes) ==
  /\ bytes \in Seq(Int)
  /\ column.length \in Nat /\ Grown(column, bytes) \in Int
  /\ Len(bytes) = column.length + Grown(column, bytes)
  /\ column.type = MySQL_VARSTRING => Prefix(column.length) <= Len(bytes)

\* and what is made of them is printed as it was stored.
Back(column, cell, bytes) ==
  \E x : /\ Decoded(column.type, bytes) = <<x>>
         /\ ~ CellDeparts(column, cell) => Printed(column, x) = Stored(column, cell)

\* What is not of varying length is as long as declared.
LEMMA FixedFound ==
  ASSUME NEW column, NEW bytes \in Seq(Int), column.type # MySQL_VARSTRING,
         column.length \in Nat, Len(bytes) = column.length
  PROVE  Found(column, bytes)
<1>1. Grown(column, bytes) = 0
  BY DEF Grown
<1>2. Len(bytes) = column.length + 0 /\ 0 \in Int
  OBVIOUS
<1>3. QED
  BY <1>1, <1>2 DEF Found

Comes(column, cell) ==
  /\ Found(column, Encoded(column, cell))
  /\ Typed(column.type) => Back(column, cell, Encoded(column, cell))

\* A function on the first n numbers is a sequence of n.
LEMMA FunctionIsSeq ==
  ASSUME NEW S, NEW n \in Nat, NEW s \in [1..n -> S]
  PROVE  s \in Seq(S) /\ Len(s) = n
OBVIOUS

\* Sequences of numbers: one number again and again,
LEMMA SameAgain ==
  ASSUME NEW m \in Nat, NEW v \in Int
  PROVE  /\ [k \in 1..m |-> v] \in Seq(Int) /\ Len([k \in 1..m |-> v]) = m
         /\ \A k \in 1..m : [i \in 1..m |-> v][k] = v
OBVIOUS

\* the first of a sequence,
LEMMA FirstOf ==
  ASSUME NEW s \in Seq(Int), NEW n \in 0..Len(s)
  PROVE  /\ SubSeq(s, 1, n) \in Seq(Int) /\ Len(SubSeq(s, 1, n)) = n
         /\ \A k \in 1..n : SubSeq(s, 1, n)[k] = s[k]
<1>1. Len(s) \in Nat /\ \A i \in 1..n : s[i] \in Int
  OBVIOUS
<1>2. /\ SubSeq(s, 1, n) \in Seq(Int)
      /\ Len(SubSeq(s, 1, n)) = IF 1 <= n THEN n - 1 + 1 ELSE 0
      /\ \A k \in 1..(n - 1 + 1) : SubSeq(s, 1, n)[k] = s[1 + k - 1]
  BY <1>1, SubSeqProperties
<1>3. n - 1 + 1 = n /\ \A k \in 1..n : 1 + k - 1 = k
  BY <1>1
<1>4. QED
  BY <1>1, <1>2, <1>3

\* and an integer of 8 bytes.
Fill(bytes) == IF Last(bytes) < 128 THEN 0 ELSE 255

\* The bytes of an extended integer.
LEMMA ExtendedIs ==
  ASSUME NEW e \in Seq(Int), Len(e) \in 1..8
  PROVE  /\ Extended(e) \in Seq(Int) /\ Len(Extended(e)) = 8
         /\ \A k \in 1..8 : Extended(e)[k] = IF k <= Len(e) THEN e[k] ELSE Fill(e)
<1> DEFINE n == Len(e)
           rest == [k \in 1..(8 - n) |-> Fill(e)]
<1>1. n \in Nat /\ n \in 1..8 /\ 8 - n \in Nat
  <2>1. n \in 1..8
    OBVIOUS
  <2> HIDE DEF n
  <2>2. QED
    BY <2>1
<1>0. Fill(e) \in Int
  <2>1. Fill(e) \in {0, 255}
    BY DEF Fill
  <2>2. QED
    BY <2>1
<1>2. rest \in Seq(Int) /\ Len(rest) = 8 - n /\ \A k \in 1..(8 - n) : rest[k] = Fill(e)
  BY <1>0, <1>1, SameAgain
<1>3. Extended(e) = e \o rest
  BY DEF Extended, Fill
<1> HIDE DEF rest
<1>4. /\ e \o rest \in Seq(Int) /\ Len(e \o rest) = n + (8 - n)
      /\ \A i \in 1..(n + (8 - n)) : (e \o rest)[i] = IF i <= n THEN e[i] ELSE rest[i - n]
  <2>1. /\ e \o rest \in Seq(Int) /\ Len(e \o rest) = Len(e) + Len(rest)
        /\ \A i \in 1..(Len(e) + Len(rest)) : (e \o rest)[i] = IF i <= Len(e) THEN e[i] ELSE rest[i - Len(e)]
    BY <1>2, ConcatProperties
  <2>2. QED
    BY <1>2, <2>1
<1>5. n + (8 - n) = 8 /\ \A i \in 1..8 : i <= n \/ i - n \in 1..(8 - n)
  BY <1>1
<1>6. QED
  BY <1>2, <1>3, <1>4, <1>5

\* An integer in the width of its type.
LEMMA ShortStays ==
  ASSUME NEW e \in Seq(Int), Len(e) \in {1, 2, 4}
  PROVE  Narrowed(Extended(e)) = Extended(e)
<1> DEFINE n == Len(e)
           b == Extended(e)
           c == SubSeq(b, 1, 4)
<1>1. n \in {1, 2, 4}
  OBVIOUS
<1>2. b \in Seq(Int) /\ Len(b) = 8 /\ \A k \in 1..8 : b[k] = IF k <= n THEN e[k] ELSE Fill(e)
  BY ExtendedIs
<1> HIDE DEF b
<1>3. c \in Seq(Int) /\ Len(c) = 4 /\ \A k \in 1..4 : c[k] = b[k]
  <2>1. 4 \in 0..Len(b)
    BY <1>2
  <2>2. QED
    BY <1>2, <2>1, FirstOf
<1> HIDE DEF c, n
<1>4. Fill(c) = Fill(e)
  <2>1. Last(c) = b[4] /\ Last(e) = e[n]
    BY <1>3 DEF Last, n
  <2>2. CASE n = 4
    BY <1>2, <2>1, <2>2 DEF Fill
  <2>3. CASE n # 4
    BY <1>1, <1>2, <2>1, <2>3 DEF Fill
  <2>4. QED
    BY <2>2, <2>3
<1>5. /\ Extended(c) \in Seq(Int) /\ Len(Extended(c)) = 8
      /\ \A k \in 1..8 : Extended(c)[k] = IF k <= 4 THEN c[k] ELSE Fill(c)
  <2>1. Len(c) = 4 /\ Len(c) \in 1..8
    BY <1>3
  <2>2. QED
    BY <1>3, <2>1, ExtendedIs
<1>6. \A k \in 1..8 : Extended(c)[k] = b[k]
  <2>1. ASSUME NEW k \in 1..8, k <= 4 PROVE Extended(c)[k] = b[k]
    BY <1>3, <1>5, <2>1
  <2>2. ASSUME NEW k \in 1..8, ~ (k <= 4) PROVE Extended(c)[k] = b[k]
    <3>1. ~ (k <= n)
      BY <1>1, <2>2
    <3>2. QED
      BY <1>2, <1>4, <1>5, <2>2, <3>1
  <2>3. QED
    BY <2>1, <2>2
<1>7. Extended(c) = b
  BY <1>2, <1>5, <1>6, SeqEqual
<1>8. QED
  BY <1>7 DEF Narrowed, b, c

\* An integer comes back, if it is an int32 or shorter.
LEMMA IntegerComes ==
  ASSUME NEW column, NEW cell, CellFits(column, cell), IsInt(column.type)
  PROVE  Comes(column, cell)
<1> DEFINE t == column.type
           n == column.length
           e == SubSeq(cell.bytes, 1, n)
<1>1. /\ t \in DOMAIN Width /\ n = Width[t] /\ cell \in [is : {"int"}, bytes : [1..8 -> Byte]]
      /\ cell.bytes = Extended(e)
  BY DEF CellFits, IsInt, IntegerFits
<1>2. t # MySQL_VARSTRING /\ t # MySQL_STRING
  BY TypesApart
<1>3. n \in {1, 2, 4, 8} /\ (t # MySQL_INT64 => n # 8)
  BY <1>1, WidthIs DEF MySQL_INT64
<1>4. /\ cell.bytes \in Seq(Int) /\ Len(cell.bytes) = 8
      /\ cell = [is |-> "int", bytes |-> cell.bytes]
  <2> DEFINE b == cell.bytes
  <2>1. b \in [1..8 -> Byte] /\ cell = [is |-> "int", bytes |-> b]
    BY <1>1
  <2>2. Byte \subseteq Int
    BY DEF Byte
  <2> HIDE DEF b
  <2>3. b \in [1..8 -> Int]
    BY <2>1, <2>2
  <2>4. b \in Seq(Int) /\ Len(b) = 8
    BY <2>3, FunctionIsSeq
  <2>5. QED
    BY <2>1, <2>4 DEF b
<1>5. e \in Seq(Int) /\ Len(e) = n /\ SubSeq(e, 1, n) = e
  <2>1. e \in Seq(Int) /\ Len(e) = n
    BY <1>3, <1>4, FirstOf
  <2> HIDE DEF e, n
  <2>2. QED
    BY <2>1, SubSeqFull
<1>6. Encoded(column, cell) = e
  <2>1. Encoded(column, cell) = SubSeq(cell.bytes, 1, Width[t])
    BY EncodedInteger
  <2>2. QED
    BY <1>1, <2>1
<1> HIDE DEF e
<1>7. Found(column, e)
  <2>1. n \in Nat
    BY <1>3
  <2>2. QED
    BY <1>2, <1>5, <2>1, FixedFound
<1>8. Decoded(t, e) = <<cell>>
  <2>1. Decoded(t, e) = <<[is |-> "int", bytes |-> Extended(SubSeq(e, 1, Width[t]))]>>
    BY DecodedInteger
  <2>2. QED
    BY <1>1, <1>4, <1>5, <2>1
<1>9. ASSUME ~ CellDeparts(column, cell) PROVE Printed(column, cell) = Stored(column, cell)
  <2>1. Narrowed(cell.bytes) = cell.bytes
    <3>1. CASE t = MySQL_INT64
      BY <1>9, <3>1 DEF CellDeparts
    <3>2. CASE t # MySQL_INT64
      <4>1. Len(e) \in {1, 2, 4}
        BY <1>3, <1>5, <3>2
      <4>2. QED
        BY <1>1, <1>5, <4>1, ShortStays
    <3>3. QED
      BY <3>1, <3>2
  <2>2. Printed(column, cell) = [cell EXCEPT !.bytes = Narrowed(cell.bytes)]
    BY KindBy, PrintedBy
  <2>3. [cell EXCEPT !.bytes = cell.bytes] = cell
    BY <1>4
  <2>4. Stored(column, cell) = cell
    BY <1>2 DEF Stored
  <2>5. QED
    BY <2>1, <2>2, <2>3, <2>4
<1>10. QED
  BY <1>6, <1>7, <1>8, <1>9 DEF Comes, Back

\* Each byte of a number is one.
LEMMA BytesAreBytes ==
  ASSUME NEW v \in Nat, NEW n \in Nat
  PROVE  /\ Bytes(v, n) \in Seq(Int) /\ Len(Bytes(v, n)) = n
         /\ \A k \in 1..n : Bytes(v, n)[k] \in 0..255
<1>1. \A k \in 1..4 : Unit[k] \in Nat \ {0}
  BY SMT DEF Unit
<1>2. \A k \in 1..n : Bytes(v, n)[k] \in 0..255
  <2>1. SUFFICES ASSUME NEW k \in 1..n PROVE Bytes(v, n)[k] \in 0..255
    OBVIOUS
  <2>2. Bytes(v, n)[k] = IF k \in DOMAIN Unit THEN (v \div Unit[k]) % 256 ELSE 0
    BY DEF Bytes
  <2>3. CASE k \in DOMAIN Unit
    <3>1. k \in 1..4
      BY <2>3, SMT DEF Unit
    <3>2. v \div Unit[k] \in Nat
      BY <1>1, <3>1
    <3>3. QED
      BY <2>2, <2>3, <3>2
  <2>4. QED
    BY <2>2, <2>3
<1>3. Bytes(v, n) \in [1..n -> Int]
  <2>1. DOMAIN Bytes(v, n) = 1..n /\ Bytes(v, n) = [k \in 1..n |-> Bytes(v, n)[k]]
    BY DEF Bytes
  <2> DEFINE b == Bytes(v, n)
  <2> HIDE DEF b
  <2>2. DOMAIN b = 1..n /\ b = [k \in 1..n |-> b[k]]
    BY <2>1 DEF b
  <2>4. \A k \in 1..n : b[k] \in 0..255
    BY <1>2 DEF b
  <2>5. \A k \in 1..n : b[k] \in Int
    BY <2>4
  <2>3. b \in [1..n -> Int]
    BY <2>2, <2>5
  <2>6. QED
    BY <2>3 DEF b
<1>4. QED
  BY <1>2, <1>3, FunctionIsSeq

\* One sequence after another.
LEMMA Joined ==
  ASSUME NEW X, NEW s \in Seq(X), NEW r \in Seq(X)
  PROVE  /\ s \o r \in Seq(X) /\ Len(s \o r) = Len(s) + Len(r) /\ Len(s) \in Nat /\ Len(r) \in Nat
         /\ \A i \in 1..Len(s) : (s \o r)[i] = s[i]
         /\ \A i \in 1..Len(r) : (s \o r)[Len(s) + i] = r[i]
<1>1. Len(s) \in Nat /\ Len(r) \in Nat
  OBVIOUS
<1>2. /\ s \o r \in Seq(X) /\ Len(s \o r) = Len(s) + Len(r)
      /\ \A i \in 1..(Len(s) + Len(r)) : (s \o r)[i] = IF i <= Len(s) THEN s[i] ELSE r[i - Len(s)]
  BY ConcatProperties
<1>3. \A i \in 1..Len(s) : i \in 1..(Len(s) + Len(r)) /\ i <= Len(s)
  BY <1>1
<1>4. \A i \in 1..Len(r) : /\ Len(s) + i \in 1..(Len(s) + Len(r))
                           /\ ~ (Len(s) + i <= Len(s)) /\ (Len(s) + i) - Len(s) = i
  BY <1>1
<1>5. QED
  BY <1>1, <1>2, <1>3, <1>4

\* One sequence of numbers after another.
LEMMA After ==
  ASSUME NEW s \in Seq(Int), NEW r \in Seq(Int)
  PROVE  /\ s \o r \in Seq(Int) /\ Len(s \o r) = Len(s) + Len(r) /\ Len(s) \in Nat /\ Len(r) \in Nat
         /\ \A i \in 1..Len(s) : (s \o r)[i] = s[i]
         /\ \A i \in 1..Len(r) : (s \o r)[Len(s) + i] = r[i]
BY Joined

LEMMA UntypedComes ==
  ASSUME NEW column, NEW cell, CellFits(column, cell), ~ Typed(column.type)
  PROVE  Comes(column, cell)
<1>1. Encoded(column, cell) = Zeros(column.length)
  BY EncodedUntyped
<1>0. column.length \in Nat
  BY DEF CellFits
<1>2. Zeros(column.length) \in Seq(Int) /\ Len(Zeros(column.length)) = column.length
  BY <1>0, SameAgain DEF Zeros
<1>3. column.type # MySQL_VARSTRING
  BY DEF Typed
<1>4. QED
  BY <1>0, <1>1, <1>2, <1>3, FixedFound DEF Comes

\* A float in whole numbers comes back.
LEMMA FloatComes ==
  ASSUME NEW column, NEW cell, CellFits(column, cell), IsFloat(column.type)
  PROVE  Comes(column, cell)
<1> DEFINE n == column.length
           v == cell.tenths
           first == <<v>>
           e == first \o Zeros(n - 1)
<1>1. n \in Nat /\ n > 0 /\ cell \in [is : {"float"}, tenths : Int]
  BY DEF CellFits, IsFloat, FloatFits
<1>2. ~ IsInt(column.type) /\ column.type # MySQL_NEWDECIMAL /\ column.type # MySQL_STRING
      /\ column.type # MySQL_VARSTRING
  BY TypesApart
<1>3. Encoded(column, cell) = e
  BY EncodedFloat
<1>4. v \in Int /\ cell = [is |-> "float", tenths |-> v] /\ n - 1 \in Nat
  BY <1>1
<1>5. Zeros(n - 1) \in Seq(Int) /\ Len(Zeros(n - 1)) = n - 1
  BY <1>4, SameAgain DEF Zeros
<1>6. first \in Seq(Int) /\ Len(first) = 1 /\ first[1] = v
  BY <1>4
<1> HIDE DEF first
<1>7. e \in Seq(Int) /\ Len(e) = 1 + (n - 1) /\ e[1] = v
  <2>1. 1 \in 1..Len(first)
    BY <1>6
  <2> DEFINE z == Zeros(n - 1)
  <2>2. z \in Seq(Int) /\ Len(z) = n - 1
    BY <1>5
  <2> HIDE DEF z
  <2>3. first \o z \in Seq(Int) /\ Len(first \o z) = Len(first) + Len(z) /\ (first \o z)[1] = first[1]
    BY <1>6, <2>1, <2>2, After
  <2>4. QED
    BY <1>6, <2>2, <2>3 DEF z
<1>8. Len(e) = n
  BY <1>1, <1>7
<1> HIDE DEF e
<1>9. Found(column, e)
  BY <1>1, <1>2, <1>7, <1>8, FixedFound
<1>10. Decoded(column.type, e) = <<cell>>
  BY <1>4, <1>7, DecodedFloat
<1>11. ASSUME ~ CellDeparts(column, cell) PROVE Printed(column, cell) = Stored(column, cell)
  <2>1. v % 10 = 0
    BY <1>11 DEF CellDeparts, IsFloat
  <2>2. 10 * ((v + 5) \div 10) = v
    BY <1>4, <2>1
  <2>3. RealSize(column) = 0
    BY <1>2 DEF RealSize
  <2>4. Printed(column, cell) = [cell EXCEPT !.tenths = 10 * ((v + 5) \div 10)]
    BY <1>4, <2>3, KindBy, PrintedBy
  <2>5. [cell EXCEPT !.tenths = v] = cell
    BY <1>4
  <2>6. Stored(column, cell) = cell
    BY <1>2 DEF Stored
  <2>7. QED
    BY <2>2, <2>4, <2>5, <2>6
<1>12. QED
  BY <1>3, <1>9, <1>10, <1>11 DEF Comes, Back

------------------------------------------------------------------------------
(* Dates and texts.                                                           *)

\* A triple is of its parts.
LEMMA Triple ==
  ASSUME NEW A, NEW B, NEW C, NEW t \in A \X B \X C
  PROVE  t[1] \in A /\ t[2] \in B /\ t[3] \in C /\ t = <<t[1], t[2], t[3]>>
OBVIOUS

IsDate(cell) ==
  \E y \in Year, m \in Month, d \in Day : cell = [is |-> "date", day |-> <<y, m, d>>]

\* What CellFits says of each type.
LEMMA FitsDate ==
  ASSUME NEW column, NEW cell, CellFits(column, cell), column.type = MySQL_DATE
  PROVE  column.length = 3 /\ IsDate(cell)
<1> DEFINE day == cell.day
<1>1. DateFits(column, cell)
  BY DEF CellFits
<1>2. column.length = 3 /\ cell \in [is : {"date"}, day : Year \X Month \X Day]
  BY <1>1 DEF DateFits
<1>3. cell = [is |-> "date", day |-> day] /\ day \in Year \X Month \X Day
  BY <1>2
<1> HIDE DEF day
<1>4. day[1] \in Year /\ day[2] \in Month /\ day[3] \in Day /\ day = <<day[1], day[2], day[3]>>
  BY <1>3, Triple
<1>5. QED
  BY <1>2, <1>3, <1>4 DEF IsDate

\* Of the texts,
LEMMA FitsText ==
  ASSUME NEW column, NEW cell, CellFits(column, cell), column.type \in {MySQL_STRING, MySQL_VARSTRING}
  PROVE  /\ column.length \in Nat
         /\ cell \in [is : {"string"}, chars : Seq(1..255)]
         /\ column.type = MySQL_STRING => Len(cell.chars) <= column.length
         /\ column.type = MySQL_VARSTRING => Len(cell.chars) < 256 ^ Prefix(column.length)
<1>1. TextFits(column, cell) /\ column.length \in Nat
  BY DEF CellFits
<1>2. column.type = MySQL_VARSTRING => column.type # MySQL_STRING
  BY TypesApart
<1>3. QED
  BY <1>1, <1>2 DEF TextFits, Prefix

\* and of the decimals.
LEMMA FitsDecimal ==
  ASSUME NEW column, NEW cell, CellFits(column, cell), column.type = MySQL_NEWDECIMAL
  PROVE  /\ column.length \in Nat /\ column.length > 6
         /\ cell \in [is : {"decimal"}, negative : BOOLEAN, whole : [1..6 -> Byte], fraction : Nat]
         /\ cell.whole[1] < 128
         /\ column.length = 7 => cell.fraction < 100
         /\ column.length = 8 => cell.fraction < 10000
         /\ column.length = 9 => cell.fraction < 1000000
<1>1. DecimalFits(column, cell) /\ column.length \in Nat
  BY DEF CellFits
<1>2. 100 ^ 1 = 100 /\ 100 ^ 2 = 10000 /\ 100 ^ 3 = 1000000
  BY SMT
<1>3. QED
  BY <1>1, <1>2, SMT DEF DecimalFits

\* The number of a day, and what three bytes hold.
DayNumber(y, m, d) == y * 512 + m * 32 + d
ThreeBytes(v) == v \in Nat /\ v < 16777216

\* A day comes back from its number,
LEMMA DayComesBack ==
  ASSUME NEW y \in Year, NEW m \in Month, NEW d \in Day, NEW v, v = DayNumber(y, m, d)
  PROVE  ThreeBytes(v) /\ v \div 512 = y /\ (v % 512) \div 32 = m /\ (v % 512) % 32 = d
<1>1. y \in Nat /\ y < 10000 /\ m \in Nat /\ m < 13 /\ d \in Nat /\ d < 32
  BY SMT DEF Year, Month, Day
<1>2. m * 32 + d \in Nat /\ m * 32 + d < 512 /\ v = y * 512 + (m * 32 + d)
  BY <1>1, SMT DEF DayNumber
<1>3. v \in Nat /\ v < 16777216 /\ v \div 512 = y /\ v % 512 = m * 32 + d
  BY <1>1, <1>2, SMT
<1>4. (m * 32 + d) \div 32 = m /\ (m * 32 + d) % 32 = d
  BY <1>1, SMT
<1>5. QED
  BY <1>3, <1>4, SMT DEF ThreeBytes

\* which comes back from three bytes.
LEMMA ThreeBytesComeBack ==
  ASSUME NEW v, ThreeBytes(v), NEW e, e = Bytes(v, 3)
  PROVE  e \in Seq(Int) /\ Len(e) = 3 /\ Signed(SubSeq(Extended(e \o <<0>>), 1, 4)) = v
<1> DEFINE zero == <<0>>
           four == e \o zero
           c == SubSeq(Extended(four), 1, 4)
<1>1. v \in Nat /\ Value(e) = v
  BY BytesAreValue, SMT DEF ThreeBytes
<1>2. e \in Seq(Int) /\ Len(e) = 3
  BY <1>1, BytesAreBytes, ZenonT(20)
<1>3. zero \in Seq(Int) /\ Len(zero) = 1 /\ zero[1] = 0
  OBVIOUS
<1> HIDE DEF zero
<1>4. four \in Seq(Int) /\ Len(four) = 4 /\ four[4] = 0 /\ \A k \in 1..3 : four[k] = e[k]
  <2>1. /\ e \o zero \in Seq(Int) /\ Len(e \o zero) = Len(e) + Len(zero)
        /\ \A i \in 1..Len(e) : (e \o zero)[i] = e[i]
        /\ \A i \in 1..Len(zero) : (e \o zero)[Len(e) + i] = zero[i]
    BY <1>2, <1>3, After
  <2>4. 1 \in 1..Len(zero)
    BY <1>3
  <2>2. Len(e) + 1 = 4 /\ Len(e) + Len(zero) = 4
    <3>1. Len(e) = 3 /\ Len(zero) = 1
      BY <1>2, <1>3
    <3>2. 3 + 1 = 4
      OBVIOUS
    <3>3. QED
      BY <3>1, <3>2, Zenon
  <2>3. QED
    BY <1>2, <1>3, <2>1, <2>2, <2>4
<1> HIDE DEF four
<1>5. c = four
  <2>1. /\ Extended(four) \in Seq(Int) /\ Len(Extended(four)) = 8
        /\ \A k \in 1..8 : Extended(four)[k] = IF k <= Len(four) THEN four[k] ELSE Fill(four)
    <3>1. Len(four) \in 1..8
      BY <1>4
    <3>2. QED
      BY <1>4, <3>1, ExtendedIs
  <2>2. c \in Seq(Int) /\ Len(c) = 4 /\ \A k \in 1..4 : c[k] = Extended(four)[k]
    <3>1. 4 \in 0..Len(Extended(four))
      BY <2>1
    <3>2. QED
      BY <2>1, <3>1, FirstOf
  <2> HIDE DEF c
  <2>3. \A k \in 1..4 : c[k] = four[k]
    BY <1>4, <2>1, <2>2
  <2>4. QED
    BY <1>4, <2>2, <2>3, SeqEqual
<1>6. Signed(four) = Value(four)
  <2>1. Last(four) = 0
    BY <1>4 DEF Last
  <2>2. QED
    BY <2>1, SMT DEF Signed
<1>7. Value(four) = Value(e)
  <2>1. DOMAIN e = 1..3 /\ DOMAIN four = 1..4
    BY <1>2, <1>4
  <2>2. Part(four, 1) = Part(e, 1) /\ Part(four, 2) = Part(e, 2) /\ Part(four, 3) = Part(e, 3)
    BY <1>4, <2>1 DEF Part
  <2>3. Part(four, 4) = 0 /\ Part(e, 4) = 0
    BY <1>4, <2>1, SMT DEF Part, Unit
  <2>4. QED
    BY <2>2, <2>3 DEF Value
<1>8. QED
  BY <1>1, <1>2, <1>5, <1>6, <1>7 DEF four, zero

\* A date in three bytes.
LEMMA DateComes ==
  ASSUME NEW column, NEW cell, CellFits(column, cell), column.type = MySQL_DATE
  PROVE  Comes(column, cell)
<1>1. column.length = 3 /\ IsDate(cell)
  BY FitsDate
<1>2. PICK y \in Year, m \in Month, d \in Day : cell = [is |-> "date", day |-> <<y, m, d>>]
  BY <1>1 DEF IsDate
<1> DEFINE v == DayNumber(y, m, d)
           e == Bytes(v, 3)
           x == [is |-> "int", bytes |-> Extended(e \o <<0>>)]
<1>3. ThreeBytes(v)
  BY <1>2, DayComesBack
<1>4. Encoded(column, cell) = e
  <2>1. Encoded(column, cell) = Bytes(cell.day[1] * 512 + cell.day[2] * 32 + cell.day[3], 3)
    BY EncodedDate, SMT
  <2>2. cell.day[1] = y /\ cell.day[2] = m /\ cell.day[3] = d
    BY <1>2
  <2>3. QED
    BY <2>1, <2>2, SMT DEF DayNumber
<1> HIDE DEF v
<1>5. e \in Seq(Int) /\ Len(e) = 3 /\ Signed(SubSeq(x.bytes, 1, 4)) = v
  BY <1>3, ThreeBytesComeBack
<1>6. Decoded(column.type, e) = <<x>>
  BY DecodedDate
<1> HIDE DEF e, x
<1>7. Found(column, e)
  <2>1. column.type # MySQL_VARSTRING
    BY TypesApart
  <2>2. column.length \in Nat /\ Len(e) = column.length
    BY <1>1, <1>5
  <2>3. QED
    BY <1>5, <2>1, <2>2, FixedFound
<1>8. Printed(column, x) = Stored(column, cell)
  <2> DEFINE number == Signed(SubSeq(x.bytes, 1, 4))
  <2>1. Printed(column, x) = [is |-> "date", day |-> <<number \div 512, (number % 512) \div 32,
                                                       (number % 512) % 32>>]
    BY KindBy, PrintedBy, SMT
  <2>2. v \div 512 = y /\ (v % 512) \div 32 = m /\ (v % 512) % 32 = d
    BY <1>2, DayComesBack, SMT DEF v
  <2>3. number = v
    BY <1>5
  <2>4. Stored(column, cell) = cell
    BY TypesApart DEF Stored
  <2> HIDE DEF number
  <2>5. QED
    BY <1>2, <2>1, <2>2, <2>3, <2>4, SMT
<1>9. QED
  BY <1>4, <1>6, <1>7, <1>8 DEF Comes, Back

\* A text without a zero byte is not cut.
LEMMA NotCut ==
  ASSUME NEW s, \A k \in DOMAIN s : s[k] # 0
  PROVE  Cut(s) = s
<1>1. {k \in DOMAIN s : s[k] = 0} = {}
  OBVIOUS
<1>2. QED
  BY <1>1 DEF Cut

\* And a text that begins with a zero is cut to nothing.
LEMMA CutAtOnce ==
  ASSUME NEW s \in Seq(Int), Len(s) = 1, s[1] = 0
  PROVE  Cut(s) = <<>>
<1> DEFINE n == {k \in DOMAIN s : s[k] = 0}
           first == CHOOSE k \in n : \A j \in n : k <= j
<1>1. n = {1}
  OBVIOUS
<1>2. first = 1
  <2>1. \E k \in n : \A j \in n : k <= j
    BY <1>1
  <2>2. first \in n
    BY <2>1
  <2>3. QED
    BY <1>1, <2>2
<1>3. Cut(s) = SubSeq(s, 1, first - 1)
  <2>1. n # {}
    BY <1>1
  <2>2. QED
    BY <2>1, Zenon DEF Cut
<1> HIDE DEF first
<1>4. first - 1 < 1 /\ first - 1 \in Int
  BY <1>2
<1>5. QED
  BY <1>3, <1>4, SubSeqEmpty

\* The characters of a text.
IsText(chars) ==
  /\ chars \in Seq(Int) /\ DOMAIN chars = 1..Len(chars) /\ Len(chars) \in Nat
  /\ \A k \in 1..Len(chars) : chars[k] \in Int /\ chars[k] # 0

\* A stored text is one.
LEMMA TextIs ==
  ASSUME NEW column, NEW cell, CellFits(column, cell), column.type \in {MySQL_STRING, MySQL_VARSTRING}
  PROVE  cell = [is |-> "string", chars |-> cell.chars] /\ IsText(cell.chars)
<1> DEFINE Char == 1..255
           chars == cell.chars
<1>1. cell \in [is : {"string"}, chars : Seq(Char)]
  BY FitsText
<1>2. \A c \in Char : c \in Int /\ c # 0
  OBVIOUS
<1> HIDE DEF Char
<1>3. cell = [is |-> "string", chars |-> cell.chars] /\ chars \in Seq(Char)
  BY <1>1
<1> HIDE DEF chars
<1>4. DOMAIN chars = 1..Len(chars) /\ Len(chars) \in Nat /\ \A k \in 1..Len(chars) : chars[k] \in Char
  BY <1>3
<1>5. chars \in Seq(Int)
  BY <1>2, <1>3, SeqMonotonic
<1>6. IsText(chars)
  BY <1>2, <1>4, <1>5 DEF IsText
<1>7. QED
  BY <1>3, <1>6 DEF chars

\* What comes first and what comes after it.
LEMMA Halves ==
  ASSUME NEW s \in Seq(Int), NEW r \in Seq(Int), NEW p, p = Len(s)
  PROVE  SubSeq(s \o r, 1, p) = s /\ SubSeq(s \o r, p + 1, Len(s \o r)) = r
<1> DEFINE e == s \o r
           n == Len(r)
           a == SubSeq(e, 1, p)
           b == SubSeq(e, p + 1, p + n)
<1>1. /\ e \in Seq(Int) /\ Len(e) = p + n /\ p \in Nat /\ n \in Nat
      /\ \A i \in 1..p : e[i] = s[i]
      /\ \A i \in 1..n : e[p + i] = r[i]
  BY After
<1> HIDE DEF e, n
<1>2. a \in Seq(Int) /\ Len(a) = p /\ \A k \in 1..p : a[k] = e[k]
  <2>1. p \in 0..Len(e)
    BY <1>1
  <2>2. QED
    BY <1>1, <2>1, FirstOf
<1>3. a = s
  <2> HIDE DEF a
  <2>1. \A k \in 1..p : a[k] = s[k]
    BY <1>1, <1>2
  <2>2. QED
    BY <1>2, <2>1, SeqEqual
<1>4. b \in Seq(Int) /\ Len(b) = n /\ \A k \in 1..n : b[k] = e[p + k]
  <2>1. p + 1 \in Int /\ p + n \in Int /\ \A i \in (p + 1)..(p + n) : e[i] \in Int
    BY <1>1
  <2>2. /\ b \in Seq(Int)
        /\ Len(b) = IF p + 1 <= p + n THEN (p + n) - (p + 1) + 1 ELSE 0
        /\ \A i \in 1..((p + n) - (p + 1) + 1) : b[i] = e[(p + 1) + i - 1]
    BY <2>1, SubSeqProperties
  <2> HIDE DEF b
  <2>3. /\ (p + n) - (p + 1) + 1 = n /\ (IF p + 1 <= p + n THEN n ELSE 0) = n
        /\ \A i \in 1..n : (p + 1) + i - 1 = p + i
    BY <1>1
  <2>4. QED
    BY <2>2, <2>3
<1>5. b = r
  <2> HIDE DEF b
  <2>1. \A k \in 1..n : b[k] = r[k]
    BY <1>1, <1>4
  <2>2. Len(b) = Len(r)
    BY <1>4 DEF n
  <2>3. QED
    BY <1>4, <2>1, <2>2, SeqEqual DEF n
<1>6. QED
  BY <1>1, <1>3, <1>5 DEF e

\* A text of fixed length, with its padding.
LEMMA StringComes ==
  ASSUME NEW column, NEW cell, CellFits(column, cell), column.type = MySQL_STRING
  PROVE  Comes(column, cell)
<1> DEFINE n == column.length
           chars == cell.chars
           m == n - Len(chars)
           padding == [k \in 1..m |-> 32]
           e == chars \o padding
           x == [is |-> "string", chars |-> e]
<1>1. /\ n \in Nat /\ Len(chars) <= n /\ IsText(chars)
      /\ cell = [is |-> "string", chars |-> chars]
  BY FitsText, TextIs
<1>2. Encoded(column, cell) = e
  BY EncodedString
<1> HIDE DEF chars
<1>3. m \in Nat /\ chars \in Seq(Int) /\ Len(chars) + m = n
  BY <1>1 DEF IsText
<1> HIDE DEF m
<1>4. padding \in Seq(Int) /\ Len(padding) = m /\ \A k \in 1..m : padding[k] = 32
  BY <1>3, SameAgain
<1> HIDE DEF padding
<1>5. /\ e \in Seq(Int) /\ Len(e) = Len(chars) + Len(padding) /\ Len(chars) \in Nat
      /\ \A i \in 1..Len(chars) : e[i] = chars[i]
      /\ \A i \in 1..Len(padding) : e[Len(chars) + i] = padding[i]
  BY <1>3, <1>4, After
<1> HIDE DEF e
<1>6. Len(e) = n /\ DOMAIN e = 1..n
  BY <1>3, <1>4, <1>5
<1>7. Cut(e) = e
  <2>1. ASSUME NEW k \in DOMAIN e PROVE e[k] # 0
    <3>1. CASE k \in 1..Len(chars)
      BY <1>1, <1>5, <3>1 DEF IsText
    <3>2. CASE k \notin 1..Len(chars)
      <4>1. k - Len(chars) \in 1..m /\ Len(chars) + (k - Len(chars)) = k
        BY <1>3, <1>5, <1>6, <2>1, <3>2
      <4>2. QED
        BY <1>4, <1>5, <4>1
    <3>3. QED
      BY <3>1, <3>2
  <2>2. QED
    BY <2>1, NotCut
<1>8. Found(column, e)
  <2>1. column.type # MySQL_VARSTRING
    BY TypesApart
  <2>2. QED
    BY <1>1, <1>5, <1>6, <2>1, FixedFound
<1>9. Decoded(column.type, e) = <<x>>
  BY <1>7, DecodedString
<1>10. Printed(column, x) = x
  BY KindBy, PrintedBy
<1>11. Stored(column, cell) = x
  BY <1>1, <1>2 DEF Stored
<1>12. QED
  BY <1>2, <1>8, <1>9, <1>10, <1>11 DEF Comes, Back

\* A text with its length before it.
LEMMA VarstringComes ==
  ASSUME NEW column, NEW cell, CellFits(column, cell), column.type = MySQL_VARSTRING
  PROVE  Comes(column, cell)
<1> DEFINE n == column.length
           p == Prefix(n)
           chars == cell.chars
           l == Len(chars)
           before == Bytes(l, p)
           e == before \o chars
           first == IF Len(e) < 258 THEN 2 ELSE 3
           x == [is |-> "string", chars |-> Cut(SubSeq(e, first, Len(e)))]
<1>1. /\ n \in Nat /\ IsText(chars)
      /\ cell = [is |-> "string", chars |-> chars]
  BY FitsText, TextIs
<1>2. Encoded(column, cell) = e
  BY EncodedVarstring
<1>3. p = IF n < 256 THEN 1 ELSE 2
  BY DEF Prefix
<1>4. l < IF n < 256 THEN 256 ELSE 65536
  <2>1. l < 256 ^ p
    BY FitsText
  <2>2. 256 ^ 1 = 256 /\ 256 ^ 2 = 65536
    BY SMT
  <2> HIDE DEF p, l
  <2>3. QED
    BY <1>3, <2>1, <2>2, SMT
<1> HIDE DEF p, chars
<1>5. l \in Nat /\ chars \in Seq(Int) /\ p \in Nat
  BY <1>1, <1>3 DEF IsText
<1>6. before \in Seq(Int) /\ Len(before) = p /\ Value(before) = l
  <2>1. before \in Seq(Int) /\ Len(before) = p
    BY <1>5, BytesAreBytes
  <2>2. Value(before) = l
    BY <1>3, <1>4, <1>5, BytesAreValue, SMT
  <2>3. QED
    BY <2>1, <2>2
<1> HIDE DEF before, l
<1>7. /\ e \in Seq(Int) /\ Len(e) = p + l
      /\ SubSeq(e, 1, p) = before /\ SubSeq(e, p + 1, Len(e)) = chars
      /\ \A i \in 1..p : e[i] = before[i]
  <2>1. Len(chars) = l
    BY DEF l
  <2>2. SubSeq(e, 1, p) = before /\ SubSeq(e, p + 1, Len(e)) = chars
    BY <1>5, <1>6, Halves
  <2>3. e \in Seq(Int) /\ Len(e) = Len(before) + Len(chars) /\ \A i \in 1..Len(before) : e[i] = before[i]
    BY <1>5, <1>6, After
  <2>4. QED
    BY <1>6, <2>1, <2>2, <2>3
<1> HIDE DEF e
<1>8. Found(column, e)
  <2>1. Grown(column, e) = l + p - n
    BY <1>6, <1>7 DEF Grown, p
  <2>2. l + p - n \in Int /\ p + l = n + (l + p - n) /\ p <= p + l
    BY <1>1, <1>5
  <2>3. QED
    BY <1>1, <1>7, <2>1, <2>2 DEF Found, p
<1>9. Decoded(column.type, e) = <<x>>
  BY DecodedVarstring
<1>10. ASSUME ~ CellDeparts(column, cell) PROVE Cut(SubSeq(e, first, Len(e))) = chars
  <2>1. ~ (n >= 256 /\ chars # <<>> /\ l < 256)
    BY <1>10 DEF CellDeparts, chars, l
  <2>2. CASE first = p + 1
    <3>1. SubSeq(e, first, Len(e)) = chars
      BY <1>7, <2>2
    <3>2. \A k \in DOMAIN chars : chars[k] # 0
      BY <1>1 DEF IsText
    <3>3. QED
      BY <3>1, <3>2, NotCut
  <2>3. CASE first # p + 1
    <3>1. n >= 256 /\ p = 2 /\ l = 0 /\ first = 2 /\ Len(e) = 2
      <4>1. chars = <<>> => l = 0
        BY DEF l
      <4>2. CASE n < 256
        BY <1>3, <1>4, <1>5, <1>7, <2>3, <4>2, SMT
      <4>3. CASE ~ (n < 256)
        BY <1>1, <1>3, <1>5, <1>7, <2>1, <2>3, <4>1, <4>3, SMT
      <4>4. QED
        BY <4>2, <4>3
    <3>2. chars = <<>>
      BY <1>5, <3>1 DEF l
    <3>3. e[2] = 0
      <4>1. e[2] = before[2]
        BY <1>7, <3>1
      <4>2. before[2] = 0
        BY <3>1, SMT DEF before, Bytes, Unit
      <4>3. QED
        BY <4>1, <4>2
    <3> DEFINE s == SubSeq(e, 2, 2)
    <3>4. s \in Seq(Int) /\ Len(s) = 1 /\ s[1] = 0
      <4>1. \A i \in 2..2 : e[i] \in Int
        BY <3>3
      <4>2. /\ s \in Seq(Int) /\ Len(s) = IF 2 <= 2 THEN 2 - 2 + 1 ELSE 0
            /\ \A i \in 1..(2 - 2 + 1) : s[i] = e[2 + i - 1]
        BY <4>1, SubSeqProperties
      <4> HIDE DEF s
      <4>3. QED
        BY <3>3, <4>2
    <3> HIDE DEF s
    <3>5. Cut(s) = <<>>
      BY <3>4, CutAtOnce
    <3>6. QED
      BY <3>1, <3>2, <3>5 DEF s
  <2>4. QED
    BY <2>2, <2>3
<1>11. ASSUME ~ CellDeparts(column, cell) PROVE Printed(column, x) = Stored(column, cell)
  <2>1. Printed(column, x) = x
    BY KindBy, PrintedBy
  <2>2. x = cell
    BY <1>1, <1>10, <1>11
  <2>3. Stored(column, cell) = cell
    BY TypesApart DEF Stored
  <2>4. QED
    BY <2>1, <2>2, <2>3
<1>12. QED
  BY <1>2, <1>8, <1>9, <1>11 DEF Comes, Back

------------------------------------------------------------------------------
(* Decimals.                                                                  *)

\* Each byte of a complement is that of the original, twice over.
LEMMA ComplementTwice ==
  ASSUME NEW s \in Seq(Int)
  PROVE  /\ Complement(s) \in Seq(Int) /\ Len(Complement(s)) = Len(s)
         /\ Complement(Complement(s)) = s
         /\ \A k \in 1..Len(s) : Complement(s)[k] = 255 - s[k]
<1> DEFINE n == Len(s)
           c == Complement(s)
           cc == Complement(c)
<1>1. n \in Nat /\ DOMAIN s = 1..n /\ \A k \in 1..n : s[k] \in Int
  OBVIOUS
<1> HIDE DEF n
<1>2. c = [k \in 1..n |-> 255 - s[k]]
  BY <1>1 DEF Complement
<1> HIDE DEF c
<1>3. c \in Seq(Int) /\ Len(c) = n /\ DOMAIN c = 1..n /\ \A k \in 1..n : c[k] = 255 - s[k]
  BY <1>1, <1>2
<1>4. cc = [k \in 1..n |-> 255 - c[k]]
  BY <1>3 DEF Complement
<1> HIDE DEF cc
<1>5. cc \in Seq(Int) /\ Len(cc) = n /\ \A k \in 1..n : cc[k] = s[k]
  BY <1>1, <1>3, <1>4
<1>6. cc = s
  BY <1>5, SeqEqual DEF n
<1>7. QED
  BY <1>3, <1>6 DEF c, cc, n

\* The fraction of a decimal: one or two bytes are read with a sign, three without.
FractionOf(after, n) == IF n = 3 THEN Value(after) ELSE Signed(after)

IsFraction(f, n) == (n = 1 /\ f < 100) \/ (n = 2 /\ f < 10000) \/ (n = 3 /\ f < 1000000)

\* A fraction comes back from its bytes.
LEMMA FractionComesBack ==
  ASSUME NEW f \in Nat, NEW n \in Nat, IsFraction(f, n), NEW after, after = Bytes(f, n)
  PROVE  FractionOf(after, n) = f
<1>1. Value(after) = f
  BY BytesAreValue, SMT DEF IsFraction
<1>2. CASE n = 3
  BY <1>1, <1>2 DEF FractionOf
<1>3. CASE n = 1 \/ n = 2
  <2>1. Len(after) = n
    BY BytesAreBytes
  <2>2. Last(after) = after[n]
    BY <2>1 DEF Last
  <2>3. after[n] < 128
    <3>1. CASE n = 1
      <4>1. after[1] = (f \div 1) % 256
        BY <3>1, SMT DEF Bytes, Unit
      <4>3. f < 100
        BY <3>1, SMT DEF IsFraction
      <4>2. QED
        BY <3>1, <4>1, <4>3, SMT
    <3>2. CASE n = 2
      <4>1. after[2] = (f \div 256) % 256
        BY <3>2, SMT DEF Bytes, Unit
      <4>2. f < 10000
        BY <3>2, SMT DEF IsFraction
      <4>3. f \div 256 < 40
        BY <4>2, SMT
      <4>4. QED
        BY <3>2, <4>1, <4>3, SMT
    <3>3. QED
      BY <1>3, <3>1, <3>2, SMT
  <2>4. Signed(after) = f
    BY <1>1, <2>2, <2>3, SMT DEF Signed
  <2>5. n # 3
    BY <1>3, SMT
  <2>6. QED
    BY <2>4, <2>5, SMT DEF FractionOf
<1>4. QED
  BY <1>2, <1>3, SMT DEF IsFraction

\* What DecodedDecimal takes the bytes for.
IsDecimal(cell, w, f) ==
  /\ w \in Seq(Int) /\ Len(w) = 6 /\ w[1] >= 0 /\ w[1] < 128 /\ f \in Nat /\ cell.negative \in BOOLEAN
  /\ cell = [is |-> "decimal", negative |-> cell.negative, whole |-> w, fraction |-> f]

\* A stored decimal is one.
LEMMA DecimalIs ==
  ASSUME NEW column, NEW cell, CellFits(column, cell), column.type = MySQL_NEWDECIMAL
  PROVE  /\ column.length \in Nat /\ column.length > 6
         /\ IsDecimal(cell, cell.whole, cell.fraction)
         /\ column.length \in {7, 8, 9} => IsFraction(cell.fraction, column.length - 6)
<1> DEFINE w == cell.whole
<1>1. /\ column.length \in Nat /\ column.length > 6 /\ w[1] < 128
      /\ cell \in [is : {"decimal"}, negative : BOOLEAN, whole : [1..6 -> Byte], fraction : Nat]
  BY FitsDecimal, SMT
<1>2. w \in [1..6 -> Byte] /\ cell.fraction \in Nat /\ cell.negative \in BOOLEAN
  BY <1>1
<1>3. cell = [is |-> "decimal", negative |-> cell.negative, whole |-> w, fraction |-> cell.fraction]
  BY <1>1
<1>4. w \in Seq(Int) /\ Len(w) = 6 /\ w[1] >= 0
  <2> HIDE DEF w
  <2>1. Byte \subseteq Int /\ \A b \in Byte : b >= 0
    BY DEF Byte
  <2>2. w \in Seq(Byte) /\ Len(w) = 6
    <3>1. 6 \in Nat
      OBVIOUS
    <3>2. QED
      BY <1>2, <3>1, FunctionIsSeq, Zenon
  <2>3. w[1] \in Byte
    BY <1>2
  <2>4. QED
    BY <2>1, <2>2, <2>3, SeqMonotonic
<1>5. column.length \in {7, 8, 9} => IsFraction(cell.fraction, column.length - 6)
  BY FitsDecimal, SMT DEF IsFraction
<1>6. IsDecimal(cell, w, cell.fraction)
  <2> HIDE DEF w
  <2>1. QED
    BY <1>1, <1>2, <1>3, <1>4 DEF IsDecimal
<1>7. QED
  BY <1>1, <1>5, <1>6

\* One number before a sequence.
Before(a, r) == <<a>> \o r

Begins(s, a, r) ==
  s \in Seq(Int) /\ Len(s) = 1 + Len(r) /\ s[1] = a /\ \A k \in 1..Len(r) : s[k + 1] = r[k]

\* Its members.
LEMMA OneBefore ==
  ASSUME NEW a \in Int, NEW r \in Seq(Int)
  PROVE  Begins(Before(a, r), a, r)
<1> DEFINE one == <<a>>
           s == one \o r
<1>1. one \in Seq(Int) /\ Len(one) = 1 /\ one[1] = a
  OBVIOUS
<1> HIDE DEF one
<1>2. /\ s \in Seq(Int) /\ Len(s) = Len(one) + Len(r) /\ Len(r) \in Nat
      /\ \A i \in 1..Len(one) : s[i] = one[i]
      /\ \A i \in 1..Len(r) : s[Len(one) + i] = r[i]
  BY <1>1, After, Zenon
<1> HIDE DEF s
<1>3. 1 \in 1..1 /\ \A k \in 1..Len(r) : 1 + k = k + 1
  BY <1>2
<1>4. Begins(s, a, r)
  BY <1>1, <1>2, <1>3 DEF Begins
<1>5. QED
  BY <1>4 DEF s, one, Before

\* The bytes of a decimal without its sign: the seventh is the first after the point.
LEMMA AbsoluteIs ==
  ASSUME NEW column, NEW cell, NEW w, NEW f, IsDecimal(cell, w, f), NEW m \in Nat, column.length = 6 + m,
         NEW a, a = Absolute(column, cell)
  PROVE  /\ a \in Seq(Int) /\ Len(a) = 6 + m
         /\ a[1] = w[1] + 128 /\ \A k \in 2..6 : a[k] = w[k]
         /\ SubSeq(a, 7, 6 + m) = Bytes(f, m)
<1> DEFINE one == <<w[1] + 128>>
           six == one \o Tail(w)
           after == Bytes(f, m)
<1>1. w \in Seq(Int) /\ Len(w) = 6 /\ w[1] >= 0 /\ f \in Nat /\ cell.whole = w /\ cell.fraction = f
  BY DEF IsDecimal
<1>2. column.length - 6 = m
  OBVIOUS
<1>3. a = six \o after
  BY <1>1, <1>2, Zenon DEF Absolute
<1>4. Tail(w) \in Seq(Int) /\ Len(Tail(w)) = 5 /\ \A k \in 1..5 : Tail(w)[k] = w[k + 1]
  <2>1. w # <<>>
    BY <1>1
  <2>2. Tail(w) \in Seq(Int) /\ Len(Tail(w)) = Len(w) - 1 /\ \A i \in 1..Len(Tail(w)) : Tail(w)[i] = w[i + 1]
    BY <1>1, <2>1, HeadTailProperties
  <2>3. Len(Tail(w)) = 5
    BY <1>1, <2>2
  <2>4. QED
    BY <2>2, <2>3
<1>5. w[1] + 128 \in Int
  BY <1>1
<1>6. six \in Seq(Int) /\ Len(six) = 6 /\ six[1] = w[1] + 128 /\ \A k \in 2..6 : six[k] = w[k]
  <2>1. /\ six \in Seq(Int) /\ Len(six) = 1 + Len(Tail(w)) /\ six[1] = w[1] + 128
        /\ \A k \in 1..Len(Tail(w)) : six[k + 1] = Tail(w)[k]
    <3>1. Begins(Before(w[1] + 128, Tail(w)), w[1] + 128, Tail(w))
      BY <1>4, <1>5, OneBefore, Zenon
    <3>2. QED
      BY <3>1, Zenon DEF Begins, Before
  <2> DEFINE rest == Tail(w)
  <2> HIDE DEF six, rest
  <2>6. Len(rest) = 5 /\ 1 + 5 = 6
    BY <1>4 DEF rest
  <2>7. Len(six) = 1 + Len(rest) /\ \A k \in 1..Len(rest) : six[k + 1] = rest[k]
    BY <2>1 DEF rest
  <2>8. \A k \in 1..5 : rest[k] = w[k + 1]
    BY <1>4 DEF rest
  <2>2. Len(six) = 6 /\ \A k \in 1..5 : six[k + 1] = w[k + 1]
    BY <2>6, <2>7, <2>8, Zenon
  <2>3. \A k \in 2..6 : k - 1 \in 1..5 /\ (k - 1) + 1 = k
    OBVIOUS
  <2>4. \A k \in 2..6 : six[k] = w[k]
    BY <2>2, <2>3
  <2>5. QED
    BY <2>1, <2>2, <2>4
<1> HIDE DEF six
<1>7. after \in Seq(Int) /\ Len(after) = m
  BY <1>1, BytesAreBytes
<1> HIDE DEF after
<1>8. /\ six \o after \in Seq(Int) /\ Len(six \o after) = 6 + m
      /\ \A i \in 1..6 : (six \o after)[i] = six[i]
  <2>1. /\ six \o after \in Seq(Int) /\ Len(six \o after) = Len(six) + Len(after)
        /\ \A i \in 1..Len(six) : (six \o after)[i] = six[i]
    <3>1. six \in Seq(Int) /\ after \in Seq(Int)
      BY <1>6, <1>7
    <3>2. QED
      BY <3>1, After, Zenon
  <2>2. QED
    BY <1>6, <1>7, <2>1
<1>9. SubSeq(six \o after, 7, 6 + m) = after
  <2>1. SubSeq(six \o after, 6 + 1, Len(six \o after)) = after
    BY <1>6, <1>7, Halves
  <2>2. 6 + 1 = 7
    OBVIOUS
  <2>3. QED
    BY <1>8, <2>1, <2>2, Zenon
<1>10. a \in Seq(Int) /\ Len(a) = 6 + m /\ \A i \in 1..6 : a[i] = six[i]
  BY <1>3, <1>8
<1>11. a[1] = w[1] + 128 /\ \A k \in 2..6 : a[k] = w[k]
  BY <1>6, <1>10
<1>12. SubSeq(a, 7, 6 + m) = Bytes(f, m)
  BY <1>3, <1>9, Zenon DEF after
<1>13. QED
  BY <1>10, <1>11, <1>12

\* The bytes of a decimal that are decoded.
Taken(bytes) ==
  IF bytes[1] < 128 THEN Complement(SubSeq(bytes, 1, 7)) \o SubSeq(bytes, 8, Len(bytes)) ELSE bytes

DecimalOf(bytes, n, b, after, negative) ==
  DecodedDecimal(bytes) =
    [is |-> "decimal", negative |-> negative,
     whole |-> <<(b[1] + 128) % 256>> \o SubSeq(b, 2, 6), fraction |-> FractionOf(after, n - 6)]

\* What DecodedDecimal makes of the bytes it takes.
LEMMA DecodedDecimalIs ==
  ASSUME NEW bytes, NEW n, n = Len(bytes), n \in {7, 8, 9}, NEW b, b = Taken(bytes), NEW after, after = SubSeq(b, 7, n),
         NEW negative, negative = (bytes[1] < 128)
  PROVE  DecimalOf(bytes, n, b, after, negative)
<1>1. FractionOf(after, n - 6) = IF n = 9 THEN Value(after) ELSE Signed(after)
  <2>1. n - 6 = 3 <=> n = 9
    OBVIOUS
  <2>2. QED
    BY <2>1, Zenon DEF FractionOf
<1>2. QED
  BY <1>1, ZenonT(30) DEF DecodedDecimal, Taken, DecimalOf

\* A sequence of numbers has a number at each place.
LEMMA NumberAt ==
  ASSUME NEW s \in Seq(Int), NEW k \in 1..Len(s)
  PROVE  s[k] \in Int
OBVIOUS

\* The first bit, set and taken away.
LEMMA SignBit ==
  ASSUME NEW v \in Int, v >= 0, v < 128
  PROVE  ((v + 128) + 128) % 256 = v
OBVIOUS

\* A sequence of six from its first and the five after it.
LEMMA SixIs ==
  ASSUME NEW v \in Int, NEW rest \in Seq(Int), Len(rest) = 5, NEW w \in Seq(Int), Len(w) = 6,
         v = w[1], \A k \in 1..5 : rest[k] = w[k + 1]
  PROVE  <<v>> \o rest = w
<1> DEFINE s == <<v>> \o rest
<1>1. s \in Seq(Int) /\ Len(s) = 1 + Len(rest) /\ s[1] = v /\ \A k \in 1..Len(rest) : s[k + 1] = rest[k]
  <2>1. Begins(Before(v, rest), v, rest)
    BY OneBefore
  <2>2. QED
    BY <2>1, Zenon DEF Begins, Before
<1> HIDE DEF s
<1>2. Len(s) = 6
  BY <1>1
<1>3. ASSUME NEW k \in 1..6 PROVE s[k] = w[k]
  <2>1. CASE k = 1
    BY <1>1, <2>1
  <2>2. CASE k # 1
    <3>1. k - 1 \in 1..5 /\ (k - 1) + 1 = k
      BY <2>2
    <3>2. s[(k - 1) + 1] = rest[k - 1] /\ rest[k - 1] = w[(k - 1) + 1]
      BY <1>1, <3>1
    <3>3. QED
      BY <3>1, <3>2, Zenon
  <2>3. QED
    BY <2>1, <2>2
<1>4. s = w
  BY <1>1, <1>2, <1>3, SeqEqual
<1>5. QED
  BY <1>4 DEF s

\* The six bytes before the point.
SixOf(w) == w \in Seq(Int) /\ Len(w) = 6 /\ w[1] >= 0 /\ w[1] < 128

\* They, with the first bit set.
IsSet(a, w) == a[1] = w[1] + 128 /\ \A k \in 2..6 : a[k] = w[k]

\* They come back without it.
LEMMA WholeComesBack ==
  ASSUME NEW w, SixOf(w), NEW a \in Seq(Int), Len(a) >= 6, IsSet(a, w)
  PROVE  <<(a[1] + 128) % 256>> \o SubSeq(a, 2, 6) = w
<1> DEFINE v == (a[1] + 128) % 256
           rest == SubSeq(a, 2, 6)
<1> HIDE DEF v, rest
<1>1. w \in Seq(Int) /\ Len(w) = 6 /\ w[1] >= 0 /\ w[1] < 128
  BY Zenon DEF SixOf
<1>2. w[1] \in Int
  <2>1. 1 \in 1..6
    OBVIOUS
  <2>2. QED
    BY <1>1, <2>1, NumberAt, Zenon
<1>3. v = w[1]
  <2>1. v = ((w[1] + 128) + 128) % 256
    BY Zenon DEF v, IsSet
  <2>2. QED
    BY <1>1, <1>2, <2>1, SignBit, Zenon
<1>4. rest \in Seq(Int) /\ Len(rest) = 5 /\ \A i \in 1..5 : rest[i] = a[i + 1]
  <2>1. \A i \in 2..6 : a[i] \in Int
    OBVIOUS
  <2>2. /\ rest \in Seq(Int) /\ Len(rest) = IF 2 <= 6 THEN 6 - 2 + 1 ELSE 0
        /\ \A i \in 1..(6 - 2 + 1) : rest[i] = a[2 + i - 1]
    BY <2>1, SubSeqProperties DEF rest
  <2>3. 6 - 2 + 1 = 5 /\ \A i \in 1..5 : 2 + i - 1 = i + 1
    OBVIOUS
  <2>4. QED
    BY <2>2, <2>3
<1>5. \A k \in 1..5 : rest[k] = w[k + 1]
  <2>1. \A k \in 2..6 : a[k] = w[k]
    BY DEF IsSet
  <2>2. \A k \in 1..5 : k + 1 \in 2..6
    OBVIOUS
  <2>3. QED
    BY <1>4, <2>1, <2>2
<1>6. <<v>> \o rest = w
  BY <1>1, <1>2, <1>3, <1>4, <1>5, SixIs
<1>7. QED
  BY <1>6 DEF v, rest

\* All the bytes of a decimal are decoded, unless it is negative and longer than seven.
LEMMA TakenIs ==
  ASSUME NEW cell, NEW w, NEW f, IsDecimal(cell, w, f), NEW m \in Nat, m > 0, cell.negative => m = 1,
         NEW a \in Seq(Int), Len(a) = 6 + m, a[1] = w[1] + 128,
         NEW e, e = IF cell.negative THEN Complement(a) ELSE a
  PROVE  Taken(e) = a /\ (e[1] < 128) = cell.negative
<1>1. w[1] \in Int /\ w[1] >= 0 /\ w[1] < 128 /\ cell.negative \in BOOLEAN
  <2>1. w \in Seq(Int) /\ Len(w) = 6 /\ w[1] >= 0 /\ w[1] < 128 /\ cell.negative \in BOOLEAN
    BY Zenon DEF IsDecimal
  <2>2. w[1] \in Int
    <3>0. 1 \in 1..6
      OBVIOUS
    <3>1. 1 \in 1..Len(w)
      BY <2>1, <3>0, Zenon
    <3>2. QED
      BY <2>1, <3>1, NumberAt
  <2>3. QED
    BY <2>1, <2>2
<1>2. CASE cell.negative
  <2>1. m = 1 /\ e = Complement(a) /\ Len(a) = 7
    BY <1>2
  <2>2. e \in Seq(Int) /\ Len(e) = 7 /\ Complement(e) = a /\ e[1] = 255 - a[1]
    <3>1. 1 \in 1..Len(a)
      BY <2>1
    <3>2. /\ Complement(a) \in Seq(Int) /\ Len(Complement(a)) = Len(a)
          /\ Complement(Complement(a)) = a
          /\ \A k \in 1..Len(a) : Complement(a)[k] = 255 - a[k]
      BY ComplementTwice
    <3>3. QED
      BY <2>1, <3>1, <3>2
  <2>3. e[1] < 128
    BY <1>1, <2>2
  <2>4. SubSeq(e, 1, 7) = e
    BY <2>2, SubSeqFull
  <2>5. SubSeq(e, 8, 7) = <<>>
    BY <2>2, SubSeqEmpty
  <2>6. a \o <<>> = a
    OBVIOUS
  <2>7. Taken(e) = a
    BY <2>2, <2>3, <2>4, <2>5, <2>6, Zenon DEF Taken
  <2>8. (e[1] < 128) = TRUE /\ cell.negative = TRUE
    BY <1>1, <1>2, <2>3
  <2>9. QED
    BY <2>7, <2>8
<1>3. CASE ~ cell.negative
  <2>1. e = a
    BY <1>3
  <2>2. ~ (e[1] < 128)
    BY <1>1, <2>1
  <2>3. Taken(e) = a
    BY <2>1, <2>2, Zenon DEF Taken
  <2>4. (e[1] < 128) = FALSE /\ cell.negative = FALSE
    BY <1>1, <1>3, <2>2
  <2>5. QED
    BY <2>3, <2>4
<1>4. QED
  BY <1>2, <1>3

\* A decimal.
LEMMA DecimalComes ==
  ASSUME NEW column, NEW cell, CellFits(column, cell), column.type = MySQL_NEWDECIMAL
  PROVE  Comes(column, cell)
<1> DEFINE w == cell.whole
           f == cell.fraction
           n == column.length
           m == n - 6
           a == Absolute(column, cell)
           e == Encoded(column, cell)
           x == DecodedDecimal(e)
<1>1. n \in Nat /\ n > 6 /\ IsDecimal(cell, w, f) /\ (n \in {7, 8, 9} => IsFraction(f, m))
  BY DecimalIs
<1> HIDE DEF w, f
<1>2. m \in Nat /\ m > 0 /\ n = 6 + m
  BY <1>1
<1> HIDE DEF m
<1>3. /\ a \in Seq(Int) /\ Len(a) = 6 + m
      /\ a[1] = w[1] + 128 /\ \A k \in 2..6 : a[k] = w[k]
      /\ SubSeq(a, 7, 6 + m) = Bytes(f, m)
  <2>1. column.length = 6 + m
    BY <1>2
  <2> HIDE DEF n, e, x
  <2>2. QED
    BY <1>1, <1>2, <2>1, AbsoluteIs, SMTT(30)
<1>4. e = IF cell.negative THEN Complement(a) ELSE a
  BY EncodedDecimal
<1> HIDE DEF a, e
<1>5. e \in Seq(Int) /\ Len(e) = n
  BY <1>2, <1>3, <1>4, ComplementTwice
<1>6. Found(column, e)
  <2>1. column.type # MySQL_VARSTRING
    BY TypesApart
  <2>2. QED
    BY <1>1, <1>5, <2>1, FixedFound
<1>7. Decoded(column.type, e) = <<x>>
  BY DecodedAsDecimal
<1>8. ASSUME ~ CellDeparts(column, cell) PROVE x = cell
  <2>1. n \in {7, 8, 9} /\ (cell.negative => n = 7)
    BY <1>8 DEF CellDeparts
  <2>2. cell.negative => m = 1
    BY <1>2, <2>1
  <2>3. Taken(e) = a /\ (e[1] < 128) = cell.negative
    BY <1>1, <1>2, <1>3, <1>4, <2>2, TakenIs, SMTT(30)
  <2> DEFINE after == SubSeq(a, 7, n)
             whole == <<(a[1] + 128) % 256>> \o SubSeq(a, 2, 6)
  <2>4. x = [is |-> "decimal", negative |-> cell.negative, whole |-> whole, fraction |-> FractionOf(after, n - 6)]
    <3>1. n = Len(e) /\ n \in {7, 8, 9}
      BY <1>5, <2>1
    <3>2. a = Taken(e) /\ cell.negative = (e[1] < 128)
      BY <2>3
    <3>3. after = SubSeq(a, 7, n)
      OBVIOUS
    <3> HIDE DEF n, after
    <3>4. DecimalOf(e, n, a, after, cell.negative)
      BY <3>1, <3>2, <3>3, DecodedDecimalIs, Zenon
    <3>5. QED
      BY <3>4, Zenon DEF DecimalOf
  <2>5. whole = w
    <3>1. SixOf(w)
      BY <1>1, Zenon DEF IsDecimal, SixOf
    <3>2. Len(a) >= 6 /\ a \in Seq(Int)
      BY <1>2, <1>3
    <3>3. IsSet(a, w)
      BY <1>3, Zenon DEF IsSet
    <3>4. QED
      BY <3>1, <3>2, <3>3, WholeComesBack, Zenon
  <2>6. after = Bytes(f, m)
    BY <1>2, <1>3
  <2> HIDE DEF after, whole
  <2>7. FractionOf(after, m) = f
    <3>1. f \in Nat /\ IsFraction(f, m)
      BY <1>1, <2>1 DEF IsDecimal
    <3>2. QED
      BY <1>2, <2>6, <3>1, FractionComesBack
  <2>8. cell = [is |-> "decimal", negative |-> cell.negative, whole |-> w, fraction |-> f]
    BY <1>1 DEF IsDecimal
  <2>9. QED
    BY <2>4, <2>5, <2>7, <2>8 DEF m
<1> HIDE DEF x
<1>9. ASSUME ~ CellDeparts(column, cell) PROVE Printed(column, x) = Stored(column, cell)
  <2>1. x = cell
    BY <1>8, <1>9
  <2>2. cell.is = "decimal"
    BY <1>1 DEF IsDecimal
  <2>3. Printed(column, cell) = cell
    BY <2>2, KindBy, PrintedBy
  <2>4. Stored(column, cell) = cell
    BY TypesApart DEF Stored
  <2>5. QED
    BY <2>1, <2>3, <2>4
<1>10. QED
  BY <1>6, <1>7, <1>9 DEF Comes, Back, e

\* Whatever fits a column comes back from what a CSD makes of it.
LEMMA CellComes ==
  ASSUME NEW column, NEW cell, CellFits(column, cell)
  PROVE  Comes(column, cell)
BY UntypedComes, IntegerComes, FloatComes, DecimalComes, DateComes, StringComes, VarstringComes DEF Typed

------------------------------------------------------------------------------
(* Recursion, and where a sequence is in a flattened one.                     *)

\* Induction over numbers, for a set of them.
LEMMA Inductive ==
  ASSUME NEW S, 0 \in S, \A n \in Nat : n \in S => n + 1 \in S
  PROVE  \A n \in Nat : n \in S
<1> SUFFICES ASSUME NEW m \in Nat, m \notin S PROVE FALSE
  OBVIOUS
<1> DEFINE T == Nat \ S
<1>1. IsWellFoundedOn(OpToRel(<, Nat), Nat)
  BY NatLessThanWellFounded
<1>2. PICK x \in T : \A y \in T : ~ (<<y, x>> \in OpToRel(<, Nat))
  <2>1. T \subseteq Nat /\ T # {}
    OBVIOUS
  <2> HIDE DEF T
  <2>2. QED
    BY <1>1, <2>1, WFMin
<1>3. x - 1 \in Nat /\ x - 1 \in T
  OBVIOUS
<1>4. <<x - 1, x>> \in OpToRel(<, Nat)
  BY <1>3 DEF OpToRel
<1>5. QED
  BY <1>2, <1>3, <1>4

\* A step of a recursion: from what is made so far and the round to what is made next.
StepOf(A, n) == [A \X (1..n) -> A]

\* What such steps make of `a', round by round.
HasRun(A, a, n, h) ==
  \E g \in [0..n -> A] : g[0] = a /\ \A i \in 1..n : g[i] = h[<<g[i - 1], i>>]

\* A step that is a function gives a function by recursion: from `a', in n steps.
LEMMA Recursion ==
  ASSUME NEW A, NEW a \in A, NEW n \in Nat, NEW h \in StepOf(A, n)
  PROVE  HasRun(A, a, n, h)
<1> DEFINE Up(m) == \E g \in [0..m -> A] : g[0] = a /\ \A i \in 1..m : g[i] = h[<<g[i - 1], i>>]
           S == {m \in Nat : m <= n => Up(m)}
<1>1. 0 \in S
  <2> DEFINE g == [i \in 0..0 |-> a]
  <2>1. g \in [0..0 -> A] /\ g[0] = a
    OBVIOUS
  <2> HIDE DEF g
  <2>2. Up(0)
    BY <2>1
  <2> HIDE DEF Up
  <2>3. QED
    BY <2>2
<1>2. ASSUME NEW m \in Nat, m \in S PROVE m + 1 \in S
  <2> SUFFICES ASSUME m + 1 <= n PROVE Up(m + 1)
    OBVIOUS
  <2>1. PICK g \in [0..m -> A] : g[0] = a /\ \A i \in 1..m : g[i] = h[<<g[i - 1], i>>]
    BY <1>2
  <2> DEFINE f == [i \in 0..(m + 1) |-> IF i = m + 1 THEN h[<<g[m], m + 1>>] ELSE g[i]]
  <2>2. <<g[m], m + 1>> \in A \X (1..n)
    OBVIOUS
  <2>3. h[<<g[m], m + 1>>] \in A
    BY <2>2 DEF StepOf
  <2>4. f \in [0..(m + 1) -> A]
    BY <2>3
  <2>5. f[0] = a
    BY <2>1
  <2>6. ASSUME NEW i \in 1..(m + 1) PROVE f[i] = h[<<f[i - 1], i>>]
    <3>1. CASE i = m + 1
      <4>1. f[i] = h[<<g[m], m + 1>>] /\ i - 1 = m /\ f[m] = g[m]
        BY <3>1
      <4> HIDE DEF f
      <4>2. QED
        BY <3>1, <4>1
    <3>2. CASE i # m + 1
      BY <2>1, <3>2
    <3>3. QED
      BY <3>1, <3>2
  <2>7. QED
    BY <2>4, <2>5, <2>6
<1> HIDE DEF S
<1>3. n \in S
  BY <1>1, <1>2, Inductive
<1>4. QED
  BY <1>3 DEF S, HasRun

\* FlattenSeq, sequence by sequence.
LEMMA FlattenByRounds ==
  ASSUME NEW X, NEW ss \in Seq(Seq(X)), ss # <<>>
  PROVE  \E g \in [1..Len(ss) -> Seq(X)] :
           /\ FlattenSeq(ss) = g[Len(ss)]
           /\ g[1] = ss[1]
           /\ \A i \in 2..Len(ss) : g[i] = g[i - 1] \o ss[i]
<1> DEFINE n == Len(ss)
           A == Seq(X)
           none == <<>>
           h == [p \in A \X (1..n) |-> p[1] \o ss[p[2]]]
           Is(f) == f = [i \in 1..n |-> IF i = 1 THEN ss[i] ELSE f[i - 1] \o ss[i]]
           K == CHOOSE f : Is(f)
<1>1. n \in Nat /\ n # 0 /\ none \in A /\ \A i \in 1..n : ss[i] \in A
  BY EmptySeq
<1>2. h \in StepOf(A, n)
  BY DEF StepOf
<1>3. \A p \in A, i \in 1..n : h[<<p, i>>] = p \o ss[i]
  OBVIOUS
<1>4. HasRun(A, none, n, h)
  <2>1. n \in Nat
    BY <1>1
  <2>2. none \in A
    BY <1>1
  <2> HIDE DEF h, A, n, none
  <2>3. QED
    BY <1>2, <2>1, <2>2, Recursion
<1>5. PICK u \in [0..n -> A] : u[0] = none /\ \A i \in 1..n : u[i] = h[<<u[i - 1], i>>]
  <2> HIDE DEF h, A, n, none
  <2>1. QED
    BY <1>4 DEF HasRun
<1> HIDE DEF h
<1>6. \A i \in 1..n : u[i] = u[i - 1] \o ss[i]
  <2> HIDE DEF A, none, n
  <2>1. \A i \in 1..n : u[i - 1] \in A
    BY <1>1, <1>5
  <2>2. QED
    BY <1>3, <1>5, <2>1
<1> DEFINE g == [i \in 1..n |-> u[i]]
<1>7. \A i \in 1..n : g[i] = IF i = 1 THEN ss[i] ELSE g[i - 1] \o ss[i]
  <2>1. u[1] = none \o ss[1] /\ ss[1] \in A
    <3> HIDE DEF A, none, n
    <3>1. 1 \in 1..n /\ 1 - 1 = 0
      BY <1>1
    <3>2. QED
      BY <1>1, <1>5, <1>6, <3>1
  <2>2. u[1] = ss[1]
    BY <2>1
  <2> HIDE DEF A, n
  <2>3. \A i \in 1..n : i # 1 => i - 1 \in 1..n
    BY <1>1
  <2>4. QED
    BY <1>6, <2>2, <2>3
<1>8. Is(g)
  BY <1>7
<1> HIDE DEF g
<1>9. Is(K)
  <2> HIDE DEF Is
  <2>1. QED
    BY <1>8
<1>10. FlattenSeq(ss) = K[n]
  BY <1>1 DEF FlattenSeq
<1> HIDE DEF K, n
<1>11. K = [i \in 1..n |-> IF i = 1 THEN ss[i] ELSE K[i - 1] \o ss[i]]
  BY <1>9
<1> HIDE DEF Is, A
<1>12. K[1] = ss[1] /\ \A i \in 2..n : K[i] = K[i - 1] \o ss[i]
  <2>1. 1 \in 1..n /\ \A i \in 2..n : i \in 1..n /\ i # 1
    BY <1>1
  <2>2. QED
    BY <1>11, <2>1
<1> DEFINE T == {k \in Nat : k + 1 <= n => K[k + 1] \in A}
<1>13. 0 \in T
  BY <1>1, <1>12
<1>14. ASSUME NEW k \in Nat, k \in T PROVE k + 1 \in T
  <2> SUFFICES ASSUME k + 2 <= n PROVE K[(k + 1) + 1] \in A
    OBVIOUS
  <2>1. (k + 1) + 1 \in 2..n /\ ((k + 1) + 1) - 1 = k + 1 /\ K[k + 1] \in A
    BY <1>1, <1>14
  <2>2. ss[(k + 1) + 1] \in A
    BY <1>1, <2>1
  <2>3. K[(k + 1) + 1] = K[k + 1] \o ss[(k + 1) + 1]
    BY <1>12, <2>1
  <2>4. QED
    BY <2>1, <2>2, <2>3 DEF A
<1> HIDE DEF T
<1>15. \A k \in Nat : k \in T
  BY <1>13, <1>14, Inductive
<1>16. \A k \in 1..n : K[k] \in A
  <2>1. \A k \in 1..n : k - 1 \in Nat /\ (k - 1) + 1 = k /\ k <= n
    BY <1>1
  <2>2. QED
    BY <1>15, <2>1 DEF T
<1>17. K \in [1..n -> A]
  <2>1. DOMAIN K = 1..n /\ K = [k \in 1..n |-> K[k]]
    BY <1>11
  <2>2. QED
    BY <1>16, <2>1
<1>18. QED
  BY <1>10, <1>12, <1>17 DEF n, A

\* Where each sequence ends in the flattened one.
Placed(ss, flat, at) ==
  /\ at[0] = 0 /\ at[Len(ss)] = Len(flat)
  /\ \A j \in 1..Len(ss) :
       /\ at[j] = at[j - 1] + Len(ss[j])
       /\ \A k \in 1..Len(ss[j]) : at[j - 1] + k \in 1..Len(flat) /\ flat[at[j - 1] + k] = ss[j][k]

LEMMA PlacesOf ==
  ASSUME NEW X, NEW ss \in Seq(Seq(X)), NEW flat, flat = FlattenSeq(ss)
  PROVE  flat \in Seq(X) /\ \E at \in [0..Len(ss) -> Nat] : Placed(ss, flat, at)
<1>1. CASE ss = <<>>
  <2> DEFINE at == [i \in 0..0 |-> 0]
  <2>1. flat = <<>> /\ Len(ss) = 0 /\ 1..Len(ss) = {}
    BY <1>1 DEF FlattenSeq
  <2>2. at \in [0..Len(ss) -> Nat] /\ at[0] = 0
    BY <2>1
  <2>3. flat \in Seq(X) /\ Len(flat) = 0
    BY <2>1
  <2> HIDE DEF at
  <2>4. Placed(ss, flat, at)
    BY <2>1, <2>2, <2>3 DEF Placed
  <2>5. QED
    BY <2>2, <2>3, <2>4
<1>2. CASE ss # <<>>
  <2> DEFINE n == Len(ss)
  <2>1. n \in Nat \ {0} /\ \A i \in 1..n : ss[i] \in Seq(X)
    BY <1>2, EmptySeq
  <2>2. PICK g \in [1..n -> Seq(X)] :
           /\ flat = g[n]
           /\ g[1] = ss[1]
           /\ \A i \in 2..n : g[i] = g[i - 1] \o ss[i]
    BY <1>2, FlattenByRounds
  <2> HIDE DEF n
  <2>3. \A j \in 1..n : g[j] \in Seq(X) /\ Len(g[j]) \in Nat
    BY <2>2
  <2>4. ASSUME NEW i \in 2..n
        PROVE  /\ i - 1 \in 1..n /\ Len(g[i]) = Len(g[i - 1]) + Len(ss[i])
               /\ \A p \in 1..Len(g[i - 1]) : g[i][p] = g[i - 1][p]
               /\ \A p \in 1..Len(ss[i]) : g[i][Len(g[i - 1]) + p] = ss[i][p]
    <3>1. i - 1 \in 1..n /\ i \in 1..n
      BY <2>1
    <3>2. g[i - 1] \in Seq(X) /\ ss[i] \in Seq(X) /\ g[i] = g[i - 1] \o ss[i]
      BY <2>1, <2>2, <3>1, Zenon
    <3> DEFINE a == g[i - 1]
               b == ss[i]
    <3> HIDE DEF a, b
    <3>3. a \in Seq(X) /\ b \in Seq(X) /\ g[i] = a \o b
      BY <3>2 DEF a, b
    <3>4. Len(g[i]) = Len(a) + Len(b) /\ (\A p \in 1..Len(a) : g[i][p] = a[p])
          /\ \A p \in 1..Len(b) : g[i][Len(a) + p] = b[p]
      BY <3>3, Joined
    <3>5. QED
      BY <3>1, <3>4 DEF a, b
  <2> DEFINE Good(m) == \A j \in 1..m : /\ Len(g[j]) <= Len(g[m])
                                         /\ \A p \in 1..Len(g[j]) : g[m][p] = g[j][p]
             T == {k \in Nat : k + 1 <= n => Good(k + 1)}
  <2>5. 0 \in T
    <3>1. Good(1)
      <4>1. \A j \in 1..1 : j = 1
        OBVIOUS
      <4>2. Len(g[1]) \in Nat
        BY <2>1, <2>3
      <4>3. QED
        BY <4>1, <4>2
    <3> HIDE DEF Good
    <3>2. QED
      BY <3>1
  <2>6. ASSUME NEW k \in Nat, k \in T PROVE k + 1 \in T
    <3> DEFINE m == k + 1
    <3> SUFFICES ASSUME m + 1 <= n PROVE Good(m + 1)
      BY <2>6
    <3>1. m \in 1..n /\ m + 1 \in 2..n /\ (m + 1) - 1 = m
      BY <2>1
    <3>2. Good(m)
      <4> HIDE DEF Good
      <4>1. QED
        BY <2>6, <3>1
    <3> HIDE DEF m
    <3>3. /\ Len(g[m + 1]) = Len(g[m]) + Len(ss[m + 1])
          /\ \A p \in 1..Len(g[m]) : g[m + 1][p] = g[m][p]
      <4> HIDE DEF Good, T
      <4>1. /\ Len(g[m + 1]) = Len(g[(m + 1) - 1]) + Len(ss[m + 1])
            /\ \A p \in 1..Len(g[(m + 1) - 1]) : g[m + 1][p] = g[(m + 1) - 1][p]
        BY <2>4, <3>1, Zenon
      <4>2. QED
        BY <3>1, <4>1, Zenon
    <3>4. Len(g[m]) \in Nat /\ Len(ss[m + 1]) \in Nat /\ Len(g[m + 1]) \in Nat
      BY <2>1, <2>3, <3>1
    <3>5. Len(g[m]) <= Len(g[m + 1])
      <4> HIDE DEF Good, T
      <4> DEFINE a == Len(g[m])
                 b == Len(ss[m + 1])
                 c == Len(g[m + 1])
      <4>1. a \in Nat /\ b \in Nat /\ c \in Nat /\ c = a + b
        BY <3>3, <3>4
      <4> HIDE DEF a, b, c
      <4>2. a <= c
        BY <4>1
      <4>3. QED
        BY <4>2 DEF a, c
    <3>6. ASSUME NEW j \in 1..m
          PROVE  Len(g[j]) <= Len(g[m + 1]) /\ \A p \in 1..Len(g[j]) : g[m + 1][p] = g[j][p]
      <4>1. Len(g[j]) \in Nat /\ Len(g[j]) <= Len(g[m])
        BY <2>3, <3>1, <3>2
      <4>2. Len(g[j]) <= Len(g[m + 1]) /\ \A p \in 1..Len(g[j]) : p \in 1..Len(g[m])
        BY <3>4, <3>5, <4>1
      <4>3. QED
        BY <3>2, <3>3, <4>2
    <3>7. \A j \in 1..(m + 1) : j \in 1..m \/ j = m + 1
      BY <3>1
    <3>8. Len(g[m + 1]) <= Len(g[m + 1])
      BY <3>4
    <3>9. QED
      BY <3>6, <3>7, <3>8
  <2> HIDE DEF T
  <2>7. \A k \in Nat : k \in T
    BY <2>5, <2>6, Inductive
  <2>8. Good(n)
    <3> HIDE DEF Good
    <3>1. n - 1 \in Nat /\ (n - 1) + 1 = n /\ n <= n
      BY <2>1
    <3>2. n - 1 \in T
      BY <2>7, <3>1
    <3>3. QED
      BY <3>1, <3>2 DEF T
  <2> HIDE DEF Good
  <2> DEFINE at == [i \in 0..n |-> IF i = 0 THEN 0 ELSE Len(g[i])]
  <2>9. at \in [0..n -> Nat] /\ at[0] = 0 /\ \A i \in 1..n : at[i] = Len(g[i])
    BY <2>1, <2>3
  <2> HIDE DEF at
  <2>10. at[n] = Len(flat) /\ flat \in Seq(X) /\ Len(flat) \in Nat
    BY <2>1, <2>2, <2>3, <2>9
  <2>11. ASSUME NEW j \in 1..n
         PROVE  /\ at[j] = at[j - 1] + Len(ss[j])
                /\ \A k \in 1..Len(ss[j]) : g[j][at[j - 1] + k] = ss[j][k]
    <3>0. Len(ss[j]) \in Nat
      BY <2>1
    <3>1. CASE j = 1
      <4>1. at[j - 1] = 0 /\ at[j] = Len(ss[j]) /\ g[j] = ss[j]
        BY <2>1, <2>2, <2>9, <3>1
      <4>2. QED
        BY <3>0, <4>1
    <3>2. CASE j # 1
      <4>1. j \in 2..n
        BY <2>1, <3>2
      <4>2. j - 1 \in 1..n /\ at[j - 1] = Len(g[j - 1])
        BY <2>4, <2>9, <4>1
      <4>3. QED
        <5>1. /\ Len(g[j]) = Len(g[j - 1]) + Len(ss[j])
              /\ \A p \in 1..Len(ss[j]) : g[j][Len(g[j - 1]) + p] = ss[j][p]
          BY <2>4, <4>1, Zenon
        <5>2. at[j] = Len(g[j])
          BY <2>9
        <5>3. QED
          BY <4>2, <5>1, <5>2, Zenon
    <3>3. QED
      BY <3>1, <3>2
  <2>12. ASSUME NEW j \in 1..n, NEW k \in 1..Len(ss[j])
         PROVE  at[j - 1] + k \in 1..Len(flat) /\ flat[at[j - 1] + k] = ss[j][k]
    <3>1. Len(ss[j]) \in Nat /\ at[j - 1] \in Nat /\ at[j] = Len(g[j]) /\ at[j] = at[j - 1] + Len(ss[j])
      <4> HIDE DEF Good
      <4>1. j - 1 \in 0..n /\ j \in 1..n
        BY <2>1
      <4>2. ss[j] \in Seq(X)
        BY <2>1
      <4>3. Len(ss[j]) \in Nat
        BY <4>2
      <4>4. at[j - 1] \in Nat
        BY <2>9, <4>1
      <4>5. QED
        BY <2>9, <2>11, <4>3, <4>4
    <3>2. at[j - 1] + k \in 1..Len(g[j])
      BY <3>1
    <3>3. Len(g[j]) <= Len(flat) /\ flat[at[j - 1] + k] = g[j][at[j - 1] + k]
      BY <2>2, <2>8, <3>2 DEF Good
    <3>4. QED
      <4> HIDE DEF Good
      <4> DEFINE p == at[j - 1] + k
      <4>1. p \in 1..Len(g[j]) /\ Len(g[j]) \in Nat /\ Len(flat) \in Nat /\ Len(g[j]) <= Len(flat)
        BY <2>3, <2>10, <3>2, <3>3
      <4>2. flat[p] = g[j][p] /\ g[j][p] = ss[j][k]
        BY <2>11, <3>3
      <4> HIDE DEF p
      <4>3. p \in 1..Len(flat)
        BY <4>1
      <4>4. QED
        BY <4>2, <4>3 DEF p
  <2>13. Placed(ss, flat, at)
    BY <2>9, <2>10, <2>11, <2>12 DEF Placed, n
  <2>14. QED
    BY <2>9, <2>10, <2>13 DEF n
<1>3. QED
  BY <1>1, <1>2

\* One value in each sequence, one in the flattened one.
LEMMA FlattenOnes ==
  ASSUME NEW X, NEW ss \in Seq(Seq(X)), \A j \in 1..Len(ss) : Len(ss[j]) = 1
  PROVE  /\ FlattenSeq(ss) \in Seq(X) /\ Len(FlattenSeq(ss)) = Len(ss)
         /\ \A j \in 1..Len(ss) : FlattenSeq(ss)[j] = ss[j][1]
<1> DEFINE flat == FlattenSeq(ss)
           n == Len(ss)
<1>1. flat \in Seq(X) /\ \E at \in [0..n -> Nat] : Placed(ss, flat, at)
  BY PlacesOf
<1>2. PICK at \in [0..n -> Nat] : Placed(ss, flat, at)
  BY <1>1
<1>3. n \in Nat
  OBVIOUS
<1> HIDE DEF flat, n
<1>4. /\ at[0] = 0 /\ at[n] = Len(flat)
      /\ \A j \in 1..n : at[j] = at[j - 1] + 1 /\ flat[at[j - 1] + 1] = ss[j][1]
  <2>1. 1 \in 1..1
    OBVIOUS
  <2>2. QED
    BY <1>2, <2>1 DEF Placed, n
<1> DEFINE T == {k \in Nat : k <= n => at[k] = k}
<1>5. 0 \in T
  BY <1>4
<1>6. ASSUME NEW k \in Nat, k \in T PROVE k + 1 \in T
  <2> SUFFICES ASSUME k + 1 <= n PROVE at[k + 1] = k + 1
    OBVIOUS
  <2>1. k <= n /\ k + 1 \in 1..n /\ (k + 1) - 1 = k
    BY <1>3
  <2>2. at[k] = k
    BY <1>6, <2>1
  <2>3. QED
    BY <1>4, <2>1, <2>2
<1> HIDE DEF T
<1>7. \A k \in Nat : k \in T
  BY <1>5, <1>6, Inductive
<1>8. \A k \in 0..n : at[k] = k
  BY <1>3, <1>7 DEF T
<1>9. Len(flat) = n
  BY <1>3, <1>4, <1>8
<1>10. ASSUME NEW j \in 1..n PROVE flat[j] = ss[j][1]
  <2>1. j - 1 \in 0..n /\ (j - 1) + 1 = j
    BY <1>3
  <2>2. at[j - 1] = j - 1
    BY <1>8, <2>1
  <2>3. QED
    BY <1>4, <2>1, <2>2
<1>11. QED
  BY <1>1, <1>9, <1>10 DEF flat, n

------------------------------------------------------------------------------
(* Rows.                                                                      *)

\* The bytes of one sequence in a longer one.
LEMMA CutOut ==
  ASSUME NEW s \in Seq(Int), NEW a \in Nat, NEW e \in Seq(Int), NEW p \in 0..Len(e),
         \A k \in 1..Len(e) : a + k \in 1..Len(s) /\ s[a + k] = e[k]
  PROVE  SubSeq(s, a + 1, a + p) = SubSeq(e, 1, p)
<1> DEFINE t == SubSeq(s, a + 1, a + p)
           u == SubSeq(e, 1, p)
<1>1. Len(e) \in Nat /\ p \in Nat /\ p <= Len(e)
  OBVIOUS
<1>2. \A k \in 1..p : k \in 1..Len(e)
  BY <1>1
<1>3. t \in Seq(Int) /\ Len(t) = p /\ \A k \in 1..p : t[k] = s[a + k]
  <2>1. ASSUME NEW i \in (a + 1)..(a + p) PROVE s[i] \in Int
    <3>1. i - a \in 1..Len(e) /\ a + (i - a) = i
      BY <1>1
    <3>2. i \in 1..Len(s)
      BY <3>1
    <3>3. QED
      BY <3>2, NumberAt
  <2>2. /\ t \in Seq(Int)
        /\ Len(t) = IF a + 1 <= a + p THEN (a + p) - (a + 1) + 1 ELSE 0
        /\ \A i \in 1..((a + p) - (a + 1) + 1) : t[i] = s[(a + 1) + i - 1]
    <3>1. a + 1 \in Int /\ a + p \in Int
      BY <1>1
    <3>2. QED
      BY <2>1, <3>1, SubSeqProperties
  <2> HIDE DEF t
  <2>3. /\ (a + p) - (a + 1) + 1 = p /\ (IF a + 1 <= a + p THEN p ELSE 0) = p
        /\ \A i \in 1..p : (a + 1) + i - 1 = a + i
    BY <1>1
  <2>4. QED
    BY <2>2, <2>3
<1>4. u \in Seq(Int) /\ Len(u) = p /\ \A k \in 1..p : u[k] = e[k]
  BY FirstOf
<1> HIDE DEF t, u
<1>5. \A k \in 1..p : t[k] = u[k]
  BY <1>2, <1>3, <1>4
<1>6. t = u
  BY <1>3, <1>4, <1>5, SeqEqual
<1>7. QED
  BY <1>6 DEF t, u

\* One step of getColOffset, from what it has after the column before.
StepAt(bytes, columns, s, k) ==
  LET at == s.offset + s.tune
      n == columns[k].length
      grown == IF columns[k].type # MySQL_VARSTRING THEN 0
               ELSE Value(SubSeq(bytes, at + 1, at + Prefix(n))) + Prefix(n) - n
  IN  [offset |-> s.offset + n, tune |-> s.tune + grown]

StepStart == [offset |-> 0, tune |-> 0]

IsSteps(bytes, columns, f) ==
  f = [k \in 0..Len(columns) |-> IF k = 0 THEN StepStart ELSE StepAt(bytes, columns, f[k - 1], k)]

\* getColOffset goes column by column.
LEMMA OffsetsBySteps ==
  ASSUME NEW bytes, NEW columns
  PROVE  ColumnOffsets(bytes, columns) =
           LET step == CHOOSE f : IsSteps(bytes, columns, f)
           IN  [k \in 1..Len(columns) |-> step[k - 1].offset + step[k - 1].tune]
BY Zenon DEF ColumnOffsets, IsSteps, StepAt, StepStart

\* What is added to `tune' where the bytes of a column begin.
LEMMA GrownThere ==
  ASSUME NEW column, NEW e, Found(column, e), NEW bytes \in Seq(Int), NEW a \in Nat,
         \A k \in 1..Len(e) : a + k \in 1..Len(bytes) /\ bytes[a + k] = e[k]
  PROVE  Grown(column, e) =
           IF column.type # MySQL_VARSTRING THEN 0
           ELSE Value(SubSeq(bytes, a + 1, a + Prefix(column.length))) + Prefix(column.length) - column.length
<1>1. CASE column.type # MySQL_VARSTRING
  BY <1>1 DEF Grown
<1>2. CASE column.type = MySQL_VARSTRING
  <2> DEFINE p == Prefix(column.length)
  <2>1. e \in Seq(Int) /\ p <= Len(e)
    BY <1>2 DEF Found
  <2>2. p \in {1, 2}
    BY DEF Prefix
  <2> HIDE DEF p
  <2>3. p \in 0..Len(e)
    <3>1. Len(e) \in Nat
      BY <2>1
    <3>2. QED
      BY <2>1, <2>2, <3>1
  <2>4. SubSeq(bytes, a + 1, a + p) = SubSeq(e, 1, p)
    BY <2>1, <2>3, CutOut
  <2>5. QED
    BY <1>2, <2>4, Zenon DEF Grown, p
<1>3. QED
  BY <1>1, <1>2

\* The numbers a function of records has.
StepFrom(off, at) == [k \in DOMAIN at |-> [offset |-> off[k], tune |-> at[k] - off[k]]]

\* Those are the steps of getColOffset.
LEMMA StepsAre ==
  ASSUME NEW n \in Nat, NEW columns, n = Len(columns), NEW ss, n = Len(ss),
         \A j \in 1..n : Found(columns[j], ss[j]),
         NEW bytes \in Seq(Int), NEW at \in [0..n -> Nat], Placed(ss, bytes, at),
         NEW off \in [0..n -> Int], off[0] = 0, \A j \in 1..n : off[j] = off[j - 1] + columns[j].length
  PROVE  IsSteps(bytes, columns, StepFrom(off, at))
<1> DEFINE f == StepFrom(off, at)
<1>1. DOMAIN at = 0..n
  OBVIOUS
<1>2. f = [k \in 0..n |-> [offset |-> off[k], tune |-> at[k] - off[k]]]
  BY <1>1 DEF StepFrom
<1> HIDE DEF f
<1>3. \A k \in 0..n : f[k] = [offset |-> off[k], tune |-> at[k] - off[k]]
  BY <1>2, Zenon
<1>4. f[0] = StepStart
  <2>1. 0 \in 0..n /\ at[0] = 0 /\ 0 - 0 = 0
    BY DEF Placed
  <2>2. QED
    BY <1>3, <2>1 DEF StepStart
<1>5. ASSUME NEW k \in 1..n PROVE f[k] = StepAt(bytes, columns, f[k - 1], k)
  <2> DEFINE column == columns[k]
             e == ss[k]
             a == at[k - 1]
             o == off[k - 1]
             s == f[k - 1]
             g == Grown(column, e)
  <2>1. k \in 0..n /\ k - 1 \in 0..n
    OBVIOUS
  <2>2. a \in Nat /\ o \in Int
    BY <2>1
  <2>3. Found(column, e)
    OBVIOUS
  <2>4. /\ at[k] = a + Len(e)
        /\ \A i \in 1..Len(e) : a + i \in 1..Len(bytes) /\ bytes[a + i] = e[i]
    BY Zenon DEF Placed
  <2>5. off[k] = o + column.length
    OBVIOUS
  <2>6. s = [offset |-> o, tune |-> a - o]
    BY <1>3, <2>1, Zenon
  <2>7. f[k] = [offset |-> off[k], tune |-> at[k] - off[k]]
    BY <1>3, <2>1, Zenon
  <2> HIDE DEF column, e, a, o, s
  <2>8. s.offset = o /\ s.tune = a - o /\ s.offset + s.tune = a
    BY <2>2, <2>6
  <2>9. g = IF column.type # MySQL_VARSTRING THEN 0
            ELSE Value(SubSeq(bytes, a + 1, a + Prefix(column.length))) + Prefix(column.length) - column.length
    BY <2>2, <2>3, <2>4, GrownThere, Zenon
  <2>10. column.length \in Nat /\ g \in Int /\ Len(e) = column.length + g
    BY <2>3, Zenon DEF Found
  <2> HIDE DEF g
  <2>11. StepAt(bytes, columns, s, k) = [offset |-> s.offset + column.length, tune |-> s.tune + g]
    BY <2>8, <2>9, Zenon DEF StepAt, column
  <2>12. s.offset + column.length = off[k] /\ s.tune + g = at[k] - off[k]
    <3> DEFINE c == column.length
               m == Len(e)
               x == off[k]
               y == at[k]
    <3>1. a \in Nat /\ o \in Int /\ c \in Nat /\ g \in Int
      BY <2>2, <2>10
    <3>2. m = c + g /\ x = o + c /\ y = a + m /\ s.offset = o /\ s.tune = a - o
      BY <2>4, <2>5, <2>8, <2>10, Zenon
    <3> HIDE DEF c, m, x, y
    <3>3. s.offset + c = x /\ s.tune + g = y - x
      BY <3>1, <3>2
    <3>4. QED
      BY <3>3, Zenon DEF c, x, y
  <2>13. QED
    BY <2>7, <2>11, <2>12, Zenon DEF s
<1>6. \A k \in 0..n : k = 0 \/ k \in 1..n
  OBVIOUS
<1>7. \A k \in 0..n : f[k] = IF k = 0 THEN StepStart ELSE StepAt(bytes, columns, f[k - 1], k)
  BY <1>4, <1>5, <1>6, Zenon
<1>8. f = [k \in 0..n |-> f[k]]
  BY <1>2
<1>9. f = [k \in 0..n |-> IF k = 0 THEN StepStart ELSE StepAt(bytes, columns, f[k - 1], k)]
  BY <1>7, <1>8
<1>10. QED
  BY <1>9, Zenon DEF IsSteps, f

\* There are such numbers.
LEMMA SumsAre ==
  ASSUME NEW n \in Nat, NEW l \in [1..n -> Int]
  PROVE  \E off \in [0..n -> Int] : off[0] = 0 /\ \A j \in 1..n : off[j] = off[j - 1] + l[j]
<1> DEFINE h == [p \in Int \X (1..n) |-> p[1] + l[p[2]]]
<1>1. h \in StepOf(Int, n)
  BY DEF StepOf
<1>2. \A a \in Int, j \in 1..n : h[<<a, j>>] = a + l[j]
  OBVIOUS
<1> HIDE DEF h
<1>3. HasRun(Int, 0, n, h)
  <2>1. 0 \in Int
    OBVIOUS
  <2>2. QED
    BY <1>1, <2>1, Recursion, Zenon
<1>4. PICK off \in [0..n -> Int] : off[0] = 0 /\ \A j \in 1..n : off[j] = h[<<off[j - 1], j>>]
  BY <1>3 DEF HasRun
<1>5. ASSUME NEW j \in 1..n PROVE off[j] = off[j - 1] + l[j]
  <2>1. off[j - 1] \in Int
    OBVIOUS
  <2>2. QED
    BY <1>2, <1>4, <2>1
<1>6. QED
  BY <1>4, <1>5

\* getColOffset finds where the bytes of each column begin.
OffsetsAt(bytes, columns, at, n) == ColumnOffsets(bytes, columns) = [k \in 1..n |-> at[k - 1]]

LEMMA OffsetsAre ==
  ASSUME NEW n \in Nat, NEW columns, n = Len(columns), NEW ss, n = Len(ss),
         \A j \in 1..n : Found(columns[j], ss[j]),
         NEW bytes \in Seq(Int), NEW at \in [0..n -> Nat], Placed(ss, bytes, at)
  PROVE  OffsetsAt(bytes, columns, at, n)
<1> DEFINE l == [j \in 1..n |-> columns[j].length]
           K == CHOOSE f : IsSteps(bytes, columns, f)
<1>1. l \in [1..n -> Int]
  BY DEF Found
<1>2. PICK off \in [0..n -> Int] : off[0] = 0 /\ \A j \in 1..n : off[j] = off[j - 1] + l[j]
  <2> HIDE DEF l
  <2>1. QED
    BY <1>1, SumsAre
<1>3. \A j \in 1..n : off[j] = off[j - 1] + columns[j].length
  BY <1>2
<1> DEFINE f == StepFrom(off, at)
<1> HIDE DEF f, l
<1>4. IsSteps(bytes, columns, f)
  BY <1>2, <1>3, StepsAre DEF f
<1>5. IsSteps(bytes, columns, K)
  BY <1>4, Zenon
<1> HIDE DEF K
<1>6. /\ K[0] = StepStart /\ f[0] = StepStart
      /\ \A k \in 1..n : /\ K[k] = StepAt(bytes, columns, K[k - 1], k)
                          /\ f[k] = StepAt(bytes, columns, f[k - 1], k)
  <2>1. /\ K = [k \in 0..n |-> IF k = 0 THEN StepStart ELSE StepAt(bytes, columns, K[k - 1], k)]
        /\ f = [k \in 0..n |-> IF k = 0 THEN StepStart ELSE StepAt(bytes, columns, f[k - 1], k)]
    BY <1>4, <1>5, Zenon DEF IsSteps
  <2>2. 0 \in 0..n /\ \A k \in 1..n : k \in 0..n /\ k # 0
    OBVIOUS
  <2>3. QED
    BY <2>1, <2>2, Zenon
<1> DEFINE T == {k \in Nat : k <= n => K[k] = f[k]}
<1>7. 0 \in T
  BY <1>6
<1>8. ASSUME NEW k \in Nat, k \in T PROVE k + 1 \in T
  <2> SUFFICES ASSUME k + 1 <= n PROVE K[k + 1] = f[k + 1]
    OBVIOUS
  <2>1. k <= n /\ k + 1 \in 1..n /\ (k + 1) - 1 = k
    OBVIOUS
  <2>2. K[k] = f[k]
    BY <1>8, <2>1
  <2>3. QED
    BY <1>6, <2>1, <2>2, Zenon
<1> HIDE DEF T
<1>9. \A k \in Nat : k \in T
  BY <1>7, <1>8, Inductive
<1>10. ASSUME NEW k \in 1..n PROVE K[k - 1].offset + K[k - 1].tune = at[k - 1]
  <2>1. k - 1 \in Nat /\ k - 1 <= n /\ k - 1 \in 0..n
    OBVIOUS
  <2>2. K[k - 1] = f[k - 1]
    BY <1>9, <2>1 DEF T
  <2> DEFINE a == at[k - 1]
             o == off[k - 1]
  <2>3. a \in Nat /\ o \in Int
    BY <2>1
  <2>4. f[k - 1] = [offset |-> o, tune |-> a - o]
    BY <2>1 DEF f, StepFrom
  <2> HIDE DEF a, o
  <2>5. K[k - 1].offset + K[k - 1].tune = a
    BY <2>2, <2>3, <2>4
  <2>6. QED
    BY <2>5 DEF a
<1>11. ColumnOffsets(bytes, columns) = [k \in 1..n |-> K[k - 1].offset + K[k - 1].tune]
  BY OffsetsBySteps, Zenon DEF K
<1>12. QED
  BY <1>10, <1>11 DEF OffsetsAt

\* The merging module cuts a row where its columns begin.
LEMMA RowComes ==
  ASSUME NEW n \in Nat, NEW columns, n = Len(columns), DOMAIN columns = 1..n,
         NEW row, \A j \in 1..n : Comes(columns[j], row[j])
  PROVE  DecodedRow(EncodedRow(columns, row), columns) =
           [j \in 1..n |-> Decoded(columns[j].type, Encoded(columns[j], row[j]))]
<1> DEFINE ss == [j \in 1..n |-> Encoded(columns[j], row[j])]
           bytes == FlattenSeq(ss)
<1>1. \A j \in 1..n : ss[j] = Encoded(columns[j], row[j]) /\ Found(columns[j], ss[j]) /\ ss[j] \in Seq(Int)
  BY DEF Comes, Found
<1>2. ss \in Seq(Seq(Int)) /\ Len(ss) = n
  <2> DEFINE S == Seq(Int)
  <2>1. ss = [j \in 1..n |-> ss[j]]
    OBVIOUS
  <2>2. \A j \in 1..n : ss[j] \in S
    BY <1>1
  <2> HIDE DEF ss, S
  <2>3. ss \in [1..n -> S]
    BY <2>1, <2>2
  <2>4. ss \in Seq(S) /\ Len(ss) = n
    BY <2>3, FunctionIsSeq
  <2>5. QED
    BY <2>4 DEF S
<1>3. EncodedRow(columns, row) = bytes
  BY DEF EncodedRow
<1> HIDE DEF ss
<1>4. bytes \in Seq(Int) /\ \E at \in [0..Len(ss) -> Nat] : Placed(ss, bytes, at)
  BY <1>2, PlacesOf
<1> HIDE DEF bytes
<1>5. PICK at \in [0..n -> Nat] : Placed(ss, bytes, at)
  BY <1>2, <1>4
<1>6. ColumnOffsets(bytes, columns) = [k \in 1..n |-> at[k - 1]]
  <2>1. n = Len(ss) /\ bytes \in Seq(Int) /\ Placed(ss, bytes, at)
    BY <1>2, <1>4, <1>5
  <2>2. \A j \in 1..n : Found(columns[j], ss[j])
    BY <1>1, Zenon
  <2>3. OffsetsAt(bytes, columns, at, n)
    BY <2>1, <2>2, OffsetsAre
  <2>4. QED
    BY <2>3, Zenon DEF OffsetsAt
<1> DEFINE offsets == [k \in 1..n |-> at[k - 1]]
           at2 == Append(offsets, Len(bytes))
<1>7. Len(bytes) \in Nat /\ at[n] = Len(bytes)
  BY <1>2, <1>4, <1>5 DEF Placed
<1>8. \A j \in 1..n : at2[j] = at[j - 1] /\ at2[j + 1] = at[j]
  <2>1. offsets \in [1..n -> Nat] /\ \A j \in 1..n : offsets[j] = at[j - 1]
    OBVIOUS
  <2> HIDE DEF offsets
  <2>2. offsets \in Seq(Nat) /\ Len(offsets) = n
    BY <2>1, FunctionIsSeq
  <2>3. \A j \in 1..n : at2[j] = offsets[j]
    BY <1>7, <2>2
  <2>4. at2[n + 1] = Len(bytes)
    BY <1>7, <2>2
  <2> HIDE DEF at2
  <2>5. ASSUME NEW j \in 1..n PROVE at2[j] = at[j - 1] /\ at2[j + 1] = at[j]
    <3>1. CASE j = n
      BY <1>7, <2>1, <2>3, <2>4, <3>1
    <3>2. CASE j # n
      <4>1. j + 1 \in 1..n /\ (j + 1) - 1 = j
        BY <3>2
      <4>2. QED
        BY <2>1, <2>3, <4>1
    <3>3. QED
      BY <3>1, <3>2
  <2>6. QED
    BY <2>5
<1> HIDE DEF offsets, at2
<1>9. ASSUME NEW j \in 1..n PROVE SubSeq(bytes, at2[j] + 1, at2[j + 1]) = ss[j]
  <2> DEFINE e == ss[j]
             a == at[j - 1]
  <2>1. a \in Nat /\ e \in Seq(Int)
    <3>1. j - 1 \in 0..n
      OBVIOUS
    <3>2. a \in Nat
      BY <3>1
    <3>3. QED
      BY <1>1, <3>2, Zenon
  <2>2. /\ at[j] = a + Len(e)
        /\ \A k \in 1..Len(e) : a + k \in 1..Len(bytes) /\ bytes[a + k] = e[k]
    BY <1>2, <1>5, Zenon DEF Placed
  <2>3. at2[j] = a /\ at2[j + 1] = a + Len(e)
    BY <1>8, <2>2
  <2> HIDE DEF a, e
  <2>4. Len(e) \in 0..Len(e)
    BY <2>1
  <2>5. SubSeq(bytes, a + 1, a + Len(e)) = SubSeq(e, 1, Len(e))
    BY <1>4, <2>1, <2>2, <2>4, CutOut, Zenon
  <2>6. SubSeq(e, 1, Len(e)) = e
    BY <2>1, SubSeqFull
  <2>7. QED
    BY <2>3, <2>5, <2>6, Zenon DEF e
<1>10. DecodedRow(bytes, columns) =
         [j \in 1..n |-> Decoded(columns[j].type, SubSeq(bytes, at2[j] + 1, at2[j + 1]))]
  BY <1>6, Zenon DEF DecodedRow, at2, offsets
<1>11. DecodedRow(bytes, columns) = [j \in 1..n |-> Decoded(columns[j].type, Encoded(columns[j], row[j]))]
  BY <1>1, <1>9, <1>10
<1>12. QED
  BY <1>3, <1>11

\* A column of one value per row.
ColumnOf(column, m, x) == DOMAIN column = 1..m /\ \A k \in 1..m : column[k] = x[k]

LEMMA ColumnIs ==
  ASSUME NEW m \in Nat, NEW sent, DOMAIN sent = 1..m, NEW columns, NEW j, NEW x,
         \A k \in 1..m : DecodedRow(sent[k], columns)[j] = <<x[k]>>
  PROVE  ColumnOf(DecodedColumn(sent, columns, j), m, x)
<1> DEFINE X == {x[k] : k \in 1..m}
           S == Seq(X)
           ss == [k \in 1..m |-> DecodedRow(sent[k], columns)[j]]
<1>1. \A k \in 1..m : ss[k] = <<x[k]>> /\ x[k] \in X
  OBVIOUS
<1>2. DecodedColumn(sent, columns, j) = FlattenSeq(ss)
  BY DEF DecodedColumn
<1>3. ss = [k \in 1..m |-> ss[k]]
  OBVIOUS
<1> HIDE DEF ss, X
<1>4. \A k \in 1..m : ss[k] \in S /\ Len(ss[k]) = 1 /\ ss[k][1] = x[k]
  <2>1. ASSUME NEW a \in X PROVE <<a>> \in S /\ Len(<<a>>) = 1 /\ <<a>>[1] = a
    OBVIOUS
  <2>2. QED
    BY <1>1, <2>1, Zenon
<1>5. ss \in Seq(S) /\ Len(ss) = m
  <2> HIDE DEF S
  <2>1. ss \in [1..m -> S]
    BY <1>3, <1>4
  <2>2. QED
    BY <2>1, FunctionIsSeq
<1>6. /\ FlattenSeq(ss) \in S /\ Len(FlattenSeq(ss)) = m
      /\ \A k \in 1..m : FlattenSeq(ss)[k] = ss[k][1]
  BY <1>4, <1>5, FlattenOnes
<1> DEFINE flat == FlattenSeq(ss)
<1> HIDE DEF flat
<1>7. DOMAIN flat = 1..m /\ \A k \in 1..m : flat[k] = x[k]
  BY <1>4, <1>6 DEF flat
<1>8. QED
  BY <1>2, <1>7, Zenon DEF flat, ColumnOf

\* Rows of what their columns are declared to hold are printed as they are stored.
LEMMA RowsAreShown ==
  ASSUME NEW n \in Nat, NEW columns, n = Len(columns), DOMAIN columns = 1..n,
         NEW R, \A row \in R : \A j \in 1..n : CellFits(columns[j], row[j]),
         NEW rows \in Seq(R), NEW shown,
         shown = Answered([i \in DOMAIN rows |-> EncodedRow(columns, rows[i])], columns)
  PROVE  \A i \in DOMAIN rows : RowShown(columns, rows[i], shown[i])
<1> DEFINE m == Len(rows)
           sent == [i \in DOMAIN rows |-> EncodedRow(columns, rows[i])]
<1>0. n \in Nat /\ n = Len(columns) /\ DOMAIN columns = 1..n
  OBVIOUS
<1>1. m \in Nat /\ DOMAIN rows = 1..m /\ \A i \in 1..m : rows[i] \in R
  OBVIOUS
<1> HIDE DEF m
<1>2. DOMAIN sent = 1..m /\ \A i \in 1..m : sent[i] = EncodedRow(columns, rows[i])
  BY <1>1
<1> HIDE DEF sent
<1>3. \A i \in 1..m, j \in 1..n : Comes(columns[j], rows[i][j])
  BY <1>1, CellComes
<1>4. \A i \in 1..m : DecodedRow(sent[i], columns) =
                        [j \in 1..n |-> Decoded(columns[j].type, Encoded(columns[j], rows[i][j]))]
  <2>1. SUFFICES ASSUME NEW i \in 1..m
                 PROVE  DecodedRow(sent[i], columns) =
                          [j \in 1..n |-> Decoded(columns[j].type, Encoded(columns[j], rows[i][j]))]
    BY Zenon
  <2> DEFINE row == rows[i]
  <2>2. \A j \in 1..n : Comes(columns[j], row[j])
    BY <1>3
  <2> HIDE DEF row
  <2>3. DecodedRow(EncodedRow(columns, row), columns) =
          [j \in 1..n |-> Decoded(columns[j].type, Encoded(columns[j], row[j]))]
    BY <1>0, <2>2, RowComes, SMT
  <2>4. QED
    BY <1>2, <2>3, Zenon DEF row
<1>5. ASSUME NEW i \in 1..m, NEW j \in 1..n, ~ CellDeparts(columns[j], rows[i][j])
      PROVE  shown[i][j] = Stored(columns[j], rows[i][j])
  <2> DEFINE column == columns[j]
             e(k) == Encoded(column, rows[k][j])
             x == [k \in 1..m |-> CHOOSE y : Decoded(column.type, e(k)) = <<y>>]
  <2>1. Typed(column.type)
    BY <1>5, KindBy, Zenon DEF CellDeparts
  <2>2. \A k \in 1..m : Back(column, rows[k][j], e(k))
    BY <1>3, <2>1, Zenon DEF Comes
  <2>3. \A k \in 1..m : Decoded(column.type, e(k)) = <<x[k]>>
    <3>1. \A k \in 1..m : \E y : Decoded(column.type, e(k)) = <<y>>
      BY <2>2, Zenon DEF Back
    <3>2. \A k \in 1..m : x[k] = CHOOSE y : Decoded(column.type, e(k)) = <<y>>
      BY Zenon
    <3>3. QED
      BY <3>1, <3>2, Zenon
  <2> HIDE DEF x
  <2>4. \A k \in 1..m : DecodedRow(sent[k], columns)[j] = <<x[k]>>
    BY <1>4, <2>3, Zenon
  <2> DEFINE values == [l \in DOMAIN columns |-> DecodedColumn(sent, columns, l)]
  <2>5. i \in DOMAIN values[j] /\ values[j][i] = x[i]
    <3>1. values[j] = DecodedColumn(sent, columns, j)
      BY Zenon
    <3> HIDE DEF values
    <3>2. ColumnOf(DecodedColumn(sent, columns, j), m, x)
      <4>1. m \in Nat /\ DOMAIN sent = 1..m
        BY <1>1, <1>2
      <4> HIDE DEF e, column
      <4>2. QED
        BY <2>4, <4>1, ColumnIs
    <3>3. QED
      BY <3>1, <3>2, Zenon DEF ColumnOf
  <2>6. shown[i][j] = IF i \in DOMAIN values[j] THEN Printed(columns[j], values[j][i]) ELSE Blank
    <3>1. shown = Answered(sent, columns)
      BY DEF sent
    <3>2. shown = [k \in 1..m |-> [l \in DOMAIN columns |->
                     IF k \in DOMAIN values[l] THEN Printed(columns[l], values[l][k]) ELSE Blank]]
      BY <1>2, <3>1, Zenon DEF Answered
    <3>3. j \in DOMAIN columns
      BY Zenon
    <3> HIDE DEF values
    <3>4. shown[i] = [l \in DOMAIN columns |->
                     IF i \in DOMAIN values[l] THEN Printed(columns[l], values[l][i]) ELSE Blank]
      BY <3>2, Zenon
    <3>5. QED
      BY <3>3, <3>4, Zenon
  <2> HIDE DEF values
  <2>7. shown[i][j] = Printed(column, x[i])
    BY <2>5, <2>6, Zenon
  <2>8. PICK y : /\ Decoded(column.type, e(i)) = <<y>>
                 /\ ~ CellDeparts(column, rows[i][j]) => Printed(column, y) = Stored(column, rows[i][j])
    BY <2>2, Zenon DEF Back
  <2>9. y = x[i]
    <3>1. <<y>> = <<x[i]>>
      BY <2>3, <2>8, Zenon
    <3>2. QED
      BY <3>1
  <2>10. QED
    BY <1>5, <2>7, <2>8, <2>9, Zenon
<1>6. QED
  BY <1>1, <1>5, Zenon DEF RowShown

------------------------------------------------------------------------------
(* The rows of an answer.                                                     *)

\* The rows of some SSTs are printed as they are stored.
LEMMA SstsAreShown ==
  ASSUME RowsFit, NEW q \in Query, NEW ssts \in SUBSET Ssts(q)
  PROVE  ShownRight(q, ssts)
<1> DEFINE columns == Columns[q]
           n == Len(columns)
           infos == SstInfo[q]
           m == Len(infos)
           R == UNION {Range(Rows[q][i]) : i \in Ssts(q)}
           S == Seq(R)
           tables == [i \in Ssts(q) |-> IF i \in ssts THEN Rows[q][i] ELSE <<>>]
           rows == RowsIn(q, ssts)
           shown == Answered([i \in DOMAIN rows |-> EncodedRow(columns, rows[i])], columns)
<1>1. n \in Nat /\ DOMAIN columns = 1..n
  <2>1. columns \in Seq(Range(columns))
    BY DEF RowsFit
  <2> DEFINE X == Range(columns)
  <2> HIDE DEF columns, X
  <2>2. columns \in Seq(X)
    BY <2>1 DEF X
  <2>3. QED
    BY <2>2
<1>2. m \in Nat /\ Ssts(q) = 1..m
  <2>1. infos \in Seq(Range(infos))
    BY DEF RowsFit
  <2>2. Ssts(q) = DOMAIN infos
    BY DEF Ssts
  <2> DEFINE X == Range(infos)
  <2> HIDE DEF infos, X
  <2>3. infos \in Seq(X)
    BY <2>1 DEF X
  <2>4. QED
    BY <2>2, <2>3
<1> HIDE DEF m
<1>3. ASSUME NEW i \in Ssts(q)
      PROVE  /\ Rows[q][i] \in Seq(Range(Rows[q][i]))
             /\ \A row \in Range(Rows[q][i]) : \A j \in 1..n : CellFits(columns[j], row[j])
  <2> HIDE DEF n, columns
  <2>1. /\ Rows[q][i] \in Seq(Range(Rows[q][i]))
        /\ \A row \in Range(Rows[q][i]) :
             /\ DOMAIN row = DOMAIN columns
             /\ \A j \in DOMAIN row : CellFits(columns[j], row[j])
    BY Zenon DEF RowsFit, columns
  <2>2. QED
    BY <1>1, <2>1, Zenon
<1>4. \A row \in R : \A j \in 1..n : CellFits(columns[j], row[j])
  <2> HIDE DEF n, columns
  <2>1. QED
    BY <1>3, Zenon
<1>5. tables \in [1..m -> S]
  <2>1. ASSUME NEW i \in 1..m PROVE Rows[q][i] \in S
    <3>1. Range(Rows[q][i]) \subseteq R
      BY <1>2
    <3> DEFINE T == Range(Rows[q][i])
    <3>2. Rows[q][i] \in Seq(T)
      BY <1>2, <1>3
    <3> HIDE DEF T, R
    <3>3. QED
      BY <3>1, <3>2, SeqMonotonic DEF T
  <2>2. <<>> \in S
    <3> HIDE DEF R
    <3>1. QED
      BY EmptySeq
  <2> HIDE DEF S, R
  <2>3. QED
    BY <1>2, <2>1, <2>2
<1>6. rows \in S
  <2>1. rows = FlattenSeq(tables)
    BY DEF RowsIn
  <2> HIDE DEF tables, R, rows
  <2>2. tables \in Seq(S)
    <3> HIDE DEF S
    <3>1. QED
      BY <1>2, <1>5, FunctionIsSeq
  <2>3. QED
    BY <2>1, <2>2, PlacesOf
<1> HIDE DEF R, rows, shown, n, columns
<1>7. \A i \in DOMAIN rows : RowShown(columns, rows[i], shown[i])
  BY <1>1, <1>4, <1>6, RowsAreShown, Zenon DEF shown, n
<1>8. QED
  BY <1>7, Zenon DEF ShownRight, rows, shown, columns

\* The results an answer has rows of.
AnsweredResults == \A q \in Query : ResultsOf(q, answer[q].results)

\* They only ever become what was merged, or nothing.
LEMMA ResultsSteps ==
  ASSUME EngineTypes, [Next]_vars, NEW q \in Query
  PROVE  \/ answer'[q].results = answer[q].results
         \/ answer'[q].results = merged[q]
         \/ answer'[q].results = <<>>
<1>1. CASE answer' = answer
  BY <1>1
<1>2. ASSUME NEW r \in Query, Start(r) \/ StatusHangs(r) \/ AskForResult(r) \/ StreamBreaks(r)
      PROVE  answer' = answer
  BY <1>2 DEF Start, StatusHangs, AskForResult, StreamBreaks
<1>3. ASSUME NEW r \in Query, Answer(r)
      PROVE  answer'[q].results = answer[q].results \/ answer'[q].results = merged[q]
  BY <1>3 DEF Answer, EngineTypes
<1>4. ASSUME NEW r \in Query, ResultFails(r)
      PROVE  answer'[q].results = answer[q].results \/ answer'[q].results = <<>>
  BY <1>4 DEF ResultFails, EngineTypes
<1>5. ASSUME NEW r \in Query, NEW k, ReadSnippet(r) \/ MergeResult(r) \/ RunSnippetWork(r, k)
      PROVE  answer' = answer
  BY <1>5 DEF ReadSnippet, MergeResult, RunSnippetWork, interface
<1>6. ASSUME NEW p \in Peer, CsdAnswers(p) \/ CsdContinues(p) \/ CsdFinishesEarly(p) \/ CsdBreaksOff(p)
      PROVE  answer' = answer
  BY <1>6 DEF CsdAnswers, CsdContinues, CsdFinishesEarly, CsdBreaksOff, interface
<1>7. ASSUME Receive \/ Schedule \/ UNCHANGED vars PROVE answer' = answer
  BY <1>7 DEF Receive, Schedule, vars, interface
<1>8. QED
  BY <1>1, <1>2, <1>3, <1>4, <1>5, <1>6, <1>7 DEF Next, Csds, Engine

\* What holds of the results, whatever the counts of blocks are.
ResultsInv == ReceiverInv /\ EngineTypes /\ Scheduled /\ Messaged /\ PushedOnce /\ AnsweredResults

\* It holds at first,
LEMMA ResultsInvStart == Init => ResultsInv
<1> SUFFICES ASSUME Init PROVE ResultsInv
  OBVIOUS
<1>1. queue = <<>> /\ inbox = {} /\ phase = [p \in Peer |-> "idle"]
  BY DEF Init, ReceiverInit
<1>2. Scheduled /\ Messaged
  BY <1>1 DEF Scheduled, Messaged
<1>3. PushedOnce
  BY DEF Init, PushedOnce, ResultsOf
<1>4. AnsweredResults
  <2>1. \A q \in Query : answer[q].results = <<>>
    BY DEF Init, NoAnswer
  <2>2. QED
    BY <2>1 DEF AnsweredResults, ResultsOf
<1>5. QED
  BY <1>2, <1>3, <1>4, ReceiverStart, EngineStart DEF ResultsInv

\* and every step keeps it.
LEMMA ResultsInvStep == ResultsInv /\ [Next]_vars => ResultsInv'
<1> SUFFICES ASSUME ResultsInv, [Next]_vars PROVE ResultsInv'
  OBVIOUS
<1>1. ReceiverInv /\ EngineTypes /\ Scheduled /\ Messaged /\ PushedOnce /\ AnsweredResults
  BY DEF ResultsInv
<1>2. ReceiverInv'
  BY <1>1, ReceiverStep
<1>3. EngineTypes' /\ Scheduled' /\ Messaged'
  BY <1>1, <1>2, TypesStep, ScheduledStep, MessagedStep
<1>4. PushedOnce'
  BY <1>1, <1>2, PushedStep
<1>5. Range(delivered) \subseteq Range(delivered')
  BY <1>1, <1>2, Growth
<1>6. ASSUME NEW q \in Query PROVE ResultsOf(q, answer[q].results)'
  <2>1. ASSUME NEW results, answer'[q].results = results, ResultsOf(q, results)
        PROVE  ResultsOf(q, answer[q].results)'
    BY <1>5, <2>1 DEF ResultsOf
  <2>2. ResultsOf(q, answer[q].results) /\ ResultsOf(q, merged[q]) /\ ResultsOf(q, <<>>)
    BY <1>1 DEF AnsweredResults, PushedOnce, ResultsOf
  <2>3. QED
    BY <1>1, <2>1, <2>2, ResultsSteps
<1>7. AnsweredResults'
  BY <1>6 DEF AnsweredResults
<1>8. QED
  BY <1>2, <1>3, <1>4, <1>7 DEF ResultsInv

\* The rows of a result that came whole are printed as they are stored, but for the cells that
\* CellDeparts lists: whatever the columns, the rows and the SSTs a CSD was given, the merging
\* module cuts and decodes what a CSD made of them by what the offloading module declared
\* (snippet_manager.cc:163-255, buffer_manager.cc:234-386 and 647-674,
\* merging_module_connector.h:26-109).
THEOREM AnswersAreExact == ASSUME RowsFit PROVE Spec => []AnswerShowsWhatIsStored
<1>1. ResultsInv => AnswerShowsWhatIsStored
  <2> SUFFICES ASSUME ResultsInv, NEW q \in Query, NEW r \in Range(answer[q].results)
               PROVE  <<q, SstsOf(r), TRUE>> \in ShownAsStored
    BY DEF AnswerShowsWhatIsStored
  <2>1. r \in Range(delivered) /\ r.peer[1] = q
    BY DEF ResultsInv, AnsweredResults, ResultsOf, Range
  <2> DEFINE m == MessageOf(r.peer)
  <2>2. m \in inbox /\ <<m.snippet, m.csd>> = r.peer
    BY <2>1, ItsMessage DEF ResultsInv
  <2> HIDE DEF m
  <2>3. m.snippet = q
    BY <2>1, <2>2
  <2>4. m.ssts \in SUBSET Ssts(q)
    BY <2>2, <2>3 DEF ResultsInv, Messaged
  <2> DEFINE ssts == SstsOf(r)
  <2>5. ssts \in SUBSET Ssts(q)
    BY <2>4 DEF SstsOf, m
  <2> HIDE DEF ssts
  <2>6. ShownRight(q, ssts)
    BY <2>5, SstsAreShown
  <2>7. ShownRight(q, ssts) = TRUE
    BY <2>6, Zenon DEF ShownRight
  <2>8. <<q, ssts, TRUE>> \in {<<q, s, ShownRight(q, s)>> : s \in SUBSET Ssts(q)}
    BY <2>5, <2>7, Zenon
  <2>9. QED
    BY <2>8, Zenon DEF ShownAsStored, ssts
<1>2. QED
  BY <1>1, ResultsInvStart, ResultsInvStep, PTL DEF Spec
=============================================================================
