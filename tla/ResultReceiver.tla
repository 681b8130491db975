---------------------------- MODULE ResultReceiver ----------------------------
(***************************************************************************)
(* The thread that takes the results of the CSDs from TCP connections          *)
(* (bufferManagerInterface, src/merging_module/buffer_manager.cc:12-101).       *)
(* It serves one connection at a time, on the stack of one thread: a length     *)
(* and a JSON text; "ok"; a size and the data; "ok"; then the result is         *)
(* pushed.  It checks little of what recv returns, and sets no timeout.         *)
(*                                                                           *)
(* A connection is a stream of units: one for a length, some for a text or for   *)
(* data.  recv returns any non-empty part of what has arrived.  A peer that ends *)
(* early leaves a prefix of what it sent, and a FIN or a reset.  On Linux recv    *)
(* of no bytes waits, like any other, until something arrives or the peer ends.  *)
(*                                                                           *)
(* main makes an httplib Server, which ignores SIGPIPE, so a send to a peer that *)
(* has gone fails, unnoticed, and the thread goes on.  A CSD that breaks off     *)
(* apart, a CSD is assumed to keep to the protocol: its text parses, and it      *)
(* announces no more data than the buffer holds (lines 76 and 83 check           *)
(* neither).  A length of which only some bytes come counts as one that was      *)
(* never set, a size of which only some bytes come as none.  Left out is the     *)
(* zero that line 67 writes behind the buffer when the whole text comes at once. *)
(***************************************************************************)
EXTENDS Integers, Sequences, FiniteSets

CONSTANTS
  Peer, NoPeer,  \* the connections of the CSDs, one per result
  TextUnits,     \* how many units a JSON text is
  RecvMax        \* how many recv returns at most: BUFF_SIZE - 1 in the code

ASSUME ReceiverAssumption ==
  /\ NoPeer \notin Peer
  /\ {TextUnits, RecvMax} \subseteq Nat \ {0}

VARIABLES
  backlog,    \* the connections that wait for accept
  phase,      \* per peer: "idle", "text" sent, "data" sent, or "over"
  dataUnits,  \* per peer: how many units its data is
  wire,       \* per peer: the units that have arrived and are not read
  closed,     \* per peer: "open", "fin" or "reset"
  oks,        \* per peer: how many "ok" it was sent
  stage,      \* the thread: "accept", what it reads, or how it was lost
  serving,    \* the peer it serves
  left,       \* ljson or ldata
  sized,      \* was the size of the data received, or is ldata still 0?
  delivered   \* the results pushed, with how many units of the data were missing

peers == <<phase, dataUnits>>
receiver == <<backlog, stage, serving, left, sized, delivered>>
receiverVars == <<backlog, phase, dataUnits, wire, closed, oks, stage, serving, left, sized,
                  delivered>>

ReceiverInit ==
  /\ backlog = <<>>
  /\ phase = [p \in Peer |-> "idle"]
  /\ dataUnits = [p \in Peer |-> 0]
  /\ wire = [p \in Peer |-> 0]
  /\ closed = [p \in Peer |-> "open"]
  /\ oks = [p \in Peer |-> 0]
  /\ stage = "accept"
  /\ serving = NoPeer
  /\ left = 0
  /\ sized = FALSE
  /\ delivered = <<>>

\* The process has ended, the thread runs in a loop that nothing ends, or it uses a
\* length that was never set.
Lost == stage \in {"exited", "spinning", "undefined"}
------------------------------------------------------------------------------
(* A CSD; the code of its side is not in this repository.                       *)

Connect(p, n) ==
  /\ phase[p] = "idle"
  /\ phase' = [phase EXCEPT ![p] = "text"]
  /\ dataUnits' = [dataUnits EXCEPT ![p] = n]
  /\ wire' = [wire EXCEPT ![p] = 1 + TextUnits]
  /\ backlog' = Append(backlog, p)
  /\ UNCHANGED <<closed, oks, stage, serving, left, sized, delivered>>

SendData(p) ==
  /\ phase[p] = "text"
  /\ oks[p] = 1
  /\ phase' = [phase EXCEPT ![p] = "data"]
  /\ wire' = [wire EXCEPT ![p] = @ + 1 + dataUnits[p]]
  /\ UNCHANGED <<dataUnits, closed, oks, receiver>>

Finish(p) ==
  /\ phase[p] = "data"
  /\ phase' = [phase EXCEPT ![p] = "over"]
  /\ closed' = [closed EXCEPT ![p] = IF @ = "open" THEN "fin" ELSE @]
  /\ UNCHANGED <<dataUnits, wire, oks, receiver>>

\* The CSD or the network fails: some of what is under way is lost.
BreakOff(p) ==
  /\ phase[p] \in {"text", "data"}
  /\ phase' = [phase EXCEPT ![p] = "over"]
  /\ \E n \in 0..wire[p] : wire' = [wire EXCEPT ![p] = n]
  /\ \E how \in {"fin", "reset"} : closed' = [closed EXCEPT ![p] = how]
  /\ UNCHANGED <<dataUnits, oks, receiver>>
------------------------------------------------------------------------------
(* The thread.                                                                 *)

Accept ==
  /\ stage = "accept"
  /\ backlog # <<>>
  /\ serving' = Head(backlog)
  /\ backlog' = Tail(backlog)
  /\ stage' = "length"
  /\ UNCHANGED <<peers, wire, closed, oks, left, sized, delivered>>

\* What recv finds: units, or the peer's end, reported as -1 once after a reset.
Available == wire[serving]
Ended == wire[serving] = 0 /\ closed[serving] # "open"

Reported == closed' = [closed EXCEPT ![serving] = "fin"]

\* What recv returns is not looked at: without a length, ljson is whatever was there.
ReceiveLength ==
  /\ stage = "length"
  /\ \/ /\ Available > 0
        /\ wire' = [wire EXCEPT ![serving] = @ - 1]
        /\ left' = TextUnits
        /\ stage' = "text"
        /\ UNCHANGED closed
     \/ /\ Ended
        /\ stage' = "undefined"
        /\ Reported
        /\ UNCHANGED <<wire, left>>
  /\ UNCHANGED <<peers, backlog, oks, serving, sized, delivered>>

\* recv in either loop: 0 changes nothing and is tried again, -1 ends the process.
ReceiveEnded ==
  /\ stage \in {"text", "data"}
  /\ left > 0
  /\ Ended
  /\ stage' = IF closed[serving] = "reset" THEN "exited" ELSE "spinning"
  /\ UNCHANGED <<peers, backlog, wire, closed, oks, serving, left, sized, delivered>>

\* send of "ok", whose result is not looked at: a peer that has closed may answer it
\* with a reset, and to one that has reset it fails and changes nothing.
Acknowledge ==
  /\ oks' = [oks EXCEPT ![serving] = @ + 1]
  /\ IF closed[serving] = "fin"
     THEN \E how \in {"fin", "reset"} : closed' = [closed EXCEPT ![serving] = how]
     ELSE UNCHANGED closed

ReceiveText ==
  /\ stage = "text"
  /\ \E n \in 1..RecvMax :
       /\ n <= Available
       /\ wire' = [wire EXCEPT ![serving] = @ - n]
       /\ left' = left - n
       /\ IF n = left THEN stage' = "size" /\ Acknowledge
                      ELSE UNCHANGED <<stage, closed, oks>>
  /\ UNCHANGED <<peers, backlog, serving, sized, delivered>>

\* Faulty variant: the size counts a byte more.
AnnouncedWithSize == dataUnits[serving] + 1

\* The size that the peer sends.
Announced == dataUnits[serving]

\* ldata was set to 0, and stays so when nothing comes.
ReceiveSize ==
  /\ stage = "size"
  /\ \/ /\ Available > 0
        /\ wire' = [wire EXCEPT ![serving] = @ - 1]
        /\ left' = Announced
        /\ sized' = TRUE
        /\ UNCHANGED closed
     \/ /\ Ended
        /\ left' = 0
        /\ sized' = FALSE
        /\ Reported
        /\ UNCHANGED wire
  /\ stage' = "data"
  /\ UNCHANGED <<peers, backlog, oks, serving, delivered>>

\* Faulty variant: the loop ends with the first part of the data.
EnoughWithAny(n) == TRUE

\* ldata has come down to 0.
Enough(n) == n = left

\* The result is pushed and the connection closed.  What is missing is zeros: the thread
\* has cleared its buffer.
Deliver ==
  /\ Acknowledge
  /\ delivered' = Append(delivered, [peer |-> serving,
                                     missing |-> IF sized THEN left' ELSE dataUnits[serving]])
  /\ serving' = NoPeer
  /\ stage' = "accept"

ReceiveData ==
  /\ stage = "data"
  /\ left > 0
  /\ \E n \in 1..left :
       /\ n <= Available
       /\ wire' = [wire EXCEPT ![serving] = @ - n]
       /\ left' = left - n
       /\ IF Enough(n) THEN Deliver
                       ELSE UNCHANGED <<closed, oks, delivered, serving, stage>>
  /\ UNCHANGED <<peers, backlog, sized>>

\* With nothing left to receive, the loop still calls recv once, for no bytes: it
\* returns only when the peer has ended.
ReceiveNothing ==
  /\ stage = "data"
  /\ left = 0
  /\ Ended
  /\ UNCHANGED <<peers, backlog, wire, left, sized>>
  /\ IF closed[serving] = "reset"
     THEN stage' = "exited" /\ UNCHANGED <<closed, oks, delivered, serving>>
     ELSE Deliver

ReceiverThread ==
  \/ Accept \/ ReceiveLength \/ ReceiveText \/ ReceiveSize \/ ReceiveData
  \/ ReceiveNothing \/ ReceiveEnded

\* The thread waits for a peer to end, which may be waiting for the second "ok".
WaitsForEnd ==
  /\ stage = "data"
  /\ left = 0
  /\ ~ Ended
==============================================================================
