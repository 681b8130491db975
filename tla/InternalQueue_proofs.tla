------------------------- MODULE InternalQueue_proofs -------------------------
(***************************************************************************)
(* kQueue for any number of producers, consumers and items: its types, the   *)
(* absence of lost wakeups, and that every step is one of a first-in         *)
(* first-out queue.                                                          *)
(***************************************************************************)
EXTENDS InternalQueue, TLAPS

\* kQueue keeps its types: items are the numbers pushed, only a producer is about
\* to notify and only a consumer waits (internal_queue.h:16-39).
THEOREM TypeCorrect == Spec => []TypeOK
<1>1. Init => TypeOK
  BY QueueAssumption DEF Init, TypeOK
<1>2. TypeOK /\ [Next]_vars => TypeOK'
  <2> SUFFICES ASSUME TypeOK, [Next]_vars PROVE TypeOK'
    OBVIOUS
  <2> USE QueueAssumption DEF TypeOK
  <2>1. ASSUME NEW p \in Producers, PushWork(p) PROVE TypeOK'
    <3>1. /\ Len(work) \in Nat
          /\ Len(popped) \in Nat
          /\ Len(work) + Len(popped) + 1 \in 1..MaxItems
      BY <2>1 DEF PushWork
    <3>2. work' \in Seq(1..MaxItems) /\ Len(work') = Len(work) + 1
      BY <2>1, <3>1 DEF PushWork
    <3>3. QED
      BY <2>1, <3>1, <3>2 DEF PushWork
  <2>2. ASSUME NEW p \in Producers, NotifyOne(p) PROVE TypeOK'
    BY <2>2 DEF NotifyOne, Waiting
  <2>3. ASSUME NEW c \in Consumers, Wait(c) PROVE TypeOK'
    BY <2>3 DEF Wait
  <2>4. ASSUME NEW c \in Consumers, Pop(c) PROVE TypeOK'
    <3>1. /\ work' \in Seq(1..MaxItems)
          /\ Len(work') = Len(work) - 1
          /\ Head(work) \in 1..MaxItems
      BY <2>4 DEF Pop
    <3>2. popped' \in Seq(1..MaxItems) /\ Len(popped') = Len(popped) + 1
      BY <2>4, <3>1 DEF Pop
    <3>3. QED
      BY <2>4, <3>1, <3>2 DEF Pop
  <2>5. ASSUME NEW c \in Consumers, SpuriousWakeup(c) PROVE TypeOK'
    BY <2>5 DEF SpuriousWakeup
  <2>6. CASE UNCHANGED vars
    BY <2>6 DEF vars
  <2>7. QED
    BY <2>1, <2>2, <2>3, <2>4, <2>5, <2>6 DEF Next
<1>3. QED
  BY <1>1, <1>2, PTL DEF Spec

\* While an item is queued, some consumer is awake or some producer is about to
\* notify, although push_work notifies only on a queue it found empty.
THEOREM WakeupsNotLost == Spec => []NoLostWakeup
<1>1. Init => NoLostWakeup
  BY DEF Init, NoLostWakeup
<1>2. TypeOK /\ NoLostWakeup /\ [Next]_vars => NoLostWakeup'
  <2> SUFFICES ASSUME TypeOK, NoLostWakeup, [Next]_vars PROVE NoLostWakeup'
    OBVIOUS
  <2> USE QueueAssumption DEF TypeOK, NoLostWakeup
  \* The queue was empty: this producer is about to notify.  It was not: whoever
  \* was awake or about to notify still is.
  <2>1. ASSUME NEW p \in Producers, PushWork(p) PROVE NoLostWakeup'
    <3>1. CASE work = <<>>
      BY <2>1, <3>1 DEF PushWork
    <3>2. CASE work # <<>>
      <4>1. \A c \in Consumers : pc'[c] = pc[c]
        BY <2>1 DEF PushWork
      <4>2. \A q \in Producers : pc[q] = "notifying" => pc'[q] = "notifying"
        BY <2>1, <3>2 DEF PushWork
      <4>3. QED
        BY <3>2, <4>1, <4>2
    <3>3. QED
      BY <3>1, <3>2
  \* The notification wakes a consumer, or none was waiting and all are awake.
  <2>2. ASSUME NEW p \in Producers, NotifyOne(p) PROVE NoLostWakeup'
    <3>1. CASE Waiting = {} /\ pc' = [pc EXCEPT ![p] = "running"]
      <4>1. PICK c \in Consumers : TRUE
        OBVIOUS
      <4>2. pc'[c] = "running"
        BY <3>1 DEF Waiting
      <4>3. QED
        BY <4>2
    <3>2. ASSUME NEW c \in Waiting,
                 pc' = [pc EXCEPT ![p] = "running", ![c] = "running"]
          PROVE  NoLostWakeup'
      BY <3>2 DEF Waiting
    <3>3. QED
      BY <2>2, <3>1, <3>2 DEF NotifyOne
  <2>3. ASSUME NEW c \in Consumers, Wait(c) PROVE NoLostWakeup'
    BY <2>3 DEF Wait
  <2>4. ASSUME NEW c \in Consumers, Pop(c) PROVE NoLostWakeup'
    BY <2>4 DEF Pop
  <2>5. ASSUME NEW c \in Consumers, SpuriousWakeup(c) PROVE NoLostWakeup'
    BY <2>5 DEF SpuriousWakeup
  <2>6. CASE UNCHANGED vars
    BY <2>6 DEF vars
  <2>7. QED
    BY <2>1, <2>2, <2>3, <2>4, <2>5, <2>6 DEF Next
<1>3. QED
  BY <1>1, <1>2, TypeCorrect, PTL DEF Spec

\* kQueue starts as the empty first-in first-out queue, and each of its steps puts
\* the next item at the end, takes the oldest one or changes nothing.
THEOREM StepsAreFifo == Spec => Fifo!FifoInit /\ [][Fifo!FifoNext]_(Fifo!fifoVars)
<1>1. Init => Fifo!FifoInit
  BY DEF Init, Fifo!FifoInit
<1>2. [Next]_vars => [Fifo!FifoNext]_(Fifo!fifoVars)
  <2> SUFFICES ASSUME [Next]_vars PROVE [Fifo!FifoNext]_(Fifo!fifoVars)
    OBVIOUS
  <2>1. ASSUME NEW p \in Producers, PushWork(p) PROVE Fifo!Put
    BY <2>1 DEF PushWork, Fifo!Put
  <2>2. ASSUME NEW c \in Consumers, Pop(c) PROVE Fifo!Take
    BY <2>2 DEF Pop, Fifo!Take
  <2>3. ASSUME NEW p \in Producers, NotifyOne(p) PROVE UNCHANGED Fifo!fifoVars
    BY <2>3 DEF NotifyOne, Fifo!fifoVars
  <2>4. ASSUME NEW c \in Consumers, Wait(c) \/ SpuriousWakeup(c)
        PROVE  UNCHANGED Fifo!fifoVars
    BY <2>4 DEF Wait, SpuriousWakeup, Fifo!fifoVars
  <2>5. CASE UNCHANGED vars
    BY <2>5 DEF vars, Fifo!fifoVars
  <2>6. QED
    BY <2>1, <2>2, <2>3, <2>4, <2>5 DEF Next, Fifo!FifoNext
<1>3. QED
  BY <1>1, <1>2, PTL DEF Spec
==============================================================================
