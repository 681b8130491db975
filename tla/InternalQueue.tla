---------------------------- MODULE InternalQueue ----------------------------
(***************************************************************************)
(* kQueue<T> of src/include/internal_queue.h: a std::queue behind work_mutex *)
(* with the condition variable work_available.  push_work notifies only when *)
(* it found the queue empty, and does so after it has released the mutex, so *)
(* a consumer may run between the push and the notification.                 *)
(*                                                                           *)
(* A critical section of work_mutex is one action; the notification, which   *)
(* is outside the mutex, is an action of its own.  A thread in a wait may    *)
(* return from it without a notification (the C++ standard allows spurious   *)
(* wakeups).  The scheduler thread and the merge threads, the consumers of   *)
(* the code, call wait_and_pop in a loop.                                    *)
(***************************************************************************)
EXTENDS Naturals, Sequences

CONSTANTS Producers,   \* threads that call push_work
          Consumers,   \* threads that loop on wait_and_pop
          MaxItems     \* bound: items pushed over a behaviour

ASSUME QueueAssumption ==
  /\ Producers # {}
  /\ Consumers # {}
  /\ Producers \cap Consumers = {}
  /\ MaxItems \in Nat

VARIABLES work,        \* the std::queue
          pc,          \* what each thread is doing
          popped       \* history: the items popped, in order

vars == <<work, pc, popped>>

Waiting == {c \in Consumers : pc[c] = "waiting"}

Init ==
  /\ work = <<>>
  /\ pc = [t \in Producers \cup Consumers |-> "running"]
  /\ popped = <<>>

\* Faulty variant: the test of was_empty is the wrong way round.
PushWorkInverted(p) ==
  /\ pc[p] = "running"
  /\ Len(work) + Len(popped) < MaxItems
  /\ work' = Append(work, Len(work) + Len(popped) + 1)
  /\ pc' = [pc EXCEPT ![p] = IF work # <<>> THEN "notifying" ELSE "running"]
  /\ UNCHANGED popped

\* push_work up to lock.unlock(): `was_empty' decides whether a notification
\* is still to come.
PushWork(p) ==
  /\ pc[p] = "running"
  /\ Len(work) + Len(popped) < MaxItems
  /\ work' = Append(work, Len(work) + Len(popped) + 1)
  /\ pc' = [pc EXCEPT ![p] = IF work = <<>> THEN "notifying" ELSE "running"]
  /\ UNCHANGED popped

\* work_available.notify_one(): one waiting thread, if there is any, wakes up.
NotifyOne(p) ==
  /\ pc[p] = "notifying"
  /\ \/ /\ Waiting = {}
        /\ pc' = [pc EXCEPT ![p] = "running"]
     \/ \E c \in Waiting :
          pc' = [pc EXCEPT ![p] = "running", ![c] = "running"]
  /\ UNCHANGED <<work, popped>>

\* wait_and_pop with an empty queue: wait releases the mutex and blocks.
Wait(c) ==
  /\ pc[c] = "running"
  /\ work = <<>>
  /\ pc' = [pc EXCEPT ![c] = "waiting"]
  /\ UNCHANGED <<work, popped>>

\* Faulty variants: the item is not removed, and the newest item is taken.
PopKeeps(c) ==
  /\ pc[c] = "running"
  /\ work # <<>>
  /\ popped' = Append(popped, Head(work))
  /\ UNCHANGED <<work, pc>>

PopNewest(c) ==
  /\ pc[c] = "running"
  /\ work # <<>>
  /\ work' = SubSeq(work, 1, Len(work) - 1)
  /\ popped' = Append(popped, work[Len(work)])
  /\ UNCHANGED pc

\* wait_and_pop with an item: the while loop is left and the front removed.
Pop(c) ==
  /\ pc[c] = "running"
  /\ work # <<>>
  /\ work' = Tail(work)
  /\ popped' = Append(popped, Head(work))
  /\ UNCHANGED pc

SpuriousWakeup(c) ==
  /\ pc[c] = "waiting"
  /\ pc' = [pc EXCEPT ![c] = "running"]
  /\ UNCHANGED <<work, popped>>

Next ==
  \/ \E p \in Producers : PushWork(p) \/ NotifyOne(p)
  \/ \E c \in Consumers : Wait(c) \/ Pop(c) \/ SpuriousWakeup(c)

\* Threads that can run are scheduled; nothing obliges a producer to push or a
\* wait to return spuriously.
Fairness ==
  /\ \A p \in Producers : WF_vars(NotifyOne(p))
  /\ \A c \in Consumers : WF_vars(Wait(c) \/ Pop(c))

Spec == Init /\ [][Next]_vars /\ Fairness
------------------------------------------------------------------------------
TypeOK ==
  /\ work \in Seq(1..MaxItems)
  /\ popped \in Seq(1..MaxItems)
  /\ Len(work) + Len(popped) <= MaxItems
  /\ pc \in [Producers \cup Consumers -> {"running", "notifying", "waiting"}]
  /\ \A p \in Producers : pc[p] # "waiting"
  /\ \A c \in Consumers : pc[c] # "notifying"

\* No wakeup is lost although push_work stays silent on a queue that is not
\* empty: while an item is queued, a consumer is awake or a producer is about
\* to notify.
NoLostWakeup ==
  work # <<>> => \/ \E c \in Consumers : pc[c] = "running"
                 \/ \E p \in Producers : pc[p] = "notifying"

\* kQueue implements the first-in first-out queue, items never stay for ever
\* included.
Fifo == INSTANCE FifoQueue WITH queue <- work, taken <- popped

\* kQueue's wait_and_pop hands every pushed item to exactly one consumer, in
\* the order of the pushes, and always gets to it (internal_queue.h:16-39).
ImplementsFifo == Fifo!FifoSpec
==============================================================================
