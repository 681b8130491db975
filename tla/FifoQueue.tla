------------------------------ MODULE FifoQueue ------------------------------
(***************************************************************************)
(* What kQueue (src/include/internal_queue.h) promises to its callers: an   *)
(* unbounded first-in first-out queue that any producer may append to and   *)
(* from which one consumer at a time removes the oldest item, and in which  *)
(* no item waits for ever.  Items are numbered in the order in which they   *)
(* are put, so that a lost, repeated or overtaking item shows.              *)
(***************************************************************************)
EXTENDS Naturals, Sequences

CONSTANT MaxItems      \* bound: how many items are ever put

VARIABLES queue,       \* the items put and not yet taken, oldest first
          taken        \* the items taken, in the order they were taken

fifoVars == <<queue, taken>>

FifoInit == queue = <<>> /\ taken = <<>>

Put ==
  /\ Len(queue) + Len(taken) < MaxItems
  /\ queue' = Append(queue, Len(queue) + Len(taken) + 1)
  /\ UNCHANGED taken

Take ==
  /\ queue # <<>>
  /\ queue' = Tail(queue)
  /\ taken' = Append(taken, Head(queue))

FifoNext == Put \/ Take

FifoSpec == FifoInit /\ [][FifoNext]_fifoVars /\ WF_fifoVars(Take)
==============================================================================
