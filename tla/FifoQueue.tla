----------------------------- MODULE FifoQueue -----------------------------
(***************************************************************************)
(* What LowLockQueue promises the allocator: a first-in first-out queue    *)
(* whose consumers look at the front value first and then either leave it  *)
(* or take it out, and take exactly the value they looked at.              *)
(***************************************************************************)
EXTENDS Sequences

CONSTANTS
  Threads,
  Values,
  NoValue

VARIABLES
  items,   (* the queued values, oldest first *)
  seen     (* the value each thread is looking at *)

fifoVars == <<items, seen>>

FifoInit ==
  /\ items = <<>>
  /\ seen = [t \in Threads |-> NoValue]

Enqueue(v) ==
  /\ items' = Append(items, v)
  /\ UNCHANGED seen

Look(t) ==
  /\ items # <<>>
  /\ seen' = [seen EXCEPT ![t] = Head(items)]
  /\ UNCHANGED items

Dequeue(t) ==
  /\ items # <<>>
  /\ seen[t] = Head(items)
  /\ items' = Tail(items)
  /\ UNCHANGED seen

(* A thread returns and forgets what it saw. *)
Forget(t) ==
  /\ seen' = [seen EXCEPT ![t] = NoValue]
  /\ UNCHANGED items

Clear ==
  /\ items' = <<>>
  /\ UNCHANGED seen

FifoNext ==
  \/ \E v \in Values : Enqueue(v)
  \/ \E t \in Threads : Look(t) \/ Dequeue(t) \/ Forget(t)
  \/ Clear

FifoSpec == FifoInit /\ [][FifoNext]_fifoVars
=============================================================================
