----------------------------- MODULE MCProgress -----------------------------
(***************************************************************************)
(* The parts of the old allocators in which threads wait for each other or *)
(* repeat an exchange, and the two linked structures beside them, for TLC. *)
(* part says which one a behaviour is about; the others take no step.      *)
(***************************************************************************)
EXTENDS Integers, Sequences, FiniteSets

CONSTANTS
  Threads, None,
  Slabs, MaxSlots, SpinDemand,                               (* LockFreeAllocator *)
  MutexDemand, MaxQueue,                                     (* MutexAllocator *)
  Copies, Internals, Classes, Objects, MaxDemand, Ordered,   (* LockFreeFrontEnd *)
  Values, Nodes, MaxNodes,                                   (* LockFreeStack *)
  ListThreads, ListNodes                                     (* LockFreeList *)

VARIABLES
  part,
  (* LockFreeAllocator *)
  unreserved, free_slots, spinSlabs, queue, consumerLock, producerLock,
  spinPc, spinSlab, spinSlot, expected, spinLive, spinDeleted,
  (* MutexAllocator *)
  num_free, slots_used, all_slabs, free_slabs, mux_holder, pc, slab, slot,
  live, deleted,
  (* LockFreeFrontEnd *)
  internal_state, allocators, mux_allocators, status, made_for, held,
  frontPc, copy, class, salloc, arg,
  (* LockFreeStack *)
  head, value, next, stackPc, p, sought, rest,
  (* LockFreeList *)
  listHead, tail, listNext, heap, listPc, newNode, expectedTail

spinVars ==
  <<unreserved, free_slots, spinSlabs, queue, consumerLock, producerLock,
    spinPc, spinSlab, spinSlot, expected, spinLive, spinDeleted>>
mutexVars ==
  <<num_free, slots_used, all_slabs, free_slabs, mux_holder, pc, slab, slot, live, deleted>>
frontVars ==
  <<internal_state, allocators, mux_allocators, status, made_for, held,
    frontPc, copy, class, salloc, arg>>
stackVars == <<head, value, next, stackPc, p, sought, rest>>
listVars  == <<listHead, tail, listNext, heap, listPc, newNode, expectedTail>>

LockFree == INSTANCE LockFreeAllocator
              WITH MaxDemand <- SpinDemand, NoSlab <- None, NoSlot <- None,
                   num_free <- unreserved, all_slabs <- spinSlabs, pc <- spinPc,
                   slab <- spinSlab, slot <- spinSlot, live <- spinLive,
                   deleted <- spinDeleted
Mutex    == INSTANCE MutexAllocator
              WITH MaxDemand <- MutexDemand, NoSlab <- None, NoSlot <- None
FrontEnd == INSTANCE LockFreeFrontEnd WITH pc <- frontPc
Stack    == INSTANCE LockFreeStack
              WITH pc <- stackPc, NoNode <- None, NoValue <- None
List     == INSTANCE LockFreeList
              WITH Threads <- ListThreads, Nodes <- ListNodes, NoNode <- None,
                   head <- listHead, next <- listNext, pc <- listPc

ASSUME StackNodes == Cardinality(Nodes) >= MaxNodes

(* Which slab and which node comes first makes no difference. *)
Init ==
  /\ part \in {"lock_free", "mutex", "front_end", "stack", "list"}
  /\ LockFree!Init /\ spinSlabs = {CHOOSE s \in Slabs : TRUE}
  /\ Mutex!Init /\ all_slabs = {CHOOSE s \in Slabs : TRUE}
  /\ FrontEnd!Init
  /\ Stack!Init
  /\ List!Init /\ listHead = CHOOSE n \in ListNodes : TRUE

Next ==
  \/ /\ part = "lock_free" /\ LockFree!Next
     /\ UNCHANGED <<part, mutexVars, frontVars, stackVars, listVars>>
  \/ /\ part = "mutex" /\ Mutex!Next
     /\ UNCHANGED <<part, spinVars, frontVars, stackVars, listVars>>
  \/ /\ part = "front_end" /\ FrontEnd!Next
     /\ UNCHANGED <<part, spinVars, mutexVars, stackVars, listVars>>
  \/ /\ part = "stack" /\ Stack!Next
     /\ UNCHANGED <<part, spinVars, mutexVars, frontVars, listVars>>
  \/ /\ part = "list" /\ List!Next
     /\ UNCHANGED <<part, spinVars, mutexVars, frontVars, stackVars>>

(* Every part runs under the fairness its module states. *)
FairSpec ==
  /\ Init /\ [][Next]_<<part, spinVars, mutexVars, frontVars, stackVars, listVars>>
  /\ LockFree!Fairness /\ Mutex!Fairness /\ FrontEnd!Fairness /\ Stack!Fairness /\ List!Fairness

-----------------------------------------------------------------------------
(* Nobody who waits for others waits for ever: each call of allocate() or  *)
(* deallocate() on a SlabAllocator comes back from the mutex of a class,   *)
(* and each node in a list becomes reachable, once older pushes have       *)
(* linked theirs.                                                          *)
WaitingEnds == FrontEnd!CallsReturn /\ List!BecomesReachable

(* Nobody leaves a spin lock of the lock-free allocator taken, on none of  *)
(* the three ways out of pop_front.                                        *)
LocksReleased == LockFree!LocksReleased

(* Single calls may wait for ever: for a mutex or a spin lock, neither of  *)
(* which is fair, or for an exchange of the stack to succeed.  But while   *)
(* calls are in progress one returns, again and again: because a thread    *)
(* that fails to get a lock leaves another inside it, whatever became of   *)
(* the mutex allocator's queue of slabs, and because an exchange fails     *)
(* only when another has succeeded.                                        *)
CallsKeepReturning ==
  LockFree!CallsKeepReturning /\ Mutex!CallsKeepReturning /\ Stack!CallsKeepReturning
=============================================================================
