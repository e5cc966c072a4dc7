---------------------------- MODULE MCConcurrent ----------------------------
(***************************************************************************)
(* The three SlabAllocators and the two linked structures for TLC: what    *)
(* clients and threads may do to them at once.  They do not use each       *)
(* other.  part says which one a behaviour is about; the others take no    *)
(* step.                                                                   *)
(***************************************************************************)
EXTENDS Naturals, FiniteSets, TLC

CONSTANTS
  Threads, FewThreads, None,   (* FewThreads run where three would be too many states *)
  Copies, Internals, Classes, Objects, MaxDemand, Ordered,   (* LockFreeFrontEnd *)
  MutexCopies, MutexClasses, MutexObjects, MutexDemand,      (* MutexFrontEnd *)
  Slabs, BlockSlots,                                         (* VectorFrontEnd *)
  Values, Nodes, MaxNodes,                                   (* LockFreeStack *)
  ListNodes                                                  (* LockFreeList *)

VARIABLES
  part,
  (* LockFreeFrontEnd *)
  internal_state, allocators, mux_allocators, status, made_for, held,
  pc, copy, class, salloc, arg,
  (* MutexFrontEnd *)
  family, copyAllocators, source, copyRest, familyMux, copyMadeFor, copyHeld,
  copyPc, calledCopy, calledClass, copySalloc, copyArg,
  (* VectorFrontEnd *)
  slab, mux_slabs, created, table, free_slot_list, free_block_list, aborted,
  slabHeld, slabPc, new, word, slot,
  (* LockFreeStack *)
  head, value, next, stackPc, p, sought, rest,
  (* LockFreeList *)
  listHead, tail, listNext, heap, listPc, newNode, expectedTail

lockFreeVars ==
  <<internal_state, allocators, mux_allocators, status, made_for, held,
    pc, copy, class, salloc, arg>>
mutexVars ==
  <<family, copyAllocators, source, copyRest, familyMux, copyMadeFor, copyHeld,
    copyPc, calledCopy, calledClass, copySalloc, copyArg>>
vectorVars ==
  <<slab, mux_slabs, created, table, free_slot_list, free_block_list, aborted,
    slabHeld, slabPc, new, word, slot>>
stackVars  == <<head, value, next, stackPc, p, sought, rest>>
listVars   == <<listHead, tail, listNext, heap, listPc, newNode, expectedTail>>

LockFree == INSTANCE LockFreeFrontEnd
Mutex    == INSTANCE MutexFrontEnd
              WITH Copies <- MutexCopies, Classes <- MutexClasses, Objects <- MutexObjects,
                   MaxDemand <- MutexDemand, allocators <- copyAllocators, rest <- copyRest,
                   mux_allocators <- familyMux, made_for <- copyMadeFor, held <- copyHeld,
                   pc <- copyPc, copy <- calledCopy, class <- calledClass,
                   salloc <- copySalloc, arg <- copyArg
Vector   == INSTANCE VectorFrontEnd
              WITH Threads <- FewThreads, held <- slabHeld, pc <- slabPc
Stack    == INSTANCE LockFreeStack
              WITH Threads <- FewThreads, pc <- stackPc, NoNode <- None, NoValue <- None
List     == INSTANCE LockFreeList
              WITH Nodes <- ListNodes, NoNode <- None,
                   head <- listHead, next <- listNext, pc <- listPc

ASSUME StackNodes == Cardinality(Nodes) >= MaxNodes

(* None is a null pointer, and the value of a local that is not yet set.   *)
ASSUME NoneAssumption ==
  /\ None \notin Copies \cup Internals \cup Classes \cup Objects
  /\ None \notin MutexCopies \cup MutexClasses \cup MutexObjects
  /\ None \notin Slabs \cup Nat

(* Nor is it a pair of a family and a class. *)
ASSUME PairsAssumption == None \notin MutexCopies \X MutexClasses

(* The memory has finitely many addresses, and no node is at the null one. *)
ASSUME NodesAssumption ==
  /\ IsFiniteSet(Nodes) /\ IsFiniteSet(ListNodes)
  /\ None \notin Nodes \cup ListNodes

(* A block has its slot for the metadata. *)
ASSUME BlockSlotsAssumption == BlockSlots \in Nat \ {0}

(* Which node of the list comes first makes no difference. *)
Init ==
  /\ part \in {"lock_free", "mutex", "vector", "stack", "list"}
  /\ LockFree!Init /\ Mutex!Init /\ Vector!Init /\ Stack!Init
  /\ List!Init /\ listHead = CHOOSE n \in ListNodes : TRUE

Next ==
  \/ /\ part = "lock_free" /\ LockFree!Next
     /\ UNCHANGED <<part, mutexVars, vectorVars, stackVars, listVars>>
  \/ /\ part = "mutex" /\ Mutex!Next
     /\ UNCHANGED <<part, lockFreeVars, vectorVars, stackVars, listVars>>
  \/ /\ part = "vector" /\ Vector!Next
     /\ UNCHANGED <<part, lockFreeVars, mutexVars, stackVars, listVars>>
  \/ /\ part = "stack" /\ Stack!Next
     /\ UNCHANGED <<part, lockFreeVars, mutexVars, vectorVars, listVars>>
  \/ /\ part = "list" /\ List!Next
     /\ UNCHANGED <<part, lockFreeVars, mutexVars, vectorVars, stackVars>>

Spec == Init /\ [][Next]_<<part, lockFreeVars, mutexVars, vectorVars, stackVars, listVars>>

(* The copies of the mutex allocator have the names of FewThreads, and the *)
(* nodes of the stack those of Threads, so that two sets of permutations   *)
(* serve all parts.                                                        *)
Symmetry == Permutations(Threads) \cup Permutations(FewThreads)

-----------------------------------------------------------------------------
(* Double-checked creation, with its check under no lock, makes one        *)
(* SingleAllocator per class and internal state in the lock-free allocator *)
(* and one Slab per class in the vector allocator: a second would hide the *)
(* first, and what it owns.                                                *)
OnePerClass == LockFree!OnePerClass /\ Vector!OneSlab

(* Nobody gets at a SingleAllocator before it is constructed, except where *)
(* stores are not ordered, nor after the last copy has deleted it, which   *)
(* deletes all; nor at a slot of a Slab that is not yet in the table.      *)
UsedWhenBuilt ==
  LockFree!UsedWhenBuilt /\ LockFree!DeletedWithLast /\ Vector!SlabRegistered

(* deallocate() reaches the SingleAllocator that allocated: in the         *)
(* lock-free allocator through every copy that compares equal; in the      *)
(* mutex allocator, while threads create classes in the copies they share, *)
(* through the copy that allocated and those taken from it later.  Through *)
(* others it finds an object of the same size of slot, or crashes; nothing *)
(* else does.                                                              *)
FoundMaker ==
  LockFree!FoundMaker /\ Mutex!FoundMaker /\ Mutex!CrashedApart /\ Mutex!RightObject

(* Threads that race on the bitmaps of a vector slab may lose updates and  *)
(* share slots, but the slot with the metadata is never handed out.        *)
MetadataSafe == Vector!MetadataSafe

(* push_front and pop_front change the stack at its top, by one value at a *)
(* time: pushes that race are not lost, and a head that left and came back *)
(* does not deceive the exchange.  push_back puts a node behind all others *)
(* of the list, in the one order in which the tail was exchanged.          *)
Linearized == Stack!IsStack /\ List!AppendsOnly

(* No node is lost: what find() answered stays what it was while nodes are *)
(* popped and their addresses reused, and every node of the list is on it  *)
(* or in the hands of a thread, until the destructor frees them all.  A    *)
(* thread outside the calls keeps no node of the stack alive.              *)
NodesKept ==
  /\ Stack!TypeOK /\ Stack!ReferencesKeep
  /\ List!NoNodeLost /\ List!AllFreed
=============================================================================
