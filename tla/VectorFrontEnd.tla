--------------------------- MODULE VectorFrontEnd ---------------------------
(***************************************************************************)
(* Threads that share a SlabAllocator of the vector allocator              *)
(* (vector-slab-allocator/include/slab_allocator.h).  The Slab of a class  *)
(* is created under a mutex; what allocate() and deallocate() do to its    *)
(* bitmaps (slab.h) is under none, and every |= and &= is a load and a     *)
(* store.                                                                  *)
(*                                                                         *)
(* One size class and one block of slots.  A thread that finds no free     *)
(* block would call resize(): the model follows it no further.  What one   *)
(* thread does with many blocks is in VectorSlab, and how pointers survive *)
(* a resize in FancyPointer.  Stores are seen in program order.            *)
(***************************************************************************)
EXTENDS Integers, FiniteSets, FiniteSetsExt

CONSTANTS
  Threads,
  Slabs,
  BlockSlots,   (* slot 0 holds the metadata *)
  MaxDemand,    (* bound on the slots in use and the calls in progress *)
  None

VARIABLES
  slab,             (* internal->slabs[exp] *)
  mux_slabs,
  created,          (* the Slabs that new has made *)
  table,            (* the entry of slab_lookup_table for the class *)
  free_slot_list, free_block_list,   (* bitmaps: free slots; whether the block is free *)
  aborted,          (* the assertion in find_free_slot has failed *)
  held,             (* slots in use: thread, slot, and whether it has a slab's pointer *)
  pc,
  new, word, slot   (* of every thread: its new Slab, the word it loaded, its slot *)

slabVars == <<slab, mux_slabs, created, table>>
bitmaps  == <<free_slot_list, free_block_list>>
locals   == <<new, word, slot>>
vars     == <<slabVars, bitmaps, aborted, held, pc, locals>>

Goto(t, label) == pc' = [pc EXCEPT ![t] = label]
Move(t, from, to) == ~aborted /\ pc[t] = from /\ Goto(t, to)

Init ==
  /\ slab = None /\ table = None
  /\ mux_slabs = FALSE
  /\ created = {}
  /\ free_slot_list = {} /\ free_block_list = FALSE
  /\ aborted = FALSE
  /\ held = {}
  /\ pc = [t \in Threads |-> "idle"]
  /\ new = [t \in Threads |-> None]
  /\ word = [t \in Threads |-> {}]
  /\ slot = [t \in Threads |-> None]

Return(t, from) ==
  /\ Move(t, from, "idle")
  /\ new' = [new EXCEPT ![t] = None]
  /\ word' = [word EXCEPT ![t] = {}]
  /\ slot' = [slot EXCEPT ![t] = None]

-----------------------------------------------------------------------------
(* Creation of the Slab *)

CallAllocate(t) ==
  /\ Move(t, "idle", "check")
  /\ Cardinality(held) + Cardinality({u \in Threads : pc[u] # "idle"}) < MaxDemand
  /\ UNCHANGED <<slabVars, bitmaps, aborted, held, locals>>

Check(t) ==
  /\ Move(t, "check", IF slab = None THEN "lock" ELSE "find_block")
  /\ UNCHANGED <<slabVars, bitmaps, aborted, held, locals>>

(* Mutant: the check is not repeated. *)
LockOnly(t) ==
  /\ Move(t, "lock", "construct")
  /\ ~mux_slabs
  /\ mux_slabs' = TRUE
  /\ UNCHANGED <<slab, created, table, bitmaps, aborted, held, locals>>

(* The mutex, and the second check *)
Lock(t) ==
  /\ Move(t, "lock", IF slab = None THEN "construct" ELSE "unlock")
  /\ ~mux_slabs
  /\ mux_slabs' = TRUE
  /\ UNCHANGED <<slab, created, table, bitmaps, aborted, held, locals>>

(* Mutant: the Slab is entered in the table when the first array grows. *)
ConstructUnregistered(t) ==
  /\ Move(t, "construct", "publish")
  /\ \E s \in Slabs \ created :
       /\ created' = created \cup {s}
       /\ new' = [new EXCEPT ![t] = s]
  /\ free_slot_list' = 1 .. BlockSlots - 1
  /\ free_block_list' = TRUE
  /\ UNCHANGED <<slab, table, mux_slabs, aborted, held, word, slot>>

(* Slab::Slab fills in the metadata, which takes slot 0, and registers. *)
Construct(t) ==
  /\ Move(t, "construct", "publish")
  /\ \E s \in Slabs \ created :
       /\ created' = created \cup {s}
       /\ new' = [new EXCEPT ![t] = s]
       /\ table' = s
  /\ free_slot_list' = 1 .. BlockSlots - 1
  /\ free_block_list' = TRUE
  /\ UNCHANGED <<slab, mux_slabs, aborted, held, word, slot>>

Publish(t) ==
  /\ Move(t, "publish", "unlock")
  /\ slab' = new[t]
  /\ UNCHANGED <<mux_slabs, created, table, bitmaps, aborted, held, locals>>

Unlock(t) ==
  /\ Move(t, "unlock", "find_block")
  /\ mux_slabs' = FALSE
  /\ UNCHANGED <<slab, created, table, bitmaps, aborted, held, locals>>

-----------------------------------------------------------------------------
(* Slab::allocate; without a free block it would resize. *)
FindBlock(t) ==
  /\ Move(t, "find_block", IF free_block_list THEN "find_slot" ELSE "resize")
  /\ UNCHANGED <<slabVars, bitmaps, aborted, held, locals>>

(* find_free_slot: ffsll reads the word, and &= reads it again and stores  *)
(* it; in between, others read and write the same word.                    *)
FindSlot(t) ==
  /\ Move(t, "find_slot", "load_clear")
  /\ free_slot_list # {}
  /\ slot' = [slot EXCEPT ![t] = Min(free_slot_list)]
  /\ UNCHANGED <<slabVars, bitmaps, aborted, held, new, word>>

Abort(t) ==
  /\ Move(t, "find_slot", "aborted")
  /\ free_slot_list = {}
  /\ aborted' = TRUE
  /\ UNCHANGED <<slabVars, bitmaps, held, locals>>

(* The load of |= or &= *)
LoadWord(t, from, to) ==
  /\ Move(t, from, to)
  /\ word' = [word EXCEPT ![t] = free_slot_list]
  /\ UNCHANGED <<slabVars, bitmaps, aborted, held, new, slot>>

StoreClear(t) ==
  /\ Move(t, "store_clear", "is_full")
  /\ free_slot_list' = word[t] \ {slot[t]}
  /\ UNCHANGED <<slabVars, free_block_list, aborted, held, locals>>

IsFull(t) ==
  /\ Move(t, "is_full", IF free_slot_list = {} THEN "clear_block" ELSE "pointer_to")
  /\ UNCHANGED <<slabVars, bitmaps, aborted, held, locals>>

(* One block, one bit: the load that precedes makes no difference. *)
ClearBlock(t) ==
  /\ Move(t, "clear_block", "pointer_to")
  /\ free_block_list' = FALSE
  /\ UNCHANGED <<slabVars, free_slot_list, aborted, held, locals>>

(* pointer_to: a pointer through the table, if the slab is found there. *)
PointerTo(t) ==
  /\ Return(t, "pointer_to")
  /\ held' = held \cup {[thread |-> t, slot |-> slot[t], in_slab |-> table = slab]}
  /\ UNCHANGED <<slabVars, bitmaps, aborted>>

-----------------------------------------------------------------------------
CallDeallocate(t) ==
  /\ Move(t, "idle", "load_set")
  /\ \E h \in held :
       /\ held' = held \ {h}
       /\ slot' = [slot EXCEPT ![t] = h.slot]
  /\ UNCHANGED <<slabVars, bitmaps, aborted, new, word>>

(* Mutant: bit_set of a position counted from 0. *)
StoreSetLow(t) ==
  /\ Move(t, "store_set", "set_block")
  /\ free_slot_list' = word[t] \cup {slot[t] - 1}
  /\ UNCHANGED <<slabVars, free_block_list, aborted, held, locals>>

StoreSet(t) ==
  /\ Move(t, "store_set", "set_block")
  /\ free_slot_list' = word[t] \cup {slot[t]}
  /\ UNCHANGED <<slabVars, free_block_list, aborted, held, locals>>

SetBlock(t) ==
  /\ Return(t, "set_block")
  /\ free_block_list' = TRUE
  /\ UNCHANGED <<slabVars, free_slot_list, aborted, held>>

(* The program has stopped, or all its threads are where the model ends. *)
Ended ==
  /\ aborted \/ \A t \in Threads : pc[t] = "resize"
  /\ UNCHANGED vars

Next ==
  \/ \E t \in Threads :
       \/ CallAllocate(t) \/ Check(t) \/ Lock(t) \/ Construct(t) \/ Publish(t) \/ Unlock(t)
       \/ FindBlock(t) \/ FindSlot(t) \/ Abort(t) \/ LoadWord(t, "load_clear", "store_clear")
       \/ StoreClear(t) \/ IsFull(t) \/ ClearBlock(t) \/ PointerTo(t)
       \/ CallDeallocate(t) \/ LoadWord(t, "load_set", "store_set") \/ StoreSet(t)
       \/ SetBlock(t)
  \/ Ended

Spec == Init /\ [][Next]_vars

-----------------------------------------------------------------------------
(* Whatever races on the bitmaps, one Slab is made for the class: a second *)
(* would take its place in the table, and the pointers into the first lose *)
(* their meaning.                                                          *)
OneSlab == Cardinality(created) <= 1 /\ (slab # None => table = slab)

(* Every pointer that allocate() returns goes through the table: the Slab  *)
(* is registered before any thread can take a slot from it.                *)
SlabRegistered == \A h \in held : h.in_slab

(* Updates of the bitmap get lost, but none invents a free slot: the slot  *)
(* with the metadata is never handed out.                                  *)
MetadataSafe ==
  /\ 0 \notin free_slot_list
  /\ \A t \in Threads : slot[t] # 0
=============================================================================
