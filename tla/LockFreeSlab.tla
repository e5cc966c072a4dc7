---------------------------- MODULE LockFreeSlab ----------------------------
(***************************************************************************)
(* The slab of the lock-free allocator (lock_free_allocator/slab.h): a     *)
(* chunk of memory cut into MaxSlots slots, an atomic counter of the slots *)
(* that are still unreserved and an atomic word with one bit per slot.     *)
(*                                                                         *)
(* The word has one bit more than the slab has slots (64 against 63), and  *)
(* all of them start at 1: only the discipline of the callers keeps the    *)
(* last bit from being handed out.  A set of bits stands for the word.     *)
(*                                                                         *)
(* Every operator below is one atomic instruction of the source.           *)
(***************************************************************************)
EXTENDS Integers, FiniteSets, FiniteSetsExt

CONSTANTS
  Slabs,      (* the addresses a slab can be created at *)
  MaxSlots    (* MAX_SLOTS: 63 in the source *)

(* A new slab enters the queue with one slot already reserved, so a slab   *)
(* of a single slot would be queued full.                                  *)
ASSUME MaxSlotsAssumption == MaxSlots \in Nat /\ MaxSlots >= 2

VARIABLES
  num_free,   (* num_free[s]: slots of s nobody has reserved *)
  free_slots  (* free_slots[s]: the bits of s that are 1 *)

slabVars == <<num_free, free_slots>>

Slots == 0 .. MaxSlots - 1   (* the slots Slab::data has room for *)
Bits  == 0 .. MaxSlots       (* the bits of the word: -1ULL sets them all *)

(* ffsll(fs) - 1, for a word that is not 0 *)
LowestFree(fs) == Min(fs)

(* Mutant: the creator forgets its fetch_sub. *)
ConstructUnreserved(s) ==
  /\ num_free' = [num_free EXCEPT ![s] = MaxSlots]
  /\ free_slots' = [free_slots EXCEPT ![s] = Bits]

(* num_free{MAX_SLOTS}, free_slots{-1ULL} and, before anyone else can see  *)
(* the slab, the fetch_sub of the thread that creates it.                  *)
ConstructReserved(s) ==
  /\ num_free' = [num_free EXCEPT ![s] = MaxSlots - 1]
  /\ free_slots' = [free_slots EXCEPT ![s] = Bits]

(* lock_slot: num_free.fetch_sub(1), whose result is NumFreeAfterLock(s) *)
NumFreeAfterLock(s) == num_free[s] - 1

LockSlot(s) ==
  /\ num_free' = [num_free EXCEPT ![s] = NumFreeAfterLock(s)]
  /\ UNCHANGED free_slots

(* One successful compare_exchange_weak of free_slots. *)
CompareExchange(s, seen, desired) ==
  /\ free_slots[s] = seen
  /\ free_slots' = [free_slots EXCEPT ![s] = desired]
  /\ UNCHANGED num_free

(* Mutants: a plain store instead of the exchange; the bit of a neighbour. *)
StoreClaimed(s, seen) ==
  /\ free_slots' = [free_slots EXCEPT ![s] = seen \ {LowestFree(seen)}]
  /\ UNCHANGED num_free

ReleaseNeighbour(s, seen, slot) == CompareExchange(s, seen, seen \cup {slot + 1})

(* The exchange get_pointer makes on the word it last saw ... *)
ClaimBit(s, seen) == CompareExchange(s, seen, seen \ {LowestFree(seen)})

(* ... and the one release_slot makes. *)
ReleaseBit(s, seen, slot) == CompareExchange(s, seen, seen \cup {slot})

(* The end of release_slot: num_free.fetch_add(1). *)
ReleaseCount(s) ==
  /\ num_free' = [num_free EXCEPT ![s] = @ + 1]
  /\ UNCHANGED free_slots
=============================================================================
