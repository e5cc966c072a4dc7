---------------------------- MODULE MCAddresses ----------------------------
(***************************************************************************)
(* The arithmetic of the allocators for TLC: from the size of a request to *)
(* its class (SizeClass), from an address to the slot it is of             *)
(* (SlabLayout), from an address to a fancy pointer and back               *)
(* (FancyPointer), and what clients compute with fancy pointers            *)
(* (PointerArithmetic).  part says which one a behaviour is about; the     *)
(* others take no step.                                                    *)
(***************************************************************************)
EXTENDS Integers, TLC

CONSTANTS
  IntWidth, SizeWidth, MaxAllocators, MaxMutex, MaxSlabs,
  LimitLockFree, LimitMutex, LimitVector,                          (* SizeClass *)
  PtrSize, MaxSlots, BlockSlots, MaxBlocks, Sizes, MaxMultiple,
  IntLimit,                                                        (* SlabLayout *)
  Allocators, MaxClass, FancyBlockSlots, FancyMaxBlocks, MaxAddress,
  MaxOutside, Nothing,                                             (* FancyPointer *)
  WordLimit, ObjectSizes, Length, First                                (* PointerArithmetic *)

VARIABLES
  part,
  (* SizeClass *)
  variant, request, rounded_size, exponent, pc, answer, slot, sz,
  (* SlabLayout *)
  kind, layoutSz, data, room, num_blocks, layoutHeld, released,
  (* FancyPointer *)
  slab_lookup_table, slabs, memory, held, outside, gone,
  (* PointerArithmetic *)
  size, offset, index, result, expected

classVars  == <<variant, request, rounded_size, exponent, pc, answer, slot, sz>>
layoutVars == <<kind, layoutSz, data, room, num_blocks, layoutHeld, released>>
fancyVars  == <<slab_lookup_table, slabs, memory, held, outside, gone>>
walkVars   == <<size, offset, index, result, expected>>

Class  == INSTANCE SizeClass
Layout == INSTANCE SlabLayout
            WITH sz <- layoutSz, held <- layoutHeld
Fancy  == INSTANCE FancyPointer
            WITH BlockSlots <- FancyBlockSlots, MaxBlocks <- FancyMaxBlocks
Walk   == INSTANCE PointerArithmetic WITH Sizes <- ObjectSizes

ASSUME SizesAssumption == Layout!LayoutAssumption

ASSUME WidthsAssumption == Class!ClassAssumption
ASSUME NothingAssumption == Fancy!FancyAssumption
ASSUME ReachAssumption == Walk!WalkAssumption

(* The parts that take no step start in one state. *)
Init ==
  /\ part \in {"class", "layout", "fancy", "walk"}
  /\ Class!Init /\ Layout!Init /\ Fancy!Init /\ Walk!Init
  /\ part # "class" => variant = "vector"
  /\ part # "layout" =>
       /\ kind = "old"
       /\ layoutSz = CHOOSE s \in Sizes : TRUE
       /\ data = Layout!Alignment(layoutSz)
  /\ part # "walk" => size = CHOOSE s \in ObjectSizes : TRUE

Next ==
  \/ part = "class" /\ Class!Next /\ UNCHANGED <<part, layoutVars, fancyVars, walkVars>>
  \/ part = "layout" /\ Layout!Next /\ UNCHANGED <<part, classVars, fancyVars, walkVars>>
  \/ part = "fancy" /\ Fancy!Next /\ UNCHANGED <<part, classVars, layoutVars, walkVars>>
  \/ part = "walk" /\ Walk!Next /\ UNCHANGED <<part, classVars, layoutVars, fancyVars>>

Spec == Init /\ [][Next]_<<part, classVars, layoutVars, fancyVars, walkVars>>

Symmetry == Permutations(Allocators)

-----------------------------------------------------------------------------
(* Every allocator computes ceil(log2) of a request, refuses what is too   *)
(* large for its classes and only that, and picks slots that hold the      *)
(* request; and it does so exactly where the words it counts in do not     *)
(* overflow: beyond, the slots are too small or the loop does not end.     *)
ClassFits == Class!ClassExact /\ Class!SlotFits /\ Class!SizeKept /\ Class!LoopEnds

(* deallocate() finds in an address the slab, the block and the slot that  *)
(* insert() and find_free_slot() made it from, before and after the array  *)
(* has grown; slots lie apart and inside their memory; and resize() asks   *)
(* for enough of it exactly where its int does not overflow.               *)
AddressesExact == Layout!FoundExact /\ Layout!SlotsApart /\ Layout!RoomExact

(* A fancy pointer leads to its slot wherever the array has moved, and the *)
(* slot has no other; one to an object outside the slabs leads to it but   *)
(* right behind an array; and arithmetic on fancy pointers agrees with     *)
(* that on pointers, but for differences backward.                         *)
FancyExact ==
  /\ Fancy!SlotsResolve /\ Fancy!RoundTrip /\ Fancy!HeldIsUsed /\ Fancy!OutsideResolves
  /\ Walk!WalksLikePointers /\ Walk!DifferenceExact
=============================================================================
