----------------------------- MODULE SlabLayout -----------------------------
(***************************************************************************)
(* The addresses of slots.  A slot has no header: deallocate() finds the   *)
(* slab, the block and the slot in the address itself, which works because *)
(* of the alignment of the memory.                                         *)
(*                                                                         *)
(* "old" is the layout of both old allocators (lock_free_allocator/slab.h, *)
(* mutex_allocator/slab.h and single_allocator.h): a pointer to the slab,  *)
(* then the slots.  "vector" is that of the array of blocks, whose sizes   *)
(* are computed in int; when it is full it is copied into one twice as     *)
(* large, and the client moves its pointers along.  Slot 0 of a block is   *)
(* never handed out; where metadata takes more slots (small slots, the     *)
(* first block) the code hands out fewer than the module does.             *)
(***************************************************************************)
EXTENDS Integers

CONSTANTS
  PtrSize,        (* the size of a pointer *)
  MaxSlots,       (* slots of an old slab *)
  BlockSlots,     (* slots of a block; slot 0 holds the metadata *)
  MaxBlocks,      (* bound on the blocks of an array *)
  Sizes,          (* sizes of slots *)
  MaxMultiple,    (* bound: memory lies at 1 .. MaxMultiple times its alignment *)
  IntLimit        (* 2^31: an int is in -IntLimit .. IntLimit - 1 *)

Kinds == {"old", "vector"}

LayoutAssumption ==
  (* get_alignment(sz) is to be larger than the offset of any slot (slab.h);  *)
  (* for every sz > 0 that is what the last conjunct says.                    *)
  /\ PtrSize \in Nat \ {0} /\ MaxSlots \in Nat \ {0}
  /\ BlockSlots \in Nat \ {0} /\ MaxBlocks \in Nat \ {0}
  /\ Sizes \subseteq Nat \ {0}
  /\ MaxMultiple \in Nat \ {0}
  /\ IntLimit \in Nat \ {0}
  /\ PtrSize <= MaxSlots + 2

VARIABLES
  kind, sz, data,   (* the slab: its layout, the size of its slots, its memory *)
  room,             (* the bytes that posix_memalign was asked for *)
  num_blocks,
  held,             (* the slots that are handed out *)
  released          (* the last one that came back, and what deallocate() took it for *)

vars == <<kind, sz, data, room, num_blocks, held, released>>

ToInt(x) == LET r == x % (2 * IntLimit) IN IF r < IntLimit THEN r ELSE r - 2 * IntLimit

(* Mutant: the size of the slots alone. *)
AlignmentTight(s) == s * MaxSlots

Alignment(s) == s * 2 * (MaxSlots + 1)
DataSize(s)  == s * MaxSlots + PtrSize

BlockSize(s) == BlockSlots * s       (* in size_t, in the constructor *)
BlockInt(s)  == ToInt(BlockSlots * s)    (* 64*sz everywhere else *)

(* The slots of a slab with n blocks, by block and slot number; an old     *)
(* slab counts as one block.                                               *)
Slots(k, n) ==
  IF k = "old" THEN {0} \X (0 .. MaxSlots - 1) ELSE (0 .. n - 1) \X (1 .. BlockSlots - 1)

Bytes(first, size) == first .. first + size - 1

(* Mutant: the pointer to the slab is forgotten. *)
AddressBare(k, s, b, slot) ==
  IF k = "old" THEN b + slot[2] * s ELSE b + slot[1] * BlockSize(s) + slot[2] * s

(* get_pointer, insert; nth_block and find_free_slot *)
Address(k, s, b, slot) ==
  IF k = "old" THEN b + slot[2] * s + PtrSize
  ELSE b + slot[1] * BlockSize(s) + slot[2] * s

(* find_slab_info: the memory of the slab, and the slot. *)
FindOld(s, p) ==
  LET offset == p % Alignment(s)
  IN  [data |-> p - offset, slot |-> <<0, (offset - PtrSize) \div s>>]

(* Slab::deallocate; start, in the block it finds, leads to the array.     *)
FindVector(s, p, b) ==
  LET slot_num == (p % BlockInt(s)) \div s
      blk == p - slot_num * s
  IN  [data |-> b, slot |-> <<(blk - b) \div BlockInt(s), slot_num>>]

Init ==
  /\ kind \in Kinds
  /\ sz \in Sizes
  /\ room = IF kind = "old" THEN DataSize(sz) ELSE BlockSize(sz)
  /\ num_blocks = 1
  /\ data \in {m * (IF kind = "old" THEN Alignment(sz) ELSE BlockSize(sz)) : m \in 1 .. MaxMultiple}
  /\ held = {}
  /\ released = [wanted |-> {}, found |-> {}]

(* After a resize() that asked for too little the program works on memory  *)
(* that is not its own, and nothing is modelled of what follows.           *)
Enough == kind = "old" \/ room >= num_blocks * BlockSize(sz)

Allocate(slot) ==
  /\ Enough
  /\ \A h \in held : h.slot # slot
  /\ held' = held \cup {[slot |-> slot, p |-> Address(kind, sz, data, slot)]}
  /\ UNCHANGED <<kind, sz, data, room, num_blocks, released>>

Full == {h.slot : h \in held} = Slots(kind, num_blocks)

(* resize(); new_num_blocks * 64*sz is an int. *)
Resize ==
  /\ kind = "vector"
  /\ Enough /\ Full
  /\ num_blocks < MaxBlocks
  /\ num_blocks' = 2 * num_blocks
  /\ room' = ToInt(num_blocks' * BlockSlots * sz)
  /\ data' \in {m * BlockSize(sz) : m \in 1 .. MaxMultiple}
  /\ Bytes(data', num_blocks' * BlockSize(sz)) \cap Bytes(data, room) = {}
  /\ held' = {[h EXCEPT !.p = @ + data' - data] : h \in held}
  /\ UNCHANGED <<kind, sz, released>>

(* Where int is too narrow, BlockInt is negative or 0; a division by it is *)
(* a wrong answer (as a size_t) or a trap, and finds nothing.              *)
Deallocate(h) ==
  /\ Enough
  /\ held' = held \ {h}
  /\ released' =
       [wanted |-> {[data |-> data, slot |-> h.slot]},
        found  |-> IF kind = "old" THEN {FindOld(sz, h.p)}
                   ELSE IF BlockInt(sz) > 0 THEN {FindVector(sz, h.p, data)} ELSE {}]
  /\ UNCHANGED <<kind, sz, data, room, num_blocks>>

Stopped == ~Enough /\ UNCHANGED vars

Next ==
  \/ \E slot \in Slots(kind, num_blocks) : Allocate(slot)
  \/ Resize
  \/ \E h \in held : Deallocate(h)
  \/ Stopped

Spec == Init /\ [][Next]_vars

-----------------------------------------------------------------------------
(* deallocate() finds the slab, the block and the slot the pointer is of,  *)
(* as long as the size of a block fits an int.                             *)
Narrow(n) == kind = "old" \/ n * BlockSlots * sz < IntLimit

FoundExact == Narrow(1) => released.found = released.wanted

(* The slots that are handed out lie inside the memory that was asked for, *)
(* apart from each other and behind the pointer to the slab or the         *)
(* metadata, before and after the array has grown.                         *)
BytesOf(h) == Bytes(h.p, sz)

SlotsApart ==
  Enough =>
    /\ \A g, h \in held : g.slot # h.slot => BytesOf(g) \cap BytesOf(h) = {}
    /\ \A h \in held :
         BytesOf(h) \subseteq
           Bytes(data, room) \ Bytes(data, IF kind = "old" THEN PtrSize ELSE sz)

(* resize() asks for enough memory exactly while the size fits an int.     *)
RoomExact == Enough <=> (num_blocks = 1 \/ Narrow(num_blocks))
=============================================================================
