----------------------------- MODULE VectorSlab -----------------------------
(***************************************************************************)
(* The Slab of vector-slab-allocator/include/slab.h: an array of blocks    *)
(* that doubles when it is full, each block an array of slots whose first  *)
(* ones hold metadata, and a client that keeps raw pointers and moves them *)
(* when allocate() says that the array has moved.                          *)
(*                                                                         *)
(* One word tells which of the first BlockBits blocks have a free slot;    *)
(* blocks past these are found by a scan.  deallocate() sets the bit of    *)
(* any block all the same, with `1ULL << block_num', which for a block     *)
(* past the word is undefined: the shift instructions of x86-64 and        *)
(* AArch64 take the count modulo the width, another build may shift the    *)
(* bit out.  After a failed assertion the program is gone; so is the model.*)
(***************************************************************************)
EXTENDS Integers, FiniteSets, FiniteSetsExt

CONSTANTS
  SlotBits,   (* slots of a block, the bits of free_slot_list: 64 *)
  BlockBits,  (* the bits of free_block_list: 64 *)
  HeadTaken,  (* slots taken by the metadata of the slab and its first block *)
  TailTaken,  (* slots taken by the metadata of every other block *)
  MaxBlocks   (* bound: the array does not grow past this many blocks *)

(* sizeof(all_md) is 32 and sizeof(block_md) 16: max(1, 32 / sz) and       *)
(* max(1, 16 / sz) leave slots free whatever the size sz.                  *)
ASSUME SizesAssumption ==
  /\ SlotBits \in Nat /\ BlockBits \in Nat \ {0} /\ MaxBlocks \in Nat
  /\ TailTaken \in Nat \ {0} /\ HeadTaken \in Nat \ {0}
  /\ TailTaken < SlotBits /\ HeadTaken < SlotBits

VARIABLES
  num_blocks,       (* SlabMD::num_blocks *)
  free_block_list,  (* SlabMD::free_block_list, the set of the bits at 1 *)
  free_slot_list,   (* BlockMD::free_slot_list of every block *)
  blocks,           (* the base address of the array, counted in resizes *)
  base,             (* the client's `blocks': the base it last heard of *)
  entries,          (* the pointers of the client *)
  aborted           (* find_free_slot was called on a full block *)

slabVars == <<num_blocks, free_block_list, free_slot_list, blocks>>
vars     == <<slabVars, base, entries, aborted>>

SlotNums  == 0 .. SlotBits - 1
BlockNums == 0 .. BlockBits - 1

(* Mutant: one slot too few is free. *)
InitializeShort(taken) == SlotNums \ (0 .. taken)

(* BlockMD(slab, md_sz): the slots that hold metadata are not free. *)
Initialize(taken) == SlotNums \ (0 .. taken - 1)

Init ==
  /\ num_blocks = 1
  /\ free_block_list = BlockNums
  /\ free_slot_list = [b \in {0} |-> Initialize(HeadTaken)]
  /\ blocks = 0
  /\ base = 0
  /\ entries = {}
  /\ aborted = FALSE

-----------------------------------------------------------------------------
(* allocate() *)

(* Mutant: the scan begins one block too far. *)
ChosenLate(num, list, slots) ==
  LET scan == {b \in BlockBits + 1 .. num - 1 : slots[b] # {}} IN
  IF list # {}
    THEN IF Min(list) < num THEN Min(list) ELSE -1
    ELSE IF scan # {} THEN Min(scan) ELSE -1

(* The block allocate() settles for, -1 when there is none: the lowest bit *)
(* of the list, unless it is that of a block still to be created, or else  *)
(* the first block past the list that is not full.                         *)
Chosen(num, list, slots) ==
  LET scan == {b \in BlockBits .. num - 1 : slots[b] # {}} IN
  IF list # {}
    THEN IF Min(list) < num THEN Min(list) ELSE -1
    ELSE IF scan # {} THEN Min(scan) ELSE -1

(* Mutant: a block that is full stays listed. *)
ClearNever(list, b, full) == list

Clear(list, b, full) == IF full THEN list \ {b} ELSE list

(* Mutant: the pointers move the wrong way. *)
RebaseBack(ptrs, delta) == {[p EXCEPT !.base = @ - delta] : p \in ptrs}

(* entries[j] + (new_blocks - blocks), for every pointer of the client *)
Rebase(ptrs, delta) == {[p EXCEPT !.base = @ + delta] : p \in ptrs}

(* find_free_slot on block b, and the client's reaction to the returned    *)
(* (p, did_resize, new_blocks).                                            *)
TakeSlot(b, num, slots, new_blocks, did_resize) ==
  /\ num_blocks' = num
  /\ blocks' = new_blocks
  /\ \/ /\ slots[b] = {}
        /\ aborted' = TRUE
        /\ free_slot_list' = slots
        /\ UNCHANGED <<free_block_list, base, entries>>
     \/ /\ slots[b] # {}
        /\ LET s == Min(slots[b]) IN
           /\ free_slot_list' = [slots EXCEPT ![b] = @ \ {s}]
           /\ free_block_list' = Clear(free_block_list, b, slots[b] = {s})
           /\ entries' = {[base |-> new_blocks, block |-> b, slot |-> s]} \cup
                IF did_resize THEN Rebase(entries, new_blocks - base) ELSE entries
           /\ base' = new_blocks
           /\ UNCHANGED aborted

(* resize(): the old blocks are copied, the new ones get fresh metadata. *)
Grown(num, slots) ==
  [b \in 0 .. 2 * num - 1 |-> IF b < num THEN slots[b] ELSE Initialize(TailTaken)]

AllocateInPlace ==
  LET b == Chosen(num_blocks, free_block_list, free_slot_list) IN
  /\ ~aborted
  /\ b # -1
  /\ TakeSlot(b, num_blocks, free_slot_list, blocks, FALSE)

(* Mutant: did_resize of the recursive call is returned. *)
AllocateResizedSilently ==
  LET grown == Grown(num_blocks, free_slot_list)
      b == Chosen(2 * num_blocks, free_block_list, grown) IN
  /\ ~aborted
  /\ Chosen(num_blocks, free_block_list, free_slot_list) = -1
  /\ 2 * num_blocks <= MaxBlocks
  /\ TakeSlot(b, 2 * num_blocks, grown, blocks + 1, FALSE)

(* resize() and the recursive call, which finds one of the new blocks *)
AllocateResized ==
  LET grown == Grown(num_blocks, free_slot_list)
      b == Chosen(2 * num_blocks, free_block_list, grown) IN
  /\ ~aborted
  /\ Chosen(num_blocks, free_block_list, free_slot_list) = -1
  /\ 2 * num_blocks <= MaxBlocks
  /\ TakeSlot(b, 2 * num_blocks, grown, blocks + 1, TRUE)

-----------------------------------------------------------------------------
(* deallocate() *)

(* Mutants: no bit is set; that of the next block is. *)
ShiftedNone(b) == {{}}
ShiftedNext(b) == {{(b + 1) % BlockBits}}

(* What `1ULL << block_num' may set: see above for blocks past the word. *)
ShiftedBit(b) ==
  IF b \in BlockNums THEN {{b}} ELSE {{b % BlockBits}, {}}

Deallocate ==
  /\ ~aborted
  /\ \E p \in entries :
       /\ entries' = entries \ {p}
       /\ free_slot_list' = [free_slot_list EXCEPT ![p.block] = @ \cup {p.slot}]
       /\ \E bit \in ShiftedBit(p.block) : free_block_list' = free_block_list \cup bit
  /\ UNCHANGED <<num_blocks, blocks, base, aborted>>

Aborted == aborted /\ UNCHANGED vars

Next == AllocateInPlace \/ AllocateResized \/ Deallocate \/ Aborted

Spec == Init /\ [][Next]_vars

-----------------------------------------------------------------------------
(* Type invariant. *)
TypeOK ==
  /\ num_blocks \in Nat \ {0}
  /\ free_block_list \in SUBSET BlockNums
  /\ free_slot_list \in [0 .. num_blocks - 1 -> SUBSET SlotNums]
  /\ blocks \in Nat
  /\ base \in Nat
  /\ entries \in SUBSET [base : Nat, block : 0 .. num_blocks - 1, slot : SlotNums]
  /\ aborted \in BOOLEAN

(* Every slot of every block holds metadata, is marked free or belongs to  *)
(* the client, and only one of the three: whatever the growth of the array *)
(* and the state of free_block_list, no slot is handed out twice, lost, or *)
(* taken from the metadata.                                                *)
Taken(b) == 0 .. (IF b = 0 THEN HeadTaken ELSE TailTaken) - 1
Held(b) == {p.slot : p \in {q \in entries : q.block = b}}

SlotsPartitioned ==
  \A b \in 0 .. num_blocks - 1 :
    /\ Taken(b) \cup free_slot_list[b] \cup Held(b) = SlotNums
    /\ Taken(b) \cap (free_slot_list[b] \cup Held(b)) = {}
    /\ free_slot_list[b] \cap Held(b) = {}

(* A client that moves its pointers only when did_resize is true (test2,   *)
(* test3) never holds one into an array that has been freed, although      *)
(* allocate() reports the move of its recursive call.                      *)
PointersCurrent ==
  ~aborted => base = blocks /\ \A p \in entries : p.base = blocks

(* No block with a free slot is missing from free_block_list; with blocks  *)
(* beyond the word and bits set by wrapped shifts this must hold for the   *)
(* first BlockBits blocks and the blocks still to come.                    *)
BlockListCovers ==
  \A b \in BlockNums :
    (b < num_blocks => free_slot_list[b] # {}) => b \in free_block_list

(* The array grows only when no block has a free slot (test3: "Blocks were *)
(* resized, but it shouldn't have").                                       *)
GrowsWhenFull ==
  [][num_blocks' # num_blocks => \A b \in 0 .. num_blocks - 1 : free_slot_list[b] = {}]_vars

(* While the blocks fit the word, free_block_list is exact: a full block   *)
(* is never listed, so allocate() never picks one.                         *)
BlockListExact ==
  num_blocks <= BlockBits =>
    free_block_list = {b \in BlockNums : b < num_blocks => free_slot_list[b] # {}}

(* assert(free_slot_pos != 0 && "No free slot found when calling           *)
(* find_free_slot") never fails.                                           *)
FreeSlotFound == ~aborted
=============================================================================
