-------------------------- MODULE VectorSlab_proof --------------------------
(***************************************************************************)
(* Proofs about VectorSlab: for blocks and lists of any width, slots are   *)
(* neither shared nor lost, and the client's pointers stay valid, however  *)
(* far the array grows; while it fits the list, the list is exact and the  *)
(* assertion of find_free_slot holds.                                      *)
(***************************************************************************)
EXTENDS VectorSlab, DataLemmas

(* The inductive invariant. *)
Sound == TypeOK /\ PointersCurrent /\ SlotsPartitioned /\ BlockListCovers

-----------------------------------------------------------------------------
(* Words and blocks *)

LEMMA LowestBlock ==
  ASSUME NEW S \in SUBSET BlockNums, S # {}
  PROVE  Min(S) \in S /\ \A x \in S : Min(S) <= x
<1>1. S \in SUBSET Nat
  BY DEF BlockNums
<1>2. QED
  BY <1>1, MinIsLeast

(* A fresh block has a free slot, whatever its metadata takes.             *)
LEMMA FreshBlockFree ==
  /\ Initialize(TailTaken) \in SUBSET SlotNums /\ Initialize(TailTaken) # {}
  /\ Initialize(TailTaken) = SlotNums \ (0 .. TailTaken - 1)
<1>1. SlotBits - 1 \in Initialize(TailTaken)
  BY SizesAssumption DEF Initialize, SlotNums
<1>2. QED
  BY <1>1 DEF Initialize

(* The block that allocate() settles for exists.                           *)
LEMMA ChosenExists ==
  ASSUME NEW num \in Nat, NEW bits \in SUBSET BlockNums,
         NEW slots \in [0 .. num - 1 -> SUBSET SlotNums],
         Chosen(num, bits, slots) # -1
  PROVE  /\ Chosen(num, bits, slots) \in 0 .. num - 1
         /\ \/ Chosen(num, bits, slots) \in bits
            \/ bits = {} /\ slots[Chosen(num, bits, slots)] # {}
<1> DEFINE scan == {b \in BlockBits .. num - 1 : slots[b] # {}}
<1>1. CASE bits # {}
  <2>1. Min(bits) \in bits
    BY <1>1, LowestBlock
  <2>2. Chosen(num, bits, slots) = Min(bits) /\ Min(bits) < num
    BY <1>1 DEF Chosen
  <2>3. PICK m \in BlockNums : m = Min(bits)
    BY <2>1
  <2>4. m \in 0 .. num - 1
    BY <2>2, <2>3 DEF BlockNums
  <2>5. QED
    BY <2>1, <2>2, <2>3, <2>4
<1>2. CASE bits = {}
  <2>1. scan # {} /\ Chosen(num, bits, slots) = Min(scan)
    BY <1>2 DEF Chosen
  <2>2. scan \in SUBSET Nat
    BY SizesAssumption
  <2>3. Min(scan) \in scan
    BY <2>1, <2>2, MinIsLeast
  <2>4. PICK m \in scan : m = Min(scan)
    BY <2>3
  <2>5. m \in BlockBits .. num - 1 /\ slots[m] # {}
    BY <2>4
  <2>6. m \in 0 .. num - 1
    BY <2>5, SizesAssumption
  <2>7. QED
    BY <1>2, <2>1, <2>4, <2>5, <2>6
<1>3. QED
  BY <1>1, <1>2

(* When it settles for none, every block is full ...                       *)
LEMMA NoneChosen ==
  ASSUME Sound, Chosen(num_blocks, free_block_list, free_slot_list) = -1
  PROVE  /\ \A b \in 0 .. num_blocks - 1 : free_slot_list[b] = {}
         /\ \A b \in free_block_list : b >= num_blocks
<1>a. /\ num_blocks \in Nat \ {0} /\ free_block_list \in SUBSET BlockNums
      /\ free_slot_list \in [0 .. num_blocks - 1 -> SUBSET SlotNums]
  BY DEF Sound, TypeOK
<1> DEFINE scan == {b \in BlockBits .. num_blocks - 1 : free_slot_list[b] # {}}
<1>1. ASSUME NEW b \in free_block_list PROVE b >= num_blocks
  <2>1. Min(free_block_list) \in free_block_list /\ Min(free_block_list) <= b
    BY <1>a, LowestBlock
  <2>2. PICK m \in BlockNums : m = Min(free_block_list)
    BY <1>a, <2>1
  <2>3. ~(m < num_blocks)
    BY <2>2 DEF Chosen, BlockNums
  <2>4. m \in Nat /\ b \in Nat
    BY <1>a, <2>2 DEF BlockNums
  <2>5. QED
    BY <1>a, <2>1, <2>2, <2>3, <2>4
<1>2. ASSUME NEW b \in 0 .. num_blocks - 1, free_slot_list[b] # {} PROVE FALSE
  <2>1. CASE b \in BlockNums
    BY <1>1, <1>2, <2>1, <1>a DEF Sound, BlockListCovers
  <2>2. CASE b \notin BlockNums
    <3>1. b \in scan
      BY <1>2, <2>2, <1>a, SizesAssumption DEF BlockNums
    <3>2. free_block_list = {}
      BY <1>1, <1>a, <2>2, SizesAssumption DEF BlockNums
    <3>3. scan \in SUBSET Nat
      BY SizesAssumption
    <3>4. Min(scan) \in Nat
      BY <3>1, <3>3, MinIsLeast
    <3>5. Chosen(num_blocks, free_block_list, free_slot_list) = Min(scan)
      BY <3>1, <3>2 DEF Chosen
    <3>6. QED
      BY <3>4, <3>5
  <2>3. QED
    BY <2>1, <2>2
<1>3. QED
  BY <1>1, <1>2

(* ... and the recursive call finds a block in the grown array.            *)
LEMMA GrownHasRoom ==
  ASSUME Sound, Chosen(num_blocks, free_block_list, free_slot_list) = -1,
         NEW slots, slots = Grown(num_blocks, free_slot_list),
         NEW b, b = Chosen(2 * num_blocks, free_block_list, slots)
  PROVE  /\ slots \in [0 .. 2 * num_blocks - 1 -> SUBSET SlotNums]
         /\ b \in 0 .. 2 * num_blocks - 1
         /\ slots[b] # {}
<1>a. /\ num_blocks \in Nat \ {0} /\ free_block_list \in SUBSET BlockNums
      /\ free_slot_list \in [0 .. num_blocks - 1 -> SUBSET SlotNums]
  BY DEF Sound, TypeOK
<1>1. slots \in [0 .. 2 * num_blocks - 1 -> SUBSET SlotNums]
  BY <1>a, FreshBlockFree DEF Grown
<1>2. \A c \in num_blocks .. 2 * num_blocks - 1 : slots[c] # {}
  BY <1>a, FreshBlockFree DEF Grown
<1>3. b # -1
  <2>1. CASE num_blocks \in BlockNums
    <3>1. num_blocks \in free_block_list
      BY <1>a, <2>1 DEF Sound, BlockListCovers
    <3>2. Min(free_block_list) \in free_block_list /\ Min(free_block_list) <= num_blocks
      BY <3>1, <1>a, LowestBlock
    <3>3. PICK m \in BlockNums : m = Min(free_block_list)
      BY <1>a, <3>2
    <3>4. m \in Nat /\ m < 2 * num_blocks
      BY <1>a, <3>2, <3>3 DEF BlockNums
    <3>5. b = m
      BY <3>1, <3>3, <3>4 DEF Chosen
    <3>6. QED
      BY <3>4, <3>5
  <2>2. CASE num_blocks \notin BlockNums
    <3> DEFINE scan == {c \in BlockBits .. 2 * num_blocks - 1 : slots[c] # {}}
    <3>1. free_block_list = {}
      BY <2>2, NoneChosen, <1>a, SizesAssumption DEF BlockNums
    <3>2. num_blocks \in scan
      BY <2>2, <1>2, <1>a, SizesAssumption DEF BlockNums
    <3>3. scan \in SUBSET Nat
      BY SizesAssumption
    <3>4. Min(scan) \in Nat
      BY <3>2, <3>3, MinIsLeast
    <3>5. b = Min(scan)
      BY <3>1, <3>2 DEF Chosen
    <3>6. QED
      BY <3>4, <3>5
  <2>3. QED
    BY <2>1, <2>2
<1>4. b \in 0 .. 2 * num_blocks - 1 /\ (b \in free_block_list \/ slots[b] # {})
  BY <1>1, <1>3, <1>a, ChosenExists
<1>5. CASE b \in free_block_list
  <2>1. b >= num_blocks
    BY <1>5, NoneChosen
  <2>2. b \in num_blocks .. 2 * num_blocks - 1
    BY <1>4, <2>1, <1>a
  <2>3. QED
    BY <1>1, <1>2, <1>4, <2>2
<1>6. QED
  BY <1>1, <1>4, <1>5

-----------------------------------------------------------------------------
(* Slots and pointers *)

(* How the slots of block c divide when `free' are the free ones.          *)
Partitioned(c, free) ==
  /\ Taken(c) \cup free \cup Held(c) = SlotNums
  /\ Taken(c) \cap (free \cup Held(c)) = {}
  /\ free \cap Held(c) = {}

Pointer(num) == [base : Nat, block : 0 .. num - 1, slot : SlotNums]

(* The client moves its pointers to the new array and changes nothing else. *)
LEMMA RebaseMoves ==
  ASSUME NEW num \in Nat, entries \subseteq Pointer(num), NEW nb \in Nat, base \in Nat,
         \A p \in entries : p.base = base,
         NEW moved, moved = Rebase(entries, nb - base)
  PROVE  /\ moved \subseteq Pointer(num)
         /\ \A p \in moved : p.base = nb
         /\ \A c : {p.slot : p \in {q \in moved : q.block = c}} = Held(c)
<1>1. ASSUME NEW p \in entries
      PROVE  /\ [p EXCEPT !.base = @ + (nb - base)] \in Pointer(num)
             /\ [p EXCEPT !.base = @ + (nb - base)].base = nb
             /\ [p EXCEPT !.base = @ + (nb - base)].block = p.block
             /\ [p EXCEPT !.base = @ + (nb - base)].slot = p.slot
  <2>1. p.base = base /\ p \in Pointer(num)
    OBVIOUS
  <2>2. p.base + (nb - base) = nb
    BY <2>1
  <2>3. QED
    BY <2>1, <2>2 DEF Pointer
<1>2. \A m \in moved : \E p \in entries :
        m \in Pointer(num) /\ m.base = nb /\ m.block = p.block /\ m.slot = p.slot
  BY <1>1 DEF Rebase
<1>3. \A p \in entries : \E m \in moved : m.block = p.block /\ m.slot = p.slot
  BY <1>1 DEF Rebase
<1>4. ASSUME NEW c
      PROVE  {p.slot : p \in {q \in moved : q.block = c}} = Held(c)
  <2>1. ASSUME NEW m \in moved, m.block = c PROVE m.slot \in Held(c)
    BY <1>2, <2>1 DEF Held
  <2>2. ASSUME NEW p \in entries, p.block = c
        PROVE  \E m \in moved : m.block = c /\ m.slot = p.slot
    BY <1>3, <2>2
  <2>3. QED
    BY <2>1, <2>2 DEF Held
<1>5. QED
  BY <1>2, <1>4

(* What find_free_slot and the client do to a sound state. *)
LEMMA TakeSound ==
  ASSUME Sound, ~aborted,
         NEW num \in Nat \ {0}, num_blocks <= num,
         NEW slots \in [0 .. num - 1 -> SUBSET SlotNums],
         \A c \in 0 .. num - 1 : Partitioned(c, slots[c]),
         \A c \in BlockNums : (c < num => slots[c] # {}) => c \in free_block_list,
         NEW b \in 0 .. num - 1, NEW nb \in Nat, NEW resized \in BOOLEAN,
         ~resized => nb = blocks,
         TakeSlot(b, num, slots, nb, resized)
  PROVE  Sound'
<1>a. /\ num_blocks \in Nat \ {0} /\ free_block_list \in SUBSET BlockNums
      /\ blocks \in Nat /\ base \in Nat /\ entries \subseteq Pointer(num_blocks)
      /\ base = blocks /\ \A p \in entries : p.base = blocks
  BY DEF Sound, TypeOK, PointersCurrent, Pointer
<1>b. num_blocks' = num /\ blocks' = nb
  BY DEF TakeSlot
<1>c. entries \subseteq Pointer(num)
  BY <1>a DEF Pointer
<1>1. CASE slots[b] = {}
  <2>1. /\ aborted' = TRUE /\ free_slot_list' = slots /\ free_block_list' = free_block_list
        /\ base' = base /\ entries' = entries
    BY <1>1 DEF TakeSlot
  <2>2. TypeOK'
    BY <1>a, <1>b, <1>c, <2>1 DEF TypeOK, Pointer, SlotNums, BlockNums
  <2>3. PointersCurrent'
    BY <2>1 DEF PointersCurrent
  <2>4. SlotsPartitioned'
    BY <1>b, <2>1 DEF SlotsPartitioned, Partitioned, Held, Taken, SlotNums
  <2>5. BlockListCovers'
    BY <1>b, <2>1 DEF BlockListCovers, BlockNums
  <2>6. QED
    BY <2>2, <2>3, <2>4, <2>5 DEF Sound
<1>2. CASE slots[b] # {}
  <2>1. slots[b] \in SUBSET Nat
    BY DEF SlotNums
  <2>2. PICK s \in slots[b] : s = Min(slots[b])
    BY <1>2, <2>1, MinIsLeast
  <2>3. PICK moved : moved = IF resized THEN Rebase(entries, nb - base) ELSE entries
    OBVIOUS
  <2>4. PICK new : new = [base |-> nb, block |-> b, slot |-> s]
    OBVIOUS
  <2>5. /\ aborted' = aborted /\ base' = nb
        /\ free_slot_list' = [slots EXCEPT ![b] = slots[b] \ {s}]
        /\ free_block_list' = Clear(free_block_list, b, slots[b] = {s})
        /\ entries' = {new} \cup moved
    BY <1>2, <2>2, <2>3, <2>4 DEF TakeSlot
  <2>6. /\ moved \subseteq Pointer(num)
        /\ \A p \in moved : p.base = nb
        /\ \A c : {p.slot : p \in {q \in moved : q.block = c}} = Held(c)
    <3>1. CASE resized
      <4>1. moved = Rebase(entries, nb - base) /\ \A p \in entries : p.base = base
        BY <1>a, <2>3, <3>1
      <4>2. QED
        BY <1>a, <1>c, <4>1, RebaseMoves
    <3>2. CASE ~resized
      BY <1>a, <1>c, <2>3, <3>2 DEF Held
    <3>3. QED
      BY <3>1, <3>2
  <2>7. /\ new \in Pointer(num) /\ new.base = nb /\ new.block = b /\ new.slot = s
    BY <2>2, <2>4 DEF Pointer
  <2>8. Held(b)' = Held(b) \cup {s} /\ \A c : c # b => Held(c)' = Held(c)
    <3>1. Held(b)' = {p.slot : p \in {q \in moved : q.block = b}} \cup {s}
      BY <2>5, <2>7 DEF Held
    <3>2. ASSUME NEW c, c # b
          PROVE  Held(c)' = {p.slot : p \in {q \in moved : q.block = c}}
      BY <2>5, <2>7, <3>2 DEF Held
    <3>3. QED
      BY <2>6, <3>1, <3>2
  <2>9. free_slot_list' \in [0 .. num - 1 -> SUBSET SlotNums]
    BY <2>5
  <2>10. TypeOK'
    <3>1. free_block_list' \in SUBSET BlockNums
      BY <1>a, <2>5 DEF Clear
    <3>2. entries' \subseteq Pointer(num)
      BY <2>5, <2>6, <2>7
    <3>3. aborted' \in BOOLEAN
      BY <2>5 DEF Sound, TypeOK
    <3>4. QED
      BY <1>b, <2>5, <2>9, <3>1, <3>2, <3>3 DEF TypeOK, Pointer, SlotNums, BlockNums
  <2>11. PointersCurrent'
    BY <1>b, <2>5, <2>6, <2>7 DEF PointersCurrent
  <2>12. ASSUME NEW c \in 0 .. num - 1
         PROVE  /\ Taken(c) \cup free_slot_list'[c] \cup Held(c)' = SlotNums
                /\ Taken(c) \cap (free_slot_list'[c] \cup Held(c)') = {}
                /\ free_slot_list'[c] \cap Held(c)' = {}
    <3>1. Partitioned(c, slots[c])
      OBVIOUS
    <3>2. CASE c = b
      BY <2>2, <2>5, <2>8, <3>1, <3>2 DEF Partitioned
    <3>3. CASE c # b
      BY <2>5, <2>8, <3>1, <3>3 DEF Partitioned
    <3>4. QED
      BY <3>2, <3>3
  <2>13. SlotsPartitioned'
    BY <1>b, <2>12 DEF SlotsPartitioned, Taken, SlotNums
  <2>14. BlockListCovers'
    <3>1. ASSUME NEW c \in BlockNums, c < num => free_slot_list'[c] # {}
          PROVE  c \in free_block_list'
      <4>1. c < num => c \in 0 .. num - 1
        BY DEF BlockNums
      <4>2. c \in free_block_list
        BY <2>5, <3>1, <4>1
      <4>3. c = b => slots[b] # {s}
        BY <2>5, <3>1, <4>1
      <4>4. QED
        BY <2>5, <4>2, <4>3 DEF Clear
    <3>2. QED
      BY <1>b, <3>1 DEF BlockListCovers, BlockNums
  <2>15. QED
    BY <2>10, <2>11, <2>13, <2>14 DEF Sound
<1>3. QED
  BY <1>1, <1>2

LEMMA InPlaceSound ==
  ASSUME Sound, AllocateInPlace
  PROVE  Sound'
<1>1. PICK b : b = Chosen(num_blocks, free_block_list, free_slot_list)
  OBVIOUS
<1>2. /\ ~aborted /\ b # -1
      /\ TakeSlot(b, num_blocks, free_slot_list, blocks, FALSE)
  BY <1>1 DEF AllocateInPlace
<1>3. /\ num_blocks \in Nat \ {0} /\ free_block_list \in SUBSET BlockNums
      /\ free_slot_list \in [0 .. num_blocks - 1 -> SUBSET SlotNums] /\ blocks \in Nat
  BY DEF Sound, TypeOK
<1>4. b \in 0 .. num_blocks - 1
  BY <1>1, <1>2, <1>3, ChosenExists
<1>5. \A c \in 0 .. num_blocks - 1 : Partitioned(c, free_slot_list[c])
  BY DEF Sound, SlotsPartitioned, Partitioned
<1>6. \A c \in BlockNums : (c < num_blocks => free_slot_list[c] # {}) => c \in free_block_list
  BY DEF Sound, BlockListCovers
<1>7. num_blocks <= num_blocks /\ FALSE \in BOOLEAN
  BY <1>3
<1>8. QED
  BY <1>2, <1>3, <1>4, <1>5, <1>6, <1>7, TakeSound

LEMMA ResizedSound ==
  ASSUME Sound, AllocateResized
  PROVE  Sound'
<1>1. PICK slots : slots = Grown(num_blocks, free_slot_list)
  OBVIOUS
<1>2. PICK b : b = Chosen(2 * num_blocks, free_block_list, slots)
  OBVIOUS
<1>3. /\ ~aborted
      /\ Chosen(num_blocks, free_block_list, free_slot_list) = -1
      /\ TakeSlot(b, 2 * num_blocks, slots, blocks + 1, TRUE)
  BY <1>1, <1>2 DEF AllocateResized
<1>4. /\ num_blocks \in Nat \ {0} /\ free_block_list \in SUBSET BlockNums
      /\ free_slot_list \in [0 .. num_blocks - 1 -> SUBSET SlotNums] /\ blocks \in Nat
      /\ entries \subseteq Pointer(num_blocks)
  BY DEF Sound, TypeOK, Pointer
<1>5. /\ slots \in [0 .. 2 * num_blocks - 1 -> SUBSET SlotNums]
      /\ b \in 0 .. 2 * num_blocks - 1
  BY <1>1, <1>2, <1>3, GrownHasRoom
<1>6. \A c \in 0 .. num_blocks - 1 : slots[c] = free_slot_list[c]
  BY <1>1, <1>4 DEF Grown
<1>7. \A c \in num_blocks .. 2 * num_blocks - 1 : slots[c] = Initialize(TailTaken)
  BY <1>1, <1>4 DEF Grown
<1>8. ASSUME NEW c \in 0 .. 2 * num_blocks - 1
      PROVE  Partitioned(c, slots[c])
  <2>1. CASE c \in 0 .. num_blocks - 1
    BY <1>6, <2>1 DEF Sound, SlotsPartitioned, Partitioned
  <2>2. CASE c \in num_blocks .. 2 * num_blocks - 1
    <3>1. Held(c) = {}
      BY <1>4, <2>2 DEF Held, Pointer
    <3>2. Taken(c) = 0 .. TailTaken - 1
      BY <1>4, <2>2 DEF Taken
    <3>3. 0 .. TailTaken - 1 \subseteq SlotNums
      BY SizesAssumption DEF SlotNums
    <3>4. QED
      BY <1>7, <2>2, <3>1, <3>2, <3>3, FreshBlockFree DEF Partitioned
  <2>3. QED
    BY <1>4, <2>1, <2>2
<1>9. ASSUME NEW c \in BlockNums, c < 2 * num_blocks => slots[c] # {}
      PROVE  c \in free_block_list
  <2>1. c < num_blocks => free_slot_list[c] # {}
    BY <1>4, <1>6, <1>9 DEF BlockNums
  <2>2. QED
    BY <2>1 DEF Sound, BlockListCovers
<1>10. 2 * num_blocks \in Nat \ {0} /\ num_blocks <= 2 * num_blocks /\ blocks + 1 \in Nat
  BY <1>4
<1>11. QED
  BY <1>3, <1>5, <1>8, <1>9, <1>10, TakeSound

LEMMA DeallocateSound ==
  ASSUME Sound, Deallocate
  PROVE  Sound'
<1>1. PICK p \in entries :
        /\ entries' = entries \ {p}
        /\ free_slot_list' = [free_slot_list EXCEPT ![p.block] = @ \cup {p.slot}]
        /\ \E bit \in ShiftedBit(p.block) : free_block_list' = free_block_list \cup bit
  BY DEF Deallocate
<1>2. PICK bit \in ShiftedBit(p.block) : free_block_list' = free_block_list \cup bit
  BY <1>1
<1>3. /\ ~aborted /\ num_blocks' = num_blocks /\ blocks' = blocks
      /\ base' = base /\ aborted' = aborted
  BY DEF Deallocate
<1>4. /\ num_blocks \in Nat \ {0} /\ free_block_list \in SUBSET BlockNums
      /\ free_slot_list \in [0 .. num_blocks - 1 -> SUBSET SlotNums]
      /\ entries \subseteq Pointer(num_blocks) /\ \A q \in entries : q.base = blocks
      /\ p.block \in 0 .. num_blocks - 1 /\ p.slot \in SlotNums
  BY <1>3 DEF Sound, TypeOK, PointersCurrent, Pointer
<1>5. bit \subseteq BlockNums /\ (p.block \in BlockNums => bit = {p.block})
  BY <1>4, SizesAssumption DEF ShiftedBit, BlockNums
<1>6. TypeOK'
  <2>1. free_slot_list' \in [0 .. num_blocks - 1 -> SUBSET SlotNums]
    BY <1>1, <1>4
  <2>2. entries' \subseteq Pointer(num_blocks) /\ free_block_list' \in SUBSET BlockNums
    BY <1>1, <1>2, <1>4, <1>5
  <2>3. QED
    BY <1>3, <2>1, <2>2 DEF Sound, TypeOK, Pointer, SlotNums, BlockNums
<1>7. PointersCurrent'
  BY <1>1, <1>3 DEF Sound, PointersCurrent
<1>8. SlotsPartitioned'
  <2>1. ASSUME NEW q \in entries, q.block = p.block, q.slot = p.slot
        PROVE  q = p
    <3>1. q.base = p.base /\ q \in Pointer(num_blocks) /\ p \in Pointer(num_blocks)
      BY <1>4
    <3>2. QED
      BY <2>1, <3>1 DEF Pointer
  <2>2. Held(p.block)' = Held(p.block) \ {p.slot}
    BY <1>1, <2>1 DEF Held
  <2>3. p.slot \in Held(p.block)
    BY DEF Held
  <2>4. ASSUME NEW c, c # p.block
        PROVE  Held(c)' = Held(c)
    BY <1>1, <2>4 DEF Held
  <2>5. ASSUME NEW c \in 0 .. num_blocks - 1
        PROVE  /\ Taken(c) \cup free_slot_list'[c] \cup Held(c)' = SlotNums
               /\ Taken(c) \cap (free_slot_list'[c] \cup Held(c)') = {}
               /\ free_slot_list'[c] \cap Held(c)' = {}
    <3>1. Partitioned(c, free_slot_list[c])
      BY DEF Sound, SlotsPartitioned, Partitioned
    <3>2. CASE c = p.block
      BY <1>1, <1>4, <2>2, <2>3, <3>1, <3>2 DEF Partitioned
    <3>3. CASE c # p.block
      BY <1>1, <1>4, <2>4, <3>1, <3>3 DEF Partitioned
    <3>4. QED
      BY <3>2, <3>3
  <2>6. QED
    BY <1>3, <2>5 DEF SlotsPartitioned, Taken, SlotNums
<1>9. BlockListCovers'
  <2>1. ASSUME NEW c \in BlockNums, c < num_blocks => free_slot_list'[c] # {}
        PROVE  c \in free_block_list'
    <3>1. CASE c = p.block
      BY <1>2, <1>5, <2>1, <3>1
    <3>2. CASE c # p.block
      <4>1. c < num_blocks => free_slot_list[c] # {}
        BY <1>1, <1>4, <2>1, <3>2 DEF BlockNums
      <4>2. QED
        BY <1>2, <4>1 DEF Sound, BlockListCovers
    <3>3. QED
      BY <3>1, <3>2
  <2>2. QED
    BY <1>3, <2>1 DEF BlockListCovers, BlockNums
<1>10. QED
  BY <1>6, <1>7, <1>8, <1>9 DEF Sound

LEMMA InitSound == Init => Sound
<1> SUFFICES ASSUME Init PROVE Sound
  OBVIOUS
<1>1. /\ Initialize(HeadTaken) \in SUBSET SlotNums
      /\ Initialize(HeadTaken) = SlotNums \ (0 .. HeadTaken - 1)
      /\ 0 .. HeadTaken - 1 \subseteq SlotNums
  BY SizesAssumption DEF Initialize, SlotNums
<1>2. /\ num_blocks = 1 /\ free_block_list = BlockNums /\ blocks = 0 /\ base = 0
      /\ entries = {} /\ aborted = FALSE
      /\ free_slot_list = [b \in {0} |-> Initialize(HeadTaken)]
  BY DEF Init
<1>3. 0 .. num_blocks - 1 = {0}
  BY <1>2
<1>4. TypeOK
  <2>1. free_slot_list \in [0 .. num_blocks - 1 -> SUBSET SlotNums]
    BY <1>1, <1>2, <1>3
  <2>2. entries \in SUBSET [base : Nat, block : 0 .. num_blocks - 1, slot : SlotNums]
    BY <1>2
  <2>3. num_blocks \in Nat \ {0} /\ blocks \in Nat /\ base \in Nat
    BY <1>2
  <2>4. free_block_list \in SUBSET BlockNums
    BY <1>2
  <2>5. aborted \in BOOLEAN
    BY <1>2
  <2>6. QED
    BY <2>1, <2>2, <2>3, <2>4, <2>5 DEF TypeOK
<1>5. PointersCurrent /\ BlockListCovers
  BY <1>2 DEF PointersCurrent, BlockListCovers
<1>6. SlotsPartitioned
  BY <1>1, <1>2, <1>3 DEF SlotsPartitioned, Held, Taken
<1>7. QED
  BY <1>4, <1>5, <1>6 DEF Sound

LEMMA StepSound == Sound /\ [Next]_vars => Sound'
<1> SUFFICES ASSUME Sound, [Next]_vars PROVE Sound'
  OBVIOUS
<1>1. CASE UNCHANGED vars
  BY <1>1 DEF vars, slabVars, Sound, TypeOK, PointersCurrent, SlotsPartitioned, BlockListCovers,
     Held, Taken, SlotNums, BlockNums
<1>2. QED
  BY <1>1, InPlaceSound, ResizedSound, DeallocateSound DEF Next, Aborted

LEMMA SoundAlways == Spec => []Sound
  BY InitSound, StepSound, PTL DEF Spec

(* Every variable stays in its range; so do the blocks the pointers name.  *)
THEOREM VectorTypeCorrect == Spec => []TypeOK
<1>1. Sound => TypeOK
  BY DEF Sound
<1>2. QED
  BY <1>1, SoundAlways, PTL

(* No block with a free slot is missing from the list, wrapped shifts or not. *)
THEOREM CoverCorrect == Spec => []BlockListCovers
<1>1. Sound => BlockListCovers
  BY DEF Sound
<1>2. QED
  BY <1>1, SoundAlways, PTL

(* Slots hold metadata, are free or belong to the client, and only one of  *)
(* the three, however often the array grows.                               *)
THEOREM PartitionCorrect == Spec => []SlotsPartitioned
<1>1. Sound => SlotsPartitioned
  BY DEF Sound
<1>2. QED
  BY <1>1, SoundAlways, PTL

(* A client that moves its pointers when did_resize says so holds none into *)
(* an array that was freed.                                                *)
THEOREM PointersCorrect == Spec => []PointersCurrent
<1>1. Sound => PointersCurrent
  BY DEF Sound
<1>2. QED
  BY <1>1, SoundAlways, PTL

(* The array grows only when every block is full.                          *)
THEOREM GrowthCorrect == Spec => GrowsWhenFull
<1>1. Sound /\ [Next]_vars =>
        [num_blocks' # num_blocks => \A b \in 0 .. num_blocks - 1 : free_slot_list[b] = {}]_vars
  <2> SUFFICES ASSUME Sound, Next, num_blocks' # num_blocks
               PROVE  \A b \in 0 .. num_blocks - 1 : free_slot_list[b] = {}
    OBVIOUS
  <2>1. AllocateResized
    BY DEF Next, AllocateInPlace, TakeSlot, Deallocate, Aborted, vars, slabVars
  <2>2. Chosen(num_blocks, free_block_list, free_slot_list) = -1
    BY <2>1 DEF AllocateResized
  <2>3. QED
    BY <2>2, NoneChosen
<1>2. QED
  BY <1>1, SoundAlways, PTL DEF Spec, GrowsWhenFull

-----------------------------------------------------------------------------
(* While the array fits the list *)

LEMMA InitExact == Init => BlockListExact
<1> SUFFICES ASSUME Init PROVE BlockListExact
  OBVIOUS
<1>1. SlotBits - 1 \in Initialize(HeadTaken)
  BY SizesAssumption DEF Initialize, SlotNums
<1>2. ASSUME NEW b \in BlockNums, b < num_blocks PROVE free_slot_list[b] # {}
  <2>1. b = 0
    BY <1>2 DEF Init, BlockNums
  <2>2. QED
    BY <1>1, <2>1 DEF Init
<1>3. QED
  BY <1>2 DEF Init, BlockListExact

(* What TakeSlot does to a list that is exact.                             *)
LEMMA TakeExact ==
  ASSUME NEW num \in Nat \ {0},
         NEW slots \in [0 .. num - 1 -> SUBSET SlotNums],
         free_block_list = {c \in BlockNums : c < num => slots[c] # {}},
         NEW b \in 0 .. num - 1, slots[b] # {},
         NEW nb, NEW resized, TakeSlot(b, num, slots, nb, resized)
  PROVE  free_block_list' = {c \in BlockNums : c < num_blocks' => free_slot_list'[c] # {}}
<1>1. slots[b] \in SUBSET Nat
  BY DEF SlotNums
<1>2. PICK s \in slots[b] : s = Min(slots[b])
  BY <1>1, MinIsLeast
<1>3. /\ free_slot_list' = [slots EXCEPT ![b] = slots[b] \ {s}]
      /\ free_block_list' = Clear(free_block_list, b, slots[b] = {s})
  BY <1>2 DEF TakeSlot
<1>4. ASSUME NEW c \in BlockNums
      PROVE  c \in free_block_list' <=> (c < num => free_slot_list'[c] # {})
  <2>1. CASE c = b
    <3>1. free_slot_list'[c] = slots[b] \ {s} /\ c \in free_block_list
      BY <1>3, <2>1
    <3>2. QED
      BY <1>3, <2>1, <3>1 DEF Clear
  <2>2. CASE c # b
    <3>1. c < num => free_slot_list'[c] = slots[c]
      BY <1>3, <2>2 DEF BlockNums
    <3>2. c \in free_block_list' <=> c \in free_block_list
      BY <1>3, <2>2 DEF Clear
    <3>3. QED
      BY <3>1, <3>2
  <2>3. QED
    BY <2>1, <2>2
<1>5. free_block_list' \subseteq BlockNums
  BY <1>3 DEF Clear
<1>6. QED
  BY <1>4, <1>5 DEF TakeSlot

LEMMA StepExact == Sound /\ BlockListExact /\ [Next]_vars => BlockListExact'
<1> SUFFICES ASSUME Sound, BlockListExact, [Next]_vars, num_blocks' <= BlockBits
             PROVE  free_block_list' = {c \in BlockNums : c < num_blocks' => free_slot_list'[c] # {}}
  BY DEF BlockListExact, BlockNums
<1>a. /\ num_blocks \in Nat \ {0} /\ free_block_list \in SUBSET BlockNums
      /\ free_slot_list \in [0 .. num_blocks - 1 -> SUBSET SlotNums]
      /\ \A p \in entries : p.block \in 0 .. num_blocks - 1 /\ p.slot \in SlotNums
  BY DEF Sound, TypeOK
<1>b. num_blocks <= BlockBits =>
        free_block_list = {c \in BlockNums : c < num_blocks => free_slot_list[c] # {}}
  BY DEF BlockListExact
<1>1. CASE AllocateInPlace
  <2>1. PICK b : b = Chosen(num_blocks, free_block_list, free_slot_list)
    OBVIOUS
  <2>2. b # -1 /\ TakeSlot(b, num_blocks, free_slot_list, blocks, FALSE)
    BY <1>1, <2>1 DEF AllocateInPlace
  <2>3. num_blocks <= BlockBits
    BY <2>2 DEF TakeSlot
  <2>4. b \in 0 .. num_blocks - 1 /\ (b \in free_block_list \/ free_slot_list[b] # {})
    BY <1>a, <2>1, <2>2, ChosenExists
  <2>5. free_slot_list[b] # {}
    BY <1>a, <1>b, <2>3, <2>4
  <2>6. QED
    BY <1>a, <1>b, <2>2, <2>3, <2>4, <2>5, TakeExact
<1>2. CASE AllocateResized
  <2>1. PICK slots : slots = Grown(num_blocks, free_slot_list)
    OBVIOUS
  <2>2. PICK b : b = Chosen(2 * num_blocks, free_block_list, slots)
    OBVIOUS
  <2>3. /\ Chosen(num_blocks, free_block_list, free_slot_list) = -1
        /\ TakeSlot(b, 2 * num_blocks, slots, blocks + 1, TRUE)
    BY <1>2, <2>1, <2>2 DEF AllocateResized
  <2>4. 2 * num_blocks <= BlockBits /\ num_blocks <= BlockBits /\ 2 * num_blocks \in Nat \ {0}
    <3>1. num_blocks' = 2 * num_blocks
      BY <2>3 DEF TakeSlot
    <3>2. QED
      BY <1>a, <3>1, SizesAssumption
  <2>5. /\ slots \in [0 .. 2 * num_blocks - 1 -> SUBSET SlotNums]
        /\ b \in 0 .. 2 * num_blocks - 1 /\ slots[b] # {}
    BY <2>1, <2>2, <2>3, GrownHasRoom
  <2>6. free_block_list = {c \in BlockNums : c < 2 * num_blocks => slots[c] # {}}
    <3>1. ASSUME NEW c \in BlockNums
          PROVE  (c < num_blocks => free_slot_list[c] # {})
                   <=> (c < 2 * num_blocks => slots[c] # {})
      <4>1. CASE c < num_blocks
        BY <1>a, <2>1, <4>1 DEF Grown, BlockNums
      <4>2. CASE c >= num_blocks
        BY <1>a, <2>1, <4>2, FreshBlockFree DEF Grown, BlockNums
      <4>3. QED
        BY <1>a, <4>1, <4>2 DEF BlockNums
    <3>2. QED
      BY <1>b, <2>4, <3>1
  <2>7. QED
    BY <2>3, <2>4, <2>5, <2>6, TakeExact
<1>3. CASE Deallocate
  <2>1. PICK p \in entries :
          /\ free_slot_list' = [free_slot_list EXCEPT ![p.block] = @ \cup {p.slot}]
          /\ \E bit \in ShiftedBit(p.block) : free_block_list' = free_block_list \cup bit
    BY <1>3 DEF Deallocate
  <2>2. num_blocks' = num_blocks /\ num_blocks <= BlockBits
    BY <1>3 DEF Deallocate
  <2>3. p.block \in BlockNums
    BY <1>a, <2>2, SizesAssumption DEF BlockNums
  <2>4. free_block_list' = free_block_list \cup {p.block}
    BY <2>1, <2>3 DEF ShiftedBit
  <2>5. ASSUME NEW c \in BlockNums
        PROVE  c \in free_block_list' <=> (c < num_blocks => free_slot_list'[c] # {})
    <3>1. CASE c = p.block
      BY <1>a, <2>1, <2>4, <3>1
    <3>2. CASE c # p.block
      BY <1>a, <1>b, <2>1, <2>2, <2>4, <3>2 DEF BlockNums
    <3>3. QED
      BY <3>1, <3>2
  <2>6. free_block_list' \subseteq BlockNums
    BY <1>a, <2>3, <2>4
  <2>7. QED
    BY <2>2, <2>5, <2>6
<1>4. CASE UNCHANGED vars
  BY <1>4, <1>b DEF vars, slabVars
<1>5. QED
  BY <1>1, <1>2, <1>3, <1>4 DEF Next, Aborted

(* The list of blocks is exact as long as the array fits it.               *)
THEOREM ListCorrect == Spec => []BlockListExact
  BY SoundAlways, InitExact, StepExact, PTL DEF Spec

(* The array has one block or has been doubled within its bound. *)
Bounded == num_blocks = 1 \/ num_blocks <= MaxBlocks

LEMMA StepBounded == Bounded /\ [Next]_vars => Bounded'
  BY DEF Bounded, Next, AllocateInPlace, AllocateResized, TakeSlot, Deallocate, Aborted,
     vars, slabVars

LEMMA StepFound ==
  ASSUME MaxBlocks <= BlockBits, Sound, BlockListExact, Bounded, FreeSlotFound, [Next]_vars
  PROVE  FreeSlotFound'
<1>a. /\ num_blocks \in Nat \ {0} /\ free_block_list \in SUBSET BlockNums
      /\ free_slot_list \in [0 .. num_blocks - 1 -> SUBSET SlotNums]
  BY DEF Sound, TypeOK
<1>b. num_blocks <= BlockBits
  BY <1>a, SizesAssumption DEF Bounded
<1>1. CASE AllocateInPlace
  <2>1. PICK b : b = Chosen(num_blocks, free_block_list, free_slot_list)
    OBVIOUS
  <2>2. b # -1 /\ TakeSlot(b, num_blocks, free_slot_list, blocks, FALSE)
    BY <1>1, <2>1 DEF AllocateInPlace
  <2>3. b \in 0 .. num_blocks - 1 /\ (b \in free_block_list \/ free_slot_list[b] # {})
    BY <1>a, <2>1, <2>2, ChosenExists
  <2>4. free_slot_list[b] # {}
    BY <1>a, <1>b, <2>3 DEF BlockListExact
  <2>5. QED
    BY <2>2, <2>4 DEF TakeSlot, FreeSlotFound
<1>2. CASE AllocateResized
  <2>1. PICK slots : slots = Grown(num_blocks, free_slot_list)
    OBVIOUS
  <2>2. PICK b : b = Chosen(2 * num_blocks, free_block_list, slots)
    OBVIOUS
  <2>3. /\ Chosen(num_blocks, free_block_list, free_slot_list) = -1
        /\ TakeSlot(b, 2 * num_blocks, slots, blocks + 1, TRUE)
    BY <1>2, <2>1, <2>2 DEF AllocateResized
  <2>4. slots[b] # {}
    BY <2>1, <2>2, <2>3, GrownHasRoom
  <2>5. QED
    BY <2>3, <2>4 DEF TakeSlot, FreeSlotFound
<1>3. CASE Deallocate \/ Aborted \/ UNCHANGED vars
  BY <1>3 DEF Deallocate, Aborted, vars, FreeSlotFound
<1>4. QED
  BY <1>1, <1>2, <1>3 DEF Next

(* An array that never outgrows the list never trips the assertion of      *)
(* find_free_slot.                                                         *)
THEOREM AssertionHolds ==
  ASSUME MaxBlocks <= BlockBits
  PROVE  Spec => []FreeSlotFound
<1>1. Init => Bounded /\ FreeSlotFound
  BY DEF Init, Bounded, FreeSlotFound
<1>2. Sound /\ BlockListExact /\ Bounded /\ FreeSlotFound /\ [Next]_vars
        => Bounded' /\ FreeSlotFound'
  BY StepBounded, StepFound
<1>3. QED
  BY <1>1, <1>2, SoundAlways, ListCorrect, PTL DEF Spec
=============================================================================
