-------------------------- MODULE Addresses_proof --------------------------
(***************************************************************************)
(* Proofs about the arithmetic of the allocators, for words, requests,     *)
(* classes, slots, arrays and memory of any size: the size classes of the  *)
(* front ends (SizeClass), the addresses of slots (SlabLayout), arithmetic *)
(* on fancy pointers (PointerArithmetic) and what they point to            *)
(* (FancyPointer).                                                         *)
(***************************************************************************)
EXTENDS MCAddresses, DataLemmas

-----------------------------------------------------------------------------
(* Arithmetic *)

(* What is added to a multiple of d and is less than d is the remainder.   *)
LEMMA Division ==
  ASSUME NEW d \in Nat \ {0}, NEW k \in Int, NEW r \in Nat, r < d
  PROVE  (k * d + r) % d = r /\ (k * d + r) \div d = k
<1>1. (k * d + r) % d = r
  OBVIOUS
<1>2. (k * d + r) \div d = k
  OBVIOUS
<1>3. QED
  BY <1>1, <1>2

(* Different multiples of d are d apart. *)
LEMMA Multiples ==
  ASSUME NEW d \in Nat \ {0}, NEW k \in Int, NEW q \in Int, k < q
  PROVE  k * d \in Int /\ q * d \in Int /\ k * d + d <= q * d
<1>1. PICK z \in Nat : q = k + 1 + z
  <2>1. q - k - 1 \in Nat /\ q = k + 1 + (q - k - 1)
    OBVIOUS
  <2>2. QED
    BY <2>1
<1>2. (k + 1 + z) * d = k * d + d + z * d /\ z * d >= 0
  OBVIOUS
<1>3. QED
  BY <1>1, <1>2

(* An int holds x exactly if x is below the limit. *)
LEMMA IntHolds ==
  ASSUME NEW x \in Nat
  PROVE  /\ Layout!ToInt(x) \in Int /\ Layout!ToInt(x) < IntLimit
         /\ x < IntLimit => Layout!ToInt(x) = x
<1>1. IntLimit \in Nat \ {0} /\ 2 * IntLimit \in Nat \ {0}
  BY SizesAssumption DEF Layout!LayoutAssumption
<1>2. x % (2 * IntLimit) \in 0 .. 2 * IntLimit - 1
  BY <1>1
<1>3. x < IntLimit => x % (2 * IntLimit) = x
  BY <1>1
<1>4. QED
  BY <1>1, <1>2, <1>3 DEF Layout!ToInt

-----------------------------------------------------------------------------
(* Layouts.  The slots of a slab are numbered from its start: those of a   *)
(* block come after those of the block before.                             *)

Number(x) == x[1] * BlockSlots + x[2]
Lead(k) == IF k = "old" THEN PtrSize ELSE 0
Unit(k, s) == IF k = "old" THEN Layout!Alignment(s) ELSE Layout!BlockSize(s)

(* What is assumed of the constants. *)
LEMMA Constants ==
  /\ PtrSize \in Nat \ {0} /\ MaxSlots \in Nat \ {0}
  /\ BlockSlots \in Nat \ {0} /\ MaxBlocks \in Nat \ {0}
  /\ IntLimit \in Nat \ {0} /\ PtrSize <= MaxSlots + 2
  /\ Sizes \subseteq Nat \ {0}
BY SizesAssumption DEF Layout!LayoutAssumption

(* The block and the number of a slot are in their ranges. *)
LEMMA SlotNumbers ==
  ASSUME NEW k \in Layout!Kinds, NEW n \in Nat \ {0}, k = "old" => n = 1,
         NEW x \in Layout!Slots(k, n)
  PROVE  /\ x = <<x[1], x[2]>> /\ x[1] \in Nat /\ x[2] \in Nat
         /\ x[1] < n
         /\ k = "old" => x[1] = 0 /\ x[2] < MaxSlots
         /\ k # "old" => x[2] >= 1 /\ x[2] < BlockSlots
         /\ Number(x) \in Nat
BY Constants DEF Layout!Slots, Layout!Kinds, Number

(* Where a slot lies. *)
LEMMA Placed ==
  ASSUME NEW k \in Layout!Kinds, NEW n \in Nat \ {0}, k = "old" => n = 1,
         NEW s \in Sizes, NEW b \in Nat, NEW x \in Layout!Slots(k, n)
  PROVE  /\ Layout!Address(k, s, b, x) = b + Lead(k) + Number(x) * s
         /\ Layout!Address(k, s, b, x) \in Nat
<1>1. s \in Nat \ {0} /\ Number(x) * s \in Nat
  BY Constants, SlotNumbers
<1>2. x[1] * (BlockSlots * s) = (x[1] * BlockSlots) * s
  BY <1>1, Constants, SlotNumbers
<1>3. (x[1] * BlockSlots + x[2]) * s = (x[1] * BlockSlots) * s + x[2] * s
  BY <1>1, Constants, SlotNumbers
<1>4. x[1] \in Nat /\ x[2] \in Nat /\ (k = "old" => x[1] = 0)
  BY SlotNumbers
<1>5. k = "old" => Number(x) = x[2]
  BY <1>4, Constants DEF Number
<1>6. Layout!Address(k, s, b, x) = b + Lead(k) + Number(x) * s
  <2>1. CASE k = "old"
    BY <1>1, <1>4, <1>5, <2>1, Constants DEF Layout!Address, Lead
  <2>2. CASE k # "old"
    BY <1>1, <1>2, <1>3, <1>4, <2>2, Constants
    DEF Layout!Address, Layout!BlockSize, Lead, Number
  <2>3. QED
    BY <2>1, <2>2
<1>7. QED
  BY <1>1, <1>6, Constants DEF Lead

(* Different slots have different numbers. *)
LEMMA NumbersDiffer ==
  ASSUME NEW k \in Layout!Kinds, NEW n \in Nat \ {0}, k = "old" => n = 1,
         NEW x \in Layout!Slots(k, n), NEW y \in Layout!Slots(k, n),
         Number(x) = Number(y)
  PROVE  x = y
<1>1. /\ x = <<x[1], x[2]>> /\ x[1] \in Nat /\ x[2] \in Nat
      /\ y = <<y[1], y[2]>> /\ y[1] \in Nat /\ y[2] \in Nat
  BY SlotNumbers
<1>2. CASE k = "old"
  <2>1. x[1] = 0 /\ y[1] = 0
    BY <1>2, SlotNumbers
  <2>2. Number(x) = x[2] /\ Number(y) = y[2]
    BY <1>1, <2>1, Constants DEF Number
  <2>3. QED
    BY <1>1, <2>1, <2>2
<1>3. CASE k # "old"
  <2>1. x[2] < BlockSlots /\ y[2] < BlockSlots
    BY <1>3, SlotNumbers
  <2>2. Number(x) \div BlockSlots = x[1] /\ Number(x) % BlockSlots = x[2]
    BY <1>1, <2>1, Division, Constants DEF Number
  <2>3. Number(y) \div BlockSlots = y[1] /\ Number(y) % BlockSlots = y[2]
    BY <1>1, <2>1, Division, Constants DEF Number
  <2>4. QED
    BY <1>1, <2>2, <2>3
<1>4. QED
  BY <1>2, <1>3

(* deallocate() of the old allocators finds the slot: a slot begins less   *)
(* than one alignment behind the start of its slab.                        *)
LEMMA OldFound ==
  ASSUME NEW s \in Sizes, NEW m \in Nat, NEW x \in Layout!Slots("old", 1),
         NEW b, b = m * Layout!Alignment(s)
  PROVE  Layout!FindOld(s, Layout!Address("old", s, b, x)) = [data |-> b, slot |-> x]
<1>1. /\ s \in Nat \ {0} /\ x = <<0, x[2]>> /\ x[2] \in Nat /\ x[2] < MaxSlots
  BY Constants, SlotNumbers DEF Layout!Kinds
<1> DEFINE a == Layout!Alignment(s)
<1> DEFINE r == x[2] * s + PtrSize
<1>2. a \in Nat \ {0} /\ a = s * (2 * MaxSlots + 2)
  BY <1>1, Constants DEF Layout!Alignment
<1>3. r \in Nat /\ r < a
  <2>1. x[2] * s + s <= MaxSlots * s
    BY <1>1, Multiples, Constants
  <2>2. (MaxSlots + 2) * s = MaxSlots * s + 2 * s /\ PtrSize <= (MaxSlots + 2) * s
    <3>1. PICK z \in Nat : s = 1 + z
      <4>1. s - 1 \in Nat /\ s = 1 + (s - 1)
        BY <1>1
      <4>2. QED
        BY <4>1
    <3>2. (MaxSlots + 2) * (1 + z) = (MaxSlots + 2) + (MaxSlots + 2) * z
          /\ (MaxSlots + 2) * z >= 0
      BY Constants
    <3>3. (MaxSlots + 2) * s = MaxSlots * s + 2 * s
      BY <1>1, Constants
    <3>4. QED
      BY <3>1, <3>2, <3>3, Constants
  <2>3. a = 2 * (MaxSlots * s) + 2 * s
    BY <1>1, <1>2, Constants
  <2>4. x[2] * s \in Nat /\ MaxSlots * s \in Nat
    BY <1>1, Constants
  <2>5. QED
    BY <1>1, <1>2, <2>1, <2>2, <2>3, <2>4, Constants
<1>4. b = m * a /\ b \in Nat /\ Layout!Address("old", s, b, x) = m * a + r
  <2>1. b = m * a /\ b \in Nat
    BY <1>2
  <2>2. x[2] * s \in Nat
    BY <1>1
  <2>3. Layout!Address("old", s, b, x) = b + x[2] * s + PtrSize
    BY DEF Layout!Address
  <2>4. QED
    BY <2>1, <2>2, <2>3, Constants
<1> HIDE DEF a
<1>5. (m * a + r) % a = r
  BY <1>2, <1>3, Division
<1>6. (r - PtrSize) \div s = x[2]
  <2>1. (x[2] * s + 0) \div s = x[2]
    <3>1. 0 \in Nat /\ 0 < s /\ x[2] \in Int
      BY <1>1
    <3>2. QED
      BY <1>1, <3>1, Division
  <2>2. r - PtrSize = x[2] * s + 0
    BY <1>1, Constants
  <2>3. QED
    BY <2>1, <2>2
<1> HIDE DEF r
<1>7. (m * a + r) - r = b
  BY <1>2, <1>3, <1>4
<1>8. QED
  BY <1>1, <1>4, <1>5, <1>6, <1>7 DEF Layout!FindOld, a

(* deallocate() of the vector slab does, if the size of a block fits an int. *)
LEMMA VectorFound ==
  ASSUME NEW s \in Sizes, NEW m \in Nat, NEW n \in Nat \ {0},
         NEW x \in Layout!Slots("vector", n),
         BlockSlots * s < IntLimit,
         NEW b, b = m * Layout!BlockSize(s)
  PROVE  /\ Layout!BlockInt(s) > 0
         /\ Layout!FindVector(s, Layout!Address("vector", s, b, x), b) =
              [data |-> b, slot |-> x]
<1>1. /\ s \in Nat \ {0} /\ x = <<x[1], x[2]>>
      /\ x[1] \in Nat /\ x[2] \in Nat /\ x[2] < BlockSlots
  BY Constants, SlotNumbers DEF Layout!Kinds
<1> DEFINE a == BlockSlots * s
<1> DEFINE r == x[2] * s
<1>2. a \in Nat \ {0} /\ Layout!BlockSize(s) = a /\ Layout!BlockInt(s) = a
  <2>1. a \in Nat \ {0} /\ a < IntLimit
    BY <1>1, Constants
  <2>2. QED
    BY <2>1, IntHolds DEF Layout!BlockSize, Layout!BlockInt
<1>3. r \in Nat /\ r < a
  <2>1. x[2] * s + s <= BlockSlots * s
    BY <1>1, Multiples, Constants
  <2>2. x[2] * s \in Nat /\ BlockSlots * s \in Nat
    BY <1>1, Constants
  <2>3. QED
    BY <1>1, <2>1, <2>2
<1>4. r \div s = x[2]
  <2>1. (x[2] * s + 0) \div s = x[2] /\ x[2] * s + 0 = x[2] * s
    BY <1>1, Division
  <2>2. QED
    BY <2>1
<1> HIDE DEF a, r
<1>5. Layout!Address("vector", s, b, x) = b + x[1] * a + r
  BY <1>2 DEF Layout!Address, r
<1>6. b = m * a /\ b \in Nat /\ x[1] * a \in Nat
  BY <1>1, <1>2
<1>7. b + x[1] * a + r = (m + x[1]) * a + r
  BY <1>1, <1>2, <1>3, <1>6
<1>8. ((m + x[1]) * a + r) % a = r
  <2>1. m + x[1] \in Int
    BY <1>1
  <2>2. QED
    BY <1>2, <1>3, <2>1, Division
<1>9. (b + x[1] * a + r) - x[2] * s - b = x[1] * a + 0
  BY <1>1, <1>3, <1>6 DEF r
<1>10. (x[1] * a + 0) \div a = x[1]
  BY <1>1, <1>2, Division
<1>11. QED
  BY <1>1, <1>2, <1>4, <1>5, <1>7, <1>8, <1>9, <1>10 DEF Layout!FindVector

(* The bytes of different slots are apart. *)
LEMMA Apart ==
  ASSUME NEW k \in Layout!Kinds, NEW n \in Nat \ {0}, k = "old" => n = 1,
         NEW s \in Sizes, NEW b \in Nat,
         NEW x \in Layout!Slots(k, n), NEW y \in Layout!Slots(k, n), x # y
  PROVE  Layout!Bytes(Layout!Address(k, s, b, x), s)
           \cap Layout!Bytes(Layout!Address(k, s, b, y), s) = {}
<1>1. /\ Number(x) \in Nat /\ Number(y) \in Nat /\ s \in Nat \ {0}
      /\ Number(x) # Number(y) /\ Lead(k) \in Nat
  BY SlotNumbers, NumbersDiffer, Constants DEF Lead
<1>a. PICK u \in Int : u = Number(x)
  BY <1>1
<1>b. PICK v \in Int : v = Number(y)
  BY <1>1
<1> DEFINE i == u * s
<1> DEFINE j == v * s
<1>2. /\ i \in Nat /\ j \in Nat
      /\ i + s <= j \/ j + s <= i
  <2>1. i \in Nat /\ j \in Nat
    BY <1>1, <1>a, <1>b
  <2>2. u < v \/ v < u
    BY <1>1, <1>a, <1>b
  <2>3. u < v => u * s + s <= v * s
    BY <1>1, Multiples
  <2>4. v < u => v * s + s <= u * s
    BY <1>1, Multiples
  <2>5. QED
    BY <2>1, <2>2, <2>3, <2>4
<1>3. /\ Layout!Address(k, s, b, x) = b + Lead(k) + i
      /\ Layout!Address(k, s, b, y) = b + Lead(k) + j
  BY <1>a, <1>b, Placed
<1> HIDE DEF i, j
<1>4. QED
  BY <1>1, <1>2, <1>3 DEF Layout!Bytes

(* What the slots of a slab need. *)
Memory(k, n, s) == IF k = "old" THEN Layout!DataSize(s) ELSE n * Layout!BlockSize(s)

(* A slot lies in the memory, behind what the slab keeps for itself. *)
LEMMA Inside ==
  ASSUME NEW k \in Layout!Kinds, NEW n \in Nat \ {0}, k = "old" => n = 1,
         NEW s \in Sizes, NEW b \in Nat, NEW x \in Layout!Slots(k, n),
         NEW r \in Int, Memory(k, n, s) <= r
  PROVE  Layout!Bytes(Layout!Address(k, s, b, x), s) \subseteq
           Layout!Bytes(b, r) \ Layout!Bytes(b, IF k = "old" THEN PtrSize ELSE s)
<1>1. /\ s \in Nat \ {0} /\ x[1] \in Nat /\ x[2] \in Nat /\ Number(x) \in Nat
      /\ x[1] < n /\ Lead(k) \in Nat
  BY SlotNumbers, Constants DEF Lead
<1> DEFINE i == Number(x) * s
<1>2. i \in Nat /\ Layout!Address(k, s, b, x) = b + Lead(k) + i
  BY <1>1, Placed
<1>3. /\ Lead(k) + i >= (IF k = "old" THEN PtrSize ELSE s)
      /\ Lead(k) + i + s <= r
  <2>1. CASE k = "old"
    <3>1. Number(x) < MaxSlots /\ MaxSlots \in Int
      <4>1. x[1] = 0 /\ x[2] < MaxSlots
        BY <2>1, SlotNumbers
      <4>2. Number(x) = x[2]
        BY <1>1, <4>1, Constants DEF Number
      <4>3. QED
        BY <4>1, <4>2, Constants
    <3>2. i + s <= MaxSlots * s /\ MaxSlots * s \in Int
      BY <1>1, <3>1, Multiples
    <3>3. Memory(k, n, s) = MaxSlots * s + PtrSize
      BY <1>1, <2>1, Constants DEF Memory, Layout!DataSize
    <3>4. QED
      BY <1>1, <1>2, <2>1, <3>2, <3>3, Constants DEF Lead
  <2>2. CASE k # "old"
    <3>1. x[2] >= 1 /\ x[2] < BlockSlots
      BY <2>2, SlotNumbers
    <3>2. x[1] * BlockSlots + BlockSlots <= n * BlockSlots /\ n * BlockSlots \in Int
      BY <1>1, Multiples, Constants
    <3>3. Number(x) >= 1 /\ Number(x) < n * BlockSlots
      <4>1. x[1] * BlockSlots \in Nat
        BY <1>1, Constants
      <4>2. QED
        BY <1>1, <3>1, <3>2, <4>1, Constants DEF Number
    <3>4. i + s <= (n * BlockSlots) * s
      BY <1>1, <3>2, <3>3, Multiples
    <3>5. i >= s
      <4>1. 0 * s + s <= i
        BY <1>1, <3>3, Multiples
      <4>2. QED
        BY <1>1, <4>1
    <3>6. Memory(k, n, s) = (n * BlockSlots) * s
      BY <1>1, <2>2, Constants DEF Memory, Layout!BlockSize
    <3>7. (n * BlockSlots) * s \in Int
      BY <1>1, <3>2
    <3>8. QED
      BY <1>1, <1>2, <2>2, <3>4, <3>5, <3>6, <3>7 DEF Lead
  <2>3. QED
    BY <2>1, <2>2
<1> HIDE DEF i
<1>4. QED
  BY <1>1, <1>2, <1>3, Constants DEF Layout!Bytes

-----------------------------------------------------------------------------
(* The invariant *)

(* What resize() has asked for. *)
Asked(k, n, s) ==
  IF k = "old" THEN Layout!DataSize(s)
  ELSE IF n = 1 THEN Layout!BlockSize(s) ELSE Layout!ToInt(n * BlockSlots * s)

(* The memory of the slab starts at a multiple of its alignment. *)
Layouts ==
  /\ kind \in Layout!Kinds /\ layoutSz \in Sizes
  /\ num_blocks \in Nat \ {0} /\ (kind = "old" => num_blocks = 1)
  /\ \E m \in Nat : data = m * Unit(kind, layoutSz)
  /\ room = Asked(kind, num_blocks, layoutSz)

(* A client holds the address of the slot in the array as it is now.       *)
HeldExact ==
  \A h \in layoutHeld :
    /\ h.slot \in Layout!Slots(kind, num_blocks)
    /\ h = [slot |-> h.slot, p |-> Layout!Address(kind, layoutSz, data, h.slot)]

LayoutSound == Layouts /\ HeldExact /\ Layout!FoundExact

(* The numbers of a layout. *)
LEMMA LayoutNumbers ==
  ASSUME Layouts
  PROVE  /\ layoutSz \in Nat \ {0} /\ data \in Nat
         /\ Unit(kind, layoutSz) \in Nat \ {0}
         /\ num_blocks * BlockSlots * layoutSz \in Nat
         /\ num_blocks * Layout!BlockSize(layoutSz) = num_blocks * BlockSlots * layoutSz
         /\ room \in Int
<1>1. layoutSz \in Nat \ {0} /\ num_blocks \in Nat \ {0}
  BY Constants DEF Layouts
<1>2. Unit(kind, layoutSz) \in Nat \ {0}
  <2>1. Layout!BlockSize(layoutSz) \in Nat \ {0}
    BY <1>1, Constants DEF Layout!BlockSize
  <2>2. Layout!Alignment(layoutSz) \in Nat \ {0}
    BY <1>1, Constants DEF Layout!Alignment
  <2>3. QED
    BY <2>1, <2>2 DEF Unit
<1>3. data \in Nat
  BY <1>2 DEF Layouts
<1>4. /\ num_blocks * BlockSlots * layoutSz \in Nat
      /\ num_blocks * Layout!BlockSize(layoutSz) = num_blocks * BlockSlots * layoutSz
  BY <1>1, Constants DEF Layout!BlockSize
<1>5. room \in Int
  <2>1. Layout!DataSize(layoutSz) \in Int /\ Layout!BlockSize(layoutSz) \in Int
    BY <1>1, Constants DEF Layout!DataSize, Layout!BlockSize
  <2>2. QED
    BY <1>4, <2>1, IntHolds DEF Layouts, Asked
<1>6. QED
  BY <1>1, <1>2, <1>3, <1>4, <1>5

(* resize() asks for enough exactly while the size fits an int. *)
LEMMA RoomFits ==
  ASSUME Layouts
  PROVE  /\ Layout!RoomExact
         /\ Layout!Enough => Memory(kind, num_blocks, layoutSz) <= room
<1>1. /\ layoutSz \in Nat \ {0} /\ room \in Int
      /\ num_blocks * BlockSlots * layoutSz \in Nat
      /\ num_blocks * Layout!BlockSize(layoutSz) = num_blocks * BlockSlots * layoutSz
      /\ room = Asked(kind, num_blocks, layoutSz) /\ num_blocks \in Nat \ {0}
      /\ kind = "old" => num_blocks = 1
  BY LayoutNumbers DEF Layouts
<1>2. Layout!BlockSize(layoutSz) \in Nat /\ Layout!DataSize(layoutSz) \in Nat
  BY <1>1, Constants DEF Layout!BlockSize, Layout!DataSize
<1>3. CASE kind = "old"
  BY <1>1, <1>2, <1>3
  DEF Layout!RoomExact, Layout!Enough, Layout!Narrow, Memory, Asked
<1>4. CASE kind # "old" /\ num_blocks = 1
  BY <1>1, <1>2, <1>4
  DEF Layout!RoomExact, Layout!Enough, Memory, Asked
<1>5. CASE kind # "old" /\ num_blocks # 1
  <2>1. room = Layout!ToInt(num_blocks * BlockSlots * layoutSz)
    BY <1>1, <1>5 DEF Asked
  <2>2. /\ room < IntLimit /\ IntLimit \in Nat
        /\ num_blocks * BlockSlots * layoutSz < IntLimit =>
             room = num_blocks * BlockSlots * layoutSz
    BY <1>1, <2>1, IntHolds, Constants
  <2>3. Layout!Enough <=> room >= num_blocks * BlockSlots * layoutSz
    BY <1>1, <1>5 DEF Layout!Enough
  <2>4. Layout!Narrow(num_blocks) <=> num_blocks * BlockSlots * layoutSz < IntLimit
    BY <1>5 DEF Layout!Narrow
  <2>5. QED
    BY <1>1, <1>5, <2>2, <2>3, <2>4 DEF Layout!RoomExact, Memory
<1>6. QED
  BY <1>3, <1>4, <1>5

(* The invariant implies the property. *)
LEMMA LayoutAnswers == LayoutSound => AddressesExact
<1> SUFFICES ASSUME LayoutSound PROVE Layout!SlotsApart
  BY RoomFits DEF LayoutSound, AddressesExact
<1> SUFFICES ASSUME Layout!Enough
             PROVE  /\ \A g, h \in layoutHeld :
                          g.slot # h.slot => Layout!BytesOf(g) \cap Layout!BytesOf(h) = {}
                    /\ \A h \in layoutHeld :
                         Layout!BytesOf(h) \subseteq
                           Layout!Bytes(data, room)
                             \ Layout!Bytes(data, IF kind = "old" THEN PtrSize ELSE layoutSz)
  BY DEF Layout!SlotsApart
<1>1. /\ Layouts /\ kind \in Layout!Kinds /\ num_blocks \in Nat \ {0}
      /\ kind = "old" => num_blocks = 1
      /\ layoutSz \in Sizes /\ data \in Nat /\ room \in Int
      /\ Memory(kind, num_blocks, layoutSz) <= room
  BY LayoutNumbers, RoomFits DEF LayoutSound, Layouts
<1>2. \A h \in layoutHeld : /\ h.slot \in Layout!Slots(kind, num_blocks)
                            /\ h.p = Layout!Address(kind, layoutSz, data, h.slot)
  BY DEF LayoutSound, HeldExact
<1>3. ASSUME NEW g \in layoutHeld, NEW h \in layoutHeld, g.slot # h.slot
      PROVE  Layout!BytesOf(g) \cap Layout!BytesOf(h) = {}
  BY <1>1, <1>2, <1>3, Apart DEF Layout!BytesOf
<1>4. ASSUME NEW h \in layoutHeld
      PROVE  Layout!BytesOf(h) \subseteq
               Layout!Bytes(data, room)
                 \ Layout!Bytes(data, IF kind = "old" THEN PtrSize ELSE layoutSz)
  BY <1>1, <1>2, Inside DEF Layout!BytesOf
<1>5. QED
  BY <1>3, <1>4

(* A new slab has one block at a multiple of its alignment. *)
LEMMA InitLayout == Init => LayoutSound
<1> SUFFICES ASSUME Layout!Init PROVE LayoutSound
  BY DEF Init
<1>1. layoutSz \in Sizes /\ kind \in Layout!Kinds /\ num_blocks = 1
  BY DEF Layout!Init
<1>2. PICK m \in 1 .. MaxMultiple : data = m * Unit(kind, layoutSz)
  BY DEF Layout!Init, Unit
<1>3. m \in Nat
  BY Constants, SizesAssumption DEF Layout!LayoutAssumption
<1>4. Layouts
  BY <1>1, <1>2, <1>3 DEF Layouts, Layout!Init, Asked
<1>5. QED
  BY <1>4 DEF LayoutSound, HeldExact, Layout!FoundExact, Layout!Init

(* The client gets the address of a slot that nobody holds. *)
LEMMA StepAllocate ==
  ASSUME LayoutSound, NEW x \in Layout!Slots(kind, num_blocks), Layout!Allocate(x)
  PROVE  LayoutSound'
<1>1. /\ layoutHeld' = layoutHeld \cup
           {[slot |-> x, p |-> Layout!Address(kind, layoutSz, data, x)]}
      /\ UNCHANGED <<kind, layoutSz, data, room, num_blocks, released>>
  BY DEF Layout!Allocate
<1>2. Layouts'
  BY <1>1 DEF LayoutSound, Layouts
<1>3. HeldExact'
  BY <1>1 DEF LayoutSound, HeldExact
<1>4. Layout!FoundExact'
  BY <1>1 DEF LayoutSound, Layout!FoundExact, Layout!Narrow
<1>5. QED
  BY <1>2, <1>3, <1>4 DEF LayoutSound

(* A slot keeps its number, and the addresses move along with the array.   *)
LEMMA StepResize == LayoutSound /\ Layout!Resize => LayoutSound'
<1> SUFFICES ASSUME LayoutSound, Layout!Resize PROVE LayoutSound'
  OBVIOUS
<1>1. /\ kind = "vector" /\ kind' = kind /\ layoutSz' = layoutSz /\ released' = released
      /\ num_blocks' = 2 * num_blocks
      /\ room' = Layout!ToInt(num_blocks' * BlockSlots * layoutSz)
      /\ layoutHeld' = {[h EXCEPT !.p = @ + data' - data] : h \in layoutHeld}
  BY DEF Layout!Resize
<1>2. PICK m \in Nat : data' = m * Layout!BlockSize(layoutSz)
  BY Constants, SizesAssumption DEF Layout!Resize, Layout!LayoutAssumption
<1>3. /\ num_blocks \in Nat \ {0} /\ layoutSz \in Sizes /\ layoutSz \in Nat \ {0}
      /\ data \in Nat /\ num_blocks' \in Nat \ {0} /\ num_blocks' # 1
      /\ num_blocks <= num_blocks'
  BY <1>1, LayoutNumbers DEF LayoutSound, Layouts
<1>4. Layouts'
  BY <1>1, <1>2, <1>3 DEF Layouts, Layout!Kinds, Unit, Asked
<1>5. data' \in Nat
  BY <1>2, <1>3, Constants DEF Layout!BlockSize
<1>6. ASSUME NEW h \in layoutHeld
      PROVE  LET new == [h EXCEPT !.p = @ + data' - data]
             IN  /\ new.slot \in Layout!Slots(kind, num_blocks')
                 /\ new = [slot |-> new.slot,
                           p |-> Layout!Address(kind, layoutSz, data', new.slot)]
  <2>1. /\ h.slot \in Layout!Slots(kind, num_blocks)
        /\ h = [slot |-> h.slot, p |-> Layout!Address(kind, layoutSz, data, h.slot)]
    BY DEF LayoutSound, HeldExact
  <2>2. h.slot \in Layout!Slots(kind, num_blocks')
    BY <1>1, <1>3, <2>1 DEF Layout!Slots
  <2>3. [h EXCEPT !.p = @ + data' - data] = [slot |-> h.slot, p |-> h.p + data' - data]
    BY <2>1
  <2>4. h.p + data' - data = Layout!Address(kind, layoutSz, data', h.slot)
    <3>1. /\ h.slot[1] \in Nat /\ h.slot[2] \in Nat
      BY <1>1, <1>3, <2>1, SlotNumbers DEF Layout!Kinds
    <3>2. /\ h.slot[1] * Layout!BlockSize(layoutSz) \in Nat
          /\ h.slot[2] * layoutSz \in Nat
      BY <1>3, <3>1, Constants DEF Layout!BlockSize
    <3>3. h.p = Layout!Address(kind, layoutSz, data, h.slot)
      BY <2>1
    <3>4. QED
      BY <1>1, <1>3, <1>5, <3>2, <3>3 DEF Layout!Address
  <2>5. QED
    BY <2>2, <2>3, <2>4
<1>7. HeldExact'
  BY <1>1, <1>6 DEF HeldExact
<1>8. Layout!FoundExact'
  BY <1>1 DEF LayoutSound, Layout!FoundExact, Layout!Narrow
<1>9. QED
  BY <1>4, <1>7, <1>8 DEF LayoutSound

(* The remainder of the address by the alignment, or by the size of a      *)
(* block, leads back to the slot.                                          *)
LEMMA StepDeallocate ==
  ASSUME LayoutSound, NEW h \in layoutHeld, Layout!Deallocate(h)
  PROVE  LayoutSound'
<1>1. /\ layoutHeld' = layoutHeld \ {h}
      /\ UNCHANGED <<kind, layoutSz, data, room, num_blocks>>
      /\ released' =
           [wanted |-> {[data |-> data, slot |-> h.slot]},
            found  |-> IF kind = "old" THEN {Layout!FindOld(layoutSz, h.p)}
                       ELSE IF Layout!BlockInt(layoutSz) > 0
                            THEN {Layout!FindVector(layoutSz, h.p, data)} ELSE {}]
  BY DEF Layout!Deallocate
<1>2. Layouts'
  BY <1>1 DEF LayoutSound, Layouts
<1>3. HeldExact'
  BY <1>1 DEF LayoutSound, HeldExact
<1>4. /\ h.slot \in Layout!Slots(kind, num_blocks)
      /\ h.p = Layout!Address(kind, layoutSz, data, h.slot)
      /\ layoutSz \in Sizes /\ num_blocks \in Nat \ {0} /\ kind \in Layout!Kinds
      /\ kind = "old" => num_blocks = 1
  BY DEF LayoutSound, HeldExact, Layouts
<1>5. PICK m \in Nat : data = m * Unit(kind, layoutSz)
  BY DEF LayoutSound, Layouts
<1>6. Layout!FoundExact'
  <2>1. CASE kind = "old"
    <3>1. Layout!FindOld(layoutSz, h.p) = [data |-> data, slot |-> h.slot]
      BY <1>4, <1>5, <2>1, OldFound DEF Unit
    <3>2. QED
      BY <1>1, <2>1, <3>1 DEF Layout!FoundExact
  <2>2. CASE kind = "vector" /\ Layout!Narrow(1)
    <3>1. BlockSlots * layoutSz < IntLimit
      <4>1. 1 * BlockSlots * layoutSz = BlockSlots * layoutSz
        BY <1>4, Constants
      <4>2. QED
        BY <2>2, <4>1 DEF Layout!Narrow
    <3>2. /\ Layout!BlockInt(layoutSz) > 0
          /\ Layout!FindVector(layoutSz, h.p, data) = [data |-> data, slot |-> h.slot]
      BY <1>4, <1>5, <2>2, <3>1, VectorFound DEF Unit
    <3>3. QED
      BY <1>1, <2>2, <3>2 DEF Layout!FoundExact
  <2>3. CASE kind = "vector" /\ ~Layout!Narrow(1)
    BY <1>1, <2>3 DEF Layout!FoundExact, Layout!Narrow
  <2>4. QED
    BY <1>4, <2>1, <2>2, <2>3 DEF Layout!Kinds
<1>7. QED
  BY <1>2, <1>3, <1>6 DEF LayoutSound

(* Steps of the other parts do not touch the slab. *)
LEMMA StillLayout == LayoutSound /\ UNCHANGED layoutVars => LayoutSound'
BY DEF layoutVars, LayoutSound, Layouts, HeldExact, Layout!FoundExact, Layout!Narrow

(* The invariant is inductive. *)
LEMMA StepLayout ==
  LayoutSound /\ [Next]_<<part, classVars, layoutVars, fancyVars, walkVars>> => LayoutSound'
<1> SUFFICES ASSUME LayoutSound,
                    [Next]_<<part, classVars, layoutVars, fancyVars, walkVars>>
             PROVE  LayoutSound'
  OBVIOUS
<1>1. CASE Layout!Next
  <2>1. ASSUME NEW x \in Layout!Slots(kind, num_blocks), Layout!Allocate(x)
        PROVE  LayoutSound'
    BY <2>1, StepAllocate
  <2>2. ASSUME NEW h \in layoutHeld, Layout!Deallocate(h)
        PROVE  LayoutSound'
    BY <2>2, StepDeallocate
  <2>3. Layout!Stopped => UNCHANGED layoutVars
    BY DEF Layout!Stopped, Layout!vars, layoutVars
  <2>4. QED
    BY <1>1, <2>1, <2>2, <2>3, StepResize, StillLayout DEF Layout!Next
<1>2. CASE UNCHANGED layoutVars
  BY <1>2, StillLayout
<1>3. QED
  BY <1>1, <1>2 DEF Next

(* Of every slot that a slab has handed out, before and after its array    *)
(* has moved and grown: deallocate() finds slab, block and slot in its     *)
(* address, and it lies in its memory, apart from all others; and resize() *)
(* asks for enough memory exactly where its int does not overflow.         *)
THEOREM AddressesCorrect == Spec => []AddressesExact
<1>1. QED
  BY InitLayout, StepLayout, LayoutAnswers, PTL DEF Spec

-----------------------------------------------------------------------------
(* Size classes *)

(* The powers of two of the instance are those of the lemmas. *)
LEMMA ClassTwo == Class!Two = Two
BY DEF Class!Two, Two

(* The last exponent whose power of two the word of the loop holds. *)
Top(v) == IF v = "lock_free" THEN IntWidth - 2 ELSE SizeWidth - 1

(* The powers of two that bound the words. *)
LEMMA Widths ==
  /\ IntWidth \in Nat /\ SizeWidth \in Nat /\ 3 <= IntWidth /\ IntWidth <= SizeWidth
  /\ SizeWidth < Two[IntWidth - 1]
  /\ Two[IntWidth] = 2 * Two[IntWidth - 1]
  /\ Two[IntWidth - 1] = 2 * Two[IntWidth - 2]
  /\ Two[IntWidth - 2] = 2 * Two[IntWidth - 3]
  /\ Two[SizeWidth] = 2 * Two[SizeWidth - 1]
  /\ Two[IntWidth - 3] \in Nat \ {0} /\ Two[IntWidth - 2] \in Nat \ {0}
  /\ Two[IntWidth - 1] \in Nat \ {0} /\ Two[IntWidth] \in Nat \ {0}
  /\ Two[SizeWidth - 1] \in Nat \ {0} /\ Two[SizeWidth] \in Nat \ {0}
  /\ Two[IntWidth] <= Two[SizeWidth]
<1>1. /\ IntWidth \in Nat /\ SizeWidth \in Nat /\ 3 <= IntWidth /\ IntWidth <= SizeWidth
      /\ SizeWidth < Two[IntWidth - 1]
  BY WidthsAssumption, ClassTwo DEF Class!ClassAssumption
<1>2. PICK w \in Nat : w = IntWidth - 3
  BY <1>1
<1>3. /\ IntWidth - 2 = w + 1 /\ IntWidth - 1 = w + 1 + 1 /\ IntWidth = w + 1 + 1 + 1
      /\ w + 1 \in Nat /\ w + 1 + 1 \in Nat
  BY <1>1, <1>2
<1>4. PICK u \in Nat : u = SizeWidth - 1 /\ SizeWidth = u + 1
  BY <1>1
<1>5. IntWidth < SizeWidth => 2 * Two[IntWidth] <= Two[SizeWidth]
  BY <1>1, TwoGrows
<1>6. Two[IntWidth] \in Nat /\ Two[SizeWidth] \in Nat
  BY <1>1, TwoStep
<1>7. Two[IntWidth] <= Two[SizeWidth]
  BY <1>1, <1>5, <1>6
<1>8. QED
  BY <1>1, <1>2, <1>3, <1>4, <1>7, TwoStep

(* What the words hold. *)
LEMMA Words ==
  /\ \A x \in Nat : x < Two[IntWidth - 1] => Class!ToInt(x) = x
  /\ \A x \in Nat : Class!ToInt(x) \in Int /\ Class!ToInt(x) < Two[IntWidth - 1]
  /\ Class!ToInt(Two[IntWidth - 1]) = -Two[IntWidth - 1]
  /\ Class!ToInt(-Two[IntWidth]) = 0
  /\ \A x \in Nat : x < Two[SizeWidth] => Class!ToSize(x) = x
  /\ Class!ToSize(Two[SizeWidth]) = 0
  /\ Class!ToSize(-Two[IntWidth - 1]) = Two[SizeWidth] - Two[IntWidth - 1]
<1>1. PICK h \in Nat \ {0} : h = Two[IntWidth - 1]
  BY Widths
<1>2. PICK s \in Nat \ {0} : s = Two[SizeWidth]
  BY Widths
<1>3. Two[IntWidth] = 2 * h /\ 2 * h <= s
  BY <1>1, <1>2, Widths
<1>4. \A x : Class!ToInt(x) = IF x % (2 * h) < h THEN x % (2 * h) ELSE (x % (2 * h)) - 2 * h
  BY <1>1, <1>3, ClassTwo DEF Class!ToInt
<1>5. \A x : Class!ToSize(x) = x % s
  BY <1>2, ClassTwo DEF Class!ToSize
<1>6. ASSUME NEW x \in Nat
      PROVE  /\ x < h => Class!ToInt(x) = x
             /\ Class!ToInt(x) \in Int /\ Class!ToInt(x) < h
  <2>1. x % (2 * h) \in 0 .. 2 * h - 1 /\ (x < h => x % (2 * h) = x)
    OBVIOUS
  <2>2. QED
    BY <1>4, <2>1
<1>7. Class!ToInt(h) = -h
  <2>1. h % (2 * h) = h
    OBVIOUS
  <2>2. QED
    BY <1>4, <2>1
<1>8. Class!ToInt(-(2 * h)) = 0
  <2>1. ((-1) * (2 * h) + 0) % (2 * h) = 0
    <3>1. 2 * h \in Nat \ {0} /\ -1 \in Int /\ 0 \in Nat /\ 0 < 2 * h
      OBVIOUS
    <3>2. QED
      BY <3>1, Division
  <2>2. (-1) * (2 * h) + 0 = -(2 * h)
    OBVIOUS
  <2>3. QED
    BY <1>4, <2>1, <2>2
<1>9. \A x \in Nat : x < s => x % s = x
  OBVIOUS
<1>10. s % s = 0
  <2>1. (1 * s + 0) % s = 0 /\ 1 * s + 0 = s
    BY Division
  <2>2. QED
    BY <2>1
<1>11. (-h) % s = s - h
  <2>1. s - h \in Nat /\ s - h < s
    BY <1>3
  <2>2. ((-1) * s + (s - h)) % s = s - h
    BY <2>1, Division
  <2>3. (-1) * s + (s - h) = -h
    OBVIOUS
  <2>4. QED
    BY <2>2, <2>3
<1>12. QED
  BY <1>1, <1>2, <1>3, <1>5, <1>6, <1>7, <1>8, <1>9, <1>10, <1>11

(* The loop doubles as long as its word holds the result. *)
LEMMA Doublings ==
  ASSUME NEW v \in Class!Variants
  PROVE  /\ Top(v) \in Nat /\ Top(v) < SizeWidth
         /\ \A e \in 0 .. Top(v) : e < Top(v) => Class!Doubled(v, Two[e]) = Two[e + 1]
         /\ Class!Doubled(v, Two[Top(v)]) =
              IF v = "lock_free" THEN -Two[IntWidth - 1] ELSE 0
         /\ Class!Doubled(v, 0) = 0
         /\ v = "lock_free" => Class!Doubled(v, -Two[IntWidth - 1]) = 0
<1>1. Top(v) \in Nat /\ Top(v) < SizeWidth
  BY Widths DEF Top
<1>2. ASSUME NEW e \in 0 .. Top(v), e < Top(v)
      PROVE  Class!Doubled(v, Two[e]) = Two[e + 1]
  <2>1. e \in Nat /\ e + 1 \in Nat /\ Two[e + 1] = 2 * Two[e]
    BY <1>1, TwoStep
  <2>2. Two[e + 1] \in Nat /\ Two[e + 1] <= Two[Top(v)]
    <3>1. Two[e + 1] \in Nat /\ Two[Top(v)] \in Nat
      BY <1>1, <2>1, TwoStep
    <3>2. 2 * Two[e] <= Two[Top(v)]
      BY <1>1, <1>2, <2>1, TwoGrows
    <3>3. QED
      BY <2>1, <3>1, <3>2
  <2>3. CASE v = "lock_free"
    <3>1. Two[e + 1] < Two[IntWidth - 1]
      BY <2>2, <2>3, Widths DEF Top
    <3>2. QED
      BY <2>1, <2>2, <2>3, <3>1, Words DEF Class!Doubled
  <2>4. CASE v # "lock_free"
    <3>1. Two[e + 1] < Two[SizeWidth]
      BY <2>2, <2>4, Widths DEF Top
    <3>2. QED
      BY <2>1, <2>2, <2>4, <3>1, Words DEF Class!Doubled
  <2>5. QED
    BY <2>3, <2>4
<1>3. Class!Doubled(v, Two[Top(v)]) = IF v = "lock_free" THEN -Two[IntWidth - 1] ELSE 0
  <2>1. CASE v = "lock_free"
    <3>1. 2 * Two[Top(v)] = Two[IntWidth - 1]
      BY <2>1, Widths DEF Top
    <3>2. QED
      BY <2>1, <3>1, Words DEF Class!Doubled
  <2>2. CASE v # "lock_free"
    <3>1. 2 * Two[Top(v)] = Two[SizeWidth]
      BY <2>2, Widths DEF Top
    <3>2. QED
      BY <2>2, <3>1, Words DEF Class!Doubled
  <2>3. QED
    BY <2>1, <2>2
<1>4. Class!Doubled(v, 0) = 0
  <2>1. 2 * 0 = 0 /\ 0 < Two[IntWidth - 1] /\ 0 < Two[SizeWidth]
    BY Widths
  <2>2. QED
    BY <2>1, Words DEF Class!Doubled
<1>5. v = "lock_free" => Class!Doubled(v, -Two[IntWidth - 1]) = 0
  <2>1. 2 * (-Two[IntWidth - 1]) = -Two[IntWidth]
    BY Widths
  <2>2. QED
    BY <2>1, Words DEF Class!Doubled
<1>6. QED
  BY <1>1, <1>2, <1>3, <1>4, <1>5

(* What the loop compares with. *)
Wanted == Class!Argument(variant, request)

(* So far the loop has counted the doublings, and all were needed; or the  *)
(* request is beyond the last power of two, and the loop does not end.     *)
Counts ==
  /\ exponent \in 0 .. Top(variant)
  /\ rounded_size = Two[exponent]
  /\ exponent > 0 => Two[exponent - 1] < Wanted

(* The word has overflowed, to its least value or to zero for good. *)
Lost ==
  /\ Two[Top(variant)] < Wanted
  /\ \/ rounded_size = 0
     \/ rounded_size = -Two[IntWidth - 1] /\ variant = "lock_free"

(* The answer is that of an exponent that was not counted too far. *)
Answered ==
  /\ Counts /\ Wanted <= rounded_size
  /\ answer = "slab" <=> exponent < Class!Classes[variant]
  /\ answer = "slab" =>
       /\ slot = Class!SlotSize(variant, exponent)
       /\ sz = IF variant = "vector" THEN Class!ToInt(slot) ELSE slot

(* The inductive invariant. *)
LoopSound ==
  /\ variant \in Class!Variants
  /\ request \in 0 .. Class!Limit[variant]
  /\ pc = "loop" => (Counts \/ Lost) /\ answer = "none"
  /\ answer # "none" => Answered

(* The requests and what the loop compares with. *)
LEMMA Requests ==
  ASSUME NEW v \in Class!Variants, NEW r \in 0 .. Class!Limit[v]
  PROVE  /\ r \in Nat /\ r < Two[SizeWidth]
         /\ v = "lock_free" => 4 * r + Two[IntWidth - 1] <= Two[SizeWidth]
         /\ Class!Argument(v, r) \in Int
         /\ v # "lock_free" => Class!Argument(v, r) = r
         /\ r < Two[IntWidth - 1] => Class!Argument(v, r) = r
<1>1. /\ LimitLockFree \in Nat /\ LimitMutex \in Nat /\ LimitVector \in Nat
      /\ LimitMutex < Two[SizeWidth] /\ LimitVector < Two[SizeWidth]
      /\ 4 * LimitLockFree + Two[IntWidth - 1] <= Two[SizeWidth]
      /\ Two[IntWidth - 1] \in Nat \ {0} /\ Two[SizeWidth] \in Nat
  BY WidthsAssumption, ClassTwo, Widths DEF Class!ClassAssumption
<1>2. /\ r \in Nat /\ r < Two[SizeWidth]
      /\ v = "lock_free" => 4 * r + Two[IntWidth - 1] <= Two[SizeWidth]
  <2>1. CASE v = "lock_free"
    BY <1>1, <2>1 DEF Class!Limit
  <2>2. CASE v = "mutex"
    BY <1>1, <2>2 DEF Class!Limit
  <2>3. CASE v = "vector"
    BY <1>1, <2>3 DEF Class!Limit
  <2>4. QED
    BY <2>1, <2>2, <2>3 DEF Class!Variants
<1>3. QED
  BY <1>2, Words DEF Class!Argument

LEMMA InitLoop == Init => LoopSound
<1> SUFFICES ASSUME Class!Init PROVE LoopSound
  BY DEF Init
<1>1. 0 \in 0 .. Class!Limit[variant]
  <2>1. LimitLockFree \in Nat /\ LimitMutex \in Nat /\ LimitVector \in Nat
    BY WidthsAssumption DEF Class!ClassAssumption
  <2>2. QED
    BY <2>1 DEF Class!Init, Class!Limit, Class!Variants
<1>2. QED
  BY <1>1 DEF LoopSound, Class!Init

LEMMA StepCall == LoopSound /\ Class!Call => LoopSound'
<1> SUFFICES ASSUME LoopSound, Class!Call PROVE LoopSound'
  OBVIOUS
<1>1. /\ variant' = variant /\ variant \in Class!Variants
      /\ request' \in 0 .. Class!Limit[variant]
      /\ rounded_size' = 1 /\ exponent' = 0 /\ answer' = "none"
  BY DEF LoopSound, Class!Call
<1>2. 1 = Two[0] /\ Top(variant) \in Nat
  BY <1>1, TwoStep, Doublings
<1>3. Counts'
  BY <1>1, <1>2 DEF Counts, Top
<1>4. QED
  BY <1>1, <1>3 DEF LoopSound

LEMMA StepDouble == LoopSound /\ Class!Double => LoopSound'
<1> SUFFICES ASSUME LoopSound, Class!Double PROVE LoopSound'
  OBVIOUS
<1>1. /\ variant' = variant /\ request' = request /\ pc' = "loop" /\ answer' = answer
      /\ variant \in Class!Variants /\ request \in 0 .. Class!Limit[variant]
      /\ rounded_size' = Class!Doubled(variant, rounded_size)
      /\ exponent' = Class!ToInt(exponent + 1)
      /\ answer = "none"
      /\ Counts \/ Lost
      /\ rounded_size < Wanted
  BY DEF LoopSound, Class!Double, Class!More, Wanted
<1>2. Wanted' = Wanted /\ Top(variant)' = Top(variant)
  BY <1>1 DEF Wanted, Class!Argument, Class!ToInt, Top
<1>3. /\ Top(variant) \in Nat /\ Top(variant) < SizeWidth
      /\ SizeWidth \in Nat /\ SizeWidth < Two[IntWidth - 1] /\ Two[IntWidth - 1] \in Nat
  BY <1>1, Doublings, Widths
<1>4. CASE Counts /\ exponent < Top(variant)
  <2>1. /\ exponent \in 0 .. Top(variant) /\ exponent + 1 \in 0 .. Top(variant)
        /\ exponent + 1 > 0 /\ (exponent + 1) - 1 = exponent
        /\ rounded_size = Two[exponent]
    BY <1>3, <1>4 DEF Counts
  <2>2. rounded_size' = Two[exponent + 1]
    BY <1>1, <1>4, <2>1, Doublings
  <2>3. exponent' = exponent + 1
    <3>1. exponent + 1 \in Nat /\ exponent + 1 < Two[IntWidth - 1]
      BY <1>3, <2>1
    <3>2. QED
      BY <1>1, <3>1, Words
  <2>4. Counts'
    BY <1>1, <1>2, <2>1, <2>2, <2>3 DEF Counts
  <2>5. QED
    BY <1>1, <2>4 DEF LoopSound
<1>5. CASE Counts /\ exponent = Top(variant)
  <2>1. rounded_size = Two[Top(variant)]
    BY <1>5 DEF Counts
  <2>2. Two[Top(variant)] < Wanted
    BY <1>1, <2>1
  <2>3. rounded_size' = IF variant = "lock_free" THEN -Two[IntWidth - 1] ELSE 0
    BY <1>1, <2>1, Doublings
  <2>4. Lost'
    BY <1>1, <1>2, <2>2, <2>3 DEF Lost
  <2>5. QED
    BY <1>1, <2>4 DEF LoopSound
<1>6. CASE Lost
  <2>1. rounded_size' = 0
    BY <1>1, <1>6, Doublings DEF Lost
  <2>2. Lost'
    BY <1>1, <1>2, <1>6, <2>1 DEF Lost
  <2>3. QED
    BY <1>1, <2>2 DEF LoopSound
<1>7. QED
  <2>1. Counts => exponent < Top(variant) \/ exponent = Top(variant)
    BY <1>3 DEF Counts
  <2>2. QED
    BY <1>1, <1>4, <1>5, <1>6, <2>1

(* The loop ends only if it has counted. *)
LEMMA StepAnswer == LoopSound /\ (Class!Refuse \/ Class!Serve) => LoopSound'
<1> SUFFICES ASSUME LoopSound, Class!Refuse \/ Class!Serve PROVE LoopSound'
  OBVIOUS
<1>1. /\ variant' = variant /\ request' = request /\ pc' = "idle"
      /\ rounded_size' = rounded_size /\ exponent' = exponent
      /\ variant \in Class!Variants /\ request \in 0 .. Class!Limit[variant]
      /\ Counts \/ Lost
      /\ ~ (rounded_size < Wanted)
  BY DEF LoopSound, Class!Refuse, Class!Serve, Class!More, Wanted
<1>2. Wanted \in Int /\ Wanted' = Wanted /\ Top(variant)' = Top(variant)
  BY <1>1, Requests DEF Wanted, Class!Argument, Class!ToInt, Top
<1>3. Top(variant) \in Nat /\ Two[Top(variant)] \in Nat /\ Two[IntWidth - 1] \in Nat
  BY <1>1, Doublings, TwoStep, Widths
<1>4. ~Lost
  BY <1>1, <1>2, <1>3 DEF Lost
<1>5. Counts /\ rounded_size \in Int
  <2>1. Counts
    BY <1>1, <1>4
  <2>2. exponent \in Nat
    BY <1>3, <2>1 DEF Counts
  <2>3. QED
    BY <2>1, <2>2, TwoStep DEF Counts
<1>6. Counts' /\ Wanted' <= rounded_size'
  BY <1>1, <1>2, <1>5 DEF Counts
<1>7. /\ answer' = "slab" <=> exponent' < Class!Classes[variant']
      /\ answer' = "slab" =>
           /\ slot' = Class!SlotSize(variant', exponent')
           /\ sz' = IF variant' = "vector" THEN Class!ToInt(slot') ELSE slot'
  <2>1. exponent \in Int /\ Class!Classes[variant] \in Int
    <3>1. MaxAllocators \in Nat /\ MaxMutex \in Nat /\ MaxSlabs \in Nat
      BY WidthsAssumption DEF Class!ClassAssumption
    <3>2. QED
      BY <1>1, <1>3, <1>5, <3>1 DEF Counts, Class!Classes, Class!Variants
  <2>2. CASE Class!Refuse
    BY <1>1, <2>1, <2>2 DEF Class!Refuse, Class!TooLarge
  <2>3. CASE Class!Serve
    BY <1>1, <2>1, <2>3 DEF Class!Serve, Class!TooLarge
  <2>4. QED
    BY <2>2, <2>3
<1>8. Answered'
  BY <1>6, <1>7 DEF Answered
<1>9. QED
  BY <1>1, <1>8 DEF LoopSound

LEMMA StillLoop == LoopSound /\ UNCHANGED classVars => LoopSound'
BY DEF classVars, LoopSound, Counts, Lost, Answered, Wanted

LEMMA StepLoop ==
  LoopSound /\ [Next]_<<part, classVars, layoutVars, fancyVars, walkVars>> => LoopSound'
<1> SUFFICES ASSUME LoopSound,
                    [Next]_<<part, classVars, layoutVars, fancyVars, walkVars>>
             PROVE  LoopSound'
  OBVIOUS
<1>1. CASE Class!Next
  BY <1>1, StepCall, StepDouble, StepAnswer DEF Class!Next
<1>2. CASE UNCHANGED classVars
  BY <1>2, StillLoop
<1>3. QED
  BY <1>1, <1>2 DEF Next

(* In reach, the request is passed as it is and a power of two holds it. *)
LEMMA InReachMeans ==
  ASSUME LoopSound, Class!InReach
  PROVE  request \in Nat /\ Wanted = request /\ request <= Two[Top(variant)]
<1>1. variant \in Class!Variants /\ request \in 0 .. Class!Limit[variant] /\ request \in Nat
  BY Requests DEF LoopSound
<1>2. request <= Two[Top(variant)]
  BY ClassTwo DEF Class!InReach, Top
<1>3. CASE variant = "lock_free"
  <2>1. request < Two[IntWidth - 1]
    BY <1>1, <1>2, <1>3, Widths DEF Top
  <2>2. QED
    BY <1>1, <1>2, <2>1, Requests DEF Wanted
<1>4. CASE variant # "lock_free"
  BY <1>1, <1>2, <1>4, Requests DEF Wanted
<1>5. QED
  BY <1>3, <1>4

(* In reach the loop computes ceil(log2 n). *)
LEMMA LogExact ==
  ASSUME LoopSound, Answered, Class!InReach
  PROVE  exponent = Class!CeilLog(request)
<1>1. /\ request \in Nat /\ Wanted = request
      /\ variant \in Class!Variants
      /\ exponent \in 0 .. Top(variant) /\ rounded_size = Two[exponent]
      /\ exponent > 0 => Two[exponent - 1] < request
      /\ request <= Two[exponent]
  BY InReachMeans DEF LoopSound, Answered, Counts
<1>2. Top(variant) \in Nat /\ Top(variant) < SizeWidth /\ SizeWidth \in Nat
  BY <1>1, Doublings, Widths
<1>3. exponent \in 0 .. SizeWidth /\ exponent \in Nat
  BY <1>1, <1>2
<1>4. \A d \in 0 .. exponent - 1 : Two[d] < request
  <2> SUFFICES ASSUME NEW d \in 0 .. exponent - 1 PROVE Two[d] < request
    OBVIOUS
  <2>1. d \in Nat /\ exponent - 1 \in Nat /\ exponent > 0 /\ (d = exponent - 1 \/ d < exponent - 1)
    BY <1>3
  <2>2. Two[d] \in Nat /\ Two[exponent - 1] \in Nat
    BY <2>1, TwoStep
  <2>3. d < exponent - 1 => 2 * Two[d] <= Two[exponent - 1]
    BY <2>1, TwoGrows
  <2>4. QED
    BY <1>1, <2>1, <2>2, <2>3
<1>5. ASSUME NEW e \in 0 .. SizeWidth, Two[e] >= request,
             \A d \in 0 .. e - 1 : Two[d] < request
      PROVE  e = exponent
  <2>1. e \in Nat /\ Two[e] \in Nat /\ Two[exponent] \in Nat
    BY <1>2, <1>3, TwoStep
  <2>2. ~ (e < exponent)
    <3>1. e < exponent => e \in 0 .. exponent - 1
      BY <1>3, <2>1
    <3>2. e < exponent => Two[e] < request
      BY <1>4, <3>1
    <3>3. QED
      BY <1>1, <1>5, <2>1, <3>2
  <2>3. ~ (exponent < e)
    <3>1. exponent < e => exponent \in 0 .. e - 1
      BY <1>3, <2>1
    <3>2. exponent < e => Two[exponent] < request
      BY <1>5, <3>1
    <3>3. QED
      BY <1>1, <2>1, <3>2
  <2>4. QED
    BY <1>3, <2>1, <2>2, <2>3
<1>6. Two[exponent] >= request
  BY <1>1
<1>7. exponent = CHOOSE e \in 0 .. SizeWidth :
                    Two[e] >= request /\ \A d \in 0 .. e - 1 : Two[d] < request
  BY <1>3, <1>4, <1>5, <1>6
<1>8. QED
  BY <1>7, ClassTwo DEF Class!CeilLog

(* What SlotSize gives. *)
LEMMA SlotSizes ==
  ASSUME NEW v \in Class!Variants, NEW e \in 0 .. Top(v)
  PROVE  /\ v # "lock_free" => Class!SlotSize(v, e) = Two[e]
         /\ v = "lock_free" /\ e < Top(v) => Class!SlotSize(v, e) = 2 * Two[e]
         /\ v = "lock_free" /\ e = Top(v) =>
              Class!SlotSize(v, e) = Two[SizeWidth] - Two[IntWidth - 1]
         /\ Class!SlotSize(v, e) \in Nat
<1>1. /\ Top(v) \in Nat /\ Top(v) < SizeWidth /\ e \in Nat /\ e + 1 \in Nat
      /\ Two[e] \in Nat \ {0} /\ Two[e + 1] = 2 * Two[e] /\ Two[Top(v)] \in Nat
  BY Doublings, TwoStep
<1>2. e < Top(v) => 2 * Two[e] <= Two[Top(v)]
  BY <1>1, TwoGrows
<1>3. CASE v = "lock_free" /\ e < Top(v)
  <2>1. 2 * Two[e] < Two[IntWidth - 1] /\ 2 * Two[e] < Two[SizeWidth] /\ 2 * Two[e] \in Nat
    BY <1>1, <1>2, <1>3, Widths DEF Top
  <2>2. QED
    BY <1>1, <1>3, <2>1, Words, ClassTwo DEF Class!SlotSize
<1>4. CASE v = "lock_free" /\ e = Top(v)
  <2>1. Two[e + 1] = Two[IntWidth - 1]
    BY <1>1, <1>4, Widths DEF Top
  <2>2. Class!SlotSize(v, e) = Two[SizeWidth] - Two[IntWidth - 1]
    BY <1>4, <2>1, Words, ClassTwo DEF Class!SlotSize
  <2>3. Two[SizeWidth] - Two[IntWidth - 1] \in Nat
    BY Widths
  <2>4. QED
    BY <1>4, <2>2, <2>3
<1>5. CASE v # "lock_free"
  <2>1. Two[e] < Two[SizeWidth]
    <3>1. 2 * Two[e] <= Two[SizeWidth]
      BY <1>1, Widths, TwoGrows
    <3>2. QED
      BY <1>1, <3>1, Widths
  <2>2. QED
    BY <1>1, <1>5, <2>1, Words, ClassTwo DEF Class!SlotSize
<1>6. QED
  <2>1. e < Top(v) \/ e = Top(v)
    BY <1>1
  <2>2. QED
    BY <1>3, <1>4, <1>5, <2>1

(* The slot is the one above the power of two. *)
LEMMA FitExact ==
  ASSUME LoopSound, Answered, answer = "slab"
  PROVE  Class!SlotInReach <=>
           /\ request <= slot
           /\ request > 0 => slot < (IF variant = "lock_free" THEN 4 ELSE 2) * request
<1>1. /\ variant \in Class!Variants /\ request \in 0 .. Class!Limit[variant]
      /\ exponent \in 0 .. Top(variant) /\ rounded_size = Two[exponent]
      /\ exponent > 0 => Two[exponent - 1] < Wanted
      /\ Wanted <= Two[exponent]
      /\ slot = Class!SlotSize(variant, exponent)
  BY DEF LoopSound, Answered, Counts
<1>2. /\ request \in Nat /\ Wanted \in Int
      /\ variant # "lock_free" => Wanted = request
      /\ request < Two[IntWidth - 1] => Wanted = request
      /\ variant = "lock_free" => 4 * request + Two[IntWidth - 1] <= Two[SizeWidth]
  BY <1>1, Requests DEF Wanted
<1>3. PICK p \in Nat \ {0} : p = Two[exponent]
  BY <1>1, Doublings, TwoStep
<1>4. (Wanted = request /\ request > 0) => p < 2 * request
  <2>1. CASE exponent = 0
    <3>1. p = 1
      BY <1>3, <2>1, TwoStep
    <3>2. QED
      BY <1>2, <3>1
  <2>2. CASE exponent # 0
    <3>1. exponent - 1 \in Nat /\ (exponent - 1) + 1 = exponent /\ exponent > 0
      BY <1>1, <2>2, Doublings
    <3>2. p = 2 * Two[exponent - 1] /\ Two[exponent - 1] \in Nat
      BY <1>3, <3>1, TwoStep
    <3>3. QED
      BY <1>1, <1>2, <3>1, <3>2
  <2>3. QED
    BY <2>1, <2>2
<1>5. CASE variant # "lock_free"
  <2>1. slot = p
    BY <1>1, <1>3, <1>5, SlotSizes
  <2>2. QED
    BY <1>1, <1>2, <1>3, <1>4, <1>5, <2>1 DEF Class!SlotInReach
<1>6. CASE variant = "lock_free"
  <2>1. PICK q \in Nat \ {0} :
          /\ q = Two[IntWidth - 3] /\ Two[IntWidth - 2] = 2 * q /\ Two[IntWidth - 1] = 4 * q
    BY Widths
  <2>2. Class!SlotInReach <=> request <= q
    BY <1>6, <2>1, ClassTwo DEF Class!SlotInReach
  <2>3. /\ exponent = IntWidth - 2 \/ exponent < IntWidth - 2
        /\ exponent \in Nat /\ IntWidth - 3 \in Nat /\ IntWidth \in Nat
    BY <1>1, <1>6, Widths DEF Top
  <2>4. CASE exponent = IntWidth - 2
    <3>1. slot = Two[SizeWidth] - 4 * q /\ p = 2 * q /\ Two[SizeWidth] \in Nat
      BY <1>1, <1>3, <1>6, <2>1, <2>4, SlotSizes, Widths DEF Top
    <3>2. slot >= 4 * request
      BY <1>2, <1>6, <2>1, <3>1
    <3>3. request > q
      <4>1. exponent > 0
        BY <2>3, <2>4
      <4>2. exponent - 1 \in Nat /\ (exponent - 1) + 1 = IntWidth - 2 /\ (IntWidth - 3) + 1 = IntWidth - 2
        BY <2>3, <2>4
      <4>3. Two[exponent - 1] = q
        BY <2>1, <2>3, <2>4, <4>2
      <4>4. q < Wanted
        BY <1>1, <4>1, <4>3
      <4>5. QED
        BY <1>2, <2>1, <4>4
    <3>4. QED
      BY <1>2, <1>6, <2>1, <2>2, <3>1, <3>2, <3>3
  <2>5. CASE exponent < IntWidth - 2
    <3>1. slot = 2 * p
      BY <1>1, <1>3, <1>6, <2>5, SlotSizes DEF Top
    <3>2. p <= q
      <4>1. exponent = IntWidth - 3 \/ exponent < IntWidth - 3
        BY <2>3, <2>5
      <4>2. exponent < IntWidth - 3 => 2 * p <= q
        BY <1>3, <2>1, <2>3, TwoGrows
      <4>3. QED
        BY <1>3, <2>1, <4>1, <4>2
    <3>3. request <= q => Wanted = request
      BY <1>2, <2>1
    <3>4. request > q => request > slot
      <4>1. CASE request < Two[IntWidth - 1]
        BY <1>1, <1>2, <1>3, <2>1, <3>2, <4>1
      <4>2. CASE ~ (request < Two[IntWidth - 1])
        BY <1>2, <2>1, <3>1, <3>2, <4>2
      <4>3. QED
        BY <4>1, <4>2
    <3>5. request <= q => request <= slot /\ (request > 0 => slot < 4 * request)
      BY <1>1, <1>2, <1>3, <1>4, <3>1, <3>3
    <3>6. slot \in Nat
      BY <3>1
    <3>7. QED
      BY <1>2, <1>6, <2>1, <2>2, <3>4, <3>5, <3>6
  <2>6. QED
    BY <2>3, <2>4, <2>5
<1>7. QED
  BY <1>5, <1>6

(* The four parts of ClassFits. *)
LEMMA LoopAnswers == LoopSound => ClassFits
<1> SUFFICES ASSUME LoopSound PROVE ClassFits
  OBVIOUS
<1>1. Class!ClassExact
  <2> SUFFICES ASSUME answer # "none", Class!InReach
               PROVE  /\ exponent = Class!CeilLog(request)
                      /\ (answer = "slab") <=> Class!CeilLog(request) < Class!Classes[variant]
    BY DEF Class!ClassExact
  <2>1. Answered
    BY DEF LoopSound
  <2>2. exponent = Class!CeilLog(request)
    BY <2>1, LogExact
  <2>3. (answer = "slab") <=> exponent < Class!Classes[variant]
    BY <2>1 DEF Answered
  <2>4. QED
    BY <2>2, <2>3
<1>2. Class!SlotFits
  BY FitExact DEF LoopSound, Class!SlotFits
<1>3. Class!SizeKept
  <2> SUFFICES ASSUME answer = "slab"
               PROVE  (sz = slot) <=> (variant = "vector" => slot < Two[IntWidth - 1])
    BY ClassTwo DEF Class!SizeKept
  <2>1. /\ variant \in Class!Variants /\ exponent \in 0 .. Top(variant)
        /\ slot = Class!SlotSize(variant, exponent)
        /\ sz = IF variant = "vector" THEN Class!ToInt(slot) ELSE slot
    BY DEF LoopSound, Answered, Counts
  <2>2. slot \in Nat
    BY <2>1, SlotSizes
  <2>3. QED
    BY <2>1, <2>2, Words
<1>4. Class!LoopEnds
  <2> SUFFICES ASSUME pc = "loop", Class!InReach PROVE rounded_size > 0
    BY DEF Class!LoopEnds
  <2>1. variant \in Class!Variants /\ Top(variant) \in Nat /\ Two[Top(variant)] \in Nat
    BY Doublings, TwoStep DEF LoopSound
  <2>2. request \in Nat /\ Wanted = request /\ request <= Two[Top(variant)]
    BY InReachMeans
  <2>3. ~Lost
    BY <2>1, <2>2 DEF Lost
  <2>4. Counts
    BY <2>3 DEF LoopSound
  <2>5. exponent \in Nat
    BY <2>1, <2>4 DEF Counts
  <2>6. Two[exponent] \in Nat \ {0}
    BY <2>5, TwoStep
  <2>7. QED
    BY <2>4, <2>6 DEF Counts
<1>5. QED
  BY <1>1, <1>2, <1>3, <1>4 DEF ClassFits

(* Of every request: each front end computes ceil(log2), refuses what its  *)
(* classes do not hold and only that, and takes slots that hold the request, *)
(* where its words do not overflow and only there; elsewhere the loop does *)
(* not end or the slots are too small.                                     *)
THEOREM ClassesCorrect == Spec => []ClassFits
<1>1. QED
  BY InitLoop, StepLoop, LoopAnswers, PTL DEF Spec

-----------------------------------------------------------------------------
(* Pointer arithmetic *)

(* A fancy pointer has moved as far as the pointer beside it. *)
Reached(x) ==
  /\ index[x] \in 0 .. Length
  /\ offset[x] = First + index[x] * size

(* The inductive invariant. *)
WalkSound ==
  /\ size \in ObjectSizes
  /\ index \in [Walk!Pointers -> Int] /\ offset \in [Walk!Pointers -> Int]
  /\ \A x \in Walk!Pointers : Reached(x)
  /\ result \in Int /\ expected \in Int
  /\ Walk!DifferenceExact

(* What is assumed of the array. *)
LEMMA WalkConstants ==
  /\ WordLimit \in Nat /\ Length \in Nat /\ First \in Nat
  /\ ObjectSizes \subseteq Nat \ {0}
  /\ \A s \in ObjectSizes : First + s * Length < WordLimit
BY ReachAssumption DEF Walk!WalkAssumption

(* An offset in the array is in reach. *)
LEMMA OffsetFits ==
  ASSUME NEW s \in ObjectSizes, NEW i \in 0 .. Length
  PROVE  /\ i * s \in Nat /\ First + i * s \in Nat
         /\ First + i * s < WordLimit
         /\ Walk!Word(First + i * s) = First + i * s
         /\ Walk!Signed(First + i * s) = First + i * s
<1>1. s \in Nat \ {0} /\ WordLimit \in Nat /\ Length \in Nat /\ First \in Nat
      /\ First + s * Length < WordLimit
  BY WalkConstants
<1>2. PICK z \in Nat : Length = i + z
  <2>1. Length - i \in Nat /\ Length = i + (Length - i)
    BY <1>1
  <2>2. QED
    BY <2>1
<1>3. s * (i + z) = i * s + z * s /\ z * s \in Nat /\ i * s \in Nat
  BY <1>1
<1>4. First + i * s \in Nat /\ First + i * s < WordLimit
  BY <1>1, <1>2, <1>3
<1> DEFINE v == First + i * s
<1>5. v \in Nat /\ v < WordLimit
  BY <1>4
<1> HIDE DEF v
<1>6. Walk!Word(v) = v /\ Walk!Signed(v) = v
  BY <1>1, <1>5 DEF Walk!Word, Walk!Signed
<1>7. QED
  BY <1>3, <1>4, <1>6 DEF v

(* Addresses, equality and order agree with those of pointers. *)
LEMMA WalkAnswers == WalkSound => Walk!WalksLikePointers
<1> SUFFICES ASSUME WalkSound, NEW x \in Walk!Pointers, NEW y \in Walk!Pointers
             PROVE  /\ Walk!Signed(offset[x]) = First + index[x] * size
                    /\ (offset[x] = offset[y]) <=> (index[x] = index[y])
                    /\ Walk!Less(x, y) <=> index[x] < index[y]
  BY DEF Walk!WalksLikePointers
<1>1. PICK i \in 0 .. Length : i = index[x] /\ offset[x] = First + i * size
  BY DEF WalkSound, Reached
<1>2. PICK j \in 0 .. Length : j = index[y] /\ offset[y] = First + j * size
  BY DEF WalkSound, Reached
<1>3. size \in ObjectSizes /\ size \in Nat \ {0} /\ First \in Nat /\ Length \in Nat
  BY WalkConstants DEF WalkSound
<1>4. /\ Walk!Signed(offset[x]) = First + i * size
      /\ Walk!Signed(offset[y]) = First + j * size
      /\ i * size \in Nat /\ j * size \in Nat
  BY <1>1, <1>2, <1>3, OffsetFits
<1>5. i \in Int /\ j \in Int
  BY <1>3
<1>6. i < j => i * size + size <= j * size
  BY <1>3, <1>5, Multiples
<1>7. j < i => j * size + size <= i * size
  BY <1>3, <1>5, Multiples
<1>8. i < j \/ j < i \/ i = j
  BY <1>5
<1>9. /\ (First + i * size = First + j * size) <=> i = j
      /\ First + i * size < First + j * size <=> i < j
  <2> DEFINE u == i * size
  <2> DEFINE v == j * size
  <2>1. u \in Nat /\ v \in Nat /\ (i = j => u = v)
        /\ (i < j => u + size <= v) /\ (j < i => v + size <= u)
    BY <1>4, <1>6, <1>7
  <2> HIDE DEF u, v
  <2>2. (First + u = First + v <=> i = j) /\ (First + u < First + v <=> i < j)
    BY <1>3, <1>5, <1>8, <2>1
  <2>3. QED
    BY <2>2 DEF u, v
<1>10. QED
  BY <1>1, <1>2, <1>4, <1>9 DEF Walk!Less

LEMMA InitWalk == Init => WalkSound
<1> SUFFICES ASSUME Walk!Init PROVE WalkSound
  BY DEF Init
<1>1. size \in Nat \ {0} /\ First \in Nat /\ Length \in Nat /\ 0 * size = 0
  BY WalkConstants DEF Walk!Init
<1>2. \A x \in Walk!Pointers : Reached(x)
  BY <1>1 DEF Walk!Init, Reached
<1>3. QED
  BY <1>1, <1>2 DEF WalkSound, Walk!Init, Walk!DifferenceExact

(* A pointer moves by n objects. *)
LEMMA StepMove ==
  ASSUME WalkSound, NEW x \in Walk!Pointers, NEW n \in -Length .. Length, Walk!Move(x, n)
  PROVE  WalkSound'
<1>1. /\ size \in ObjectSizes /\ size \in Nat \ {0} /\ First \in Nat /\ Length \in Nat
      /\ index[x] \in 0 .. Length /\ offset[x] = First + index[x] * size
  BY WalkConstants DEF WalkSound, Reached
<1>2. PICK i \in 0 .. Length : i = index[x] + n
  BY DEF Walk!Move, Walk!Within
<1>3. /\ index' = [index EXCEPT ![x] = i]
      /\ offset' = [offset EXCEPT ![x] = Walk!Word(offset[x] + n * size)]
      /\ size' = size /\ result' = result /\ expected' = expected
  BY <1>2 DEF Walk!Move
<1>4. offset[x] + n * size = First + i * size
  BY <1>1, <1>2
<1>5. Walk!Word(offset[x] + n * size) = First + i * size
  BY <1>1, <1>4, OffsetFits
<1>6. offset' = [offset EXCEPT ![x] = First + i * size]
  BY <1>3, <1>5
<1>7. First + i * size \in Int /\ i \in Int
  BY <1>1
<1>8. ASSUME NEW y \in Walk!Pointers PROVE Reached(y)'
  <2>1. CASE y = x
    BY <1>3, <1>6, <2>1 DEF WalkSound, Reached
  <2>2. CASE y # x
    BY <1>3, <1>6, <2>2 DEF WalkSound, Reached
  <2>3. QED
    BY <2>1, <2>2
<1>9. /\ index' \in [Walk!Pointers -> Int] /\ offset' \in [Walk!Pointers -> Int]
  BY <1>3, <1>6, <1>7 DEF WalkSound
<1>10. size' \in ObjectSizes /\ result' \in Int /\ expected' \in Int /\ Walk!DifferenceExact'
  BY <1>3 DEF WalkSound, Walk!DifferenceExact
<1>11. QED
  BY <1>8, <1>9, <1>10 DEF WalkSound

(* The difference of two places in the array, as fancy_pointer computes it. *)
LEMMA Differences ==
  ASSUME NEW s \in ObjectSizes, NEW i \in 0 .. Length, NEW j \in 0 .. Length, NEW q,
         q = Walk!Signed(Walk!Word((First + i * s) - (First + j * s)) \div s)
  PROVE  /\ q \in Int
         /\ (q = i - j) <=> (i - j >= 0 \/ s = 1)
<1>1. s \in Nat \ {0} /\ WordLimit \in Nat /\ Length \in Nat /\ First \in Nat
  BY WalkConstants
<1>2. CASE i >= j
  <2>1. PICK k \in 0 .. Length : k = i - j
    BY <1>1, <1>2
  <2>2. (First + i * s) - (First + j * s) = k * s
    BY <1>1, <2>1
  <2>3. k * s \in Nat /\ First + k * s < WordLimit
    BY OffsetFits
  <2>4. Walk!Word(k * s) = k * s
    <3> DEFINE v == k * s
    <3>1. v \in Nat /\ v < WordLimit
      BY <1>1, <2>3
    <3> HIDE DEF v
    <3>2. Walk!Word(v) = v
      BY <1>1, <3>1 DEF Walk!Word
    <3>3. QED
      BY <3>2 DEF v
  <2>5. (k * s) \div s = k
    <3>1. (k * s + 0) \div s = k /\ k * s + 0 = k * s
      <4>1. k \in Int /\ 0 \in Nat /\ 0 < s
        BY <1>1
      <4>2. QED
        BY <1>1, <2>3, <4>1, Division
    <3>2. QED
      BY <3>1
  <2>6. k <= k * s
    <3>1. PICK z \in Nat : s = 1 + z
      <4>1. s - 1 \in Nat /\ s = 1 + (s - 1)
        BY <1>1
      <4>2. QED
        BY <4>1
    <3>2. k * (1 + z) = k + k * z /\ k * z >= 0
      BY <1>1
    <3>3. QED
      BY <1>1, <3>1, <3>2
  <2>7. k < WordLimit
    BY <1>1, <2>3, <2>6
  <2>8. q = k
    <3>1. q = Walk!Signed(k)
      BY <2>2, <2>4, <2>5
    <3>2. QED
      BY <2>7, <3>1 DEF Walk!Signed
  <2>9. i \in Int /\ j \in Int /\ k \in Int
    BY <1>1
  <2>10. i - j >= 0
    BY <1>2, <2>9
  <2>11. q \in Int /\ q = i - j
    BY <2>1, <2>8, <2>9
  <2>12. QED
    BY <2>10, <2>11
<1>3. CASE i < j
  <2>1. PICK k \in 0 .. Length : k = j - i /\ k > 0
    BY <1>1, <1>3
  <2>2. (First + i * s) - (First + j * s) = -(k * s)
    BY <1>1, <2>1
  <2>3. k * s \in Nat /\ First + k * s < WordLimit /\ 0 * s + s <= k * s
    BY <1>1, <2>1, OffsetFits, Multiples
  <2> DEFINE w == 2 * WordLimit - k * s
  <2>4. w \in Nat /\ w < 2 * WordLimit /\ w > WordLimit
    BY <1>1, <2>3
  <2>5. Walk!Word(-(k * s)) = w
    <3>1. -(k * s) = (-1) * (2 * WordLimit) + w
      BY <1>1, <2>3
    <3>2. 2 * WordLimit \in Nat \ {0}
      BY <1>1, <2>4
    <3> HIDE DEF w
    <3>3. ((-1) * (2 * WordLimit) + w) % (2 * WordLimit) = w
      BY <2>4, <3>2, Division
    <3>4. QED
      BY <3>1, <3>3 DEF Walk!Word
  <2>6. q = Walk!Signed(w \div s)
    BY <2>2, <2>5
  <2>7. CASE s = 1
    <3>1. w \div s = w /\ k * s = k
      BY <2>4, <2>7
    <3>2. q = w - 2 * WordLimit
      BY <1>1, <2>4, <2>6, <3>1 DEF Walk!Signed
    <3>3. QED
      BY <1>1, <2>1, <2>7, <3>1, <3>2
  <2>8. CASE s # 1
    <3> HIDE DEF w
    <3>1. PICK d \in Int : d = w \div s
      BY <1>1, <2>4
    <3>2. PICK r \in Nat : w = d * s + r /\ d >= 0
      <4>1. w % s \in Nat /\ w = (w \div s) * s + (w % s)
        BY <1>1, <2>4
      <4>2. w \div s >= 0
        BY <1>1, <2>4
      <4>3. QED
        BY <3>1, <4>1, <4>2
    <3>3. d < WordLimit
      <4>1. PICK z \in Nat : s = 2 + z
        <5>1. s - 2 \in Nat /\ s = 2 + (s - 2)
          BY <1>1, <2>8
        <5>2. QED
          BY <5>1
      <4>2. d * (2 + z) = 2 * d + d * z /\ d * z >= 0
        BY <3>2
      <4>3. QED
        BY <1>1, <2>4, <3>2, <4>1, <4>2
    <3>4. q = d
      BY <2>6, <3>1, <3>3 DEF Walk!Signed
    <3>5. QED
      BY <1>1, <1>3, <2>8, <3>2, <3>4
  <2>9. QED
    BY <2>7, <2>8
<1>4. QED
  BY <1>1, <1>2, <1>3

(* The difference of two fancy pointers. *)
LEMMA StepSubtract ==
  ASSUME WalkSound, NEW x \in Walk!Pointers, NEW y \in Walk!Pointers, Walk!Subtract(x, y)
  PROVE  WalkSound'
<1>1. PICK i \in 0 .. Length : i = index[x] /\ offset[x] = First + i * size
  BY DEF WalkSound, Reached
<1>2. PICK j \in 0 .. Length : j = index[y] /\ offset[y] = First + j * size
  BY DEF WalkSound, Reached
<1>3. size \in ObjectSizes
  BY DEF WalkSound
<1>4. /\ result' = Walk!Signed(Walk!Word((First + i * size) - (First + j * size)) \div size)
      /\ expected' = i - j
      /\ UNCHANGED <<size, offset, index>>
  BY <1>1, <1>2 DEF Walk!Subtract, Walk!Difference
<1>5. /\ result' \in Int
      /\ (result' = i - j) <=> (i - j >= 0 \/ size = 1)
  BY <1>3, <1>4, Differences
<1>6. i - j \in Int
  BY WalkConstants
<1>7. QED
  BY <1>4, <1>5, <1>6 DEF WalkSound, Reached, Walk!DifferenceExact

LEMMA StillWalk == WalkSound /\ UNCHANGED walkVars => WalkSound'
BY DEF walkVars, WalkSound, Reached, Walk!DifferenceExact

LEMMA StepWalk ==
  WalkSound /\ [Next]_<<part, classVars, layoutVars, fancyVars, walkVars>> => WalkSound'
<1> SUFFICES ASSUME WalkSound,
                    [Next]_<<part, classVars, layoutVars, fancyVars, walkVars>>
             PROVE  WalkSound'
  OBVIOUS
<1>1. CASE Walk!Next
  <2>1. ASSUME NEW x \in Walk!Pointers, NEW n \in -Length .. Length, Walk!Move(x, n)
        PROVE  WalkSound'
    BY <2>1, StepMove
  <2>2. "p" \in Walk!Pointers /\ "q" \in Walk!Pointers
    BY DEF Walk!Pointers
  <2>3. QED
    BY <1>1, <2>1, <2>2, StepSubtract DEF Walk!Next
<1>2. CASE UNCHANGED walkVars
  BY <1>2, StillWalk
<1>3. QED
  BY <1>1, <1>2 DEF Next

-----------------------------------------------------------------------------
(* Fancy pointers *)

(* The powers of two of the instance are those of the lemmas. *)
LEMMA FancyTwo == Fancy!Two = Two
BY DEF Fancy!Two, Two

(* What is assumed of the constants. *)
LEMMA FancyConstants ==
  /\ MaxClass \in Nat /\ FancyBlockSlots \in Nat \ {0}
  /\ Nothing \notin Fancy!Ids
  /\ Nothing \notin [blocks : Nat, num_blocks : Nat, used : SUBSET (Nat \X Nat)]
BY NothingAssumption DEF Fancy!FancyAssumption, Fancy!Ids, Fancy!Classes

(* Sizes are positive. *)
LEMMA FancySizes ==
  ASSUME NEW id \in Fancy!Ids
  PROVE  /\ id = <<id[1], id[2]>> /\ id[1] \in Allocators /\ id[2] \in 0 .. MaxClass
         /\ id[2] \in Nat /\ id[2] + 1 \in 1 .. MaxClass + 1
         /\ Fancy!Size(id) = Two[id[2]] /\ Fancy!Size(id) \in Nat \ {0}
         /\ Fancy!BlockSize(id) = FancyBlockSlots * Two[id[2]]
         /\ Fancy!BlockSize(id) \in Nat \ {0}
<1>1. id = <<id[1], id[2]>> /\ id[1] \in Allocators /\ id[2] \in 0 .. MaxClass
  BY DEF Fancy!Ids, Fancy!Classes
<1>2. id[2] \in Nat /\ id[2] + 1 \in 1 .. MaxClass + 1
  BY <1>1, FancyConstants
<1>3. Fancy!Size(id) = Two[id[2]] /\ Fancy!Size(id) \in Nat \ {0}
  BY <1>2, FancyTwo, TwoStep DEF Fancy!Size
<1>4. Fancy!BlockSize(id) = FancyBlockSlots * Two[id[2]] /\ Fancy!BlockSize(id) \in Nat \ {0}
  BY <1>3, FancyConstants DEF Fancy!BlockSize
<1>5. QED
  BY <1>1, <1>2, <1>3, <1>4

(* Where a slot lies in an array, and that its offset leads back to it.    *)
LEMMA FancySlots ==
  ASSUME NEW id \in Fancy!Ids, NEW n \in Nat \ {0}, NEW x \in Fancy!Slots(n)
  PROVE  /\ x = <<x[1], x[2]>> /\ x[1] \in Nat /\ x[2] \in Nat
         /\ Fancy!Offset(id, x) \in Nat \ {0}
         /\ Fancy!ArraySize(id, n) \in Nat
         /\ Fancy!Offset(id, x) < Fancy!ArraySize(id, n)
         /\ Fancy!Offset(id, x) \div Fancy!BlockSize(id) = x[1]
         /\ (Fancy!Offset(id, x) % Fancy!BlockSize(id)) \div Fancy!Size(id) = x[2]
<1>1. /\ x = <<x[1], x[2]>> /\ x[1] \in Nat /\ x[1] < n
      /\ x[2] \in Nat /\ x[2] > 0 /\ x[2] < FancyBlockSlots
  BY FancyConstants DEF Fancy!Slots
<1>2. PICK k \in Nat, m \in Nat \ {0} : k = x[1] /\ m = x[2]
  BY <1>1
<1>3. PICK s \in Nat \ {0}, d \in Nat \ {0} :
        s = Fancy!Size(id) /\ d = Fancy!BlockSize(id) /\ d = FancyBlockSlots * s
  BY FancySizes
<1>4. m * s \in Nat /\ m * s >= s /\ m * s < d
  <2>1. 0 < m /\ m < FancyBlockSlots /\ FancyBlockSlots \in Int /\ m \in Int
    BY <1>1, <1>2, FancyConstants
  <2>2. 0 * s + s <= m * s
    BY <2>1, Multiples
  <2>3. m * s + s <= FancyBlockSlots * s
    BY <2>1, Multiples
  <2>4. m * s \in Nat
    OBVIOUS
  <2>5. QED
    BY <1>3, <2>2, <2>3, <2>4
<1>5. k * d \in Nat /\ n * d \in Nat /\ k * d + d <= n * d
  <2>1. k < n /\ k \in Int /\ n \in Int
    BY <1>1, <1>2
  <2>2. k * d + d <= n * d
    BY <2>1, Multiples
  <2>3. QED
    BY <2>2
<1>6. Fancy!Offset(id, x) = k * d + m * s /\ Fancy!ArraySize(id, n) = n * d
  BY <1>2, <1>3 DEF Fancy!Offset, Fancy!ArraySize
<1>7. (k * d + m * s) \div d = k /\ (k * d + m * s) % d = m * s
  <2>1. k \in Int
    OBVIOUS
  <2>2. QED
    BY <1>4, <2>1, Division
<1>8. (m * s) \div s = m
  <2>1. m \in Int /\ 0 \in Nat /\ 0 < s
    OBVIOUS
  <2>2. (m * s + 0) \div s = m
    BY <2>1, Division
  <2>3. m * s + 0 = m * s
    BY <1>4
  <2>4. QED
    BY <2>2, <2>3
<1>9. k * d + m * s \in Nat \ {0} /\ k * d + m * s < n * d
  BY <1>4, <1>5
<1>10. QED
  BY <1>1, <1>2, <1>3, <1>5, <1>6, <1>7, <1>8, <1>9

-----------------------------------------------------------------------------
(* Tables and slabs.  These are stated for any table and slabs, for the    *)
(* pointer that allocate() returns is made after the change.               *)
Slabs == [blocks : Nat, num_blocks : Nat \ {0}, used : SUBSET (Nat \X Nat)]

(* The allocators and classes with a slab, and the array of one. *)
Having(sl) == {id \in Fancy!Ids : sl[id] # Nothing}

ArrayOf(sl, id) ==
  Fancy!Bytes(sl[id].blocks, Fancy!ArraySize(id, sl[id].num_blocks))

(* No other allocator has a slab of the class. *)
AloneIn(sl, id) == \A a \in Allocators \ {id[1]} : sl[<<a, id[2]>>] = Nothing

(* Every entry is of a slab of its class; arrays do not overlap; and the   *)
(* only slab of a class has its entry.                                     *)
Arranged(tbl, sl) ==
  /\ tbl \in [0 .. MaxClass + 1 -> Fancy!Ids \cup {Nothing}]
  /\ sl \in [Fancy!Ids -> Slabs \cup {Nothing}]
  /\ tbl[0] = Nothing
  /\ \A i \in 1 .. MaxClass + 1 :
       tbl[i] # Nothing => tbl[i] \in Having(sl) /\ tbl[i][2] = i - 1
  /\ \A id, jd \in Having(sl) : id # jd => ArrayOf(sl, id) \cap ArrayOf(sl, jd) = {}
  /\ \A id \in Having(sl) : AloneIn(sl, id) => tbl[id[2] + 1] = id

(* What an array is. *)
LEMMA ArrayBytes ==
  ASSUME NEW tbl, NEW sl, Arranged(tbl, sl), NEW id \in Having(sl)
  PROVE  /\ id \in Fancy!Ids /\ sl[id] \in Slabs
         /\ sl[id].blocks \in Nat /\ sl[id].num_blocks \in Nat \ {0}
         /\ Fancy!ArraySize(id, sl[id].num_blocks) \in Nat \ {0}
         /\ \A x \in Int : x \in ArrayOf(sl, id) <=>
              /\ sl[id].blocks <= x
              /\ x < sl[id].blocks + Fancy!ArraySize(id, sl[id].num_blocks)
<1>1. id \in Fancy!Ids /\ sl[id] \in Slabs
  BY DEF Having, Arranged
<1>2. sl[id].blocks \in Nat /\ sl[id].num_blocks \in Nat \ {0}
  BY <1>1 DEF Slabs
<1>3. Fancy!ArraySize(id, sl[id].num_blocks) \in Nat \ {0}
  BY <1>1, <1>2, FancySizes DEF Fancy!ArraySize
<1>4. QED
  BY <1>1, <1>2, <1>3 DEF ArrayOf, Fancy!Bytes

(* Only the entry of a slab matches the address of one of its slots: the   *)
(* byte before is in the array as well, so no other array can end there.   *)
LEMMA MatchesSlot ==
  ASSUME NEW tbl, NEW sl, Arranged(tbl, sl), NEW id \in Having(sl),
         NEW x \in Fancy!Slots(sl[id].num_blocks),
         NEW p, p = sl[id].blocks + Fancy!Offset(id, x)
  PROVE  /\ p \in ArrayOf(sl, id)
         /\ Fancy!Matches(p, tbl, sl) = IF tbl[id[2] + 1] = id THEN {id[2] + 1} ELSE {}
<1>1. /\ id \in Fancy!Ids /\ sl[id].blocks \in Nat /\ sl[id].num_blocks \in Nat \ {0}
      /\ Fancy!ArraySize(id, sl[id].num_blocks) \in Nat
  BY ArrayBytes
<1>2. /\ Fancy!Offset(id, x) \in Nat \ {0}
      /\ Fancy!Offset(id, x) < Fancy!ArraySize(id, sl[id].num_blocks)
  BY <1>1, FancySlots
<1>3. /\ p \in Int /\ p - 1 \in Int
      /\ p \in ArrayOf(sl, id) /\ p - 1 \in ArrayOf(sl, id)
  <2>1. /\ p \in Int /\ p - 1 \in Int /\ sl[id].blocks <= p - 1 /\ sl[id].blocks <= p
        /\ p < sl[id].blocks + Fancy!ArraySize(id, sl[id].num_blocks)
        /\ p - 1 < sl[id].blocks + Fancy!ArraySize(id, sl[id].num_blocks)
    BY <1>1, <1>2
  <2>2. QED
    BY <2>1, ArrayBytes
<1>4. ASSUME NEW i \in Fancy!Matches(p, tbl, sl)
      PROVE  tbl[i] = id /\ i = id[2] + 1
  <2>1. /\ i \in 1 .. MaxClass + 1 /\ tbl[i] # Nothing
        /\ sl[tbl[i]].blocks <= p
        /\ p <= sl[tbl[i]].blocks + Fancy!ArraySize(tbl[i], sl[tbl[i]].num_blocks)
    BY DEF Fancy!Matches
  <2>2. PICK jd \in Having(sl) : jd = tbl[i] /\ jd[2] = i - 1
    BY <2>1 DEF Arranged
  <2>3. /\ sl[jd].blocks \in Nat
        /\ Fancy!ArraySize(jd, sl[jd].num_blocks) \in Nat \ {0}
        /\ jd \in Fancy!Ids
    BY ArrayBytes
  <2>4. p \in ArrayOf(sl, jd) \/ p - 1 \in ArrayOf(sl, jd)
    <3>1. CASE p < sl[jd].blocks + Fancy!ArraySize(jd, sl[jd].num_blocks)
      BY <1>3, <2>1, <2>2, <3>1, ArrayBytes
    <3>2. CASE ~ (p < sl[jd].blocks + Fancy!ArraySize(jd, sl[jd].num_blocks))
      <4>1. /\ sl[jd].blocks <= p - 1
            /\ p - 1 < sl[jd].blocks + Fancy!ArraySize(jd, sl[jd].num_blocks)
        BY <1>3, <2>1, <2>2, <2>3, <3>2
      <4>2. QED
        BY <1>3, <4>1, ArrayBytes
    <3>3. QED
      BY <3>1, <3>2
  <2>5. jd = id
    BY <1>3, <2>4 DEF Arranged
  <2>6. i \in Int
    BY <2>1, FancyConstants
  <2>7. QED
    BY <2>2, <2>5, <2>6
<1>5. ASSUME tbl[id[2] + 1] = id
      PROVE  id[2] + 1 \in Fancy!Matches(p, tbl, sl)
  <2>1. id[2] + 1 \in 1 .. MaxClass + 1 /\ id # Nothing
    BY <1>1, FancySizes, FancyConstants
  <2>2. /\ sl[id].blocks <= p
        /\ p <= sl[id].blocks + Fancy!ArraySize(id, sl[id].num_blocks)
    BY <1>1, <1>2
  <2>3. QED
    BY <1>5, <2>1, <2>2 DEF Fancy!Matches
<1>6. QED
  BY <1>3, <1>4, <1>5

(* The least of one number is that number. *)
LEMMA MinOne == ASSUME NEW i \in Int PROVE Fancy!Min({i}) = i
BY DEF Fancy!Min

(* The pointer that names a slot by its slab's entry. *)
Named(id, x) == [s_id |-> id[2] + 1, offset |-> Fancy!Offset(id, x)]

(* pointer_to of a slot. *)
LEMMA PointerOfSlot ==
  ASSUME NEW tbl, NEW sl, Arranged(tbl, sl), NEW id \in Having(sl),
         NEW x \in Fancy!Slots(sl[id].num_blocks),
         NEW p, p = sl[id].blocks + Fancy!Offset(id, x)
  PROVE  IF tbl[id[2] + 1] = id THEN Fancy!PointerTo(p, tbl, sl) = Named(id, x)
         ELSE Fancy!PointerTo(p, tbl, sl) = [s_id |-> 0, offset |-> p]
<1>1. CASE tbl[id[2] + 1] = id
  <2>1. Fancy!Matches(p, tbl, sl) = {id[2] + 1}
    BY <1>1, MatchesSlot
  <2>2. id[2] + 1 \in Int /\ sl[id].blocks \in Nat /\ sl[id].num_blocks \in Nat \ {0}
        /\ id \in Fancy!Ids
    BY ArrayBytes, FancySizes
  <2>3. Fancy!Min(Fancy!Matches(p, tbl, sl)) = id[2] + 1
    BY <2>1, <2>2, MinOne
  <2>4. p - sl[id].blocks = Fancy!Offset(id, x)
    BY <2>2, FancySlots
  <2>5. QED
    BY <1>1, <2>1, <2>3, <2>4 DEF Fancy!PointerTo, Named
<1>2. CASE tbl[id[2] + 1] # id
  <2>1. Fancy!Matches(p, tbl, sl) = {}
    BY <1>2, MatchesSlot
  <2>2. QED
    BY <1>2, <2>1 DEF Fancy!PointerTo
<1>3. QED
  BY <1>1, <1>2

(* An offset right behind an array of slabs of the class of entry i. *)
Behind(i, o) == \E n \in Nat \ {0} : o = n * (FancyBlockSlots * Two[i - 1])

(* pointer_to of an object outside the arrays. *)
LEMMA PointerOutside ==
  ASSUME NEW tbl, NEW sl, Arranged(tbl, sl), NEW p \in Nat,
         \A id \in Having(sl) : p \notin ArrayOf(sl, id)
  PROVE  \/ Fancy!PointerTo(p, tbl, sl) = [s_id |-> 0, offset |-> p]
         \/ \E i \in 1 .. MaxClass + 1, o \in Int :
              /\ tbl[i] # Nothing /\ Behind(i, o)
              /\ Fancy!PointerTo(p, tbl, sl) = [s_id |-> i, offset |-> o]
<1>1. CASE Fancy!Matches(p, tbl, sl) = {}
  BY <1>1 DEF Fancy!PointerTo
<1>2. CASE Fancy!Matches(p, tbl, sl) # {}
  <2> DEFINE i == Fancy!Min(Fancy!Matches(p, tbl, sl))
  <2>1. i \in Fancy!Matches(p, tbl, sl)
    <3>1. Fancy!Matches(p, tbl, sl) \in SUBSET Nat
      BY FancyConstants DEF Fancy!Matches
    <3>2. Fancy!Min(Fancy!Matches(p, tbl, sl)) = Min(Fancy!Matches(p, tbl, sl))
      BY DEF Fancy!Min, Min
    <3>3. QED
      BY <1>2, <3>1, <3>2, MinIsLeast
  <2>2. Fancy!PointerTo(p, tbl, sl) = [s_id |-> i, offset |-> p - sl[tbl[i]].blocks]
    BY <1>2 DEF Fancy!PointerTo
  <2> HIDE DEF i
  <2>3. /\ i \in 1 .. MaxClass + 1 /\ tbl[i] # Nothing
        /\ sl[tbl[i]].blocks <= p
        /\ p <= sl[tbl[i]].blocks + Fancy!ArraySize(tbl[i], sl[tbl[i]].num_blocks)
    BY <2>1 DEF Fancy!Matches
  <2>4. PICK jd \in Having(sl) : jd = tbl[i] /\ jd[2] = i - 1
    BY <2>3 DEF Arranged
  <2>5. /\ sl[jd].blocks \in Nat /\ jd \in Fancy!Ids
        /\ sl[jd].num_blocks \in Nat \ {0}
        /\ Fancy!ArraySize(jd, sl[jd].num_blocks) \in Nat \ {0}
    BY ArrayBytes
  <2>6. p - sl[jd].blocks = Fancy!ArraySize(jd, sl[jd].num_blocks)
    <3>1. ~ (p < sl[jd].blocks + Fancy!ArraySize(jd, sl[jd].num_blocks))
      BY <2>3, <2>4, ArrayBytes
    <3>2. QED
      BY <2>3, <2>4, <2>5, <3>1
  <2>7. Fancy!ArraySize(jd, sl[jd].num_blocks) = sl[jd].num_blocks * (FancyBlockSlots * Two[i - 1])
    BY <2>4, <2>5, FancySizes DEF Fancy!ArraySize
  <2>8. Behind(i, p - sl[jd].blocks) /\ p - sl[jd].blocks \in Int
    BY <2>5, <2>6, <2>7 DEF Behind
  <2>9. QED
    BY <2>2, <2>3, <2>4, <2>8
<1>3. QED
  BY <1>1, <1>2

-----------------------------------------------------------------------------
(* The invariant *)

(* And the arrays are the memory. *)
Settled(tbl, sl, mem) ==
  Arranged(tbl, sl) /\ mem = {ArrayOf(sl, id) : id \in Having(sl)}

(* A client's pointer names the entry of its class and the offset; only    *)
(* where another slab of the class has the entry it is the bare address.   *)
HeldIn(hs, sl) ==
  \A h \in hs :
    /\ h = [id |-> h.id, slot |-> h.slot, fp |-> h.fp]
    /\ h.id \in Having(sl)
    /\ h.slot \in Fancy!Slots(sl[h.id].num_blocks) /\ h.slot \in sl[h.id].used
    /\ h.fp = Named(h.id, h.slot) \/ (h.fp.s_id = 0 /\ ~AloneIn(sl, h.id))

(* No slot is given twice; and what is in use is what the client holds,    *)
(* as long as its allocator exists.                                        *)
HeldOnce(hs) == \A g, h \in hs : g.id = h.id /\ g.slot = h.slot => g = h

UsedIn(hs, sl, gn) ==
  \A id \in Having(sl) :
    id[1] \notin gn => sl[id].used = {h.slot : h \in {g \in hs : g.id = id}}

(* A pointer to another object is its address, or names an array that it   *)
(* lay right behind when the pointer was made.                             *)
OutsideIn(os, tbl) ==
  \A o \in os :
    \/ o.fp = [s_id |-> 0, offset |-> o.address]
    \/ \E i \in 1 .. MaxClass + 1, d \in Int :
         tbl[i] # Nothing /\ Behind(i, d) /\ o.fp = [s_id |-> i, offset |-> d]

(* The inductive invariant. *)
FancySound ==
  /\ Settled(slab_lookup_table, slabs, memory)
  /\ HeldIn(held, slabs) /\ HeldOnce(held) /\ UsedIn(held, slabs, gone)
  /\ OutsideIn(outside, slab_lookup_table)

(* Slabs of which one has other slots in use. *)
Using(sl, id, U) == [sl EXCEPT ![id].used = U]

(* It changes nothing else. *)
LEMMA UsedOnly ==
  ASSUME NEW tbl, NEW sl, NEW mem, Settled(tbl, sl, mem), NEW id \in Having(sl),
         NEW U \in SUBSET (Nat \X Nat), NEW s2, s2 = Using(sl, id, U)
  PROVE  /\ Having(s2) = Having(sl)
         /\ \A j \in Having(sl) : /\ ArrayOf(s2, j) = ArrayOf(sl, j)
                                 /\ s2[j].blocks = sl[j].blocks
                                 /\ s2[j].num_blocks = sl[j].num_blocks
                                 /\ s2[j].used = IF j = id THEN U ELSE sl[j].used
         /\ \A j \in Fancy!Ids : AloneIn(s2, j) <=> AloneIn(sl, j)
         /\ Settled(tbl, s2, mem)
<1>1. /\ Arranged(tbl, sl) /\ id \in Fancy!Ids /\ sl[id] \in Slabs /\ sl[id] # Nothing
      /\ sl \in [Fancy!Ids -> Slabs \cup {Nothing}]
  BY DEF Having, Arranged, Settled
<1>2. PICK r \in Slabs : r = [sl[id] EXCEPT !.used = U] /\ r # Nothing
  <2>1. [sl[id] EXCEPT !.used = U] \in Slabs
    BY <1>1 DEF Slabs
  <2>2. Nothing \notin Slabs
    BY FancyConstants DEF Slabs
  <2>3. QED
    BY <2>1, <2>2
<1>3. r.blocks = sl[id].blocks /\ r.num_blocks = sl[id].num_blocks /\ r.used = U
  BY <1>1, <1>2 DEF Slabs
<1>4. s2 = [sl EXCEPT ![id] = r]
  BY <1>2 DEF Using
<1>5. s2 \in [Fancy!Ids -> Slabs \cup {Nothing}] /\ s2[id] = r
      /\ \A j \in Fancy!Ids : j # id => s2[j] = sl[j]
  BY <1>1, <1>4
<1>6. \A j \in Fancy!Ids : s2[j] = Nothing <=> sl[j] = Nothing
  BY <1>1, <1>2, <1>5
<1>7. Having(s2) = Having(sl)
  BY <1>6 DEF Having
<1>8. \A j \in Having(sl) : /\ s2[j].blocks = sl[j].blocks
                          /\ s2[j].num_blocks = sl[j].num_blocks
                          /\ s2[j].used = IF j = id THEN U ELSE sl[j].used
  BY <1>3, <1>5 DEF Having
<1>9. \A j \in Having(sl) : ArrayOf(s2, j) = ArrayOf(sl, j)
  BY <1>8 DEF ArrayOf
<1>10. \A j \in Fancy!Ids : AloneIn(s2, j) <=> AloneIn(sl, j)
  <2>1. \A j \in Fancy!Ids : \A a \in Allocators : <<a, j[2]>> \in Fancy!Ids
    BY DEF Fancy!Ids
  <2>2. QED
    BY <1>6, <2>1 DEF AloneIn
<1>11. Arranged(tbl, s2)
  <2>1. \A j \in Having(sl) : j \in Fancy!Ids
    BY DEF Having
  <2>2. QED
    BY <1>1, <1>5, <1>7, <1>9, <1>10, <2>1 DEF Arranged
<1>12. Settled(tbl, s2, mem)
  BY <1>7, <1>9, <1>11 DEF Settled
<1>13. QED
  BY <1>7, <1>8, <1>9, <1>10, <1>12

(* The end of allocate(). *)
LEMMA TakeSound ==
  ASSUME NEW tbl, NEW sl, NEW id \in Having(sl), Fancy!Take(id, tbl, sl),
         Settled(tbl, sl, memory'), HeldIn(held, sl), HeldOnce(held), UsedIn(held, sl, gone),
         OutsideIn(outside, tbl), outside' = outside, gone' = gone
  PROVE  FancySound'
<1>1. PICK x \in Fancy!Slots(sl[id].num_blocks) \ sl[id].used :
        /\ slab_lookup_table' = tbl
        /\ slabs' = [sl EXCEPT ![id].used = @ \cup {x}]
        /\ held' = held \cup
             {[id |-> id, slot |-> x,
               fp |-> Fancy!PointerTo(sl[id].blocks + Fancy!Offset(id, x), tbl, sl)]}
  BY DEF Fancy!Take
<1>2. /\ Arranged(tbl, sl) /\ id \in Fancy!Ids /\ sl[id] \in Slabs
      /\ sl[id].num_blocks \in Nat \ {0}
  BY ArrayBytes DEF Settled
<1> DEFINE U == sl[id].used \cup {x}
<1>3. U \in SUBSET (Nat \X Nat) /\ slabs' = [sl EXCEPT ![id].used = U]
  <2>1. x \in Nat \X Nat
    BY <1>2, FancySlots
  <2>2. sl[id].used \in SUBSET (Nat \X Nat)
    BY <1>2 DEF Slabs
  <2>3. QED
    BY <1>1, <2>1, <2>2
<1>4. /\ Having(slabs') = Having(sl)
      /\ \A j \in Having(sl) : /\ slabs'[j].num_blocks = sl[j].num_blocks
                              /\ slabs'[j].used = IF j = id THEN U ELSE sl[j].used
      /\ \A j \in Fancy!Ids : AloneIn(slabs', j) <=> AloneIn(sl, j)
      /\ Settled(tbl, slabs', memory')
  <2> DEFINE s2 == slabs'
  <2>1. s2 = Using(sl, id, U)
    BY <1>3 DEF Using
  <2> HIDE DEF s2, U
  <2>2. /\ Having(s2) = Having(sl)
        /\ \A j \in Having(sl) : /\ s2[j].num_blocks = sl[j].num_blocks
                                /\ s2[j].used = IF j = id THEN U ELSE sl[j].used
        /\ \A j \in Fancy!Ids : AloneIn(s2, j) <=> AloneIn(sl, j)
        /\ Settled(tbl, s2, memory')
    <3>1. Settled(tbl, sl, memory') /\ U \in SUBSET (Nat \X Nat) /\ id \in Having(sl)
      BY <1>3
    <3>2. Having(s2) = Having(sl)
      BY <2>1, <3>1, UsedOnly
    <3>3. Settled(tbl, s2, memory')
      BY <2>1, <3>1, UsedOnly
    <3>4. \A j \in Fancy!Ids : AloneIn(s2, j) <=> AloneIn(sl, j)
      BY <2>1, <3>1, UsedOnly
    <3>5. ASSUME NEW j \in Having(sl)
          PROVE  /\ s2[j].num_blocks = sl[j].num_blocks
                 /\ s2[j].used = IF j = id THEN U ELSE sl[j].used
      BY <2>1, <3>1, UsedOnly
    <3>6. QED
      BY <3>2, <3>3, <3>4, <3>5
  <2>3. QED
    BY <2>2 DEF s2
<1> DEFINE fp == Fancy!PointerTo(sl[id].blocks + Fancy!Offset(id, x), tbl, sl)
<1> DEFINE new == [id |-> id, slot |-> x, fp |-> fp]
<1>5. fp = Named(id, x) \/ (fp.s_id = 0 /\ ~AloneIn(sl, id))
  <2>1. AloneIn(sl, id) => tbl[id[2] + 1] = id
    BY <1>2 DEF Arranged
  <2>2. IF tbl[id[2] + 1] = id THEN fp = Named(id, x)
        ELSE fp = [s_id |-> 0, offset |-> sl[id].blocks + Fancy!Offset(id, x)]
    BY <1>2, PointerOfSlot
  <2> HIDE DEF fp
  <2>3. QED
    BY <2>1, <2>2
<1>6. held' = held \cup {new}
  BY <1>1
<1> HIDE DEF fp
<1>7. new.id = id /\ new.slot = x /\ new.fp = fp
      /\ new = [id |-> new.id, slot |-> new.slot, fp |-> new.fp]
  OBVIOUS
<1> HIDE DEF new
<1>8. \A h \in held : h.id = id => h.slot # x
  BY <1>1 DEF HeldIn
<1>9. HeldIn(held', slabs')
  <2>1. ASSUME NEW h \in held
        PROVE  /\ h = [id |-> h.id, slot |-> h.slot, fp |-> h.fp]
               /\ h.id \in Having(slabs')
               /\ h.slot \in Fancy!Slots(slabs'[h.id].num_blocks)
               /\ h.slot \in slabs'[h.id].used
               /\ h.fp = Named(h.id, h.slot) \/ (h.fp.s_id = 0 /\ ~AloneIn(slabs', h.id))
    <3>1. /\ h = [id |-> h.id, slot |-> h.slot, fp |-> h.fp]
          /\ h.id \in Having(sl) /\ h.id \in Fancy!Ids
          /\ h.slot \in Fancy!Slots(sl[h.id].num_blocks) /\ h.slot \in sl[h.id].used
          /\ h.fp = Named(h.id, h.slot) \/ (h.fp.s_id = 0 /\ ~AloneIn(sl, h.id))
      BY DEF HeldIn, Having
    <3>2. QED
      BY <1>4, <3>1
  <2>2. /\ new.id \in Having(slabs')
        /\ new.slot \in Fancy!Slots(slabs'[new.id].num_blocks)
        /\ new.slot \in slabs'[new.id].used
        /\ new.fp = Named(new.id, new.slot) \/ (new.fp.s_id = 0 /\ ~AloneIn(slabs', new.id))
    <3>1. id \in Having(slabs') /\ new.id \in Having(slabs')
      BY <1>4, <1>7
    <3>2. /\ slabs'[id].num_blocks = sl[id].num_blocks /\ slabs'[id].used = U
          /\ AloneIn(slabs', id) <=> AloneIn(sl, id)
      BY <1>2, <1>4
    <3>3. new.slot \in Fancy!Slots(slabs'[new.id].num_blocks)
      BY <1>1, <1>7, <3>2
    <3>4. new.slot \in slabs'[new.id].used
      BY <1>7, <3>2
    <3>5. new.fp = Named(new.id, new.slot) \/ (new.fp.s_id = 0 /\ ~AloneIn(slabs', new.id))
      BY <1>5, <1>7, <3>2
    <3>6. QED
      BY <3>1, <3>3, <3>4, <3>5
  <2>3. QED
    BY <1>6, <1>7, <2>1, <2>2 DEF HeldIn
<1>10. HeldOnce(held')
  BY <1>6, <1>7, <1>8 DEF HeldOnce
<1>11. UsedIn(held', slabs', gone')
  <2> SUFFICES ASSUME NEW j \in Having(sl), j[1] \notin gone
               PROVE  slabs'[j].used = {h.slot : h \in {g \in held' : g.id = j}}
    BY <1>4 DEF UsedIn
  <2>1. sl[j].used = {h.slot : h \in {g \in held : g.id = j}}
    BY DEF UsedIn
  <2>2. CASE j = id
    <3>1. slabs'[j].used = sl[j].used \cup {x}
      BY <1>4, <2>2
    <3>2. {h.slot : h \in {g \in held' : g.id = j}}
            = {h.slot : h \in {g \in held : g.id = j}} \cup {x}
      BY <1>6, <1>7, <2>2
    <3>3. QED
      BY <2>1, <3>1, <3>2
  <2>3. CASE j # id
    <3>1. {g \in held' : g.id = j} = {g \in held : g.id = j}
      BY <1>6, <1>7, <2>3
    <3>2. QED
      BY <1>4, <2>1, <2>3, <3>1
  <2>4. QED
    BY <2>2, <2>3
<1>12. OutsideIn(outside', slab_lookup_table')
  BY <1>1
<1>13. Settled(slab_lookup_table', slabs', memory')
  BY <1>1, <1>4
<1>14. QED
  BY <1>9, <1>10, <1>11, <1>12, <1>13 DEF FancySound

(* A new array, of a new slab or of one that has grown. *)
SlabAt(id, b, n, U) ==
  [slabs EXCEPT ![id] = [blocks |-> b, num_blocks |-> n, used |-> U]]

(* Only the slab id differs, and no slab becomes the only one of its class. *)
Differs(sl, id, n, U) ==
  /\ Having(sl) = Having(slabs) \cup {id}
  /\ \A j \in Having(slabs) : j # id => sl[j] = slabs[j]
  /\ sl[id].num_blocks = n /\ sl[id].used = U
  /\ \A j \in Fancy!Ids : AloneIn(sl, j) => AloneIn(slabs, j)

(* The arrays stay apart, and the entry of the class is this slab's. *)
LEMMA Placing ==
  ASSUME FancySound, NEW id \in Fancy!Ids, NEW b \in Nat, NEW n \in Nat \ {0},
         NEW U \in SUBSET (Nat \X Nat),
         Fancy!Bytes(b, Fancy!ArraySize(id, n)) \cap UNION memory = {}
  PROVE  /\ Differs(SlabAt(id, b, n, U), id, n, U)
         /\ id \in Having(slabs) =>
              Settled(Fancy!Registered(id), SlabAt(id, b, n, U),
                      (memory \ {ArrayOf(slabs, id)})
                        \cup {Fancy!Bytes(b, Fancy!ArraySize(id, n))})
         /\ id \notin Having(slabs) =>
              Settled(Fancy!Registered(id), SlabAt(id, b, n, U),
                      memory \cup {Fancy!Bytes(b, Fancy!ArraySize(id, n))})
         /\ OutsideIn(outside, Fancy!Registered(id))
<1> DEFINE sl == SlabAt(id, b, n, U)
<1> DEFINE r == [blocks |-> b, num_blocks |-> n, used |-> U]
<1> DEFINE new == Fancy!Bytes(b, Fancy!ArraySize(id, n))
<1> DEFINE tbl == Fancy!Registered(id)
<1>1. /\ Arranged(slab_lookup_table, slabs)
      /\ slabs \in [Fancy!Ids -> Slabs \cup {Nothing}]
      /\ slab_lookup_table \in [0 .. MaxClass + 1 -> Fancy!Ids \cup {Nothing}]
      /\ memory = {ArrayOf(slabs, j) : j \in Having(slabs)}
  BY DEF FancySound, Settled, Arranged
<1>2. r \in Slabs /\ r # Nothing /\ r.blocks = b /\ r.num_blocks = n
  BY FancyConstants DEF Slabs
<1>3. /\ sl[id] = r /\ \A j \in Fancy!Ids : j # id => sl[j] = slabs[j]
      /\ sl \in [Fancy!Ids -> Slabs \cup {Nothing}]
  BY <1>1, <1>2 DEF SlabAt
<1>4. /\ id[2] + 1 \in 1 .. MaxClass + 1 /\ id[2] + 1 \in 0 .. MaxClass + 1
      /\ id[2] + 1 # 0 /\ id # Nothing /\ id = <<id[1], id[2]>> /\ id[2] \in Nat
      /\ id[1] \in Allocators
  BY FancySizes, FancyConstants
<1>5. /\ tbl[id[2] + 1] = id
      /\ \A i \in 0 .. MaxClass + 1 : i # id[2] + 1 => tbl[i] = slab_lookup_table[i]
      /\ tbl \in [0 .. MaxClass + 1 -> Fancy!Ids \cup {Nothing}]
  BY <1>1, <1>4 DEF Fancy!Registered
<1> HIDE DEF r, tbl, sl
<1>6. Having(sl) = Having(slabs) \cup {id}
  BY <1>2, <1>3 DEF Having
<1>7. /\ ArrayOf(sl, id) = new
      /\ \A j \in Having(slabs) : j # id => ArrayOf(sl, j) = ArrayOf(slabs, j)
  BY <1>2, <1>3 DEF ArrayOf, Having
<1>8. \A j \in Having(slabs) : ArrayOf(slabs, j) \cap new = {}
  BY <1>1
<1> HIDE DEF new
<1>9. \A j \in Fancy!Ids : AloneIn(sl, j) => AloneIn(slabs, j)
  <2> SUFFICES ASSUME NEW j \in Fancy!Ids, AloneIn(sl, j),
                      NEW a \in Allocators \ {j[1]}
               PROVE  slabs[<<a, j[2]>>] = Nothing
    BY DEF AloneIn
  <2>1. <<a, j[2]>> \in Fancy!Ids /\ sl[<<a, j[2]>>] = Nothing
    BY DEF AloneIn, Fancy!Ids
  <2>2. QED
    BY <1>2, <1>3, <2>1
<1>10. \A j, k \in Having(sl) : j # k => ArrayOf(sl, j) \cap ArrayOf(sl, k) = {}
  BY <1>1, <1>6, <1>7, <1>8 DEF Arranged
<1>11. ASSUME NEW j \in Having(sl), AloneIn(sl, j)
       PROVE  tbl[j[2] + 1] = j
  <2>1. CASE j = id
    BY <1>5, <2>1
  <2>2. CASE j # id
    <3>1. j \in Having(slabs) /\ j \in Fancy!Ids
      BY <1>6, <2>2 DEF Having
    <3>2. j = <<j[1], j[2]>> /\ j[2] + 1 \in 0 .. MaxClass + 1 /\ j[2] \in Nat
      BY <3>1, FancySizes, FancyConstants
    <3>3. j[2] # id[2]
      <4>1. j[2] = id[2] => id[1] # j[1]
        BY <1>4, <2>2, <3>2
      <4>2. j[2] = id[2] => sl[<<id[1], id[2]>>] = Nothing
        BY <1>4, <1>11, <4>1 DEF AloneIn
      <4>3. QED
        BY <1>2, <1>3, <1>4, <4>2
    <3>4. tbl[j[2] + 1] = slab_lookup_table[j[2] + 1]
      BY <1>4, <1>5, <3>2, <3>3
    <3>5. slab_lookup_table[j[2] + 1] = j
      BY <1>1, <1>9, <1>11, <3>1 DEF Arranged
    <3>6. QED
      BY <3>4, <3>5
  <2>3. QED
    BY <2>1, <2>2
<1>12. ASSUME NEW i \in 1 .. MaxClass + 1, tbl[i] # Nothing
       PROVE  tbl[i] \in Having(sl) /\ tbl[i][2] = i - 1
  <2>1. CASE i = id[2] + 1
    <3>1. tbl[i] = id /\ id \in Having(sl)
      BY <1>5, <1>6, <2>1
    <3>2. id[2] = i - 1
      BY <1>4, <2>1
    <3>3. QED
      BY <3>1, <3>2
  <2>2. CASE i # id[2] + 1
    <3>1. tbl[i] = slab_lookup_table[i]
      BY <1>5, <2>2, FancyConstants
    <3>2. QED
      BY <1>1, <1>6, <1>12, <3>1 DEF Arranged
  <2>3. QED
    BY <2>1, <2>2
<1>13. tbl[0] = Nothing
  <2>1. 0 \in 0 .. MaxClass + 1
    BY FancyConstants
  <2>2. QED
    BY <1>1, <1>4, <1>5, <2>1 DEF Arranged
<1>14. Arranged(tbl, sl)
  BY <1>3, <1>5, <1>10, <1>11, <1>12, <1>13 DEF Arranged
<1>15. id \in Having(slabs) => \A j \in Having(slabs) :
         j # id => ArrayOf(slabs, j) # ArrayOf(slabs, id)
  <2> SUFFICES ASSUME id \in Having(slabs), NEW j \in Having(slabs), j # id
               PROVE  ArrayOf(slabs, j) # ArrayOf(slabs, id)
    OBVIOUS
  <2>1. ArrayOf(slabs, j) \cap ArrayOf(slabs, id) = {}
    BY <1>1 DEF Arranged
  <2>2. slabs[id].blocks \in ArrayOf(slabs, id)
    <3>1. /\ slabs[id].blocks \in Nat
          /\ Fancy!ArraySize(id, slabs[id].num_blocks) \in Nat \ {0}
      BY <1>1, ArrayBytes
    <3>2. /\ slabs[id].blocks \in Int /\ slabs[id].blocks <= slabs[id].blocks
          /\ slabs[id].blocks < slabs[id].blocks + Fancy!ArraySize(id, slabs[id].num_blocks)
      BY <3>1
    <3>3. QED
      BY <1>1, <3>2, ArrayBytes
  <2>3. QED
    BY <2>1, <2>2
<1>16. {ArrayOf(sl, j) : j \in Having(sl)}
         = {ArrayOf(slabs, j) : j \in Having(slabs) \ {id}} \cup {new}
  <2>1. ASSUME NEW j \in Having(sl)
        PROVE  ArrayOf(sl, j) \in {ArrayOf(slabs, k) : k \in Having(slabs) \ {id}} \cup {new}
    BY <1>6, <1>7
  <2>2. new \in {ArrayOf(sl, j) : j \in Having(sl)}
    BY <1>6, <1>7
  <2> DEFINE Old == {ArrayOf(slabs, j) : j \in Having(slabs) \ {id}}
  <2> DEFINE All == {ArrayOf(sl, j) : j \in Having(sl)}
  <2>4. All \subseteq Old \cup {new}
    BY <2>1
  <2>5. Old \subseteq All
    <3>1. SUFFICES ASSUME NEW j \in Having(slabs) \ {id}
                   PROVE  ArrayOf(slabs, j) \in All
      <4> HIDE DEF All
      <4>1. QED
        OBVIOUS
    <3>2. j \in Having(sl) /\ ArrayOf(slabs, j) = ArrayOf(sl, j)
      BY <1>6, <1>7
    <3>3. QED
      BY <3>2
  <2>6. new \in All
    BY <2>2
  <2> HIDE DEF Old, All
  <2>7. All = Old \cup {new}
    BY <2>4, <2>5, <2>6
  <2>8. QED
    BY <2>7 DEF Old, All
<1>17. id \in Having(slabs) =>
         memory \ {ArrayOf(slabs, id)} = {ArrayOf(slabs, j) : j \in Having(slabs) \ {id}}
  BY <1>1, <1>15
<1>18. id \notin Having(slabs) =>
         memory = {ArrayOf(slabs, j) : j \in Having(slabs) \ {id}}
  BY <1>1
<1>19. id \in Having(slabs) => Settled(tbl, sl, (memory \ {ArrayOf(slabs, id)}) \cup {new})
  BY <1>14, <1>16, <1>17 DEF Settled
<1>20. id \notin Having(slabs) => Settled(tbl, sl, memory \cup {new})
  BY <1>14, <1>16, <1>18 DEF Settled
<1>21. OutsideIn(outside, tbl)
  <2>1. \A i \in 1 .. MaxClass + 1 : slab_lookup_table[i] # Nothing => tbl[i] # Nothing
    <3>1. \A i \in 1 .. MaxClass + 1 : i \in 0 .. MaxClass + 1
      BY FancyConstants
    <3>2. QED
      BY <1>4, <1>5, <3>1
  <2>2. QED
    BY <2>1 DEF FancySound, OutsideIn
<1>22. \A j \in Having(slabs) : j # id => sl[j] = slabs[j]
  BY <1>3 DEF Having
<1>23. sl[id].num_blocks = n /\ sl[id].used = U
  BY <1>3 DEF r
<1>24. QED
  BY <1>6, <1>9, <1>19, <1>20, <1>21, <1>22, <1>23 DEF tbl, new, sl, Differs
(* Where no slot comes into use or goes, what the client holds stays right. *)
LEMMA HeldStill ==
  ASSUME FancySound, NEW sl, NEW id,
         Having(sl) = Having(slabs) \cup {id},
         id \notin Having(slabs) => sl[id].used = {},
         \A j \in Having(slabs) :
           /\ sl[j].used = slabs[j].used
           /\ Fancy!Slots(slabs[j].num_blocks) \subseteq Fancy!Slots(sl[j].num_blocks),
         \A j \in Fancy!Ids : AloneIn(sl, j) => AloneIn(slabs, j)
  PROVE  HeldIn(held, sl) /\ UsedIn(held, sl, gone)
<1>1. ASSUME NEW h \in held
      PROVE  /\ h = [id |-> h.id, slot |-> h.slot, fp |-> h.fp]
             /\ h.id \in Having(slabs) /\ h.id \in Fancy!Ids
             /\ h.slot \in Fancy!Slots(slabs[h.id].num_blocks) /\ h.slot \in slabs[h.id].used
             /\ h.fp = Named(h.id, h.slot) \/ (h.fp.s_id = 0 /\ ~AloneIn(slabs, h.id))
  BY DEF FancySound, HeldIn, Having
<1>2. HeldIn(held, sl)
  <2>1. ASSUME NEW h \in held
        PROVE  /\ h.id \in Having(sl)
               /\ h.slot \in Fancy!Slots(sl[h.id].num_blocks) /\ h.slot \in sl[h.id].used
    BY <1>1
  <2>2. ASSUME NEW h \in held
        PROVE  h.fp = Named(h.id, h.slot) \/ (h.fp.s_id = 0 /\ ~AloneIn(sl, h.id))
    BY <1>1
  <2>3. QED
    BY <1>1, <2>1, <2>2 DEF HeldIn
<1>3. ASSUME NEW j \in Having(sl), j[1] \notin gone
      PROVE  sl[j].used = {h.slot : h \in {g \in held : g.id = j}}
  <2>1. CASE j \in Having(slabs)
    BY <1>3, <2>1 DEF FancySound, UsedIn
  <2>2. CASE j \notin Having(slabs)
    <3>1. {g \in held : g.id = j} = {}
      BY <1>1, <2>2
    <3>2. {h.slot : h \in {g \in held : g.id = j}} = {}
      BY <3>1
    <3>3. j = id
      BY <2>2
    <3>4. QED
      BY <2>2, <3>2, <3>3
  <2>3. QED
    BY <2>1, <2>2
<1>4. QED
  BY <1>2, <1>3 DEF UsedIn

(* What posix_memalign returns overlaps no array. *)
LEMMA PlacesFree ==
  ASSUME NEW id, NEW n, NEW b \in Fancy!Places(id, n)
  PROVE  b \in Nat /\ Fancy!Bytes(b, Fancy!ArraySize(id, n)) \cap UNION memory = {}
<1>1. /\ b \in 1 .. MaxAddress
      /\ Fancy!Bytes(b, Fancy!ArraySize(id, n)) \subseteq (1 .. MaxAddress) \ Fancy!Taken
  BY DEF Fancy!Places
<1>2. UNION memory \subseteq Fancy!Taken
  BY DEF Fancy!Taken
<1>3. QED
  BY <1>1, <1>2

(* allocate() that makes the slab of a class. *)
LEMMA StepFirst ==
  ASSUME FancySound, NEW id \in Fancy!Ids, Fancy!AllocateFirst(id)
  PROVE  FancySound'
<1>1. PICK n \in Nat \ {0}, U \in SUBSET (Nat \X Nat) : n = 1 /\ U = {}
  <2>1. 1 \in Nat \ {0}
    OBVIOUS
  <2>2. {} \in SUBSET (Nat \X Nat)
    OBVIOUS
  <2>3. QED
    BY <2>1, <2>2
<1>2. PICK b \in Fancy!Places(id, n) :
        /\ memory' = memory \cup {Fancy!Bytes(b, Fancy!ArraySize(id, n))}
        /\ Fancy!Take(id, Fancy!Registered(id), SlabAt(id, b, n, U))
  BY <1>1 DEF Fancy!AllocateFirst, SlabAt
<1>3. slabs[id] = Nothing /\ outside' = outside /\ gone' = gone /\ id \notin Having(slabs)
  BY DEF Fancy!AllocateFirst, Having
<1>4. b \in Nat /\ Fancy!Bytes(b, Fancy!ArraySize(id, n)) \cap UNION memory = {}
  BY PlacesFree
<1> DEFINE sl == SlabAt(id, b, n, U)
<1>5. /\ Differs(sl, id, n, U)
      /\ id \notin Having(slabs) =>
           Settled(Fancy!Registered(id), sl,
                   memory \cup {Fancy!Bytes(b, Fancy!ArraySize(id, n))})
      /\ OutsideIn(outside, Fancy!Registered(id))
  BY <1>4, Placing
<1> HIDE DEF sl
<1>6. HeldIn(held, sl) /\ UsedIn(held, sl, gone)
  <2>1. \A j \in Having(slabs) : sl[j] = slabs[j]
    BY <1>3, <1>5 DEF Differs
  <2>2. QED
    BY <1>1, <1>5, <2>1, HeldStill DEF Differs
<1>7. Settled(Fancy!Registered(id), sl, memory') /\ id \in Having(sl) /\ HeldOnce(held)
  BY <1>2, <1>3, <1>5 DEF FancySound, Differs
<1>8. Fancy!Take(id, Fancy!Registered(id), sl)
  BY <1>2 DEF sl
<1>9. QED
  BY <1>3, <1>5, <1>6, <1>7, <1>8, TakeSound

(* allocate() from a slab with a free slot. *)
LEMMA StepNext ==
  ASSUME FancySound, NEW id \in Fancy!Ids, Fancy!AllocateNext(id)
  PROVE  FancySound'
<1>1. /\ Fancy!Take(id, slab_lookup_table, slabs)
      /\ memory' = memory /\ outside' = outside /\ gone' = gone /\ id \in Having(slabs)
  BY DEF Fancy!AllocateNext, Fancy!Exists, Having
<1>2. /\ Settled(slab_lookup_table, slabs, memory') /\ HeldIn(held, slabs) /\ HeldOnce(held)
      /\ UsedIn(held, slabs, gone) /\ OutsideIn(outside, slab_lookup_table)
  BY <1>1 DEF FancySound
<1>3. QED
  BY <1>1, <1>2, TakeSound

(* allocate() from a full slab, whose array moves and doubles. *)
LEMMA StepResized ==
  ASSUME FancySound, NEW id \in Fancy!Ids, Fancy!AllocateResized(id)
  PROVE  FancySound'
<1>1. /\ slabs[id] # Nothing /\ id \in Having(slabs) /\ outside' = outside /\ gone' = gone
      /\ Arranged(slab_lookup_table, slabs)
  BY DEF Fancy!AllocateResized, Fancy!Exists, Having, FancySound, Settled
<1>2. /\ slabs[id] \in Slabs /\ slabs \in [Fancy!Ids -> Slabs \cup {Nothing}]
      /\ slabs[id].num_blocks \in Nat \ {0}
  BY <1>1, ArrayBytes DEF Arranged
<1>3. PICK n \in Nat \ {0}, m \in Nat \ {0}, U \in SUBSET (Nat \X Nat) :
        n = slabs[id].num_blocks /\ m = 2 * n /\ U = slabs[id].used
  BY <1>2 DEF Slabs
<1>4. PICK b \in Fancy!Places(id, m) :
        /\ memory' = (memory \ {Fancy!Array(id)}) \cup {Fancy!Bytes(b, Fancy!ArraySize(id, m))}
        /\ Fancy!Take(id, Fancy!Registered(id), Fancy!Resized(id, b))
  BY <1>3 DEF Fancy!AllocateResized
<1>5. b \in Nat /\ Fancy!Bytes(b, Fancy!ArraySize(id, m)) \cap UNION memory = {}
  BY PlacesFree
<1>6. Fancy!Resized(id, b) = SlabAt(id, b, m, U)
  <2>1. PICK k \in Nat, l \in Nat \ {0}, u \in SUBSET (Nat \X Nat) :
          slabs[id] = [blocks |-> k, num_blocks |-> l, used |-> u]
    BY <1>2 DEF Slabs
  <2>2. l = n /\ u = U
    BY <1>3, <2>1
  <2> DEFINE r == [blocks |-> k, num_blocks |-> l, used |-> u]
  <2>3. [[r EXCEPT !.num_blocks = m] EXCEPT !.blocks = b]
          = [blocks |-> b, num_blocks |-> m, used |-> u]
    <3>1. [r EXCEPT !.num_blocks = m] = [blocks |-> k, num_blocks |-> m, used |-> u]
      OBVIOUS
    <3>2. [[blocks |-> k, num_blocks |-> m, used |-> u] EXCEPT !.blocks = b]
            = [blocks |-> b, num_blocks |-> m, used |-> u]
      OBVIOUS
    <3> HIDE DEF r
    <3>3. QED
      BY <3>1, <3>2
  <2> HIDE DEF r
  <2>4. Fancy!Resized(id, b)
          = [slabs EXCEPT ![id] = [[r EXCEPT !.num_blocks = m] EXCEPT !.blocks = b]]
    <3>1. slabs[id] = r
      BY <2>1 DEF r
    <3>2. QED
      BY <1>2, <1>3, <3>1 DEF Fancy!Resized
  <2>5. QED
    BY <2>2, <2>3, <2>4 DEF SlabAt
<1> DEFINE sl == SlabAt(id, b, m, U)
<1>7. /\ Differs(sl, id, m, U)
      /\ id \in Having(slabs) =>
           Settled(Fancy!Registered(id), sl,
                   (memory \ {ArrayOf(slabs, id)})
                     \cup {Fancy!Bytes(b, Fancy!ArraySize(id, m))})
      /\ OutsideIn(outside, Fancy!Registered(id))
  BY <1>5, Placing
<1> HIDE DEF sl
<1>8. HeldIn(held, sl) /\ UsedIn(held, sl, gone)
  <2>1. Fancy!Slots(n) \subseteq Fancy!Slots(m)
    BY <1>3 DEF Fancy!Slots
  <2>2. \A j \in Having(slabs) :
          /\ sl[j].used = slabs[j].used
          /\ Fancy!Slots(slabs[j].num_blocks) \subseteq Fancy!Slots(sl[j].num_blocks)
    BY <1>3, <1>7, <2>1 DEF Differs
  <2>3. QED
    BY <1>1, <1>7, <2>2, HeldStill DEF Differs
<1>9. Settled(Fancy!Registered(id), sl, memory') /\ id \in Having(sl) /\ HeldOnce(held)
  <2>1. Fancy!Array(id) = ArrayOf(slabs, id)
    BY DEF Fancy!Array, ArrayOf
  <2>2. QED
    BY <1>1, <1>4, <1>7, <2>1 DEF FancySound, Differs
<1>10. Fancy!Take(id, Fancy!Registered(id), sl)
  BY <1>4, <1>6 DEF sl
<1>11. QED
  BY <1>1, <1>7, <1>8, <1>9, <1>10, TakeSound

(* A pointer that leads to its slot makes deallocate() free that slot. *)
LEMMA StepFree ==
  ASSUME FancySound, NEW h \in held, Fancy!Deallocate(h)
  PROVE  FancySound'
<1>1. /\ Arranged(slab_lookup_table, slabs) /\ Settled(slab_lookup_table, slabs, memory)
      /\ HeldIn(held, slabs) /\ HeldOnce(held)
      /\ UsedIn(held, slabs, gone) /\ OutsideIn(outside, slab_lookup_table)
  BY DEF FancySound, Settled
<1>2. /\ h.id \in Having(slabs) /\ h.id \in Fancy!Ids
      /\ h.slot \in Fancy!Slots(slabs[h.id].num_blocks)
  BY <1>1 DEF HeldIn, Having
<1> DEFINE x == Fancy!ToAddress(h.fp)
<1>3. x = slabs[h.id].blocks + Fancy!Offset(h.id, h.slot)
  BY DEF Fancy!Deallocate, Fancy!Resolves, Fancy!Current
<1>4. PICK id \in Fancy!Ids :
        /\ Fancy!Exists(id) /\ x \in Fancy!Array(id)
        /\ slabs' = [slabs EXCEPT ![id].used =
              @ \ {<<(x - slabs[id].blocks) \div Fancy!BlockSize(id),
                     ((x - slabs[id].blocks) % Fancy!BlockSize(id)) \div Fancy!Size(id)>>}]
        /\ held' = held \ {h}
        /\ UNCHANGED <<slab_lookup_table, memory, outside, gone>>
  BY DEF Fancy!Deallocate
<1> HIDE DEF x
<1>5. id = h.id
  <2>1. x \in ArrayOf(slabs, h.id)
    BY <1>1, <1>2, <1>3, MatchesSlot
  <2>2. x \in ArrayOf(slabs, id) /\ id \in Having(slabs)
    BY <1>4 DEF Fancy!Array, ArrayOf, Fancy!Exists, Having
  <2>3. QED
    BY <1>1, <1>2, <2>1, <2>2 DEF Arranged
<1>6. /\ slabs[id].blocks \in Nat /\ slabs[id].num_blocks \in Nat \ {0} /\ slabs[id] \in Slabs
  BY <1>1, <1>2, <1>5, ArrayBytes
<1>7. x - slabs[id].blocks = Fancy!Offset(id, h.slot)
  <2>1. Fancy!Offset(id, h.slot) \in Nat
    BY <1>2, <1>5, <1>6, FancySlots
  <2>2. QED
    BY <1>3, <1>5, <1>6, <2>1
<1>8. <<Fancy!Offset(id, h.slot) \div Fancy!BlockSize(id),
        (Fancy!Offset(id, h.slot) % Fancy!BlockSize(id)) \div Fancy!Size(id)>> = h.slot
  <2>1. /\ h.slot = <<h.slot[1], h.slot[2]>>
        /\ Fancy!Offset(id, h.slot) \div Fancy!BlockSize(id) = h.slot[1]
        /\ (Fancy!Offset(id, h.slot) % Fancy!BlockSize(id)) \div Fancy!Size(id) = h.slot[2]
    BY <1>2, <1>5, <1>6, FancySlots
  <2>2. QED
    BY <2>1
<1> DEFINE U == slabs[id].used \ {h.slot}
<1>9. slabs' = Using(slabs, id, U)
  BY <1>4, <1>7, <1>8 DEF Using
<1>10. U \in SUBSET (Nat \X Nat) /\ id \in Having(slabs)
  BY <1>2, <1>5, <1>6 DEF Slabs
<1> HIDE DEF U
<1>11. /\ Having(slabs') = Having(slabs)
       /\ \A j \in Having(slabs) :
            /\ slabs'[j].num_blocks = slabs[j].num_blocks
            /\ slabs'[j].used = IF j = id THEN U ELSE slabs[j].used
       /\ \A j \in Fancy!Ids : AloneIn(slabs', j) <=> AloneIn(slabs, j)
       /\ Settled(slab_lookup_table, slabs', memory)
  BY <1>1, <1>9, <1>10, UsedOnly
<1>12. HeldIn(held', slabs')
  <2> SUFFICES ASSUME NEW g \in held \ {h}
               PROVE  /\ g = [id |-> g.id, slot |-> g.slot, fp |-> g.fp]
                      /\ g.id \in Having(slabs')
                      /\ g.slot \in Fancy!Slots(slabs'[g.id].num_blocks)
                      /\ g.slot \in slabs'[g.id].used
                      /\ g.fp = Named(g.id, g.slot) \/ (g.fp.s_id = 0 /\ ~AloneIn(slabs', g.id))
    BY <1>4 DEF HeldIn
  <2>1. /\ g = [id |-> g.id, slot |-> g.slot, fp |-> g.fp]
        /\ g.id \in Having(slabs) /\ g.id \in Fancy!Ids
        /\ g.slot \in Fancy!Slots(slabs[g.id].num_blocks) /\ g.slot \in slabs[g.id].used
        /\ g.fp = Named(g.id, g.slot) \/ (g.fp.s_id = 0 /\ ~AloneIn(slabs, g.id))
    BY <1>1 DEF HeldIn, Having
  <2>2. g.id = id => g.slot # h.slot
    BY <1>1, <1>5 DEF HeldOnce
  <2>3. g.slot \in slabs'[g.id].used
    BY <1>11, <2>1, <2>2 DEF U
  <2>4. g.fp = Named(g.id, g.slot) \/ (g.fp.s_id = 0 /\ ~AloneIn(slabs', g.id))
    BY <1>11, <2>1
  <2>5. QED
    BY <1>11, <2>1, <2>3, <2>4
<1>13. HeldOnce(held')
  BY <1>1, <1>4 DEF HeldOnce
<1>14. UsedIn(held', slabs', gone')
  <2> SUFFICES ASSUME NEW j \in Having(slabs), j[1] \notin gone
               PROVE  slabs'[j].used = {g.slot : g \in {k \in held \ {h} : k.id = j}}
    BY <1>4, <1>11 DEF UsedIn
  <2>1. slabs[j].used = {g.slot : g \in {k \in held : k.id = j}}
    BY <1>1 DEF UsedIn
  <2>2. CASE j = id
    <3>1. slabs'[j].used = slabs[j].used \ {h.slot}
      BY <1>11, <2>2 DEF U
    <3>2. \A g \in held \ {h} : g.id = j => g.slot # h.slot
      BY <1>1, <1>5, <2>2 DEF HeldOnce
    <3>3. {g.slot : g \in {k \in held \ {h} : k.id = j}}
            = {g.slot : g \in {k \in held : k.id = j}} \ {h.slot}
      BY <1>5, <2>2, <3>2
    <3>4. QED
      BY <2>1, <3>1, <3>3
  <2>3. CASE j # id
    <3>1. {k \in held \ {h} : k.id = j} = {k \in held : k.id = j}
      BY <1>5, <2>3
    <3>2. QED
      BY <1>11, <2>1, <2>3, <3>1
  <2>4. QED
    BY <2>2, <2>3
<1>15. QED
  BY <1>1, <1>4, <1>11, <1>12, <1>13, <1>14 DEF FancySound

(* A fancy pointer to an object outside the slabs. *)
LEMMA StepPoint ==
  ASSUME FancySound, Fancy!PointOutside
  PROVE  FancySound'
<1>1. /\ Arranged(slab_lookup_table, slabs) /\ memory = {ArrayOf(slabs, id) : id \in Having(slabs)}
      /\ OutsideIn(outside, slab_lookup_table)
  BY DEF FancySound, Settled
<1>2. /\ slab_lookup_table' = slab_lookup_table /\ slabs' = slabs /\ memory' = memory
      /\ held' = held /\ gone' = gone
  BY DEF Fancy!PointOutside
<1>3. PICK x \in (1 .. MaxAddress) \ Fancy!Taken :
        outside' = outside \cup
          {[address |-> x, fp |-> Fancy!PointerTo(x, slab_lookup_table, slabs)]}
  BY DEF Fancy!PointOutside
<1> DEFINE fp == Fancy!PointerTo(x, slab_lookup_table, slabs)
<1> DEFINE new == [address |-> x, fp |-> fp]
<1>4. x \in Nat /\ \A id \in Having(slabs) : x \notin ArrayOf(slabs, id)
  BY <1>1 DEF Fancy!Taken
<1>5. \/ fp = [s_id |-> 0, offset |-> x]
      \/ \E i \in 1 .. MaxClass + 1, d \in Int :
           /\ slab_lookup_table[i] # Nothing /\ Behind(i, d)
           /\ fp = [s_id |-> i, offset |-> d]
  BY <1>1, <1>4, PointerOutside
<1>6. outside' = outside \cup {new}
  BY <1>3
<1> HIDE DEF fp
<1>7. new.address = x /\ new.fp = fp
  OBVIOUS
<1> HIDE DEF new
<1>8. \/ new.fp = [s_id |-> 0, offset |-> new.address]
      \/ \E i \in 1 .. MaxClass + 1, d \in Int :
           /\ slab_lookup_table[i] # Nothing /\ Behind(i, d)
           /\ new.fp = [s_id |-> i, offset |-> d]
  BY <1>5, <1>7
<1>9. OutsideIn(outside', slab_lookup_table')
  BY <1>1, <1>2, <1>6, <1>8 DEF OutsideIn
<1>10. Settled(slab_lookup_table', slabs', memory')
  BY <1>2 DEF FancySound
<1>11. HeldIn(held', slabs') /\ HeldOnce(held') /\ UsedIn(held', slabs', gone')
  BY <1>2 DEF FancySound
<1>12. QED
  BY <1>9, <1>10, <1>11 DEF FancySound

LEMMA StepForget ==
  ASSUME FancySound, Fancy!ForgetOutside
  PROVE  FancySound'
<1>1. /\ slab_lookup_table' = slab_lookup_table /\ slabs' = slabs /\ memory' = memory
      /\ held' = held /\ gone' = gone /\ outside' \subseteq outside
  BY DEF Fancy!ForgetOutside
<1>2. OutsideIn(outside', slab_lookup_table')
  BY <1>1 DEF FancySound, OutsideIn
<1>3. QED
  BY <1>1, <1>2 DEF FancySound

(* A destroyed allocator leaves its arrays and entries behind. *)
LEMMA StepDestroy ==
  ASSUME FancySound, NEW a, Fancy!Destroy(a)
  PROVE  FancySound'
<1>1. /\ slab_lookup_table' = slab_lookup_table /\ slabs' = slabs /\ memory' = memory
      /\ held' = held /\ outside' = outside /\ gone \subseteq gone'
  BY DEF Fancy!Destroy
<1>2. UsedIn(held', slabs', gone')
  BY <1>1 DEF FancySound, UsedIn
<1>3. QED
  BY <1>1, <1>2 DEF FancySound

LEMMA StillFancy == FancySound /\ UNCHANGED fancyVars => FancySound'
<1> SUFFICES ASSUME FancySound, UNCHANGED fancyVars PROVE FancySound'
  OBVIOUS
<1>1. /\ slab_lookup_table' = slab_lookup_table /\ slabs' = slabs /\ memory' = memory
      /\ held' = held /\ outside' = outside /\ gone' = gone
  BY DEF fancyVars
<1>2. QED
  BY <1>1 DEF FancySound

LEMMA InitFancy == Init => FancySound
<1> SUFFICES ASSUME Fancy!Init PROVE FancySound
  BY DEF Init
<1>1. /\ slab_lookup_table = [i \in 0 .. MaxClass + 1 |-> Nothing]
      /\ slabs = [id \in Fancy!Ids |-> Nothing]
      /\ memory = {} /\ held = {} /\ outside = {} /\ gone = {}
  BY DEF Fancy!Init
<1>2. Having(slabs) = {}
  BY <1>1 DEF Having
<1>3. \A i \in 0 .. MaxClass + 1 : slab_lookup_table[i] = Nothing
  BY <1>1
<1>4. 0 \in 0 .. MaxClass + 1 /\ \A i \in 1 .. MaxClass + 1 : i \in 0 .. MaxClass + 1
  BY FancyConstants
<1>5. Arranged(slab_lookup_table, slabs)
  BY <1>1, <1>2, <1>3, <1>4 DEF Arranged
<1>6. memory = {ArrayOf(slabs, id) : id \in Having(slabs)}
  BY <1>1, <1>2
<1>7. /\ HeldIn(held, slabs) /\ HeldOnce(held) /\ UsedIn(held, slabs, gone)
      /\ OutsideIn(outside, slab_lookup_table)
  BY <1>1, <1>2 DEF HeldIn, HeldOnce, UsedIn, OutsideIn
<1>8. QED
  BY <1>5, <1>6, <1>7 DEF FancySound, Settled

LEMMA StepFancy ==
  FancySound /\ [Next]_<<part, classVars, layoutVars, fancyVars, walkVars>> => FancySound'
<1> SUFFICES ASSUME FancySound, Fancy!Next \/ UNCHANGED fancyVars
             PROVE  FancySound'
  BY DEF Next
<1>1. CASE Fancy!Next
  <2>1. ASSUME NEW id \in Fancy!Ids,
               Fancy!AllocateFirst(id) \/ Fancy!AllocateNext(id) \/ Fancy!AllocateResized(id)
        PROVE  FancySound'
    BY <2>1, StepFirst, StepNext, StepResized
  <2>2. ASSUME NEW h \in held, Fancy!Deallocate(h)
        PROVE  FancySound'
    BY <2>2, StepFree
  <2>3. ASSUME NEW a \in Allocators, Fancy!Destroy(a)
        PROVE  FancySound'
    BY <2>3, StepDestroy
  <2>4. CASE Fancy!Finished
    BY <2>4, StillFancy DEF Fancy!Finished, Fancy!vars, fancyVars
  <2>5. QED
    BY <1>1, <2>1, <2>2, <2>3, <2>4, StepPoint, StepForget DEF Fancy!Next
<1>2. CASE UNCHANGED fancyVars
  BY <1>2, StillFancy
<1>3. QED
  BY <1>1, <1>2

(* AloneIn is the model's Alone. *)
LEMMA AloneMeans == \A id : Fancy!Alone(id) <=> AloneIn(slabs, id)
BY DEF Fancy!Alone, AloneIn

(* The pointer of a client whose slab is the only one of its class. *)
LEMMA HeldAlone ==
  ASSUME FancySound, NEW h \in held, Fancy!Alone(h.id)
  PROVE  /\ h.id \in Having(slabs) /\ h.id \in Fancy!Ids
         /\ slabs[h.id].num_blocks \in Nat \ {0}
         /\ h.slot \in Fancy!Slots(slabs[h.id].num_blocks)
         /\ slab_lookup_table[h.id[2] + 1] = h.id
         /\ h.fp = Named(h.id, h.slot)
         /\ h.fp.s_id = h.id[2] + 1 /\ h.fp.offset = Fancy!Offset(h.id, h.slot)
<1>1. Arranged(slab_lookup_table, slabs) /\ HeldIn(held, slabs) /\ AloneIn(slabs, h.id)
  BY AloneMeans DEF FancySound, Settled
<1>2. /\ h.id \in Having(slabs) /\ h.slot \in Fancy!Slots(slabs[h.id].num_blocks)
      /\ h.fp = Named(h.id, h.slot)
  BY <1>1 DEF HeldIn
<1>3. h.id \in Fancy!Ids /\ slabs[h.id].num_blocks \in Nat \ {0}
  BY <1>1, <1>2, ArrayBytes
<1>4. slab_lookup_table[h.id[2] + 1] = h.id
  BY <1>1, <1>2 DEF Arranged
<1>5. h.fp.s_id = h.id[2] + 1 /\ h.fp.offset = Fancy!Offset(h.id, h.slot)
  BY <1>2 DEF Named
<1>6. QED
  BY <1>2, <1>3, <1>4, <1>5

(* It leads to its slot, and pointer_to makes it again. *)
LEMMA HeldResolves == FancySound => Fancy!SlotsResolve /\ Fancy!RoundTrip
<1> SUFFICES ASSUME FancySound PROVE Fancy!SlotsResolve /\ Fancy!RoundTrip
  OBVIOUS
<1>1. /\ Arranged(slab_lookup_table, slabs)
      /\ memory = {ArrayOf(slabs, id) : id \in Having(slabs)}
  BY DEF FancySound, Settled
<1>2. ASSUME NEW h \in held, Fancy!Alone(h.id)
      PROVE  /\ Fancy!Resolves(h) /\ Fancy!Current(h) \in UNION memory
             /\ Fancy!PointerTo(Fancy!Current(h), slab_lookup_table, slabs) = h.fp
  <2>1. /\ h.id \in Having(slabs) /\ h.id \in Fancy!Ids
        /\ h.slot \in Fancy!Slots(slabs[h.id].num_blocks)
        /\ slab_lookup_table[h.id[2] + 1] = h.id
        /\ h.fp = Named(h.id, h.slot)
        /\ h.fp.s_id = h.id[2] + 1 /\ h.fp.offset = Fancy!Offset(h.id, h.slot)
    BY <1>2, HeldAlone
  <2>2. Fancy!Resolves(h)
    <3>1. h.id # Nothing
      BY <2>1, FancyConstants
    <3>2. QED
      BY <2>1, <3>1 DEF Fancy!Resolves, Fancy!ToAddress, Fancy!Current
  <2>3. Fancy!Current(h) = slabs[h.id].blocks + Fancy!Offset(h.id, h.slot)
    BY DEF Fancy!Current
  <2>4. Fancy!Current(h) \in ArrayOf(slabs, h.id)
    BY <1>1, <2>1, <2>3, MatchesSlot
  <2>5. Fancy!PointerTo(Fancy!Current(h), slab_lookup_table, slabs) = Named(h.id, h.slot)
    BY <1>1, <2>1, <2>3, PointerOfSlot
  <2>6. QED
    BY <1>1, <2>1, <2>2, <2>4, <2>5
<1>3. QED
  BY <1>2 DEF Fancy!SlotsResolve, Fancy!RoundTrip

(* What is held is in use, and equal pointers are of equal slots. *)
LEMMA HeldCounted == FancySound => Fancy!HeldIsUsed
<1> SUFFICES ASSUME FancySound PROVE Fancy!HeldIsUsed
  OBVIOUS
<1>1. Arranged(slab_lookup_table, slabs) /\ HeldIn(held, slabs) /\ HeldOnce(held)
  BY DEF FancySound, Settled
<1>2. ASSUME NEW id \in Fancy!Ids, Fancy!Exists(id)
      PROVE  slabs[id].used = {h.slot : h \in {g \in held : g.id = id}}
  BY <1>2 DEF FancySound, UsedIn, Fancy!Exists, Having
<1>3. ASSUME NEW g \in held, NEW h \in held, g.fp = h.fp, Fancy!Alone(g.id)
      PROVE  g = h
  <2>1. /\ g.id \in Having(slabs) /\ g.id \in Fancy!Ids
        /\ slabs[g.id].num_blocks \in Nat \ {0}
        /\ g.slot \in Fancy!Slots(slabs[g.id].num_blocks)
        /\ g.fp.s_id = g.id[2] + 1 /\ g.fp.offset = Fancy!Offset(g.id, g.slot)
    BY <1>3, HeldAlone
  <2>2. g.id = <<g.id[1], g.id[2]>> /\ g.id[1] \in Allocators /\ g.id[2] \in Nat
    BY <2>1, FancySizes
  <2>3. /\ h.id \in Having(slabs) /\ h.id \in Fancy!Ids
        /\ slabs[h.id].num_blocks \in Nat \ {0}
        /\ h.slot \in Fancy!Slots(slabs[h.id].num_blocks)
        /\ h.fp = Named(h.id, h.slot) \/ h.fp.s_id = 0
    BY <1>1, ArrayBytes DEF HeldIn
  <2>4. h.id = <<h.id[1], h.id[2]>> /\ h.id[1] \in Allocators /\ h.id[2] \in Nat
    BY <2>3, FancySizes
  <2>5. h.fp = Named(h.id, h.slot)
    BY <1>3, <2>1, <2>2, <2>3
  <2>6. g.id[2] = h.id[2] /\ Fancy!Offset(g.id, g.slot) = Fancy!Offset(h.id, h.slot)
    <3>1. h.fp.s_id = h.id[2] + 1 /\ h.fp.offset = Fancy!Offset(h.id, h.slot)
      BY <2>5 DEF Named
    <3>2. QED
      BY <1>3, <2>1, <2>2, <2>4, <3>1
  <2>7. g.id = h.id
    <3>1. AloneIn(slabs, g.id) /\ slabs[h.id] # Nothing
      BY <1>3, <2>3, AloneMeans DEF Having
    <3>2. h.id[1] # g.id[1] => slabs[<<h.id[1], g.id[2]>>] = Nothing
      BY <2>4, <3>1 DEF AloneIn
    <3>3. g.id[1] = h.id[1]
      BY <2>4, <2>6, <3>1, <3>2
    <3>4. QED
      BY <2>2, <2>4, <2>6, <3>3
  <2>8. g.slot = h.slot
    <3>1. /\ g.slot = <<g.slot[1], g.slot[2]>>
          /\ Fancy!Offset(g.id, g.slot) \div Fancy!BlockSize(g.id) = g.slot[1]
          /\ (Fancy!Offset(g.id, g.slot) % Fancy!BlockSize(g.id)) \div Fancy!Size(g.id) = g.slot[2]
      BY <2>1, FancySlots
    <3>2. /\ h.slot = <<h.slot[1], h.slot[2]>>
          /\ Fancy!Offset(h.id, h.slot) \div Fancy!BlockSize(h.id) = h.slot[1]
          /\ (Fancy!Offset(h.id, h.slot) % Fancy!BlockSize(h.id)) \div Fancy!Size(h.id) = h.slot[2]
      BY <2>3, FancySlots
    <3>3. QED
      BY <2>6, <2>7, <3>1, <3>2
  <2>9. QED
    BY <1>1, <2>7, <2>8 DEF HeldOnce
<1>4. QED
  BY <1>2, <1>3 DEF Fancy!HeldIsUsed

(* Pointers to other objects lead to them, but right behind an array. *)
LEMMA OutsideLeads == FancySound => Fancy!OutsideResolves
<1> SUFFICES ASSUME FancySound, NEW o \in outside
             PROVE  IF o.fp.s_id = 0 THEN Fancy!ToAddress(o.fp) = o.address
                    ELSE /\ o.fp.offset % Fancy!BlockSize(slab_lookup_table[o.fp.s_id]) = 0
                         /\ o.fp.offset > 0
  BY DEF Fancy!OutsideResolves
<1>1. Arranged(slab_lookup_table, slabs) /\ OutsideIn(outside, slab_lookup_table)
  BY DEF FancySound, Settled
<1>2. CASE o.fp = [s_id |-> 0, offset |-> o.address]
  <2>1. o.fp.s_id = 0 /\ o.fp.offset = o.address
    BY <1>2
  <2>2. slab_lookup_table[0] = Nothing
    BY <1>1 DEF Arranged
  <2>3. QED
    BY <2>1, <2>2 DEF Fancy!ToAddress
<1>3. ASSUME NEW i \in 1 .. MaxClass + 1, NEW d \in Int, slab_lookup_table[i] # Nothing,
             Behind(i, d), o.fp = [s_id |-> i, offset |-> d]
      PROVE  /\ o.fp.s_id # 0
             /\ o.fp.offset % Fancy!BlockSize(slab_lookup_table[o.fp.s_id]) = 0
             /\ o.fp.offset > 0
  <2>1. o.fp.s_id = i /\ o.fp.offset = d /\ i # 0
    BY <1>3, FancyConstants
  <2>2. PICK n \in Nat \ {0} : d = n * (FancyBlockSlots * Two[i - 1])
    BY <1>3 DEF Behind
  <2>3. PICK id \in Fancy!Ids : id = slab_lookup_table[i] /\ id[2] = i - 1
    BY <1>1, <1>3 DEF Arranged, Having
  <2>4. PICK s \in Nat \ {0} : s = Fancy!BlockSize(id) /\ s = FancyBlockSlots * Two[i - 1]
    BY <2>3, FancySizes
  <2>5. (n * s + 0) % s = 0
    <3>1. n \in Int /\ 0 \in Nat /\ 0 < s
      OBVIOUS
    <3>2. QED
      BY <3>1, Division
  <2>6. n * s \in Nat \ {0} /\ n * s + 0 = n * s
    OBVIOUS
  <2>7. QED
    BY <2>1, <2>2, <2>3, <2>4, <2>5, <2>6
<1>4. QED
  BY <1>1, <1>2, <1>3 DEF OutsideIn

(* Of any number of allocators, classes and arrays wherever memory is      *)
(* given: a fancy pointer leads to its slot however often the array has    *)
(* moved, pointer_to makes the same pointer again, no two slots have one   *)
(* pointer, and other objects are found but right behind an array; and     *)
(* arithmetic on fancy pointers agrees with that on pointers, but for      *)
(* differences backward.                                                   *)
THEOREM FancyCorrect == Spec => []FancyExact
<1>1. FancySound /\ WalkSound => FancyExact
  BY HeldResolves, HeldCounted, OutsideLeads, WalkAnswers DEF FancyExact, WalkSound
<1>2. QED
  BY <1>1, InitFancy, StepFancy, InitWalk, StepWalk, PTL DEF Spec
=============================================================================
