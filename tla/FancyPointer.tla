---------------------------- MODULE FancyPointer ----------------------------
(***************************************************************************)
(* fancy_pointer.h and slab_lookup_table.h with what surrounds them: the   *)
(* registration of slabs (slab.h), arrays that move when they are resized, *)
(* and allocate() and deallocate() of the vector SlabAllocator, called by  *)
(* one thread.  A fancy pointer names an entry of the table and an offset; *)
(* it is to mean the same object wherever the array is.                    *)
(*                                                                         *)
(* An address is a number.  Slots of class c are 2^c bytes long, a block   *)
(* has BlockSlots of them, of which the first holds metadata, and memory   *)
(* is given at any aligned place that is free.  Which free slot a slab     *)
(* picks is in module VectorSlab; here it is any.  An object outside the   *)
(* slabs, like a list's end node, takes one byte.                          *)
(***************************************************************************)
EXTENDS Powers, FiniteSets, FiniteSetsExt

CONSTANTS
  Allocators,   (* those that share no SlabAllocatorInternal *)
  MaxClass,     (* size classes are 0 .. MaxClass *)
  BlockSlots,
  MaxBlocks,    (* bound: arrays of this many blocks are not resized *)
  MaxAddress,
  MaxOutside,   (* bound on the objects outside slabs *)
  Nothing

FancyAssumption ==
  /\ MaxClass \in Nat /\ BlockSlots \in Nat \ {0} /\ MaxBlocks \in Nat
  /\ Nothing \notin Allocators \X (0 .. MaxClass)
  /\ Nothing \notin [blocks : Nat, num_blocks : Nat, used : SUBSET (Nat \X Nat)]

VARIABLES
  slab_lookup_table,  (* the row M_ID; entry 0 belongs to no slab *)
  slabs,              (* for an allocator and a class: array, blocks, slots in use *)
  memory,             (* the arrays that are allocated *)
  held,               (* the slots the client uses, each with its fancy pointer *)
  outside,            (* the other objects with a fancy pointer *)
  gone                (* the allocators whose last copy was destroyed *)

vars == <<slab_lookup_table, slabs, memory, held, outside, gone>>

Classes == 0 .. MaxClass
Ids     == Allocators \X Classes
Size(id) == Two[id[2]]
BlockSize(id) == BlockSlots * Size(id)
Bytes(base, size) == base .. base + size - 1
ArraySize(id, n) == n * BlockSize(id)
Array(id) == Bytes(slabs[id].blocks, ArraySize(id, slabs[id].num_blocks))

(* Slots are the pairs of block and slot number. *)
Slots(n) == (0 .. n - 1) \X (1 .. BlockSlots - 1)

Offset(id, slot) == slot[1] * BlockSize(id) + slot[2] * Size(id)

Taken == UNION memory \cup {o.address : o \in outside}

(* posix_memalign *)
Places(id, n) ==
  {b \in 1 .. MaxAddress :
     /\ b % BlockSize(id) = 0
     /\ Bytes(b, ArraySize(id, n)) \subseteq (1 .. MaxAddress) \ Taken}

-----------------------------------------------------------------------------
(* The entries of tbl whose array, or the byte behind it, has address x.   *)
(* The code computes the size of the array in int; resize() does, too, and *)
(* fails before an array has 2^31 bytes (module SlabLayout), so sizes are  *)
(* numbers here.                                                           *)
Matches(x, tbl, sl) ==
  {i \in 1 .. MaxClass + 1 :
     /\ tbl[i] # Nothing
     /\ sl[tbl[i]].blocks <= x
     /\ x <= sl[tbl[i]].blocks + ArraySize(tbl[i], sl[tbl[i]].num_blocks)}

PointerTo(x, tbl, sl) ==
  IF Matches(x, tbl, sl) = {} THEN [s_id |-> 0, offset |-> x]
  ELSE LET i == Min(Matches(x, tbl, sl))
       IN  [s_id |-> i, offset |-> x - sl[tbl[i]].blocks]

ToAddress(fp) ==
  IF slab_lookup_table[fp.s_id] = Nothing THEN fp.offset
  ELSE slabs[slab_lookup_table[fp.s_id]].blocks + fp.offset

(* pointer_to looks into the slabs of the table up to the first match; a   *)
(* deleted one makes the behaviour undefined, and nothing is modelled of   *)
(* it.                                                                     *)
Scanned(x, tbl, sl) ==
  {i \in 1 .. MaxClass + 1 : tbl[i] # Nothing /\ \A j \in Matches(x, tbl, sl) : i <= j}

NoneDeleted(x, tbl, sl) == \A i \in Scanned(x, tbl, sl) : tbl[i][1] \notin gone

-----------------------------------------------------------------------------
Init ==
  /\ slab_lookup_table = [i \in 0 .. MaxClass + 1 |-> Nothing]
  /\ slabs = [id \in Ids |-> Nothing]
  /\ memory = {}
  /\ held = {}
  /\ outside = {}
  /\ gone = {}

(* Mutant: the class itself is the index, so entry 0 is a slab's. *)
RegisteredLow(id) == [slab_lookup_table EXCEPT ![id[2]] = id]

(* What the constructor and resize() do at their end. *)
Registered(id) == [slab_lookup_table EXCEPT ![id[2] + 1] = id]

(* The end of allocate(): a slot of the array is taken, its address turned *)
(* into a fancy pointer.  tbl and sl are table and slabs of this moment.   *)
Take(id, tbl, sl) ==
  \E slot \in Slots(sl[id].num_blocks) \ sl[id].used :
    /\ NoneDeleted(sl[id].blocks + Offset(id, slot), tbl, sl)
    /\ slab_lookup_table' = tbl
    /\ slabs' = [sl EXCEPT ![id].used = @ \cup {slot}]
    /\ held' = held \cup
         {[id |-> id, slot |-> slot,
           fp |-> PointerTo(sl[id].blocks + Offset(id, slot), tbl, sl)]}

AllocateFirst(id) ==
  /\ id[1] \notin gone
  /\ slabs[id] = Nothing
  /\ \E b \in Places(id, 1) :
       /\ memory' = memory \cup {Bytes(b, ArraySize(id, 1))}
       /\ Take(id, Registered(id),
               [slabs EXCEPT ![id] = [blocks |-> b, num_blocks |-> 1, used |-> {}]])
  /\ UNCHANGED <<outside, gone>>

Exists(id) == id[1] \notin gone /\ slabs[id] # Nothing
Full(id) == slabs[id].used = Slots(slabs[id].num_blocks)

AllocateNext(id) ==
  /\ Exists(id)
  /\ ~Full(id)
  /\ Take(id, slab_lookup_table, slabs)
  /\ UNCHANGED <<memory, outside, gone>>

(* Mutant: the slab keeps the address of the old array. *)
ResizedInPlace(id, b) ==
  [slabs EXCEPT ![id].num_blocks = 2 * @]

(* The array after resize(), copied to b. *)
Resized(id, b) ==
  [slabs EXCEPT ![id].num_blocks = 2 * @, ![id].blocks = b]

AllocateResized(id) ==
  /\ Exists(id)
  /\ Full(id) /\ slabs[id].num_blocks < MaxBlocks
  /\ \E b \in Places(id, 2 * slabs[id].num_blocks) :
       /\ memory' = (memory \ {Array(id)}) \cup
                      {Bytes(b, ArraySize(id, 2 * slabs[id].num_blocks))}
       /\ Take(id, Registered(id), Resized(id, b))
  /\ UNCHANGED <<outside, gone>>

Current(h) == slabs[h.id].blocks + Offset(h.id, h.slot)

(* The pointer leads to its slot.  Where it does not, because another Slab *)
(* took the entry, nothing is modelled of its use.                         *)
Resolves(h) == ToAddress(h.fp) = Current(h)

(* deallocate(p): the address finds array, block and slot. *)
Deallocate(h) ==
  LET x == ToAddress(h.fp) IN
  /\ Resolves(h)
  /\ \E id \in Ids :
       /\ Exists(id) /\ x \in Array(id)
       /\ LET d == x - slabs[id].blocks
              slot == <<d \div BlockSize(id), (d % BlockSize(id)) \div Size(id)>>
          IN slabs' = [slabs EXCEPT ![id].used = @ \ {slot}]
       /\ held' = held \ {h}
       /\ UNCHANGED <<slab_lookup_table, memory, outside, gone>>

(* A container takes the fancy pointer of an object that is in no slab,    *)
(* and destroys the object later.                                          *)
PointOutside ==
  /\ Cardinality(outside) < MaxOutside
  /\ \E x \in (1 .. MaxAddress) \ Taken :
       /\ NoneDeleted(x, slab_lookup_table, slabs)
       /\ outside' = outside \cup {[address |-> x, fp |-> PointerTo(x, slab_lookup_table, slabs)]}
  /\ UNCHANGED <<slab_lookup_table, slabs, memory, held, gone>>

ForgetOutside ==
  /\ \E o \in outside : outside' = outside \ {o}
  /\ UNCHANGED <<slab_lookup_table, slabs, memory, held, gone>>

(* ~SlabAllocatorInternal deletes the slabs when the client has returned   *)
(* every slot.  Slab has no destructor: the array stays, and so does the   *)
(* entry of the table.                                                     *)
Destroy(a) ==
  /\ a \notin gone
  /\ \A h \in held : h.id[1] # a
  /\ gone' = gone \cup {a}
  /\ UNCHANGED <<slab_lookup_table, slabs, memory, held, outside>>

Finished ==
  /\ (gone = Allocators /\ outside = {}) \/ \E h \in held : ~Resolves(h)
  /\ UNCHANGED vars

Next ==
  \/ \E id \in Ids : AllocateFirst(id) \/ AllocateNext(id) \/ AllocateResized(id)
  \/ \E h \in held : Deallocate(h)
  \/ PointOutside
  \/ ForgetOutside
  \/ \E a \in Allocators : Destroy(a)
  \/ Finished

Spec == Init /\ [][Next]_vars

-----------------------------------------------------------------------------
(* No other allocator has had a Slab of this class. *)
Alone(id) == \A a \in Allocators \ {id[1]} : slabs[<<a, id[2]>>] = Nothing

(* A fancy pointer that allocate() returned leads to its slot, in memory   *)
(* that is allocated, wherever resize() has moved the array since and      *)
(* whatever arrays of other classes and objects lie around: as long as no  *)
(* second allocator has a Slab of the class, which would take the entry.   *)
SlotsResolve ==
  \A h \in held : Alone(h.id) => Resolves(h) /\ Current(h) \in UNION memory

(* pointer_to, applied to the object again as containers do, gives the     *)
(* very pointer that allocate() returned: operator== compares s_id and     *)
(* offset, so another name for the same slot would be another pointer.     *)
RoundTrip ==
  \A h \in held :
    Alone(h.id) /\ NoneDeleted(Current(h), slab_lookup_table, slabs) =>
      PointerTo(Current(h), slab_lookup_table, slabs) = h.fp

(* What the client holds is what the slabs count as in use, and no two     *)
(* slots in use have the same fancy pointer.                               *)
HeldIsUsed ==
  /\ \A id \in Ids : Exists(id) => slabs[id].used = {h.slot : h \in {g \in held : g.id = id}}
  /\ \A g, h \in held : g.fp = h.fp => g = h \/ ~Alone(g.id)

(* A fancy pointer to an object outside the slabs keeps leading to it, but *)
(* for one: an object that lay right behind an array when the pointer was  *)
(* made, which is taken for a part of it and moves along with the array.   *)
OutsideResolves ==
  \A o \in outside :
    IF o.fp.s_id = 0 THEN ToAddress(o.fp) = o.address
    ELSE o.fp.offset % BlockSize(slab_lookup_table[o.fp.s_id]) = 0 /\ o.fp.offset > 0
=============================================================================
