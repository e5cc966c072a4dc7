----------------------------- MODULE SizeClass -----------------------------
(***************************************************************************)
(* How the three SlabAllocators turn the size of a request into a class,   *)
(* and the class into the size of a slot: a loop that doubles              *)
(* rounded_size, once per call of allocate() and of deallocate().          *)
(*                                                                         *)
(* The lock-free one counts in int, the others in size_t; the vector slab  *)
(* records the size of its slots in an int.  Words are IntWidth and        *)
(* SizeWidth bits long (32 and 64 in the source).  Shifting an int past    *)
(* its width is undefined; the model wraps, as g++ does with and without   *)
(* optimization.                                                           *)
(***************************************************************************)
EXTENDS Powers

CONSTANTS
  IntWidth, SizeWidth,
  MaxAllocators,     (* classes of the lock-free allocator, 40 *)
  MaxMutex,          (* of the mutex allocator, 13 *)
  MaxSlabs,          (* of the vector allocator, 40 *)
  LimitLockFree, LimitMutex, LimitVector   (* bounds on the requests *)

ClassAssumption ==
  /\ IntWidth \in Nat /\ SizeWidth \in Nat /\ 3 <= IntWidth /\ IntWidth <= SizeWidth
  /\ SizeWidth < Two[IntWidth - 1]
  /\ MaxAllocators \in Nat /\ MaxMutex \in Nat /\ MaxSlabs \in Nat
  /\ LimitMutex \in Nat /\ LimitVector \in Nat /\ LimitLockFree \in Nat
  /\ LimitMutex < Two[SizeWidth] /\ LimitVector < Two[SizeWidth]
  (* The lock-free allocator is not asked for a quarter of what a size_t    *)
  (* can count.                                                             *)
  /\ 4 * LimitLockFree + Two[IntWidth - 1] <= Two[SizeWidth]

Variants == {"lock_free", "mutex", "vector"}

Classes == [lock_free |-> MaxAllocators, mutex |-> MaxMutex, vector |-> MaxSlabs]
Limit   == [lock_free |-> LimitLockFree, mutex |-> LimitMutex, vector |-> LimitVector]

VARIABLES
  variant,
  request,        (* n * sizeof(T), a size_t *)
  rounded_size, exponent,
  pc,
  answer,         (* who serves the request: a slab, malloc, or an exception *)
  slot,           (* the size of the slots of the class, as the slab gets it *)
  sz              (* and as it keeps it *)

vars == <<variant, request, rounded_size, exponent, pc, answer, slot, sz>>

ToSize(x) == x % Two[SizeWidth]
ToInt(x)  ==
  LET r == x % Two[IntWidth] IN IF r < Two[IntWidth - 1] THEN r ELSE r - Two[IntWidth]

(* The parameter of the logarithm: int n, or size_t. *)
Argument(v, r) == IF v = "lock_free" THEN ToInt(r) ELSE r

Doubled(v, x) == IF v = "lock_free" THEN ToInt(2 * x) ELSE ToSize(2 * x)

(* Mutant: the slots of the next class. *)
SlotSizeNext(v, e) == IF v = "lock_free" THEN ToSize(ToInt(Two[e + 2])) ELSE ToSize(Two[e + 1])

(* 2 << exponent in int for the lock-free allocator, 1UL << exponent else. *)
SlotSize(v, e) == IF v = "lock_free" THEN ToSize(ToInt(Two[e + 1])) ELSE ToSize(Two[e])

Init ==
  /\ variant \in Variants
  /\ request = 0
  /\ rounded_size = 1
  /\ exponent = 0
  /\ pc = "idle"
  /\ answer = "none"
  /\ slot = 0
  /\ sz = 0

Call ==
  /\ pc = "idle"
  /\ pc' = "loop"
  /\ request' \in 0 .. Limit[variant]
  /\ rounded_size' = 1
  /\ exponent' = 0
  /\ answer' = "none"
  /\ slot' = 0
  /\ sz' = 0
  /\ UNCHANGED variant

More == rounded_size < Argument(variant, request)

(* Mutant: the exponent stays behind. *)
DoubleOnly ==
  /\ pc = "loop" /\ More
  /\ rounded_size' = Doubled(variant, rounded_size)
  /\ UNCHANGED <<variant, request, exponent, pc, answer, slot, sz>>

(* exponent is an int (in the vector allocator a size_t, which is as good: *)
(* in a loop that ends it counts no further than the width of a word).     *)
Double ==
  /\ pc = "loop" /\ More
  /\ rounded_size' = Doubled(variant, rounded_size)
  /\ exponent' = ToInt(exponent + 1)
  /\ UNCHANGED <<variant, request, pc, answer, slot, sz>>

TooLarge == exponent >= Classes[variant]

(* malloc, or for the vector allocator a runtime_error *)
Refuse ==
  /\ pc = "loop" /\ ~More /\ TooLarge
  /\ pc' = "idle"
  /\ answer' = IF variant = "vector" THEN "exception" ELSE "malloc"
  /\ UNCHANGED <<variant, request, rounded_size, exponent, slot, sz>>

Serve ==
  /\ pc = "loop" /\ ~More /\ ~TooLarge
  /\ pc' = "idle"
  /\ answer' = "slab"
  /\ slot' = SlotSize(variant, exponent)
  /\ sz' = IF variant = "vector" THEN ToInt(SlotSize(variant, exponent))
           ELSE SlotSize(variant, exponent)
  /\ UNCHANGED <<variant, request, rounded_size, exponent>>

Next == Call \/ Double \/ Refuse \/ Serve

Spec == Init /\ [][Next]_vars

-----------------------------------------------------------------------------
CeilLog(n) == CHOOSE e \in 0 .. SizeWidth :
                 Two[e] >= n /\ \A d \in 0 .. e - 1 : Two[d] < n

(* What the allocators can be asked for: the largest power of two that     *)
(* their word holds.  Between it and the largest int the loop of the       *)
(* lock-free one does not end, and from there on the request itself does   *)
(* not fit.                                                                *)
InReach ==
  request <= IF variant = "lock_free" THEN Two[IntWidth - 2] ELSE Two[SizeWidth - 1]

(* The loop computes ceil(log_2(n)) (lock_free_allocator/slab_allocator.h: *)
(* 28), and only a request that no class is large enough for is refused.   *)
ClassExact ==
  answer # "none" /\ InReach =>
    /\ exponent = CeilLog(request)
    /\ (answer = "slab") <=> CeilLog(request) < Classes[variant]

(* The slot holds the request and is no larger than need be, less than     *)
(* twice the request, or four times for the lock-free allocator, whose     *)
(* slots are those of the class above.  It does if and only if that size   *)
(* is a power of two that an int holds, or is computed in size_t.          *)
SlotInReach == variant = "lock_free" => request <= Two[IntWidth - 3]

SlotFits ==
  answer = "slab" =>
    (SlotInReach <=>
       /\ request <= slot
       /\ request > 0 => slot < (IF variant = "lock_free" THEN 4 ELSE 2) * request)

(* The slab keeps the size it was given, with which find_free_slot         *)
(* computes addresses; the vector slab only where that fits its int.       *)
SizeKept ==
  answer = "slab" => ((sz = slot) <=> (variant = "vector" => slot < Two[IntWidth - 1]))

(* In reach rounded_size stays a power of two that grows, so the loop ends; *)
(* once it is 0 it stays so, and the loop goes on for ever.                *)
LoopEnds == pc = "loop" /\ InReach => rounded_size > 0
=============================================================================
