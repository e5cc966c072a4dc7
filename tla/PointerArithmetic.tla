------------------------- MODULE PointerArithmetic -------------------------
(***************************************************************************)
(* The arithmetic of fancy_pointer<T> (fancy_pointer.h, lines 114 to 211): *)
(* two pointers walk over an array of objects of T in a slab.  The sum of  *)
(* two pointers and comparisons with null are left out.  A pointer         *)
(* is its offset, a word that is signed (ptrdiff_t) but added to as if     *)
(* unsigned, for sizeof(T) is a size_t.  Beside each offset runs the index *)
(* a pointer T* would have in the array.                                   *)
(***************************************************************************)
EXTENDS Integers

CONSTANTS
  WordLimit, (* 2^63: a word is below twice as much *)
  Sizes,     (* the sizes of T; the array is in reach of a positive offset *)
  Length,    (* the number of objects in the array *)
  First      (* the offset of the first *)

WalkAssumption ==
  /\ WordLimit \in Nat /\ Length \in Nat /\ First \in Nat
  /\ Sizes \subseteq Nat \ {0}
  /\ \A s \in Sizes : First + s * Length < WordLimit

VARIABLES
  size,         (* sizeof(T) *)
  offset,       (* the offset of each of the two pointers *)
  index,        (* what a T* in its place would point to *)
  result,       (* the last difference that was taken, or 0 *)
  expected      (* what it is between pointers *)

vars == <<size, offset, index, result, expected>>
Pointers == {"p", "q"}

Word(x)   == x % (2 * WordLimit)
Signed(x) == IF x < WordLimit THEN x ELSE x - 2 * WordLimit

Init ==
  /\ size \in Sizes
  /\ offset = [x \in Pointers |-> First]
  /\ index = [x \in Pointers |-> 0]
  /\ result = 0
  /\ expected = 0

(* One past the last object is a place a pointer may have. *)
Within(i) == i \in 0 .. Length

(* ++, --, += n, -= n, + n and - n; p[n] is the object at p + n.           *)
Move(x, n) ==
  /\ Within(index[x] + n)
  /\ index' = [index EXCEPT ![x] = @ + n]
  /\ offset' = [offset EXCEPT ![x] = Word(@ + n * size)]
  /\ UNCHANGED <<size, result, expected>>

(* Mutant: the operands are exchanged. *)
DifferenceSwapped(x, y) == Signed(Word(offset[y] - offset[x]) \div size)

(* (offset - rhs.offset) / sizeof(T): the difference is signed, its        *)
(* quotient by a size_t is not.                                            *)
Difference(x, y) == Signed(Word(offset[x] - offset[y]) \div size)

Subtract(x, y) ==
  /\ result' = Difference(x, y)
  /\ expected' = index[x] - index[y]
  /\ UNCHANGED <<size, offset, index>>

Less(x, y) == Signed(offset[x]) < Signed(offset[y])

Next ==
  \/ \E x \in Pointers, n \in -Length .. Length : Move(x, n)
  \/ Subtract("p", "q")
  \/ Subtract("q", "p")

Spec == Init /\ [][Next]_vars

-----------------------------------------------------------------------------
(* However the pointers got where they are, each leads to the object its   *)
(* index says, and they compare as the objects do: equal offsets are equal *)
(* objects, and p < q is p before q.                                       *)
WalksLikePointers ==
  \A x, y \in Pointers :
    /\ Signed(offset[x]) = First + index[x] * size
    /\ (offset[x] = offset[y]) <=> (index[x] = index[y])
    /\ Less(x, y) <=> index[x] < index[y]

(* The distance forward is the number of objects between.  Backward, where *)
(* a random access iterator (line 34) is to give the negative number, it   *)
(* is so only for objects of one byte.                                     *)
DifferenceExact == (result = expected) <=> (expected >= 0 \/ size = 1)
=============================================================================
