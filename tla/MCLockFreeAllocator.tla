------------------------ MODULE MCLockFreeAllocator ------------------------
(***************************************************************************)
(* Instances of LockFreeAllocator for TLC.                                 *)
(***************************************************************************)
EXTENDS LockFreeAllocator, TLC

(* Threads and slabs are interchangeable; used in the safety runs only. *)
Symmetry == Permutations(Threads) \cup Permutations(Slabs)
=============================================================================
