-------------------------- MODULE MCMutexAllocator --------------------------
(***************************************************************************)
(* Instances of MutexAllocator for TLC.                                    *)
(***************************************************************************)
EXTENDS MutexAllocator, TLC

Symmetry == Permutations(Threads) \cup Permutations(Slabs)
=============================================================================
