--------------------------- MODULE MCLowLockQueue ---------------------------
(***************************************************************************)
(* Instances of LowLockQueue for TLC.                                      *)
(***************************************************************************)
EXTENDS LowLockQueue, TLC

Symmetry == Permutations(Threads) \cup Permutations(Nodes) \cup Permutations(Values)
=============================================================================
