------------------------------- MODULE Powers -------------------------------
(***************************************************************************)
(* The powers of two.  The operator ^ of Integers has a value for TLC but  *)
(* no properties for the provers; those of Two are proved in DataLemmas.   *)
(***************************************************************************)
EXTENDS Integers

Two[n \in Nat] == IF n = 0 THEN 1 ELSE 2 * Two[n - 1]
=============================================================================
