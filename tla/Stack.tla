------------------------------- MODULE Stack -------------------------------
(***************************************************************************)
(* What lock_free_stack keeps of the promise of a stack: values enter at   *)
(* the top, leave from the top, and nothing else happens to them.          *)
(***************************************************************************)
EXTENDS Sequences

CONSTANTS Values

VARIABLES items    (* the values on the stack, the top first *)

StackInit == items = <<>>

Push == \E v \in Values : items' = <<v>> \o items
Pop  == items # <<>> /\ items' = Tail(items)

StackSpec == StackInit /\ [][Push \/ Pop]_items
=============================================================================
