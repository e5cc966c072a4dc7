------------------------------ MODULE SlotPool ------------------------------
(***************************************************************************)
(* What a slab allocator for one slot size promises its clients, whatever  *)
(* its implementation: allocate() always answers, with a slot that lies    *)
(* inside a slab and that no client holds; deallocate() takes the slot     *)
(* back the moment it is called and always returns.                        *)
(*                                                                         *)
(* A call and its return are two steps, so calls of several threads        *)
(* overlap.  The module keeps no trace of slabs, bitmaps or queues.        *)
(***************************************************************************)
CONSTANTS
  Threads,   (* the client threads *)
  Pointers   (* the slots the slabs have room for *)

VARIABLES
  live,      (* the pointers clients own *)
  op         (* the call each thread is in *)

poolVars == <<live, op>>

PoolInit ==
  /\ live = {}
  /\ op = [t \in Threads |-> "none"]

AllocateCall(t) ==
  /\ op[t] = "none"
  /\ op' = [op EXCEPT ![t] = "allocate"]
  /\ UNCHANGED live

AllocateReturn(t) ==
  /\ op[t] = "allocate"
  /\ \E p \in Pointers \ live : live' = live \cup {p}
  /\ op' = [op EXCEPT ![t] = "none"]

DeallocateCall(t) ==
  /\ op[t] = "none"
  /\ \E p \in live : live' = live \ {p}
  /\ op' = [op EXCEPT ![t] = "deallocate"]

DeallocateReturn(t) ==
  /\ op[t] = "deallocate"
  /\ op' = [op EXCEPT ![t] = "none"]
  /\ UNCHANGED live

PoolNext ==
  \E t \in Threads :
    \/ AllocateCall(t) \/ AllocateReturn(t)
    \/ DeallocateCall(t) \/ DeallocateReturn(t)

PoolSpec == PoolInit /\ [][PoolNext]_poolVars
=============================================================================
