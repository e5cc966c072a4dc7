--------------------------- MODULE MutexAllocator ---------------------------
(***************************************************************************)
(* SingleAllocator and Slab of mutex_allocator/: the same allocator as in  *)
(* LockFreeAllocator, with one mutex around the queue of slabs and one in  *)
(* every slab around its bitmap.                                           *)
(*                                                                         *)
(* allocate() keeps the mutex of the queue from beginning to end, so       *)
(* allocations exclude each other.  deallocate() takes it only to push a   *)
(* slab: it marks the slot and counts it under no lock that an allocation  *)
(* holds, and between any two steps of one.  A critical section that       *)
(* touches nothing but what its mutex protects is one action.              *)
(***************************************************************************)
EXTENDS Integers, Sequences, FiniteSets, FiniteSetsExt

CONSTANTS
  Threads,    (* the threads that share the allocator *)
  Slabs,      (* the addresses a slab can be created at *)
  MaxSlots,   (* MAX_SLOTS: 63 in the source *)
  MaxDemand,  (* bound: slots the clients hold or have a call in progress for *)
  MaxQueue,   (* bound: deallocate() is called while the queue is shorter *)
  NoSlab, NoSlot

ASSUME SlotsAssumption == MaxSlots \in Nat /\ MaxSlots >= 1
ASSUME NoSlotAssumption == NoSlab \notin Slabs /\ NoSlot \notin Int
ASSUME ThreadsAssumption == IsFiniteSet(Threads) /\ "none" \notin Threads

VARIABLES
  num_free,    (* num_free[s], atomic: slots of s nobody has reserved *)
  slots_used,  (* slots_used[s]: the bits of s that are 1 *)
  all_slabs,   (* the slabs created so far *)
  free_slabs,  (* the queue *)
  mux_holder,  (* the thread in allocate() that owns mux_free_slabs *)
  pc, slab, slot,   (* the next instruction and the locals of each thread *)
  live,        (* the pointers clients own, a <<slab, slot>> each *)
  deleted      (* the slabs ~SingleAllocator deletes, in its order *)

slabVars == <<num_free, slots_used>>
vars == <<slabVars, all_slabs, free_slabs, mux_holder, pc, slab, slot, live, deleted>>

Slots == 0 .. MaxSlots - 1   (* the slots Slab::data has room for *)
Bits  == 0 .. MaxSlots       (* std::bitset<MAX_SLOTS+1> *)
NoThread == "none"

AllocateSteps == {"lock", "insert", "fetch_sub", "settle"}

At(t, label) == pc[t] = label
Goto(t, label) == pc' = [pc EXCEPT ![t] = label]

Return(t) ==
  /\ Goto(t, "idle")
  /\ slab' = [slab EXCEPT ![t] = NoSlab]
  /\ slot' = [slot EXCEPT ![t] = NoSlot]

Busy == {t \in Threads : pc[t] # "idle"}
Demand == Cardinality(live) + Cardinality(Busy)
Destroyed == deleted # <<>>

-----------------------------------------------------------------------------
Init ==
  \E s \in Slabs :
    /\ num_free = [x \in Slabs |-> IF x = s THEN MaxSlots ELSE 0]
    /\ slots_used = [x \in Slabs |-> {}]
    /\ all_slabs = {s}
    /\ free_slabs = <<s>>
    /\ mux_holder = NoThread
    /\ pc = [t \in Threads |-> "idle"]
    /\ slab = [t \in Threads |-> NoSlab]
    /\ slot = [t \in Threads |-> NoSlot]
    /\ live = {}
    /\ deleted = <<>>

-----------------------------------------------------------------------------
(* allocate() *)

CallAllocate(t) ==
  /\ At(t, "idle")
  /\ ~Destroyed
  /\ Demand < MaxDemand
  /\ Goto(t, "lock")
  /\ UNCHANGED <<slabVars, all_slabs, free_slabs, mux_holder, slab, slot, live, deleted>>

LockQueue(t) ==
  /\ At(t, "lock")
  /\ mux_holder = NoThread
  /\ mux_holder' = t
  /\ slab' = [slab EXCEPT ![t] = Head(free_slabs)]
  /\ Goto(t, "insert")
  /\ UNCHANGED <<slabVars, all_slabs, free_slabs, slot, live, deleted>>

(* Mutant: the bitmap is not looked at. *)
AnyBits(s) == Bits

(* insert(), up to the end of its critical section: the first bit at 0 of  *)
(* all of the bitset, or nullptr when there is none.                       *)
FreeBits(s) == Bits \ slots_used[s]

Insert(t) ==
  /\ At(t, "insert")
  /\ \/ /\ FreeBits(slab[t]) # {}
        /\ slot' = [slot EXCEPT ![t] = Min(FreeBits(slab[t]))]
        /\ slots_used' = [slots_used EXCEPT ![slab[t]] = @ \cup {Min(FreeBits(slab[t]))}]
        /\ Goto(t, "fetch_sub")
     \/ /\ FreeBits(slab[t]) = {}
        /\ Goto(t, "settle")
        /\ UNCHANGED <<slots_used, slot>>
  /\ UNCHANGED <<num_free, all_slabs, free_slabs, mux_holder, slab, live, deleted>>

(* ... and its end *)
FetchSub(t) ==
  /\ At(t, "fetch_sub")
  /\ num_free' = [num_free EXCEPT ![slab[t]] = @ - 1]
  /\ Goto(t, "settle")
  /\ UNCHANGED <<slots_used, all_slabs, free_slabs, mux_holder, slab, slot, live, deleted>>

(* Mutants: the new slab is not recorded; no new slab replaces the last    *)
(* one; a slab is popped one slot too late.                                *)
SettleUnrecorded(s) ==
  \/ /\ num_free[s] # 0
     /\ UNCHANGED <<slabVars, all_slabs, free_slabs>>
  \/ /\ num_free[s] = 0
     /\ \E new \in Slabs \ all_slabs :
          /\ num_free' = [num_free EXCEPT ![new] = MaxSlots]
          /\ free_slabs' = Append(Tail(free_slabs), new)
     /\ UNCHANGED <<slots_used, all_slabs>>

SettleEmpty(s) ==
  /\ free_slabs' = IF num_free[s] = 0 THEN Tail(free_slabs) ELSE free_slabs
  /\ UNCHANGED <<slabVars, all_slabs>>

SettleLate(s) ==
  \/ /\ num_free[s] # -1
     /\ UNCHANGED <<slabVars, all_slabs, free_slabs>>
  \/ /\ num_free[s] = -1
     /\ \E new \in Slabs \ all_slabs :
          /\ num_free' = [num_free EXCEPT ![new] = MaxSlots]
          /\ all_slabs' = all_slabs \cup {new}
          /\ free_slabs' = Append(Tail(free_slabs), new)
     /\ UNCHANGED slots_used

(* The test of num_free, which reads it anew, pop_front and a new slab if  *)
(* the queue is empty then.                                                *)
SettleQueue(s) ==
  \/ /\ num_free[s] # 0
     /\ UNCHANGED <<slabVars, all_slabs, free_slabs>>
  \/ /\ num_free[s] = 0 /\ Len(free_slabs) > 1
     /\ free_slabs' = Tail(free_slabs)
     /\ UNCHANGED <<slabVars, all_slabs>>
  \/ /\ num_free[s] = 0 /\ Len(free_slabs) = 1
     /\ \E new \in Slabs \ all_slabs :
          /\ num_free' = [num_free EXCEPT ![new] = MaxSlots]
          /\ all_slabs' = all_slabs \cup {new}
          /\ free_slabs' = <<new>>
     /\ UNCHANGED slots_used

(* Mutant: allocate() tries again when insert() returned nullptr. *)
SettleAgain(t) ==
  /\ At(t, "settle")
  /\ SettleQueue(slab[t])
  /\ mux_holder' = NoThread
  /\ \/ slot[t] = NoSlot /\ Goto(t, "lock") /\ UNCHANGED <<slab, slot, live>>
     \/ slot[t] # NoSlot /\ Return(t) /\ live' = live \cup {<<slab[t], slot[t]>>}
  /\ UNCHANGED deleted

Settle(t) ==
  /\ At(t, "settle")
  /\ SettleQueue(slab[t])
  /\ mux_holder' = NoThread
  /\ live' = live \cup IF slot[t] = NoSlot THEN {} ELSE {<<slab[t], slot[t]>>}
  /\ Return(t)
  /\ UNCHANGED deleted

-----------------------------------------------------------------------------
(* deallocate() *)

CallDeallocate(t) ==
  /\ At(t, "idle")
  /\ Len(free_slabs) < MaxQueue
  /\ \E p \in live :
       /\ live' = live \ {p}
       /\ slab' = [slab EXCEPT ![t] = p[1]]
       /\ slot' = [slot EXCEPT ![t] = p[2]]
  /\ Goto(t, "erase")
  /\ UNCHANGED <<slabVars, all_slabs, free_slabs, mux_holder, deleted>>

(* Mutant: every bit is reset. *)
EraseAll(t) ==
  /\ At(t, "erase")
  /\ slots_used' = [slots_used EXCEPT ![slab[t]] = {}]
  /\ Goto(t, "fetch_add")
  /\ UNCHANGED <<num_free, all_slabs, free_slabs, mux_holder, slab, slot, live, deleted>>

Erase(t) ==
  /\ At(t, "erase")
  /\ slots_used' = [slots_used EXCEPT ![slab[t]] = @ \ {slot[t]}]
  /\ Goto(t, "fetch_add")
  /\ UNCHANGED <<num_free, all_slabs, free_slabs, mux_holder, slab, slot, live, deleted>>

(* Mutants: a slab that is queued already is pushed; none is ever pushed. *)
FetchAddEager(t) ==
  /\ At(t, "fetch_add")
  /\ num_free' = [num_free EXCEPT ![slab[t]] = @ + 1]
  /\ Goto(t, "push_back")
  /\ UNCHANGED <<slots_used, all_slabs, free_slabs, mux_holder, slab, slot, live, deleted>>

FetchAddOnly(t) ==
  /\ At(t, "fetch_add")
  /\ num_free' = [num_free EXCEPT ![slab[t]] = @ + 1]
  /\ Return(t)
  /\ UNCHANGED <<slots_used, all_slabs, free_slabs, mux_holder, live, deleted>>

FetchAdd(t) ==
  /\ At(t, "fetch_add")
  /\ num_free' = [num_free EXCEPT ![slab[t]] = @ + 1]
  /\ \/ /\ num_free[slab[t]] = 0
        /\ Goto(t, "push_back")
        /\ UNCHANGED <<slab, slot>>
     \/ /\ num_free[slab[t]] # 0
        /\ Return(t)
  /\ UNCHANGED <<slots_used, all_slabs, free_slabs, mux_holder, live, deleted>>

PushBack(t) ==
  /\ At(t, "push_back")
  /\ mux_holder = NoThread
  /\ free_slabs' = Append(free_slabs, slab[t])
  /\ Return(t)
  /\ UNCHANGED <<slabVars, all_slabs, mux_holder, live, deleted>>

-----------------------------------------------------------------------------
(* ~SingleAllocator: no call is in progress, the clients hold nothing. *)
Destroy ==
  /\ Busy = {} /\ live = {}
  /\ ~Destroyed
  /\ deleted' = free_slabs
  /\ free_slabs' = <<>>
  /\ UNCHANGED <<slabVars, all_slabs, mux_holder, pc, slab, slot, live>>

Step(t) ==
  \/ LockQueue(t) \/ Insert(t) \/ FetchSub(t) \/ Settle(t)
  \/ Erase(t) \/ FetchAdd(t) \/ PushBack(t)

(* Clients need not call: a deadlock is a call that cannot go on. *)
Idle == Busy = {} /\ UNCHANGED vars

Next ==
  \/ \E t \in Threads : CallAllocate(t) \/ CallDeallocate(t) \/ Step(t)
  \/ Destroy
  \/ Idle

Spec == Init /\ [][Next]_vars

(* The operating system runs every thread that is inside a call. *)
Fairness == \A t \in Threads : WF_vars(Step(t))

-----------------------------------------------------------------------------
(* Type invariant. *)
TypeOK ==
  /\ num_free \in [Slabs -> Int]
  /\ slots_used \in [Slabs -> SUBSET Bits]
  /\ all_slabs \in SUBSET Slabs
  /\ free_slabs \in Seq(all_slabs)
  /\ mux_holder \in Threads \cup {NoThread}
  /\ pc \in [Threads -> AllocateSteps \cup {"idle", "erase", "fetch_add", "push_back"}]
  /\ slab \in [Threads -> all_slabs \cup {NoSlab}]
  /\ slot \in [Threads -> Bits \cup {NoSlot}]
  /\ live \in SUBSET (all_slabs \X Bits)

(* No slot is handed out twice: the slots at 1 in a bitmap are those that  *)
(* a client owns, a thread has just inserted or is about to erase, and no  *)
(* slot has two of these owners.  Holds however the queue is corrupted.    *)
InHand == {t \in Threads : pc[t] \in {"fetch_sub", "settle", "erase"} /\ slot[t] # NoSlot}

SlotsOwnedOnce ==
  /\ \A s \in all_slabs :
       slots_used[s] = {p[2] : p \in {q \in live : q[1] = s}}
                         \cup {slot[t] : t \in {u \in InHand : slab[u] = s}}
  /\ \A t \in InHand : <<slab[t], slot[t]>> \notin live
  /\ \A t, u \in InHand : slab[t] = slab[u] /\ slot[t] = slot[u] => t = u

(* allocate() always finds a front in the queue, and no slab with an       *)
(* unreserved slot is forgotten: it is queued, or its pusher waits.        *)
Pushing(s) == \E t \in Threads : pc[t] = "push_back" /\ slab[t] = s
Queued(s) == \E i \in 1 .. Len(free_slabs) : free_slabs[i] = s

SlabsReachable ==
  ~Destroyed =>
    /\ free_slabs # <<>>
    /\ \A s \in all_slabs : num_free[s] > 0 => Queued(s) \/ Pushing(s)

(* Every pointer lies in the slab: "Data layout: [ Ptr to this slab |      *)
(* Slot1 | Slot2 | ... | Slot63 ]".  The bitset has room for one more.     *)
SlotInLayout == \A p \in live : p[2] \in Slots

(* While no deallocation runs beside an allocation the queue is what its   *)
(* comment says, "Queue for all the free slabs available": outside the     *)
(* calls, each slab with a free slot once and no other.                    *)
QueueExact ==
  Busy = {} /\ ~Destroyed =>
    /\ \A s \in all_slabs : Queued(s) <=> num_free[s] > 0
    /\ \A i, j \in 1 .. Len(free_slabs) : free_slabs[i] = free_slabs[j] => i = j

(* ~SingleAllocator deletes every slab, each once. *)
DeletedOnce ==
  Destroyed =>
    /\ {deleted[i] : i \in DOMAIN deleted} = all_slabs
    /\ \A i, j \in DOMAIN deleted : deleted[i] = deleted[j] => i = j

(* Whatever became of the queue, the allocator goes on answering: calls    *)
(* return again and again unless, again and again, none is in progress.    *)
Returns(t) == pc[t] # "idle" /\ pc'[t] = "idle"
CallsKeepReturning ==
  \/ []<>(Busy = {})
  \/ []<><<\E t \in Threads : Returns(t)>>_vars

(* To its clients the allocator is a SlotPool. *)
Operation(t) ==
  IF pc[t] = "idle" THEN "none"
  ELSE IF pc[t] \in AllocateSteps THEN "allocate" ELSE "deallocate"

Pool == INSTANCE SlotPool
          WITH Pointers <- Slabs \X Slots,
               op <- [t \in Threads |-> Operation(t)]

IsSlotPool == Pool!PoolSpec
=============================================================================
