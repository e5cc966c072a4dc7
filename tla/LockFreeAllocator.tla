------------------------- MODULE LockFreeAllocator -------------------------
(***************************************************************************)
(* SingleAllocator of lock_free_allocator/: threads allocate and free      *)
(* slots of one size.  Slabs that have a free slot wait in a queue; the    *)
(* consumers of the queue exclude each other with one spin lock and its    *)
(* producers with another, while the slabs' counters and bitmaps are       *)
(* changed by atomic instructions under no lock at all.                    *)
(*                                                                         *)
(* allocate() is pop_front, which reserves a slot of the slab at the head  *)
(* of the queue (unlinking the slab when that was its last) or creates a   *)
(* slab, followed by get_pointer, which turns the reservation into a slot. *)
(* deallocate() is release_slot, followed by push_back when the slab was   *)
(* full.  Each action is one access to the shared state, so the threads    *)
(* interleave as they do in the source.  A spin on a lock that is taken    *)
(* changes nothing: it is stuttering, and the action waits.                *)
(*                                                                         *)
(* The linked list that implements the queue is abstracted to the sequence *)
(* of its values: push_back takes effect when it stores last->next and     *)
(* pop_front when it swings first.  Module LowLockQueue has the nodes.     *)
(***************************************************************************)
EXTENDS LockFreeSlab, Sequences

CONSTANTS
  Threads,    (* the threads that share the allocator *)
  MaxDemand,  (* bound: slots the clients hold or have a call in progress for *)
  NoSlab, NoSlot

ASSUME ThreadsAssumption == IsFiniteSet(Threads) /\ Threads # {}
ASSUME MaxDemandAssumption == MaxDemand \in Nat \ {0}
ASSUME NoSlabAssumption == NoSlab \notin Slabs /\ NoSlot \notin Slots

VARIABLES
  all_slabs,     (* the slabs created so far *)
  queue,         (* free_slabs: the values of the queue, head first *)
  consumerLock,
  producerLock,
  pc,            (* the next instruction of each thread *)
  slab,          (* the local that names the slab: val, s, slab *)
  slot,          (* slot_num of deallocate *)
  expected,      (* expected_free_slots: the word a thread last saw *)
  live,          (* the pointers clients own, a <<slab, slot>> each *)
  deleted        (* the slabs ~LowLockQueue deletes, in its order *)

locals == <<slab, slot, expected>>
locks  == <<consumerLock, producerLock>>
client == <<live, deleted>>
vars   == <<slabVars, all_slabs, queue, locks, pc, locals, client>>

AllocateSteps ==
  {"acquire_consumer", "read_next", "lock_slot", "swing_first", "try_producer",
   "give_up", "new_slab", "publish_new", "unlock_new", "unlock_consumer",
   "load_word", "claim", "nullptr"}
DeallocateSteps ==
  {"load_bits", "set_bit", "add_free", "acquire_producer", "publish", "unlock_producer"}

(* Program points between the acquisition and the release of each lock. *)
InConsumer ==
  {"read_next", "lock_slot", "swing_first", "try_producer", "give_up",
   "new_slab", "publish_new", "unlock_new", "unlock_consumer"}
InProducer == {"new_slab", "publish_new", "unlock_new", "publish", "unlock_producer"}

At(t, label) == pc[t] = label
Goto(t, label) == pc' = [pc EXCEPT ![t] = label]

(* A call returns and its locals go out of scope. *)
Return(t) ==
  /\ Goto(t, "idle")
  /\ slab' = [slab EXCEPT ![t] = NoSlab]
  /\ slot' = [slot EXCEPT ![t] = NoSlot]
  /\ expected' = [expected EXCEPT ![t] = {}]

Busy == {t \in Threads : pc[t] # "idle"}
Demand == Cardinality(live) + Cardinality(Busy)
Destroyed == deleted # <<>>

-----------------------------------------------------------------------------
(* The constructor queues a first, empty slab. *)
Init ==
  \E s \in Slabs :
    /\ num_free = [x \in Slabs |-> IF x = s THEN MaxSlots ELSE 0]
    /\ free_slots = [x \in Slabs |-> IF x = s THEN Bits ELSE {}]
    /\ all_slabs = {s}
    /\ queue = <<s>>
    /\ consumerLock = FALSE
    /\ producerLock = FALSE
    /\ pc = [t \in Threads |-> "idle"]
    /\ slab = [t \in Threads |-> NoSlab]
    /\ slot = [t \in Threads |-> NoSlot]
    /\ expected = [t \in Threads |-> {}]
    /\ live = {}
    /\ deleted = <<>>

-----------------------------------------------------------------------------
(* allocate() and, inside it, pop_front *)

CallAllocate(t) ==
  /\ At(t, "idle")
  /\ ~Destroyed
  /\ Demand < MaxDemand
  /\ Goto(t, "acquire_consumer")
  /\ UNCHANGED <<slabVars, all_slabs, queue, locks, locals, client>>

AcquireConsumer(t) ==
  /\ At(t, "acquire_consumer")
  /\ ~consumerLock
  /\ consumerLock' = TRUE
  /\ Goto(t, "read_next")
  /\ UNCHANGED <<slabVars, all_slabs, queue, producerLock, locals, client>>

(* theNext = first->next, and val = theNext->value when there is one *)
ReadNext(t) ==
  /\ At(t, "read_next")
  /\ \/ /\ queue # <<>>
        /\ slab' = [slab EXCEPT ![t] = Head(queue)]
        /\ Goto(t, "lock_slot")
     \/ /\ queue = <<>>
        /\ Goto(t, "try_producer")
        /\ UNCHANGED slab
  /\ UNCHANGED <<slabVars, all_slabs, queue, locks, slot, expected, client>>

(* Mutant: the slab is unlinked one reservation too late. *)
AfterLockLate(s) ==
  IF NumFreeAfterLock(s) >= 0 THEN "unlock_consumer" ELSE "swing_first"

(* The slab stays queued unless its last slot has just been reserved. *)
AfterLock(s) ==
  IF NumFreeAfterLock(s) # 0 THEN "unlock_consumer" ELSE "swing_first"

ReserveSlot(t) ==
  /\ At(t, "lock_slot")
  /\ LockSlot(slab[t])
  /\ Goto(t, AfterLock(slab[t]))
  /\ UNCHANGED <<all_slabs, queue, locks, locals, client>>

SwingFirst(t) ==
  /\ At(t, "swing_first")
  /\ queue' = Tail(queue)
  /\ Goto(t, "unlock_consumer")
  /\ UNCHANGED <<slabVars, all_slabs, locks, locals, client>>

UnlockConsumer(t) ==
  /\ At(t, "unlock_consumer")
  /\ consumerLock' = FALSE
  /\ Goto(t, "load_word")
  /\ UNCHANGED <<slabVars, all_slabs, queue, producerLock, locals, client>>

(* Mutant: the result of the exchange is ignored. *)
TakeProducer(t) ==
  /\ At(t, "try_producer")
  /\ producerLock' = TRUE
  /\ Goto(t, "new_slab")
  /\ UNCHANGED <<slabVars, all_slabs, queue, consumerLock, locals, client>>

(* The queue was empty: the consumer tries, once, to become a producer. *)
TryProducer(t) ==
  /\ At(t, "try_producer")
  /\ producerLock' = TRUE
  /\ Goto(t, IF producerLock THEN "give_up" ELSE "new_slab")
  /\ UNCHANGED <<slabVars, all_slabs, queue, consumerLock, locals, client>>

(* Mutant: pop_front returns false without releasing consumerLock. *)
GiveUpLocked(t) ==
  /\ At(t, "give_up")
  /\ Goto(t, "acquire_consumer")
  /\ UNCHANGED <<slabVars, all_slabs, queue, locks, locals, client>>

(* pop_front returns false and allocate calls it again. *)
GiveUp(t) ==
  /\ At(t, "give_up")
  /\ consumerLock' = FALSE
  /\ Goto(t, "acquire_consumer")
  /\ UNCHANGED <<slabVars, all_slabs, queue, producerLock, locals, client>>

(* Mutant: the new slab is not recorded in all_slabs. *)
NewSlabUnrecorded(t) ==
  /\ At(t, "new_slab")
  /\ \E s \in Slabs \ all_slabs :
       /\ ConstructReserved(s)
       /\ slab' = [slab EXCEPT ![t] = s]
  /\ Goto(t, "publish_new")
  /\ UNCHANGED <<all_slabs, queue, locks, slot, expected, client>>

(* new Slab, all_slabs.push_back, new Node, num_free.fetch_sub: no other   *)
(* thread can see any of it before the next step.                          *)
NewSlab(t) ==
  /\ At(t, "new_slab")
  /\ \E s \in Slabs \ all_slabs :
       /\ ConstructReserved(s)
       /\ all_slabs' = all_slabs \cup {s}
       /\ slab' = [slab EXCEPT ![t] = s]
  /\ Goto(t, "publish_new")
  /\ UNCHANGED <<queue, locks, slot, expected, client>>

PublishNew(t) ==
  /\ At(t, "publish_new")
  /\ queue' = Append(queue, slab[t])
  /\ Goto(t, "unlock_new")
  /\ UNCHANGED <<slabVars, all_slabs, locks, locals, client>>

(* Mutant: producerLock stays taken after a slab was added. *)
UnlockNewForgotten(t) ==
  /\ At(t, "unlock_new")
  /\ Goto(t, "unlock_consumer")
  /\ UNCHANGED <<slabVars, all_slabs, queue, locks, locals, client>>

UnlockNew(t) ==
  /\ At(t, "unlock_new")
  /\ producerLock' = FALSE
  /\ Goto(t, "unlock_consumer")
  /\ UNCHANGED <<slabVars, all_slabs, queue, consumerLock, locals, client>>

-----------------------------------------------------------------------------
(* allocate(), after pop_front: get_pointer *)

(* The head of the loop, on the word just read: ffsll(0) - 1 is -1. *)
SeeWord(t) ==
  /\ expected' = [expected EXCEPT ![t] = free_slots[slab[t]]]
  /\ Goto(t, IF free_slots[slab[t]] = {} THEN "nullptr" ELSE "claim")
  /\ UNCHANGED <<slabVars, all_slabs, queue, locks, slab, slot, client>>

LoadWord(t) == At(t, "load_word") /\ SeeWord(t)

Claim(t) ==
  /\ At(t, "claim")
  /\ ClaimBit(slab[t], expected[t])
  /\ live' = live \cup {<<slab[t], LowestFree(expected[t])>>}
  /\ Return(t)
  /\ UNCHANGED <<all_slabs, queue, locks, deleted>>

(* A failed exchange loads the word again. *)
ClaimAgain(t) ==
  /\ At(t, "claim")
  /\ free_slots[slab[t]] # expected[t]
  /\ SeeWord(t)

-----------------------------------------------------------------------------
(* deallocate(): release_slot and, when the slab was full, push_back *)

(* A client gives up a pointer it owns; find_slab_info recovers the slab   *)
(* and the slot from its address.                                          *)
CallDeallocate(t) ==
  /\ At(t, "idle")
  /\ \E p \in live :
       /\ live' = live \ {p}
       /\ slab' = [slab EXCEPT ![t] = p[1]]
       /\ slot' = [slot EXCEPT ![t] = p[2]]
  /\ Goto(t, "load_bits")
  /\ UNCHANGED <<slabVars, all_slabs, queue, locks, expected, deleted>>

SeeBits(t) ==
  /\ expected' = [expected EXCEPT ![t] = free_slots[slab[t]]]
  /\ Goto(t, "set_bit")
  /\ UNCHANGED <<slabVars, all_slabs, queue, locks, slab, slot, client>>

LoadBits(t) == At(t, "load_bits") /\ SeeBits(t)

SetBit(t) ==
  /\ At(t, "set_bit")
  /\ ReleaseBit(slab[t], expected[t], slot[t])
  /\ expected' = [expected EXCEPT ![t] = {}]
  /\ Goto(t, "add_free")
  /\ UNCHANGED <<all_slabs, queue, locks, slab, slot, client>>

SetBitAgain(t) ==
  /\ At(t, "set_bit")
  /\ free_slots[slab[t]] # expected[t]
  /\ SeeBits(t)

(* Mutant: a slab with one free slot, queued already, is pushed as well. *)
AddFreeEager(t) ==
  /\ At(t, "add_free")
  /\ ReleaseCount(slab[t])
  /\ \/ /\ num_free[slab[t]] <= 1
        /\ Goto(t, "acquire_producer")
        /\ UNCHANGED locals
     \/ /\ num_free[slab[t]] > 1
        /\ Return(t)
  /\ UNCHANGED <<all_slabs, queue, locks, client>>

(* The old count tells whether the slab is missing from the queue. *)
AddFree(t) ==
  /\ At(t, "add_free")
  /\ ReleaseCount(slab[t])
  /\ \/ /\ num_free[slab[t]] = 0
        /\ Goto(t, "acquire_producer")
        /\ UNCHANGED locals
     \/ /\ num_free[slab[t]] # 0
        /\ Return(t)
  /\ UNCHANGED <<all_slabs, queue, locks, client>>

AcquireProducer(t) ==
  /\ At(t, "acquire_producer")
  /\ ~producerLock
  /\ producerLock' = TRUE
  /\ Goto(t, "publish")
  /\ UNCHANGED <<slabVars, all_slabs, queue, consumerLock, locals, client>>

(* Mutant: the node is never linked. *)
PublishLost(t) ==
  /\ At(t, "publish")
  /\ Goto(t, "unlock_producer")
  /\ UNCHANGED <<slabVars, all_slabs, queue, locks, locals, client>>

Publish(t) ==
  /\ At(t, "publish")
  /\ queue' = Append(queue, slab[t])
  /\ Goto(t, "unlock_producer")
  /\ UNCHANGED <<slabVars, all_slabs, locks, locals, client>>

UnlockProducer(t) ==
  /\ At(t, "unlock_producer")
  /\ producerLock' = FALSE
  /\ Return(t)
  /\ UNCHANGED <<slabVars, all_slabs, queue, consumerLock, client>>

-----------------------------------------------------------------------------
(* ~LowLockQueue, once the last copy of the allocator is gone: no call is  *)
(* in progress, and clients have returned every pointer.  Each slab in the *)
(* queue is deleted.                                                       *)
Destroy ==
  /\ Busy = {} /\ live = {}
  /\ ~Destroyed
  /\ deleted' = queue
  /\ queue' = <<>>
  /\ UNCHANGED <<slabVars, all_slabs, locks, pc, locals, live>>

(* Nothing happens after that. *)
Gone == Destroyed /\ UNCHANGED vars

Call(t) == CallAllocate(t) \/ CallDeallocate(t)

Step(t) ==
  \/ AcquireConsumer(t) \/ ReadNext(t) \/ ReserveSlot(t) \/ SwingFirst(t)
  \/ UnlockConsumer(t) \/ TryProducer(t) \/ GiveUp(t)
  \/ NewSlab(t) \/ PublishNew(t) \/ UnlockNew(t)
  \/ LoadWord(t) \/ Claim(t) \/ ClaimAgain(t)
  \/ LoadBits(t) \/ SetBit(t) \/ SetBitAgain(t) \/ AddFree(t)
  \/ AcquireProducer(t) \/ Publish(t) \/ UnlockProducer(t)

Next ==
  \/ \E t \in Threads : Call(t) \/ Step(t)
  \/ Destroy
  \/ Gone

Spec == Init /\ [][Next]_vars

(* The operating system schedules every thread; nothing makes a client     *)
(* call, and nothing makes a spin lock fair.                               *)
Fairness == \A t \in Threads : WF_vars(Step(t))

-----------------------------------------------------------------------------
(* Type invariant. *)
TypeOK ==
  /\ num_free \in [Slabs -> Int]
  /\ free_slots \in [Slabs -> SUBSET Bits]
  /\ all_slabs \in SUBSET Slabs
  /\ queue \in Seq(all_slabs)
  /\ consumerLock \in BOOLEAN
  /\ producerLock \in BOOLEAN
  /\ pc \in [Threads -> {"idle"} \cup AllocateSteps \cup DeallocateSteps]
  /\ slab \in [Threads -> all_slabs \cup {NoSlab}]
  /\ slot \in [Threads -> Bits \cup {NoSlot}]
  /\ expected \in [Threads -> SUBSET Bits]
  /\ live \in SUBSET (all_slabs \X Bits)
  /\ deleted \in Seq(all_slabs)

(* Both spin locks exclude: at most one thread is between the exchange     *)
(* that takes a lock and the store that releases it, and the flag is set   *)
(* exactly then.  TryProducer overwrites a flag another thread has set,    *)
(* and three different paths of pop_front release consumerLock.            *)
LocksExclude ==
  /\ \A t, u \in Threads : pc[t] \in InConsumer /\ pc[u] \in InConsumer => t = u
  /\ \A t, u \in Threads : pc[t] \in InProducer /\ pc[u] \in InProducer => t = u
  /\ consumerLock <=> \E t \in Threads : pc[t] \in InConsumer
  /\ producerLock <=> \E t \in Threads : pc[t] \in InProducer

(* A pointer a client owns, or one that deallocate has taken back but not  *)
(* yet marked, has its bit at 0, and no two of these are the same slot: so *)
(* the exchange in get_pointer can hand no slot out twice, however stale   *)
(* the word it started from.                                               *)
Unmarking == {t \in Threads : pc[t] \in {"load_bits", "set_bit"}}

SlotsOwnedOnce ==
  /\ \A p \in live : p[2] \notin free_slots[p[1]]
  /\ \A t \in Unmarking :
       /\ slot[t] \notin free_slots[slab[t]]
       /\ <<slab[t], slot[t]>> \notin live
  /\ \A t, u \in Unmarking : slab[t] = slab[u] /\ slot[t] = slot[u] => t = u

(* And no slot is lost: a bit at 0 is that of a pointer a client owns or   *)
(* that deallocate is about to mark, although exchanges on the same word   *)
(* fail and are retried with whatever other threads have made of it.       *)
NoSlotLost ==
  \A s \in all_slabs : \A b \in Bits \ free_slots[s] :
    <<s, b>> \in live \/ \E t \in Unmarking : slab[t] = s /\ slot[t] = b

(* num_free counts the slots nobody has reserved.  A reservation starts in *)
(* lock_slot, before the slot is known, and ends in release_slot, after    *)
(* the bit is set again: the counter is behind the bitmap at both ends.    *)
Reserving ==
  {"swing_first", "unlock_consumer", "publish_new", "unlock_new", "load_word",
   "claim", "nullptr", "load_bits", "set_bit", "add_free"}
LiveOn(s) == {p \in live : p[1] = s}
HoldersOn(s) == {t \in Threads : slab[t] = s /\ pc[t] \in Reserving}

CounterExact ==
  \A s \in all_slabs :
    num_free[s] + Cardinality(LiveOn(s)) + Cardinality(HoldersOn(s)) = MaxSlots

(* allocate() never returns nullptr and never hands out the last bit of    *)
(* the word, which has no memory behind it: get_pointer relies on its      *)
(* PRECONDITION (lock_slot first) for both.                                *)
AllocateAnswers ==
  /\ \A t \in Threads : pc[t] # "nullptr"
  /\ \A p \in live : p[2] \in Slots

(* The queue offers every slab that has an unreserved slot, once, and no   *)
(* other.  A slab is missing only while the thread that made it non-full   *)
(* has not linked it yet, and the head may be full only while the thread   *)
(* that took its last slot has not unlinked it yet.  deallocate() pushes   *)
(* on the strength of the counter alone, with no lock that would stop      *)
(* pop_front from working on the same slab.                                *)
Offered == {i \in 1 .. Len(queue) : i = 1 => \A t \in Threads : pc[t] # "swing_first"}
Pushing == {t \in Threads : pc[t] \in {"acquire_producer", "publish", "publish_new"}}

NoOverdraft == \A s \in all_slabs : num_free[s] >= 0

OfferedFree ==
  /\ \A i \in Offered : num_free[queue[i]] > 0
  /\ \A i, j \in Offered : queue[i] = queue[j] => i = j

PushersApart ==
  /\ \A t \in Pushing : num_free[slab[t]] > 0 /\ \A i \in Offered : queue[i] # slab[t]
  /\ \A t, u \in Pushing : slab[t] = slab[u] => t = u

NoneForgotten ==
  ~Destroyed =>
    \A s \in all_slabs :
      num_free[s] > 0 =>
        (\E i \in Offered : queue[i] = s) \/ (\E t \in Pushing : slab[t] = s)

OfferedOnce == NoOverdraft /\ OfferedFree /\ PushersApart /\ NoneForgotten

(* When the clients have returned everything, ~LowLockQueue deletes every  *)
(* slab the allocator ever created, each exactly once: nothing leaks and   *)
(* nothing is freed twice, although slabs leave and enter the queue all    *)
(* the time and the destructor looks nowhere else.                         *)
DeletedOnce ==
  Destroyed =>
    /\ {deleted[i] : i \in DOMAIN deleted} = all_slabs
    /\ \A i, j \in DOMAIN deleted : deleted[i] = deleted[j] => i = j

(* A slab is created although others have free slots when these are still  *)
(* to be pushed, or are pushed after the creator has seen the queue empty. *)
(* Still the waste is bounded: the threads' calls can hide one slab each,  *)
(* and all other slabs were full.                                          *)
SlabsBounded ==
  LET n == Cardinality(Threads) IN
  Cardinality(all_slabs) <=
    IF MaxDemand >= n THEN n + (MaxDemand - n) \div MaxSlots ELSE MaxDemand

-----------------------------------------------------------------------------
(* To its clients the allocator is a SlotPool: every return of allocate()  *)
(* gives a slot inside a slab that no client holds at that moment.         *)
Operation(t) ==
  IF pc[t] = "idle" THEN "none"
  ELSE IF pc[t] \in AllocateSteps THEN "allocate" ELSE "deallocate"

Pool == INSTANCE SlotPool
          WITH Pointers <- Slabs \X Slots,
               op <- [t \in Threads |-> Operation(t)]

IsSlotPool == Pool!PoolSpec

(* Whoever takes a spin lock releases it. *)
LocksReleased ==
  /\ consumerLock ~> ~consumerLock
  /\ producerLock ~> ~producerLock

(* The allocator as a whole never hangs: unless all threads are idle again *)
(* and again, calls keep returning.  (A single call may spin for ever: the *)
(* locks are unfair, and pop_front fails while others push.)               *)
Returns(t) == pc[t] # "idle" /\ pc'[t] = "idle"
CallsKeepReturning ==
  \/ []<>(Busy = {})
  \/ []<><<\E t \in Threads : Returns(t)>>_vars
=============================================================================
