---------------------- MODULE LockFreeAllocator_proof ----------------------
(***************************************************************************)
(* Proofs about LockFreeAllocator, for any number of threads, slabs and    *)
(* slots.  The invariants are proved in the order in which they need each  *)
(* other: the locks, types and locals, ownership of slots, the queue; what *)
(* the counters count, why allocate() always returns a slot of the slab,   *)
(* so that the allocator implements SlotPool, what the destructor deletes, *)
(* and how many slabs there can be.                                        *)
(***************************************************************************)
EXTENDS LockFreeAllocator, DataLemmas, FiniteSetTheorems, SequenceTheorems

-----------------------------------------------------------------------------
(* The locks *)

LocksTyped ==
  /\ pc \in [Threads -> {"idle"} \cup AllocateSteps \cup DeallocateSteps]
  /\ consumerLock \in BOOLEAN
  /\ producerLock \in BOOLEAN

LEMMA InitLocks == Init => LocksTyped /\ LocksExclude
  BY DEF Init, LocksTyped, LocksExclude, InConsumer, InProducer

LEMMA StepLocks ==
  LocksTyped /\ LocksExclude /\ [Next]_vars => LocksTyped' /\ LocksExclude'
<1> SUFFICES ASSUME LocksTyped, LocksExclude, [Next]_vars
             PROVE  LocksTyped' /\ LocksExclude'
  OBVIOUS
<1> USE DEF LocksTyped, LocksExclude, At, Goto, locks, InConsumer, InProducer,
        AllocateSteps, DeallocateSteps
<1>1. ASSUME NEW t \in Threads, CallAllocate(t) PROVE LocksTyped' /\ LocksExclude'
  BY <1>1 DEF CallAllocate
<1>2. ASSUME NEW t \in Threads, AcquireConsumer(t) PROVE LocksTyped' /\ LocksExclude'
  BY <1>2 DEF AcquireConsumer
<1>3. ASSUME NEW t \in Threads, ReadNext(t) PROVE LocksTyped' /\ LocksExclude'
  BY <1>3 DEF ReadNext
<1>4. ASSUME NEW t \in Threads, ReserveSlot(t) PROVE LocksTyped' /\ LocksExclude'
  BY <1>4 DEF ReserveSlot, AfterLock
<1>5. ASSUME NEW t \in Threads, SwingFirst(t) PROVE LocksTyped' /\ LocksExclude'
  BY <1>5 DEF SwingFirst
<1>6. ASSUME NEW t \in Threads, UnlockConsumer(t) PROVE LocksTyped' /\ LocksExclude'
  BY <1>6 DEF UnlockConsumer
<1>7. ASSUME NEW t \in Threads, TryProducer(t) PROVE LocksTyped' /\ LocksExclude'
  BY <1>7 DEF TryProducer
<1>8. ASSUME NEW t \in Threads, GiveUp(t) PROVE LocksTyped' /\ LocksExclude'
  BY ZenonT(30), <1>8 DEF GiveUp
<1>9. ASSUME NEW t \in Threads, NewSlab(t) PROVE LocksTyped' /\ LocksExclude'
  BY <1>9 DEF NewSlab
<1>10. ASSUME NEW t \in Threads, PublishNew(t) PROVE LocksTyped' /\ LocksExclude'
  BY <1>10 DEF PublishNew
<1>11. ASSUME NEW t \in Threads, UnlockNew(t) PROVE LocksTyped' /\ LocksExclude'
  BY <1>11 DEF UnlockNew
<1>12. ASSUME NEW t \in Threads, LoadWord(t) PROVE LocksTyped' /\ LocksExclude'
  BY <1>12 DEF LoadWord, SeeWord
<1>13. ASSUME NEW t \in Threads, Claim(t) PROVE LocksTyped' /\ LocksExclude'
  BY <1>13 DEF Claim, Return
<1>14. ASSUME NEW t \in Threads, ClaimAgain(t) PROVE LocksTyped' /\ LocksExclude'
  BY <1>14 DEF ClaimAgain, SeeWord
<1>15. ASSUME NEW t \in Threads, CallDeallocate(t) PROVE LocksTyped' /\ LocksExclude'
  BY <1>15 DEF CallDeallocate
<1>16. ASSUME NEW t \in Threads, LoadBits(t) PROVE LocksTyped' /\ LocksExclude'
  BY <1>16 DEF LoadBits, SeeBits
<1>17. ASSUME NEW t \in Threads, SetBit(t) PROVE LocksTyped' /\ LocksExclude'
  BY <1>17 DEF SetBit
<1>18. ASSUME NEW t \in Threads, SetBitAgain(t) PROVE LocksTyped' /\ LocksExclude'
  BY <1>18 DEF SetBitAgain, SeeBits
<1>19. ASSUME NEW t \in Threads, AddFree(t) PROVE LocksTyped' /\ LocksExclude'
  BY <1>19 DEF AddFree, Return
<1>20. ASSUME NEW t \in Threads, AcquireProducer(t) PROVE LocksTyped' /\ LocksExclude'
  BY <1>20 DEF AcquireProducer
<1>21. ASSUME NEW t \in Threads, Publish(t) PROVE LocksTyped' /\ LocksExclude'
  BY <1>21 DEF Publish
<1>22. ASSUME NEW t \in Threads, UnlockProducer(t) PROVE LocksTyped' /\ LocksExclude'
  BY <1>22 DEF UnlockProducer, Return
<1>23. CASE Destroy
  BY <1>23 DEF Destroy
<1>24. CASE UNCHANGED vars
  BY <1>24 DEF vars
<1>25. QED
  BY <1>1, <1>2, <1>3, <1>4, <1>5, <1>6, <1>7, <1>8, <1>9, <1>10, <1>11, <1>12,
     <1>13, <1>14, <1>15, <1>16, <1>17, <1>18, <1>19, <1>20, <1>21, <1>22, <1>23, <1>24
  DEF Next, Call, Step, Gone

(* Both spin locks exclude: at most one thread is between taking a lock    *)
(* and releasing it, and the flag is set exactly then.                     *)
THEOREM LocksCorrect == Spec => []LocksExclude
<1>1. Spec => [](LocksTyped /\ LocksExclude)
  BY InitLocks, StepLocks, PTL DEF Spec
<1>2. QED
  BY <1>1, PTL

-----------------------------------------------------------------------------
(* Types, and what the locals hold at the program points that use them *)

UsesSlab ==
  {"lock_slot", "swing_first", "unlock_consumer", "publish_new", "unlock_new",
   "load_word", "claim", "nullptr", "load_bits", "set_bit", "add_free",
   "acquire_producer", "publish"}

LocalsOK ==
  /\ \A t \in Threads : pc[t] \in UsesSlab => slab[t] \in all_slabs
  /\ \A t \in Threads : pc[t] \in {"load_bits", "set_bit"} => slot[t] \in Bits
  /\ \A t \in Threads : pc[t] = "claim" => expected[t] # {}

(* pop_front works on the slab at the head, which stays there.             *)
AtHead ==
  \A t \in Threads :
    pc[t] \in {"lock_slot", "swing_first"} => queue # <<>> /\ slab[t] = Head(queue)

Typed == TypeOK /\ LocalsOK /\ AtHead

LEMMA SeqGrows ==
  ASSUME NEW S, NEW T, S \subseteq T, NEW q \in Seq(S)
  PROVE  q \in Seq(T)
OBVIOUS

LEMMA HeadAppend ==
  ASSUME NEW S, NEW q \in Seq(S), NEW x \in S
  PROVE  /\ Append(q, x) \in Seq(S)
         /\ Append(q, x) # <<>>
         /\ q # <<>> => Head(Append(q, x)) = Head(q)
<1>1. q # <<>> => Len(q) \in Nat \ {0}
  BY EmptySeq
<1>2. q # <<>> => Append(q, x)[1] = q[1]
  BY <1>1, AppendProperties
<1>3. QED
  BY <1>2, AppendProperties

(* The lowest bit of a word that is not 0 is one of its bits.              *)
LEMMA LowestFreeIsFree ==
  ASSUME NEW fs \in SUBSET Bits, fs # {}
  PROVE  LowestFree(fs) \in fs
<1>1. fs \in SUBSET Nat
  BY MaxSlotsAssumption DEF Bits
<1>2. QED
  BY <1>1, MinIsLeast DEF LowestFree

LEMMA InitTyped == Init => Typed
<1> SUFFICES ASSUME Init PROVE Typed
  OBVIOUS
<1>1. PICK s \in Slabs : queue = <<s>> /\ all_slabs = {s} /\
             num_free = [x \in Slabs |-> IF x = s THEN MaxSlots ELSE 0] /\
             free_slots = [x \in Slabs |-> IF x = s THEN Bits ELSE {}]
  BY DEF Init
<1>2. num_free \in [Slabs -> Int]
  BY <1>1, MaxSlotsAssumption
<1>3. free_slots \in [Slabs -> SUBSET Bits]
  BY <1>1
<1>4. queue \in Seq(all_slabs)
  BY <1>1
<1>5. deleted \in Seq(all_slabs) /\ live \in SUBSET (all_slabs \X Bits)
  BY DEF Init
<1>6. pc = [t \in Threads |-> "idle"] /\ LocalsOK /\ AtHead
  BY DEF Init, LocalsOK, AtHead, UsesSlab
<1>7. /\ slab \in [Threads -> all_slabs \cup {NoSlab}]
      /\ slot \in [Threads -> Bits \cup {NoSlot}]
      /\ expected \in [Threads -> SUBSET Bits]
      /\ consumerLock \in BOOLEAN /\ producerLock \in BOOLEAN
  BY DEF Init
<1>8. pc \in [Threads -> {"idle"} \cup AllocateSteps \cup DeallocateSteps]
  BY <1>6
<1>9. QED
  BY <1>1, <1>2, <1>3, <1>4, <1>5, <1>6, <1>7, <1>8 DEF Typed, TypeOK

LEMMA StepTyped == Typed /\ LocksExclude /\ [Next]_vars => Typed'
<1> SUFFICES ASSUME Typed, LocksExclude, [Next]_vars PROVE Typed'
  OBVIOUS
<1> USE DEF Typed, TypeOK, LocalsOK, AtHead, UsesSlab, At, Goto, slabVars, locks, locals,
        client, AllocateSteps, DeallocateSteps
<1>1. ASSUME NEW t \in Threads, CallAllocate(t) PROVE Typed'
  BY <1>1 DEF CallAllocate
<1>2. ASSUME NEW t \in Threads, AcquireConsumer(t) PROVE Typed'
  BY <1>2 DEF AcquireConsumer
<1>3. ASSUME NEW t \in Threads, ReadNext(t) PROVE Typed'
  <2>1. queue # <<>> => Head(queue) \in all_slabs
    BY HeadTailProperties
  <2>2. CASE queue # <<>> /\ Goto(t, "lock_slot")
    <3>1. slab' = [slab EXCEPT ![t] = Head(queue)]
      BY <1>3, <2>2 DEF ReadNext
    <3>2. QED
      BY <1>3, <2>1, <2>2, <3>1 DEF ReadNext
  <2>3. CASE queue = <<>> /\ Goto(t, "try_producer")
    BY <1>3, <2>3 DEF ReadNext
  <2>4. QED
    BY <1>3, <2>2, <2>3 DEF ReadNext
<1>4. ASSUME NEW t \in Threads, ReserveSlot(t) PROVE Typed'
  BY <1>4 DEF ReserveSlot, LockSlot, NumFreeAfterLock, AfterLock
<1>5. ASSUME NEW t \in Threads, SwingFirst(t) PROVE Typed'
  <2>1. queue' \in Seq(all_slabs)
    BY <1>5, HeadTailProperties DEF SwingFirst
  <2>2. \A u \in Threads : pc'[u] \notin {"lock_slot", "swing_first"}
    BY <1>5 DEF SwingFirst, LocksExclude, InConsumer
  <2>3. QED
    BY <1>5, <2>1, <2>2 DEF SwingFirst
<1>6. ASSUME NEW t \in Threads, UnlockConsumer(t) PROVE Typed'
  BY <1>6 DEF UnlockConsumer
<1>7. ASSUME NEW t \in Threads, TryProducer(t) PROVE Typed'
  BY <1>7 DEF TryProducer
<1>8. ASSUME NEW t \in Threads, GiveUp(t) PROVE Typed'
  BY <1>8 DEF GiveUp
<1>9. ASSUME NEW t \in Threads, NewSlab(t) PROVE Typed'
  BY <1>9, SeqGrows, MaxSlotsAssumption DEF NewSlab, ConstructReserved, Bits
<1>10. ASSUME NEW t \in Threads, PublishNew(t) PROVE Typed'
  <2>1. slab[t] \in all_slabs /\ pc[t] = "publish_new"
    BY <1>10 DEF PublishNew
  <2>2. /\ queue' \in Seq(all_slabs)
        /\ queue # <<>> => queue' # <<>> /\ Head(queue') = Head(queue)
    BY <1>10, <2>1, HeadAppend DEF PublishNew
  <2>3. QED
    BY <1>10, <2>1, <2>2 DEF PublishNew
<1>11. ASSUME NEW t \in Threads, UnlockNew(t) PROVE Typed'
  BY <1>11 DEF UnlockNew
<1>12. ASSUME NEW t \in Threads, LoadWord(t) PROVE Typed'
  BY <1>12 DEF LoadWord, SeeWord
<1>13. ASSUME NEW t \in Threads, Claim(t) PROVE Typed'
  <2>1. expected[t] \in SUBSET Bits /\ expected[t] # {}
    BY <1>13 DEF Claim
  <2>2. LowestFree(expected[t]) \in Bits
    BY <2>1, LowestFreeIsFree
  <2>3. QED
    BY <1>13, <2>1, <2>2 DEF Claim, ClaimBit, CompareExchange, Return
<1>14. ASSUME NEW t \in Threads, ClaimAgain(t) PROVE Typed'
  BY <1>14 DEF ClaimAgain, SeeWord
<1>15. ASSUME NEW t \in Threads, CallDeallocate(t) PROVE Typed'
  BY <1>15 DEF CallDeallocate
<1>16. ASSUME NEW t \in Threads, LoadBits(t) PROVE Typed'
  BY <1>16 DEF LoadBits, SeeBits
<1>17. ASSUME NEW t \in Threads, SetBit(t) PROVE Typed'
  BY <1>17 DEF SetBit, ReleaseBit, CompareExchange
<1>18. ASSUME NEW t \in Threads, SetBitAgain(t) PROVE Typed'
  BY <1>18 DEF SetBitAgain, SeeBits
<1>19. ASSUME NEW t \in Threads, AddFree(t) PROVE Typed'
  <2>1. num_free' \in [Slabs -> Int]
    BY <1>19 DEF AddFree, ReleaseCount
  <2>2. CASE Goto(t, "acquire_producer") /\ UNCHANGED locals
    BY <1>19, <2>1, <2>2 DEF AddFree, ReleaseCount
  <2>3. CASE Return(t)
    BY <1>19, <2>1, <2>3 DEF AddFree, ReleaseCount, Return
  <2>4. QED
    BY <1>19, <2>2, <2>3 DEF AddFree
<1>20. ASSUME NEW t \in Threads, AcquireProducer(t) PROVE Typed'
  BY <1>20 DEF AcquireProducer
<1>21. ASSUME NEW t \in Threads, Publish(t) PROVE Typed'
  BY <1>21, HeadAppend DEF Publish
<1>22. ASSUME NEW t \in Threads, UnlockProducer(t) PROVE Typed'
  BY <1>22 DEF UnlockProducer, Return
<1>23. CASE Destroy
  <2>1. \A t \in Threads : pc[t] = "idle"
    BY <1>23 DEF Destroy, Busy
  <2>2. QED
    BY <1>23, <2>1 DEF Destroy
<1>24. CASE UNCHANGED vars
  BY <1>24 DEF vars
<1>25. QED
  BY <1>1, <1>2, <1>3, <1>4, <1>5, <1>6, <1>7, <1>8, <1>9, <1>10, <1>11, <1>12,
     <1>13, <1>14, <1>15, <1>16, <1>17, <1>18, <1>19, <1>20, <1>21, <1>22, <1>23, <1>24
  DEF Next, Call, Step, Gone

LEMMA TypedAlways == Spec => []Typed
  BY LocksCorrect, InitTyped, StepTyped, PTL DEF Spec

(* Type correctness, for every number of threads, slabs and slots.         *)
THEOREM TypeCorrect == Spec => []TypeOK
<1>1. Typed => TypeOK
  BY DEF Typed
<1>2. QED
  BY <1>1, TypedAlways, PTL

-----------------------------------------------------------------------------
(* Ownership of slots *)

LEMMA InitOwned == Init => SlotsOwnedOnce
  BY DEF Init, SlotsOwnedOnce, Unmarking

LEMMA StepOwned == Typed /\ SlotsOwnedOnce /\ [Next]_vars => SlotsOwnedOnce'
<1> SUFFICES ASSUME Typed, SlotsOwnedOnce, [Next]_vars PROVE SlotsOwnedOnce'
  OBVIOUS
<1>a. /\ free_slots \in [Slabs -> SUBSET Bits] /\ all_slabs \subseteq Slabs
      /\ pc \in [Threads -> {"idle"} \cup AllocateSteps \cup DeallocateSteps]
      /\ slab \in [Threads -> all_slabs \cup {NoSlab}]
      /\ slot \in [Threads -> Bits \cup {NoSlot}]
      /\ live \subseteq all_slabs \X Bits
      /\ \A t \in Unmarking : slab[t] \in all_slabs
  BY DEF Typed, TypeOK, LocalsOK, UsesSlab, Unmarking
<1> USE <1>a DEF SlotsOwnedOnce, Unmarking, At, Goto, slabVars, locks, locals, client
<1>1. ASSUME NEW t \in Threads, CallAllocate(t) PROVE SlotsOwnedOnce'
  BY <1>1 DEF CallAllocate
<1>2. ASSUME NEW t \in Threads, AcquireConsumer(t) PROVE SlotsOwnedOnce'
  BY <1>2 DEF AcquireConsumer
<1>3. ASSUME NEW t \in Threads, ReadNext(t) PROVE SlotsOwnedOnce'
  BY <1>3 DEF ReadNext
<1>4. ASSUME NEW t \in Threads, ReserveSlot(t) PROVE SlotsOwnedOnce'
  BY <1>4 DEF ReserveSlot, LockSlot, AfterLock
<1>5. ASSUME NEW t \in Threads, SwingFirst(t) PROVE SlotsOwnedOnce'
  BY <1>5 DEF SwingFirst
<1>6. ASSUME NEW t \in Threads, UnlockConsumer(t) PROVE SlotsOwnedOnce'
  BY <1>6 DEF UnlockConsumer
<1>7. ASSUME NEW t \in Threads, TryProducer(t) PROVE SlotsOwnedOnce'
  BY <1>7 DEF TryProducer
<1>8. ASSUME NEW t \in Threads, GiveUp(t) PROVE SlotsOwnedOnce'
  BY <1>8 DEF GiveUp
<1>9. ASSUME NEW t \in Threads, NewSlab(t) PROVE SlotsOwnedOnce'
  <2>1. PICK s \in Slabs \ all_slabs : free_slots' = [free_slots EXCEPT ![s] = Bits]
                                      /\ slab' = [slab EXCEPT ![t] = s]
    BY <1>9 DEF NewSlab, ConstructReserved
  <2>2. pc' = [pc EXCEPT ![t] = "publish_new"] /\ pc[t] = "new_slab" /\ slot' = slot /\ live' = live
    BY <1>9 DEF NewSlab
  <2>3. \A x \in all_slabs : free_slots'[x] = free_slots[x]
    BY <2>1
  <2>4. \A u \in Threads : u # t => pc'[u] = pc[u] /\ slab'[u] = slab[u]
    BY <2>1, <2>2
  <2>5. pc'[t] = "publish_new"
    BY <2>2
  <2>6. QED
    BY <2>2, <2>3, <2>4, <2>5
<1>10. ASSUME NEW t \in Threads, PublishNew(t) PROVE SlotsOwnedOnce'
  BY <1>10 DEF PublishNew
<1>11. ASSUME NEW t \in Threads, UnlockNew(t) PROVE SlotsOwnedOnce'
  BY <1>11 DEF UnlockNew
<1>12. ASSUME NEW t \in Threads, LoadWord(t) PROVE SlotsOwnedOnce'
  BY <1>12 DEF LoadWord, SeeWord
<1>13. ASSUME NEW t \in Threads, Claim(t) PROVE SlotsOwnedOnce'
  <2> DEFINE word == expected[t]
             b == LowestFree(word)
  <2>1. /\ word \in SUBSET Bits /\ word # {} /\ slab[t] \in all_slabs
        /\ word = free_slots[slab[t]]
        /\ free_slots' = [free_slots EXCEPT ![slab[t]] = word \ {b}]
        /\ live' = live \cup {<<slab[t], b>>}
    BY <1>13 DEF Claim, ClaimBit, CompareExchange, Typed, TypeOK, LocalsOK, UsesSlab
  <2>2. b \in word
    BY <2>1, LowestFreeIsFree
  <2>3. \A u \in Threads : u # t => pc'[u] = pc[u] /\ slab'[u] = slab[u] /\ slot'[u] = slot[u]
    BY <1>13 DEF Claim, Return
  <2>4. pc'[t] = "idle"
    BY <1>13 DEF Claim, Return
  <2> HIDE DEF b, word
  <2>5. \A p \in live' : p[2] \notin free_slots'[p[1]]
    BY <2>1, <2>2
  <2>6. \A u \in Unmarking' : u # t /\ u \in Unmarking /\ slab'[u] = slab[u] /\ slot'[u] = slot[u]
    BY <2>3, <2>4
  <2>7. \A u \in Unmarking' : /\ slot'[u] \notin free_slots'[slab'[u]]
                             /\ <<slab'[u], slot'[u]>> \notin live'
    BY <2>1, <2>2, <2>6
  <2>8. QED
    BY <2>5, <2>6, <2>7
<1>14. ASSUME NEW t \in Threads, ClaimAgain(t) PROVE SlotsOwnedOnce'
  BY <1>14 DEF ClaimAgain, SeeWord
<1>15. ASSUME NEW t \in Threads, CallDeallocate(t) PROVE SlotsOwnedOnce'
  <2>1. PICK p \in live : /\ live' = live \ {p}
                          /\ slab' = [slab EXCEPT ![t] = p[1]]
                          /\ slot' = [slot EXCEPT ![t] = p[2]]
    BY <1>15 DEF CallDeallocate
  <2>2. p = <<p[1], p[2]>> /\ p[1] \in all_slabs
    OBVIOUS
  <2>3. pc[t] = "idle" /\ pc' = [pc EXCEPT ![t] = "load_bits"] /\ free_slots' = free_slots
    BY <1>15 DEF CallDeallocate
  <2>4. \A u \in Unmarking' : u # t => u \in Unmarking /\ slab'[u] = slab[u] /\ slot'[u] = slot[u]
    BY <2>1, <2>3
  <2>5. slab'[t] = p[1] /\ slot'[t] = p[2]
    BY <2>1
  <2>6. QED
    BY <2>1, <2>2, <2>3, <2>4, <2>5
<1>16. ASSUME NEW t \in Threads, LoadBits(t) PROVE SlotsOwnedOnce'
  BY <1>16 DEF LoadBits, SeeBits
<1>17. ASSUME NEW t \in Threads, SetBit(t) PROVE SlotsOwnedOnce'
  <2> DEFINE s == slab[t]
  <2>1. /\ s \in all_slabs /\ t \in Unmarking
        /\ free_slots' = [free_slots EXCEPT ![s] = free_slots[s] \cup {slot[t]}]
        /\ live' = live /\ slab' = slab /\ slot' = slot
        /\ pc' = [pc EXCEPT ![t] = "add_free"]
    BY <1>17 DEF SetBit, ReleaseBit, CompareExchange
  <2>2. \A u \in Unmarking' : u \in Unmarking /\ u # t
    BY <2>1
  <2>3. QED
    BY <2>1, <2>2
<1>18. ASSUME NEW t \in Threads, SetBitAgain(t) PROVE SlotsOwnedOnce'
  BY <1>18 DEF SetBitAgain, SeeBits
<1>19. ASSUME NEW t \in Threads, AddFree(t) PROVE SlotsOwnedOnce'
  BY <1>19 DEF AddFree, ReleaseCount, Return
<1>20. ASSUME NEW t \in Threads, AcquireProducer(t) PROVE SlotsOwnedOnce'
  BY <1>20 DEF AcquireProducer
<1>21. ASSUME NEW t \in Threads, Publish(t) PROVE SlotsOwnedOnce'
  BY <1>21 DEF Publish
<1>22. ASSUME NEW t \in Threads, UnlockProducer(t) PROVE SlotsOwnedOnce'
  BY <1>22 DEF UnlockProducer, Return
<1>23. CASE Destroy
  BY <1>23 DEF Destroy
<1>24. CASE UNCHANGED vars
  BY <1>24 DEF vars
<1>25. QED
  BY <1>1, <1>2, <1>3, <1>4, <1>5, <1>6, <1>7, <1>8, <1>9, <1>10, <1>11, <1>12,
     <1>13, <1>14, <1>15, <1>16, <1>17, <1>18, <1>19, <1>20, <1>21, <1>22, <1>23, <1>24
  DEF Next, Call, Step, Gone

(* No slot is handed out twice, whatever the interleaving of exchanges.    *)
THEOREM OwnershipCorrect == Spec => []SlotsOwnedOnce
<1>1. Spec => []Typed
  BY TypedAlways
<1>2. QED
  BY <1>1, InitOwned, StepOwned, PTL DEF Spec

-----------------------------------------------------------------------------
(* The queue offers every slab with an unreserved slot, once *)

LEMMA InitOffered == Init => OfferedOnce
<1> SUFFICES ASSUME Init PROVE OfferedOnce
  OBVIOUS
<1>1. PICK s \in Slabs : queue = <<s>> /\ all_slabs = {s} /\
             num_free = [x \in Slabs |-> IF x = s THEN MaxSlots ELSE 0]
  BY DEF Init
<1>2. num_free[s] = MaxSlots /\ MaxSlots \in Nat /\ num_free[s] > 0 /\ Len(queue) = 1 /\ queue[1] = s
  BY <1>1, MaxSlotsAssumption
<1>3. Offered = {1} /\ Pushing = {}
  BY <1>2 DEF Init, Offered, Pushing
<1>4. NoOverdraft
  BY <1>1, <1>2 DEF NoOverdraft
<1>5. OfferedFree
  BY <1>2, <1>3 DEF OfferedFree
<1>6. PushersApart
  BY <1>3 DEF PushersApart
<1>7. NoneForgotten
  BY <1>1, <1>2, <1>3 DEF NoneForgotten
<1>8. QED
  BY <1>4, <1>5, <1>6, <1>7 DEF OfferedOnce

(* Steps that change neither the queue nor a counter nor who pushes.       *)
LEMMA OfferedKept ==
  ASSUME OfferedOnce, queue' = queue, num_free' = num_free, all_slabs' = all_slabs,
         deleted' = deleted,
         \A t \in Threads : pc'[t] = "swing_first" <=> pc[t] = "swing_first",
         Pushing' = Pushing, \A t \in Pushing : slab'[t] = slab[t]
  PROVE  OfferedOnce'
<1>1. Offered' = Offered
  BY DEF Offered
<1>2. QED
  BY <1>1 DEF OfferedOnce, NoOverdraft, OfferedFree, PushersApart, NoneForgotten, Destroyed

(* A slab that is being pushed is linked at the end of the queue.          *)
LEMMA OfferedAppend ==
  ASSUME Typed, OfferedOnce, NEW t \in Pushing,
         pc[t] \in {"publish", "publish_new"},
         queue' = Append(queue, slab[t]),
         num_free' = num_free, all_slabs' = all_slabs, deleted' = deleted, slab' = slab,
         \A u \in Threads : pc'[u] = "swing_first" <=> pc[u] = "swing_first",
         Pushing' = Pushing \ {t}
  PROVE  OfferedOnce'
<1> DEFINE n == Len(queue)
<1>1. slab[t] \in all_slabs /\ queue \in Seq(all_slabs)
  BY DEF Typed, TypeOK, LocalsOK, UsesSlab, Pushing
<1>2. /\ n \in Nat /\ Len(queue') = n + 1
      /\ \A i \in 1 .. n : queue'[i] = queue[i]
      /\ queue'[n + 1] = slab[t]
  BY <1>1, AppendProperties, LenProperties
<1>3. n = 0 => \A u \in Threads : pc[u] # "swing_first"
  BY <1>1, EmptySeq DEF Typed, AtHead
<1>4. Offered' = Offered \cup {n + 1} /\ Offered \subseteq 1 .. n
  BY <1>2, <1>3 DEF Offered
<1> HIDE DEF n
<1>5. \A i \in Offered : i # n + 1 /\ queue'[i] = queue[i] /\ queue[i] # slab[t]
  BY <1>2, <1>4 DEF OfferedOnce, PushersApart
<1>6. num_free[slab[t]] > 0
  BY DEF OfferedOnce, PushersApart
<1>7. NoOverdraft'
  BY DEF OfferedOnce, NoOverdraft
<1>8. OfferedFree'
  BY <1>2, <1>4, <1>5, <1>6 DEF OfferedOnce, OfferedFree
<1>9. PushersApart'
  <2>1. \A u \in Pushing' : u \in Pushing /\ slab[u] # slab[t]
    BY DEF OfferedOnce, PushersApart
  <2>2. \A u \in Pushing' : num_free'[slab'[u]] > 0 /\ \A i \in Offered' : queue'[i] # slab'[u]
    BY <1>2, <1>4, <1>5, <2>1 DEF OfferedOnce, PushersApart
  <2>3. QED
    BY <2>1, <2>2 DEF OfferedOnce, PushersApart
<1>10. NoneForgotten'
  BY <1>2, <1>4, <1>5 DEF OfferedOnce, NoneForgotten, Destroyed
<1>11. QED
  BY <1>7, <1>8, <1>9, <1>10 DEF OfferedOnce

LEMMA StepOffered ==
  Typed /\ LocksExclude /\ OfferedOnce /\ [Next]_vars => OfferedOnce'
<1> SUFFICES ASSUME Typed, LocksExclude, OfferedOnce, [Next]_vars PROVE OfferedOnce'
  OBVIOUS
<1>a. /\ num_free \in [Slabs -> Int] /\ all_slabs \subseteq Slabs
      /\ queue \in Seq(all_slabs)
      /\ pc \in [Threads -> {"idle"} \cup AllocateSteps \cup DeallocateSteps]
      /\ slab \in [Threads -> all_slabs \cup {NoSlab}]
      /\ \A t \in Threads : pc[t] \in UsesSlab => slab[t] \in all_slabs
      /\ \A t \in Pushing : slab[t] \in all_slabs
  BY DEF Typed, TypeOK, LocalsOK, UsesSlab, Pushing
<1>b. \A i \in Offered : i \in 1 .. Len(queue) /\ queue[i] \in all_slabs
  BY <1>a, LenProperties DEF Offered
<1> USE <1>a DEF Pushing, At, Goto, slabVars, locks, locals, client
<1>1. ASSUME NEW t \in Threads, CallAllocate(t) PROVE OfferedOnce'
  BY <1>1, OfferedKept DEF CallAllocate
<1>2. ASSUME NEW t \in Threads, AcquireConsumer(t) PROVE OfferedOnce'
  BY <1>2, OfferedKept DEF AcquireConsumer
<1>3. ASSUME NEW t \in Threads, ReadNext(t) PROVE OfferedOnce'
  BY <1>3, OfferedKept DEF ReadNext
<1>4. ASSUME NEW t \in Threads, ReserveSlot(t) PROVE OfferedOnce'
  <2> DEFINE s == slab[t]
  <2>1. /\ pc[t] = "lock_slot" /\ s \in all_slabs /\ queue # <<>> /\ s = Head(queue)
        /\ num_free' = [num_free EXCEPT ![s] = num_free[s] - 1]
        /\ pc' = [pc EXCEPT ![t] = AfterLock(s)]
        /\ queue' = queue /\ all_slabs' = all_slabs /\ slab' = slab /\ deleted' = deleted
    BY <1>4 DEF ReserveSlot, LockSlot, NumFreeAfterLock, Typed, AtHead, UsesSlab
  <2>2. \A u \in Threads : pc[u] # "swing_first"
    BY <2>1 DEF LocksExclude, InConsumer
  <2>3. Offered = 1 .. Len(queue) /\ 1 \in Offered /\ queue[1] = s
    BY <2>1, <2>2, EmptySeq DEF Offered
  <2>4. AfterLock(s) = IF num_free[s] - 1 # 0 THEN "unlock_consumer" ELSE "swing_first"
    BY DEF AfterLock, NumFreeAfterLock
  <2>5. Offered' = IF num_free[s] - 1 # 0 THEN Offered ELSE Offered \ {1}
    BY <2>1, <2>2, <2>3, <2>4 DEF Offered
  <2>6. Pushing' = Pushing
    BY <2>1, <2>4
  <2>7. num_free[s] > 0 /\ \A u \in Pushing : slab[u] # s
    BY <2>3 DEF OfferedOnce, OfferedFree, PushersApart
  <2>8. \A i \in Offered : queue[i] = s => i = 1
    BY <2>3 DEF OfferedOnce, OfferedFree
  <2> HIDE DEF s
  <2>9. num_free'[s] = num_free[s] - 1 /\ \A x \in all_slabs : x # s => num_free'[x] = num_free[x]
    BY <2>1
  <2>10. NoOverdraft'
    BY <2>1, <2>7, <2>9 DEF OfferedOnce, NoOverdraft
  <2>11. OfferedFree'
    <3>1. \A i \in Offered' : num_free'[queue[i]] > 0
      <4> SUFFICES ASSUME NEW i \in Offered' PROVE num_free'[queue[i]] > 0
        OBVIOUS
      <4>1. i \in Offered /\ queue[i] \in all_slabs /\ num_free[queue[i]] > 0
        BY <1>b, <2>5 DEF OfferedOnce, OfferedFree
      <4>2. CASE queue[i] = s
        BY <4>2, <2>5, <2>7, <2>8, <2>9, <4>1
      <4>3. CASE queue[i] # s
        BY <4>3, <2>9, <4>1
      <4>4. QED
        BY <4>2, <4>3
    <3>2. QED
      BY <2>1, <2>5, <3>1 DEF OfferedOnce, OfferedFree
  <2>12. PushersApart'
    BY <2>1, <2>5, <2>6, <2>7, <2>9 DEF OfferedOnce, PushersApart
  <2>13. NoneForgotten'
    <3> SUFFICES ASSUME ~Destroyed', NEW x \in all_slabs, num_free'[x] > 0
                 PROVE  (\E i \in Offered' : queue[i] = x) \/ (\E u \in Pushing : slab[u] = x)
      BY <2>1, <2>6 DEF NoneForgotten
    <3>1. num_free[x] > 0
      BY <2>7, <2>9
    <3>2. (\E i \in Offered : queue[i] = x) \/ (\E u \in Pushing : slab[u] = x)
      BY <2>1, <3>1 DEF OfferedOnce, NoneForgotten, Destroyed
    <3>3. num_free[s] - 1 # 0 \/ x # s
      BY <2>9
    <3>4. QED
      BY <2>3, <2>5, <3>2, <3>3
  <2>14. QED
    BY <2>10, <2>11, <2>12, <2>13 DEF OfferedOnce
<1>5. ASSUME NEW t \in Threads, SwingFirst(t) PROVE OfferedOnce'
  <2>1. /\ pc[t] = "swing_first" /\ queue # <<>> /\ queue' = Tail(queue)
        /\ pc' = [pc EXCEPT ![t] = "unlock_consumer"]
        /\ num_free' = num_free /\ all_slabs' = all_slabs /\ slab' = slab /\ deleted' = deleted
    BY <1>5 DEF SwingFirst, Typed, AtHead
  <2>2. \A u \in Threads : pc'[u] # "swing_first"
    BY <2>1 DEF LocksExclude, InConsumer
  <2>3. /\ Len(queue) \in Nat /\ Len(queue') = Len(queue) - 1
        /\ \A i \in 1 .. Len(queue) - 1 : queue'[i] = queue[i + 1]
    BY <2>1, HeadTailProperties, LenProperties
  <2>4. Offered = 2 .. Len(queue) /\ Offered' = 1 .. Len(queue) - 1
    BY <2>1, <2>2, <2>3 DEF Offered
  <2>5. \A i \in Offered' : i + 1 \in Offered /\ queue'[i] = queue[i + 1]
    BY <2>3, <2>4
  <2>6. \A j \in Offered : j - 1 \in Offered' /\ queue'[j - 1] = queue[j]
    BY <2>3, <2>4
  <2>7. Pushing' = Pushing
    BY <2>1
  <2>8. NoOverdraft' /\ PushersApart'
    <3>1. NoOverdraft'
      BY <2>1 DEF OfferedOnce, NoOverdraft
    <3>2. \A u \in Pushing' : num_free'[slab'[u]] > 0
      BY <2>1, <2>7 DEF OfferedOnce, PushersApart
    <3>3. ASSUME NEW u \in Pushing', NEW i \in Offered' PROVE queue'[i] # slab'[u]
      <4>1. i + 1 \in Offered /\ queue'[i] = queue[i + 1]
        BY <2>5
      <4>2. u \in Pushing /\ slab'[u] = slab[u]
        BY <2>1, <2>7
      <4>3. QED
        BY <4>1, <4>2 DEF OfferedOnce, PushersApart
    <3>4. \A u, v \in Pushing' : slab'[u] = slab'[v] => u = v
      BY <2>1, <2>7 DEF OfferedOnce, PushersApart
    <3>5. QED
      BY <3>1, <3>2, <3>3, <3>4 DEF PushersApart
  <2>9. OfferedFree'
    <3>1. \A i \in Offered' : num_free'[queue'[i]] > 0
      BY <2>1, <2>5 DEF OfferedOnce, OfferedFree
    <3>2. \A i, j \in Offered' : queue'[i] = queue'[j] => i = j
      <4> SUFFICES ASSUME NEW i \in Offered', NEW j \in Offered', queue'[i] = queue'[j]
                   PROVE  i = j
        OBVIOUS
      <4>1. i + 1 = j + 1
        BY <2>5 DEF OfferedOnce, OfferedFree
      <4>2. QED
        BY <2>3, <2>4, <4>1
    <3>3. QED
      BY <3>1, <3>2 DEF OfferedFree
  <2>10. NoneForgotten'
    <3> SUFFICES ASSUME ~Destroyed, NEW x \in all_slabs, num_free[x] > 0
                 PROVE  \/ \E i \in Offered' : queue'[i] = x
                        \/ \E u \in Pushing' : slab'[u] = x
      BY <2>1 DEF NoneForgotten, Destroyed
    <3>1. (\E i \in Offered : queue[i] = x) \/ (\E u \in Pushing : slab[u] = x)
      BY DEF OfferedOnce, NoneForgotten
    <3>2. CASE \E i \in Offered : queue[i] = x
      BY <2>6, <3>2
    <3>3. CASE \E u \in Pushing : slab[u] = x
      BY <2>1, <2>7, <3>3
    <3>4. QED
      BY <3>1, <3>2, <3>3
  <2>11. QED
    BY <2>8, <2>9, <2>10 DEF OfferedOnce
<1>6. ASSUME NEW t \in Threads, UnlockConsumer(t) PROVE OfferedOnce'
  BY <1>6, OfferedKept DEF UnlockConsumer
<1>7. ASSUME NEW t \in Threads, TryProducer(t) PROVE OfferedOnce'
  BY <1>7, OfferedKept DEF TryProducer
<1>8. ASSUME NEW t \in Threads, GiveUp(t) PROVE OfferedOnce'
  BY <1>8, OfferedKept DEF GiveUp
<1>9. ASSUME NEW t \in Threads, NewSlab(t) PROVE OfferedOnce'
  <2>1. PICK s \in Slabs \ all_slabs :
          /\ num_free' = [num_free EXCEPT ![s] = MaxSlots - 1]
          /\ all_slabs' = all_slabs \cup {s}
          /\ slab' = [slab EXCEPT ![t] = s]
    BY <1>9 DEF NewSlab, ConstructReserved
  <2>2. /\ pc[t] = "new_slab" /\ pc' = [pc EXCEPT ![t] = "publish_new"]
        /\ queue' = queue /\ deleted' = deleted
    BY <1>9 DEF NewSlab
  <2>3. Offered' = Offered
    BY <2>2 DEF Offered
  <2>4. Pushing' = Pushing \cup {t} /\ t \notin Pushing
    BY <2>2
  <2>5. num_free'[s] > 0 /\ \A x \in all_slabs : x # s /\ num_free'[x] = num_free[x]
    BY <2>1, MaxSlotsAssumption
  <2>6. slab'[t] = s /\ \A u \in Pushing : slab'[u] = slab[u] /\ slab[u] \in all_slabs
    BY <2>1, <2>4
  <2>7. NoOverdraft'
    <3> SUFFICES ASSUME NEW x \in all_slabs' PROVE num_free'[x] >= 0
      BY DEF NoOverdraft
    <3>1. CASE x = s
      BY <2>5, <3>1, MaxSlotsAssumption, <2>1
    <3>2. CASE x \in all_slabs
      BY <2>5, <3>2 DEF OfferedOnce, NoOverdraft
    <3>3. QED
      BY <2>1, <3>1, <3>2
  <2>8. OfferedFree'
    BY <1>b, <2>2, <2>3, <2>5 DEF OfferedOnce, OfferedFree
  <2>9. PushersApart'
    <3>1. \A u \in Pushing' : num_free'[slab'[u]] > 0 /\ \A i \in Offered' : queue'[i] # slab'[u]
      BY <1>b, <2>2, <2>3, <2>4, <2>5, <2>6 DEF OfferedOnce, PushersApart
    <3>2. QED
      BY <2>4, <2>5, <2>6, <3>1 DEF OfferedOnce, PushersApart
  <2>10. NoneForgotten'
    BY <2>1, <2>2, <2>3, <2>4, <2>5, <2>6 DEF OfferedOnce, NoneForgotten, Destroyed
  <2>11. QED
    BY <2>7, <2>8, <2>9, <2>10 DEF OfferedOnce
<1>10. ASSUME NEW t \in Threads, PublishNew(t) PROVE OfferedOnce'
  <2>1. t \in Pushing /\ pc[t] = "publish_new"
    BY <1>10 DEF PublishNew
  <2>2. QED
    BY <1>10, <2>1, OfferedAppend DEF PublishNew
<1>11. ASSUME NEW t \in Threads, UnlockNew(t) PROVE OfferedOnce'
  BY <1>11, OfferedKept DEF UnlockNew
<1>12. ASSUME NEW t \in Threads, LoadWord(t) PROVE OfferedOnce'
  BY <1>12, OfferedKept DEF LoadWord, SeeWord
<1>13. ASSUME NEW t \in Threads, Claim(t) PROVE OfferedOnce'
  BY <1>13, OfferedKept DEF Claim, ClaimBit, CompareExchange, Return
<1>14. ASSUME NEW t \in Threads, ClaimAgain(t) PROVE OfferedOnce'
  BY <1>14, OfferedKept DEF ClaimAgain, SeeWord
<1>15. ASSUME NEW t \in Threads, CallDeallocate(t) PROVE OfferedOnce'
  BY <1>15, OfferedKept DEF CallDeallocate
<1>16. ASSUME NEW t \in Threads, LoadBits(t) PROVE OfferedOnce'
  BY <1>16, OfferedKept DEF LoadBits, SeeBits
<1>17. ASSUME NEW t \in Threads, SetBit(t) PROVE OfferedOnce'
  BY <1>17, OfferedKept DEF SetBit, ReleaseBit, CompareExchange
<1>18. ASSUME NEW t \in Threads, SetBitAgain(t) PROVE OfferedOnce'
  BY <1>18, OfferedKept DEF SetBitAgain, SeeBits
<1>19. ASSUME NEW t \in Threads, AddFree(t) PROVE OfferedOnce'
  <2> DEFINE s == slab[t]
  <2>1. /\ pc[t] = "add_free" /\ s \in all_slabs
        /\ num_free' = [num_free EXCEPT ![s] = num_free[s] + 1]
        /\ queue' = queue /\ all_slabs' = all_slabs /\ deleted' = deleted
    BY <1>19 DEF AddFree, ReleaseCount, UsesSlab
  <2>2. \/ num_free[s] = 0 /\ pc' = [pc EXCEPT ![t] = "acquire_producer"] /\ slab' = slab
        \/ num_free[s] # 0 /\ pc' = [pc EXCEPT ![t] = "idle"] /\ slab' = [slab EXCEPT ![t] = NoSlab]
    BY <1>19 DEF AddFree, Return
  <2>3. Offered' = Offered
    BY <2>1, <2>2 DEF Offered
  <2>4. Pushing' = IF num_free[s] = 0 THEN Pushing \cup {t} ELSE Pushing
    BY <2>1, <2>2
  <2>5. t \notin Pushing /\ \A u \in Pushing : slab'[u] = slab[u]
    BY <2>1, <2>2
  <2>6. num_free[s] >= 0 /\ num_free[s] \in Int
    BY <2>1 DEF OfferedOnce, NoOverdraft
  <2>7. num_free[s] = 0 => /\ \A i \in Offered : queue[i] # s
                           /\ \A u \in Pushing : slab[u] # s
    BY DEF OfferedOnce, OfferedFree, PushersApart
  <2>8. num_free[s] = 0 => slab'[t] = s
    BY <2>2
  <2> HIDE DEF s
  <2>9. num_free'[s] > 0 /\ \A x \in all_slabs : x # s => num_free'[x] = num_free[x]
    BY <2>1, <2>6
  <2>10. NoOverdraft'
    BY <2>1, <2>9 DEF OfferedOnce, NoOverdraft
  <2>11. OfferedFree'
    BY <1>b, <2>1, <2>3, <2>9 DEF OfferedOnce, OfferedFree
  <2>12. PushersApart'
    <3>1. \A u \in Pushing' : num_free'[slab'[u]] > 0
      BY <2>4, <2>5, <2>8, <2>9 DEF OfferedOnce, PushersApart
    <3>2. \A u \in Pushing' : \A i \in Offered' : queue'[i] # slab'[u]
      BY <2>1, <2>3, <2>4, <2>5, <2>7, <2>8 DEF OfferedOnce, PushersApart
    <3>3. \A u, v \in Pushing' : slab'[u] = slab'[v] => u = v
      BY <2>4, <2>5, <2>7, <2>8 DEF OfferedOnce, PushersApart
    <3>4. QED
      BY <3>1, <3>2, <3>3 DEF PushersApart
  <2>13. NoneForgotten'
    <3> SUFFICES ASSUME ~Destroyed', NEW x \in all_slabs, num_free'[x] > 0
                 PROVE  (\E i \in Offered : queue[i] = x) \/ (\E u \in Pushing' : slab'[u] = x)
      BY <2>1, <2>3 DEF NoneForgotten
    <3>1. CASE num_free[x] > 0
      <4>1. (\E i \in Offered : queue[i] = x) \/ (\E u \in Pushing : slab[u] = x)
        BY <2>1, <3>1 DEF OfferedOnce, NoneForgotten, Destroyed
      <4>2. QED
        BY <2>4, <2>5, <4>1
    <3>2. CASE ~(num_free[x] > 0)
      <4>1. x = s /\ num_free[s] = 0
        BY <2>6, <2>9, <3>2
      <4>2. QED
        BY <2>4, <2>8, <4>1
    <3>3. QED
      BY <3>1, <3>2
  <2>14. QED
    BY <2>10, <2>11, <2>12, <2>13 DEF OfferedOnce
<1>20. ASSUME NEW t \in Threads, AcquireProducer(t) PROVE OfferedOnce'
  BY <1>20, OfferedKept DEF AcquireProducer
<1>21. ASSUME NEW t \in Threads, Publish(t) PROVE OfferedOnce'
  <2>1. t \in Pushing /\ pc[t] = "publish"
    BY <1>21 DEF Publish
  <2>2. QED
    BY <1>21, <2>1, OfferedAppend DEF Publish
<1>22. ASSUME NEW t \in Threads, UnlockProducer(t) PROVE OfferedOnce'
  BY <1>22, OfferedKept DEF UnlockProducer, Return
<1>23. CASE Destroy
  <2>1. /\ \A u \in Threads : pc[u] = "idle"
        /\ pc' = pc /\ queue' = <<>> /\ deleted' = queue
        /\ num_free' = num_free /\ all_slabs' = all_slabs /\ ~Destroyed
    BY <1>23 DEF Destroy, Busy
  <2>2. Pushing = {} /\ Pushing' = {} /\ Offered' = {}
    BY <2>1 DEF Offered
  <2>3. NoneForgotten'
    <3> SUFFICES ASSUME ~Destroyed', NEW s \in all_slabs, num_free[s] > 0
                 PROVE  FALSE
      BY <2>1 DEF NoneForgotten
    <3>1. queue = <<>>
      BY <2>1 DEF Destroyed
    <3>2. Offered = {}
      BY <3>1 DEF Offered
    <3>3. QED
      BY <2>1, <2>2, <3>2 DEF OfferedOnce, NoneForgotten
  <2>4. NoOverdraft' /\ OfferedFree' /\ PushersApart'
    BY <2>1, <2>2 DEF OfferedOnce, NoOverdraft, OfferedFree, PushersApart
  <2>5. QED
    BY <2>3, <2>4 DEF OfferedOnce
<1>24. CASE UNCHANGED vars
  BY <1>24, OfferedKept DEF vars
<1>25. QED
  BY <1>1, <1>2, <1>3, <1>4, <1>5, <1>6, <1>7, <1>8, <1>9, <1>10, <1>11, <1>12,
     <1>13, <1>14, <1>15, <1>16, <1>17, <1>18, <1>19, <1>20, <1>21, <1>22, <1>23, <1>24
  DEF Next, Call, Step, Gone

(* The queue offers every slab that has an unreserved slot, once, and no   *)
(* other, but for the slabs in the hands of one thread each.               *)
THEOREM QueueCorrect == Spec => []OfferedOnce
<1>1. Spec => [](Typed /\ LocksExclude)
  BY TypedAlways, LocksCorrect, PTL
<1>2. QED
  BY <1>1, InitOffered, StepOffered, PTL DEF Spec

-----------------------------------------------------------------------------
(* The counters *)

LEMMA FiniteCounts ==
  ASSUME Typed, NEW s \in all_slabs
  PROVE  /\ IsFiniteSet(LiveOn(s)) /\ Cardinality(LiveOn(s)) \in Nat
         /\ IsFiniteSet(HoldersOn(s)) /\ Cardinality(HoldersOn(s)) \in Nat
<1>1. IsFiniteSet({s} \X Bits)
  <2>1. IsFiniteSet(Bits)
    BY MaxSlotsAssumption, FS_Interval DEF Bits
  <2>2. IsFiniteSet({s})
    BY FS_Singleton
  <2>3. QED
    BY <2>1, <2>2, FS_Product
<1>2. LiveOn(s) \subseteq {s} \X Bits
  BY DEF LiveOn, Typed, TypeOK
<1>3. HoldersOn(s) \subseteq Threads
  BY DEF HoldersOn
<1>4. IsFiniteSet(LiveOn(s)) /\ IsFiniteSet(HoldersOn(s))
  BY <1>1, <1>2, <1>3, FS_Subset, ThreadsAssumption
<1>5. QED
  BY <1>4, FS_CardinalityType

LEMMA InitCounter == Init => CounterExact
<1> SUFFICES ASSUME Init, NEW s \in all_slabs
             PROVE  num_free[s] + Cardinality(LiveOn(s)) + Cardinality(HoldersOn(s)) = MaxSlots
  BY DEF CounterExact
<1>1. LiveOn(s) = {} /\ HoldersOn(s) = {}
  BY DEF Init, LiveOn, HoldersOn, Reserving
<1>2. num_free[s] = MaxSlots
  BY DEF Init
<1>3. QED
  BY <1>1, <1>2, FS_EmptySet, MaxSlotsAssumption

(* Steps after which the same threads hold reservations on the same slabs. *)
LEMMA CounterKept ==
  ASSUME CounterExact, num_free' = num_free, all_slabs' = all_slabs, live' = live,
         \A t \in Threads : pc'[t] \in Reserving <=> pc[t] \in Reserving,
         \A t \in Threads : pc[t] \in Reserving => slab'[t] = slab[t]
  PROVE  CounterExact'
<1>1. \A s : LiveOn(s)' = LiveOn(s) /\ HoldersOn(s)' = HoldersOn(s)
  BY DEF LiveOn, HoldersOn
<1>2. QED
  BY <1>1 DEF CounterExact

(* Steps that move a reservation of one slab from one place to another.    *)
LEMMA CounterMoved ==
  ASSUME CounterExact, all_slabs' = all_slabs, NEW s \in all_slabs,
         num_free'[s] + Cardinality(LiveOn(s)') + Cardinality(HoldersOn(s)')
           = num_free[s] + Cardinality(LiveOn(s)) + Cardinality(HoldersOn(s)),
         \A x \in all_slabs : x # s => LiveOn(x)' = LiveOn(x),
         \A x \in all_slabs : x # s => HoldersOn(x)' = HoldersOn(x),
         \A x \in all_slabs : x # s => num_free'[x] = num_free[x]
  PROVE  CounterExact'
<1> SUFFICES ASSUME NEW x \in all_slabs
             PROVE  num_free'[x] + Cardinality(LiveOn(x)') + Cardinality(HoldersOn(x)') = MaxSlots
  BY DEF CounterExact
<1>1. CASE x = s
  BY <1>1 DEF CounterExact
<1>2. CASE x # s
  BY <1>2 DEF CounterExact
<1>3. QED
  BY <1>1, <1>2

LEMMA StepCounter ==
  Typed /\ SlotsOwnedOnce /\ CounterExact /\ [Next]_vars => CounterExact'
<1> SUFFICES ASSUME Typed, SlotsOwnedOnce, CounterExact, [Next]_vars PROVE CounterExact'
  OBVIOUS
<1>a. /\ num_free \in [Slabs -> Int] /\ all_slabs \subseteq Slabs
      /\ pc \in [Threads -> {"idle"} \cup AllocateSteps \cup DeallocateSteps]
      /\ slab \in [Threads -> all_slabs \cup {NoSlab}]
      /\ live \subseteq all_slabs \X Bits
      /\ \A t \in Threads : pc[t] \in UsesSlab => slab[t] \in all_slabs
  BY DEF Typed, TypeOK, LocalsOK, UsesSlab
<1>b. \A s \in all_slabs :
        num_free[s] + Cardinality(LiveOn(s)) + Cardinality(HoldersOn(s)) = MaxSlots
  BY DEF CounterExact
<1> USE <1>a DEF At, Goto, slabVars, locks, locals, client
<1>1. ASSUME NEW t \in Threads, CallAllocate(t) PROVE CounterExact'
  BY <1>1, CounterKept DEF CallAllocate, Reserving
<1>2. ASSUME NEW t \in Threads, AcquireConsumer(t) PROVE CounterExact'
  BY <1>2, CounterKept DEF AcquireConsumer, Reserving
<1>3. ASSUME NEW t \in Threads, ReadNext(t) PROVE CounterExact'
  BY <1>3, CounterKept DEF ReadNext, Reserving
<1>4. ASSUME NEW t \in Threads, ReserveSlot(t) PROVE CounterExact'
  <2>0. PICK s \in all_slabs : s = slab[t]
    BY <1>4 DEF ReserveSlot, UsesSlab
  <2>1. /\ pc[t] = "lock_slot" /\ s \in all_slabs
        /\ num_free' = [num_free EXCEPT ![s] = num_free[s] - 1]
        /\ all_slabs' = all_slabs /\ live' = live /\ slab' = slab
    BY <1>4, <2>0 DEF ReserveSlot, LockSlot, NumFreeAfterLock
  <2>2. \A u \in Threads : u # t => pc'[u] = pc[u]
    BY <1>4 DEF ReserveSlot
  <2>3. pc'[t] \in {"unlock_consumer", "swing_first"}
    BY <1>4, <2>0 DEF ReserveSlot, AfterLock
  <2>4. t \notin HoldersOn(s)
    BY <2>0, <2>1 DEF HoldersOn, Reserving
  <2>5. LiveOn(s)' = LiveOn(s) /\ \A x \in all_slabs : x # s => LiveOn(x)' = LiveOn(x)
    BY <2>0, <2>1, <2>2 DEF LiveOn
  <2>6. HoldersOn(s)' = HoldersOn(s) \cup {t} /\ \A x \in all_slabs : x # s => HoldersOn(x)' = HoldersOn(x)
    BY <2>0, <2>1, <2>2, <2>3 DEF HoldersOn, Reserving
  <2>7. num_free'[s] = num_free[s] - 1 /\ \A x \in all_slabs : x # s => num_free'[x] = num_free[x]
    BY <2>1
  <2>8. Cardinality(HoldersOn(s)') = Cardinality(HoldersOn(s)) + 1
    BY <2>1, <2>4, <2>6, FiniteCounts, FS_AddElement
  <2>9. num_free[s] \in Int
    BY <2>1
  <2>10. num_free'[s] + Cardinality(LiveOn(s)') + Cardinality(HoldersOn(s)')
           = num_free[s] + Cardinality(LiveOn(s)) + Cardinality(HoldersOn(s))
    BY <2>5, <2>6, <2>7, <2>8, <2>9, FiniteCounts
  <2>11. QED
    BY <2>10, <2>1, <2>5, <2>6, <2>7, CounterMoved
<1>5. ASSUME NEW t \in Threads, SwingFirst(t) PROVE CounterExact'
  BY <1>5, CounterKept DEF SwingFirst, Reserving
<1>6. ASSUME NEW t \in Threads, UnlockConsumer(t) PROVE CounterExact'
  BY <1>6, CounterKept DEF UnlockConsumer, Reserving
<1>7. ASSUME NEW t \in Threads, TryProducer(t) PROVE CounterExact'
  BY <1>7, CounterKept DEF TryProducer, Reserving
<1>8. ASSUME NEW t \in Threads, GiveUp(t) PROVE CounterExact'
  BY <1>8, CounterKept DEF GiveUp, Reserving
<1>9. ASSUME NEW t \in Threads, NewSlab(t) PROVE CounterExact'
  <2>1. PICK s \in Slabs \ all_slabs :
          /\ num_free' = [num_free EXCEPT ![s] = MaxSlots - 1]
          /\ all_slabs' = all_slabs \cup {s}
          /\ slab' = [slab EXCEPT ![t] = s]
    BY <1>9 DEF NewSlab, ConstructReserved
  <2>2. pc[t] = "new_slab" /\ pc' = [pc EXCEPT ![t] = "publish_new"] /\ live' = live
    BY <1>9 DEF NewSlab
  <2>3. \A x \in all_slabs : /\ LiveOn(x)' = LiveOn(x) /\ HoldersOn(x)' = HoldersOn(x)
                             /\ num_free'[x] = num_free[x]
    BY <2>1, <2>2 DEF LiveOn, HoldersOn, Reserving
  <2>4. LiveOn(s)' = {} /\ HoldersOn(s)' = {t} /\ num_free'[s] = MaxSlots - 1
    BY <2>1, <2>2 DEF LiveOn, HoldersOn, Reserving, UsesSlab
  <2>5. Cardinality({}) = 0 /\ Cardinality({t}) = 1
    BY FS_EmptySet, FS_Singleton
  <2>6. num_free'[s] + Cardinality(LiveOn(s)') + Cardinality(HoldersOn(s)') = MaxSlots
    BY <2>4, <2>5, MaxSlotsAssumption
  <2>7. QED
    BY <1>b, <2>1, <2>3, <2>6 DEF CounterExact
<1>10. ASSUME NEW t \in Threads, PublishNew(t) PROVE CounterExact'
  BY <1>10, CounterKept DEF PublishNew, Reserving
<1>11. ASSUME NEW t \in Threads, UnlockNew(t) PROVE CounterExact'
  BY <1>11, CounterKept DEF UnlockNew, Reserving
<1>12. ASSUME NEW t \in Threads, LoadWord(t) PROVE CounterExact'
  BY <1>12, CounterKept DEF LoadWord, SeeWord, Reserving
<1>13. ASSUME NEW t \in Threads, Claim(t) PROVE CounterExact'
  <2>0. PICK s \in all_slabs : s = slab[t]
    BY <1>13 DEF Claim, UsesSlab
  <2>a. PICK p : p = <<s, LowestFree(expected[t])>>
    OBVIOUS
  <2>1. /\ pc[t] = "claim" /\ s \in all_slabs
        /\ num_free' = num_free /\ all_slabs' = all_slabs /\ live' = live \cup {p}
        /\ slab' = [slab EXCEPT ![t] = NoSlab] /\ pc' = [pc EXCEPT ![t] = "idle"]
    BY <1>13, <2>0, <2>a DEF Claim, ClaimBit, CompareExchange, Return
  <2>2. p[1] = s
    BY <2>a
  <2>3. t \in HoldersOn(s)
    BY <2>0, <2>1 DEF HoldersOn, Reserving
  <2>4. p \notin live
    <3>1. /\ free_slots[s] = expected[t]
          /\ expected[t] \in SUBSET Bits /\ expected[t] # {}
      BY <1>13, <2>0 DEF Claim, ClaimBit, CompareExchange, Typed, TypeOK, LocalsOK
    <3>2. p[2] \in free_slots[p[1]]
      BY <2>a, <3>1, LowestFreeIsFree
    <3>3. QED
      BY <3>2 DEF SlotsOwnedOnce
  <2>5. LiveOn(s)' = LiveOn(s) \cup {p} /\ \A x \in all_slabs : x # s => LiveOn(x)' = LiveOn(x)
    BY <2>0, <2>1, <2>2 DEF LiveOn
  <2>6. HoldersOn(s)' = HoldersOn(s) \ {t} /\ \A x \in all_slabs : x # s => HoldersOn(x)' = HoldersOn(x)
    BY <2>0, <2>1, <2>2, <2>3 DEF HoldersOn, Reserving
  <2>7. num_free'[s] = num_free[s] /\ \A x \in all_slabs : x # s => num_free'[x] = num_free[x]
    BY <2>1
  <2>8. Cardinality(HoldersOn(s)') = Cardinality(HoldersOn(s)) - 1
    BY <2>1, <2>3, <2>6, FiniteCounts, FS_RemoveElement
  <2>9. Cardinality(LiveOn(s)') = Cardinality(LiveOn(s)) + 1
    <3>1. p \notin LiveOn(s)
      BY <2>4 DEF LiveOn
    <3>2. QED
      BY <2>1, <2>5, <3>1, FiniteCounts, FS_AddElement
  <2>10. num_free[s] \in Int
    BY <2>1
  <2>11. num_free'[s] + Cardinality(LiveOn(s)') + Cardinality(HoldersOn(s)')
           = num_free[s] + Cardinality(LiveOn(s)) + Cardinality(HoldersOn(s))
    BY <2>5, <2>6, <2>7, <2>8, <2>9, <2>10, FiniteCounts
  <2>12. QED
    BY <2>11, <2>1, <2>5, <2>6, <2>7, CounterMoved
<1>14. ASSUME NEW t \in Threads, ClaimAgain(t) PROVE CounterExact'
  BY <1>14, CounterKept DEF ClaimAgain, SeeWord, Reserving
<1>15. ASSUME NEW t \in Threads, CallDeallocate(t) PROVE CounterExact'
  <2>0. PICK p \in live : live' = live \ {p} /\ slab' = [slab EXCEPT ![t] = p[1]]
    BY <1>15 DEF CallDeallocate
  <2>a. PICK s \in all_slabs : s = p[1]
    OBVIOUS
  <2>1. /\ pc[t] = "idle" /\ s \in all_slabs /\ num_free' = num_free /\ all_slabs' = all_slabs
        /\ live' = live \ {p} /\ slab' = [slab EXCEPT ![t] = s]
        /\ pc' = [pc EXCEPT ![t] = "load_bits"]
    BY <1>15, <2>0, <2>a DEF CallDeallocate
  <2>2. p \in LiveOn(s)
    BY <2>a DEF LiveOn
  <2>3. t \notin HoldersOn(s)
    BY <2>0, <2>1 DEF HoldersOn, Reserving
  <2>5. LiveOn(s)' = LiveOn(s) \ {p} /\ \A x \in all_slabs : x # s => LiveOn(x)' = LiveOn(x)
    BY <2>0, <2>1, <2>2 DEF LiveOn
  <2>6. HoldersOn(s)' = HoldersOn(s) \cup {t} /\ \A x \in all_slabs : x # s => HoldersOn(x)' = HoldersOn(x)
    BY <2>0, <2>1, <2>2, <2>3 DEF HoldersOn, Reserving
  <2>7. num_free'[s] = num_free[s] /\ \A x \in all_slabs : x # s => num_free'[x] = num_free[x]
    BY <2>1
  <2>8. Cardinality(HoldersOn(s)') = Cardinality(HoldersOn(s)) + 1
    BY ZenonT(30), <2>1, <2>3, <2>6, FiniteCounts, FS_AddElement
  <2>9. Cardinality(LiveOn(s)') = Cardinality(LiveOn(s)) - 1
    BY <2>1, <2>2, <2>5, FiniteCounts, FS_RemoveElement
  <2>10. num_free[s] \in Int
    BY <2>1
  <2>11. num_free'[s] + Cardinality(LiveOn(s)') + Cardinality(HoldersOn(s)')
           = num_free[s] + Cardinality(LiveOn(s)) + Cardinality(HoldersOn(s))
    BY <2>5, <2>6, <2>7, <2>8, <2>9, <2>10, FiniteCounts
  <2>12. QED
    BY <2>11, <2>1, <2>5, <2>6, <2>7, CounterMoved
<1>16. ASSUME NEW t \in Threads, LoadBits(t) PROVE CounterExact'
  BY <1>16, CounterKept DEF LoadBits, SeeBits, Reserving
<1>17. ASSUME NEW t \in Threads, SetBit(t) PROVE CounterExact'
  BY <1>17, CounterKept DEF SetBit, ReleaseBit, CompareExchange, Reserving
<1>18. ASSUME NEW t \in Threads, SetBitAgain(t) PROVE CounterExact'
  BY <1>18, CounterKept DEF SetBitAgain, SeeBits, Reserving
<1>19. ASSUME NEW t \in Threads, AddFree(t) PROVE CounterExact'
  <2>0. PICK s \in all_slabs : s = slab[t]
    BY <1>19 DEF AddFree, UsesSlab
  <2>1. /\ pc[t] = "add_free" /\ s \in all_slabs
        /\ num_free' = [num_free EXCEPT ![s] = num_free[s] + 1]
        /\ all_slabs' = all_slabs /\ live' = live
    BY <1>19, <2>0 DEF AddFree, ReleaseCount
  <2>2. \A u \in Threads : u # t => pc'[u] = pc[u] /\ slab'[u] = slab[u]
    BY <1>19 DEF AddFree, Return
  <2>3. pc'[t] \in {"idle", "acquire_producer"}
    BY <1>19 DEF AddFree, Return
  <2>4. t \in HoldersOn(s)
    BY <2>0, <2>1 DEF HoldersOn, Reserving
  <2>5. LiveOn(s)' = LiveOn(s) /\ \A x \in all_slabs : x # s => LiveOn(x)' = LiveOn(x)
    BY <2>0, <2>1, <2>2 DEF LiveOn
  <2>6. HoldersOn(s)' = HoldersOn(s) \ {t} /\ \A x \in all_slabs : x # s => HoldersOn(x)' = HoldersOn(x)
    BY <2>0, <2>1, <2>2, <2>3 DEF HoldersOn, Reserving
  <2>7. num_free'[s] = num_free[s] + 1 /\ \A x \in all_slabs : x # s => num_free'[x] = num_free[x]
    BY <2>1
  <2>8. Cardinality(HoldersOn(s)') = Cardinality(HoldersOn(s)) - 1
    BY <2>1, <2>4, <2>6, FiniteCounts, FS_RemoveElement
  <2>9. num_free[s] \in Int
    BY <2>1
  <2>10. num_free'[s] + Cardinality(LiveOn(s)') + Cardinality(HoldersOn(s)')
           = num_free[s] + Cardinality(LiveOn(s)) + Cardinality(HoldersOn(s))
    BY <2>5, <2>6, <2>7, <2>8, <2>9, FiniteCounts
  <2>11. QED
    BY <2>10, <2>1, <2>5, <2>6, <2>7, CounterMoved
<1>20. ASSUME NEW t \in Threads, AcquireProducer(t) PROVE CounterExact'
  BY <1>20, CounterKept DEF AcquireProducer, Reserving
<1>21. ASSUME NEW t \in Threads, Publish(t) PROVE CounterExact'
  BY <1>21, CounterKept DEF Publish, Reserving
<1>22. ASSUME NEW t \in Threads, UnlockProducer(t) PROVE CounterExact'
  BY <1>22, CounterKept DEF UnlockProducer, Return, Reserving
<1>23. CASE Destroy
  BY <1>23, CounterKept DEF Destroy
<1>24. CASE UNCHANGED vars
  BY <1>24, CounterKept DEF vars
<1>25. QED
  BY <1>1, <1>2, <1>3, <1>4, <1>5, <1>6, <1>7, <1>8, <1>9, <1>10, <1>11, <1>12,
     <1>13, <1>14, <1>15, <1>16, <1>17, <1>18, <1>19, <1>20, <1>21, <1>22, <1>23, <1>24
  DEF Next, Call, Step, Gone

(* num_free counts the slots that nobody has reserved.                     *)
THEOREM CounterCorrect == Spec => []CounterExact
<1>1. Spec => [](Typed /\ SlotsOwnedOnce)
  BY TypedAlways, OwnershipCorrect, PTL
<1>2. QED
  BY <1>1, InitCounter, StepCounter, PTL DEF Spec

-----------------------------------------------------------------------------
(* No slot is lost *)

LEMMA InitNotLost == Init => NoSlotLost
  BY DEF Init, NoSlotLost

(* Steps that leave the bitmaps and their owners alone.                    *)
LEMMA NotLostKept ==
  ASSUME NoSlotLost, free_slots' = free_slots, all_slabs' = all_slabs, live' = live,
         \A t \in Unmarking : t \in Unmarking' /\ slab'[t] = slab[t] /\ slot'[t] = slot[t]
  PROVE  NoSlotLost'
<1>1. ASSUME NEW x \in all_slabs', NEW c \in Bits \ free_slots'[x]
      PROVE  <<x, c>> \in live' \/ \E t \in Unmarking' : slab'[t] = x /\ slot'[t] = c
  <2>1. <<x, c>> \in live \/ \E t \in Unmarking : slab[t] = x /\ slot[t] = c
    BY DEF NoSlotLost
  <2>2. QED
    BY <2>1
<1>2. QED
  BY <1>1 DEF NoSlotLost

LEMMA StepNotLost == Typed /\ NoSlotLost /\ [Next]_vars => NoSlotLost'
<1> SUFFICES ASSUME Typed, NoSlotLost, [Next]_vars PROVE NoSlotLost'
  OBVIOUS
<1>a. /\ free_slots \in [Slabs -> SUBSET Bits] /\ all_slabs \subseteq Slabs
      /\ pc \in [Threads -> {"idle"} \cup AllocateSteps \cup DeallocateSteps]
      /\ slab \in [Threads -> all_slabs \cup {NoSlab}]
      /\ slot \in [Threads -> Bits \cup {NoSlot}]
      /\ live \subseteq all_slabs \X Bits
      /\ \A t \in Threads : pc[t] \in UsesSlab => slab[t] \in all_slabs
  BY DEF Typed, TypeOK, LocalsOK, UsesSlab
<1>b. \A x \in all_slabs : \A c \in Bits \ free_slots[x] :
        <<x, c>> \in live \/ \E t \in Unmarking : slab[t] = x /\ slot[t] = c
  BY DEF NoSlotLost
<1> USE <1>a DEF At, Goto, slabVars, locks, locals, client
<1>1. ASSUME NEW t \in Threads, CallAllocate(t) PROVE NoSlotLost'
  BY <1>1, NotLostKept DEF CallAllocate, Unmarking
<1>2. ASSUME NEW t \in Threads, AcquireConsumer(t) PROVE NoSlotLost'
  BY <1>2, NotLostKept DEF AcquireConsumer, Unmarking
<1>3. ASSUME NEW t \in Threads, ReadNext(t) PROVE NoSlotLost'
  BY <1>3, NotLostKept DEF ReadNext, Unmarking
<1>4. ASSUME NEW t \in Threads, ReserveSlot(t) PROVE NoSlotLost'
  BY <1>4, NotLostKept DEF ReserveSlot, LockSlot, AfterLock, Unmarking
<1>5. ASSUME NEW t \in Threads, SwingFirst(t) PROVE NoSlotLost'
  BY <1>5, NotLostKept DEF SwingFirst, Unmarking
<1>6. ASSUME NEW t \in Threads, UnlockConsumer(t) PROVE NoSlotLost'
  BY <1>6, NotLostKept DEF UnlockConsumer, Unmarking
<1>7. ASSUME NEW t \in Threads, TryProducer(t) PROVE NoSlotLost'
  BY <1>7, NotLostKept DEF TryProducer, Unmarking
<1>8. ASSUME NEW t \in Threads, GiveUp(t) PROVE NoSlotLost'
  BY <1>8, NotLostKept DEF GiveUp, Unmarking
<1>9. ASSUME NEW t \in Threads, NewSlab(t) PROVE NoSlotLost'
  <2>1. PICK s \in Slabs \ all_slabs :
          /\ free_slots' = [free_slots EXCEPT ![s] = Bits]
          /\ all_slabs' = all_slabs \cup {s}
          /\ slab' = [slab EXCEPT ![t] = s]
    BY <1>9 DEF NewSlab, ConstructReserved
  <2>2. pc[t] = "new_slab" /\ pc' = [pc EXCEPT ![t] = "publish_new"]
        /\ live' = live /\ slot' = slot
    BY <1>9 DEF NewSlab
  <2>3. \A u \in Unmarking : u \in Unmarking' /\ slab'[u] = slab[u]
    BY <2>1, <2>2 DEF Unmarking
  <2>4. ASSUME NEW x \in all_slabs', NEW c \in Bits \ free_slots'[x]
        PROVE  <<x, c>> \in live' \/ \E u \in Unmarking' : slab'[u] = x /\ slot'[u] = c
    <3>1. x \in all_slabs /\ c \in Bits \ free_slots[x]
      BY <2>1
    <3>2. CASE <<x, c>> \in live
      BY <2>2, <3>2
    <3>3. CASE \E u \in Unmarking : slab[u] = x /\ slot[u] = c
      BY <2>2, <2>3, <3>3
    <3>4. QED
      BY <1>b, <3>1, <3>2, <3>3
  <2>5. QED
    BY <2>4 DEF NoSlotLost
<1>10. ASSUME NEW t \in Threads, PublishNew(t) PROVE NoSlotLost'
  BY <1>10, NotLostKept DEF PublishNew, Unmarking
<1>11. ASSUME NEW t \in Threads, UnlockNew(t) PROVE NoSlotLost'
  BY <1>11, NotLostKept DEF UnlockNew, Unmarking
<1>12. ASSUME NEW t \in Threads, LoadWord(t) PROVE NoSlotLost'
  BY <1>12, NotLostKept DEF LoadWord, SeeWord, Unmarking
<1>13. ASSUME NEW t \in Threads, Claim(t) PROVE NoSlotLost'
  <2>0. PICK s \in all_slabs : s = slab[t]
    BY <1>13 DEF Claim, UsesSlab
  <2>a. PICK b : b = LowestFree(expected[t])
    OBVIOUS
  <2>1. /\ pc[t] = "claim" /\ all_slabs' = all_slabs
        /\ free_slots' = [free_slots EXCEPT ![s] = free_slots[s] \ {b}]
        /\ live' = live \cup {<<s, b>>}
        /\ pc' = [pc EXCEPT ![t] = "idle"]
        /\ slab' = [slab EXCEPT ![t] = NoSlab] /\ slot' = [slot EXCEPT ![t] = NoSlot]
    BY <1>13, <2>0, <2>a DEF Claim, ClaimBit, CompareExchange, Return
  <2>2. \A u \in Unmarking : u \in Unmarking' /\ slab'[u] = slab[u] /\ slot'[u] = slot[u]
    BY <2>1 DEF Unmarking
  <2>3. ASSUME NEW x \in all_slabs', NEW c \in Bits \ free_slots'[x]
        PROVE  <<x, c>> \in live' \/ \E u \in Unmarking' : slab'[u] = x /\ slot'[u] = c
    <3>1. x \in all_slabs /\ ((x = s /\ c = b) \/ c \in Bits \ free_slots[x])
      BY <2>1
    <3>2. CASE x = s /\ c = b
      BY <2>1, <3>2
    <3>3. CASE <<x, c>> \in live
      BY <2>1, <3>3
    <3>4. CASE \E u \in Unmarking : slab[u] = x /\ slot[u] = c
      BY <2>2, <3>4
    <3>5. QED
      BY <1>b, <3>1, <3>2, <3>3, <3>4
  <2>4. QED
    BY <2>3 DEF NoSlotLost
<1>14. ASSUME NEW t \in Threads, ClaimAgain(t) PROVE NoSlotLost'
  BY <1>14, NotLostKept DEF ClaimAgain, SeeWord, Unmarking
<1>15. ASSUME NEW t \in Threads, CallDeallocate(t) PROVE NoSlotLost'
  <2>1. PICK p \in live :
          /\ live' = live \ {p}
          /\ slab' = [slab EXCEPT ![t] = p[1]]
          /\ slot' = [slot EXCEPT ![t] = p[2]]
    BY <1>15 DEF CallDeallocate
  <2>2. /\ pc[t] = "idle" /\ pc' = [pc EXCEPT ![t] = "load_bits"]
        /\ free_slots' = free_slots /\ all_slabs' = all_slabs
    BY <1>15 DEF CallDeallocate
  <2>3. \A u \in Unmarking : u \in Unmarking' /\ slab'[u] = slab[u] /\ slot'[u] = slot[u]
    BY <2>1, <2>2 DEF Unmarking
  <2>4. t \in Unmarking' /\ slab'[t] = p[1] /\ slot'[t] = p[2]
    BY <2>1, <2>2 DEF Unmarking
  <2>5. ASSUME NEW x \in all_slabs', NEW c \in Bits \ free_slots'[x]
        PROVE  <<x, c>> \in live' \/ \E u \in Unmarking' : slab'[u] = x /\ slot'[u] = c
    <3>1. x \in all_slabs /\ c \in Bits \ free_slots[x]
      BY <2>2
    <3>2. CASE <<x, c>> = p
      BY <2>4, <3>2
    <3>3. CASE <<x, c>> # p /\ <<x, c>> \in live
      BY <2>1, <3>3
    <3>4. CASE \E u \in Unmarking : slab[u] = x /\ slot[u] = c
      BY <2>3, <3>4
    <3>5. QED
      BY <1>b, <3>1, <3>2, <3>3, <3>4
  <2>6. QED
    BY <2>5 DEF NoSlotLost
<1>16. ASSUME NEW t \in Threads, LoadBits(t) PROVE NoSlotLost'
  BY <1>16, NotLostKept DEF LoadBits, SeeBits, Unmarking
<1>17. ASSUME NEW t \in Threads, SetBit(t) PROVE NoSlotLost'
  <2>0. PICK s \in all_slabs : s = slab[t]
    BY <1>17 DEF SetBit, UsesSlab
  <2>1. /\ free_slots' = [free_slots EXCEPT ![s] = free_slots[s] \cup {slot[t]}]
        /\ live' = live /\ all_slabs' = all_slabs /\ slab' = slab /\ slot' = slot
        /\ pc' = [pc EXCEPT ![t] = "add_free"]
    BY <1>17, <2>0 DEF SetBit, ReleaseBit, CompareExchange
  <2>2. \A u \in Unmarking : u # t => u \in Unmarking'
    BY <2>1 DEF Unmarking
  <2>3. ASSUME NEW x \in all_slabs', NEW c \in Bits \ free_slots'[x]
        PROVE  <<x, c>> \in live' \/ \E u \in Unmarking' : slab'[u] = x /\ slot'[u] = c
    <3>1. x \in all_slabs /\ c \in Bits \ free_slots[x] /\ (x # s \/ c # slot[t])
      BY <2>1
    <3>2. CASE <<x, c>> \in live
      BY <2>1, <3>2
    <3>3. CASE \E u \in Unmarking : slab[u] = x /\ slot[u] = c
      BY <2>0, <2>1, <2>2, <3>1, <3>3
    <3>4. QED
      BY <1>b, <3>1, <3>2, <3>3
  <2>4. QED
    BY <2>3 DEF NoSlotLost
<1>18. ASSUME NEW t \in Threads, SetBitAgain(t) PROVE NoSlotLost'
  BY <1>18, NotLostKept DEF SetBitAgain, SeeBits, Unmarking
<1>19. ASSUME NEW t \in Threads, AddFree(t) PROVE NoSlotLost'
  BY <1>19, NotLostKept DEF AddFree, ReleaseCount, Return, Unmarking
<1>20. ASSUME NEW t \in Threads, AcquireProducer(t) PROVE NoSlotLost'
  BY <1>20, NotLostKept DEF AcquireProducer, Unmarking
<1>21. ASSUME NEW t \in Threads, Publish(t) PROVE NoSlotLost'
  BY <1>21, NotLostKept DEF Publish, Unmarking
<1>22. ASSUME NEW t \in Threads, UnlockProducer(t) PROVE NoSlotLost'
  BY <1>22, NotLostKept DEF UnlockProducer, Return, Unmarking
<1>23. CASE Destroy
  BY <1>23, NotLostKept DEF Destroy, Unmarking
<1>24. CASE UNCHANGED vars
  BY <1>24, NotLostKept DEF vars, Unmarking
<1>25. QED
  BY <1>1, <1>2, <1>3, <1>4, <1>5, <1>6, <1>7, <1>8, <1>9, <1>10, <1>11, <1>12,
     <1>13, <1>14, <1>15, <1>16, <1>17, <1>18, <1>19, <1>20, <1>21, <1>22, <1>23, <1>24
  DEF Next, Call, Step, Gone

(* A bit at 0 always has an owner: slots are not lost.                     *)
THEOREM NothingLost == Spec => []NoSlotLost
  BY TypedAlways, InitNotLost, StepNotLost, PTL DEF Spec

-----------------------------------------------------------------------------
(* allocate() returns a slot of the slab *)

(* A thread that has reserved a slot of s and has no pointer yet finds the *)
(* bit of a slot in the word: MaxSlots bits at 0 below the last one would  *)
(* be MaxSlots owners, and with the thread itself one too many to count.   *)
LEMMA SlotAvailable ==
  ASSUME Typed, NoOverdraft, CounterExact, NoSlotLost,
         NEW t \in Threads, pc[t] \in {"load_word", "claim"}
  PROVE  \E b \in Slots : b \in free_slots[slab[t]]
<1> SUFFICES ASSUME \A b \in Slots : b \notin free_slots[slab[t]] PROVE FALSE
  OBVIOUS
<1>1. PICK s \in all_slabs : s = slab[t]
  BY DEF Typed, LocalsOK, UsesSlab
<1> DEFINE owned == {b \in Slots : <<s, b>> \in live}
           others == HoldersOn(s) \ {t}
           unmarked == Slots \ owned
<1>2. IsFiniteSet(Slots) /\ Cardinality(Slots) = MaxSlots
  <2>1. 0 \in Int /\ MaxSlots - 1 \in Int /\ 0 <= MaxSlots - 1
    BY MaxSlotsAssumption
  <2>2. /\ IsFiniteSet(0 .. MaxSlots - 1)
        /\ Cardinality(0 .. MaxSlots - 1) = (MaxSlots - 1) - 0 + 1
    BY <2>1, FS_Interval
  <2>3. (MaxSlots - 1) - 0 + 1 = MaxSlots
    BY MaxSlotsAssumption
  <2>4. QED
    BY <2>2, <2>3 DEF Slots
<1>3. Cardinality(owned) <= Cardinality(LiveOn(s)) /\ IsFiniteSet(owned)
  <2> DEFINE f == [b \in owned |-> <<s, b>>]
  <2>1. f \in Injection(owned, LiveOn(s))
    BY DEF Injection, IsInjective, LiveOn
  <2>2. QED
    BY <2>1, FiniteCounts, FS_Injection
<1>4. /\ IsFiniteSet(others)
      /\ Cardinality(others) = Cardinality(HoldersOn(s)) - 1
  <2>1. t \in HoldersOn(s)
    BY <1>1 DEF HoldersOn, Reserving
  <2>2. QED
    BY <2>1, FiniteCounts, FS_RemoveElement
<1>5. Cardinality(unmarked) <= Cardinality(others)
  <2>1. \A b \in unmarked : \E u \in Threads :
          u \in Unmarking /\ slab[u] = s /\ slot[u] = b
    BY <1>1, MaxSlotsAssumption DEF NoSlotLost, Slots, Bits, Unmarking
  <2> DEFINE f == [b \in unmarked |->
                     CHOOSE u \in Threads : u \in Unmarking /\ slab[u] = s /\ slot[u] = b]
  <2>2. \A b \in unmarked : f[b] \in Unmarking /\ slab[f[b]] = s /\ slot[f[b]] = b
    BY <2>1
  <2>3. f \in Injection(unmarked, others)
    <3>1. \A b \in unmarked : f[b] \in others
      BY <2>2 DEF HoldersOn, Reserving, Unmarking
    <3>2. \A b, c \in unmarked : f[b] = f[c] => b = c
      BY <2>2
    <3> HIDE DEF unmarked, others
    <3>3. f \in [unmarked -> others]
      BY <3>1
    <3> HIDE DEF f
    <3>4. QED
      BY <3>2, <3>3 DEF Injection, IsInjective
  <2>4. QED
    BY <1>4, <2>3, FS_Injection
<1>6. Cardinality(unmarked) = MaxSlots - Cardinality(owned)
  <2>1. Slots \cap owned = owned
    OBVIOUS
  <2>2. QED
    BY ZenonT(30), <1>2, <2>1, FS_Difference
<1>7. num_free[s] + Cardinality(LiveOn(s)) + Cardinality(HoldersOn(s)) = MaxSlots
  BY DEF CounterExact
<1>8. num_free[s] >= 0 /\ num_free[s] \in Int
  BY DEF NoOverdraft, Typed, TypeOK
<1> HIDE DEF owned, others, unmarked
<1>9. Cardinality(owned) \in Nat
  BY <1>3, FS_CardinalityType
<1>10. QED
  BY <1>3, <1>4, <1>5, <1>6, <1>7, <1>8, <1>9, FiniteCounts, MaxSlotsAssumption

LEMMA LowestIsSlot ==
  ASSUME NEW fs \in SUBSET Bits, NEW b \in Slots, b \in fs
  PROVE  LowestFree(fs) \in Slots
<1>1. fs \in SUBSET Nat
  BY MaxSlotsAssumption DEF Bits
<1>2. Min(fs) \in fs /\ Min(fs) <= b
  BY <1>1, MinIsLeast
<1>3. b \in Nat /\ b <= MaxSlots - 1
  BY MaxSlotsAssumption DEF Slots
<1>4. PICK m \in Nat : m = Min(fs)
  BY <1>1, <1>2
<1>5. m \in 0 .. MaxSlots - 1
  BY <1>2, <1>3, <1>4, MaxSlotsAssumption
<1>6. QED
  BY <1>4, <1>5 DEF LowestFree, Slots

LEMMA InitAnswers == Init => AllocateAnswers
  BY DEF Init, AllocateAnswers

(* What the counters and the queue say of a state, together.               *)
Sound == Typed /\ NoOverdraft /\ CounterExact /\ NoSlotLost

LEMMA SoundAlways == Spec => []Sound
<1>1. OfferedOnce => NoOverdraft
  BY DEF OfferedOnce
<1>2. QED
  BY <1>1, TypedAlways, QueueCorrect, CounterCorrect, NothingLost, PTL DEF Sound

(* The slot a successful exchange claims.                                  *)
LEMMA ClaimsSlot ==
  ASSUME Sound, NEW t \in Threads, Claim(t)
  PROVE  /\ LowestFree(expected[t]) \in Slots
         /\ LowestFree(expected[t]) \in free_slots[slab[t]]
<1>1. /\ pc[t] = "claim" /\ free_slots[slab[t]] = expected[t]
      /\ expected[t] \in SUBSET Bits /\ expected[t] # {}
  BY DEF Sound, Typed, TypeOK, LocalsOK, Claim, ClaimBit, CompareExchange, At
<1>2. PICK b \in Slots : b \in free_slots[slab[t]]
  BY <1>1, SlotAvailable DEF Sound
<1>3. QED
  BY <1>1, <1>2, LowestIsSlot, LowestFreeIsFree

LEMMA StepAnswers == Sound /\ AllocateAnswers /\ [Next]_vars => AllocateAnswers'
<1> SUFFICES ASSUME Sound, AllocateAnswers, [Next]_vars PROVE AllocateAnswers'
  OBVIOUS
<1>a. pc \in [Threads -> {"idle"} \cup AllocateSteps \cup DeallocateSteps]
  BY DEF Sound, Typed, TypeOK
<1> USE <1>a DEF AllocateAnswers, At, Goto, locks, locals, client
<1>1. ASSUME NEW t \in Threads, CallAllocate(t) PROVE AllocateAnswers'
  BY <1>1 DEF CallAllocate
<1>2. ASSUME NEW t \in Threads, AcquireConsumer(t) PROVE AllocateAnswers'
  BY <1>2 DEF AcquireConsumer
<1>3. ASSUME NEW t \in Threads, ReadNext(t) PROVE AllocateAnswers'
  BY <1>3 DEF ReadNext
<1>4. ASSUME NEW t \in Threads, ReserveSlot(t) PROVE AllocateAnswers'
  BY <1>4 DEF ReserveSlot, AfterLock
<1>5. ASSUME NEW t \in Threads, SwingFirst(t) PROVE AllocateAnswers'
  BY <1>5 DEF SwingFirst
<1>6. ASSUME NEW t \in Threads, UnlockConsumer(t) PROVE AllocateAnswers'
  BY <1>6 DEF UnlockConsumer
<1>7. ASSUME NEW t \in Threads, TryProducer(t) PROVE AllocateAnswers'
  BY <1>7 DEF TryProducer
<1>8. ASSUME NEW t \in Threads, GiveUp(t) PROVE AllocateAnswers'
  BY <1>8 DEF GiveUp
<1>9. ASSUME NEW t \in Threads, NewSlab(t) PROVE AllocateAnswers'
  BY <1>9 DEF NewSlab
<1>10. ASSUME NEW t \in Threads, PublishNew(t) PROVE AllocateAnswers'
  BY <1>10 DEF PublishNew
<1>11. ASSUME NEW t \in Threads, UnlockNew(t) PROVE AllocateAnswers'
  BY <1>11 DEF UnlockNew
<1>12. ASSUME NEW t \in Threads, LoadWord(t) PROVE AllocateAnswers'
  <2>1. free_slots[slab[t]] # {}
    BY <1>12, SlotAvailable DEF LoadWord, Sound
  <2>2. QED
    BY <1>12, <2>1 DEF LoadWord, SeeWord
<1>13. ASSUME NEW t \in Threads, Claim(t) PROVE AllocateAnswers'
  <2>1. LowestFree(expected[t]) \in Slots
    BY <1>13, ClaimsSlot
  <2>2. QED
    BY <1>13, <2>1 DEF Claim, Return
<1>14. ASSUME NEW t \in Threads, ClaimAgain(t) PROVE AllocateAnswers'
  <2>1. free_slots[slab[t]] # {}
    BY <1>14, SlotAvailable DEF ClaimAgain, Sound
  <2>2. QED
    BY <1>14, <2>1 DEF ClaimAgain, SeeWord
<1>15. ASSUME NEW t \in Threads, CallDeallocate(t) PROVE AllocateAnswers'
  BY <1>15 DEF CallDeallocate
<1>16. ASSUME NEW t \in Threads, LoadBits(t) PROVE AllocateAnswers'
  BY <1>16 DEF LoadBits, SeeBits
<1>17. ASSUME NEW t \in Threads, SetBit(t) PROVE AllocateAnswers'
  BY <1>17 DEF SetBit
<1>18. ASSUME NEW t \in Threads, SetBitAgain(t) PROVE AllocateAnswers'
  BY <1>18 DEF SetBitAgain, SeeBits
<1>19. ASSUME NEW t \in Threads, AddFree(t) PROVE AllocateAnswers'
  BY <1>19 DEF AddFree, Return
<1>20. ASSUME NEW t \in Threads, AcquireProducer(t) PROVE AllocateAnswers'
  BY <1>20 DEF AcquireProducer
<1>21. ASSUME NEW t \in Threads, Publish(t) PROVE AllocateAnswers'
  BY <1>21 DEF Publish
<1>22. ASSUME NEW t \in Threads, UnlockProducer(t) PROVE AllocateAnswers'
  BY <1>22 DEF UnlockProducer, Return
<1>23. CASE Destroy
  BY <1>23 DEF Destroy
<1>24. CASE UNCHANGED vars
  BY <1>24 DEF vars
<1>25. QED
  BY <1>1, <1>2, <1>3, <1>4, <1>5, <1>6, <1>7, <1>8, <1>9, <1>10, <1>11, <1>12,
     <1>13, <1>14, <1>15, <1>16, <1>17, <1>18, <1>19, <1>20, <1>21, <1>22, <1>23, <1>24
  DEF Next, Call, Step, Gone

(* allocate() never returns nullptr, nor a slot outside the slab.          *)
THEOREM AnswersCorrect == Spec => []AllocateAnswers
  BY SoundAlways, InitAnswers, StepAnswers, PTL DEF Spec

-----------------------------------------------------------------------------
(* The allocator implements SlotPool *)

LEMMA InitPool == Init => Pool!PoolInit
  BY DEF Init, Pool!PoolInit, Operation

LEMMA StepPool == Sound /\ SlotsOwnedOnce /\ AllocateAnswers /\ [Next]_vars => [Pool!PoolNext]_(Pool!poolVars)
<1> SUFFICES ASSUME Sound, SlotsOwnedOnce, AllocateAnswers, [Next]_vars
             PROVE  [Pool!PoolNext]_(Pool!poolVars)
  OBVIOUS
<1> DEFINE op == [t \in Threads |-> Operation(t)]
<1>a. /\ pc \in [Threads -> {"idle"} \cup AllocateSteps \cup DeallocateSteps]
      /\ all_slabs \subseteq Slabs /\ live \subseteq all_slabs \X Bits
  BY DEF Sound, Typed, TypeOK
<1> USE <1>a DEF At, Goto, locks, locals, client, Operation, AllocateSteps, DeallocateSteps, Pool!poolVars
<1>1. ASSUME NEW t \in Threads, CallAllocate(t) PROVE [Pool!PoolNext]_(Pool!poolVars)
  <2>1. Pool!AllocateCall(t)
    BY <1>1 DEF CallAllocate, Pool!AllocateCall
  <2>2. QED
    BY <2>1 DEF Pool!PoolNext
<1>2. ASSUME NEW t \in Threads, AcquireConsumer(t) PROVE [Pool!PoolNext]_(Pool!poolVars)
  BY <1>2 DEF AcquireConsumer
<1>3. ASSUME NEW t \in Threads, ReadNext(t) PROVE [Pool!PoolNext]_(Pool!poolVars)
  BY <1>3 DEF ReadNext
<1>4. ASSUME NEW t \in Threads, ReserveSlot(t) PROVE [Pool!PoolNext]_(Pool!poolVars)
  BY <1>4 DEF ReserveSlot, AfterLock
<1>5. ASSUME NEW t \in Threads, SwingFirst(t) PROVE [Pool!PoolNext]_(Pool!poolVars)
  BY <1>5 DEF SwingFirst
<1>6. ASSUME NEW t \in Threads, UnlockConsumer(t) PROVE [Pool!PoolNext]_(Pool!poolVars)
  BY <1>6 DEF UnlockConsumer
<1>7. ASSUME NEW t \in Threads, TryProducer(t) PROVE [Pool!PoolNext]_(Pool!poolVars)
  BY <1>7 DEF TryProducer
<1>8. ASSUME NEW t \in Threads, GiveUp(t) PROVE [Pool!PoolNext]_(Pool!poolVars)
  BY <1>8 DEF GiveUp
<1>9. ASSUME NEW t \in Threads, NewSlab(t) PROVE [Pool!PoolNext]_(Pool!poolVars)
  BY <1>9 DEF NewSlab
<1>10. ASSUME NEW t \in Threads, PublishNew(t) PROVE [Pool!PoolNext]_(Pool!poolVars)
  BY <1>10 DEF PublishNew
<1>11. ASSUME NEW t \in Threads, UnlockNew(t) PROVE [Pool!PoolNext]_(Pool!poolVars)
  BY <1>11 DEF UnlockNew
<1>12. ASSUME NEW t \in Threads, LoadWord(t) PROVE [Pool!PoolNext]_(Pool!poolVars)
  BY <1>12 DEF LoadWord, SeeWord
<1>13. ASSUME NEW t \in Threads, Claim(t) PROVE [Pool!PoolNext]_(Pool!poolVars)
  <2>1. PICK p : p = <<slab[t], LowestFree(expected[t])>>
    OBVIOUS
  <2>2. p \in (Slabs \X Slots) \ live
    <3>1. slab[t] \in all_slabs
      BY <1>13 DEF Claim, Sound, Typed, LocalsOK, UsesSlab
    <3>2. p[2] \in Slots /\ p[2] \in free_slots[p[1]]
      BY <1>13, <2>1, ClaimsSlot
    <3>3. QED
      BY <2>1, <3>1, <3>2 DEF SlotsOwnedOnce
  <2>3. Pool!AllocateReturn(t)
    BY <1>13, <2>1, <2>2 DEF Claim, Return, Pool!AllocateReturn
  <2>4. QED
    BY <2>3 DEF Pool!PoolNext
<1>14. ASSUME NEW t \in Threads, ClaimAgain(t) PROVE [Pool!PoolNext]_(Pool!poolVars)
  BY <1>14 DEF ClaimAgain, SeeWord
<1>15. ASSUME NEW t \in Threads, CallDeallocate(t) PROVE [Pool!PoolNext]_(Pool!poolVars)
  <2>1. Pool!DeallocateCall(t)
    BY <1>15 DEF CallDeallocate, Pool!DeallocateCall
  <2>2. QED
    BY <2>1 DEF Pool!PoolNext
<1>16. ASSUME NEW t \in Threads, LoadBits(t) PROVE [Pool!PoolNext]_(Pool!poolVars)
  BY <1>16 DEF LoadBits, SeeBits
<1>17. ASSUME NEW t \in Threads, SetBit(t) PROVE [Pool!PoolNext]_(Pool!poolVars)
  BY <1>17 DEF SetBit
<1>18. ASSUME NEW t \in Threads, SetBitAgain(t) PROVE [Pool!PoolNext]_(Pool!poolVars)
  BY <1>18 DEF SetBitAgain, SeeBits
<1>19. ASSUME NEW t \in Threads, AddFree(t) PROVE [Pool!PoolNext]_(Pool!poolVars)
  <2>1. CASE Goto(t, "acquire_producer")
    BY <1>19, <2>1 DEF AddFree
  <2>2. CASE Return(t)
    <3>1. Pool!DeallocateReturn(t)
      BY <1>19, <2>2 DEF AddFree, Return, Pool!DeallocateReturn
    <3>2. QED
      BY <3>1 DEF Pool!PoolNext
  <2>3. QED
    BY <1>19, <2>1, <2>2 DEF AddFree
<1>20. ASSUME NEW t \in Threads, AcquireProducer(t) PROVE [Pool!PoolNext]_(Pool!poolVars)
  BY <1>20 DEF AcquireProducer
<1>21. ASSUME NEW t \in Threads, Publish(t) PROVE [Pool!PoolNext]_(Pool!poolVars)
  BY <1>21 DEF Publish
<1>22. ASSUME NEW t \in Threads, UnlockProducer(t) PROVE [Pool!PoolNext]_(Pool!poolVars)
  <2>1. Pool!DeallocateReturn(t)
    BY <1>22 DEF UnlockProducer, Return, Pool!DeallocateReturn
  <2>2. QED
    BY <2>1 DEF Pool!PoolNext
<1>23. CASE Destroy
  BY <1>23 DEF Destroy
<1>24. CASE UNCHANGED vars
  BY <1>24 DEF vars
<1>25. QED
  BY <1>1, <1>2, <1>3, <1>4, <1>5, <1>6, <1>7, <1>8, <1>9, <1>10, <1>11, <1>12,
     <1>13, <1>14, <1>15, <1>16, <1>17, <1>18, <1>19, <1>20, <1>21, <1>22, <1>23, <1>24
  DEF Next, Call, Step, Gone

(* To its clients the allocator is a SlotPool.                             *)
THEOREM ImplementsPool == Spec => IsSlotPool
<1>1. Spec => [](Sound /\ SlotsOwnedOnce /\ AllocateAnswers)
  BY SoundAlways, OwnershipCorrect, AnswersCorrect, PTL
<1>2. QED
  BY <1>1, InitPool, StepPool, PTL DEF Spec, IsSlotPool, Pool!PoolSpec

-----------------------------------------------------------------------------
(* The end: ~LowLockQueue finds every slab in the queue, once *)

(* Once the allocator is gone nothing can happen any more. *)
Quiet == Destroyed => (\A t \in Threads : pc[t] = "idle") /\ live = {}

(* What is known of the state in which the destructor runs. *)
Accounted == Typed /\ CounterExact /\ OfferedOnce

(* With no call in progress and no pointer out, every slab is all free ... *)
LEMMA QuietSlabsFree ==
  ASSUME Accounted, \A t \in Threads : pc[t] = "idle", live = {}, NEW s \in all_slabs
  PROVE  num_free[s] = MaxSlots
<1>1. LiveOn(s) = {} /\ HoldersOn(s) = {}
  BY DEF LiveOn, HoldersOn, Reserving
<1>2. num_free[s] + 0 + 0 = MaxSlots
  BY <1>1, FS_EmptySet DEF Accounted, CounterExact
<1>3. num_free[s] \in Int
  BY DEF Accounted, Typed, TypeOK
<1>4. QED
  BY <1>2, <1>3

(* ... so that the queue holds all of them, and each of them once.         *)
LEMMA QuietQueue ==
  ASSUME Accounted, \A t \in Threads : pc[t] = "idle", live = {}, ~Destroyed
  PROVE  /\ {queue[i] : i \in DOMAIN queue} = all_slabs
         /\ \A i, j \in DOMAIN queue : queue[i] = queue[j] => i = j
<1>1. queue \in Seq(all_slabs) /\ DOMAIN queue = 1 .. Len(queue)
  BY DEF Accounted, Typed, TypeOK
<1>2. Offered = DOMAIN queue /\ Pushing = {}
  <2>1. \A t \in Threads : pc[t] # "swing_first" /\ t \notin Pushing
    BY DEF Pushing
  <2>2. QED
    BY <1>1, <2>1 DEF Offered, Pushing
<1>3. ASSUME NEW s \in all_slabs PROVE \E i \in DOMAIN queue : queue[i] = s
  <2>1. num_free[s] > 0
    BY QuietSlabsFree, MaxSlotsAssumption
  <2>2. QED
    BY <1>2, <2>1 DEF Accounted, OfferedOnce, NoneForgotten
<1>4. \A i \in DOMAIN queue : queue[i] \in all_slabs
  BY <1>1
<1>5. \A i, j \in DOMAIN queue : queue[i] = queue[j] => i = j
  BY <1>2 DEF Accounted, OfferedOnce, OfferedFree
<1>6. QED
  BY <1>3, <1>4, <1>5

LEMMA InitDeleted == Init => Quiet /\ DeletedOnce
  BY DEF Init, Quiet, DeletedOnce, Destroyed

LEMMA StepDeleted ==
  Accounted /\ Quiet /\ DeletedOnce /\ [Next]_vars => Quiet' /\ DeletedOnce'
<1> SUFFICES ASSUME Accounted, Quiet, DeletedOnce, [Next]_vars
             PROVE  Quiet' /\ DeletedOnce'
  OBVIOUS
<1>1. CASE Destroy
  <2>1. /\ \A t \in Threads : pc[t] = "idle"
        /\ live = {} /\ ~Destroyed
    BY <1>1 DEF Destroy, Busy
  <2>2. deleted' = queue /\ all_slabs' = all_slabs /\ pc' = pc /\ live' = live
    BY <1>1 DEF Destroy
  <2>3. QED
    BY <2>1, <2>2, QuietQueue DEF Quiet, DeletedOnce
<1>2. CASE UNCHANGED vars
  BY <1>2 DEF vars, client, Quiet, DeletedOnce, Destroyed
<1>3. ASSUME NEW t \in Threads, Call(t) \/ Step(t) PROVE Quiet' /\ DeletedOnce'
  <2>1. ~Destroyed
    <3>1. SUFFICES ASSUME Destroyed PROVE FALSE
      OBVIOUS
    <3>2. pc[t] = "idle" /\ live = {}
      BY <3>1 DEF Quiet
    <3>3. ~Call(t)
      BY <3>1, <3>2 DEF Call, CallAllocate, CallDeallocate
    <3>4. ~Step(t)
      BY <3>2 DEF Step, At, AcquireConsumer, ReadNext, ReserveSlot, SwingFirst,
           UnlockConsumer, TryProducer, GiveUp, NewSlab, PublishNew, UnlockNew,
           LoadWord, Claim, ClaimAgain, LoadBits, SetBit, SetBitAgain, AddFree,
           AcquireProducer, Publish, UnlockProducer
    <3>5. QED
      BY <1>3, <3>3, <3>4
  <2>2. deleted' = deleted
    BY <1>3 DEF Call, Step, client, CallAllocate, CallDeallocate, AcquireConsumer,
         ReadNext, ReserveSlot, SwingFirst, UnlockConsumer, TryProducer, GiveUp,
         NewSlab, PublishNew, UnlockNew, LoadWord, SeeWord, Claim, ClaimAgain, LoadBits,
         SeeBits, SetBit, SetBitAgain, AddFree, AcquireProducer, Publish, UnlockProducer
  <2>3. QED
    BY <2>1, <2>2 DEF Quiet, DeletedOnce, Destroyed
<1>4. QED
  BY <1>1, <1>2, <1>3 DEF Next, Gone

(* The destructor deletes every slab ever created, and each exactly once.  *)
THEOREM ShutdownCorrect == Spec => []DeletedOnce
<1>1. Spec => []Accounted
  BY TypedAlways, CounterCorrect, QueueCorrect, PTL DEF Accounted
<1>2. QED
  BY <1>1, InitDeleted, StepDeleted, PTL DEF Spec

-----------------------------------------------------------------------------
(* How many slabs there are *)

(* The two cases of the bound, with q slabs hidden and f slabs full.       *)
LEMMA BoundHolds ==
  ASSUME NEW n \in Nat, NEW d \in Nat, NEW m \in Nat \ {0}, NEW q \in Nat, NEW f \in Nat,
         q <= n, m * f <= d - q
  PROVE  q + f <= IF d >= n THEN n + (d - n) \div m ELSE d
<1>1. /\ m * f \in Nat /\ f <= m * f
      /\ n - q \in Nat /\ m * (n - q) \in Nat /\ n - q <= m * (n - q)
  <2>1. \A x \in Nat : m * x \in Nat /\ x <= m * x
    <3>1. SUFFICES ASSUME NEW x \in Nat PROVE m * x \in Nat /\ x <= m * x
      OBVIOUS
    <3>2. m * x = x + (m - 1) * x /\ (m - 1) * x \in Nat
      OBVIOUS
    <3>3. QED
      BY <3>2
  <2>2. QED
    BY <2>1
<1>2. CASE ~ (d >= n)
  BY <1>1, <1>2
<1>3. CASE d >= n
  <2>1. PICK k \in Nat : k = (d - n) \div m /\ d - n < m * (k + 1)
    BY <1>3
  <2>2. CASE q + f <= n
    BY <1>3, <2>1, <2>2
  <2>3. CASE q + f > n
    <3>1. PICK x \in Nat : x = q + f - n
      BY <2>3
    <3>2. m * x = m * f - m * (n - q)
      BY <3>1
    <3>3. m * x < m * (k + 1)
      BY <1>1, <1>3, <2>1, <3>2
    <3>4. x < k + 1
      <4>1. SUFFICES ASSUME k + 1 <= x PROVE FALSE
        OBVIOUS
      <4>2. PICK z \in Nat : x = (k + 1) + z
        BY <4>1
      <4>3. m * x = m * (k + 1) + m * z /\ m * z >= 0
        BY <4>2
      <4>4. QED
        BY <3>3, <4>3
    <3>5. QED
      BY <1>3, <2>1, <3>1, <3>4
  <2>4. QED
    BY <2>2, <2>3
<1>4. QED
  BY <1>2, <1>3

Full == {s \in all_slabs : num_free[s] = 0}
LiveIn(F) == {p \in live : p[1] \in F}
HoldersIn(F) == {t \in Threads : slab[t] \in F /\ pc[t] \in Reserving}

(* All slots of full slabs are with clients or with calls.                 *)
LEMMA FullSlabs ==
  ASSUME Accounted, IsFiniteSet(live), NEW F, F \subseteq Full, IsFiniteSet(F)
  PROVE  Cardinality(LiveIn(F)) + Cardinality(HoldersIn(F)) = MaxSlots * Cardinality(F)
<1> DEFINE Exact(G) ==
      Cardinality(LiveIn(G)) + Cardinality(HoldersIn(G)) = MaxSlots * Cardinality(G)
<1> DEFINE S == {k \in Nat : \A G \in SUBSET F : Cardinality(G) = k => Exact(G)}
<1>1. \A G \in SUBSET F : IsFiniteSet(G) /\ Cardinality(G) \in Nat
  BY FS_Subset, FS_CardinalityType
<1>2. 0 \in S
  <2> SUFFICES ASSUME NEW G \in SUBSET F, Cardinality(G) = 0 PROVE Exact(G)
    OBVIOUS
  <2>1. G = {}
    BY <1>1, FS_EmptySet
  <2>2. LiveIn(G) = {} /\ HoldersIn(G) = {}
    BY <2>1 DEF LiveIn, HoldersIn
  <2>3. QED
    BY <2>1, <2>2, FS_EmptySet, MaxSlotsAssumption
<1>3. ASSUME NEW k \in Nat, k \in S PROVE k + 1 \in S
  <2> SUFFICES ASSUME NEW G \in SUBSET F, Cardinality(G) = k + 1 PROVE Exact(G)
    OBVIOUS
  <2>1. G # {}
    BY FS_EmptySet
  <2>2. PICK s \in G : TRUE
    BY <2>1
  <2>3. PICK H : H = G \ {s}
    OBVIOUS
  <2>4. H \in SUBSET F /\ Cardinality(H) = k
    <3>1. Cardinality(G \ {s}) = Cardinality(G) - 1
      BY <1>1, FS_RemoveElement
    <3>2. QED
      BY <2>3, <3>1
  <2>5. Exact(H)
    BY <1>3, <2>4
  <2>6. /\ s \in all_slabs /\ num_free[s] = 0
        /\ Cardinality(LiveOn(s)) + Cardinality(HoldersOn(s)) = MaxSlots
    <3>1. s \in all_slabs /\ num_free[s] = 0
      BY DEF Full
    <3>2. Cardinality(LiveOn(s)) \in Nat /\ Cardinality(HoldersOn(s)) \in Nat
      BY <3>1, FiniteCounts DEF Accounted
    <3>3. QED
      BY <3>1, <3>2 DEF Accounted, CounterExact
  <2>7. Cardinality(LiveIn(G)) = Cardinality(LiveIn(H)) + Cardinality(LiveOn(s))
    <3>1. LiveIn(G) = LiveIn(H) \cup LiveOn(s) /\ LiveIn(H) \cap LiveOn(s) = {}
      BY <2>3 DEF LiveIn, LiveOn
    <3>2. IsFiniteSet(LiveIn(H)) /\ IsFiniteSet(LiveOn(s))
      BY FS_Subset DEF LiveIn, LiveOn
    <3>3. /\ Cardinality(LiveIn(H)) \in Nat /\ Cardinality(LiveOn(s)) \in Nat
          /\ Cardinality({}) = 0
      BY <3>2, FS_EmptySet, FS_CardinalityType
    <3>4. Cardinality(LiveIn(H) \cup LiveOn(s)) =
            Cardinality(LiveIn(H)) + Cardinality(LiveOn(s)) - Cardinality(LiveIn(H) \cap LiveOn(s))
      BY <3>2, FS_Union
    <3>5. /\ Cardinality(LiveIn(G)) = Cardinality(LiveIn(H) \cup LiveOn(s))
          /\ Cardinality(LiveIn(H) \cap LiveOn(s)) = 0
      BY <3>1, <3>3
    <3>6. QED
      BY <3>3, <3>4, <3>5
  <2>8. Cardinality(HoldersIn(G)) = Cardinality(HoldersIn(H)) + Cardinality(HoldersOn(s))
    <3>1. HoldersIn(G) = HoldersIn(H) \cup HoldersOn(s) /\ HoldersIn(H) \cap HoldersOn(s) = {}
      BY <2>3 DEF HoldersIn, HoldersOn
    <3>2. IsFiniteSet(HoldersIn(H)) /\ IsFiniteSet(HoldersOn(s))
      BY FS_Subset, ThreadsAssumption DEF HoldersIn, HoldersOn
    <3>3. /\ Cardinality(HoldersIn(H)) \in Nat /\ Cardinality(HoldersOn(s)) \in Nat
          /\ Cardinality({}) = 0
      BY <3>2, FS_EmptySet, FS_CardinalityType
    <3>4. Cardinality(HoldersIn(H) \cup HoldersOn(s)) =
            Cardinality(HoldersIn(H)) + Cardinality(HoldersOn(s)) - Cardinality(HoldersIn(H) \cap HoldersOn(s))
      BY <3>2, FS_Union
    <3>5. /\ Cardinality(HoldersIn(G)) = Cardinality(HoldersIn(H) \cup HoldersOn(s))
          /\ Cardinality(HoldersIn(H) \cap HoldersOn(s)) = 0
      BY <3>1, <3>3
    <3>6. QED
      BY <3>3, <3>4, <3>5
  <2>9. /\ Cardinality(LiveIn(H)) \in Nat /\ Cardinality(HoldersIn(H)) \in Nat
        /\ Cardinality(LiveOn(s)) \in Nat /\ Cardinality(HoldersOn(s)) \in Nat
    BY FS_Subset, FS_CardinalityType, ThreadsAssumption
    DEF LiveIn, HoldersIn, LiveOn, HoldersOn
  <2>10. MaxSlots * (k + 1) = MaxSlots * k + MaxSlots /\ MaxSlots * k \in Nat
    BY MaxSlotsAssumption
  <2>11. QED
    BY <2>4, <2>5, <2>6, <2>7, <2>8, <2>9, <2>10
<1> HIDE DEF S
<1>4. \A k \in Nat : k \in S
  BY <1>2, <1>3, SetInduction
<1>5. QED
  BY <1>1, <1>4 DEF S
(* The greatest number of slabs, as SlabsBounded has it.                   *)
Allowed ==
  LET n == Cardinality(Threads)
  IN  IF MaxDemand >= n THEN n + (MaxDemand - n) \div MaxSlots ELSE MaxDemand

(* Who has seen the queue empty may still create a slab.                   *)
Creating == {t \in Threads : pc[t] \in {"try_producer", "new_slab"}}

SlabsKnown ==
  /\ IsFiniteSet(all_slabs)
  /\ Demand <= MaxDemand
  /\ Cardinality(all_slabs) <= Allowed
  /\ Creating # {} => Cardinality(all_slabs) + 1 <= Allowed

LEMMA FiniteDemand ==
  ASSUME Typed, SlabsKnown
  PROVE  /\ IsFiniteSet(live) /\ Cardinality(live) \in Nat
         /\ IsFiniteSet(Busy) /\ Cardinality(Busy) \in Nat
         /\ Cardinality(all_slabs) \in Nat
<1>1. IsFiniteSet(Bits)
  BY MaxSlotsAssumption, FS_Interval DEF Bits
<1>2. IsFiniteSet(all_slabs \X Bits)
  BY <1>1, FS_Product DEF SlabsKnown
<1>3. live \subseteq all_slabs \X Bits /\ Busy \subseteq Threads
  BY DEF Typed, TypeOK, Busy
<1>4. IsFiniteSet(live) /\ IsFiniteSet(Busy)
  BY <1>2, <1>3, FS_Subset, ThreadsAssumption
<1>5. QED
  BY <1>4, FS_CardinalityType DEF SlabsKnown

(* The queue is empty: every slab with a free slot has a thread of its own *)
(* that is about to push it, and the others are full.                      *)
LEMMA EmptyQueue ==
  ASSUME Accounted, LocksExclude, SlabsKnown, ~Destroyed, queue = <<>>,
         NEW t \in Threads, pc[t] = "read_next"
  PROVE  Cardinality(all_slabs) + 1 <= Allowed
<1> DEFINE Hidden == all_slabs \ Full
<1>0. Typed
  BY DEF Accounted
<1>1. ASSUME NEW s \in Hidden PROVE \E u \in Pushing : slab[u] = s
  <2>1. s \in all_slabs /\ num_free[s] > 0
    <3>1. num_free[s] \in Int /\ num_free[s] >= 0 /\ num_free[s] # 0
      BY DEF Accounted, Typed, TypeOK, OfferedOnce, NoOverdraft, Full
    <3>2. QED
      BY <3>1
  <2>2. Offered = {}
    BY DEF Offered
  <2>3. QED
    BY <2>1, <2>2 DEF Accounted, OfferedOnce, NoneForgotten
<1>2. /\ IsFiniteSet(Pushing) /\ IsFiniteSet(Hidden) /\ IsFiniteSet(Full)
      /\ Cardinality(Pushing) \in Nat /\ Cardinality(Hidden) \in Nat
      /\ Cardinality(Full) \in Nat
  BY FS_Subset, FS_CardinalityType, ThreadsAssumption DEF Pushing, Full, SlabsKnown
<1>3. Cardinality(Hidden) <= Cardinality(Pushing)
  <2> DEFINE Hiders == {u \in Pushing : slab[u] \in Hidden}
  <2> DEFINE f == [u \in Hiders |-> slab[u]]
  <2>1. f \in Surjection(Hiders, Hidden)
    BY <1>1 DEF Surjection
  <2>2. IsFiniteSet(Hiders) /\ Cardinality(Hiders) <= Cardinality(Pushing)
    BY <1>2, FS_Subset
  <2>3. Cardinality(Hidden) <= Cardinality(Hiders)
    BY <2>1, <2>2, FS_Surjection
  <2>4. QED
    BY <1>2, <2>2, <2>3, FS_CardinalityType
<1>4. Cardinality(all_slabs) = Cardinality(Hidden) + Cardinality(Full)
  <2>1. all_slabs = Hidden \cup Full /\ Hidden \cap Full = {}
    BY DEF Full
  <2>2. Cardinality(Hidden \cup Full) =
          Cardinality(Hidden) + Cardinality(Full) - Cardinality(Hidden \cap Full)
    BY <1>2, FS_Union
  <2>3. /\ Cardinality(all_slabs) = Cardinality(Hidden \cup Full)
        /\ Cardinality(Hidden \cap Full) = 0
    BY <2>1, FS_EmptySet
  <2>4. QED
    BY <1>2, <2>2, <2>3
<1> DEFINE Calls == Pushing \cup {t}
<1>5. /\ IsFiniteSet(Calls) /\ Cardinality(Calls) = Cardinality(Pushing) + 1
      /\ Cardinality(Calls) <= Cardinality(Threads) /\ Cardinality(Threads) \in Nat
  <2>1. t \notin Pushing /\ Calls \subseteq Threads
    BY DEF Pushing
  <2>2. QED
    BY <1>2, <2>1, FS_AddElement, FS_Subset, FS_CardinalityType, ThreadsAssumption
<1>6. MaxSlots * Cardinality(Full) <= MaxDemand - Cardinality(Calls)
  <2>1. Cardinality(LiveIn(Full)) + Cardinality(HoldersIn(Full)) = MaxSlots * Cardinality(Full)
    BY <1>0, <1>2, FiniteDemand, FullSlabs
  <2>2. /\ Cardinality(LiveIn(Full)) \in Nat
        /\ Cardinality(LiveIn(Full)) <= Cardinality(live)
    BY <1>0, FiniteDemand, FS_Subset, FS_CardinalityType DEF LiveIn
  <2>3. /\ IsFiniteSet(HoldersIn(Full)) /\ Cardinality(HoldersIn(Full)) \in Nat
        /\ Cardinality(HoldersIn(Full)) + Cardinality(Calls) <= Cardinality(Busy)
    <3>1. IsFiniteSet(HoldersIn(Full)) /\ Cardinality(HoldersIn(Full)) \in Nat
      BY FS_Subset, FS_CardinalityType, ThreadsAssumption DEF HoldersIn
    <3>2. \A u \in Threads : pc[u] # "publish_new"
      BY DEF LocksExclude, InConsumer
    <3>3. HoldersIn(Full) \cap Calls = {} /\ HoldersIn(Full) \cup Calls \subseteq Busy
      BY <3>2 DEF HoldersIn, Reserving, Pushing, Busy
    <3>4. Cardinality(HoldersIn(Full) \cup Calls) =
            Cardinality(HoldersIn(Full)) + Cardinality(Calls)
              - Cardinality(HoldersIn(Full) \cap Calls)
      BY <1>5, <3>1, FS_Union
    <3>5. Cardinality(HoldersIn(Full) \cup Calls) <= Cardinality(Busy)
      BY <1>0, <3>3, FiniteDemand, FS_Subset
    <3>6. Cardinality(HoldersIn(Full) \cap Calls) = 0
      BY <3>3, FS_EmptySet
    <3>7. QED
      BY <1>2, <1>5, <3>1, <3>4, <3>5, <3>6
  <2>4. Cardinality(live) + Cardinality(Busy) <= MaxDemand
    BY DEF SlabsKnown, Demand
  <2>5. QED
    BY <1>0, <1>2, <1>5, <2>1, <2>2, <2>3, <2>4, FiniteDemand, MaxDemandAssumption,
       MaxSlotsAssumption
<1> HIDE DEF Hidden, Calls
<1>7. Cardinality(Calls) + Cardinality(Full) <= Allowed
  <2>1. MaxSlots \in Nat \ {0} /\ MaxDemand \in Nat /\ Cardinality(Calls) \in Nat
    BY <1>2, <1>5, MaxDemandAssumption, MaxSlotsAssumption
  <2>2. PICK n \in Nat, q \in Nat, f \in Nat :
          n = Cardinality(Threads) /\ q = Cardinality(Calls) /\ f = Cardinality(Full)
    BY <1>2, <1>5, <2>1
  <2>3. q <= n /\ MaxSlots * f <= MaxDemand - q
    BY <1>5, <1>6, <2>2
  <2>4. q + f <= IF MaxDemand >= n THEN n + (MaxDemand - n) \div MaxSlots ELSE MaxDemand
    BY <2>1, <2>3, BoundHolds
  <2>5. QED
    BY <2>2, <2>4 DEF Allowed
<1>8. Allowed \in Int
  BY <1>5, MaxDemandAssumption, MaxSlotsAssumption DEF Allowed
<1>9. QED
  BY <1>2, <1>3, <1>4, <1>5, <1>7, <1>8

LEMMA InitKnown == Init => SlabsKnown
<1> SUFFICES ASSUME Init PROVE SlabsKnown
  OBVIOUS
<1>1. PICK s \in Slabs : all_slabs = {s}
  BY DEF Init
<1>2. IsFiniteSet(all_slabs) /\ Cardinality(all_slabs) = 1
  BY <1>1, FS_Singleton
<1>3. live = {} /\ Busy = {} /\ Creating = {}
  BY DEF Init, Busy, Creating
<1>4. Demand <= MaxDemand
  BY <1>3, FS_EmptySet, MaxDemandAssumption DEF Demand
<1>5. Cardinality(Threads) \in Nat /\ 1 <= Cardinality(Threads)
  BY ThreadsAssumption, FS_EmptySet, FS_CardinalityType
<1>6. 1 + 0 <= Allowed
  <2>1. /\ MaxSlots \in Nat \ {0} /\ MaxDemand \in Nat
        /\ 1 \in Nat /\ 0 \in Nat /\ MaxSlots * 0 <= MaxDemand - 1
    BY MaxDemandAssumption, MaxSlotsAssumption
  <2>2. QED
    BY <1>5, <2>1, BoundHolds DEF Allowed
<1>7. QED
  BY <1>2, <1>3, <1>4, <1>6 DEF SlabsKnown

(* A call goes on or returns, and neither creates a slab nor sees the      *)
(* queue empty.                                                            *)
LEMMA CallContinues ==
  ASSUME Typed, SlabsKnown, NEW t \in Threads, pc[t] # "idle",
         \E l : /\ pc' = [pc EXCEPT ![t] = l]
                /\ l = "new_slab" => pc[t] = "try_producer"
                /\ l # "try_producer",
         all_slabs' = all_slabs, live' = live
  PROVE  SlabsKnown'
<1>1. Busy' \subseteq Busy /\ (Creating # {} \/ Creating' = {})
  BY DEF Typed, TypeOK, Busy, Creating
<1>2. Cardinality(Busy') \in Nat /\ Cardinality(Busy') <= Cardinality(Busy)
  BY <1>1, FiniteDemand, FS_Subset, FS_CardinalityType
<1>3. Demand' <= MaxDemand
  BY <1>2, FiniteDemand, MaxDemandAssumption DEF Demand, SlabsKnown
<1>4. QED
  BY <1>1, <1>3 DEF SlabsKnown, Allowed

LEMMA StepKnown ==
  ASSUME Accounted, LocksExclude, Quiet, SlabsKnown, [Next]_vars
  PROVE  SlabsKnown'
<1>a. Typed /\ pc \in [Threads -> {"idle"} \cup AllocateSteps \cup DeallocateSteps]
  BY DEF Accounted, Typed, TypeOK
<1>b. /\ IsFiniteSet(live) /\ Cardinality(live) \in Nat
      /\ IsFiniteSet(Busy) /\ Cardinality(Busy) \in Nat
      /\ Cardinality(all_slabs) \in Nat
  BY <1>a, FiniteDemand
<1> USE DEF At, Goto
<1>1. ASSUME NEW t \in Threads, CallAllocate(t) PROVE SlabsKnown'
  <2>1. /\ t \notin Busy /\ Busy' = Busy \cup {t} /\ Creating' = Creating
        /\ live' = live /\ all_slabs' = all_slabs /\ Demand < MaxDemand
    BY <1>1, <1>a DEF CallAllocate, client, Busy, Creating
  <2>2. Cardinality(Busy') = Cardinality(Busy) + 1
    BY <1>b, <2>1, FS_AddElement
  <2>3. Demand' <= MaxDemand
    BY <1>b, <2>1, <2>2, MaxDemandAssumption DEF Demand
  <2>4. QED
    BY <2>1, <2>3 DEF SlabsKnown, Allowed
<1>2. ASSUME NEW t \in Threads, CallDeallocate(t) PROVE SlabsKnown'
  <2>1. PICK p \in live : live' = live \ {p}
    BY <1>2 DEF CallDeallocate
  <2>2. /\ t \notin Busy /\ Busy' = Busy \cup {t} /\ Creating' = Creating
        /\ all_slabs' = all_slabs
    BY <1>2, <1>a DEF CallDeallocate, Busy, Creating
  <2>3. /\ Cardinality(Busy') = Cardinality(Busy) + 1
        /\ Cardinality(live') = Cardinality(live) - 1
    BY <1>b, <2>1, <2>2, FS_AddElement, FS_RemoveElement
  <2>4. Demand' = Demand
    BY <1>b, <2>3 DEF Demand
  <2>5. QED
    BY <2>2, <2>4 DEF SlabsKnown, Allowed
<1>3. ASSUME NEW t \in Threads, ReadNext(t) PROVE SlabsKnown'
  <2>1. CASE pc' = [pc EXCEPT ![t] = "lock_slot"]
    BY <1>3, <1>a, <2>1, CallContinues DEF ReadNext, client
  <2>2. CASE queue = <<>> /\ pc' = [pc EXCEPT ![t] = "try_producer"]
    <3>1. pc[t] = "read_next" /\ all_slabs' = all_slabs /\ live' = live /\ Busy' = Busy
      BY <1>3, <1>a, <2>2 DEF ReadNext, client, Busy
    <3>2. Cardinality(all_slabs) + 1 <= Allowed
      BY <2>2, <3>1, EmptyQueue DEF Quiet
    <3>3. QED
      BY <3>1, <3>2 DEF SlabsKnown, Allowed, Demand
  <2>3. QED
    BY <1>3, <2>1, <2>2 DEF ReadNext
<1>4. ASSUME NEW t \in Threads, NewSlab(t) PROVE SlabsKnown'
  <2>1. PICK s \in Slabs \ all_slabs : all_slabs' = all_slabs \cup {s}
    BY <1>4 DEF NewSlab
  <2>2. /\ IsFiniteSet(all_slabs')
        /\ Cardinality(all_slabs') = Cardinality(all_slabs) + 1
    BY <2>1, FS_AddElement DEF SlabsKnown
  <2>3. pc[t] = "new_slab" /\ live' = live /\ Busy' = Busy
    BY <1>4, <1>a DEF NewSlab, client, Busy
  <2>4. Cardinality(all_slabs) + 1 <= Allowed
    BY <2>3 DEF SlabsKnown, Creating
  <2>5. Creating' = {}
    BY <1>4, <1>a DEF NewSlab, Creating, LocksExclude, InConsumer
  <2>6. QED
    BY <2>2, <2>3, <2>4, <2>5 DEF SlabsKnown, Allowed, Demand
<1>5. ASSUME NEW t \in Threads, Claim(t) PROVE SlabsKnown'
  <2>1. PICK p : live' = live \cup {p}
    BY <1>5 DEF Claim
  <2>2. /\ t \in Busy /\ Busy' = Busy \ {t} /\ Creating' = Creating
        /\ all_slabs' = all_slabs
    BY <1>5, <1>a DEF Claim, Return, Busy, Creating
  <2>3. /\ Cardinality(Busy') = Cardinality(Busy) - 1
        /\ Cardinality(live') \in Nat /\ Cardinality(live') <= Cardinality(live) + 1
    <3>1. Cardinality(Busy \ {t}) = Cardinality(Busy) - 1
      BY <1>b, <2>2, FS_RemoveElement
    <3>2. Cardinality(live \cup {p}) =
            IF p \in live THEN Cardinality(live) ELSE Cardinality(live) + 1
      BY <1>b, FS_AddElement
    <3>3. QED
      BY <1>b, <2>1, <2>2, <3>1, <3>2
  <2>4. Demand' <= Demand
    BY <1>b, <2>3 DEF Demand
  <2>5. QED
    BY <1>b, <2>2, <2>3, <2>4, MaxDemandAssumption DEF SlabsKnown, Allowed, Demand
<1>6. CASE Destroy \/ UNCHANGED vars
  BY <1>6 DEF Destroy, vars, client, SlabsKnown, Allowed, Demand, Busy, Creating
<1> USE DEF client
<1>7. ASSUME NEW t \in Threads, AcquireConsumer(t) PROVE SlabsKnown'
  BY <1>7, <1>a, CallContinues DEF AcquireConsumer
<1>8. ASSUME NEW t \in Threads, ReserveSlot(t) PROVE SlabsKnown'
  BY <1>8, <1>a, CallContinues DEF ReserveSlot, AfterLock
<1>9. ASSUME NEW t \in Threads, SwingFirst(t) PROVE SlabsKnown'
  BY <1>9, <1>a, CallContinues DEF SwingFirst
<1>10. ASSUME NEW t \in Threads, UnlockConsumer(t) PROVE SlabsKnown'
  BY <1>10, <1>a, CallContinues DEF UnlockConsumer
<1>11. ASSUME NEW t \in Threads, TryProducer(t) PROVE SlabsKnown'
  <2>1. PICK l : l = IF producerLock THEN "give_up" ELSE "new_slab"
    OBVIOUS
  <2>2. pc[t] = "try_producer" /\ pc' = [pc EXCEPT ![t] = l]
    BY <1>11, <2>1 DEF TryProducer
  <2>3. QED
    BY <1>11, <1>a, <2>1, <2>2, CallContinues DEF TryProducer
<1>12. ASSUME NEW t \in Threads, GiveUp(t) PROVE SlabsKnown'
  BY <1>12, <1>a, CallContinues DEF GiveUp
<1>13. ASSUME NEW t \in Threads, PublishNew(t) PROVE SlabsKnown'
  BY <1>13, <1>a, CallContinues DEF PublishNew
<1>14. ASSUME NEW t \in Threads, UnlockNew(t) PROVE SlabsKnown'
  BY <1>14, <1>a, CallContinues DEF UnlockNew
<1>15. ASSUME NEW t \in Threads, LoadWord(t) PROVE SlabsKnown'
  BY <1>15, <1>a, CallContinues DEF LoadWord, SeeWord
<1>16. ASSUME NEW t \in Threads, ClaimAgain(t) PROVE SlabsKnown'
  BY <1>16, <1>a, CallContinues DEF ClaimAgain, SeeWord
<1>17. ASSUME NEW t \in Threads, LoadBits(t) PROVE SlabsKnown'
  BY <1>17, <1>a, CallContinues DEF LoadBits, SeeBits
<1>18. ASSUME NEW t \in Threads, SetBit(t) PROVE SlabsKnown'
  BY <1>18, <1>a, CallContinues DEF SetBit
<1>19. ASSUME NEW t \in Threads, SetBitAgain(t) PROVE SlabsKnown'
  BY <1>19, <1>a, CallContinues DEF SetBitAgain, SeeBits
<1>20. ASSUME NEW t \in Threads, AddFree(t) PROVE SlabsKnown'
  BY <1>20, <1>a, CallContinues DEF AddFree, Return
<1>21. ASSUME NEW t \in Threads, AcquireProducer(t) PROVE SlabsKnown'
  BY <1>21, <1>a, CallContinues DEF AcquireProducer
<1>22. ASSUME NEW t \in Threads, Publish(t) PROVE SlabsKnown'
  BY <1>22, <1>a, CallContinues DEF Publish
<1>23. ASSUME NEW t \in Threads, UnlockProducer(t) PROVE SlabsKnown'
  BY <1>23, <1>a, CallContinues DEF UnlockProducer, Return
<1>24. QED
  BY <1>1, <1>2, <1>3, <1>4, <1>5, <1>6, <1>7, <1>8,
     <1>9, <1>10, <1>11, <1>12, <1>13, <1>14, <1>15, <1>16,
     <1>17, <1>18, <1>19, <1>20, <1>21, <1>22, <1>23
  DEF Next, Call, Step, Gone

(* There are never more slabs than one for each thread and as many as the  *)
(* rest of the demand fills, whatever the threads create while others are  *)
(* about to push: a slab is created only after the queue was empty.        *)
THEOREM CreationBounded == Spec => []SlabsBounded
<1>1. Spec => [](Accounted /\ LocksExclude)
  BY TypedAlways, CounterCorrect, QueueCorrect, LocksCorrect, PTL DEF Accounted
<1>2. Init => Quiet
  BY InitDeleted
<1>3. Accounted /\ Quiet /\ DeletedOnce /\ [Next]_vars => Quiet'
  BY StepDeleted
<1>4. SlabsKnown => SlabsBounded
  BY DEF SlabsKnown, SlabsBounded, Allowed
<1>5. QED
  BY <1>1, <1>2, <1>3, <1>4, ShutdownCorrect, InitKnown, StepKnown, PTL DEF Spec
=============================================================================
