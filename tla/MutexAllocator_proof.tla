------------------------ MODULE MutexAllocator_proof ------------------------
(***************************************************************************)
(* Proofs about MutexAllocator: what holds for any number of threads,      *)
(* however the queue is corrupted, and then what one thread gains.         *)
(***************************************************************************)
EXTENDS MutexAllocator, DataLemmas, FiniteSetTheorems, SequenceTheorems

-----------------------------------------------------------------------------
(* Types, and what the locals hold at the program points that use them *)

InQueue == {"insert", "fetch_sub", "settle"}
UsesSlab == InQueue \cup {"erase", "fetch_add", "push_back"}

(* The mutex of the queue has one owner, who is in allocate().             *)
MutexHeld == \A t \in Threads : pc[t] \in InQueue <=> mux_holder = t

LocalsOK ==
  /\ \A t \in Threads : pc[t] \in UsesSlab => slab[t] \in all_slabs
  /\ \A t \in Threads : pc[t] \in {"fetch_sub", "erase"} => slot[t] \in Bits
  /\ \A t \in Threads : pc[t] \in {"idle", "lock", "insert"} => slot[t] = NoSlot

(* allocate() works on the slab at the head, which stays there.            *)
AtHead ==
  /\ ~Destroyed => free_slabs # <<>>
  /\ \A t \in Threads : pc[t] \in InQueue => slab[t] = Head(free_slabs)

(* Once the allocator is gone nothing can happen any more.                 *)
Quiet == Destroyed => (\A t \in Threads : pc[t] = "idle") /\ live = {}

(* A slab that is still to be created has no slot in use.                  *)
Fresh == \A s \in Slabs \ all_slabs : slots_used[s] = {}

Typed == TypeOK /\ MutexHeld /\ LocalsOK /\ AtHead /\ Quiet /\ Fresh

LEMMA SeqGrows ==
  ASSUME NEW S, NEW T, S \subseteq T, NEW q \in Seq(S)
  PROVE  q \in Seq(T)
OBVIOUS

LEMMA HeadAppend ==
  ASSUME NEW S, NEW q \in Seq(S), NEW x \in S
  PROVE  /\ Append(q, x) \in Seq(S)
         /\ Append(q, x) # <<>>
         /\ q # <<>> => Head(Append(q, x)) = Head(q)
<1>1. q # <<>> => Len(q) \in Nat \ {0}
  BY EmptySeq
<1>2. q # <<>> => Append(q, x)[1] = q[1]
  BY <1>1, AppendProperties
<1>3. QED
  BY <1>2, AppendProperties

LEMMA TailRest ==
  ASSUME NEW S, NEW q \in Seq(S), q # <<>>
  PROVE  /\ Tail(q) \in Seq(S)
         /\ Len(q) > 1 => Tail(q) # <<>>
<1>1. Tail(q) \in Seq(S) /\ Len(Tail(q)) = Len(q) - 1
  BY HeadTailProperties
<1>2. Len(q) > 1 => Len(Tail(q)) # 0
  <2>1. Len(q) \in Nat
    BY LenProperties
  <2>2. QED
    BY <1>1, <2>1
<1>3. QED
  BY <1>1, <1>2, EmptySeq

(* The bit that insert() takes is one that was at 0.                       *)
LEMMA MinIsFree ==
  ASSUME Typed, NEW s \in all_slabs, FreeBits(s) # {}
  PROVE  Min(FreeBits(s)) \in Bits /\ Min(FreeBits(s)) \notin slots_used[s]
<1>1. FreeBits(s) \in SUBSET Nat
  BY SlotsAssumption DEF FreeBits, Bits
<1>2. QED
  BY <1>1, MinIsLeast DEF FreeBits

LEMMA InitTyped == Init => Typed
<1> SUFFICES ASSUME Init PROVE Typed
  OBVIOUS
<1>1. PICK s \in Slabs : /\ all_slabs = {s} /\ free_slabs = <<s>>
                         /\ num_free = [x \in Slabs |-> IF x = s THEN MaxSlots ELSE 0]
                         /\ slots_used = [x \in Slabs |-> {}]
  BY DEF Init
<1>2. num_free \in [Slabs -> Int] /\ slots_used \in [Slabs -> SUBSET Bits]
  BY <1>1, SlotsAssumption
<1>3. free_slabs \in Seq(all_slabs) /\ free_slabs # <<>>
  BY <1>1
<1>4. TypeOK
  BY <1>1, <1>2, <1>3 DEF Init, TypeOK
<1>5. QED
  BY <1>1, <1>3, <1>4, ThreadsAssumption
  DEF Init, Typed, MutexHeld, LocalsOK, AtHead, Quiet, Fresh, InQueue, UsesSlab, NoThread, Destroyed

(* What settle does to the queue and the slabs.                             *)
LEMMA SettleTyped ==
  ASSUME num_free \in [Slabs -> Int], all_slabs \in SUBSET Slabs,
         free_slabs \in Seq(all_slabs), free_slabs # <<>>,
         NEW s \in all_slabs, SettleQueue(s)
  PROVE  /\ num_free' \in [Slabs -> Int] /\ slots_used' = slots_used
         /\ all_slabs \subseteq all_slabs' /\ all_slabs' \subseteq Slabs
         /\ free_slabs' \in Seq(all_slabs') /\ free_slabs' # <<>>
<1>1. CASE UNCHANGED <<slabVars, all_slabs, free_slabs>>
  BY <1>1 DEF slabVars
<1>2. CASE /\ Len(free_slabs) > 1
           /\ free_slabs' = Tail(free_slabs)
           /\ UNCHANGED <<slabVars, all_slabs>>
  <2>1. Tail(free_slabs) \in Seq(all_slabs) /\ Tail(free_slabs) # <<>>
    BY <1>2, TailRest
  <2>2. QED
    BY <1>2, <2>1 DEF slabVars
<1>3. ASSUME NEW new \in Slabs \ all_slabs,
             num_free' = [num_free EXCEPT ![new] = MaxSlots],
             all_slabs' = all_slabs \cup {new},
             free_slabs' = <<new>>,
             UNCHANGED slots_used
      PROVE  /\ num_free' \in [Slabs -> Int] /\ slots_used' = slots_used
             /\ all_slabs \subseteq all_slabs' /\ all_slabs' \subseteq Slabs
             /\ free_slabs' \in Seq(all_slabs') /\ free_slabs' # <<>>
  <2>1. <<new>> \in Seq(all_slabs') /\ <<new>> # <<>>
    BY <1>3
  <2>2. QED
    BY <1>3, <2>1, SlotsAssumption
<1>4. QED
  BY <1>1, <1>2, <1>3 DEF SettleQueue

LEMMA StepTyped == Typed /\ [Next]_vars => Typed'
<1> SUFFICES ASSUME Typed, [Next]_vars PROVE Typed'
  OBVIOUS
<1>a. NoThread \notin Threads
  BY ThreadsAssumption DEF NoThread
<1> USE <1>a DEF Typed, TypeOK, MutexHeld, LocalsOK, AtHead, Quiet, Fresh, InQueue, UsesSlab,
        AllocateSteps, At, Goto, slabVars, Destroyed
<1>1. ASSUME NEW t \in Threads, CallAllocate(t) PROVE Typed'
  BY <1>1 DEF CallAllocate
<1>2. ASSUME NEW t \in Threads, LockQueue(t) PROVE Typed'
  <2>1. Head(free_slabs) \in all_slabs
    BY <1>2, HeadTailProperties DEF LockQueue
  <2>2. QED
    BY <1>2, <2>1 DEF LockQueue
<1>3. ASSUME NEW t \in Threads, Insert(t) PROVE Typed'
  <2>1. slab[t] \in all_slabs
    BY <1>3 DEF Insert
  <2>2. CASE FreeBits(slab[t]) # {}
    <3>1. PICK b \in Bits : b = Min(FreeBits(slab[t]))
      BY <2>1, <2>2, MinIsFree
    <3>2. /\ slots_used' = [slots_used EXCEPT ![slab[t]] = @ \cup {b}]
          /\ slot' = [slot EXCEPT ![t] = b]
          /\ pc' = [pc EXCEPT ![t] = "fetch_sub"] /\ pc[t] = "insert"
          /\ UNCHANGED <<num_free, all_slabs, free_slabs, mux_holder, slab, live, deleted>>
      BY <1>3, <2>2, <3>1 DEF Insert
    <3>3. QED
      BY <2>1, <3>2
  <2>3. CASE FreeBits(slab[t]) = {}
    BY <1>3, <2>3 DEF Insert
  <2>4. QED
    BY <2>2, <2>3
<1>4. ASSUME NEW t \in Threads, FetchSub(t) PROVE Typed'
  BY <1>4 DEF FetchSub
<1>5. ASSUME NEW t \in Threads, Settle(t) PROVE Typed'
  <2>1. /\ pc[t] = "settle" /\ slab[t] \in all_slabs /\ deleted' = deleted /\ ~Destroyed
        /\ pc' = [pc EXCEPT ![t] = "idle"] /\ slab' = [slab EXCEPT ![t] = NoSlab]
        /\ slot' = [slot EXCEPT ![t] = NoSlot] /\ mux_holder' = NoThread
    BY <1>5 DEF Settle, Return
  <2>2. live' \subseteq all_slabs \X Bits
    BY <1>5, <2>1 DEF Settle
  <2>3. \A u \in Threads : pc'[u] \notin InQueue
    BY <2>1
  <2>4. /\ num_free' \in [Slabs -> Int] /\ slots_used' = slots_used
        /\ all_slabs \subseteq all_slabs' /\ all_slabs' \subseteq Slabs
        /\ free_slabs' \in Seq(all_slabs') /\ free_slabs' # <<>>
    BY <1>5, <2>1, SettleTyped DEF Settle
  <2>5. QED
    BY <2>1, <2>2, <2>3, <2>4
<1>6. ASSUME NEW t \in Threads, CallDeallocate(t) PROVE Typed'
  BY <1>6 DEF CallDeallocate
<1>7. ASSUME NEW t \in Threads, Erase(t) PROVE Typed'
  BY <1>7 DEF Erase
<1>8. ASSUME NEW t \in Threads, FetchAdd(t) PROVE Typed'
  <2>1. slab[t] \in all_slabs /\ pc[t] = "fetch_add" /\ num_free' \in [Slabs -> Int]
    BY <1>8 DEF FetchAdd
  <2>2. CASE Goto(t, "push_back") /\ UNCHANGED <<slab, slot>>
    BY <1>8, <2>1, <2>2 DEF FetchAdd
  <2>3. CASE Return(t)
    BY <1>8, <2>1, <2>3 DEF FetchAdd, Return
  <2>4. QED
    BY <1>8, <2>2, <2>3 DEF FetchAdd
<1>9. ASSUME NEW t \in Threads, PushBack(t) PROVE Typed'
  <2>1. slab[t] \in all_slabs /\ deleted' = deleted /\ ~Destroyed
    BY <1>9 DEF PushBack
  <2>2. /\ free_slabs' = Append(free_slabs, slab[t])
        /\ pc' = [pc EXCEPT ![t] = "idle"] /\ slab' = [slab EXCEPT ![t] = NoSlab]
        /\ slot' = [slot EXCEPT ![t] = NoSlot] /\ pc[t] = "push_back"
        /\ UNCHANGED <<num_free, slots_used, all_slabs, mux_holder, live>>
    BY <1>9 DEF PushBack, Return
  <2>3. free_slabs' \in Seq(all_slabs) /\ free_slabs' # <<>> /\ Head(free_slabs') = Head(free_slabs)
    BY <2>1, <2>2, HeadAppend
  <2>4. QED
    BY <2>1, <2>2, <2>3
<1>10. CASE Destroy
  <2>1. \A t \in Threads : pc[t] = "idle"
    BY <1>10 DEF Destroy, Busy
  <2>2. free_slabs' = <<>> /\ deleted' # <<>> /\ <<>> \in Seq(all_slabs)
    BY <1>10 DEF Destroy
  <2>3. QED
    BY <1>10, <2>1, <2>2 DEF Destroy
<1>11. CASE UNCHANGED vars
  BY <1>11 DEF vars
<1> HIDE DEF Typed
<1>12. QED
  BY <1>1, <1>2, <1>3, <1>4, <1>5, <1>6, <1>7, <1>8, <1>9, <1>10, <1>11
  DEF Next, Step, Idle

LEMMA TypedAlways == Spec => []Typed
  BY InitTyped, StepTyped, PTL DEF Spec

(* Every variable keeps its type, for any number of threads and slabs: the *)
(* queue is never empty when allocate() looks at its front.                *)
THEOREM MutexTypeCorrect == Spec => []TypeOK
<1>1. Typed => TypeOK
  BY DEF Typed
<1>2. QED
  BY <1>1, TypedAlways, PTL

-----------------------------------------------------------------------------
(* Ownership of the slots: SlotsOwnedOnce, one slot at a time *)

Owned(s, b) ==
  \/ <<s, b>> \in live
  \/ \E t \in InHand : slab[t] = s /\ slot[t] = b

BitsOwned == \A s \in all_slabs, b \in Bits : b \in slots_used[s] <=> Owned(s, b)

OneOwner ==
  /\ \A t \in InHand : <<slab[t], slot[t]>> \notin live
  /\ \A t, u \in InHand : slab[t] = slab[u] /\ slot[t] = slot[u] => t = u

OwnedOnce == BitsOwned /\ OneOwner

LEMMA InitOwned == Init => OwnedOnce
BY NoSlotAssumption DEF Init, OwnedOnce, BitsOwned, OneOwner, Owned, InHand

(* The locals of the threads that have a slot in hand.                     *)
LEMMA HandsTyped ==
  ASSUME Typed
  PROVE  \A t \in InHand : /\ t \in Threads /\ slab[t] \in all_slabs
                           /\ slot[t] \in Bits /\ slot[t] # NoSlot
BY DEF Typed, TypeOK, LocalsOK, InHand, UsesSlab, InQueue

(* Steps that leave the bitmaps, the pointers and the slots in hand alone. *)
LEMMA OwnedKept ==
  ASSUME OwnedOnce, slots_used' = slots_used, all_slabs' = all_slabs, live' = live,
         InHand' = InHand, \A t \in InHand : slab'[t] = slab[t] /\ slot'[t] = slot[t]
  PROVE  OwnedOnce'
<1>1. \A s, b : Owned(s, b)' <=> Owned(s, b)
  BY DEF Owned
<1>2. QED
  BY <1>1 DEF OwnedOnce, BitsOwned, OneOwner

LEMMA StepOwned == Typed /\ OwnedOnce /\ [Next]_vars => OwnedOnce'
<1> SUFFICES ASSUME Typed, OwnedOnce, [Next]_vars PROVE OwnedOnce'
  OBVIOUS
<1>a. /\ slots_used \in [Slabs -> SUBSET Bits] /\ all_slabs \subseteq Slabs
      /\ pc \in [Threads -> AllocateSteps \cup {"idle", "erase", "fetch_add", "push_back"}]
      /\ slab \in [Threads -> all_slabs \cup {NoSlab}]
      /\ slot \in [Threads -> Bits \cup {NoSlot}]
      /\ live \subseteq all_slabs \X Bits
      /\ \A b \in Bits : b # NoSlot
      /\ \A t \in Threads : pc[t] \in UsesSlab => slab[t] \in all_slabs
  BY NoSlotAssumption, SlotsAssumption DEF Typed, TypeOK, LocalsOK, Bits
<1>b. /\ \A t \in InHand : t \in Threads /\ slab[t] \in all_slabs /\ slot[t] \in Bits
      /\ \A s \in all_slabs, b \in Bits : b \in slots_used[s] <=> Owned(s, b)
      /\ \A t \in InHand : <<slab[t], slot[t]>> \notin live
      /\ \A t, u \in InHand : slab[t] = slab[u] /\ slot[t] = slot[u] => t = u
  BY HandsTyped DEF OwnedOnce, BitsOwned, OneOwner
<1> USE <1>a DEF At, Goto, slabVars
<1>1. ASSUME NEW t \in Threads, CallAllocate(t) PROVE OwnedOnce'
  BY <1>1, OwnedKept DEF CallAllocate, InHand
<1>2. ASSUME NEW t \in Threads, LockQueue(t) PROVE OwnedOnce'
  BY <1>2, OwnedKept DEF LockQueue, InHand
<1>3. ASSUME NEW t \in Threads, Insert(t) PROVE OwnedOnce'
  <2>1. PICK s \in all_slabs : s = slab[t]
    BY <1>3 DEF Insert, UsesSlab, InQueue
  <2>2. CASE FreeBits(s) # {}
    <3>1. PICK b \in Bits : b = Min(FreeBits(s)) /\ b \notin slots_used[s]
      BY <2>2, MinIsFree
    <3>2. /\ slots_used' = [slots_used EXCEPT ![s] = @ \cup {b}]
          /\ slot' = [slot EXCEPT ![t] = b] /\ slab' = slab
          /\ pc' = [pc EXCEPT ![t] = "fetch_sub"] /\ pc[t] = "insert"
          /\ all_slabs' = all_slabs /\ live' = live
      BY <1>3, <2>1, <2>2, <3>1 DEF Insert
    <3>3. t \notin InHand /\ InHand' = InHand \cup {t}
      BY <3>2 DEF InHand
    <3>4. ~ Owned(s, b)
      BY <1>b, <3>1
    <3>5. BitsOwned'
      <4>a. \A u \in InHand : slab'[u] = slab[u] /\ slot'[u] = slot[u]
        BY <3>2, <3>3, <1>b
      <4>b. slab'[t] = s /\ slot'[t] = b /\ t \in InHand'
        BY <2>1, <3>2, <3>3
      <4>1. \A x, c : Owned(x, c)' <=> Owned(x, c) \/ (x = s /\ c = b)
        BY <3>2, <3>3, <4>a, <4>b DEF Owned
      <4>2. \A x \in all_slabs, c \in Bits :
              c \in slots_used'[x] <=> c \in slots_used[x] \/ (x = s /\ c = b)
        BY <3>2
      <4>3. QED
        BY <4>1, <4>2, <1>b, <3>2 DEF BitsOwned
    <3>6. OneOwner'
      BY <2>1, <3>2, <3>3, <3>4, <1>b DEF OneOwner, Owned
    <3>7. QED
      BY <3>5, <3>6 DEF OwnedOnce
  <2>3. CASE FreeBits(s) = {}
    <3>1. slot[t] = NoSlot
      BY <1>3 DEF Insert, Typed, LocalsOK
    <3>2. QED
      BY <1>3, <2>1, <2>3, <3>1, OwnedKept DEF Insert, InHand
  <2>4. QED
    BY <2>2, <2>3
<1>4. ASSUME NEW t \in Threads, FetchSub(t) PROVE OwnedOnce'
  BY <1>4, OwnedKept DEF FetchSub, InHand
<1>5. ASSUME NEW t \in Threads, Settle(t) PROVE OwnedOnce'
  <2>1. /\ pc[t] = "settle" /\ slots_used' = slots_used
        /\ pc' = [pc EXCEPT ![t] = "idle"] /\ slab' = [slab EXCEPT ![t] = NoSlab]
        /\ slot' = [slot EXCEPT ![t] = NoSlot]
        /\ live' = live \cup IF slot[t] = NoSlot THEN {} ELSE {<<slab[t], slot[t]>>}
    BY <1>5 DEF Settle, SettleQueue, Return
  <2>2. all_slabs \subseteq all_slabs' /\ all_slabs' \subseteq Slabs
    BY <1>5 DEF Settle, SettleQueue
  <2>3. InHand' = InHand \ {t} /\ (slot[t] # NoSlot <=> t \in InHand)
    BY <2>1 DEF InHand
  <2>4. \A x, c : Owned(x, c)' <=> Owned(x, c)
    BY ZenonT(30), <2>1, <2>3, <1>b DEF Owned
  <2>5. BitsOwned'
    <3>1. \A x \in all_slabs' \ all_slabs, c \in Bits : c \notin slots_used'[x] /\ ~ Owned(x, c)
      <4>1. \A x \in all_slabs' \ all_slabs : slots_used'[x] = {}
        BY <2>1, <2>2 DEF Typed, Fresh
      <4>2. \A x, c : Owned(x, c) => x \in all_slabs
        BY <1>b DEF Owned
      <4>3. QED
        BY <4>1, <4>2
    <3>2. QED
      BY <2>1, <2>4, <3>1, <1>b DEF BitsOwned
  <2>6. OneOwner'
    BY <2>1, <2>3, <1>b DEF OneOwner
  <2>7. QED
    BY <2>5, <2>6 DEF OwnedOnce
<1>6. ASSUME NEW t \in Threads, CallDeallocate(t) PROVE OwnedOnce'
  <2>1. PICK s \in all_slabs, b \in Bits :
          /\ <<s, b>> \in live /\ live' = live \ {<<s, b>>}
          /\ slab' = [slab EXCEPT ![t] = s] /\ slot' = [slot EXCEPT ![t] = b]
    <3>1. PICK p \in live : /\ live' = live \ {p} /\ slab' = [slab EXCEPT ![t] = p[1]]
                            /\ slot' = [slot EXCEPT ![t] = p[2]]
      BY <1>6 DEF CallDeallocate
    <3>2. p = <<p[1], p[2]>> /\ p[1] \in all_slabs /\ p[2] \in Bits
      OBVIOUS
    <3>3. QED
      BY <3>1, <3>2
  <2>2. /\ pc' = [pc EXCEPT ![t] = "erase"] /\ pc[t] = "idle"
        /\ slots_used' = slots_used /\ all_slabs' = all_slabs
    BY <1>6 DEF CallDeallocate
  <2>3. t \notin InHand /\ InHand' = InHand \cup {t}
    BY <2>1, <2>2 DEF InHand
  <2>a. \A u \in InHand : slab'[u] = slab[u] /\ slot'[u] = slot[u]
    BY <2>1, <2>3, <1>b
  <2>b. slab'[t] = s /\ slot'[t] = b
    BY <2>1
  <2>4. \A x, c : Owned(x, c)' <=> Owned(x, c)
    BY <2>1, <2>3, <2>a, <2>b DEF Owned
  <2>5. BitsOwned'
    BY <2>2, <2>4, <1>b DEF BitsOwned
  <2>6. OneOwner'
    BY <2>1, <2>2, <2>3, <1>b DEF OneOwner
  <2>7. QED
    BY <2>5, <2>6 DEF OwnedOnce
<1>7. ASSUME NEW t \in Threads, Erase(t) PROVE OwnedOnce'
  <2>1. PICK s \in all_slabs, b \in Bits : s = slab[t] /\ b = slot[t]
    BY <1>7 DEF Erase, Typed, LocalsOK, UsesSlab
  <2>2. /\ pc' = [pc EXCEPT ![t] = "fetch_add"] /\ pc[t] = "erase"
        /\ slots_used' = [slots_used EXCEPT ![s] = @ \ {b}]
        /\ UNCHANGED <<all_slabs, live, slab, slot>>
    BY <1>7, <2>1 DEF Erase
  <2>3. t \in InHand /\ InHand' = InHand \ {t}
    BY <2>1, <2>2 DEF InHand
  <2>4. \A x, c : Owned(x, c)' <=> Owned(x, c) /\ ~ (x = s /\ c = b)
    <3>1. <<s, b>> \notin live /\ \A u \in InHand : slab[u] = s /\ slot[u] = b => u = t
      BY <2>1, <2>3, <1>b
    <3>2. \A x, c : <<x, c>> = <<s, b>> <=> x = s /\ c = b
      OBVIOUS
    <3>3. QED
      BY <2>1, <2>2, <2>3, <3>1, <3>2 DEF Owned
  <2>5. BitsOwned'
    <3>1. \A x \in all_slabs, c \in Bits :
            c \in slots_used'[x] <=> c \in slots_used[x] /\ ~ (x = s /\ c = b)
      BY <2>2
    <3>2. QED
      BY <2>2, <2>4, <3>1, <1>b DEF BitsOwned
  <2>6. OneOwner'
    BY <2>2, <2>3, <1>b DEF OneOwner
  <2>7. QED
    BY <2>5, <2>6 DEF OwnedOnce
<1>8. ASSUME NEW t \in Threads, FetchAdd(t) PROVE OwnedOnce'
  BY <1>8, OwnedKept DEF FetchAdd, Return, InHand
<1>9. ASSUME NEW t \in Threads, PushBack(t) PROVE OwnedOnce'
  BY <1>9, OwnedKept DEF PushBack, Return, InHand
<1>10. CASE Destroy
  BY <1>10, OwnedKept DEF Destroy, InHand
<1>11. CASE UNCHANGED vars
  BY <1>11, OwnedKept DEF vars, InHand
<1>12. QED
  BY <1>1, <1>2, <1>3, <1>4, <1>5, <1>6, <1>7, <1>8, <1>9, <1>10, <1>11
  DEF Next, Step, Idle

(* No slot is handed out twice, for any number of threads: a bit of a      *)
(* bitmap is 1 exactly while a client owns the slot or one thread is about *)
(* to hand it out or to erase it, and no slot has two of these owners.     *)
THEOREM MutexOwnership == Spec => []SlotsOwnedOnce
<1>1. Typed /\ OwnedOnce => SlotsOwnedOnce
  <2> SUFFICES ASSUME Typed, OwnedOnce PROVE SlotsOwnedOnce
    OBVIOUS
  <2>1. ASSUME NEW s \in all_slabs
        PROVE  slots_used[s] = {p[2] : p \in {q \in live : q[1] = s}}
                                 \cup {slot[t] : t \in {u \in InHand : slab[u] = s}}
    <3>1. slots_used[s] \subseteq Bits
      BY DEF Typed, TypeOK
    <3>2. \A b : b \in {p[2] : p \in {q \in live : q[1] = s}} <=> <<s, b>> \in live
      <4>1. \A q \in live : q = <<q[1], q[2]>>
        BY DEF Typed, TypeOK
      <4>2. \A b : <<s, b>> \in live => <<s, b>>[1] = s /\ <<s, b>>[2] = b
        OBVIOUS
      <4>3. QED
        BY <4>1, <4>2
    <3>3. \A b : b \in {slot[t] : t \in {u \in InHand : slab[u] = s}}
                   <=> \E t \in InHand : slab[t] = s /\ slot[t] = b
      OBVIOUS
    <3>4. \A b : Owned(s, b) => b \in Bits
      BY HandsTyped DEF Owned, Typed, TypeOK
    <3>5. \A b : b \in slots_used[s] <=> Owned(s, b)
      BY <3>1, <3>4 DEF OwnedOnce, BitsOwned
    <3>6. QED
      BY <3>2, <3>3, <3>5 DEF Owned
  <2>2. QED
    BY <2>1 DEF SlotsOwnedOnce, OwnedOnce, OneOwner
<1>2. QED
  BY <1>1, TypedAlways, InitTyped, InitOwned, StepTyped, StepOwned, PTL DEF Spec

-----------------------------------------------------------------------------
(* The queue: which slabs a step adds and takes away *)

LEMMA QueuedAppend ==
  ASSUME free_slabs \in Seq(all_slabs), NEW s \in all_slabs,
         free_slabs' = Append(free_slabs, s)
  PROVE  \A x : Queued(x)' <=> Queued(x) \/ x = s
<1>1. PICK n \in Nat : n = Len(free_slabs)
  BY LenProperties
<1>2. /\ Len(free_slabs') = n + 1
      /\ \A i \in 1 .. n : free_slabs'[i] = free_slabs[i]
      /\ free_slabs'[n + 1] = s
  BY <1>1, AppendProperties
<1>3. 1 .. n + 1 = (1 .. n) \cup {n + 1}
  OBVIOUS
<1>4. QED
  BY <1>1, <1>2, <1>3 DEF Queued

LEMMA QueuedTail ==
  ASSUME free_slabs \in Seq(all_slabs), free_slabs # <<>>, free_slabs' = Tail(free_slabs)
  PROVE  \A x : Queued(x) => Queued(x)' \/ x = Head(free_slabs)
<1>1. PICK n \in Nat \ {0} : n = Len(free_slabs)
  BY EmptySeq
<1>2. /\ Len(free_slabs') = n - 1
      /\ \A i \in 1 .. n - 1 : free_slabs'[i] = free_slabs[i + 1]
  BY <1>1, HeadTailProperties
<1>3. Head(free_slabs) = free_slabs[1]
  OBVIOUS
<1>4. ASSUME NEW i \in 1 .. n
      PROVE  i = 1 \/ \E j \in 1 .. n - 1 : free_slabs'[j] = free_slabs[i]
  <2>1. CASE i # 1
    <3>1. i - 1 \in 1 .. n - 1 /\ (i - 1) + 1 = i
      BY <2>1
    <3>2. QED
      BY <1>2, <3>1
  <2>2. QED
    BY <2>1
<1>5. QED
  BY <1>1, <1>2, <1>3, <1>4 DEF Queued

LEMMA QueuedOne ==
  ASSUME NEW s, free_slabs' = <<s>>
  PROVE  \A x : Queued(x)' <=> x = s
BY DEF Queued

(* A queue of one slab holds its head only.                                *)
LEMMA QueuedSingle ==
  ASSUME free_slabs \in Seq(all_slabs), Len(free_slabs) = 1
  PROVE  \A x : Queued(x) <=> x = Head(free_slabs)
BY DEF Queued

(* The slab that allocate() works on is in the queue.                      *)
LEMMA HeadQueued ==
  ASSUME Typed, ~Destroyed
  PROVE  Queued(Head(free_slabs))
<1>1. free_slabs \in Seq(all_slabs) /\ free_slabs # <<>>
  BY DEF Typed, TypeOK, AtHead
<1>2. 1 \in 1 .. Len(free_slabs)
  BY <1>1, EmptySeq
<1>3. Head(free_slabs) = free_slabs[1]
  BY <1>1
<1>4. QED
  BY <1>2, <1>3 DEF Queued

Reachable == \A s \in all_slabs : num_free[s] > 0 => Queued(s) \/ Pushing(s)

(* Steps that leave the queue alone and let no slab become free.           *)
LEMMA ReachableKept ==
  ASSUME Reachable, all_slabs' = all_slabs, free_slabs' = free_slabs,
         \A s \in all_slabs : num_free'[s] > 0 => num_free[s] > 0,
         \A t \in Threads : pc[t] = "push_back" => pc'[t] = "push_back" /\ slab'[t] = slab[t]
  PROVE  Reachable'
<1>1. \A s : Queued(s) => Queued(s)'
  BY DEF Queued
<1>2. \A s : Pushing(s) => Pushing(s)'
  BY DEF Pushing
<1>3. QED
  BY <1>1, <1>2 DEF Reachable

LEMMA StepReachable ==
  Typed /\ (~Destroyed => Reachable) /\ [Next]_vars => (~Destroyed => Reachable)'
<1> SUFFICES ASSUME Typed, ~Destroyed => Reachable, [Next]_vars, ~Destroyed'
             PROVE  Reachable'
  OBVIOUS
<1>a. /\ num_free \in [Slabs -> Int] /\ all_slabs \subseteq Slabs
      /\ free_slabs \in Seq(all_slabs)
      /\ pc \in [Threads -> AllocateSteps \cup {"idle", "erase", "fetch_add", "push_back"}]
      /\ slab \in [Threads -> all_slabs \cup {NoSlab}]
      /\ \A t \in Threads : pc[t] \in UsesSlab => slab[t] \in all_slabs
      /\ Destroyed => \A t \in Threads : pc[t] = "idle"
      /\ Destroyed => live = {}
  BY DEF Typed, TypeOK, LocalsOK, Quiet
<1> USE <1>a DEF At, Goto, slabVars
<1>1. ASSUME NEW t \in Threads, CallAllocate(t) PROVE Reachable'
  BY <1>1, ReachableKept DEF CallAllocate
<1>2. ASSUME NEW t \in Threads, LockQueue(t) PROVE Reachable'
  BY <1>2, ReachableKept DEF LockQueue
<1>3. ASSUME NEW t \in Threads, Insert(t) PROVE Reachable'
  BY <1>3, ReachableKept DEF Insert
<1>4. ASSUME NEW t \in Threads, FetchSub(t) PROVE Reachable'
  <2>1. PICK s \in all_slabs : s = slab[t]
    BY <1>4 DEF FetchSub, UsesSlab, InQueue
  <2>2. \A x \in all_slabs : num_free'[x] > 0 => num_free[x] > 0
    BY <1>4, <2>1 DEF FetchSub
  <2>3. QED
    BY <1>4, <2>2, ReachableKept DEF FetchSub
<1>5. ASSUME NEW t \in Threads, Settle(t) PROVE Reachable'
  <2>1. PICK s \in all_slabs : s = slab[t] /\ s = Head(free_slabs)
    BY <1>5 DEF Settle, UsesSlab, InQueue, Typed, AtHead
  <2>2. /\ SettleQueue(s) /\ pc' = [pc EXCEPT ![t] = "idle"] /\ pc[t] = "settle"
        /\ slab' = [slab EXCEPT ![t] = NoSlab]
    BY <1>5, <2>1 DEF Settle, Return
  <2>3. ~Destroyed /\ free_slabs # <<>> /\ Reachable
    BY <2>2 DEF Typed, AtHead
  <2>4. \A x : Pushing(x) => Pushing(x)'
    BY <2>2 DEF Pushing
  <2>5. CASE UNCHANGED <<slabVars, all_slabs, free_slabs>>
    BY <2>2, <2>3, <2>5, ReachableKept
  <2>6. CASE /\ num_free[s] = 0 /\ free_slabs' = Tail(free_slabs)
             /\ UNCHANGED <<slabVars, all_slabs>>
    <3>1. \A x : Queued(x) => Queued(x)' \/ x = s
      BY <2>1, <2>3, <2>6, QueuedTail
    <3>2. QED
      BY <2>3, <2>4, <2>6, <3>1 DEF Reachable
  <2>7. ASSUME num_free[s] = 0, Len(free_slabs) = 1, NEW new \in Slabs \ all_slabs,
               num_free' = [num_free EXCEPT ![new] = MaxSlots],
               all_slabs' = all_slabs \cup {new}, free_slabs' = <<new>>
        PROVE  Reachable'
    <3>1. \A x : Queued(x)' <=> x = new
      BY <2>7, QueuedOne
    <3>2. \A x : Queued(x) <=> x = s
      BY <2>1, <2>7, QueuedSingle
    <3>3. \A x \in all_slabs : num_free'[x] = num_free[x]
      BY <2>7
    <3>4. QED
      BY <2>3, <2>4, <2>7, <3>1, <3>2, <3>3 DEF Reachable
  <2>8. QED
    BY <2>2, <2>5, <2>6, <2>7 DEF SettleQueue
<1>6. ASSUME NEW t \in Threads, CallDeallocate(t) PROVE Reachable'
  BY <1>6, ReachableKept DEF CallDeallocate
<1>7. ASSUME NEW t \in Threads, Erase(t) PROVE Reachable'
  BY <1>7, ReachableKept DEF Erase
<1>8. ASSUME NEW t \in Threads, FetchAdd(t) PROVE Reachable'
  <2>1. PICK s \in all_slabs : s = slab[t]
    BY <1>8 DEF FetchAdd, UsesSlab
  <2>2. /\ num_free' = [num_free EXCEPT ![s] = @ + 1] /\ all_slabs' = all_slabs
        /\ free_slabs' = free_slabs /\ pc[t] = "fetch_add"
        /\ num_free[s] = 0 => pc' = [pc EXCEPT ![t] = "push_back"] /\ slab' = slab
        /\ num_free[s] # 0 => Return(t)
    BY <1>8, <2>1 DEF FetchAdd
  <2>3. Reachable
    BY <2>2
  <2>4. \A x : Queued(x) => Queued(x)'
    BY <2>2 DEF Queued
  <2>5. CASE num_free[s] = 0
    <3>1. Pushing(s)' /\ \A x : Pushing(x) => Pushing(x)'
      BY <2>1, <2>2, <2>5 DEF Pushing
    <3>2. \A x \in all_slabs : x # s => num_free'[x] = num_free[x]
      BY <2>2
    <3>3. QED
      BY <2>2, <2>3, <2>4, <3>1, <3>2 DEF Reachable
  <2>6. CASE num_free[s] # 0
    <3>1. \A x \in all_slabs : num_free'[x] > 0 => num_free[x] > 0
      BY <2>2, <2>6
    <3>2. QED
      BY <2>2, <2>3, <2>6, <3>1, ReachableKept DEF Return
  <2>7. QED
    BY <2>5, <2>6
<1>9. ASSUME NEW t \in Threads, PushBack(t) PROVE Reachable'
  <2>1. PICK s \in all_slabs : s = slab[t]
    BY <1>9 DEF PushBack, UsesSlab
  <2>2. /\ free_slabs' = Append(free_slabs, s) /\ pc[t] = "push_back"
        /\ pc' = [pc EXCEPT ![t] = "idle"] /\ slab' = [slab EXCEPT ![t] = NoSlab]
        /\ num_free' = num_free /\ all_slabs' = all_slabs
    BY <1>9, <2>1 DEF PushBack, Return
  <2>3. \A x : Queued(x)' <=> Queued(x) \/ x = s
    BY <2>2, QueuedAppend
  <2>4. \A x : Pushing(x) => Pushing(x)' \/ x = s
    BY <2>1, <2>2 DEF Pushing
  <2>5. Reachable
    BY <2>2
  <2>6. QED
    BY <2>2, <2>3, <2>4, <2>5 DEF Reachable
<1>10. CASE Destroy
  <2>1. free_slabs # <<>>
    BY <1>10 DEF Destroy, Typed, AtHead
  <2>2. QED
    BY <1>10, <2>1 DEF Destroy, Destroyed
<1>11. CASE UNCHANGED vars
  BY <1>11, ReachableKept DEF vars, Destroyed
<1>12. QED
  BY <1>1, <1>2, <1>3, <1>4, <1>5, <1>6, <1>7, <1>8, <1>9, <1>10, <1>11
  DEF Next, Step, Idle

(* No slab with an unreserved slot is forgotten and the queue never runs   *)
(* empty, for any number of threads: the one promise of the queue that     *)
(* deallocations running beside an allocation do not break.                *)
THEOREM MutexReachable == Spec => []SlabsReachable
<1>1. Init => (~Destroyed => Reachable)
  BY DEF Init, Reachable, Queued, Destroyed
<1>2. Typed /\ (~Destroyed => Reachable) => SlabsReachable
  BY DEF SlabsReachable, Reachable, Typed, AtHead
<1>3. QED
  BY <1>1, <1>2, InitTyped, StepTyped, StepReachable, PTL DEF Spec

-----------------------------------------------------------------------------
(* What num_free counts: the slots of the slab that no client owns and no  *)
(* thread that has taken it off num_free is handing out or taking back.    *)

LiveOn(s) == {p \in live : p[1] = s}
Counted == {t \in Threads : \/ pc[t] = "settle" /\ slot[t] # NoSlot
                            \/ pc[t] \in {"erase", "fetch_add"}}
CountedOn(s) == {t \in Counted : slab[t] = s}

CounterExact ==
  \A s \in all_slabs :
    num_free[s] + Cardinality(LiveOn(s)) + Cardinality(CountedOn(s)) = MaxSlots

LEMMA FiniteCounts ==
  ASSUME Typed, NEW s \in all_slabs
  PROVE  /\ IsFiniteSet(LiveOn(s)) /\ Cardinality(LiveOn(s)) \in Nat
         /\ IsFiniteSet(CountedOn(s)) /\ Cardinality(CountedOn(s)) \in Nat
<1>1. IsFiniteSet({s} \X Bits)
  <2>1. IsFiniteSet(Bits)
    BY SlotsAssumption, FS_Interval DEF Bits
  <2>2. IsFiniteSet({s})
    BY FS_Singleton
  <2>3. QED
    BY <2>1, <2>2, FS_Product
<1>2. LiveOn(s) \subseteq {s} \X Bits
  BY DEF LiveOn, Typed, TypeOK
<1>3. CountedOn(s) \subseteq Threads
  BY DEF CountedOn, Counted
<1>4. IsFiniteSet(LiveOn(s)) /\ IsFiniteSet(CountedOn(s))
  BY <1>1, <1>2, <1>3, FS_Subset, ThreadsAssumption
<1>5. QED
  BY <1>4, FS_CardinalityType

LEMMA InitCounter == Init => CounterExact
<1> SUFFICES ASSUME Init, NEW s \in all_slabs
             PROVE  num_free[s] + Cardinality(LiveOn(s)) + Cardinality(CountedOn(s)) = MaxSlots
  BY DEF CounterExact
<1>1. LiveOn(s) = {} /\ CountedOn(s) = {}
  BY DEF Init, LiveOn, CountedOn, Counted
<1>2. num_free[s] = MaxSlots
  BY DEF Init
<1>3. QED
  BY <1>1, <1>2, FS_EmptySet, SlotsAssumption

(* Steps after which the same threads are counted on the same slabs.       *)
LEMMA CounterKept ==
  ASSUME CounterExact, num_free' = num_free, all_slabs' = all_slabs, live' = live,
         Counted' = Counted, \A t \in Counted : slab'[t] = slab[t]
  PROVE  CounterExact'
<1>1. \A s : LiveOn(s)' = LiveOn(s) /\ CountedOn(s)' = CountedOn(s)
  BY DEF LiveOn, CountedOn
<1>2. QED
  BY <1>1 DEF CounterExact

(* Steps that move a slot of one slab from one of the three to another.    *)
LEMMA CounterMoved ==
  ASSUME CounterExact, NEW s \in all_slabs,
         num_free'[s] + Cardinality(LiveOn(s)') + Cardinality(CountedOn(s)')
           = num_free[s] + Cardinality(LiveOn(s)) + Cardinality(CountedOn(s)),
         \A x \in all_slabs : x # s => /\ LiveOn(x)' = LiveOn(x)
                                       /\ CountedOn(x)' = CountedOn(x)
                                       /\ num_free'[x] = num_free[x],
         \A x \in all_slabs' \ all_slabs :
           num_free'[x] + Cardinality(LiveOn(x)') + Cardinality(CountedOn(x)') = MaxSlots
  PROVE  CounterExact'
BY DEF CounterExact

(* A slab that has just been created. *)
LEMMA CounterNew ==
  ASSUME NEW x, num_free'[x] = MaxSlots, LiveOn(x)' = {}, CountedOn(x)' = {}
  PROVE  num_free'[x] + Cardinality(LiveOn(x)') + Cardinality(CountedOn(x)') = MaxSlots
BY FS_EmptySet, SlotsAssumption

LEMMA StepCounter ==
  Typed /\ OwnedOnce /\ CounterExact /\ [Next]_vars => CounterExact'
<1> SUFFICES ASSUME Typed, OwnedOnce, CounterExact, [Next]_vars PROVE CounterExact'
  OBVIOUS
<1>a. /\ num_free \in [Slabs -> Int] /\ all_slabs \subseteq Slabs
      /\ pc \in [Threads -> AllocateSteps \cup {"idle", "erase", "fetch_add", "push_back"}]
      /\ slab \in [Threads -> all_slabs \cup {NoSlab}]
      /\ slot \in [Threads -> Bits \cup {NoSlot}]
      /\ live \subseteq all_slabs \X Bits
      /\ NoSlab \notin all_slabs /\ \A b \in Bits : b # NoSlot
      /\ \A t \in Threads : pc[t] \in UsesSlab => slab[t] \in all_slabs
  BY NoSlotAssumption, SlotsAssumption DEF Typed, TypeOK, LocalsOK, Bits
<1>b. /\ \A t \in Threads : pc[t] \in {"insert", "idle"} => slot[t] = NoSlot
      /\ \A t \in Threads : pc[t] \in {"fetch_sub", "erase"} => slot[t] \in Bits
      /\ \A t \in InHand : <<slab[t], slot[t]>> \notin live
  BY DEF Typed, LocalsOK, OwnedOnce, OneOwner
<1> USE <1>a DEF At, Goto, slabVars
<1>1. ASSUME NEW t \in Threads, CallAllocate(t) PROVE CounterExact'
  BY <1>1, CounterKept DEF CallAllocate, Counted
<1>2. ASSUME NEW t \in Threads, LockQueue(t) PROVE CounterExact'
  BY <1>2, CounterKept DEF LockQueue, Counted
<1>3. ASSUME NEW t \in Threads, Insert(t) PROVE CounterExact'
  BY <1>3, <1>b, CounterKept DEF Insert, Counted
<1>4. ASSUME NEW t \in Threads, FetchSub(t) PROVE CounterExact'
  <2>1. PICK s \in all_slabs : s = slab[t]
    BY <1>4 DEF FetchSub, UsesSlab, InQueue
  <2>2. /\ num_free' = [num_free EXCEPT ![s] = num_free[s] - 1] /\ pc[t] = "fetch_sub"
        /\ pc' = [pc EXCEPT ![t] = "settle"]
        /\ UNCHANGED <<all_slabs, slab, slot, live>>
    BY <1>4, <2>1 DEF FetchSub
  <2>3. \A x : LiveOn(x)' = LiveOn(x)
    BY <2>2 DEF LiveOn
  <2>4. t \notin CountedOn(s) /\ CountedOn(s)' = CountedOn(s) \cup {t}
        /\ \A x : x # s => CountedOn(x)' = CountedOn(x)
    BY <2>1, <2>2, <1>b DEF CountedOn, Counted
  <2>5. Cardinality(CountedOn(s)') = Cardinality(CountedOn(s)) + 1
    BY <2>4, FiniteCounts, FS_AddElement
  <2>6. num_free'[s] = num_free[s] - 1 /\ num_free[s] \in Int
    BY <2>2
  <2>7. num_free'[s] + Cardinality(LiveOn(s)') + Cardinality(CountedOn(s)')
          = num_free[s] + Cardinality(LiveOn(s)) + Cardinality(CountedOn(s))
    BY <2>3, <2>5, <2>6, FiniteCounts
  <2>8. \A x \in all_slabs : x # s => num_free'[x] = num_free[x]
    BY <2>2
  <2>9. QED
    BY <2>2, <2>3, <2>4, <2>7, <2>8, CounterMoved
<1>5. ASSUME NEW t \in Threads, Settle(t) PROVE CounterExact'
  <2>1. PICK s \in all_slabs : s = slab[t]
    BY <1>5 DEF Settle, UsesSlab, InQueue
  <2>2. /\ SettleQueue(s) /\ pc[t] = "settle" /\ pc' = [pc EXCEPT ![t] = "idle"]
        /\ slab' = [slab EXCEPT ![t] = NoSlab] /\ slot' = [slot EXCEPT ![t] = NoSlot]
        /\ live' = live \cup IF slot[t] = NoSlot THEN {} ELSE {<<s, slot[t]>>}
    BY <1>5, <2>1 DEF Settle, Return
  <2>3. /\ all_slabs \subseteq all_slabs'
        /\ \A x \in all_slabs : num_free'[x] = num_free[x]
        /\ \A x \in all_slabs' \ all_slabs : num_free'[x] = MaxSlots
    BY <2>2 DEF SettleQueue
  <2>4. \A x : x # s => LiveOn(x)' = LiveOn(x)
    BY <2>2 DEF LiveOn
  <2>5. \A x : x # s => CountedOn(x)' = CountedOn(x)
    BY <2>1, <2>2 DEF CountedOn, Counted
  <2>6. \A x \in all_slabs' \ all_slabs :
          num_free'[x] + Cardinality(LiveOn(x)') + Cardinality(CountedOn(x)') = MaxSlots
    <3> SUFFICES ASSUME NEW x \in all_slabs' \ all_slabs
                 PROVE  LiveOn(x)' = {} /\ CountedOn(x)' = {}
      BY <2>3, CounterNew
    <3>1. LiveOn(x) = {}
      BY DEF LiveOn
    <3>2. CountedOn(x) = {}
      BY DEF CountedOn, Counted, UsesSlab, InQueue
    <3>3. QED
      BY <2>4, <2>5, <3>1, <3>2
  <2>7. num_free'[s] + Cardinality(LiveOn(s)') + Cardinality(CountedOn(s)')
          = num_free[s] + Cardinality(LiveOn(s)) + Cardinality(CountedOn(s))
    <3>1. CASE slot[t] = NoSlot
      <4>1. LiveOn(s)' = LiveOn(s) /\ CountedOn(s)' = CountedOn(s)
        BY <2>1, <2>2, <3>1 DEF LiveOn, CountedOn, Counted
      <4>2. QED
        BY <2>3, <4>1
    <3>2. CASE slot[t] # NoSlot
      <4>a. PICK p : p = <<s, slot[t]>>
        OBVIOUS
      <4>1. p = <<s, slot[t]>> /\ p[1] = s
        BY <4>a
      <4>2. p \notin live
        BY <1>b, <2>1, <2>2, <3>2, <4>1 DEF InHand
      <4>3. p \notin LiveOn(s) /\ LiveOn(s)' = LiveOn(s) \cup {p}
        BY <2>2, <3>2, <4>1, <4>2 DEF LiveOn
      <4>4. t \in CountedOn(s) /\ CountedOn(s)' = CountedOn(s) \ {t}
        BY <2>1, <2>2, <3>2 DEF CountedOn, Counted
      <4>5. Cardinality(LiveOn(s)') = Cardinality(LiveOn(s)) + 1
        BY <4>3, FiniteCounts, FS_AddElement
      <4>6. Cardinality(CountedOn(s)') = Cardinality(CountedOn(s)) - 1
        BY <4>4, FiniteCounts, FS_RemoveElement
      <4>7. num_free[s] \in Int
        OBVIOUS
      <4>8. QED
        BY <2>3, <4>5, <4>6, <4>7, FiniteCounts
    <3>3. QED
      BY <3>1, <3>2
  <2>8. QED
    BY <2>3, <2>4, <2>5, <2>6, <2>7, CounterMoved
<1>6. ASSUME NEW t \in Threads, CallDeallocate(t) PROVE CounterExact'
  <2>1. PICK p \in live : /\ live' = live \ {p} /\ slab' = [slab EXCEPT ![t] = p[1]]
    BY <1>6 DEF CallDeallocate
  <2>2. /\ pc' = [pc EXCEPT ![t] = "erase"] /\ pc[t] = "idle"
        /\ UNCHANGED <<num_free, all_slabs>>
        /\ \A u \in Threads : u # t => slot'[u] = slot[u]
    BY <1>6 DEF CallDeallocate
  <2>3. PICK s \in all_slabs : s = p[1]
    OBVIOUS
  <2>4. p \in LiveOn(s) /\ LiveOn(s)' = LiveOn(s) \ {p}
        /\ \A x : x # s => LiveOn(x)' = LiveOn(x)
    BY <2>1, <2>3 DEF LiveOn
  <2>5. t \notin CountedOn(s) /\ CountedOn(s)' = CountedOn(s) \cup {t}
        /\ \A x : x # s => CountedOn(x)' = CountedOn(x)
    <3>1. t \notin Counted /\ Counted' = Counted \cup {t}
      BY <2>2 DEF Counted
    <3>2. \A u \in Counted : slab'[u] = slab[u]
      BY <2>1, <3>1 DEF Counted
    <3>3. slab'[t] = s
      BY <2>1, <2>3
    <3>4. QED
      BY <3>1, <3>2, <3>3 DEF CountedOn
  <2>6. Cardinality(LiveOn(s)') = Cardinality(LiveOn(s)) - 1
    BY <2>4, FiniteCounts, FS_RemoveElement
  <2>7. Cardinality(CountedOn(s)') = Cardinality(CountedOn(s)) + 1
    BY <2>5, FiniteCounts, FS_AddElement
  <2>8. num_free[s] \in Int /\ num_free' = num_free
    BY <2>2
  <2>9. num_free'[s] + Cardinality(LiveOn(s)') + Cardinality(CountedOn(s)')
          = num_free[s] + Cardinality(LiveOn(s)) + Cardinality(CountedOn(s))
    BY <2>6, <2>7, <2>8, FiniteCounts
  <2>10. QED
    BY <2>2, <2>4, <2>5, <2>9, CounterMoved
<1>7. ASSUME NEW t \in Threads, Erase(t) PROVE CounterExact'
  BY <1>7, CounterKept DEF Erase, Counted
<1>8. ASSUME NEW t \in Threads, FetchAdd(t) PROVE CounterExact'
  <2>1. PICK s \in all_slabs : s = slab[t]
    BY <1>8 DEF FetchAdd, UsesSlab
  <2>2. /\ num_free' = [num_free EXCEPT ![s] = num_free[s] + 1] /\ pc[t] = "fetch_add"
        /\ UNCHANGED <<all_slabs, live>>
        /\ pc'[t] \in {"idle", "push_back"}
        /\ \A u \in Threads : u # t => pc'[u] = pc[u] /\ slab'[u] = slab[u] /\ slot'[u] = slot[u]
    BY <1>8, <2>1 DEF FetchAdd, Return
  <2>3. \A x : LiveOn(x)' = LiveOn(x)
    BY <2>2 DEF LiveOn
  <2>4. t \in CountedOn(s) /\ CountedOn(s)' = CountedOn(s) \ {t}
        /\ \A x : x # s => CountedOn(x)' = CountedOn(x)
    <3>1. t \in Counted /\ Counted' = Counted \ {t}
      BY <2>2 DEF Counted
    <3>2. \A u \in Counted' : slab'[u] = slab[u]
      BY <2>2, <3>1 DEF Counted
    <3>3. QED
      BY <2>1, <3>1, <3>2 DEF CountedOn
  <2>5. Cardinality(CountedOn(s)') = Cardinality(CountedOn(s)) - 1
    BY <2>4, FiniteCounts, FS_RemoveElement
  <2>6. num_free'[s] = num_free[s] + 1 /\ num_free[s] \in Int
    BY <2>2
  <2>7. num_free'[s] + Cardinality(LiveOn(s)') + Cardinality(CountedOn(s)')
          = num_free[s] + Cardinality(LiveOn(s)) + Cardinality(CountedOn(s))
    BY <2>3, <2>5, <2>6, FiniteCounts
  <2>8. \A x \in all_slabs : x # s => num_free'[x] = num_free[x]
    BY <2>2
  <2>9. QED
    BY <2>2, <2>3, <2>4, <2>7, <2>8, CounterMoved
<1>9. ASSUME NEW t \in Threads, PushBack(t) PROVE CounterExact'
  BY <1>9, CounterKept DEF PushBack, Return, Counted
<1>10. CASE Destroy
  BY <1>10, CounterKept DEF Destroy, Counted
<1>11. CASE UNCHANGED vars
  BY <1>11, CounterKept DEF vars, Counted
<1>12. QED
  BY <1>1, <1>2, <1>3, <1>4, <1>5, <1>6, <1>7, <1>8, <1>9, <1>10, <1>11
  DEF Next, Step, Idle

(* Although num_free is counted under no lock, it is never off by more     *)
(* than the calls that are between their two updates.                      *)
THEOREM MutexCounter == Spec => []CounterExact
BY InitTyped, StepTyped, InitOwned, StepOwned, InitCounter, StepCounter, PTL DEF Spec

-----------------------------------------------------------------------------
(* One thread: no deallocation runs beside an allocation, and the queue    *)
(* and the bitmaps are what their comments say.                            *)

Sequential == \A t, u \in Threads : t = u

NoRepeat == \A i, j \in 1 .. Len(free_slabs) : free_slabs[i] = free_slabs[j] => i = j

(* A slab in the queue has a slot left, until the call that took its last  *)
(* one settles the queue; a slab about to be pushed is not in it.          *)
QueueKept ==
  /\ NoRepeat
  /\ \A s \in all_slabs : num_free[s] >= 0
  /\ \A s \in all_slabs :
       Queued(s) => num_free[s] > 0 \/ \E t \in Threads : pc[t] = "settle" /\ slab[t] = s
  /\ \A t \in Threads : pc[t] = "push_back" => ~ Queued(slab[t]) /\ num_free[slab[t]] > 0

(* insert() never looks beyond the slots of the slab, nor in vain.         *)
SlotsKept ==
  /\ \A t \in Threads : pc[t] \in {"fetch_sub", "settle"} => slot[t] \in Slots
  /\ live \subseteq all_slabs \X Slots

Kept == QueueKept /\ SlotsKept

LEMMA NoRepeatAppend ==
  ASSUME free_slabs \in Seq(all_slabs), NEW s \in all_slabs, NoRepeat, ~ Queued(s),
         free_slabs' = Append(free_slabs, s)
  PROVE  NoRepeat'
<1>1. PICK n \in Nat : n = Len(free_slabs)
  BY LenProperties
<1>2. /\ Len(free_slabs') = n + 1
      /\ \A i \in 1 .. n : free_slabs'[i] = free_slabs[i]
      /\ free_slabs'[n + 1] = s
  BY <1>1, AppendProperties
<1>3. 1 .. n + 1 = (1 .. n) \cup {n + 1}
  OBVIOUS
<1>4. \A i \in 1 .. n : free_slabs[i] # s
  BY <1>1 DEF Queued
<1>5. QED
  BY <1>1, <1>2, <1>3, <1>4 DEF NoRepeat

LEMMA NoRepeatTail ==
  ASSUME free_slabs \in Seq(all_slabs), free_slabs # <<>>, NoRepeat,
         free_slabs' = Tail(free_slabs)
  PROVE  NoRepeat' /\ \A x : Queued(x)' => Queued(x) /\ x # Head(free_slabs)
<1>1. PICK n \in Nat \ {0} : n = Len(free_slabs)
  BY EmptySeq
<1>2. /\ Len(free_slabs') = n - 1
      /\ \A i \in 1 .. n - 1 : free_slabs'[i] = free_slabs[i + 1]
  BY <1>1, HeadTailProperties
<1>3. Head(free_slabs) = free_slabs[1]
  OBVIOUS
<1>4. \A i \in 1 .. n - 1 : i + 1 \in 1 .. n /\ i + 1 # 1
  OBVIOUS
<1>5. 1 \in 1 .. n
  OBVIOUS
<1>6. \A i, j \in 1 .. n : free_slabs[i] = free_slabs[j] => i = j
  BY <1>1 DEF NoRepeat
<1>7. \A i, j \in 1 .. n - 1 : i + 1 = j + 1 => i = j
  OBVIOUS
<1>8. NoRepeat'
  BY <1>2, <1>4, <1>6, <1>7 DEF NoRepeat
<1>9. QED
  BY <1>1, <1>2, <1>3, <1>4, <1>5, <1>6, <1>8 DEF Queued

(* A slab with num_free above 0 has one of its slots at 0: with no other   *)
(* thread about, as many are taken as clients own.                         *)
LEMMA SlotAvailable ==
  ASSUME Sequential, Typed, OwnedOnce, CounterExact,
         NEW t \in Threads, pc[t] = "insert", num_free[slab[t]] > 0
  PROVE  \E b \in Slots : b \in FreeBits(slab[t])
<1> SUFFICES ASSUME \A b \in Slots : b \notin FreeBits(slab[t]) PROVE FALSE
  OBVIOUS
<1>1. PICK s \in all_slabs : s = slab[t]
  BY DEF Typed, LocalsOK, UsesSlab, InQueue
<1>2. CountedOn(s) = {} /\ InHand = {}
  BY DEF Sequential, CountedOn, Counted, InHand
<1>3. \A b \in Slots : <<s, b>> \in live
  BY <1>1, <1>2, SlotsAssumption
  DEF FreeBits, Slots, Bits, OwnedOnce, BitsOwned, Owned
<1>4. IsFiniteSet(Slots) /\ Cardinality(Slots) = MaxSlots
  <2>1. 0 \in Int /\ MaxSlots - 1 \in Int /\ 0 <= MaxSlots - 1
    BY SlotsAssumption
  <2>2. /\ IsFiniteSet(0 .. MaxSlots - 1)
        /\ Cardinality(0 .. MaxSlots - 1) = (MaxSlots - 1) - 0 + 1
    BY <2>1, FS_Interval
  <2>3. (MaxSlots - 1) - 0 + 1 = MaxSlots
    BY SlotsAssumption
  <2>4. QED
    BY <2>2, <2>3 DEF Slots
<1>5. Cardinality(Slots) <= Cardinality(LiveOn(s))
  <2> DEFINE f == [b \in Slots |-> <<s, b>>]
  <2>1. f \in Injection(Slots, LiveOn(s))
    BY <1>3 DEF Injection, IsInjective, LiveOn
  <2>2. QED
    BY <2>1, FiniteCounts, FS_Injection
<1>6. num_free[s] + Cardinality(LiveOn(s)) + 0 = MaxSlots
  BY <1>2, FS_EmptySet DEF CounterExact
<1>7. num_free[s] \in Int
  BY DEF Typed, TypeOK
<1>8. QED
  BY <1>1, <1>4, <1>5, <1>6, <1>7, FiniteCounts, SlotsAssumption

(* What insert() finds in the slab at the head. *)
LEMMA InsertsSlot ==
  ASSUME Sequential, Typed, OwnedOnce, CounterExact, Kept,
         NEW t \in Threads, pc[t] = "insert"
  PROVE  FreeBits(slab[t]) # {} /\ Min(FreeBits(slab[t])) \in Slots
<1>1. PICK s \in all_slabs : s = slab[t] /\ Queued(s)
  BY HeadQueued DEF Typed, LocalsOK, AtHead, Quiet, UsesSlab, InQueue
<1>2. num_free[s] > 0
  BY <1>1 DEF Kept, QueueKept, Sequential
<1>3. PICK b \in Slots : b \in FreeBits(s)
  BY <1>1, <1>2, SlotAvailable
<1>4. FreeBits(s) \in SUBSET Nat
  BY SlotsAssumption DEF FreeBits, Bits
<1>5. Min(FreeBits(s)) \in FreeBits(s) /\ Min(FreeBits(s)) <= b
  BY <1>3, <1>4, MinIsLeast
<1>6. PICK m \in Nat : m = Min(FreeBits(s))
  BY <1>4, <1>5
<1>7. b \in Nat /\ b <= MaxSlots - 1
  BY SlotsAssumption DEF Slots
<1>8. m \in 0 .. MaxSlots - 1
  BY <1>5, <1>6, <1>7, SlotsAssumption
<1>9. QED
  BY <1>1, <1>3, <1>6, <1>8 DEF Slots

LEMMA InitKept == Init => Kept
<1> SUFFICES ASSUME Init PROVE Kept
  OBVIOUS
<1>1. PICK s \in Slabs : /\ all_slabs = {s} /\ free_slabs = <<s>>
                         /\ num_free = [x \in Slabs |-> IF x = s THEN MaxSlots ELSE 0]
  BY DEF Init
<1>2. Len(free_slabs) = 1 /\ num_free[s] = MaxSlots
  BY <1>1
<1>3. QED
  BY <1>1, <1>2, SlotsAssumption DEF Init, Kept, QueueKept, SlotsKept, NoRepeat

LEMMA StepKept ==
  ASSUME Sequential
  PROVE  Typed /\ OwnedOnce /\ CounterExact /\ Kept /\ [Next]_vars => Kept'
<1> SUFFICES ASSUME Typed, OwnedOnce, CounterExact, Kept, [Next]_vars PROVE Kept'
  OBVIOUS
<1>a. /\ num_free \in [Slabs -> Int] /\ all_slabs \subseteq Slabs
      /\ free_slabs \in Seq(all_slabs)
      /\ pc \in [Threads -> AllocateSteps \cup {"idle", "erase", "fetch_add", "push_back"}]
      /\ slab \in [Threads -> all_slabs \cup {NoSlab}]
      /\ slot \in [Threads -> Bits \cup {NoSlot}]
      /\ \A t \in Threads : pc[t] \in UsesSlab => slab[t] \in all_slabs
      /\ \A t, u \in Threads : t = u
  BY DEF Typed, TypeOK, LocalsOK, Sequential
<1>b. /\ NoRepeat
      /\ \A s \in all_slabs : num_free[s] >= 0
      /\ \A s \in all_slabs :
           Queued(s) => num_free[s] > 0 \/ \E t \in Threads : pc[t] = "settle" /\ slab[t] = s
      /\ \A t \in Threads : pc[t] = "push_back" => ~ Queued(slab[t]) /\ num_free[slab[t]] > 0
      /\ \A t \in Threads : pc[t] \in {"fetch_sub", "settle"} => slot[t] \in Slots
      /\ live \subseteq all_slabs \X Slots
  BY DEF Kept, QueueKept, SlotsKept
<1>c. free_slabs' = free_slabs => (NoRepeat' <=> NoRepeat) /\ \A x : Queued(x)' <=> Queued(x)
  BY DEF NoRepeat, Queued
<1> USE <1>a, <1>b DEF At, Goto, slabVars
<1>1. ASSUME NEW t \in Threads, CallAllocate(t) PROVE Kept'
  BY <1>1, <1>c DEF CallAllocate, Kept, QueueKept, SlotsKept
<1>2. ASSUME NEW t \in Threads, LockQueue(t) PROVE Kept'
  BY <1>2, <1>c DEF LockQueue, Kept, QueueKept, SlotsKept
<1>3. ASSUME NEW t \in Threads, Insert(t) PROVE Kept'
  <2>1. FreeBits(slab[t]) # {} /\ Min(FreeBits(slab[t])) \in Slots
    BY <1>3, InsertsSlot, Sequential DEF Insert
  <2>2. /\ pc[t] = "insert" /\ pc' = [pc EXCEPT ![t] = "fetch_sub"]
        /\ slot'[t] \in Slots
        /\ UNCHANGED <<num_free, all_slabs, free_slabs, slab, live>>
    BY <1>3, <2>1 DEF Insert
  <2>3. QED
    BY <2>2, <1>c DEF Kept, QueueKept, SlotsKept
<1>4. ASSUME NEW t \in Threads, FetchSub(t) PROVE Kept'
  <2>1. PICK s \in all_slabs : s = slab[t] /\ Queued(s)
    BY <1>4, HeadQueued DEF FetchSub, Typed, AtHead, Quiet, UsesSlab, InQueue
  <2>2. /\ num_free' = [num_free EXCEPT ![s] = num_free[s] - 1] /\ pc[t] = "fetch_sub"
        /\ pc' = [pc EXCEPT ![t] = "settle"]
        /\ UNCHANGED <<all_slabs, free_slabs, slab, slot, live>>
    BY <1>4, <2>1 DEF FetchSub
  <2>3. \A x \in all_slabs : Queued(x) => num_free[x] > 0
    BY <2>2
  <2>4. /\ num_free[s] - 1 >= 0 /\ num_free'[s] = num_free[s] - 1
        /\ \A x \in all_slabs : x # s => num_free'[x] = num_free[x]
    BY <2>1, <2>2, <2>3
  <2>5. pc'[t] = "settle" /\ slab'[t] = s
    BY <2>1, <2>2
  <2>6. QueueKept'
    BY <2>1, <2>2, <2>3, <2>4, <2>5, <1>c DEF QueueKept
  <2>7. SlotsKept'
    BY <2>2 DEF SlotsKept
  <2>8. QED
    BY <2>6, <2>7 DEF Kept
<1>5. ASSUME NEW t \in Threads, Settle(t) PROVE Kept'
  <2>1. PICK s \in all_slabs : s = slab[t] /\ s = Head(free_slabs)
    BY <1>5 DEF Settle, UsesSlab, InQueue, Typed, AtHead
  <2>2. /\ SettleQueue(s) /\ pc[t] = "settle" /\ pc' = [pc EXCEPT ![t] = "idle"]
        /\ slot[t] \in Slots /\ live' = live \cup IF slot[t] = NoSlot THEN {} ELSE {<<s, slot[t]>>}
    BY <1>5, <2>1 DEF Settle, Return
  <2>3. \A u \in Threads : pc'[u] = "idle"
    BY <2>2
  <2>4. free_slabs # <<>>
    BY <2>2 DEF Typed, AtHead, Quiet
  <2>5. SlotsKept'
    <3>1. all_slabs \subseteq all_slabs'
      BY <2>2 DEF SettleQueue
    <3>2. QED
      BY <2>2, <2>3, <3>1 DEF SlotsKept
  <2>6. SUFFICES NoRepeat' /\ \A x \in all_slabs' : num_free'[x] >= 0 /\ (Queued(x)' => num_free'[x] > 0)
    BY <2>3, <2>5 DEF Kept, QueueKept
  <2>7. \A x \in all_slabs : x # s /\ Queued(x) => num_free[x] > 0
    BY <2>1, <2>2
  <2>8. CASE num_free[s] # 0 /\ UNCHANGED <<slabVars, all_slabs, free_slabs>>
    BY <2>7, <2>8, <1>c
  <2>9. CASE /\ free_slabs' = Tail(free_slabs)
             /\ UNCHANGED <<slabVars, all_slabs>>
    BY <2>1, <2>4, <2>7, <2>9, NoRepeatTail
  <2>10. ASSUME NEW new \in Slabs \ all_slabs,
                num_free' = [num_free EXCEPT ![new] = MaxSlots],
                all_slabs' = all_slabs \cup {new}, free_slabs' = <<new>>
         PROVE  NoRepeat' /\ \A x \in all_slabs' : num_free'[x] >= 0 /\ (Queued(x)' => num_free'[x] > 0)
    <3>1. NoRepeat' /\ \A x : Queued(x)' <=> x = new
      BY <2>10, QueuedOne DEF NoRepeat
    <3>2. num_free'[new] = MaxSlots /\ \A x \in all_slabs : num_free'[x] = num_free[x]
      BY <2>10
    <3>3. QED
      BY <2>10, <3>1, <3>2, SlotsAssumption
  <2>11. QED
    BY <2>2, <2>8, <2>9, <2>10 DEF SettleQueue
<1>6. ASSUME NEW t \in Threads, CallDeallocate(t) PROVE Kept'
  <2>1. pc[t] = "idle" /\ pc' = [pc EXCEPT ![t] = "erase"] /\ live' \subseteq live
        /\ UNCHANGED <<num_free, all_slabs, free_slabs>>
    BY <1>6 DEF CallDeallocate
  <2>2. QED
    BY <2>1, <1>c DEF Kept, QueueKept, SlotsKept
<1>7. ASSUME NEW t \in Threads, Erase(t) PROVE Kept'
  BY <1>7, <1>c DEF Erase, Kept, QueueKept, SlotsKept
<1>8. ASSUME NEW t \in Threads, FetchAdd(t) PROVE Kept'
  <2>1. PICK s \in all_slabs : s = slab[t]
    BY <1>8 DEF FetchAdd, UsesSlab
  <2>2. /\ num_free' = [num_free EXCEPT ![s] = num_free[s] + 1] /\ pc[t] = "fetch_add"
        /\ UNCHANGED <<all_slabs, free_slabs, live>>
        /\ \/ num_free[s] = 0 /\ pc' = [pc EXCEPT ![t] = "push_back"] /\ slab' = slab
           \/ num_free[s] # 0 /\ pc' = [pc EXCEPT ![t] = "idle"]
    BY <1>8, <2>1 DEF FetchAdd, Return
  <2>3. \A x \in all_slabs : Queued(x) => num_free[x] > 0
    BY <2>2
  <2>4. /\ num_free'[s] = num_free[s] + 1 /\ num_free'[s] > 0
        /\ \A x \in all_slabs : x # s => num_free'[x] = num_free[x]
    BY <2>2
  <2>5. \A u \in Threads : pc'[u] \in {"push_back", "idle"} /\ (pc'[u] = "push_back" => slab'[u] = s /\ num_free[s] = 0)
    BY <2>1, <2>2
  <2>6. QueueKept'
    BY <2>1, <2>2, <2>3, <2>4, <2>5, <1>c DEF QueueKept
  <2>7. SlotsKept'
    BY <2>2, <2>5 DEF SlotsKept
  <2>8. QED
    BY <2>6, <2>7 DEF Kept
<1>9. ASSUME NEW t \in Threads, PushBack(t) PROVE Kept'
  <2>1. PICK s \in all_slabs : s = slab[t]
    BY <1>9 DEF PushBack, UsesSlab
  <2>2. /\ free_slabs' = Append(free_slabs, s) /\ pc[t] = "push_back"
        /\ pc' = [pc EXCEPT ![t] = "idle"] /\ UNCHANGED <<num_free, all_slabs, live>>
    BY <1>9, <2>1 DEF PushBack, Return
  <2>3. NoRepeat' /\ \A x : Queued(x)' <=> Queued(x) \/ x = s
    BY <2>1, <2>2, QueuedAppend, NoRepeatAppend
  <2>4. \A u \in Threads : pc'[u] = "idle"
    BY <2>2
  <2>5. \A x \in all_slabs : Queued(x) => num_free[x] > 0
    BY <2>2
  <2>6. QED
    BY <2>1, <2>2, <2>3, <2>4, <2>5 DEF Kept, QueueKept, SlotsKept
<1>10. CASE Destroy
  <2>1. free_slabs' = <<>> /\ UNCHANGED <<num_free, all_slabs, pc, slab, slot, live>>
    BY <1>10 DEF Destroy
  <2>2. NoRepeat' /\ \A x : ~ Queued(x)'
    BY <2>1 DEF NoRepeat, Queued
  <2>3. QED
    BY <2>1, <2>2 DEF Kept, QueueKept, SlotsKept
<1>11. CASE UNCHANGED vars
  BY <1>11, <1>c DEF vars, Kept, QueueKept, SlotsKept
<1>12. QED
  BY <1>1, <1>2, <1>3, <1>4, <1>5, <1>6, <1>7, <1>8, <1>9, <1>10, <1>11
  DEF Next, Step, Idle

(* With no call in progress and no pointer out, the queue holds every slab.*)
LEMMA QuietQueue ==
  ASSUME Typed, CounterExact, Reachable, Kept,
         \A t \in Threads : pc[t] = "idle", live = {}
  PROVE  /\ {free_slabs[i] : i \in DOMAIN free_slabs} = all_slabs
         /\ \A i, j \in DOMAIN free_slabs : free_slabs[i] = free_slabs[j] => i = j
<1>1. free_slabs \in Seq(all_slabs) /\ DOMAIN free_slabs = 1 .. Len(free_slabs)
  BY DEF Typed, TypeOK
<1>2. ASSUME NEW s \in all_slabs PROVE Queued(s)
  <2>1. LiveOn(s) = {} /\ CountedOn(s) = {}
    BY DEF LiveOn, CountedOn, Counted
  <2>2. num_free[s] + 0 + 0 = MaxSlots
    BY <2>1, FS_EmptySet DEF CounterExact
  <2>3. num_free[s] \in Int
    BY DEF Typed, TypeOK
  <2>4. num_free[s] > 0
    BY <2>2, <2>3, SlotsAssumption
  <2>5. QED
    BY <2>4 DEF Reachable, Pushing
<1>3. \A i \in DOMAIN free_slabs : free_slabs[i] \in all_slabs
  BY <1>1
<1>4. QED
  BY <1>1, <1>2, <1>3 DEF Queued, Kept, QueueKept, NoRepeat

(* All that is known of the states of the one thread. *)
Sound ==
  /\ Typed /\ OwnedOnce /\ CounterExact /\ Kept
  /\ ~Destroyed => Reachable

LEMMA SoundAlways ==
  ASSUME Sequential PROVE Spec => []Sound
<1>1. Init => (~Destroyed => Reachable)
  BY DEF Init, Reachable, Queued, Destroyed
<1>2. QED
  BY <1>1, InitTyped, StepTyped, InitOwned, StepOwned, InitCounter, StepCounter,
     InitKept, StepKept, StepReachable, PTL DEF Spec, Sound

LEMMA StepDeleted == Sound /\ DeletedOnce /\ [Next]_vars => DeletedOnce'
<1> SUFFICES ASSUME Sound, DeletedOnce, [Next]_vars PROVE DeletedOnce'
  OBVIOUS
<1>1. CASE Destroy
  <2>1. /\ \A t \in Threads : pc[t] = "idle"
        /\ live = {} /\ ~Destroyed
    BY <1>1 DEF Destroy, Busy
  <2>2. deleted' = free_slabs /\ all_slabs' = all_slabs
    BY <1>1 DEF Destroy
  <2>3. QED
    BY <2>1, <2>2, QuietQueue DEF Sound, DeletedOnce
<1>2. CASE UNCHANGED vars
  BY <1>2 DEF vars, DeletedOnce, Destroyed
<1>3. ASSUME NEW t \in Threads, CallAllocate(t) \/ CallDeallocate(t) \/ Step(t)
      PROVE  DeletedOnce'
  <2>1. Destroyed => pc[t] = "idle" /\ live = {}
    BY DEF Sound, Typed, Quiet
  <2>2. ~Destroyed
    BY <1>3, <2>1 DEF CallAllocate, CallDeallocate, Step, At, LockQueue, Insert, FetchSub,
       Settle, Erase, FetchAdd, PushBack
  <2>3. deleted' = deleted
    BY <1>3 DEF CallAllocate, CallDeallocate, Step, LockQueue, Insert, FetchSub,
       Settle, Erase, FetchAdd, PushBack
  <2>4. QED
    BY <2>2, <2>3 DEF DeletedOnce, Destroyed
<1>4. QED
  BY <1>1, <1>2, <1>3 DEF Next, Idle

(* One thread: outside the calls the queue holds each slab with a free     *)
(* slot once and no other, and every pointer lies in its slab.             *)
THEOREM SequentialQueue ==
  ASSUME Sequential PROVE Spec => []QueueExact /\ []SlotInLayout
<1>1. Sound => QueueExact
  <2> SUFFICES ASSUME Sound, Busy = {}, ~Destroyed
               PROVE  /\ \A s \in all_slabs : Queued(s) <=> num_free[s] > 0
                      /\ NoRepeat
    BY DEF QueueExact, NoRepeat
  <2>1. \A t \in Threads : pc[t] = "idle"
    BY DEF Busy
  <2>2. \A s \in all_slabs : ~ Pushing(s)
    BY <2>1 DEF Pushing
  <2>3. QED
    BY <2>1, <2>2 DEF Sound, Kept, QueueKept, Reachable
<1>2. Sound => SlotInLayout
  BY DEF Sound, Kept, SlotsKept, SlotInLayout
<1>3. QED
  BY <1>1, <1>2, SoundAlways, PTL

(* One thread: the destructor deletes every slab ever created, each once.  *)
THEOREM SequentialShutdown ==
  ASSUME Sequential PROVE Spec => []DeletedOnce
<1>1. Init => DeletedOnce
  BY DEF Init, DeletedOnce, Destroyed
<1>2. QED
  BY <1>1, SoundAlways, StepDeleted, PTL DEF Spec

-----------------------------------------------------------------------------
(* One thread: the allocator implements SlotPool *)

LEMMA InitPool == Init => Pool!PoolInit
BY DEF Init, Pool!PoolInit, Operation

LEMMA StepPool ==
  ASSUME Sequential
  PROVE  Sound /\ [Next]_vars => [Pool!PoolNext]_(Pool!poolVars)
<1> SUFFICES ASSUME Sound, [Next]_vars PROVE [Pool!PoolNext]_(Pool!poolVars)
  OBVIOUS
<1> DEFINE op == [t \in Threads |-> Operation(t)]
<1>a. /\ pc \in [Threads -> AllocateSteps \cup {"idle", "erase", "fetch_add", "push_back"}]
      /\ all_slabs \subseteq Slabs /\ live \subseteq all_slabs \X Bits
  BY DEF Sound, Typed, TypeOK
<1> USE <1>a DEF At, Goto, slabVars, Operation, AllocateSteps, Pool!poolVars
<1>1. ASSUME NEW t \in Threads, CallAllocate(t) PROVE [Pool!PoolNext]_(Pool!poolVars)
  <2>1. Pool!AllocateCall(t)
    BY <1>1 DEF CallAllocate, Pool!AllocateCall
  <2>2. QED
    BY <2>1 DEF Pool!PoolNext
<1>2. ASSUME NEW t \in Threads, LockQueue(t) PROVE [Pool!PoolNext]_(Pool!poolVars)
  BY <1>2 DEF LockQueue
<1>3. ASSUME NEW t \in Threads, Insert(t) PROVE [Pool!PoolNext]_(Pool!poolVars)
  BY <1>3 DEF Insert
<1>4. ASSUME NEW t \in Threads, FetchSub(t) PROVE [Pool!PoolNext]_(Pool!poolVars)
  BY <1>4 DEF FetchSub
<1>5. ASSUME NEW t \in Threads, Settle(t) PROVE [Pool!PoolNext]_(Pool!poolVars)
  <2>1. PICK p : p = <<slab[t], slot[t]>>
    OBVIOUS
  <2>2. p \in (Slabs \X Slots) \ live /\ slot[t] # NoSlot
    <3>1. slab[t] \in all_slabs /\ slot[t] \in Slots /\ slot[t] # NoSlot
      BY <1>5, NoSlotAssumption, SlotsAssumption
      DEF Settle, Sound, Typed, LocalsOK, Kept, SlotsKept, UsesSlab, InQueue, Slots
    <3>2. p \notin live
      BY <1>5, <2>1, <3>1 DEF Settle, Sound, OwnedOnce, OneOwner, InHand
    <3>3. QED
      BY <2>1, <3>1, <3>2
  <2>3. Pool!AllocateReturn(t)
    BY <1>5, <2>1, <2>2 DEF Settle, Return, Pool!AllocateReturn
  <2>4. QED
    BY <2>3 DEF Pool!PoolNext
<1>6. ASSUME NEW t \in Threads, CallDeallocate(t) PROVE [Pool!PoolNext]_(Pool!poolVars)
  <2>1. Pool!DeallocateCall(t)
    BY <1>6 DEF CallDeallocate, Pool!DeallocateCall
  <2>2. QED
    BY <2>1 DEF Pool!PoolNext
<1>7. ASSUME NEW t \in Threads, Erase(t) PROVE [Pool!PoolNext]_(Pool!poolVars)
  BY <1>7 DEF Erase
<1>8. ASSUME NEW t \in Threads, FetchAdd(t) PROVE [Pool!PoolNext]_(Pool!poolVars)
  <2>1. CASE Goto(t, "push_back")
    BY <1>8, <2>1 DEF FetchAdd
  <2>2. CASE Return(t)
    <3>1. Pool!DeallocateReturn(t)
      BY <1>8, <2>2 DEF FetchAdd, Return, Pool!DeallocateReturn
    <3>2. QED
      BY <3>1 DEF Pool!PoolNext
  <2>3. QED
    BY <1>8, <2>1, <2>2 DEF FetchAdd
<1>9. ASSUME NEW t \in Threads, PushBack(t) PROVE [Pool!PoolNext]_(Pool!poolVars)
  <2>1. Pool!DeallocateReturn(t)
    BY <1>9 DEF PushBack, Return, Pool!DeallocateReturn
  <2>2. QED
    BY <2>1 DEF Pool!PoolNext
<1>10. CASE Destroy
  BY <1>10 DEF Destroy
<1>11. CASE UNCHANGED vars
  BY <1>11 DEF vars
<1>12. QED
  BY <1>1, <1>2, <1>3, <1>4, <1>5, <1>6, <1>7, <1>8, <1>9, <1>10, <1>11
  DEF Next, Step, Idle

(* One thread: to its client the allocator is a SlotPool, so that          *)
(* allocate() always answers with a slot of a slab that nobody holds.      *)
THEOREM SequentialPool ==
  ASSUME Sequential PROVE Spec => IsSlotPool
BY InitPool, StepPool, SoundAlways, PTL DEF Spec, IsSlotPool, Pool!PoolSpec
=============================================================================
