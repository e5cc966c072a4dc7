---------------------------- MODULE LowLockQueue ----------------------------
(***************************************************************************)
(* The linked list of lock_free_allocator/lowlockqueue.h: nodes, the dummy *)
(* node at the front, and the memory the nodes live in.                    *)
(*                                                                         *)
(* Producers and consumers hold different locks, so a consumer can unlink  *)
(* and delete the node `last' points to while a producer is between its    *)
(* two stores, and `new' can give the same address to another node at      *)
(* once.  Nodes are addresses; heap holds those that are allocated.        *)
(*                                                                         *)
(* Whether lock_slot takes the last slot of a slab is not known here: both *)
(* outcomes are possible.  What decides it is in module LockFreeAllocator. *)
(***************************************************************************)
EXTENDS Integers, Sequences, FiniteSets

CONSTANTS
  Threads,
  Values,      (* the slabs that can be queued *)
  Nodes,       (* the addresses of nodes *)
  MaxNodes,    (* bound: push_back is called below this many allocated nodes *)
  NoNode, NoValue

(* A pop_front in every thread may add a node on top of the bound. *)
ASSUME NodesAssumption == Cardinality(Nodes) >= MaxNodes + Cardinality(Threads)
ASSUME NoNodeAssumption == IsFiniteSet(Nodes) /\ NoNode \notin Nodes

VARIABLES
  first, last,     (* the dummy node; the newest node *)
  value, next,     (* the fields of every node *)
  heap,            (* the nodes that are allocated *)
  consumerLock, producerLock,
  pc,              (* the next instruction of each thread *)
  tmp,             (* the node a thread is adding *)
  theFirst, theNext,
  val              (* the value pop_front is working on *)

list   == <<first, last, value, next>>
locks  == <<consumerLock, producerLock>>
locals == <<tmp, theFirst, theNext, val>>
vars   == <<list, heap, locks, pc, locals>>

Goto(t, label) == pc' = [pc EXCEPT ![t] = label]
Move(t, from, to) == pc[t] = from /\ Goto(t, to)

Return(t, from) ==
  /\ Move(t, from, "idle")
  /\ tmp' = [tmp EXCEPT ![t] = NoNode]
  /\ theFirst' = [theFirst EXCEPT ![t] = NoNode]
  /\ theNext' = [theNext EXCEPT ![t] = NoNode]
  /\ val' = [val EXCEPT ![t] = NoValue]

Destroyed == first = NoNode

Init ==
  \E dummy \in Nodes :
    /\ first = dummy
    /\ last = dummy
    /\ value = [n \in Nodes |-> NoValue]
    /\ next = [n \in Nodes |-> NoNode]
    /\ heap = {dummy}
    /\ consumerLock = FALSE
    /\ producerLock = FALSE
    /\ pc = [t \in Threads |-> "idle"]
    /\ tmp = [t \in Threads |-> NoNode]
    /\ theFirst = [t \in Threads |-> NoNode]
    /\ theNext = [t \in Threads |-> NoNode]
    /\ val = [t \in Threads |-> NoValue]

-----------------------------------------------------------------------------
(* The steps that add a node, in push_back and again in pop_front *)

(* new Node(v): any address that is not in use, a deleted node's included *)
NewNode(t, v) ==
  \E n \in Nodes \ heap :
    /\ heap' = heap \cup {n}
    /\ value' = [value EXCEPT ![n] = v]
    /\ next' = [next EXCEPT ![n] = NoNode]
    /\ tmp' = [tmp EXCEPT ![t] = n]

(* last->next = tmp: consumers see the node from now on *)
Link(t, from, to) ==
  /\ Move(t, from, to)
  /\ next' = [next EXCEPT ![last] = tmp[t]]
  /\ UNCHANGED <<first, last, value, heap, locks, locals>>

(* Mutants: last moves along a link, perhaps of a deleted node; not at all. *)
SwingLastToNext(t, from, to) ==
  /\ Move(t, from, to)
  /\ last' = next[last]
  /\ UNCHANGED <<first, value, next, heap, locks, locals>>

SwingLastForgotten(t, from, to) ==
  /\ Move(t, from, to)
  /\ UNCHANGED <<list, heap, locks, locals>>

(* last = tmp *)
SwingLast(t, from, to) ==
  /\ Move(t, from, to)
  /\ last' = tmp[t]
  /\ UNCHANGED <<first, value, next, heap, locks, locals>>

-----------------------------------------------------------------------------
(* push_back *)

CallPushBack(t) ==
  /\ Move(t, "idle", "acquire_producer")
  /\ ~Destroyed
  /\ Cardinality(heap) < MaxNodes
  /\ \E v \in Values : NewNode(t, v)
  /\ UNCHANGED <<first, last, locks, theFirst, theNext, val>>

(* Mutant: the producer does not wait for the lock. *)
BargeProducer(t) ==
  /\ Move(t, "acquire_producer", "link")
  /\ producerLock' = TRUE
  /\ UNCHANGED <<list, heap, consumerLock, locals>>

AcquireProducer(t) ==
  /\ Move(t, "acquire_producer", "link")
  /\ ~producerLock
  /\ producerLock' = TRUE
  /\ UNCHANGED <<list, heap, consumerLock, locals>>

ReleaseProducer(t) ==
  /\ Return(t, "release_producer")
  /\ producerLock' = FALSE
  /\ UNCHANGED <<list, heap, consumerLock>>

-----------------------------------------------------------------------------
(* pop_front *)

CallPopFront(t) ==
  /\ Move(t, "idle", "acquire_consumer")
  /\ ~Destroyed
  /\ UNCHANGED <<list, heap, locks, locals>>

(* Mutant: the consumer does not wait for the lock. *)
BargeConsumer(t) ==
  /\ Move(t, "acquire_consumer", "read_next")
  /\ consumerLock' = TRUE
  /\ UNCHANGED <<list, heap, producerLock, locals>>

AcquireConsumer(t) ==
  /\ Move(t, "acquire_consumer", "read_next")
  /\ ~consumerLock
  /\ consumerLock' = TRUE
  /\ UNCHANGED <<list, heap, producerLock, locals>>

ReadNext(t) ==
  /\ Move(t, "read_next", IF next[first] = NoNode THEN "try_producer" ELSE "read_value")
  /\ theFirst' = [theFirst EXCEPT ![t] = first]
  /\ theNext' = [theNext EXCEPT ![t] = next[first]]
  /\ UNCHANGED <<list, heap, locks, tmp, val>>

(* val = theNext->value; lock_slot decides whether the value stays queued. *)
ReadValue(t) ==
  /\ \/ Move(t, "read_value", "release_consumer")
     \/ Move(t, "read_value", "swing_first")
  /\ val' = [val EXCEPT ![t] = value[theNext[t]]]
  /\ UNCHANGED <<list, heap, locks, tmp, theFirst, theNext>>

(* Mutant: the new dummy keeps its value. *)
SwingFirstOnly(t) ==
  /\ Move(t, "swing_first", "release_taken")
  /\ first' = theNext[t]
  /\ UNCHANGED <<last, value, next, heap, locks, locals>>

(* theNext becomes the dummy: its value is cleared, first moves to it. *)
SwingFirst(t) ==
  /\ Move(t, "swing_first", "release_taken")
  /\ value' = [value EXCEPT ![theNext[t]] = NoValue]
  /\ first' = theNext[t]
  /\ UNCHANGED <<last, next, heap, locks, locals>>

ReleaseTaken(t) ==
  /\ Move(t, "release_taken", "delete_dummy")
  /\ consumerLock' = FALSE
  /\ UNCHANGED <<list, heap, producerLock, locals>>

(* Mutant: the new dummy is deleted instead of the old one. *)
DeleteNext(t) ==
  /\ Return(t, "delete_dummy")
  /\ heap' = heap \ {theNext[t]}
  /\ UNCHANGED <<list, locks>>

(* delete theFirst, under no lock.  What the fields of a deleted node hold *)
(* is unspecified; NoUseAfterFree says that nobody looks.                  *)
DeleteDummy(t) ==
  /\ Return(t, "delete_dummy")
  /\ heap' = heap \ {theFirst[t]}
  /\ value' = [value EXCEPT ![theFirst[t]] = NoValue]
  /\ next' = [next EXCEPT ![theFirst[t]] = NoNode]
  /\ UNCHANGED <<first, last, locks>>

TryProducer(t) ==
  /\ Move(t, "try_producer", IF producerLock THEN "release_consumer" ELSE "new_node")
  /\ producerLock' = TRUE
  /\ UNCHANGED <<list, heap, consumerLock, locals>>

(* new Slab(default_sz) and a node for it *)
CreateValue(t) ==
  /\ Move(t, "new_node", "link_new")
  /\ \E v \in Values : NewNode(t, v)
  /\ UNCHANGED <<first, last, locks, theFirst, theNext, val>>

ReleaseProducerNew(t) ==
  /\ Move(t, "release_producer_new", "release_consumer")
  /\ producerLock' = FALSE
  /\ UNCHANGED <<list, heap, consumerLock, locals>>

(* The value stays queued, or a new one was added, or the caller retries. *)
ReleaseConsumer(t) ==
  /\ Return(t, "release_consumer")
  /\ consumerLock' = FALSE
  /\ UNCHANGED <<list, heap, producerLock>>

-----------------------------------------------------------------------------
(* The nodes in the order of the links, the dummy at 0. *)
MaxLength == Cardinality(Nodes)
Nth[k \in 0 .. MaxLength] ==
  IF k = 0 THEN first
  ELSE IF Nth[k-1] = NoNode THEN NoNode ELSE next[Nth[k-1]]

Chain == {Nth[k] : k \in 0 .. MaxLength} \ {NoNode}
Contents ==
  [k \in 1 .. Cardinality({j \in 1 .. MaxLength : Nth[j] # NoNode}) |-> value[Nth[k]]]

(* ~LowLockQueue frees the nodes from first on; nobody is using the queue. *)
Destroy ==
  /\ \A t \in Threads : pc[t] = "idle"
  /\ ~Destroyed
  /\ heap' = heap \ Chain
  /\ first' = NoNode
  /\ UNCHANGED <<last, value, next, locks, pc, locals>>

Gone == Destroyed /\ UNCHANGED vars

PushBack(t) ==
  \/ CallPushBack(t) \/ AcquireProducer(t)
  \/ Link(t, "link", "swing_last") \/ SwingLast(t, "swing_last", "release_producer")
  \/ ReleaseProducer(t)

PopFront(t) ==
  \/ CallPopFront(t) \/ AcquireConsumer(t) \/ ReadNext(t) \/ ReadValue(t)
  \/ SwingFirst(t) \/ ReleaseTaken(t) \/ DeleteDummy(t)
  \/ TryProducer(t) \/ CreateValue(t)
  \/ Link(t, "link_new", "swing_last_new")
  \/ SwingLast(t, "swing_last_new", "release_producer_new")
  \/ ReleaseProducerNew(t) \/ ReleaseConsumer(t)

Next ==
  \/ \E t \in Threads : PushBack(t) \/ PopFront(t)
  \/ Destroy
  \/ Gone

Spec == Init /\ [][Next]_vars

-----------------------------------------------------------------------------
(* Type invariant. *)
TypeOK ==
  /\ first \in Nodes \cup {NoNode} /\ last \in Nodes
  /\ value \in [Nodes -> Values \cup {NoValue}]
  /\ next \in [Nodes -> Nodes \cup {NoNode}]
  /\ heap \subseteq Nodes
  /\ consumerLock \in BOOLEAN /\ producerLock \in BOOLEAN
  /\ tmp \in [Threads -> Nodes \cup {NoNode}]
  /\ theFirst \in [Threads -> Nodes \cup {NoNode}]
  /\ theNext \in [Threads -> Nodes \cup {NoNode}]
  /\ val \in [Threads -> Values \cup {NoValue}]

(* No thread is about to read or write a node that has been deleted, or    *)
(* about to delete one a second time, although consumers delete nodes      *)
(* under no lock and producers keep a pointer to the last one.             *)
NoUseAfterFree ==
  \A t \in Threads :
    /\ pc[t] = "read_next" => first \in heap
    /\ pc[t] \in {"read_value", "swing_first"} => theNext[t] \in heap
    /\ pc[t] \in {"link", "link_new"} => last \in heap /\ tmp[t] \in heap
    /\ pc[t] = "delete_dummy" => theFirst[t] \in heap

Adding == {"acquire_producer", "link", "link_new"}
Deleting == {"release_taken", "delete_dummy"}
OwnNode(t) ==
  IF pc[t] \in Adding THEN {tmp[t]}
  ELSE IF pc[t] \in Deleting THEN {theFirst[t]} ELSE {}

(* Outside a producer's critical section `last' is the end of the chain.   *)
(* Inside, it may point to a node that is deleted already.                 *)
LastIsTail ==
  ~producerLock /\ ~Destroyed => last \in Chain /\ next[last] = NoNode

(* The dummy carries no value: otherwise the destructor, which deletes the *)
(* value of every node it walks over, would free a slab that was unlinked  *)
(* because it is full, with live slots in it.                              *)
DummyIsEmpty ==
  ~Destroyed => value[first] = NoValue

(* Every allocated node is linked, or about to be, or about to be deleted, *)
(* and by one thread only: no interleaving drops a node or its value, and  *)
(* first and last stay the ends of the list.                               *)
NoNodeLost ==
  /\ heap = Chain \cup UNION {OwnNode(t) : t \in Threads}
  /\ \A t, u \in Threads : t # u => OwnNode(t) \cap OwnNode(u) = {}
  /\ \A t \in Threads : OwnNode(t) \cap Chain = {}
  /\ LastIsTail /\ DummyIsEmpty

(* The list is a first-in first-out queue to its users: no value is lost,  *)
(* duplicated or reordered, and a consumer unlinks the value it looked at. *)
Fifo == INSTANCE FifoQueue
          WITH items <- IF Destroyed THEN <<>> ELSE Contents, seen <- val

IsFifoQueue == Fifo!FifoSpec
=============================================================================
