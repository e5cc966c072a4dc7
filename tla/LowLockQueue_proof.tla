------------------------- MODULE LowLockQueue_proof -------------------------
(***************************************************************************)
(* Proofs about LowLockQueue, for any number of threads and nodes: no node *)
(* is used after it was deleted, none is lost, and to its users the list   *)
(* is a first-in first-out queue.                                          *)
(***************************************************************************)
EXTENDS LowLockQueue, DataLemmas, FiniteSetTheorems

-----------------------------------------------------------------------------
(* Types and locks *)

InProducer == {"link", "swing_last", "release_producer", "new_node", "link_new",
               "swing_last_new", "release_producer_new"}
InConsumer == {"read_next", "read_value", "swing_first", "release_taken", "try_producer",
               "new_node", "link_new", "swing_last_new", "release_producer_new",
               "release_consumer"}
Steps == InProducer \cup InConsumer
           \cup {"idle", "acquire_producer", "acquire_consumer", "delete_dummy"}

(* At most one thread is in each critical section, and only under the lock.*)
Exclusion ==
  /\ \A t \in Threads : pc[t] \in InProducer => producerLock
  /\ \A t, u \in Threads : pc[t] \in InProducer /\ pc[u] \in InProducer => t = u
  /\ \A t \in Threads : pc[t] \in InConsumer => consumerLock
  /\ \A t, u \in Threads : pc[t] \in InConsumer /\ pc[u] \in InConsumer => t = u

(* What the locals of a thread hold where the code uses them.              *)
LocalsOK ==
  /\ \A t \in Threads : pc[t] \in {"acquire_producer", "link", "link_new", "swing_last",
                                   "swing_last_new"} => tmp[t] \in Nodes
  /\ \A t \in Threads : pc[t] \in {"read_value", "swing_first"} => theNext[t] \in Nodes
  /\ \A t \in Threads : pc[t] \in {"read_value", "swing_first", "release_taken", "delete_dummy"}
                          => theFirst[t] \in Nodes

(* Nobody is using a queue that has been destroyed. *)
Quiet == Destroyed => \A t \in Threads : pc[t] = "idle"

Typed == TypeOK /\ pc \in [Threads -> Steps] /\ Exclusion /\ LocalsOK /\ Quiet

LEMMA InitTyped == Init => Typed
BY NoNodeAssumption DEF Init, Typed, TypeOK, Exclusion, LocalsOK, Quiet, Destroyed,
   Steps, InProducer, InConsumer

LEMMA StepTyped == Typed /\ [Next]_vars => Typed'
<1> SUFFICES ASSUME Typed, [Next]_vars PROVE Typed'
  OBVIOUS
<1> USE NoNodeAssumption DEF Typed, TypeOK, Exclusion, LocalsOK, Quiet, Destroyed,
        Steps, InProducer, InConsumer, Goto, Move, list, locks, locals, Return
<1>1. ASSUME NEW t \in Threads, CallPushBack(t) PROVE Typed'
  <2>1. PICK v \in Values, n \in Nodes \ heap :
          /\ heap' = heap \cup {n}
          /\ value' = [value EXCEPT ![n] = v]
          /\ next' = [next EXCEPT ![n] = NoNode]
          /\ tmp' = [tmp EXCEPT ![t] = n]
    BY <1>1 DEF CallPushBack, NewNode
  <2>2. QED
    BY <1>1, <2>1 DEF CallPushBack
<1>2. ASSUME NEW t \in Threads, AcquireProducer(t) PROVE Typed'
  BY <1>2 DEF AcquireProducer
<1>3. ASSUME NEW t \in Threads, Link(t, "link", "swing_last") PROVE Typed'
  BY <1>3 DEF Link
<1>4. ASSUME NEW t \in Threads, SwingLast(t, "swing_last", "release_producer") PROVE Typed'
  BY <1>4 DEF SwingLast
<1>5. ASSUME NEW t \in Threads, ReleaseProducer(t) PROVE Typed'
  BY <1>5 DEF ReleaseProducer
<1>6. ASSUME NEW t \in Threads, CallPopFront(t) PROVE Typed'
  BY <1>6 DEF CallPopFront
<1>7. ASSUME NEW t \in Threads, AcquireConsumer(t) PROVE Typed'
  BY <1>7 DEF AcquireConsumer
<1>8. ASSUME NEW t \in Threads, ReadNext(t) PROVE Typed'
  BY <1>8 DEF ReadNext
<1>9. ASSUME NEW t \in Threads, ReadValue(t) PROVE Typed'
  BY <1>9 DEF ReadValue
<1>10. ASSUME NEW t \in Threads, SwingFirst(t) PROVE Typed'
  BY <1>10 DEF SwingFirst
<1>11. ASSUME NEW t \in Threads, ReleaseTaken(t) PROVE Typed'
  BY <1>11 DEF ReleaseTaken
<1>12. ASSUME NEW t \in Threads, DeleteDummy(t) PROVE Typed'
  BY <1>12 DEF DeleteDummy
<1>13. ASSUME NEW t \in Threads, TryProducer(t) PROVE Typed'
  BY <1>13 DEF TryProducer
<1>14. ASSUME NEW t \in Threads, CreateValue(t) PROVE Typed'
  <2>1. PICK v \in Values, n \in Nodes \ heap :
          /\ heap' = heap \cup {n}
          /\ value' = [value EXCEPT ![n] = v]
          /\ next' = [next EXCEPT ![n] = NoNode]
          /\ tmp' = [tmp EXCEPT ![t] = n]
    BY <1>14 DEF CreateValue, NewNode
  <2>2. QED
    BY <1>14, <2>1 DEF CreateValue
<1>15. ASSUME NEW t \in Threads, Link(t, "link_new", "swing_last_new") PROVE Typed'
  BY <1>15 DEF Link
<1>16. ASSUME NEW t \in Threads, SwingLast(t, "swing_last_new", "release_producer_new") PROVE Typed'
  BY <1>16 DEF SwingLast
<1>17. ASSUME NEW t \in Threads, ReleaseProducerNew(t) PROVE Typed'
  BY <1>17 DEF ReleaseProducerNew
<1>18. ASSUME NEW t \in Threads, ReleaseConsumer(t) PROVE Typed'
  BY <1>18 DEF ReleaseConsumer
<1>19. CASE Destroy
  BY <1>19 DEF Destroy
<1>20. CASE UNCHANGED vars
  BY <1>20 DEF vars
<1> HIDE DEF Typed
<1>21. QED
  BY <1>1, <1>2, <1>3, <1>4, <1>5, <1>6, <1>7, <1>8, <1>9, <1>10, <1>11, <1>12, <1>13,
     <1>14, <1>15, <1>16, <1>17, <1>18, <1>19, <1>20
  DEF Next, PushBack, PopFront, Gone

(* Every variable of the list keeps its type. *)
THEOREM ListTypeCorrect == Spec => []TypeOK
<1>1. Typed => TypeOK
  BY DEF Typed
<1>2. QED
  BY <1>1, InitTyped, StepTyped, PTL DEF Spec

-----------------------------------------------------------------------------
(* The nodes of the list in order, c[0] the dummy and c[n] the tail.  What *)
(* is known of them is stated for such a c and n, so that a step can say   *)
(* which list it leaves behind.                                            *)

IsList(c, n) ==
  /\ n \in Nat
  /\ c \in [0 .. n -> Nodes]
  /\ c[0] = first
  /\ \A k \in 0 .. n - 1 : next[c[k]] = c[k + 1]
  /\ next[c[n]] = NoNode
  /\ \A i, j \in 0 .. n : c[i] = c[j] => i = j

InList(c, n, x) == \E k \in 0 .. n : c[k] = x

(* An allocated node is in the list, or else one thread has it.            *)
OwnedBy(c, n) ==
  /\ \A x \in Nodes : x \in heap <=> InList(c, n, x) \/ \E t \in Threads : x \in OwnNode(t)
  /\ \A t \in Threads : \A x \in OwnNode(t) : ~ InList(c, n, x)
  /\ \A t, u \in Threads : \A x \in OwnNode(t) : x \in OwnNode(u) => t = u

(* The producer between its two stores has linked the tail already, and    *)
(* `last' is behind; otherwise `last' is the tail.                         *)
Swinging == {"swing_last", "swing_last_new"}
TailKnown(c, n) ==
  /\ \A t \in Threads : pc[t] \in Swinging => tmp[t] = c[n]
  /\ (\A t \in Threads : pc[t] \notin Swinging) => last = c[n]

(* The consumer's node is the one after the dummy, and stays there.        *)
FrontKnown(c, n) ==
  \A t \in Threads : pc[t] \in {"read_value", "swing_first"} =>
    /\ n > 0
    /\ theFirst[t] = first
    /\ theNext[t] = c[1]
    /\ pc[t] = "swing_first" => val[t] = value[c[1]]

ValuesKnown ==
  /\ value[first] = NoValue
  /\ \A t \in Threads : pc[t] \in Adding => value[tmp[t]] \in Values /\ next[tmp[t]] = NoNode

Linked(c, n) ==
  /\ IsList(c, n) /\ OwnedBy(c, n)
  /\ TailKnown(c, n) /\ FrontKnown(c, n)
  /\ ValuesKnown

HasList == ~Destroyed => \E n \in Nat : \E c \in [0 .. n -> Nodes] : Linked(c, n)
AllFreed == Destroyed => heap = {}

LEMMA InitLinked == Init => HasList /\ AllFreed
<1> SUFFICES ASSUME Init PROVE HasList /\ AllFreed
  OBVIOUS
<1>1. PICK d \in Nodes : first = d /\ last = d /\ heap = {d}
  BY DEF Init
<1> DEFINE c == [k \in 0 .. 0 |-> d]
<1>2. /\ c \in [0 .. 0 -> Nodes] /\ c[0] = d
      /\ \A k : k \in 0 .. 0 <=> k = 0
  OBVIOUS
<1>3. /\ next = [x \in Nodes |-> NoNode] /\ value = [x \in Nodes |-> NoValue]
      /\ \A t \in Threads : pc[t] = "idle"
  BY DEF Init
<1> HIDE DEF c
<1>4. IsList(c, 0)
  BY <1>1, <1>2, <1>3 DEF IsList
<1>5. OwnedBy(c, 0)
  <2>1. \A t \in Threads : OwnNode(t) = {}
    BY <1>3 DEF OwnNode, Adding, Deleting
  <2>2. \A x : InList(c, 0, x) <=> x = d
    BY <1>2 DEF InList
  <2>3. QED
    BY <1>1, <2>1, <2>2 DEF OwnedBy
<1>6. TailKnown(c, 0) /\ FrontKnown(c, 0) /\ ValuesKnown
  BY <1>1, <1>2, <1>3 DEF TailKnown, FrontKnown, ValuesKnown, Swinging, Adding
<1>7. first # NoNode
  BY <1>1, NoNodeAssumption
<1>8. QED
  BY <1>2, <1>4, <1>5, <1>6, <1>7 DEF HasList, AllFreed, Linked, Destroyed

(* The nodes of the list are allocated. *)
LEMMA ListAllocated ==
  ASSUME NEW n, NEW c, Linked(c, n)
  PROVE  \A k \in 0 .. n : c[k] \in heap /\ c[k] \in Nodes
BY DEF Linked, IsList, OwnedBy, InList

(* Steps that touch neither the nodes nor first, and by which no thread    *)
(* comes to own a node or loses one.                                       *)
LEMMA KeptList ==
  ASSUME NEW n, NEW c, Linked(c, n), first' = first, next' = next, value' = value, heap' = heap,
         \A t \in Threads : OwnNode(t)' = OwnNode(t)
  PROVE  IsList(c, n)' /\ OwnedBy(c, n)' /\ value'[first'] = NoValue
BY DEF Linked, IsList, OwnedBy, InList, ValuesKnown

(* ... and which give the thread nothing that has to be known about.       *)
LEMMA KeptLinked ==
  ASSUME NEW n, NEW c, Linked(c, n), first' = first, next' = next, value' = value, heap' = heap,
         last' = last, tmp' = tmp, NEW t \in Threads,
         \A u \in Threads : u # t => /\ pc'[u] = pc[u] /\ theFirst'[u] = theFirst[u]
                                     /\ theNext'[u] = theNext[u] /\ val'[u] = val[u],
         pc[t] \notin Swinging, pc'[t] \notin Swinging \cup {"read_value", "swing_first"},
         pc'[t] \in Adding <=> pc[t] \in Adding,
         pc'[t] \in Deleting <=> pc[t] \in Deleting,
         pc[t] \in Deleting => theFirst'[t] = theFirst[t]
  PROVE  Linked(c, n)'
<1>1. \A u \in Threads : OwnNode(u)' = OwnNode(u)
  BY DEF OwnNode
<1>2. IsList(c, n)' /\ OwnedBy(c, n)' /\ value'[first'] = NoValue
  BY <1>1, KeptList
<1>3. TailKnown(c, n)'
  BY DEF Linked, TailKnown
<1>4. FrontKnown(c, n)'
  BY DEF Linked, FrontKnown
<1>5. ValuesKnown'
  BY <1>2 DEF Linked, ValuesKnown
<1>6. QED
  BY <1>2, <1>3, <1>4, <1>5 DEF Linked

(* A call that returns forgets its locals.                                 *)
LEMMA ReturnLinked ==
  ASSUME Typed, NEW n, NEW c, Linked(c, n), NEW t \in Threads,
         UNCHANGED <<first, last, value, next, heap>>,
         pc[t] \in {"release_producer", "release_consumer"},
         pc' = [pc EXCEPT ![t] = "idle"],
         tmp' = [tmp EXCEPT ![t] = NoNode],
         theFirst' = [theFirst EXCEPT ![t] = NoNode],
         theNext' = [theNext EXCEPT ![t] = NoNode],
         val' = [val EXCEPT ![t] = NoValue]
  PROVE  Linked(c, n)'
<1>a. /\ pc \in [Threads -> Steps] /\ theFirst \in [Threads -> Nodes \cup {NoNode}]
      /\ tmp \in [Threads -> Nodes \cup {NoNode}]
      /\ theNext \in [Threads -> Nodes \cup {NoNode}]
      /\ val \in [Threads -> Values \cup {NoValue}]
  BY DEF Typed, TypeOK
<1>1. /\ pc'[t] = "idle"
      /\ \A u \in Threads : u # t => /\ pc'[u] = pc[u] /\ tmp'[u] = tmp[u] /\ val'[u] = val[u]
                                     /\ theFirst'[u] = theFirst[u] /\ theNext'[u] = theNext[u]
  BY <1>a
<1>2. \A u \in Threads : OwnNode(u)' = OwnNode(u)
  BY <1>1 DEF OwnNode, Adding, Deleting
<1>3. IsList(c, n)' /\ OwnedBy(c, n)' /\ value'[first'] = NoValue
  BY <1>2, KeptList
<1>4. TailKnown(c, n)'
  BY <1>1 DEF Linked, TailKnown, Swinging
<1>5. FrontKnown(c, n)'
  BY <1>1 DEF Linked, FrontKnown
<1>6. ValuesKnown'
  BY <1>1, <1>3 DEF Linked, ValuesKnown, Adding
<1>7. QED
  BY <1>3, <1>4, <1>5, <1>6 DEF Linked

(* new Node(v)                                                             *)
LEMMA NewLinked ==
  ASSUME Typed, NEW n, NEW c, Linked(c, n), NEW t \in Threads, NEW v \in Values,
         NEW x \in Nodes \ heap,
         heap' = heap \cup {x}, value' = [value EXCEPT ![x] = v],
         next' = [next EXCEPT ![x] = NoNode], tmp' = [tmp EXCEPT ![t] = x],
         UNCHANGED <<first, last, theFirst, theNext, val>>,
         pc[t] \in {"idle", "new_node"}, pc'[t] \in {"acquire_producer", "link_new"},
         \A u \in Threads : u # t => pc'[u] = pc[u]
  PROVE  Linked(c, n)' /\ \A k \in 0 .. n : value'[c[k]] = value[c[k]]
<1>a. /\ value \in [Nodes -> Values \cup {NoValue}] /\ next \in [Nodes -> Nodes \cup {NoNode}]
      /\ tmp \in [Threads -> Nodes \cup {NoNode}] /\ pc \in [Threads -> Steps]
  BY DEF Typed, TypeOK
<1>1. \A k \in 0 .. n : c[k] \in heap /\ c[k] # x /\ c[k] \in Nodes
  BY ListAllocated
<1>2. n \in Nat /\ 0 \in 0 .. n /\ n \in 0 .. n /\ c[0] = first
  BY DEF Linked, IsList
<1>3. IsList(c, n)'
  BY <1>a, <1>1, <1>2 DEF Linked, IsList
<1>4. /\ OwnNode(t) = {} /\ OwnNode(t)' = {x}
      /\ \A u \in Threads : u # t => OwnNode(u)' = OwnNode(u)
  BY <1>a DEF OwnNode, Adding, Deleting
<1>5. \A u \in Threads : \A y \in OwnNode(u) : y \in heap
  <2>1. \A u \in Threads : \A y \in OwnNode(u) : y \in Nodes
    BY DEF OwnNode, Typed, LocalsOK, Adding, Deleting
  <2>2. QED
    BY <2>1 DEF Linked, OwnedBy
<1>6. OwnedBy(c, n)'
  <2>1. ASSUME NEW y \in Nodes
        PROVE  y \in heap' <=> InList(c, n, y) \/ \E u \in Threads : y \in OwnNode(u)'
    BY <1>4 DEF Linked, OwnedBy
  <2>2. ~ InList(c, n, x) /\ \A u \in Threads : x \notin OwnNode(u)
    BY <1>1, <1>5 DEF InList
  <2>3. QED
    BY <1>4, <2>1, <2>2 DEF Linked, OwnedBy, InList
<1>7. TailKnown(c, n)'
  <2>1. pc[t] \notin Swinging /\ pc'[t] \notin Swinging
    BY DEF Swinging
  <2>2. \A u \in Threads : u # t => tmp'[u] = tmp[u]
    BY <1>a
  <2>3. QED
    BY <2>1, <2>2 DEF Linked, TailKnown
<1>8. FrontKnown(c, n)'
  <2>1. n > 0 => value'[c[1]] = value[c[1]]
    BY <1>a, <1>1, <1>2
  <2>2. QED
    BY <2>1 DEF Linked, FrontKnown
<1>9. ValuesKnown'
  <2>1. value'[first'] = NoValue
    BY <1>a, <1>1, <1>2 DEF Linked, ValuesKnown
  <2>2. value'[tmp'[t]] \in Values /\ next'[tmp'[t]] = NoNode
    BY <1>a
  <2>3. ASSUME NEW u \in Threads, u # t, pc[u] \in Adding
        PROVE  tmp'[u] = tmp[u] /\ tmp[u] # x /\ tmp[u] \in Nodes
    BY <1>a, <1>5, <2>3 DEF OwnNode, Typed, LocalsOK, Adding
  <2>4. QED
    BY <1>a, <2>1, <2>2, <2>3 DEF Linked, ValuesKnown
<1>10. QED
  BY <1>a, <1>1, <1>3, <1>6, <1>7, <1>8, <1>9 DEF Linked

(* last->next = tmp                                                        *)
Longer(c, n, x) == [k \in 0 .. n + 1 |-> IF k = n + 1 THEN x ELSE c[k]]

LEMMA LinkLinked ==
  ASSUME Typed, NEW n, NEW c, Linked(c, n), NEW t \in Threads,
         NEW from \in {"link", "link_new"}, NEW to \in Swinging, Link(t, from, to),
         NEW x \in Nodes, x = tmp[t]
  PROVE  /\ Linked(Longer(c, n, x), n + 1)'
         /\ value[x] \in Values
         /\ \A k \in 0 .. n : c[k] \in Nodes
<1>a. /\ next \in [Nodes -> Nodes \cup {NoNode}] /\ pc \in [Threads -> Steps]
  BY DEF Typed, TypeOK
<1> DEFINE d == Longer(c, n, x)
<1>1. /\ n \in Nat /\ c \in [0 .. n -> Nodes] /\ c[0] = first /\ next[c[n]] = NoNode
      /\ \A k \in 0 .. n - 1 : next[c[k]] = c[k + 1]
      /\ \A i, j \in 0 .. n : c[i] = c[j] => i = j
  BY DEF Linked, IsList
<1>2. /\ pc[t] = from /\ pc' = [pc EXCEPT ![t] = to]
      /\ next' = [next EXCEPT ![last] = x]
      /\ UNCHANGED <<first, last, value, heap, tmp, theFirst, theNext, val>>
  BY DEF Link, Move, Goto, locks, locals
<1>3. \A u \in Threads : pc[u] \notin Swinging
  BY <1>2 DEF Typed, Exclusion, InProducer, Swinging
<1>4. last = c[n]
  BY <1>3 DEF Linked, TailKnown
<1>5. x \in OwnNode(t) /\ ~ InList(c, n, x)
  <2>1. x \in OwnNode(t)
    BY <1>2 DEF OwnNode, Adding
  <2>2. QED
    BY <2>1 DEF Linked, OwnedBy
<1>6. value[x] \in Values /\ next[x] = NoNode /\ x # c[n]
  BY <1>1, <1>2, <1>5 DEF Linked, ValuesKnown, Adding, InList
<1>7. /\ n + 1 \in Nat /\ d \in [0 .. n + 1 -> Nodes] /\ d[n + 1] = x
      /\ \A k \in 0 .. n : d[k] = c[k] /\ k # n + 1
      /\ \A k : k \in 0 .. n + 1 <=> k \in 0 .. n \/ k = n + 1
  BY <1>1 DEF Longer
<1>b. x = tmp[t]
  OBVIOUS
<1> HIDE DEF d
<1>8. IsList(d, n + 1)'
  <2>1. next'[d[n + 1]] = NoNode
    BY <1>a, <1>1, <1>2, <1>4, <1>6, <1>7
  <2>2. ASSUME NEW k \in 0 .. n PROVE next'[d[k]] = d[k + 1]
    <3>1. CASE k = n
      BY <1>a, <1>1, <1>2, <1>4, <1>7, <3>1
    <3>2. CASE k # n
      <4>1. k \in 0 .. n - 1 /\ k + 1 \in 0 .. n /\ c[k] # c[n] /\ c[k] \in Nodes
        BY <1>1, <3>2
      <4>2. next'[c[k]] = c[k + 1]
        BY <1>a, <1>1, <1>2, <1>4, <4>1
      <4>3. QED
        BY <1>7, <4>1, <4>2
    <3>3. QED
      BY <3>1, <3>2
  <2>3. d[0] = first'
    BY <1>1, <1>2, <1>7
  <2>4. \A i, j \in 0 .. n + 1 : d[i] = d[j] => i = j
    <3>1. \A k \in 0 .. n : d[k] # x
      BY <1>5, <1>7 DEF InList
    <3>2. QED
      BY <1>1, <1>7, <3>1
  <2>5. (n + 1) - 1 = n
    BY <1>1
  <2>6. QED
    BY <1>7, <2>1, <2>2, <2>3, <2>4, <2>5 DEF IsList
<1>9. OwnedBy(d, n + 1)'
  <2>1. /\ OwnNode(t) = {x} /\ OwnNode(t)' = {}
        /\ \A u \in Threads : u # t => OwnNode(u)' = OwnNode(u)
    BY <1>a, <1>b, <1>2 DEF OwnNode, Adding, Deleting, Swinging
  <2>2. \A y : InList(d, n + 1, y) <=> InList(c, n, y) \/ y = x
    BY <1>7 DEF InList
  <2>3. \A u \in Threads : u # t => x \notin OwnNode(u)
    BY <1>5 DEF Linked, OwnedBy
  <2>4. \A y : InList(d, n + 1, y)' <=> InList(d, n + 1, y)
    BY DEF InList
  <2>5. \A y \in Nodes : y \in heap' <=> InList(d, n + 1, y) \/ \E u \in Threads : y \in OwnNode(u)'
    BY <1>2, <2>1, <2>2 DEF Linked, OwnedBy
  <2>6. \A u \in Threads : \A y \in OwnNode(u)' : ~ InList(d, n + 1, y)
    BY <2>1, <2>2, <2>3 DEF Linked, OwnedBy
  <2>7. \A u, w \in Threads : \A y \in OwnNode(u)' : y \in OwnNode(w)' => u = w
    BY <2>1 DEF Linked, OwnedBy
  <2>8. QED
    BY <2>4, <2>5, <2>6, <2>7 DEF OwnedBy
<1>10. TailKnown(d, n + 1)'
  <2>1. pc'[t] \in Swinging /\ tmp'[t] = d[n + 1]
    BY <1>a, <1>b, <1>2, <1>7
  <2>2. \A u \in Threads : u # t => pc'[u] \notin Swinging
    BY <1>a, <1>2, <1>3
  <2>3. QED
    BY <2>1, <2>2 DEF TailKnown
<1>11. FrontKnown(d, n + 1)'
  <2>1. n > 0 => d[1] = c[1] /\ n + 1 > 0
    BY <1>1, <1>7
  <2>2. to \notin {"read_value", "swing_first"}
    BY DEF Swinging
  <2>3. QED
    BY <1>a, <1>2, <2>1, <2>2 DEF Linked, FrontKnown
<1>12. ValuesKnown'
  <2>1. ASSUME NEW u \in Threads, pc'[u] \in Adding
        PROVE  value[tmp[u]] \in Values /\ next'[tmp[u]] = NoNode
    <3>1. u # t /\ pc[u] \in Adding
      BY <1>a, <1>2, <2>1 DEF Adding, Swinging
    <3>2. tmp[u] \in Nodes /\ ~ InList(c, n, tmp[u])
      BY <3>1 DEF Typed, LocalsOK, Adding, OwnNode, Linked, OwnedBy
    <3>3. tmp[u] # last
      BY <1>1, <1>4, <3>2 DEF InList
    <3>4. QED
      BY <1>a, <1>2, <3>1, <3>2, <3>3 DEF Linked, ValuesKnown
  <2>2. QED
    BY <1>2, <2>1 DEF Linked, ValuesKnown
<1>13. \A k \in 0 .. n : c[k] \in Nodes
  BY <1>1
<1>14. Linked(d, n + 1)'
  BY <1>8, <1>9, <1>10, <1>11, <1>12 DEF Linked
<1> USE DEF d
<1>15. QED
  BY <1>6, <1>13, <1>14

(* last = tmp                                                              *)
LEMMA SwingLastLinked ==
  ASSUME Typed, NEW n, NEW c, Linked(c, n), NEW t \in Threads,
         NEW from \in Swinging, NEW to \in {"release_producer", "release_producer_new"},
         SwingLast(t, from, to)
  PROVE  Linked(c, n)'
<1>a. pc \in [Threads -> Steps]
  BY DEF Typed
<1>1. /\ pc[t] = from /\ pc' = [pc EXCEPT ![t] = to] /\ last' = tmp[t]
      /\ UNCHANGED <<first, value, next, heap, tmp, theFirst, theNext, val>>
  BY DEF SwingLast, Move, Goto, locks, locals
<1>2. \A u \in Threads : OwnNode(u)' = OwnNode(u)
  BY <1>a, <1>1 DEF OwnNode, Swinging, Adding, Deleting
<1>3. IsList(c, n)' /\ OwnedBy(c, n)' /\ value'[first'] = NoValue
  BY <1>1, <1>2, KeptList
<1>4. TailKnown(c, n)'
  <2>1. tmp[t] = c[n]
    BY <1>1 DEF Linked, TailKnown
  <2>2. \A u \in Threads : pc[u] \in Swinging => u = t
    BY <1>1 DEF Typed, Exclusion, InProducer, Swinging
  <2>3. \A u \in Threads : pc'[u] \notin Swinging
    BY <1>a, <1>1, <2>2 DEF Swinging
  <2>4. QED
    BY <1>1, <2>1, <2>3 DEF TailKnown
<1>5. FrontKnown(c, n)'
  BY <1>a, <1>1 DEF Linked, FrontKnown
<1>6. ValuesKnown'
  BY <1>a, <1>1, <1>3 DEF Linked, ValuesKnown, Adding
<1>7. QED
  BY <1>3, <1>4, <1>5, <1>6 DEF Linked

(* The consumer reads the node after the dummy ...                         *)
LEMMA ReadNextLinked ==
  ASSUME Typed, NEW n, NEW c, Linked(c, n), NEW t \in Threads, ReadNext(t)
  PROVE  Linked(c, n)'
<1>a. /\ pc \in [Threads -> Steps] /\ theFirst \in [Threads -> Nodes \cup {NoNode}]
      /\ theNext \in [Threads -> Nodes \cup {NoNode}]
  BY DEF Typed, TypeOK
<1>1. /\ pc[t] = "read_next"
      /\ pc' = [pc EXCEPT ![t] = IF next[first] = NoNode THEN "try_producer" ELSE "read_value"]
      /\ theFirst' = [theFirst EXCEPT ![t] = first]
      /\ theNext' = [theNext EXCEPT ![t] = next[first]]
      /\ UNCHANGED <<first, last, value, next, heap, tmp, val>>
  BY DEF ReadNext, Move, Goto, locks, list
<1>2. \A u \in Threads : OwnNode(u)' = OwnNode(u)
  BY <1>a, <1>1 DEF OwnNode, Adding, Deleting
<1>3. IsList(c, n)' /\ OwnedBy(c, n)' /\ value'[first'] = NoValue
  BY <1>1, <1>2, KeptList
<1>4. TailKnown(c, n)'
  BY <1>a, <1>1 DEF Linked, TailKnown, Swinging
<1>5. FrontKnown(c, n)'
  <2>1. CASE next[first] = NoNode
    BY <1>a, <1>1, <2>1 DEF Linked, FrontKnown
  <2>2. CASE next[first] # NoNode
    <3>1. n \in Nat /\ n # 0 /\ next[first] = c[1]
      <4>1. n \in Nat /\ c[0] = first /\ next[c[n]] = NoNode
        BY DEF Linked, IsList
      <4>2. n # 0
        BY <2>2, <4>1
      <4>3. 0 \in 0 .. n - 1 /\ 0 + 1 = 1
        BY <4>1, <4>2
      <4>4. QED
        BY <4>1, <4>2, <4>3 DEF Linked, IsList
    <3>2. theFirst'[t] = first /\ theNext'[t] = c[1] /\ pc'[t] = "read_value"
      BY <1>a, <1>1, <2>2, <3>1
    <3>3. \A u \in Threads : u # t => pc'[u] = pc[u] /\ theFirst'[u] = theFirst[u] /\ theNext'[u] = theNext[u]
      BY <1>a, <1>1
    <3>4. QED
      BY <1>1, <3>1, <3>2, <3>3 DEF Linked, FrontKnown
  <2>3. QED
    BY <2>1, <2>2
<1>6. ValuesKnown'
  BY <1>a, <1>1, <1>3 DEF Linked, ValuesKnown, Adding
<1>7. QED
  BY <1>3, <1>4, <1>5, <1>6 DEF Linked

(* ... and its value.                                                      *)
LEMMA ReadValueLinked ==
  ASSUME Typed, NEW n, NEW c, Linked(c, n), NEW t \in Threads, ReadValue(t)
  PROVE  Linked(c, n)'
<1>a. /\ pc \in [Threads -> Steps] /\ val \in [Threads -> Values \cup {NoValue}]
  BY DEF Typed, TypeOK
<1>1. /\ pc[t] = "read_value"
      /\ pc'[t] \in {"release_consumer", "swing_first"}
      /\ \A u \in Threads : u # t => pc'[u] = pc[u] /\ val'[u] = val[u]
      /\ val'[t] = value[theNext[t]]
      /\ UNCHANGED <<first, last, value, next, heap, tmp, theFirst, theNext>>
  BY <1>a DEF ReadValue, Move, Goto, locks, list
<1>2. \A u \in Threads : OwnNode(u)' = OwnNode(u)
  BY <1>1 DEF OwnNode, Adding, Deleting
<1>3. IsList(c, n)' /\ OwnedBy(c, n)' /\ value'[first'] = NoValue
  BY <1>1, <1>2, KeptList
<1>4. TailKnown(c, n)'
  BY <1>1 DEF Linked, TailKnown, Swinging
<1>5. FrontKnown(c, n)'
  BY <1>1 DEF Linked, FrontKnown
<1>6. ValuesKnown'
  BY <1>1, <1>3 DEF Linked, ValuesKnown, Adding
<1>7. QED
  BY <1>3, <1>4, <1>5, <1>6 DEF Linked

(* first moves to the node after the dummy, which becomes the dummy.       *)
Shorter(c, n) == [k \in 0 .. n - 1 |-> c[k + 1]]

LEMMA SwingFirstLinked ==
  ASSUME Typed, NEW n, NEW c, Linked(c, n), NEW t \in Threads, SwingFirst(t)
  PROVE  /\ n > 0 /\ Linked(Shorter(c, n), n - 1)'
         /\ val[t] = value[c[1]]
         /\ \A k \in 2 .. n : value'[c[k]] = value[c[k]]
<1> DEFINE d == Shorter(c, n)
<1>a. /\ pc \in [Threads -> Steps] /\ value \in [Nodes -> Values \cup {NoValue}]
      /\ NoNode \notin Nodes
  BY NoNodeAssumption DEF Typed, TypeOK
<1>1. /\ n \in Nat /\ c \in [0 .. n -> Nodes] /\ c[0] = first /\ next[c[n]] = NoNode
      /\ \A k \in 0 .. n - 1 : next[c[k]] = c[k + 1]
      /\ \A i, j \in 0 .. n : c[i] = c[j] => i = j
  BY DEF Linked, IsList
<1>2. /\ pc[t] = "swing_first" /\ n > 0
      /\ theFirst[t] = first /\ theNext[t] = c[1] /\ val[t] = value[c[1]]
  BY DEF SwingFirst, Move, Linked, FrontKnown
<1>3. /\ pc' = [pc EXCEPT ![t] = "release_taken"]
      /\ value' = [value EXCEPT ![c[1]] = NoValue] /\ first' = c[1]
      /\ UNCHANGED <<last, next, heap, tmp, theFirst, theNext, val>>
  BY <1>2 DEF SwingFirst, Move, Goto, locks, locals
<1>4. /\ n - 1 \in Nat /\ d \in [0 .. n - 1 -> Nodes]
      /\ \A k \in 0 .. n - 1 : d[k] = c[k + 1] /\ k + 1 \in 1 .. n
      /\ \A k \in 0 .. n : k # 0 => k - 1 \in 0 .. n - 1 /\ (k - 1) + 1 = k
      /\ 0 \in 0 .. n /\ 1 \in 0 .. n /\ \A k \in 1 .. n : k \in 0 .. n /\ k # 0
  BY <1>1, <1>2 DEF Shorter
<1> HIDE DEF d
<1>5. IsList(d, n - 1)'
  <2>1. d[0] = c[1] /\ d[n - 1] = c[n]
    BY <1>1, <1>2, <1>4
  <2>2. ASSUME NEW k \in 0 .. (n - 1) - 1 PROVE next'[d[k]] = d[k + 1]
    <3>1. k \in 0 .. n - 1 /\ k + 1 \in 0 .. n - 1
      BY <1>1
    <3>2. QED
      BY <1>1, <1>3, <1>4, <3>1
  <2>3. \A i, j \in 0 .. n - 1 : d[i] = d[j] => i = j
    <3>1. \A i, j \in 0 .. n - 1 : i + 1 = j + 1 => i = j
      BY <1>1
    <3>2. QED
      BY <1>1, <1>4, <3>1
  <2>4. QED
    BY <1>1, <1>3, <1>4, <2>1, <2>2, <2>3 DEF IsList
<1>6. \A x : InList(c, n, x) <=> InList(d, n - 1, x) \/ x = first
  <2>1. \A x : InList(d, n - 1, x) => InList(c, n, x)
    BY <1>1, <1>4 DEF InList
  <2>2. \A x : InList(c, n, x) => InList(d, n - 1, x) \/ x = first
    <3>1. \A k \in 0 .. n : k # 0 => d[k - 1] = c[k]
      BY <1>4
    <3>2. QED
      BY <1>1, <1>4, <3>1 DEF InList
  <2>3. InList(c, n, first)
    BY <1>1, <1>4 DEF InList
  <2>4. QED
    BY <2>1, <2>2, <2>3
<1>7. ~ InList(d, n - 1, first)
  BY <1>1, <1>4 DEF InList
<1>8. OwnedBy(d, n - 1)'
  <2>1. /\ OwnNode(t) = {} /\ OwnNode(t)' = {first}
        /\ \A u \in Threads : u # t => OwnNode(u)' = OwnNode(u)
    BY <1>a, <1>2, <1>3 DEF OwnNode, Adding, Deleting
  <2>2. \A y : InList(d, n - 1, y)' <=> InList(d, n - 1, y)
    BY DEF InList
  <2>3. \A y \in Nodes : y \in heap' <=> InList(d, n - 1, y) \/ \E u \in Threads : y \in OwnNode(u)'
    BY <1>3, <1>6, <2>1 DEF Linked, OwnedBy
  <2>4. \A u \in Threads : \A y \in OwnNode(u)' : ~ InList(d, n - 1, y)
    BY <1>6, <1>7, <2>1 DEF Linked, OwnedBy
  <2>5. \A u \in Threads : first \notin OwnNode(u)
    BY <1>6 DEF Linked, OwnedBy
  <2>6. \A u, w \in Threads : \A y \in OwnNode(u)' : y \in OwnNode(w)' => u = w
    BY <2>1, <2>5 DEF Linked, OwnedBy
  <2>7. QED
    BY <2>2, <2>3, <2>4, <2>6 DEF OwnedBy
<1>9. TailKnown(d, n - 1)'
  <2>1. d[n - 1] = c[n]
    BY <1>1, <1>4
  <2>2. QED
    BY <1>a, <1>2, <1>3, <2>1 DEF Linked, TailKnown, Swinging
<1>10. FrontKnown(d, n - 1)'
  <2>1. \A u \in Threads : pc[u] \in {"read_value", "swing_first"} => u = t
    BY <1>2 DEF Typed, Exclusion, InConsumer
  <2>2. \A u \in Threads : pc'[u] \notin {"read_value", "swing_first"}
    BY <1>a, <1>3, <2>1
  <2>3. QED
    BY <2>2 DEF FrontKnown
<1>11. ValuesKnown'
  <2>1. value'[first'] = NoValue
    BY <1>a, <1>1, <1>3, <1>4
  <2>2. ASSUME NEW u \in Threads, pc'[u] \in Adding
        PROVE  value'[tmp[u]] \in Values /\ next[tmp[u]] = NoNode
    <3>1. pc[u] \in Adding
      BY <1>a, <1>3, <2>2 DEF Adding
    <3>2. tmp[u] \in Nodes /\ ~ InList(c, n, tmp[u])
      BY <3>1 DEF Typed, LocalsOK, Adding, OwnNode, Linked, OwnedBy
    <3>3. tmp[u] # c[1]
      BY <1>4, <3>2 DEF InList
    <3>4. QED
      BY <1>a, <1>3, <3>1, <3>2, <3>3 DEF Linked, ValuesKnown
  <2>3. QED
    BY <1>3, <2>1, <2>2 DEF ValuesKnown
<1>12. \A k \in 2 .. n : value'[c[k]] = value[c[k]]
  <2> SUFFICES ASSUME NEW k \in 2 .. n PROVE value'[c[k]] = value[c[k]]
    OBVIOUS
  <2>1. k \in 0 .. n /\ k # 1
    BY <1>1
  <2>2. c[k] # c[1] /\ c[k] \in Nodes
    BY <1>1, <1>4, <2>1
  <2>3. QED
    BY <1>a, <1>3, <2>2
<1>13. Linked(d, n - 1)'
  BY <1>5, <1>8, <1>9, <1>10, <1>11 DEF Linked
<1> USE DEF d
<1>14. QED
  BY <1>2, <1>12, <1>13

(* delete theFirst                                                         *)
LEMMA DeleteLinked ==
  ASSUME Typed, NEW n, NEW c, Linked(c, n), NEW t \in Threads, DeleteDummy(t)
  PROVE  Linked(c, n)' /\ \A k \in 0 .. n : value'[c[k]] = value[c[k]]
<1>a. /\ pc \in [Threads -> Steps] /\ value \in [Nodes -> Values \cup {NoValue}]
      /\ next \in [Nodes -> Nodes \cup {NoNode}]
  BY DEF Typed, TypeOK
<1>1. PICK x \in Nodes : x = theFirst[t]
  BY DEF DeleteDummy, Return, Move, Typed, LocalsOK
<1>2. /\ pc[t] = "delete_dummy" /\ pc' = [pc EXCEPT ![t] = "idle"]
      /\ heap' = heap \ {x} /\ value' = [value EXCEPT ![x] = NoValue]
      /\ next' = [next EXCEPT ![x] = NoNode]
      /\ UNCHANGED <<first, last>>
      /\ tmp' = [tmp EXCEPT ![t] = NoNode]
      /\ theFirst' = [theFirst EXCEPT ![t] = NoNode]
      /\ theNext' = [theNext EXCEPT ![t] = NoNode]
      /\ val' = [val EXCEPT ![t] = NoValue]
  BY <1>1 DEF DeleteDummy, Return, Move, Goto
<1>3. \A u \in Threads : u # t => /\ pc'[u] = pc[u] /\ tmp'[u] = tmp[u] /\ val'[u] = val[u]
                                  /\ theFirst'[u] = theFirst[u] /\ theNext'[u] = theNext[u]
  BY <1>a, <1>2 DEF Typed, TypeOK
<1>4. pc'[t] = "idle"
  BY <1>a, <1>2
<1>5. /\ OwnNode(t) = {x} /\ OwnNode(t)' = {}
      /\ \A u \in Threads : u # t => OwnNode(u)' = OwnNode(u)
  BY <1>1, <1>2, <1>3, <1>4 DEF OwnNode, Adding, Deleting
<1>6. /\ ~ InList(c, n, x) /\ \A u \in Threads : u # t => x \notin OwnNode(u)
  BY <1>5 DEF Linked, OwnedBy
<1>7. \A k \in 0 .. n : /\ c[k] # x /\ c[k] \in Nodes
                        /\ value'[c[k]] = value[c[k]] /\ next'[c[k]] = next[c[k]]
  <2>1. \A k \in 0 .. n : c[k] # x /\ c[k] \in Nodes
    BY <1>6, ListAllocated DEF InList
  <2>2. QED
    BY <1>a, <1>2, <2>1
<1>8. n \in Nat /\ 0 \in 0 .. n /\ n \in 0 .. n /\ c[0] = first
      /\ (n > 0 => 1 \in 0 .. n) /\ \A k \in 0 .. n - 1 : k \in 0 .. n
  BY DEF Linked, IsList
<1>9. IsList(c, n)'
  BY <1>2, <1>7, <1>8 DEF Linked, IsList
<1>10. OwnedBy(c, n)'
  <2>1. \A y : InList(c, n, y)' <=> InList(c, n, y)
    BY DEF InList
  <2>2. \A y \in Nodes : y \in heap' <=> InList(c, n, y) \/ \E u \in Threads : y \in OwnNode(u)'
    BY <1>2, <1>5, <1>6 DEF Linked, OwnedBy
  <2>3. QED
    BY <1>5, <2>1, <2>2 DEF Linked, OwnedBy
<1>11. TailKnown(c, n)'
  BY <1>2, <1>3, <1>4 DEF Linked, TailKnown, Swinging
<1>12. FrontKnown(c, n)'
  BY <1>2, <1>3, <1>4, <1>7, <1>8 DEF Linked, FrontKnown
<1>13. ValuesKnown'
  <2>1. value'[first'] = NoValue
    BY <1>2, <1>7, <1>8 DEF Linked, ValuesKnown
  <2>2. ASSUME NEW u \in Threads, pc'[u] \in Adding
        PROVE  value'[tmp'[u]] \in Values /\ next'[tmp'[u]] = NoNode
    <3>1. u # t /\ pc[u] \in Adding /\ tmp'[u] = tmp[u]
      BY <1>3, <1>4, <2>2 DEF Adding
    <3>2. tmp[u] \in OwnNode(u) /\ tmp[u] \in Nodes
      BY <3>1 DEF OwnNode, Typed, LocalsOK, Adding
    <3>3. tmp[u] # x
      BY <1>6, <3>1, <3>2
    <3>4. QED
      BY <1>a, <1>2, <3>1, <3>2, <3>3 DEF Linked, ValuesKnown
  <2>3. QED
    BY <2>1, <2>2 DEF ValuesKnown
<1>14. QED
  BY <1>7, <1>9, <1>10, <1>11, <1>12, <1>13 DEF Linked

-----------------------------------------------------------------------------
(* Nth, which follows the links, walks through the list.                   *)

(* No two nodes are the same, so the list is no longer than Nodes is large.*)
LEMMA ListBounded ==
  ASSUME NEW n, NEW c, IsList(c, n)
  PROVE  MaxLength \in Nat /\ n + 1 <= MaxLength
<1>1. n \in Nat /\ c \in [0 .. n -> Nodes] /\ \A i, j \in 0 .. n : c[i] = c[j] => i = j
  BY DEF IsList
<1>2. c \in Injection(0 .. n, Nodes)
  BY <1>1 DEF Injection, IsInjective
<1>3. IsFiniteSet(0 .. n) /\ Cardinality(0 .. n) = n + 1
  <2>1. 0 \in Int /\ n \in Int /\ 0 <= n /\ n - 0 + 1 = n + 1
    BY <1>1
  <2>2. QED
    BY <2>1, FS_Interval
<1>4. Cardinality(0 .. n) <= Cardinality(Nodes)
  BY <1>2, <1>3, NoNodeAssumption, FS_Injection
<1>5. Cardinality(Nodes) \in Nat
  BY NoNodeAssumption, FS_CardinalityType
<1>6. QED
  BY <1>3, <1>4, <1>5 DEF MaxLength

Walk(c, n) == [k \in 0 .. MaxLength |-> IF k <= n THEN c[k] ELSE NoNode]

(* The list satisfies the equation that defines Nth, ...                   *)
LEMMA WalkSteps ==
  ASSUME NEW n, NEW c, IsList(c, n)
  PROVE  Walk(c, n) = [k \in 0 .. MaxLength |->
                         IF k = 0 THEN first
                         ELSE IF Walk(c, n)[k-1] = NoNode THEN NoNode
                         ELSE next[Walk(c, n)[k-1]]]
<1> DEFINE w == Walk(c, n)
<1>1. /\ n \in Nat /\ c \in [0 .. n -> Nodes] /\ c[0] = first /\ next[c[n]] = NoNode
      /\ \A k \in 0 .. n - 1 : next[c[k]] = c[k + 1]
  BY DEF IsList
<1>2. MaxLength \in Nat /\ n + 1 <= MaxLength
  BY ListBounded
<1>3. \A k \in 0 .. MaxLength : w[k] = IF k <= n THEN c[k] ELSE NoNode
  BY DEF Walk
<1> SUFFICES ASSUME NEW k \in 0 .. MaxLength
             PROVE  w[k] = IF k = 0 THEN first
                           ELSE IF w[k-1] = NoNode THEN NoNode ELSE next[w[k-1]]
  BY DEF Walk
<1> HIDE DEF w
<1>4. CASE k = 0
  BY <1>1, <1>2, <1>3, <1>4
<1>5. CASE k # 0 /\ k <= n
  <2>1. k - 1 \in 0 .. MaxLength /\ k - 1 <= n /\ k - 1 \in 0 .. n - 1 /\ (k - 1) + 1 = k
        /\ k - 1 \in 0 .. n
    BY <1>1, <1>2, <1>5
  <2>2. w[k-1] = c[k-1] /\ c[k-1] \in Nodes /\ w[k] = c[k]
    BY <1>1, <1>3, <1>5, <2>1
  <2>3. QED
    BY <1>1, <1>5, <2>1, <2>2, NoNodeAssumption
<1>6. CASE k = n + 1
  <2>1. k - 1 \in 0 .. MaxLength /\ k - 1 = n /\ ~ (k <= n) /\ k # 0 /\ n \in 0 .. n
    BY <1>1, <1>2, <1>6
  <2>2. w[k-1] = c[n] /\ c[n] \in Nodes /\ w[k] = NoNode
    BY <1>1, <1>3, <2>1
  <2>3. QED
    BY <1>1, <2>1, <2>2, NoNodeAssumption
<1>7. CASE k > n + 1
  <2>1. k - 1 \in 0 .. MaxLength /\ ~ (k - 1 <= n) /\ ~ (k <= n) /\ k # 0
    BY <1>1, <1>2, <1>7
  <2>2. QED
    BY <1>3, <2>1
<1>8. k = 0 \/ (k # 0 /\ k <= n) \/ k = n + 1 \/ k > n + 1
  BY <1>1, <1>2
<1>9. QED
  BY <1>4, <1>5, <1>6, <1>7, <1>8

(* ... and only one function does.                                         *)
LEMMA NthExact == \A n : \A c : IsList(c, n) => Nth = Walk(c, n)
<1> SUFFICES ASSUME NEW n, NEW c, IsList(c, n) PROVE Nth = Walk(c, n)
  OBVIOUS
<1> DEFINE w == Walk(c, n)
<1>1. Nth = [k \in 0 .. MaxLength |->
               IF k = 0 THEN first ELSE IF Nth[k-1] = NoNode THEN NoNode ELSE next[Nth[k-1]]]
  BY WalkSteps DEF Nth
<1>2. w = [k \in 0 .. MaxLength |->
             IF k = 0 THEN first ELSE IF w[k-1] = NoNode THEN NoNode ELSE next[w[k-1]]]
  BY WalkSteps
<1>3. MaxLength \in Nat
  BY ListBounded
<1> HIDE DEF w
<1> DEFINE S == {k \in Nat : k <= MaxLength => Nth[k] = w[k]}
<1>4. 0 \in S
  BY <1>1, <1>2, <1>3
<1>5. ASSUME NEW k \in Nat, k \in S PROVE k + 1 \in S
  <2>1. k + 1 \in Nat /\ (k + 1) - 1 = k /\ k + 1 # 0
        /\ (k + 1 <= MaxLength => k <= MaxLength /\ k + 1 \in 0 .. MaxLength)
    BY <1>3
  <2>2. QED
    BY <1>1, <1>2, <1>5, <2>1
<1>6. \A k \in Nat : k \in S
  <2> HIDE DEF S
  <2>1. QED
    BY <1>4, <1>5, SetInduction
<1>7. \A k \in 0 .. MaxLength : Nth[k] = w[k]
  BY <1>3, <1>6
<1>8. QED
  BY <1>1, <1>2, <1>7 DEF w

(* The nodes and the values that the walk finds are those of the list.     *)
WalkExact ==
  \A n : \A c : IsList(c, n) =>
    /\ Chain = {c[k] : k \in 0 .. n}
    /\ Contents = [k \in 1 .. n |-> value[c[k]]]

LEMMA ListExact == WalkExact
<1> SUFFICES ASSUME NEW n, NEW c, IsList(c, n)
             PROVE  /\ Chain = {c[k] : k \in 0 .. n}
                    /\ Contents = [k \in 1 .. n |-> value[c[k]]]
  BY DEF WalkExact
<1>1. /\ n \in Nat /\ MaxLength \in Nat /\ n + 1 <= MaxLength
      /\ \A k \in 0 .. n : c[k] \in Nodes /\ c[k] # NoNode
  BY ListBounded, NoNodeAssumption DEF IsList
<1>2. \A k \in 0 .. MaxLength : Nth[k] = IF k <= n THEN c[k] ELSE NoNode
  BY NthExact DEF Walk
<1>3. \A k \in 0 .. MaxLength : k \in 0 .. n => Nth[k] = c[k]
  BY <1>1, <1>2
<1>4. \A k \in 0 .. MaxLength : k \notin 0 .. n => Nth[k] = NoNode
  BY <1>1, <1>2
<1>5. \A k \in 0 .. n : k \in 0 .. MaxLength
  BY <1>1
<1>6. Chain = {c[k] : k \in 0 .. n}
  BY <1>1, <1>3, <1>4, <1>5 DEF Chain
<1>7. {j \in 1 .. MaxLength : Nth[j] # NoNode} = 1 .. n
  BY <1>1, <1>3, <1>4, <1>5
<1>8. Cardinality(1 .. n) = n
  <2>1. CASE n = 0
    BY <2>1, FS_EmptySet
  <2>2. CASE n # 0
    <3>1. 1 \in Int /\ n \in Int /\ 1 <= n /\ n - 1 + 1 = n
      BY <1>1, <2>2
    <3>2. QED
      BY <3>1, FS_Interval
  <2>3. QED
    BY <2>1, <2>2
<1>9. Contents = [k \in 1 .. n |-> value[Nth[k]]]
  BY <1>7, <1>8 DEF Contents
<1>10. \A k \in 1 .. n : Nth[k] = c[k]
  BY <1>1, <1>3, <1>5
<1>11. QED
  BY <1>6, <1>9, <1>10

-----------------------------------------------------------------------------
(* Every step of a thread leaves a list behind ...                         *)

LEMMA ThreadLinked ==
  ASSUME Typed, NEW n, NEW c, Linked(c, n), NEW t \in Threads, PushBack(t) \/ PopFront(t)
  PROVE  \E m : \E d : Linked(d, m)'
<1>a. /\ pc \in [Threads -> Steps] /\ theFirst \in [Threads -> Nodes \cup {NoNode}]
      /\ tmp \in [Threads -> Nodes \cup {NoNode}]
      /\ theNext \in [Threads -> Nodes \cup {NoNode}]
      /\ val \in [Threads -> Values \cup {NoValue}]
  BY DEF Typed, TypeOK
<1> USE <1>a DEF Goto, Move, list, locks, locals, Swinging, Adding, Deleting
<1>1. ASSUME CallPushBack(t) PROVE Linked(c, n)'
  <2>1. PICK v \in Values, x \in Nodes \ heap :
          /\ heap' = heap \cup {x} /\ value' = [value EXCEPT ![x] = v]
          /\ next' = [next EXCEPT ![x] = NoNode] /\ tmp' = [tmp EXCEPT ![t] = x]
    BY <1>1 DEF CallPushBack, NewNode
  <2>2. /\ UNCHANGED <<first, last, theFirst, theNext, val>>
        /\ pc[t] = "idle" /\ pc' = [pc EXCEPT ![t] = "acquire_producer"]
    BY <1>1 DEF CallPushBack
  <2>3. QED
    BY <2>1, <2>2, NewLinked
<1>2. ASSUME AcquireProducer(t) PROVE Linked(c, n)'
  <2>1. /\ pc[t] = "acquire_producer" /\ pc' = [pc EXCEPT ![t] = "link"]
        /\ UNCHANGED <<first, last, value, next, heap, tmp, theFirst, theNext, val>>
    BY <1>2 DEF AcquireProducer
  <2>2. QED
    BY <2>1, KeptLinked
<1>3. ASSUME Link(t, "link", "swing_last") \/ Link(t, "link_new", "swing_last_new")
      PROVE  \E m : \E d : Linked(d, m)'
  <2>1. PICK x \in Nodes : x = tmp[t]
    BY <1>3 DEF Link, Typed, LocalsOK
  <2>2. QED
    BY <1>3, <2>1, LinkLinked
<1>4. ASSUME \/ SwingLast(t, "swing_last", "release_producer")
             \/ SwingLast(t, "swing_last_new", "release_producer_new")
      PROVE  Linked(c, n)'
  BY <1>4, SwingLastLinked
<1>5. ASSUME ReleaseProducer(t) PROVE Linked(c, n)'
  <2>1. /\ pc[t] = "release_producer" /\ pc' = [pc EXCEPT ![t] = "idle"]
        /\ tmp' = [tmp EXCEPT ![t] = NoNode]
        /\ theFirst' = [theFirst EXCEPT ![t] = NoNode]
        /\ theNext' = [theNext EXCEPT ![t] = NoNode]
        /\ val' = [val EXCEPT ![t] = NoValue]
        /\ UNCHANGED <<first, last, value, next, heap>>
    BY <1>5 DEF ReleaseProducer, Return
  <2>2. QED
    BY <2>1, ReturnLinked
<1>6. ASSUME CallPopFront(t) PROVE Linked(c, n)'
  <2>1. /\ pc[t] = "idle" /\ pc' = [pc EXCEPT ![t] = "acquire_consumer"]
        /\ UNCHANGED <<first, last, value, next, heap, tmp, theFirst, theNext, val>>
    BY <1>6 DEF CallPopFront
  <2>2. QED
    BY <2>1, KeptLinked
<1>7. ASSUME AcquireConsumer(t) PROVE Linked(c, n)'
  <2>1. /\ pc[t] = "acquire_consumer" /\ pc' = [pc EXCEPT ![t] = "read_next"]
        /\ UNCHANGED <<first, last, value, next, heap, tmp, theFirst, theNext, val>>
    BY <1>7 DEF AcquireConsumer
  <2>2. QED
    BY <2>1, KeptLinked
<1>8. ASSUME ReadNext(t) PROVE Linked(c, n)'
  BY <1>8, ReadNextLinked
<1>9. ASSUME ReadValue(t) PROVE Linked(c, n)'
  BY <1>9, ReadValueLinked
<1>10. ASSUME SwingFirst(t) PROVE Linked(Shorter(c, n), n - 1)'
  BY <1>10, SwingFirstLinked
<1>11. ASSUME ReleaseTaken(t) PROVE Linked(c, n)'
  <2>1. /\ pc[t] = "release_taken" /\ pc' = [pc EXCEPT ![t] = "delete_dummy"]
        /\ UNCHANGED <<first, last, value, next, heap, tmp, theFirst, theNext, val>>
    BY <1>11 DEF ReleaseTaken
  <2>2. QED
    BY <2>1, KeptLinked
<1>12. ASSUME DeleteDummy(t) PROVE Linked(c, n)'
  BY <1>12, DeleteLinked
<1>13. ASSUME TryProducer(t) PROVE Linked(c, n)'
  <2>1. /\ pc[t] = "try_producer" /\ pc'[t] \in {"release_consumer", "new_node"}
        /\ \A u \in Threads : u # t => pc'[u] = pc[u]
        /\ UNCHANGED <<first, last, value, next, heap, tmp, theFirst, theNext, val>>
    BY <1>13 DEF TryProducer
  <2>2. QED
    BY <2>1, KeptLinked
<1>14. ASSUME CreateValue(t) PROVE Linked(c, n)'
  <2>1. PICK v \in Values, x \in Nodes \ heap :
          /\ heap' = heap \cup {x} /\ value' = [value EXCEPT ![x] = v]
          /\ next' = [next EXCEPT ![x] = NoNode] /\ tmp' = [tmp EXCEPT ![t] = x]
    BY <1>14 DEF CreateValue, NewNode
  <2>2. /\ UNCHANGED <<first, last, theFirst, theNext, val>>
        /\ pc[t] = "new_node" /\ pc' = [pc EXCEPT ![t] = "link_new"]
    BY <1>14 DEF CreateValue
  <2>3. QED
    BY <2>1, <2>2, NewLinked
<1>15. ASSUME ReleaseProducerNew(t) PROVE Linked(c, n)'
  <2>1. /\ pc[t] = "release_producer_new" /\ pc' = [pc EXCEPT ![t] = "release_consumer"]
        /\ UNCHANGED <<first, last, value, next, heap, tmp, theFirst, theNext, val>>
    BY <1>15 DEF ReleaseProducerNew
  <2>2. QED
    BY <2>1, KeptLinked
<1>16. ASSUME ReleaseConsumer(t) PROVE Linked(c, n)'
  <2>1. /\ pc[t] = "release_consumer" /\ pc' = [pc EXCEPT ![t] = "idle"]
        /\ tmp' = [tmp EXCEPT ![t] = NoNode]
        /\ theFirst' = [theFirst EXCEPT ![t] = NoNode]
        /\ theNext' = [theNext EXCEPT ![t] = NoNode]
        /\ val' = [val EXCEPT ![t] = NoValue]
        /\ UNCHANGED <<first, last, value, next, heap>>
    BY <1>16 DEF ReleaseConsumer, Return
  <2>2. QED
    BY <2>1, ReturnLinked
<1>17. QED
  BY <1>1, <1>2, <1>3, <1>4, <1>5, <1>6, <1>7, <1>8, <1>9, <1>10, <1>11, <1>12, <1>13,
     <1>14, <1>15, <1>16
  DEF PushBack, PopFront

(* ... and the destructor frees all of it, nobody having another node.     *)
LEMMA StepHasList ==
  Typed /\ HasList /\ AllFreed /\ [Next]_vars => HasList' /\ AllFreed'
<1> SUFFICES ASSUME Typed, HasList, AllFreed, [Next]_vars PROVE HasList' /\ AllFreed'
  OBVIOUS
<1>1. CASE UNCHANGED vars
  <2>1. \A n : \A c : Linked(c, n) => Linked(c, n)'
    BY <1>1 DEF vars, list, locks, locals, Linked, IsList, OwnedBy, InList, OwnNode,
       TailKnown, FrontKnown, ValuesKnown
  <2>2. Destroyed' <=> Destroyed
    BY <1>1 DEF vars, list, Destroyed
  <2>3. QED
    BY <1>1, <2>1, <2>2 DEF vars, HasList, AllFreed
<1>2. CASE Destroy
  <2>1. /\ ~Destroyed /\ Destroyed' /\ heap' = heap \ Chain
        /\ \A t \in Threads : pc[t] = "idle"
    BY <1>2 DEF Destroy, Destroyed
  <2>2. PICK n \in Nat : \E c \in [0 .. n -> Nodes] : Linked(c, n)
    BY <2>1 DEF HasList
  <2>3. PICK c \in [0 .. n -> Nodes] : Linked(c, n)
    BY <2>2
  <2>4. Chain = {c[k] : k \in 0 .. n}
    BY <2>3, ListExact DEF Linked, WalkExact
  <2>5. \A t \in Threads : OwnNode(t) = {}
    BY <2>1 DEF OwnNode, Adding, Deleting
  <2>6. heap \subseteq Chain
    BY <2>3, <2>4, <2>5 DEF Linked, OwnedBy, InList, Typed, TypeOK
  <2>7. QED
    BY <2>1, <2>6 DEF HasList, AllFreed
<1>3. ASSUME NEW t \in Threads, PushBack(t) \/ PopFront(t) PROVE HasList' /\ AllFreed'
  <2>1. ~Destroyed
    BY <1>3 DEF Typed, Quiet, PushBack, PopFront, Move, Return, CallPushBack, AcquireProducer,
       Link, SwingLast, ReleaseProducer, CallPopFront, AcquireConsumer, ReadNext, ReadValue,
       SwingFirst, ReleaseTaken, DeleteDummy, TryProducer, CreateValue, ReleaseProducerNew,
       ReleaseConsumer
  <2>2. PICK n \in Nat : \E c \in [0 .. n -> Nodes] : Linked(c, n)
    BY <2>1 DEF HasList
  <2>3. PICK c \in [0 .. n -> Nodes] : Linked(c, n)
    BY <2>2
  <2>4. PICK m : \E d : Linked(d, m)'
    BY <1>3, <2>3, ThreadLinked
  <2>5. PICK d : Linked(d, m)'
    BY <2>4
  <2>6. m \in Nat /\ d \in [0 .. m -> Nodes] /\ first' = d[0] /\ 0 \in 0 .. m
    BY <2>5 DEF Linked, IsList
  <2>7. ~Destroyed'
    BY <2>6, NoNodeAssumption DEF Destroyed
  <2>8. QED
    BY <2>5, <2>6, <2>7 DEF HasList, AllFreed
<1>4. QED
  BY <1>1, <1>2, <1>3 DEF Next, Gone

ListState == Typed /\ HasList /\ AllFreed

LEMMA ListAlways == Spec => []ListState
BY InitTyped, StepTyped, InitLinked, StepHasList, PTL DEF Spec, ListState

(* No thread reads, writes or deletes a node that has been deleted.        *)
THEOREM NoneUsedAfterFree == Spec => []NoUseAfterFree
<1>1. ListState => NoUseAfterFree
  <2> SUFFICES ASSUME ListState, NEW t \in Threads, pc[t] # "idle"
               PROVE  /\ pc[t] = "read_next" => first \in heap
                      /\ pc[t] \in {"read_value", "swing_first"} => theNext[t] \in heap
                      /\ pc[t] \in {"link", "link_new"} => last \in heap /\ tmp[t] \in heap
                      /\ pc[t] = "delete_dummy" => theFirst[t] \in heap
    BY DEF NoUseAfterFree
  <2>1. ~Destroyed
    BY DEF ListState, Typed, Quiet
  <2>2. PICK n \in Nat : \E c \in [0 .. n -> Nodes] : Linked(c, n)
    BY <2>1 DEF ListState, HasList
  <2>3. PICK c \in [0 .. n -> Nodes] : Linked(c, n)
    BY <2>2
  <2>4. /\ c[0] \in heap /\ c[n] \in heap /\ c[0] = first
        /\ n > 0 => c[1] \in heap
    BY <2>3, ListAllocated DEF Linked, IsList
  <2>5. \A u \in Threads : \A x \in OwnNode(u) : x \in heap
    BY <2>3 DEF ListState, Typed, LocalsOK, Linked, OwnedBy, OwnNode, Adding, Deleting
  <2>6. CASE pc[t] \in {"link", "link_new"}
    <3>1. \A u \in Threads : pc[u] \notin Swinging
      BY <2>6 DEF ListState, Typed, Exclusion, InProducer, Swinging
    <3>2. last = c[n]
      BY <2>3, <3>1 DEF Linked, TailKnown
    <3>3. tmp[t] \in OwnNode(t)
      BY <2>6 DEF OwnNode, Adding
    <3>4. QED
      BY <2>4, <2>5, <2>6, <3>2, <3>3
  <2>7. CASE pc[t] = "delete_dummy"
    BY <2>5, <2>7 DEF OwnNode, Adding, Deleting
  <2>8. CASE pc[t] \in {"read_value", "swing_first"}
    BY <2>3, <2>4, <2>8 DEF Linked, FrontKnown
  <2>9. QED
    BY <2>4, <2>6, <2>7, <2>8
<1>2. QED
  BY <1>1, ListAlways, PTL

(* A list that has been destroyed has no node.                             *)
LEMMA NoChain ==
  ASSUME Destroyed PROVE Chain = {}
<1> DEFINE w == [k \in 0 .. MaxLength |-> NoNode]
<1>1. MaxLength \in Nat
  BY NoNodeAssumption, FS_CardinalityType DEF MaxLength
<1>2. \A k \in 0 .. MaxLength : k # 0 => k - 1 \in 0 .. MaxLength
  BY <1>1
<1>3. w = [k \in 0 .. MaxLength |->
             IF k = 0 THEN first ELSE IF w[k-1] = NoNode THEN NoNode ELSE next[w[k-1]]]
  BY <1>2 DEF Destroyed
<1>4. Nth = [k \in 0 .. MaxLength |->
               IF k = 0 THEN first ELSE IF Nth[k-1] = NoNode THEN NoNode ELSE next[Nth[k-1]]]
  BY <1>3 DEF Nth
<1> DEFINE S == {k \in Nat : k <= MaxLength => Nth[k] = NoNode}
<1>5. 0 \in S
  BY <1>1, <1>4 DEF Destroyed
<1>6. ASSUME NEW k \in Nat, k \in S PROVE k + 1 \in S
  <2>1. k + 1 \in Nat /\ (k + 1) - 1 = k /\ k + 1 # 0
        /\ (k + 1 <= MaxLength => k <= MaxLength /\ k + 1 \in 0 .. MaxLength)
    BY <1>1
  <2>2. QED
    BY <1>4, <1>6, <2>1
<1>7. \A k \in Nat : k \in S
  <2> HIDE DEF S
  <2>1. QED
    BY <1>5, <1>6, SetInduction
<1>8. QED
  BY <1>1, <1>7 DEF Chain

(* Every allocated node is in the list or one thread has it, `last' is the *)
(* tail whenever no producer is at work, and the dummy carries no value.   *)
THEOREM NodesAccounted == Spec => []NoNodeLost
<1>1. ListState => NoNodeLost
  <2> SUFFICES ASSUME ListState PROVE NoNodeLost
    OBVIOUS
  <2>a. heap \subseteq Nodes /\ \A t \in Threads : OwnNode(t) \subseteq Nodes
    BY DEF ListState, Typed, TypeOK, LocalsOK, OwnNode, Adding, Deleting
  <2>1. CASE Destroyed
    <3>1. heap = {} /\ Chain = {} /\ \A t \in Threads : OwnNode(t) = {}
      BY <2>1, NoChain DEF ListState, AllFreed, Typed, Quiet, OwnNode, Adding, Deleting
    <3>2. QED
      BY <2>1, <3>1 DEF NoNodeLost, LastIsTail, DummyIsEmpty
  <2>2. CASE ~Destroyed
    <3>1. PICK n \in Nat : \E c \in [0 .. n -> Nodes] : Linked(c, n)
      BY <2>2 DEF ListState, HasList
    <3>2. PICK c \in [0 .. n -> Nodes] : Linked(c, n)
      BY <3>1
    <3>3. Chain = {c[k] : k \in 0 .. n} /\ n \in 0 .. n
      BY <3>2, ListExact DEF Linked, WalkExact
    <3>4. \A x : x \in Chain <=> InList(c, n, x)
      BY <3>3 DEF InList
    <3>5. Chain \subseteq Nodes
      BY <3>3
    <3>6. \A x \in Nodes : x \in heap <=> x \in Chain \/ \E t \in Threads : x \in OwnNode(t)
      BY <3>2, <3>4 DEF Linked, OwnedBy
    <3>7. heap = Chain \cup UNION {OwnNode(t) : t \in Threads}
      BY <2>a, <3>5, <3>6
    <3>8. /\ \A t, u \in Threads : t # u => OwnNode(t) \cap OwnNode(u) = {}
          /\ \A t \in Threads : OwnNode(t) \cap Chain = {}
      BY <3>2, <3>4 DEF Linked, OwnedBy
    <3>9. LastIsTail
      <4>1. ASSUME ~producerLock PROVE \A t \in Threads : pc[t] \notin Swinging
        BY <4>1 DEF ListState, Typed, Exclusion, InProducer, Swinging
      <4>2. QED
        BY <3>2, <3>3, <4>1 DEF LastIsTail, Linked, TailKnown, IsList
    <3>10. DummyIsEmpty
      BY <3>2 DEF DummyIsEmpty, Linked, ValuesKnown
    <3>11. QED
      BY <3>7, <3>8, <3>9, <3>10 DEF NoNodeLost
  <2>3. QED
    BY <2>1, <2>2
<1>2. QED
  BY <1>1, ListAlways, PTL

-----------------------------------------------------------------------------
(* The list implements FifoQueue *)

(* That the walk is exact holds of the state after a step as well.         *)
LEMMA ListExactNext == WalkExact'
BY ListExact, PTL

(* Steps after which the list has the same nodes with the same values.     *)
LEMMA SameContents ==
  ASSUME NEW n, NEW c, Linked(c, n), Linked(c, n)',
         \A k \in 0 .. n : value'[c[k]] = value[c[k]]
  PROVE  /\ Contents' = Contents /\ ~Destroyed'
<1>1. IsList(c, n) /\ IsList(c, n)' /\ n \in Nat
  BY DEF Linked, IsList
<1>2. Contents = [k \in 1 .. n |-> value[c[k]]]
  BY <1>1, ListExact DEF WalkExact
<1>3. Contents' = [k \in 1 .. n |-> value'[c[k]]]
  BY <1>1, ListExactNext DEF WalkExact
<1>4. \A k \in 1 .. n : k \in 0 .. n
  BY <1>1
<1>5. first' # NoNode
  BY <1>1, NoNodeAssumption DEF IsList
<1>6. QED
  BY <1>2, <1>3, <1>4, <1>5 DEF Destroyed

(* What a thread that links its node has appended.                         *)
LEMMA LinkAppends ==
  ASSUME Typed, NEW n, NEW c, Linked(c, n), NEW t \in Threads,
         NEW from \in {"link", "link_new"}, NEW to \in Swinging, Link(t, from, to)
  PROVE  /\ \E v \in Values : Contents' = Append(Contents, v)
         /\ ~Destroyed'
<1>1. PICK x \in Nodes : x = tmp[t]
  BY DEF Link, Move, Typed, LocalsOK
<1> DEFINE d == Longer(c, n, x)
<1>2. IsList(d, n + 1)' /\ value[x] \in Values /\ \A k \in 0 .. n : c[k] \in Nodes
  BY <1>1, LinkLinked DEF Linked
<1>3. IsList(c, n) /\ n \in Nat
  BY DEF Linked, IsList
<1>4. value' = value /\ value \in [Nodes -> Values \cup {NoValue}]
  BY DEF Link, Typed, TypeOK
<1>5. Contents' = [k \in 1 .. n + 1 |-> value[d[k]]]
  <2> HIDE DEF d
  <2>1. QED
    BY <1>2, <1>4, ListExactNext DEF WalkExact
<1>6. Contents = [k \in 1 .. n |-> value[c[k]]]
  BY <1>3, ListExact DEF WalkExact
<1>7. /\ d[n + 1] = x /\ d[0] = c[0] /\ \A k \in 1 .. n : d[k] = c[k] /\ k \in 0 .. n
      /\ \A k : k \in 1 .. n + 1 <=> k \in 1 .. n \/ k = n + 1
  BY <1>3 DEF Longer
<1> HIDE DEF d
<1>8. /\ Contents \in [1 .. n -> Values \cup {NoValue}]
      /\ Contents' \in [1 .. n + 1 -> Values \cup {NoValue}]
      /\ \A k \in 1 .. n : Contents'[k] = Contents[k]
      /\ Contents'[n + 1] = value[x]
  BY <1>2, <1>4, <1>5, <1>6, <1>7
<1>9. Contents' = Append(Contents, value[x])
  BY <1>3, <1>8, AppendFunction
<1>10. ~Destroyed'
  <2>1. first' \in Nodes
    BY <1>2, <1>3, <1>7 DEF IsList, Link, list
  <2>2. QED
    BY <2>1, NoNodeAssumption DEF Destroyed
<1>11. QED
  BY <1>2, <1>9, <1>10

(* What the consumer unlinks is the value at the front, which it has seen. *)
LEMMA SwingFirstRemoves ==
  ASSUME Typed, NEW n, NEW c, Linked(c, n), NEW t \in Threads, SwingFirst(t)
  PROVE  /\ Contents # <<>> /\ val[t] = Head(Contents)
         /\ Contents' = Tail(Contents)
         /\ ~Destroyed'
<1> DEFINE d == Shorter(c, n)
<1>1. /\ n > 0 /\ IsList(d, n - 1)' /\ val[t] = value[c[1]]
      /\ \A k \in 2 .. n : value'[c[k]] = value[c[k]]
  BY SwingFirstLinked DEF Linked
<1>2. IsList(c, n) /\ n \in Nat /\ c \in [0 .. n -> Nodes]
  BY DEF Linked, IsList
<1>3. value \in [Nodes -> Values \cup {NoValue}]
  BY DEF Typed, TypeOK
<1>4. Contents' = [k \in 1 .. n - 1 |-> value'[d[k]]]
  <2> HIDE DEF d
  <2>1. QED
    BY <1>1, ListExactNext DEF WalkExact
<1>5. Contents = [k \in 1 .. n |-> value[c[k]]]
  BY <1>2, ListExact DEF WalkExact
<1>6. \A k \in 1 .. n - 1 : d[k] = c[k + 1] /\ k + 1 \in 2 .. n /\ k + 1 \in 1 .. n /\ c[k + 1] \in Nodes
  BY <1>1, <1>2 DEF Shorter
<1>7. d[0] = c[1] /\ c[1] \in Nodes
  BY <1>1, <1>2 DEF Shorter
<1> HIDE DEF d
<1>8. /\ Contents \in [1 .. n -> Values \cup {NoValue}]
      /\ Contents' \in [1 .. n - 1 -> Values \cup {NoValue}]
      /\ \A k \in 1 .. n - 1 : Contents'[k] = Contents[k + 1]
      /\ Contents[1] = value[c[1]]
  <2>1. \A k \in 1 .. n : c[k] \in Nodes
    BY <1>2
  <2>2. Contents \in [1 .. n -> Values \cup {NoValue}] /\ Contents[1] = value[c[1]]
    BY <1>1, <1>2, <1>3, <1>5, <2>1
  <2>3. \A k \in 1 .. n - 1 : value'[d[k]] = value[c[k + 1]]
    BY <1>1, <1>6
  <2>4. QED
    BY <1>3, <1>4, <1>5, <1>6, <2>2, <2>3
<1>9. Contents' = Tail(Contents)
  BY <1>1, <1>2, <1>8, TailFunction
<1>10. Contents # <<>> /\ Head(Contents) = Contents[1]
  BY <1>1, <1>2, <1>8, SeqOfFunction
<1>11. ~Destroyed'
  <2>1. first' \in Nodes
    BY <1>1, <1>7 DEF IsList
  <2>2. QED
    BY <2>1, NoNodeAssumption DEF Destroyed
<1>12. QED
  BY <1>1, <1>8, <1>9, <1>10, <1>11

(* What a consumer looks at is the value at the front.                     *)
LEMMA ReadValueFront ==
  ASSUME Typed, NEW n, NEW c, Linked(c, n), NEW t \in Threads, ReadValue(t)
  PROVE  /\ Contents # <<>>
         /\ val' = [val EXCEPT ![t] = Head(Contents)]
<1>1. pc[t] = "read_value" /\ val' = [val EXCEPT ![t] = value[theNext[t]]]
  BY DEF ReadValue, Move
<1>2. n > 0 /\ theNext[t] = c[1] /\ IsList(c, n) /\ n \in Nat /\ c \in [0 .. n -> Nodes]
  BY <1>1 DEF Linked, FrontKnown, IsList
<1>3. Contents = [k \in 1 .. n |-> value[c[k]]]
  BY <1>2, ListExact DEF WalkExact
<1>4. Contents \in [1 .. n -> Values \cup {NoValue}] /\ Contents[1] = value[c[1]]
  BY <1>2, <1>3 DEF Typed, TypeOK
<1>5. Contents # <<>> /\ Head(Contents) = Contents[1]
  BY <1>2, <1>4, SeqOfFunction
<1>6. QED
  BY <1>1, <1>2, <1>4, <1>5

(* Steps that leave first and the fields of the nodes alone.               *)
LEMMA ListUntouched ==
  ASSUME first' = first, value' = value, next' = next
  PROVE  Contents' = Contents /\ (Destroyed' <=> Destroyed)
BY DEF Contents, Nth, MaxLength, Destroyed

LEMMA InitFifo == Init => Fifo!FifoInit
<1> SUFFICES ASSUME Init PROVE Fifo!FifoInit
  OBVIOUS
<1>1. PICK d \in Nodes : first = d /\ next = [x \in Nodes |-> NoNode]
  BY DEF Init
<1> DEFINE c == [k \in 0 .. 0 |-> d]
<1>2. IsList(c, 0)
  BY <1>1 DEF IsList
<1>3. Contents = [k \in 1 .. 0 |-> value[c[k]]]
  <2> HIDE DEF c
  <2>1. QED
    BY <1>2, ListExact DEF WalkExact
<1>4. Contents = <<>>
  BY <1>3
<1>5. QED
  BY <1>4 DEF Fifo!FifoInit, Init

LEMMA StepFifo == ListState /\ [Next]_vars => [Fifo!FifoNext]_(Fifo!fifoVars)
<1> SUFFICES ASSUME ListState, [Next]_vars PROVE [Fifo!FifoNext]_(Fifo!fifoVars)
  OBVIOUS
<1>1. CASE UNCHANGED vars
  BY <1>1, ListUntouched DEF vars, list, locals, Fifo!fifoVars
<1>2. CASE Destroy
  <2>1. Destroyed' /\ val' = val
    BY <1>2 DEF Destroy, Destroyed, locals
  <2>2. Fifo!Clear
    BY <2>1 DEF Fifo!Clear
  <2>3. QED
    BY <2>2 DEF Fifo!FifoNext
<1>3. ASSUME NEW t \in Threads, PushBack(t) \/ PopFront(t)
      PROVE  [Fifo!FifoNext]_(Fifo!fifoVars)
  <2>1. ~Destroyed
    BY <1>3 DEF ListState, Typed, Quiet, PushBack, PopFront, Move, Return, CallPushBack,
       AcquireProducer, Link, SwingLast, ReleaseProducer, CallPopFront, AcquireConsumer,
       ReadNext, ReadValue, SwingFirst, ReleaseTaken, DeleteDummy, TryProducer, CreateValue,
       ReleaseProducerNew, ReleaseConsumer
  <2>2. PICK n \in Nat : \E c \in [0 .. n -> Nodes] : Linked(c, n)
    BY <2>1 DEF ListState, HasList
  <2>3. PICK c \in [0 .. n -> Nodes] : Linked(c, n)
    BY <2>2
  <2>4. Typed
    BY DEF ListState
  <2>5. CASE Link(t, "link", "swing_last") \/ Link(t, "link_new", "swing_last_new")
    <3>1. PICK v \in Values : Contents' = Append(Contents, v) /\ ~Destroyed'
      BY <2>3, <2>4, <2>5, LinkAppends DEF Swinging
    <3>2. val' = val
      BY <2>5 DEF Link, locals
    <3>3. Fifo!Enqueue(v)
      BY <2>1, <3>1, <3>2 DEF Fifo!Enqueue
    <3>4. QED
      BY <3>3 DEF Fifo!FifoNext
  <2>6. CASE SwingFirst(t)
    <3>1. Contents # <<>> /\ val[t] = Head(Contents) /\ Contents' = Tail(Contents) /\ ~Destroyed'
      BY <2>3, <2>4, <2>6, SwingFirstRemoves
    <3>2. val' = val
      BY <2>6 DEF SwingFirst, locals
    <3>3. Fifo!Dequeue(t)
      BY <2>1, <3>1, <3>2 DEF Fifo!Dequeue
    <3>4. QED
      BY <3>3 DEF Fifo!FifoNext
  <2>7. CASE ReadValue(t)
    <3>1. Contents # <<>> /\ val' = [val EXCEPT ![t] = Head(Contents)]
      BY <2>3, <2>4, <2>7, ReadValueFront
    <3>2. Contents' = Contents /\ (Destroyed' <=> Destroyed)
      BY <2>7, ListUntouched DEF ReadValue, list
    <3>3. Fifo!Look(t)
      BY <2>1, <3>1, <3>2 DEF Fifo!Look
    <3>4. QED
      BY <3>3 DEF Fifo!FifoNext
  <2>8. CASE DeleteDummy(t)
    <3>1. Contents' = Contents /\ ~Destroyed'
      BY <2>3, <2>4, <2>8, DeleteLinked, SameContents
    <3>2. Fifo!Forget(t)
      BY <2>1, <2>8, <3>1 DEF DeleteDummy, Return, Fifo!Forget
    <3>3. QED
      BY <3>2 DEF Fifo!FifoNext
  <2>9. CASE ReleaseProducer(t) \/ ReleaseConsumer(t)
    <3>1. Contents' = Contents /\ (Destroyed' <=> Destroyed)
      BY <2>9, ListUntouched DEF ReleaseProducer, ReleaseConsumer, list
    <3>2. Fifo!Forget(t)
      BY <2>1, <2>9, <3>1 DEF ReleaseProducer, ReleaseConsumer, Return, Fifo!Forget
    <3>3. QED
      BY <3>2 DEF Fifo!FifoNext
  <2>10. CASE CallPushBack(t) \/ CreateValue(t)
    <3>1. PICK v \in Values, x \in Nodes \ heap :
            /\ heap' = heap \cup {x} /\ value' = [value EXCEPT ![x] = v]
            /\ next' = [next EXCEPT ![x] = NoNode] /\ tmp' = [tmp EXCEPT ![t] = x]
      BY <2>10 DEF CallPushBack, CreateValue, NewNode
    <3>2. /\ UNCHANGED <<first, last, theFirst, theNext, val>>
          /\ pc[t] \in {"idle", "new_node"} /\ pc'[t] \in {"acquire_producer", "link_new"}
          /\ \A u \in Threads : u # t => pc'[u] = pc[u]
      BY <2>4, <2>10 DEF CallPushBack, CreateValue, Move, Goto, Typed
    <3>3. Contents' = Contents /\ ~Destroyed'
      BY <2>3, <2>4, <3>1, <3>2, NewLinked, SameContents
    <3>4. QED
      BY <2>1, <3>2, <3>3 DEF Fifo!fifoVars
  <2>11. CASE \/ AcquireProducer(t) \/ CallPopFront(t) \/ AcquireConsumer(t) \/ ReadNext(t)
              \/ ReleaseTaken(t) \/ TryProducer(t) \/ ReleaseProducerNew(t)
              \/ SwingLast(t, "swing_last", "release_producer")
              \/ SwingLast(t, "swing_last_new", "release_producer_new")
    <3>1. UNCHANGED <<first, value, next, val>>
      BY <2>11 DEF AcquireProducer, CallPopFront, AcquireConsumer, ReadNext, ReleaseTaken,
         TryProducer, ReleaseProducerNew, SwingLast, list, locals
    <3>2. QED
      BY <3>1, ListUntouched DEF Fifo!fifoVars
  <2>12. QED
    BY <1>3, <2>5, <2>6, <2>7, <2>8, <2>9, <2>10, <2>11 DEF PushBack, PopFront
<1>4. QED
  BY <1>1, <1>2, <1>3 DEF Next, Gone

(* To its users the list is a first-in first-out queue: no value is lost,  *)
(* duplicated or reordered, whatever producers and consumers do at once.   *)
THEOREM ListIsFifo == Spec => IsFifoQueue
BY ListAlways, InitFifo, StepFifo, PTL DEF Spec, IsFifoQueue, Fifo!FifoSpec
=============================================================================
