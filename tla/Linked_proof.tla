---------------------------- MODULE Linked_proof ----------------------------
(***************************************************************************)
(* Proofs about the two linked structures that threads change without a    *)
(* lock, for any number of threads, nodes and values: lf_slist puts nodes  *)
(* into the order in which the tail was exchanged and loses none, and      *)
(* lock_free_stack, its pop_front included, is a stack whose references    *)
(* keep what they lead to.                                                 *)
(***************************************************************************)
EXTENDS MCConcurrent, DataLemmas, FiniteSetTheorems

-----------------------------------------------------------------------------
(* Chains of nodes.  a[0], a[1], ... are the nodes that succ leads to from *)
(* x on, all different; from a[n] on, all are None.                        *)

IsChain(a, n, S, x, succ) ==
  /\ n \in Nat
  /\ a \in [Nat -> S \cup {None}]
  /\ a[0] = x
  /\ \A k \in Nat : k < n => a[k] \in S /\ a[k + 1] = succ[a[k]]
  /\ \A k \in Nat : ~ (k < n) => a[k] = None
  /\ \A i, j \in Nat : i < n /\ j < n /\ a[i] = a[j] => i = j

OnChain(a, n) == {a[k] : k \in {i \in Nat : i < n}}

(* A chain has as many nodes as it is long, and no more than there are.    *)
LEMMA ChainCount ==
  ASSUME NEW S, IsFiniteSet(S), None \notin S,
         NEW a, NEW n, NEW x, NEW succ, IsChain(a, n, S, x, succ)
  PROVE  /\ Cardinality(S) \in Nat /\ n <= Cardinality(S)
         /\ Cardinality(OnChain(a, n)) = n
         /\ OnChain(a, n) \subseteq S
<1> DEFINE C == OnChain(a, n)
           b == [i \in 1 .. n |-> a[i - 1]]
<1>1. /\ n \in Nat /\ \A k \in Nat : k < n => a[k] \in S
      /\ \A i, j \in Nat : i < n /\ j < n /\ a[i] = a[j] => i = j
  BY DEF IsChain
<1>2. \A i \in 1 .. n : b[i] = a[i - 1] /\ i - 1 \in Nat /\ i - 1 < n /\ (i - 1) + 1 = i
  BY <1>1
<1>3. \A k \in Nat : k < n => k + 1 \in 1 .. n /\ (k + 1) - 1 = k
  BY <1>1
<1>4. C \subseteq S /\ \A y \in C : \E k \in Nat : k < n /\ a[k] = y
  BY <1>1 DEF OnChain
<1>5. \A i \in 1 .. n : b[i] \in C
  BY <1>2 DEF OnChain
<1>6. DOMAIN b = 1 .. n /\ b = [i \in 1 .. n |-> b[i]]
  OBVIOUS
<1> HIDE DEF b, C
<1>7. b \in [1 .. n -> C]
  BY <1>5, <1>6
<1>8. \A i, j \in 1 .. n : b[i] = b[j] => i = j
  BY <1>1, <1>2
<1>9. \A y \in C : \E i \in 1 .. n : b[i] = y
  BY <1>2, <1>3, <1>4
<1>10. b \in Bijection(1 .. n, C)
  BY <1>7, <1>8, <1>9 DEF Bijection, Injection, Surjection, IsInjective
<1>11. Cardinality(C) = n
  BY <1>1, <1>10, FS_CountingElements DEF ExistsBijection
<1>12. IsFiniteSet(C) /\ Cardinality(C) <= Cardinality(S) /\ Cardinality(S) \in Nat
  BY <1>4, FS_Subset, FS_CardinalityType
<1>13. QED
  BY <1>4, <1>11, <1>12 DEF C

(* The first nodes that a walk along succ comes to, as both models do it.  *)
Follow(m, x, succ) ==
  LET nth[k \in 0 .. m] ==
        IF k = 0 THEN x ELSE IF nth[k-1] = None THEN None ELSE succ[nth[k-1]]
  IN  nth

(* They are the chain: no other function satisfies the equation of nth.    *)
LEMMA WalkFollows ==
  ASSUME NEW S, IsFiniteSet(S), None \notin S,
         NEW a, NEW n, NEW x, NEW succ, IsChain(a, n, S, x, succ), NEW m \in Nat
  PROVE  Follow(m, x, succ) = [k \in 0 .. m |-> a[k]]
<1> DEFINE F(f) == [k \in 0 .. m |->
                      IF k = 0 THEN x ELSE IF f[k-1] = None THEN None ELSE succ[f[k-1]]]
           w == [k \in 0 .. m |-> a[k]]
           nth == CHOOSE f : f = F(f)
<1>1. /\ n \in Nat /\ a[0] = x
      /\ \A k \in Nat : k < n => a[k] \in S /\ a[k + 1] = succ[a[k]]
      /\ \A k \in Nat : ~ (k < n) => a[k] = None
  BY DEF IsChain
<1>2. ASSUME NEW k \in Nat
      PROVE  a[k + 1] = IF a[k] = None THEN None ELSE succ[a[k]]
  <2>1. CASE k < n
    BY <1>1, <2>1
  <2>2. CASE ~ (k < n)
    <3>1. k + 1 \in Nat /\ ~ (k + 1 < n)
      BY <1>1, <2>2
    <3>2. QED
      BY <1>1, <2>2, <3>1
  <2>3. QED
    BY <2>1, <2>2
<1>3. \A k \in 0 .. m : k # 0 => k - 1 \in 0 .. m /\ k - 1 \in Nat /\ (k - 1) + 1 = k
  OBVIOUS
<1>4. w = F(w)
  <2> SUFFICES ASSUME NEW k \in 0 .. m
               PROVE  a[k] = IF k = 0 THEN x ELSE IF w[k-1] = None THEN None ELSE succ[w[k-1]]
    OBVIOUS
  <2>1. CASE k = 0
    BY <1>1, <2>1
  <2>2. CASE k # 0
    BY <1>2, <1>3, <2>2
  <2>3. QED
    BY <2>1, <2>2
<1>5. nth = F(nth)
  <2> HIDE DEF w, F
  <2>1. QED
    BY <1>4
<1>6. \A k \in 0 .. m : nth[k] = a[k]
  <2> HIDE DEF nth
  <2>a. \A k \in 0 .. m : nth[k] = IF k = 0 THEN x ELSE IF nth[k-1] = None THEN None ELSE succ[nth[k-1]]
    BY <1>5
  <2> DEFINE I == {k \in Nat : k <= m => nth[k] = a[k]}
  <2>1. 0 \in I
    BY <1>1, <2>a
  <2>2. ASSUME NEW k \in Nat, k \in I PROVE k + 1 \in I
    <3>1. k + 1 \in Nat /\ (k + 1) - 1 = k /\ k + 1 # 0
          /\ (k + 1 <= m => k <= m /\ k + 1 \in 0 .. m)
      OBVIOUS
    <3>2. QED
      BY <1>2, <2>a, <2>2, <3>1
  <2>3. \A k \in Nat : k \in I
    <3> HIDE DEF I
    <3>1. QED
      BY <2>1, <2>2, SetInduction
  <2>4. QED
    BY <2>3
<1>7. nth = w
  <2> HIDE DEF nth
  <2>1. QED
    BY <1>5, <1>6
<1>8. QED
  BY <1>7 DEF Follow

-----------------------------------------------------------------------------
(* The list: pushes in the order in which they exchanged the tail *)

ListTyped ==
  /\ tail \in ListNodes
  /\ listNext \in [ListNodes -> ListNodes \cup {None}]
  /\ heap \subseteq ListNodes
  /\ listPc \in [Threads -> {"idle", "exchange", "link"}]
  /\ newNode \in [Threads -> ListNodes \cup {None}]
  /\ expectedTail \in [Threads -> ListNodes \cup {None}]
  /\ \A t \in Threads : listPc[t] # "idle" =>
       newNode[t] \in ListNodes /\ expectedTail[t] \in ListNodes

(* No two threads are about to link to the same node: each has exchanged   *)
(* it, and the tail was this node only once.                               *)
LinkersApart ==
  \A t, u \in Threads :
    listPc[t] = "link" /\ listPc[u] = "link" /\ expectedTail[t] = expectedTail[u] => t = u

(* a is the order of the pushes: from the head to the tail over the links, *)
(* and over those that are about to be set.  The other nodes that are      *)
(* allocated wait for the exchange, one per thread.                        *)
InOrder(a, n) ==
  /\ IsChain(a, n, ListNodes, listHead, List!Successor)
  /\ n > 0 /\ a[n - 1] = tail
  /\ \A x \in ListNodes : x \notin OnChain(a, n) => List!Successor[x] = None
  /\ heap = OnChain(a, n) \cup {newNode[t] : t \in {u \in Threads : listPc[u] = "exchange"}}
  /\ \A t \in Threads : listPc[t] = "exchange" => newNode[t] \notin OnChain(a, n)
  /\ \A t, u \in Threads :
       listPc[t] = "exchange" /\ listPc[u] = "exchange" /\ newNode[t] = newNode[u] => t = u

HasOrder  == listHead # None => \E n \in Nat : \E a \in [Nat -> ListNodes \cup {None}] : InOrder(a, n)
AllGone   == listHead = None => heap = {} /\ \A t \in Threads : listPc[t] = "idle"

ListSound == ListTyped /\ LinkersApart /\ HasOrder /\ AllGone

(* What follows a node: what a thread is about to put there, or the link.  *)
SuccessorExact ==
  ListTyped /\ LinkersApart =>
    /\ List!Successor \in [ListNodes -> ListNodes \cup {None}]
    /\ \A t \in Threads : listPc[t] = "link" =>
         List!Successor[expectedTail[t]] = newNode[t]
    /\ \A x \in ListNodes :
         (\A t \in Threads : listPc[t] = "link" => expectedTail[t] # x) =>
            List!Successor[x] = listNext[x]

LEMMA SuccessorIs == SuccessorExact
<1> SUFFICES ASSUME ListTyped, LinkersApart
             PROVE  /\ List!Successor \in [ListNodes -> ListNodes \cup {None}]
                    /\ \A t \in Threads : listPc[t] = "link" =>
                         List!Successor[expectedTail[t]] = newNode[t]
                    /\ \A x \in ListNodes :
                         (\A t \in Threads : listPc[t] = "link" => expectedTail[t] # x) =>
                            List!Successor[x] = listNext[x]
  BY DEF SuccessorExact
<1>1. ASSUME NEW x \in ListNodes, NEW t \in Threads, listPc[t] = "link", expectedTail[t] = x
      PROVE  t = CHOOSE u \in Threads : List!Linking(u) /\ expectedTail[u] = x
  <2> DEFINE c == CHOOSE u \in Threads : List!Linking(u) /\ expectedTail[u] = x
  <2>1. List!Linking(t)
    BY <1>1 DEF List!Linking
  <2>2. c \in Threads /\ List!Linking(c) /\ expectedTail[c] = x
    BY <1>1, <2>1
  <2>3. listPc[c] = "link"
    BY <2>2 DEF List!Linking
  <2> HIDE DEF c
  <2>4. t = c
    BY <1>1, <2>2, <2>3 DEF LinkersApart
  <2>5. QED
    BY <2>4 DEF c
<1>2. ASSUME NEW t \in Threads, listPc[t] = "link"
      PROVE  List!Successor[expectedTail[t]] = newNode[t]
  <2>1. expectedTail[t] \in ListNodes
    BY <1>2 DEF ListTyped
  <2>2. List!Linking(t)
    BY <1>2 DEF List!Linking
  <2>3. t = CHOOSE u \in Threads : List!Linking(u) /\ expectedTail[u] = expectedTail[t]
    BY <1>1, <1>2, <2>1
  <2>4. QED
    BY <2>1, <2>2, <2>3 DEF List!Successor
<1>3. ASSUME NEW x \in ListNodes, \A t \in Threads : listPc[t] = "link" => expectedTail[t] # x
      PROVE  List!Successor[x] = listNext[x]
  BY <1>3 DEF List!Successor, List!Linking
<1>4. ASSUME NEW x \in ListNodes PROVE List!Successor[x] \in ListNodes \cup {None}
  <2>1. CASE \E t \in Threads : listPc[t] = "link" /\ expectedTail[t] = x
    BY <1>2, <2>1 DEF ListTyped
  <2>2. CASE \A t \in Threads : listPc[t] = "link" => expectedTail[t] # x
    BY <1>3, <2>2 DEF ListTyped
  <2>3. QED
    BY <2>1, <2>2
<1>5. List!Successor \in [ListNodes -> ListNodes \cup {None}]
  BY <1>4 DEF List!Successor
<1>6. QED
  BY <1>2, <1>3, <1>5

LEMMA SuccessorNext == SuccessorExact'
BY SuccessorIs, PTL

(* The walk of the model along succ is the chain.                          *)
WalkExact ==
  \A a, n, succ : IsChain(a, n, ListNodes, listHead, succ) =>
    /\ \A k \in Nat : k < n => List!Walk(succ)[k] = a[k]
    /\ List!Visited(succ) = OnChain(a, n)

LEMMA ListWalk == WalkExact
<1> SUFFICES ASSUME NEW a, NEW n, NEW succ, IsChain(a, n, ListNodes, listHead, succ)
             PROVE  /\ \A k \in Nat : k < n => List!Walk(succ)[k] = a[k]
                    /\ List!Visited(succ) = OnChain(a, n)
  BY DEF WalkExact
<1>1. \A S : List!Cardinality(S) = Cardinality(S)
  BY DEF List!Cardinality, Cardinality
<1>2. /\ Cardinality(ListNodes) \in Nat /\ n <= Cardinality(ListNodes)
      /\ OnChain(a, n) \subseteq ListNodes
  BY ChainCount, NodesAssumption
<1> DEFINE m == Cardinality(ListNodes)
<1>3. List!Walk(succ) = [k \in 0 .. m |-> a[k]]
  <2>1. Follow(m, listHead, succ) = [k \in 0 .. m |-> a[k]]
    BY <1>2, WalkFollows, NodesAssumption
  <2>2. List!Cardinality(ListNodes) = m
    BY <1>1
  <2> HIDE DEF m
  <2>3. QED
    BY <2>1, <2>2 DEF List!Walk, Follow
<1>4. /\ n \in Nat /\ \A k \in Nat : ~ (k < n) => a[k] = None
  BY DEF IsChain
<1> HIDE DEF m
<1>5. m \in Nat /\ n <= m
  BY <1>2 DEF m
<1>6. \A k \in Nat : k < n => k \in 0 .. m
  BY <1>4, <1>5
<1>7. \A k \in 0 .. m : List!Walk(succ)[k] = a[k]
  BY <1>3
<1>8. List!Visited(succ) = {a[k] : k \in 0 .. m} \ {None}
  BY <1>1, <1>7 DEF List!Visited, m
<1>9. {a[k] : k \in 0 .. m} \ {None} = OnChain(a, n)
  <2>1. None \notin OnChain(a, n)
    BY <1>2, NodesAssumption
  <2>2. \A k \in 0 .. m : k \in Nat /\ (k < n \/ a[k] = None)
    BY <1>4
  <2>3. QED
    BY <1>6, <2>1, <2>2 DEF OnChain
<1>10. QED
  BY <1>6, <1>7, <1>8, <1>9

LEMMA ListWalkNext == WalkExact'
BY ListWalk, PTL

LEMMA InitList == List!Init => ListSound
<1> SUFFICES ASSUME List!Init PROVE ListSound
  OBVIOUS
<1>1. PICK d \in ListNodes : listHead = d /\ tail = d /\ heap = {d}
  BY DEF List!Init
<1>2. /\ listNext = [x \in ListNodes |-> None]
      /\ listPc = [t \in Threads |-> "idle"]
      /\ newNode = [t \in Threads |-> None] /\ expectedTail = [t \in Threads |-> None]
  BY DEF List!Init
<1>3. ListTyped /\ LinkersApart /\ AllGone
  BY <1>1, <1>2, NodesAssumption DEF ListTyped, LinkersApart, AllGone
<1> DEFINE a == [k \in Nat |-> IF k = 0 THEN d ELSE None]
<1>4. /\ a \in [Nat -> ListNodes \cup {None}] /\ a[0] = d
      /\ \A k \in Nat : k # 0 => a[k] = None
      /\ \A k \in Nat : k < 1 <=> k = 0
  OBVIOUS
<1>5. \A x \in ListNodes : List!Successor[x] = None
  BY <1>2, <1>3, SuccessorIs DEF SuccessorExact
<1> HIDE DEF a
<1>6. a[0 + 1] = None
  BY <1>4
<1>7. IsChain(a, 1, ListNodes, listHead, List!Successor)
  BY <1>1, <1>4, <1>5, <1>6 DEF IsChain
<1>8. OnChain(a, 1) = {d}
  BY <1>4 DEF OnChain
<1>9. InOrder(a, 1)
  BY <1>1, <1>2, <1>4, <1>5, <1>7, <1>8 DEF InOrder
<1>10. QED
  BY <1>3, <1>4, <1>9 DEF ListSound, HasOrder

(* Steps that leave the links alone, and the threads about to set one.     *)
LEMMA SameSuccessor ==
  ASSUME ListTyped, LinkersApart, ListTyped', LinkersApart', listNext' = listNext,
         \A u \in Threads :
           \/ listPc'[u] = listPc[u] /\ newNode'[u] = newNode[u]
              /\ expectedTail'[u] = expectedTail[u]
           \/ listPc[u] # "link" /\ listPc'[u] # "link"
  PROVE  List!Successor' = List!Successor
<1>1. ASSUME NEW y \in ListNodes PROVE List!Successor'[y] = List!Successor[y]
  <2>1. CASE \E u \in Threads : listPc[u] = "link" /\ expectedTail[u] = y
    <3>1. PICK u \in Threads : listPc[u] = "link" /\ expectedTail[u] = y
      BY <2>1
    <3>2. listPc'[u] = "link" /\ expectedTail'[u] = y /\ newNode'[u] = newNode[u]
      BY <3>1
    <3>3. List!Successor[y] = newNode[u]
      BY <3>1, SuccessorIs DEF SuccessorExact
    <3>4. List!Successor'[y] = newNode'[u]
      BY <3>2, SuccessorNext DEF SuccessorExact
    <3>5. QED
      BY <3>2, <3>3, <3>4
  <2>2. CASE \A u \in Threads : listPc[u] = "link" => expectedTail[u] # y
    <3>1. \A u \in Threads : listPc'[u] = "link" => expectedTail'[u] # y
      BY <2>2
    <3>2. QED
      BY <2>2, <3>1, SuccessorIs, SuccessorNext DEF SuccessorExact
  <2>3. QED
    BY <2>1, <2>2
<1>2. /\ List!Successor' \in [ListNodes -> ListNodes \cup {None}]
      /\ List!Successor \in [ListNodes -> ListNodes \cup {None}]
  BY SuccessorIs, SuccessorNext DEF SuccessorExact
<1>3. QED
  BY <1>1, <1>2

(* new Node(s, nullptr) and tail.load()                                    *)
LEMMA CallPushList ==
  ASSUME ListTyped, LinkersApart, NEW a, NEW n, InOrder(a, n), NEW t \in Threads,
         List!CallPush(t)
  PROVE  ListTyped' /\ LinkersApart' /\ InOrder(a, n)' /\ listHead' # None
<1>1. PICK x \in ListNodes \ heap :
        heap' = heap \cup {x} /\ newNode' = [newNode EXCEPT ![t] = x]
  BY DEF List!CallPush
<1>2. /\ listPc[t] = "idle" /\ listPc' = [listPc EXCEPT ![t] = "exchange"]
      /\ expectedTail' = [expectedTail EXCEPT ![t] = tail]
      /\ listHead # None
      /\ listHead' = listHead /\ tail' = tail /\ listNext' = listNext
  BY DEF List!CallPush, List!Move, List!Goto, List!Destroyed
<1>3. ListTyped'
  BY <1>1, <1>2 DEF ListTyped
<1>a. /\ listPc \in [Threads -> {"idle", "exchange", "link"}]
      /\ newNode \in [Threads -> ListNodes \cup {None}]
      /\ expectedTail \in [Threads -> ListNodes \cup {None}]
  BY DEF ListTyped
<1>4. /\ listPc'[t] = "exchange" /\ newNode'[t] = x
      /\ \A u \in Threads : u # t => /\ listPc'[u] = listPc[u] /\ newNode'[u] = newNode[u]
                                     /\ expectedTail'[u] = expectedTail[u]
  BY <1>1, <1>2, <1>a
<1>5. LinkersApart'
  BY <1>4 DEF LinkersApart
<1>6. List!Successor' = List!Successor
  <2>1. \A u \in Threads :
          \/ listPc'[u] = listPc[u] /\ newNode'[u] = newNode[u]
             /\ expectedTail'[u] = expectedTail[u]
          \/ listPc[u] # "link" /\ listPc'[u] # "link"
    BY <1>2, <1>4
  <2>2. QED
    BY <1>2, <1>3, <1>5, <2>1, SameSuccessor
<1>7. x \notin OnChain(a, n) /\ \A u \in Threads : listPc[u] = "exchange" => newNode[u] # x
  BY <1>1 DEF InOrder
<1>8. {newNode'[u] : u \in {w \in Threads : listPc'[w] = "exchange"}}
        = {newNode[u] : u \in {w \in Threads : listPc[w] = "exchange"}} \cup {x}
  BY <1>2, <1>4
<1>9. InOrder(a, n)'
  BY <1>1, <1>2, <1>4, <1>6, <1>7, <1>8 DEF InOrder
<1>10. QED
  BY <1>2, <1>3, <1>5, <1>9

(* A thread waits with its node until the exchange succeeds.               *)
LEMMA ExchangeFailsList ==
  ASSUME ListTyped, LinkersApart, NEW a, NEW n, InOrder(a, n), NEW t \in Threads,
         List!ExchangeFails(t)
  PROVE  ListTyped' /\ LinkersApart' /\ InOrder(a, n)' /\ listHead' = listHead
<1>1. /\ listPc[t] = "exchange" /\ expectedTail' = [expectedTail EXCEPT ![t] = tail]
      /\ listHead' = listHead /\ tail' = tail /\ listNext' = listNext
      /\ heap' = heap /\ listPc' = listPc /\ newNode' = newNode
  BY DEF List!ExchangeFails
<1>2. ListTyped'
  BY <1>1 DEF ListTyped
<1>3. \A u \in Threads : u # t => expectedTail'[u] = expectedTail[u]
  BY <1>1 DEF ListTyped
<1>4. LinkersApart'
  BY <1>1, <1>3 DEF LinkersApart
<1>5. List!Successor' = List!Successor
  <2>1. \A u \in Threads :
          \/ listPc'[u] = listPc[u] /\ newNode'[u] = newNode[u]
             /\ expectedTail'[u] = expectedTail[u]
          \/ listPc[u] # "link" /\ listPc'[u] # "link"
    BY <1>1, <1>3
  <2>2. QED
    BY <1>1, <1>2, <1>4, <2>1, SameSuccessor
<1>6. InOrder(a, n)'
  BY <1>1, <1>5 DEF InOrder
<1>7. QED
  BY <1>1, <1>2, <1>4, <1>6

(* tail.compare_exchange succeeds: the node is the last one from now on.   *)
LEMMA ExchangeList ==
  ASSUME ListTyped, LinkersApart, NEW a, NEW n, InOrder(a, n), NEW t \in Threads,
         List!Exchange(t), NEW x, x = newNode[t]
  PROVE  /\ ListTyped' /\ LinkersApart' /\ x \in ListNodes
         /\ InOrder([a EXCEPT ![n] = x], n + 1)' /\ listHead' = listHead
<1>1. /\ listPc[t] = "exchange" /\ listPc' = [listPc EXCEPT ![t] = "link"]
      /\ tail = expectedTail[t] /\ tail' = x
      /\ listHead' = listHead /\ listNext' = listNext /\ heap' = heap
      /\ newNode' = newNode /\ expectedTail' = expectedTail
  BY DEF List!Exchange, List!Move, List!Goto, List!locals
<1>2. ListTyped'
  BY <1>1 DEF ListTyped
<1>3. x \in ListNodes /\ x \notin OnChain(a, n) /\ List!Successor[x] = None
  BY <1>1 DEF ListTyped, InOrder
<1>4. /\ n \in Nat /\ n > 0 /\ a \in [Nat -> ListNodes \cup {None}] /\ a[0] = listHead
      /\ a[n - 1] = tail
      /\ \A k \in Nat : k < n => a[k] \in ListNodes /\ a[k + 1] = List!Successor[a[k]]
      /\ \A k \in Nat : ~ (k < n) => a[k] = None
      /\ \A i, j \in Nat : i < n /\ j < n /\ a[i] = a[j] => i = j
  BY DEF InOrder, IsChain
<1>5. n - 1 \in Nat /\ n - 1 < n /\ (n - 1) + 1 = n
  BY <1>4
<1>6. List!Successor[tail] = None /\ tail \in OnChain(a, n) /\ tail # x
  BY <1>3, <1>4, <1>5 DEF OnChain
<1>7. \A u \in Threads : listPc[u] = "link" => expectedTail[u] # tail
  BY <1>6, SuccessorIs, NodesAssumption DEF SuccessorExact, ListTyped
<1>8. \A u \in Threads : u # t => listPc'[u] = listPc[u]
  BY <1>1 DEF ListTyped
<1>9. listPc'[t] = "link"
  BY <1>1 DEF ListTyped
<1>10. LinkersApart'
  BY <1>1, <1>7, <1>8 DEF LinkersApart
<1>11. List!Successor' = [List!Successor EXCEPT ![tail] = x]
  <2>1. List!Successor'[tail] = x
    BY <1>1, <1>2, <1>9, <1>10, SuccessorNext DEF SuccessorExact
  <2>2. ASSUME NEW y \in ListNodes, y # tail PROVE List!Successor'[y] = List!Successor[y]
    <3>1. CASE \E u \in Threads : listPc[u] = "link" /\ expectedTail[u] = y
      <4>1. PICK u \in Threads : listPc[u] = "link" /\ expectedTail[u] = y
        BY <3>1
      <4>2. listPc'[u] = "link" /\ expectedTail'[u] = y
        BY <1>1, <1>8, <1>9, <4>1
      <4>3. QED
        BY <1>1, <1>2, <1>10, <4>1, <4>2, SuccessorIs, SuccessorNext DEF SuccessorExact
    <3>2. CASE \A u \in Threads : listPc[u] = "link" => expectedTail[u] # y
      <4>1. \A u \in Threads : listPc'[u] = "link" => expectedTail'[u] # y
        BY <1>1, <1>8, <2>2, <3>2
      <4>2. QED
        BY <1>1, <1>2, <1>10, <3>2, <4>1, SuccessorIs, SuccessorNext DEF SuccessorExact
    <3>3. QED
      BY <3>1, <3>2
  <2>3. /\ List!Successor' \in [ListNodes -> ListNodes \cup {None}]
        /\ List!Successor \in [ListNodes -> ListNodes \cup {None}]
    BY <1>2, <1>10, SuccessorIs, SuccessorNext DEF SuccessorExact
  <2>4. QED
    BY <2>1, <2>2, <2>3
<1> DEFINE b == [a EXCEPT ![n] = x]
<1>12. /\ b \in [Nat -> ListNodes \cup {None}] /\ b[n] = x
       /\ \A k \in Nat : k # n => b[k] = a[k]
  BY <1>3, <1>4
<1> HIDE DEF b
<1>13. OnChain(b, n + 1) = OnChain(a, n) \cup {x}
  <2>1. \A k \in Nat : k < n + 1 <=> k < n \/ k = n
    BY <1>4
  <2>2. \A k \in Nat : k < n => k # n
    BY <1>4
  <2>3. QED
    BY <1>4, <1>12, <2>1, <2>2 DEF OnChain
<1>14. IsChain(b, n + 1, ListNodes, listHead, List!Successor')
  <2>1. n + 1 \in Nat /\ b[0] = listHead
    BY <1>4, <1>12
  <2>2. ASSUME NEW k \in Nat, k < n + 1 PROVE b[k] \in ListNodes /\ b[k + 1] = List!Successor'[b[k]]
    <3>a. List!Successor \in [ListNodes -> ListNodes \cup {None}]
      BY SuccessorIs DEF SuccessorExact
    <3>1. CASE k = n
      <4>1. b[k] = x /\ k + 1 # n /\ k + 1 \in Nat /\ ~ (k + 1 < n)
        BY <1>4, <1>12, <3>1
      <4>2. b[k + 1] = None /\ List!Successor'[x] = None
        BY <3>a, <1>3, <1>4, <1>6, <1>11, <1>12, <4>1
      <4>3. QED
        BY <1>3, <4>1, <4>2
    <3>2. CASE k = n - 1
      <4>1. k + 1 = n /\ k # n /\ k < n
        BY <1>4, <3>2
      <4>2. b[k] = tail /\ b[k + 1] = x /\ tail \in ListNodes
        BY <1>4, <1>12, <3>2, <4>1
      <4>3. QED
        BY <3>a, <1>11, <4>2
    <3>3. CASE k # n /\ k # n - 1
      <4>1. k < n /\ k + 1 # n /\ k + 1 \in Nat
        BY <1>4, <2>2, <3>3
      <4>2. b[k] = a[k] /\ b[k + 1] = a[k + 1] /\ a[k] \in ListNodes /\ a[k] # tail
        BY <1>4, <1>5, <1>12, <3>3, <4>1
      <4>3. QED
        BY <3>a, <1>4, <1>11, <4>1, <4>2
    <3>4. QED
      BY <3>1, <3>2, <3>3
  <2>3. \A k \in Nat : ~ (k < n + 1) => b[k] = None
    BY <1>4, <1>12
  <2>4. \A i, j \in Nat : i < n + 1 /\ j < n + 1 /\ b[i] = b[j] => i = j
    <3>1. \A k \in Nat : k < n => b[k] = a[k] /\ b[k] # x
      BY <1>3, <1>4, <1>12 DEF OnChain
    <3>2. \A k \in Nat : k < n + 1 => k < n \/ k = n
      BY <1>4
    <3>3. QED
      BY <1>4, <1>12, <3>1, <3>2
  <2>5. QED
    BY <1>12, <2>1, <2>2, <2>3, <2>4 DEF IsChain
<1>15. /\ \A u \in Threads : listPc'[u] = "exchange" <=> listPc[u] = "exchange" /\ u # t
       /\ \A u \in Threads : listPc'[u] = "exchange" => newNode[u] # x
  BY <1>1, <1>8, <1>9 DEF InOrder
<1>16. heap = OnChain(b, n + 1) \cup {newNode[u] : u \in {w \in Threads : listPc'[w] = "exchange"}}
  BY <1>1, <1>13, <1>15 DEF InOrder
<1>17. \A y \in ListNodes : y \notin OnChain(b, n + 1) => List!Successor'[y] = None
  <2>1. List!Successor \in [ListNodes -> ListNodes \cup {None}]
    BY SuccessorIs DEF SuccessorExact
  <2>2. QED
    BY <2>1, <1>6, <1>11, <1>13 DEF InOrder
<1>18. n + 1 > 0 /\ b[(n + 1) - 1] = tail'
  BY <1>1, <1>4, <1>12
<1>19. InOrder(b, n + 1)'
  BY <1>1, <1>13, <1>14, <1>15, <1>16, <1>17, <1>18 DEF InOrder
<1>20. QED
  BY <1>1, <1>2, <1>3, <1>10, <1>19 DEF b

(* expected_tail->next = new_node sets the link that was spoken for.       *)
LEMMA LinkList ==
  ASSUME ListTyped, LinkersApart, NEW a, NEW n, InOrder(a, n), NEW t \in Threads,
         List!Link(t)
  PROVE  ListTyped' /\ LinkersApart' /\ InOrder(a, n)' /\ listHead' = listHead
<1>1. /\ listPc[t] = "link" /\ listPc' = [listPc EXCEPT ![t] = "idle"]
      /\ listNext' = [listNext EXCEPT ![expectedTail[t]] = newNode[t]]
      /\ newNode' = [newNode EXCEPT ![t] = None]
      /\ expectedTail' = [expectedTail EXCEPT ![t] = None]
      /\ listHead' = listHead /\ tail' = tail /\ heap' = heap
  BY DEF List!Link, List!Return, List!Move, List!Goto
<1>2. PICK y \in ListNodes, x \in ListNodes : expectedTail[t] = y /\ newNode[t] = x
  BY <1>1 DEF ListTyped
<1>a. /\ listPc \in [Threads -> {"idle", "exchange", "link"}]
      /\ newNode \in [Threads -> ListNodes \cup {None}]
      /\ expectedTail \in [Threads -> ListNodes \cup {None}]
      /\ listNext \in [ListNodes -> ListNodes \cup {None}]
  BY DEF ListTyped
<1>3. /\ listPc'[t] = "idle"
      /\ \A u \in Threads : u # t => /\ listPc'[u] = listPc[u] /\ newNode'[u] = newNode[u]
                                     /\ expectedTail'[u] = expectedTail[u]
      /\ listNext'[y] = x /\ \A z \in ListNodes : z # y => listNext'[z] = listNext[z]
  BY <1>1, <1>2, <1>a
<1>4. ListTyped'
  BY <1>1, <1>2, <1>3, <1>a DEF ListTyped
<1>5. LinkersApart'
  BY <1>1, <1>3 DEF LinkersApart
<1>6. ASSUME NEW z \in ListNodes PROVE List!Successor'[z] = List!Successor[z]
  <2>1. CASE z = y
    <3>1. List!Successor[y] = x
      BY <1>1, <1>2, SuccessorIs DEF SuccessorExact
    <3>2. \A u \in Threads : listPc'[u] = "link" => expectedTail'[u] # y
      BY <1>1, <1>2, <1>3 DEF LinkersApart
    <3>3. List!Successor'[y] = listNext'[y]
      BY <1>4, <1>5, <3>2, SuccessorNext DEF SuccessorExact
    <3>4. QED
      BY <1>3, <2>1, <3>1, <3>3
  <2>2. CASE \E u \in Threads : u # t /\ listPc[u] = "link" /\ expectedTail[u] = z
    <3>1. PICK u \in Threads : u # t /\ listPc[u] = "link" /\ expectedTail[u] = z
      BY <2>2
    <3>2. listPc'[u] = "link" /\ expectedTail'[u] = z /\ newNode'[u] = newNode[u]
      BY <1>3, <3>1
    <3>3. List!Successor[z] = newNode[u]
      BY <3>1, SuccessorIs DEF SuccessorExact
    <3>4. List!Successor'[z] = newNode'[u]
      BY <1>4, <1>5, <3>2, SuccessorNext DEF SuccessorExact
    <3>5. QED
      BY <3>2, <3>3, <3>4
  <2>3. CASE z # y /\ \A u \in Threads : u # t /\ listPc[u] = "link" => expectedTail[u] # z
    <3>1. \A u \in Threads : listPc[u] = "link" => expectedTail[u] # z
      BY <1>2, <2>3
    <3>2. \A u \in Threads : listPc'[u] = "link" => expectedTail'[u] # z
      BY <1>3, <2>3
    <3>3. List!Successor[z] = listNext[z]
      BY <3>1, SuccessorIs DEF SuccessorExact
    <3>4. List!Successor'[z] = listNext'[z]
      BY <1>4, <1>5, <3>2, SuccessorNext DEF SuccessorExact
    <3>5. QED
      BY <1>3, <2>3, <3>3, <3>4
  <2>4. QED
    BY <2>1, <2>2, <2>3
<1>7. List!Successor' = List!Successor
  <2>1. /\ List!Successor' \in [ListNodes -> ListNodes \cup {None}]
        /\ List!Successor \in [ListNodes -> ListNodes \cup {None}]
    BY <1>4, <1>5, SuccessorIs, SuccessorNext DEF SuccessorExact
  <2>2. QED
    BY <1>6, <2>1
<1>8. \A u \in Threads : /\ listPc'[u] = "exchange" <=> listPc[u] = "exchange"
                         /\ listPc[u] = "exchange" => newNode'[u] = newNode[u]
  BY <1>1, <1>3
<1>9. {newNode'[u] : u \in {w \in Threads : listPc'[w] = "exchange"}}
        = {newNode[u] : u \in {w \in Threads : listPc[w] = "exchange"}}
  BY <1>8
<1>10. InOrder(a, n)'
  BY <1>1, <1>7, <1>8, <1>9 DEF InOrder
<1>11. QED
  BY <1>1, <1>4, <1>5, <1>10

(* The destructor runs when nobody is inside a call: all links are set.    *)
LEMMA DestroyList ==
  ASSUME ListTyped, LinkersApart, NEW a, NEW n, InOrder(a, n), List!Destroy
  PROVE  ListTyped' /\ LinkersApart' /\ AllGone' /\ listHead' = None
<1>1. /\ \A t \in Threads : listPc[t] = "idle"
      /\ heap' = heap \ List!Visited(listNext) /\ listHead' = None
      /\ tail' = tail /\ listNext' = listNext /\ listPc' = listPc
      /\ newNode' = newNode /\ expectedTail' = expectedTail
  BY DEF List!Destroy, List!locals
<1>2. ListTyped' /\ LinkersApart'
  BY <1>1 DEF ListTyped, LinkersApart
<1>3. \A x \in ListNodes : List!Successor[x] = listNext[x]
  BY <1>1, SuccessorIs DEF SuccessorExact
<1>4. IsChain(a, n, ListNodes, listHead, listNext)
  BY <1>3 DEF InOrder, IsChain
<1>5. List!Visited(listNext) = OnChain(a, n)
  BY <1>4, ListWalk DEF WalkExact
<1>6. heap = OnChain(a, n)
  BY <1>1 DEF InOrder
<1>7. QED
  BY <1>1, <1>2, <1>5, <1>6 DEF AllGone

(* What a step does to the order: nothing, but for an exchange of the tail.*)
LEMMA StepList ==
  ASSUME ListSound, List!Next \/ UNCHANGED listVars
  PROVE  /\ ListSound'
         /\ listHead' # None =>
              \E n \in Nat, a \in [Nat -> ListNodes \cup {None}] :
                /\ InOrder(a, n)
                /\ \/ InOrder(a, n)'
                   \/ \E x \in ListNodes : InOrder([a EXCEPT ![n] = x], n + 1)'
<1>1. ListTyped /\ LinkersApart /\ HasOrder /\ AllGone
  BY DEF ListSound
<1>2. CASE UNCHANGED listVars
  <2>1. /\ listHead' = listHead /\ tail' = tail /\ listNext' = listNext /\ heap' = heap
        /\ listPc' = listPc /\ newNode' = newNode /\ expectedTail' = expectedTail
    BY <1>2 DEF listVars
  <2>2. List!Successor' = List!Successor
    BY <2>1 DEF List!Successor, List!Linking
  <2>3. ListTyped' /\ LinkersApart' /\ AllGone'
    BY <1>1, <2>1 DEF ListTyped, LinkersApart, AllGone
  <2>4. \A a, n : InOrder(a, n) => InOrder(a, n)'
    BY <2>1, <2>2 DEF InOrder
  <2>5. QED
    BY <1>1, <2>1, <2>3, <2>4 DEF ListSound, HasOrder
<1>3. CASE listHead = None
  <2>1. UNCHANGED listVars
    <3>1. \A t \in Threads : listPc[t] = "idle"
      BY <1>1, <1>3 DEF AllGone
    <3>2. ~ List!Destroy /\ \A t \in Threads : ~ List!CallPush(t)
      BY <1>3 DEF List!Destroy, List!CallPush, List!Destroyed
    <3>3. \A t \in Threads : ~ List!Step(t)
      BY <3>1 DEF List!Step, List!Exchange, List!ExchangeFails, List!Link, List!Return, List!Move
    <3>4. List!Gone \/ UNCHANGED listVars
      BY <3>2, <3>3 DEF List!Next
    <3>5. QED
      BY <3>4 DEF List!Gone, List!vars, List!locals, listVars
  <2>2. QED
    BY <1>2, <2>1
<1>4. CASE listHead # None /\ List!Next
  <2>1. PICK n \in Nat : \E a \in [Nat -> ListNodes \cup {None}] : InOrder(a, n)
    BY <1>1, <1>4 DEF HasOrder
  <2>2. PICK a \in [Nat -> ListNodes \cup {None}] : InOrder(a, n)
    BY <2>1
  <2> SUFFICES \/ ListTyped' /\ LinkersApart' /\ InOrder(a, n)' /\ listHead' # None
               \/ /\ ListTyped' /\ LinkersApart' /\ listHead' # None
                  /\ \E x \in ListNodes : InOrder([a EXCEPT ![n] = x], n + 1)'
               \/ ListTyped' /\ LinkersApart' /\ AllGone' /\ listHead' = None
    <3>1. n + 1 \in Nat /\ \A x \in ListNodes : [a EXCEPT ![n] = x] \in [Nat -> ListNodes \cup {None}]
      OBVIOUS
    <3>2. QED
      BY <2>2, <3>1 DEF ListSound, HasOrder, AllGone
  <2>3. CASE \E t \in Threads : List!CallPush(t)
    BY <1>1, <2>2, <2>3, CallPushList
  <2>4. CASE \E t \in Threads : List!Exchange(t)
    BY <1>1, <1>4, <2>2, <2>4, ExchangeList
  <2>5. CASE \E t \in Threads : List!ExchangeFails(t)
    BY <1>1, <1>4, <2>2, <2>5, ExchangeFailsList
  <2>6. CASE \E t \in Threads : List!Link(t)
    BY <1>1, <1>4, <2>2, <2>6, LinkList
  <2>7. CASE List!Destroy
    BY <1>1, <2>2, <2>7, DestroyList
  <2>8. ~ List!Gone
    BY <1>4 DEF List!Gone, List!Destroyed
  <2>9. QED
    BY <1>4, <2>3, <2>4, <2>5, <2>6, <2>7, <2>8 DEF List!Next, List!Step
<1>5. QED
  BY <1>2, <1>3, <1>4

(* What the model calls Order.                                             *)
OrderExact ==
  \A a, n : InOrder(a, n) => List!Order = [k \in 1 .. n |-> a[k-1]]

LEMMA OrderIs == OrderExact
<1> SUFFICES ASSUME NEW a, NEW n, InOrder(a, n)
             PROVE  List!Order = [k \in 1 .. n |-> a[k-1]]
  BY DEF OrderExact
<1>1. IsChain(a, n, ListNodes, listHead, List!Successor) /\ n \in Nat
  BY DEF InOrder, IsChain
<1>2. Cardinality(OnChain(a, n)) = n
  BY <1>1, ChainCount, NodesAssumption
<1>3. /\ List!Visited(List!Successor) = OnChain(a, n)
      /\ \A k \in Nat : k < n => List!Walk(List!Successor)[k] = a[k]
  BY <1>1, ListWalk DEF WalkExact
<1>4. List!Cardinality(List!Visited(List!Successor)) = n
  BY <1>2, <1>3 DEF List!Cardinality, Cardinality
<1>5. \A k \in 1 .. n : k - 1 \in Nat /\ k - 1 < n
  BY <1>1
<1>6. QED
  BY <1>3, <1>4, <1>5 DEF List!Order

LEMMA OrderNext == OrderExact'
BY OrderIs, PTL

(* Nodes enter the order at its end, and nothing else happens to it.       *)
LEMMA ListAppends ==
  ASSUME ListSound, List!Next \/ UNCHANGED listVars, listHead' # None
  PROVE  List!Order' = List!Order \/ \E x \in ListNodes : List!Order' = Append(List!Order, x)
<1>1. PICK n \in Nat, a \in [Nat -> ListNodes \cup {None}] :
        /\ InOrder(a, n)
        /\ \/ InOrder(a, n)'
           \/ \E x \in ListNodes : InOrder([a EXCEPT ![n] = x], n + 1)'
  BY StepList
<1>2. List!Order = [k \in 1 .. n |-> a[k-1]]
  BY <1>1, OrderIs DEF OrderExact
<1>3. CASE InOrder(a, n)'
  BY <1>2, <1>3, OrderNext DEF OrderExact
<1>4. CASE \E x \in ListNodes : InOrder([a EXCEPT ![n] = x], n + 1)'
  <2>1. PICK x \in ListNodes : InOrder([a EXCEPT ![n] = x], n + 1)'
    BY <1>4
  <2> DEFINE b == [a EXCEPT ![n] = x]
  <2>2. b[n] = x /\ \A k \in Nat : k # n => b[k] = a[k]
    OBVIOUS
  <2> HIDE DEF b
  <2>3. List!Order' = [k \in 1 .. n + 1 |-> b[k-1]]
    BY <2>1, OrderNext DEF OrderExact, b
  <2>4. /\ (n + 1) - 1 = n /\ n + 1 \in 1 .. n + 1
        /\ \A k \in 1 .. n : k - 1 \in Nat /\ k - 1 # n /\ k \in 1 .. n + 1
        /\ \A k \in 1 .. n + 1 : k = n + 1 \/ k \in 1 .. n
    OBVIOUS
  <2>5. /\ List!Order \in [1 .. n -> ListNodes \cup {None}]
        /\ List!Order' \in [1 .. n + 1 -> ListNodes \cup {None}]
        /\ \A k \in 1 .. n : List!Order'[k] = List!Order[k]
        /\ List!Order'[n + 1] = x
    BY <1>2, <2>2, <2>3, <2>4
  <2>6. List!Order' = Append(List!Order, x)
    BY <2>5, AppendFunction
  <2>7. QED
    BY <2>6
<1>5. QED
  BY <1>1, <1>3, <1>4

(* Every node is in the order or waits for the exchange, and a link is     *)
(* missing only where a thread is about to set it.                         *)
LEMMA ListAnswers == ListSound => List!NoNodeLost /\ List!AllFreed
<1> SUFFICES ASSUME ListSound PROVE List!NoNodeLost /\ List!AllFreed
  OBVIOUS
<1>1. ListTyped /\ LinkersApart /\ HasOrder /\ AllGone
  BY DEF ListSound
<1>2. List!AllFreed
  BY <1>1 DEF AllGone, List!AllFreed, List!Destroyed
<1>3. ASSUME listHead # None, NEW n, NEW a, InOrder(a, n)
      PROVE  /\ heap = List!Visited(List!Successor)
                         \cup {newNode[t] : t \in {u \in Threads : listPc[u] = "exchange"}}
             /\ \A x \in heap \ {tail} : listNext[x] = None =>
                  \E t \in Threads : \/ newNode[t] = x
                                     \/ List!Linking(t) /\ expectedTail[t] = x
  <2>1. IsChain(a, n, ListNodes, listHead, List!Successor)
    BY <1>3 DEF InOrder
  <2>2. List!Visited(List!Successor) = OnChain(a, n)
    BY <2>1, ListWalk DEF WalkExact
  <2>3. ASSUME NEW x \in OnChain(a, n), x # tail, listNext[x] = None
        PROVE  \E t \in Threads : List!Linking(t) /\ expectedTail[t] = x
    <3>1. PICK k \in Nat : k < n /\ x = a[k]
      BY DEF OnChain
    <3>2. k + 1 \in Nat /\ (k + 1 < n \/ k = n - 1)
      BY <2>1, <3>1 DEF IsChain
    <3>3. k + 1 < n
      BY <1>3, <2>3, <3>1, <3>2 DEF InOrder
    <3>4. x \in ListNodes /\ List!Successor[x] \in ListNodes
      BY <2>1, <3>1, <3>2, <3>3 DEF IsChain
    <3>5. \E t \in Threads : listPc[t] = "link" /\ expectedTail[t] = x
      BY <1>1, <2>3, <3>4, NodesAssumption, SuccessorIs DEF SuccessorExact
    <3>6. QED
      BY <3>5 DEF List!Linking
  <2>4. QED
    BY <1>3, <2>2, <2>3 DEF InOrder
<1>4. List!NoNodeLost
  BY <1>1, <1>3 DEF HasOrder, List!NoNodeLost, List!Destroyed
<1>5. QED
  BY <1>2, <1>4

-----------------------------------------------------------------------------
(* What a reference to a node of the stack leads to *)

Chained(x, succ) == \E n \in Nat : \E a \in [Nat -> Nodes \cup {None}] : IsChain(a, n, Nodes, x, succ)

Reach(x, succ) ==
  {y \in Nodes : \E n \in Nat : \E a \in [Nat -> Nodes \cup {None}] :
                   IsChain(a, n, Nodes, x, succ) /\ y \in OnChain(a, n)}

(* There is one chain from a node, so that all of it is reached.           *)
LEMMA ReachIs ==
  ASSUME NEW a, NEW n, NEW x, NEW succ, IsChain(a, n, Nodes, x, succ)
  PROVE  /\ Chained(x, succ)
         /\ Reach(x, succ) = OnChain(a, n)
<1>1. n \in Nat /\ a \in [Nat -> Nodes \cup {None}] /\ OnChain(a, n) \subseteq Nodes
  BY ChainCount, NodesAssumption DEF IsChain
<1>2. ASSUME NEW m, NEW b, IsChain(b, m, Nodes, x, succ)
      PROVE  OnChain(b, m) = OnChain(a, n)
  <2>1. ASSUME NEW k \in Nat PROVE a[k] = b[k]
    <3>1. Follow(k, x, succ) = [i \in 0 .. k |-> a[i]] /\ Follow(k, x, succ) = [i \in 0 .. k |-> b[i]]
      BY <1>2, WalkFollows, NodesAssumption
    <3>2. k \in 0 .. k
      OBVIOUS
    <3>3. [i \in 0 .. k |-> a[i]][k] = [i \in 0 .. k |-> b[i]][k]
      BY <3>1
    <3>4. QED
      BY <3>2, <3>3
  <2>2. \A k \in Nat : (k < n <=> a[k] # None) /\ (k < m <=> b[k] # None)
    BY <1>2, NodesAssumption DEF IsChain
  <2>3. QED
    BY <2>1, <2>2 DEF OnChain
<1>3. Chained(x, succ)
  BY <1>1 DEF Chained
<1>4. Reach(x, succ) = OnChain(a, n)
  BY <1>1, <1>2 DEF Reach
<1>5. QED
  BY <1>3, <1>4

(* A null reference leads nowhere, ...                                     *)
LEMMA NilChain ==
  ASSUME NEW succ
  PROVE  /\ IsChain([k \in Nat |-> None], 0, Nodes, None, succ)
         /\ Chained(None, succ) /\ Reach(None, succ) = {}
<1>1. IsChain([k \in Nat |-> None], 0, Nodes, None, succ)
  BY DEF IsChain
<1>2. OnChain([k \in Nat |-> None], 0) = {}
  BY DEF OnChain
<1>3. QED
  BY <1>1, <1>2, ReachIs

(* ... one to a node leads to it and to what follows it, which does not    *)
(* lead back, ...                                                          *)
Rest(a) == [k \in Nat |-> a[k + 1]]

LEMMA RestChain ==
  ASSUME NEW x \in Nodes, NEW succ, NEW a, NEW n, IsChain(a, n, Nodes, x, succ)
  PROVE  /\ n > 0 /\ IsChain(Rest(a), n - 1, Nodes, succ[x], succ)
         /\ Chained(succ[x], succ)
         /\ Reach(x, succ) = {x} \cup Reach(succ[x], succ)
         /\ x \notin Reach(succ[x], succ)
<1> DEFINE b == Rest(a)
<1>1. /\ n \in Nat /\ a \in [Nat -> Nodes \cup {None}] /\ a[0] = x
      /\ \A k \in Nat : k < n => a[k] \in Nodes /\ a[k + 1] = succ[a[k]]
      /\ \A k \in Nat : ~ (k < n) => a[k] = None
      /\ \A i, j \in Nat : i < n /\ j < n /\ a[i] = a[j] => i = j
  BY DEF IsChain
<1>2. n > 0 /\ n - 1 \in Nat
  BY <1>1, NodesAssumption
<1>3. b \in [Nat -> Nodes \cup {None}] /\ \A k \in Nat : b[k] = a[k + 1] /\ k + 1 \in Nat
  BY <1>1 DEF Rest
<1> HIDE DEF b
<1>4. IsChain(b, n - 1, Nodes, succ[x], succ)
  <2>1. b[0] = succ[x]
    <3>1. a[0 + 1] = succ[a[0]]
      BY <1>1, <1>2
    <3>2. QED
      BY <1>1, <1>3, <3>1
  <2>2. \A k \in Nat : k < n - 1 => b[k] \in Nodes /\ b[k + 1] = succ[b[k]]
    <3>1. \A k \in Nat : k < n - 1 => k + 1 < n
      BY <1>1
    <3>2. QED
      BY <1>1, <1>3, <3>1
  <2>3. \A k \in Nat : ~ (k < n - 1) => b[k] = None
    <3>1. \A k \in Nat : ~ (k < n - 1) => ~ (k + 1 < n)
      BY <1>1
    <3>2. QED
      BY <1>1, <1>3, <3>1
  <2>4. \A i, j \in Nat : i < n - 1 /\ j < n - 1 /\ b[i] = b[j] => i = j
    <3>1. \A i, j \in Nat : i < n - 1 /\ j < n - 1 /\ b[i] = b[j] => i + 1 = j + 1
      BY <1>1, <1>3
    <3>2. QED
      BY <3>1
  <2>5. QED
    BY <1>2, <1>3, <2>1, <2>2, <2>3, <2>4 DEF IsChain
<1>5. OnChain(a, n) = {x} \cup OnChain(b, n - 1)
  <2>1. \A k \in Nat : k < n => k = 0 \/ (k - 1 \in Nat /\ k - 1 < n - 1 /\ (k - 1) + 1 = k)
    BY <1>1
  <2>2. \A k \in Nat : k < n - 1 => k + 1 < n
    BY <1>1
  <2>3. OnChain(a, n) \subseteq {x} \cup OnChain(b, n - 1)
    BY <1>1, <1>3, <2>1 DEF OnChain
  <2>4. {x} \cup OnChain(b, n - 1) \subseteq OnChain(a, n)
    BY <1>1, <1>2, <1>3, <2>2 DEF OnChain
  <2>5. QED
    BY <2>3, <2>4
<1>6. x \notin OnChain(b, n - 1)
  <2>1. \A k \in Nat : k < n - 1 => k + 1 < n /\ k + 1 # 0
    BY <1>1
  <2>2. QED
    BY <1>1, <1>2, <1>3, <2>1 DEF OnChain
<1>7. Chained(succ[x], succ) /\ Reach(succ[x], succ) = OnChain(b, n - 1)
  BY <1>4, ReachIs
<1>8. Reach(x, succ) = OnChain(a, n)
  BY ReachIs
<1>9. QED
  BY <1>2, <1>4, <1>5, <1>6, <1>7, <1>8 DEF b

LEMMA RestReach ==
  ASSUME NEW x \in Nodes, NEW succ, Chained(x, succ)
  PROVE  /\ Chained(succ[x], succ)
         /\ Reach(x, succ) = {x} \cup Reach(succ[x], succ)
         /\ x \notin Reach(succ[x], succ)
BY RestChain DEF Chained

(* ... and a node that is put before others leads to them.                 *)
Before(x, a) == [k \in Nat |-> IF k = 0 THEN x ELSE a[k - 1]]

LEMMA BeforeChain ==
  ASSUME NEW x \in Nodes, NEW succ, NEW a, NEW n, IsChain(a, n, Nodes, succ[x], succ),
         x \notin Reach(succ[x], succ)
  PROVE  /\ IsChain(Before(x, a), n + 1, Nodes, x, succ)
         /\ Chained(x, succ)
<1> DEFINE b == Before(x, a)
<1>1. /\ n \in Nat /\ a \in [Nat -> Nodes \cup {None}] /\ a[0] = succ[x]
      /\ \A k \in Nat : k < n => a[k] \in Nodes /\ a[k + 1] = succ[a[k]]
      /\ \A k \in Nat : ~ (k < n) => a[k] = None
      /\ \A i, j \in Nat : i < n /\ j < n /\ a[i] = a[j] => i = j
  BY DEF IsChain
<1>2. \A k \in Nat : k < n => a[k] # x
  <2>1. Reach(succ[x], succ) = OnChain(a, n)
    BY ReachIs
  <2>2. QED
    BY <2>1 DEF OnChain
<1>3. /\ b[0] = x /\ \A k \in Nat : k # 0 => b[k] = a[k - 1] /\ k - 1 \in Nat /\ (k - 1) + 1 = k
      /\ \A k \in Nat : k # 0 /\ k < n + 1 => k - 1 < n
      /\ \A k \in Nat : ~ (k < n + 1) => k # 0 /\ ~ (k - 1 < n)
      /\ \A k \in Nat : b[k + 1] = a[k]
      /\ b \in [Nat -> Nodes \cup {None}]
  BY <1>1 DEF Before
<1> HIDE DEF b
<1>4. ASSUME NEW k \in Nat, k < n + 1 PROVE b[k] \in Nodes /\ b[k + 1] = succ[b[k]]
  BY <1>1, <1>3, <1>4
<1>5. \A k \in Nat : ~ (k < n + 1) => b[k] = None
  BY <1>1, <1>3
<1>6. \A i, j \in Nat : i < n + 1 /\ j < n + 1 /\ b[i] = b[j] => i = j
  <2> SUFFICES ASSUME NEW i \in Nat, NEW j \in Nat, i < n + 1, j < n + 1, b[i] = b[j] PROVE i = j
    OBVIOUS
  <2>1. i = 0 <=> j = 0
    BY <1>2, <1>3
  <2>2. i # 0 /\ j # 0 => i - 1 = j - 1
    BY <1>1, <1>3
  <2>3. QED
    BY <2>1, <2>2
<1>7. IsChain(b, n + 1, Nodes, x, succ)
  BY <1>1, <1>3, <1>4, <1>5, <1>6 DEF IsChain
<1>8. QED
  BY <1>7, ReachIs DEF b

LEMMA BeforeReach ==
  ASSUME NEW x \in Nodes, NEW succ, Chained(succ[x], succ), x \notin Reach(succ[x], succ)
  PROVE  /\ Chained(x, succ)
         /\ Reach(x, succ) = {x} \cup Reach(succ[x], succ)
<1>1. Chained(x, succ)
  BY BeforeChain DEF Chained
<1>2. QED
  BY <1>1, RestReach

(* Changes elsewhere do not show.                                          *)
LEMMA KeptChain ==
  ASSUME NEW x, NEW succ, NEW other, NEW a, NEW n, IsChain(a, n, Nodes, x, succ),
         \A y \in Reach(x, succ) : other[y] = succ[y]
  PROVE  IsChain(a, n, Nodes, x, other)
<1>1. Reach(x, succ) = OnChain(a, n)
  BY ReachIs
<1>2. \A k \in Nat : k < n => other[a[k]] = succ[a[k]]
  BY <1>1 DEF OnChain
<1>3. QED
  BY <1>2 DEF IsChain

LEMMA KeptReach ==
  ASSUME NEW x, NEW succ, NEW other, Chained(x, succ),
         \A y \in Reach(x, succ) : other[y] = succ[y]
  PROVE  Chained(x, other) /\ Reach(x, other) = Reach(x, succ)
<1>1. PICK n \in Nat : \E a \in [Nat -> Nodes \cup {None}] : IsChain(a, n, Nodes, x, succ)
  BY DEF Chained
<1>2. PICK a \in [Nat -> Nodes \cup {None}] : IsChain(a, n, Nodes, x, succ)
  BY <1>1
<1>3. IsChain(a, n, Nodes, x, other)
  BY <1>2, KeptChain
<1>4. QED
  BY <1>2, <1>3, ReachIs

-----------------------------------------------------------------------------
(* The stack: references that keep nodes alive, and nodes that are nobody  *)
(* else's until they are pushed *)

StackSteps == {"idle", "push", "pop", "exchange", "popped", "front", "find", "found"}

StackTyped == Stack!TypeOK /\ stackPc \in [FewThreads -> StackSteps]

(* The links end: no reference leads around in a circle.                   *)
AllChained == Chained(head, next) /\ \A t \in FewThreads : Chained(p[t], next)

(* No reference but the one of push_front leads to the node that it is     *)
(* about to push.                                                          *)
Private ==
  \A t \in FewThreads : stackPc[t] = "push" =>
    /\ p[t] \notin Reach(head, next)
    /\ \A u \in FewThreads : u # t => p[t] \notin Reach(p[u], next)
    /\ value[p[t]] \in Values

(* What pop_front has read of its node stays true up to the exchange.      *)
RestKnown == \A t \in FewThreads : stackPc[t] = "exchange" => rest[t] = next[p[t]]

StackSound == StackTyped /\ AllChained /\ Private /\ RestKnown /\ Stack!ReferencesKeep

(* The path of the model from a node is the chain.                         *)
PathExact ==
  \A x, a, n : IsChain(a, n, Nodes, x, next) =>
    /\ \A k \in Nat : k < n => Stack!Path(x)[k] = a[k]
    /\ Stack!Linked(x) = OnChain(a, n)

LEMMA StackPath == PathExact
<1> SUFFICES ASSUME NEW x, NEW a, NEW n, IsChain(a, n, Nodes, x, next)
             PROVE  /\ \A k \in Nat : k < n => Stack!Path(x)[k] = a[k]
                    /\ Stack!Linked(x) = OnChain(a, n)
  BY DEF PathExact
<1> DEFINE m == Cardinality(Nodes)
<1>1. Stack!Cardinality(Nodes) = m
  BY DEF Stack!Cardinality, Cardinality
<1>2. m \in Nat /\ n <= m /\ OnChain(a, n) \subseteq Nodes
  BY ChainCount, NodesAssumption
<1> HIDE DEF m
<1>3. Follow(m, x, next) = [k \in 0 .. m |-> a[k]]
  BY <1>2, WalkFollows, NodesAssumption
<1>4. Stack!Path(x) = [k \in 0 .. m |-> a[k]]
  BY <1>1, <1>3 DEF Stack!Path, Follow
<1>5. n \in Nat /\ \A k \in Nat : ~ (k < n) => a[k] = None
  BY DEF IsChain
<1>6. \A k \in Nat : k < n => k \in 0 .. m
  BY <1>2, <1>5
<1>7. \A k \in 0 .. m : Stack!Path(x)[k] = a[k]
  BY <1>4
<1>8. Stack!Linked(x) = {a[k] : k \in 0 .. m} \ {None}
  BY <1>1, <1>7 DEF Stack!Linked
<1>9. {a[k] : k \in 0 .. m} \ {None} = OnChain(a, n)
  <2>1. None \notin OnChain(a, n)
    BY <1>2, NodesAssumption
  <2>2. \A k \in 0 .. m : k \in Nat /\ (k < n \/ a[k] = None)
    BY <1>5
  <2>3. QED
    BY <1>6, <2>1, <2>2 DEF OnChain
<1>10. QED
  BY <1>6, <1>7, <1>8, <1>9

LEMMA StackPathNext == PathExact'
BY StackPath, PTL

LEMMA LinkedIs ==
  ASSUME NEW x, Chained(x, next)
  PROVE  Stack!Linked(x) = Reach(x, next)
BY StackPath, ReachIs DEF Chained, PathExact

LEMMA InitStack == Stack!Init => StackSound
<1> SUFFICES ASSUME Stack!Init PROVE StackSound
  OBVIOUS
<1>1. /\ head = None /\ stackPc = [t \in FewThreads |-> "idle"]
      /\ p = [t \in FewThreads |-> None]
  BY DEF Stack!Init
<1>2. StackTyped
  BY DEF Stack!Init, StackTyped, Stack!TypeOK, StackSteps
<1>3. AllChained
  BY <1>1, NilChain DEF AllChained
<1>4. Private /\ RestKnown /\ Stack!ReferencesKeep
  BY <1>1 DEF Private, RestKnown, Stack!ReferencesKeep
<1>5. QED
  BY <1>2, <1>3, <1>4 DEF StackSound

(* A thread that is inside push_front or pop_front has a node.             *)
LEMMA OwnReach ==
  ASSUME StackSound, NEW t \in FewThreads, p[t] # None
  PROVE  /\ p[t] \in Nodes /\ p[t] \in Reach(p[t], next)
         /\ Chained(next[p[t]], next) /\ Reach(next[p[t]], next) \subseteq Reach(p[t], next)
<1>1. p[t] \in Nodes /\ Chained(p[t], next)
  BY DEF StackSound, StackTyped, Stack!TypeOK, AllChained
<1>2. QED
  BY <1>1, RestReach

(* A thread has a node of its own, and links it to the head.               *)
LEMMA PushingStack ==
  ASSUME StackSound, StackTyped', NEW t \in FewThreads, NEW x \in Nodes,
         x \notin Reach(head, next),
         \A u \in FewThreads : u # t => x \notin Reach(p[u], next),
         p' = [p EXCEPT ![t] = x], stackPc' = [stackPc EXCEPT ![t] = "push"],
         next' = [next EXCEPT ![x] = head],
         value'[x] \in Values, \A y \in Nodes : y # x => value'[y] = value[y],
         head' = head, sought' = sought, rest' = rest
  PROVE  /\ StackSound'
         /\ \A y \in Reach(head, next) : next'[y] = next[y] /\ value'[y] = value[y]
<1>a. StackTyped /\ AllChained /\ Private /\ RestKnown /\ Stack!ReferencesKeep
  BY DEF StackSound
<1>b. /\ next \in [Nodes -> Nodes \cup {None}] /\ p \in [FewThreads -> Nodes \cup {None}]
      /\ stackPc \in [FewThreads -> StackSteps]
      /\ \A u \in FewThreads : stackPc[u] \in {"push", "pop", "exchange"} => p[u] \in Nodes
  BY <1>a DEF StackTyped, Stack!TypeOK
<1>1. /\ p'[t] = x /\ stackPc'[t] = "push" /\ next'[x] = head
      /\ \A u \in FewThreads : u # t => p'[u] = p[u] /\ stackPc'[u] = stackPc[u]
      /\ \A y \in Nodes : y # x => next'[y] = next[y] /\ value'[y] = value[y]
  BY <1>b
<1>2. \A z, y : y \in Reach(z, next) => y \in Nodes
  BY DEF Reach
<1>3. Chained(head, next') /\ Reach(head, next') = Reach(head, next)
  <2>1. Chained(head, next) /\ \A y \in Reach(head, next) : next'[y] = next[y]
    BY <1>a, <1>1, <1>2 DEF AllChained
  <2>2. QED
    BY <2>1, KeptReach
<1>4. ASSUME NEW u \in FewThreads, u # t
      PROVE  Chained(p[u], next') /\ Reach(p[u], next') = Reach(p[u], next)
  <2>1. Chained(p[u], next) /\ \A y \in Reach(p[u], next) : next'[y] = next[y]
    BY <1>a, <1>1, <1>2, <1>4 DEF AllChained
  <2>2. QED
    BY ZenonT(60), <2>1, KeptReach
<1>5. Chained(x, next') /\ Reach(x, next') = {x} \cup Reach(head, next)
  <2>1. Chained(next'[x], next') /\ x \notin Reach(next'[x], next')
    BY <1>1, <1>3
  <2>2. Chained(x, next') /\ Reach(x, next') = {x} \cup Reach(next'[x], next')
    BY ZenonT(60), <2>1, BeforeReach
  <2>3. QED
    BY <1>1, <1>3, <2>2
<1>6. ASSUME NEW u \in FewThreads, u # t PROVE p[u] # x
  <2>1. p[u] # None => p[u] \in Reach(p[u], next)
    BY OwnReach
  <2>2. QED
    BY <1>6, <2>1, NodesAssumption
<1>7. AllChained'
  BY <1>1, <1>3, <1>4, <1>5 DEF AllChained
<1>8. Private'
  <2> SUFFICES ASSUME NEW u \in FewThreads, stackPc'[u] = "push"
               PROVE  /\ p'[u] \notin Reach(head', next')
                      /\ \A w \in FewThreads : w # u => p'[u] \notin Reach(p'[w], next')
                      /\ value'[p'[u]] \in Values
    BY DEF Private
  <2>1. CASE u = t
    BY ZenonT(60), <1>1, <1>3, <1>4, <2>1
  <2>2. CASE u # t
    <3>1. stackPc[u] = "push" /\ p'[u] = p[u] /\ p[u] \in Nodes /\ p[u] # x
      BY <1>b, <1>1, <1>6, <2>2
    <3>2. /\ p[u] \notin Reach(head, next) /\ value[p[u]] \in Values
          /\ \A w \in FewThreads : w # u => p[u] \notin Reach(p[w], next)
      BY <1>a, <3>1 DEF Private
    <3>3. \A w \in FewThreads : w # u => p[u] \notin Reach(p'[w], next')
      BY <1>1, <1>4, <1>5, <3>1, <3>2
    <3>4. QED
      BY <1>1, <1>3, <3>1, <3>2, <3>3
  <2>3. QED
    BY <2>1, <2>2
<1>9. RestKnown'
  <2>1. \A u \in FewThreads : stackPc'[u] = "exchange" =>
          u # t /\ stackPc[u] = "exchange" /\ p'[u] = p[u] /\ p[u] \in Nodes
    BY <1>b, <1>1
  <2>2. QED
    BY <1>a, <1>1, <1>6, <2>1 DEF RestKnown
<1>10. Stack!ReferencesKeep'
  <2>1. \A u \in FewThreads : stackPc'[u] = "found" =>
          u # t /\ stackPc[u] = "found" /\ p'[u] = p[u] /\ (p[u] # None => p[u] \in Nodes)
    BY <1>b, <1>1
  <2>2. QED
    BY <1>a, <1>1, <1>6, <2>1 DEF Stack!ReferencesKeep
<1>11. QED
  BY <1>1, <1>2, <1>7, <1>8, <1>9, <1>10 DEF StackSound

(* make_shared<Node>() finds an address to which no reference leads.       *)
LEMMA CallPushStack ==
  ASSUME StackSound, NEW t \in FewThreads, Stack!CallPush(t)
  PROVE  /\ StackSound' /\ head' = head
         /\ \A y \in Reach(head, next) : next'[y] = next[y] /\ value'[y] = value[y]
<1>a. StackTyped /\ AllChained
  BY DEF StackSound
<1>1. PICK x \in Nodes \ Stack!Live, v \in Values :
        /\ p' = [p EXCEPT ![t] = x] /\ value' = [value EXCEPT ![x] = v]
        /\ next' = [next EXCEPT ![x] = head]
  BY DEF Stack!CallPush, Stack!SetP
<1>2. /\ stackPc' = [stackPc EXCEPT ![t] = "push"]
      /\ head' = head /\ sought' = sought /\ rest' = rest
  BY DEF Stack!CallPush, Stack!Move, Stack!Goto, Stack!args
<1>3. x \notin Reach(head, next) /\ \A u \in FewThreads : x \notin Reach(p[u], next)
  <2>1. x \notin Stack!Linked(head) /\ \A u \in FewThreads : x \notin Stack!Linked(p[u])
    BY <1>1 DEF Stack!Live
  <2>2. QED
    BY <1>a, <2>1, LinkedIs DEF AllChained
<1>4. value'[x] \in Values /\ \A y \in Nodes : y # x => value'[y] = value[y]
  BY <1>a, <1>1 DEF StackTyped, Stack!TypeOK
<1>5. StackTyped'
  BY <1>a, <1>1, <1>2 DEF StackTyped, Stack!TypeOK, StackSteps
<1>6. QED
  BY <1>1, <1>2, <1>3, <1>4, <1>5, PushingStack

(* A failed exchange puts the head it found behind the node.               *)
LEMMA PushAgainStack ==
  ASSUME StackSound, NEW t \in FewThreads, Stack!PushAgain(t)
  PROVE  /\ StackSound' /\ head' = head
         /\ \A y \in Reach(head, next) : next'[y] = next[y] /\ value'[y] = value[y]
<1>a. StackTyped /\ Private
  BY DEF StackSound
<1>1. PICK x \in Nodes : x = p[t]
  BY <1>a DEF Stack!PushAgain, StackTyped, Stack!TypeOK
<1>2. /\ stackPc[t] = "push" /\ next' = [next EXCEPT ![x] = head]
      /\ head' = head /\ value' = value /\ stackPc' = stackPc /\ p' = p
      /\ sought' = sought /\ rest' = rest
  BY <1>1 DEF Stack!PushAgain, Stack!args
<1>3. /\ x \notin Reach(head, next) /\ value[x] \in Values
      /\ \A u \in FewThreads : u # t => x \notin Reach(p[u], next)
  BY <1>a, <1>1, <1>2 DEF Private
<1>4. p' = [p EXCEPT ![t] = x] /\ stackPc' = [stackPc EXCEPT ![t] = "push"]
  BY <1>a, <1>1, <1>2 DEF StackTyped, Stack!TypeOK
<1>5. StackTyped'
  BY <1>a, <1>2 DEF StackTyped, Stack!TypeOK
<1>6. QED
  BY <1>2, <1>3, <1>4, <1>5, PushingStack

(* The exchange of push_front: the node becomes the head.                  *)
LEMMA PushStack ==
  ASSUME StackSound, NEW t \in FewThreads, Stack!Push(t)
  PROVE  /\ StackSound' /\ next' = next /\ value' = value
         /\ head' \in Nodes /\ next[head'] = head /\ value[head'] \in Values
<1>a. StackTyped /\ AllChained /\ Private /\ RestKnown /\ Stack!ReferencesKeep
  BY DEF StackSound
<1>b. /\ p \in [FewThreads -> Nodes \cup {None}] /\ stackPc \in [FewThreads -> StackSteps]
  BY <1>a DEF StackTyped, Stack!TypeOK
<1>1. /\ stackPc[t] = "push" /\ stackPc' = [stackPc EXCEPT ![t] = "idle"]
      /\ head = next[p[t]] /\ head' = p[t] /\ p' = [p EXCEPT ![t] = None]
      /\ next' = next /\ value' = value /\ sought' = sought /\ rest' = rest
  BY DEF Stack!Push, Stack!Move, Stack!Goto, Stack!SetP, Stack!args, Stack!memory
<1>2. p[t] \in Nodes
  BY <1>a, <1>1 DEF StackTyped, Stack!TypeOK
<1>3. /\ p'[t] = None /\ stackPc'[t] = "idle"
      /\ \A u \in FewThreads : u # t => p'[u] = p[u] /\ stackPc'[u] = stackPc[u]
  BY <1>b, <1>1
<1>4. StackTyped'
  BY <1>a, <1>1, <1>2, <1>3 DEF StackTyped, Stack!TypeOK, StackSteps
<1>5. AllChained'
  BY <1>a, <1>1, <1>3, NilChain DEF AllChained
<1>6. Private'
  <2>1. \A u \in FewThreads : stackPc'[u] = "push" => u # t /\ stackPc[u] = "push" /\ p'[u] = p[u]
    BY <1>3
  <2>2. \A u \in FewThreads : u # t /\ stackPc[u] = "push" =>
          /\ p[u] \notin Reach(p[t], next) /\ value[p[u]] \in Values
          /\ \A w \in FewThreads : w # u => p[u] \notin Reach(p'[w], next)
    BY <1>a, <1>3, NilChain DEF Private
  <2>3. QED
    BY <1>1, <2>1, <2>2 DEF Private
<1>7. RestKnown' /\ Stack!ReferencesKeep'
  BY <1>a, <1>1, <1>3 DEF RestKnown, Stack!ReferencesKeep
<1>8. QED
  BY <1>a, <1>1, <1>2, <1>4, <1>5, <1>6, <1>7 DEF StackSound, Private

(* The other steps leave the nodes as they are, and move references to     *)
(* what others lead to already.                                            *)
LEMMA ReadingStack ==
  ASSUME StackSound, StackTyped', next' = next, value' = value, NEW t \in FewThreads,
         \A u \in FewThreads : u # t => /\ p'[u] = p[u] /\ stackPc'[u] = stackPc[u]
                                       /\ rest'[u] = rest[u] /\ sought'[u] = sought[u],
         stackPc[t] # "push", stackPc'[t] # "push",
         \/ head' = head
         \/ head \in Nodes /\ head' = next[head],
         \/ p'[t] \in {None, p[t], head}
         \/ p[t] # None /\ p'[t] = next[p[t]],
         stackPc'[t] = "exchange" => rest'[t] = next[p'[t]],
         stackPc'[t] = "found" /\ p'[t] # None => value[p'[t]] = sought'[t]
  PROVE  StackSound'
<1>a. StackTyped /\ AllChained /\ Private /\ RestKnown /\ Stack!ReferencesKeep
  BY DEF StackSound
<1>1. Chained(head', next) /\ Reach(head', next) \subseteq Reach(head, next)
  BY <1>a, RestReach DEF AllChained
<1>2. /\ Chained(p'[t], next)
      /\ Reach(p'[t], next) \subseteq Reach(head, next) \cup Reach(p[t], next)
  <2>1. CASE p'[t] \in {None, p[t], head}
    BY <1>a, <2>1, NilChain DEF AllChained
  <2>2. CASE p[t] # None /\ p'[t] = next[p[t]]
    BY <2>2, OwnReach
  <2>3. QED
    BY <2>1, <2>2
<1>3. AllChained'
  BY <1>a, <1>1, <1>2 DEF AllChained
<1>4. Private'
  <2>1. \A u \in FewThreads : stackPc'[u] = "push" => u # t /\ stackPc[u] = "push" /\ p'[u] = p[u]
    OBVIOUS
  <2>2. \A u \in FewThreads : u # t /\ stackPc[u] = "push" =>
          /\ p[u] \notin Reach(head', next) /\ value[p[u]] \in Values
          /\ \A w \in FewThreads : w # u => p[u] \notin Reach(p'[w], next)
    BY <1>a, <1>1, <1>2 DEF Private
  <2>3. QED
    BY <2>1, <2>2 DEF Private
<1>5. RestKnown' /\ Stack!ReferencesKeep'
  BY <1>a DEF RestKnown, Stack!ReferencesKeep
<1>6. QED
  BY <1>3, <1>4, <1>5 DEF StackSound

(* What a step does to the nodes from the head on: nothing, or it puts one *)
(* before them, or it takes the first away.                                *)
SameNodes == head' = head /\ \A y \in Reach(head, next) : next'[y] = next[y] /\ value'[y] = value[y]
NewTop    == /\ next' = next /\ value' = value
             /\ head' \in Nodes /\ next[head'] = head /\ value[head'] \in Values
TopGone   == next' = next /\ value' = value /\ head \in Nodes /\ head' = next[head]

LEMMA ThreadStack ==
  ASSUME StackSound, NEW t \in FewThreads,
         \/ Stack!CallPush(t) \/ Stack!CallPop(t) \/ Stack!CallFront(t) \/ Stack!CallFind(t)
         \/ Stack!Step(t)
  PROVE  StackSound' /\ (SameNodes \/ NewTop \/ TopGone)
<1>a. StackTyped /\ RestKnown
  BY DEF StackSound
<1>b. /\ head \in Nodes \cup {None} /\ next \in [Nodes -> Nodes \cup {None}]
      /\ p \in [FewThreads -> Nodes \cup {None}] /\ rest \in [FewThreads -> Nodes \cup {None}]
      /\ sought \in [FewThreads -> Values \cup {None}] /\ stackPc \in [FewThreads -> StackSteps]
      /\ \A u \in FewThreads : stackPc[u] \in {"push", "pop", "exchange"} => p[u] \in Nodes
      /\ \A u \in FewThreads : stackPc[u] = "idle" => p[u] = None
  BY <1>a DEF StackTyped, Stack!TypeOK
<1>c. "idle" \in StackSteps /\ "pop" \in StackSteps /\ "exchange" \in StackSteps
      /\ "popped" \in StackSteps /\ "front" \in StackSteps /\ "find" \in StackSteps
      /\ "found" \in StackSteps
  BY DEF StackSteps
<1>d. head' = head /\ next' = next /\ value' = value => SameNodes
  BY DEF SameNodes
<1> USE DEF Stack!Move, Stack!Goto, Stack!SetP, Stack!args, Stack!memory
<1>1. CASE Stack!CallPush(t)
  BY <1>1, CallPushStack DEF SameNodes
<1>2. CASE Stack!Push(t)
  BY <1>2, PushStack DEF NewTop
<1>3. CASE Stack!PushAgain(t)
  BY <1>3, PushAgainStack DEF SameNodes
<1>4. CASE Stack!CallPop(t)
  <2>1. /\ stackPc[t] = "idle" /\ p' = [p EXCEPT ![t] = head]
        /\ stackPc' = [stackPc EXCEPT ![t] = IF head = None THEN "popped" ELSE "pop"]
        /\ head' = head /\ next' = next /\ value' = value /\ sought' = sought /\ rest' = rest
    BY <1>4 DEF Stack!CallPop
  <2>2. StackTyped'
    BY <1>a, <1>b, <1>c, <2>1 DEF StackTyped, Stack!TypeOK
  <2>3. /\ \A u \in FewThreads : u # t => p'[u] = p[u] /\ stackPc'[u] = stackPc[u]
        /\ p'[t] = head /\ stackPc'[t] \in {"pop", "popped"}
    BY <1>b, <2>1
  <2>4. QED
    BY <1>d, <2>1, <2>2, <2>3, ReadingStack
<1>5. CASE Stack!PopRead(t)
  <2>1. /\ stackPc[t] = "pop" /\ stackPc' = [stackPc EXCEPT ![t] = "exchange"]
        /\ rest' = [rest EXCEPT ![t] = next[p[t]]]
        /\ head' = head /\ next' = next /\ value' = value /\ sought' = sought /\ p' = p
    BY <1>5 DEF Stack!PopRead
  <2>2. StackTyped'
    BY <1>a, <1>b, <1>c, <2>1 DEF StackTyped, Stack!TypeOK
  <2>3. /\ \A u \in FewThreads : u # t => rest'[u] = rest[u] /\ stackPc'[u] = stackPc[u]
        /\ rest'[t] = next[p[t]] /\ stackPc'[t] = "exchange"
    BY <1>b, <2>1
  <2>4. QED
    BY <1>d, <2>1, <2>2, <2>3, ReadingStack
<1>6. CASE Stack!Pop(t)
  <2>1. /\ stackPc[t] = "exchange" /\ stackPc' = [stackPc EXCEPT ![t] = "pop"]
        /\ head = p[t] /\ head' = rest[t]
        /\ next' = next /\ value' = value /\ sought' = sought /\ p' = p /\ rest' = rest
    BY <1>6 DEF Stack!Pop
  <2>2. head \in Nodes /\ head' = next[head]
    BY <1>a, <1>b, <2>1 DEF RestKnown
  <2>3. StackTyped'
    BY <1>a, <1>b, <1>c, <2>1, <2>2 DEF StackTyped, Stack!TypeOK
  <2>4. /\ \A u \in FewThreads : u # t => stackPc'[u] = stackPc[u]
        /\ stackPc'[t] = "pop"
    BY <1>b, <2>1
  <2>5. TopGone
    BY <2>1, <2>2 DEF TopGone
  <2>6. QED
    BY <2>1, <2>2, <2>3, <2>4, <2>5, ReadingStack
<1>7. CASE Stack!PopEnds(t)
  <2>1. /\ stackPc[t] = "exchange" /\ stackPc' = [stackPc EXCEPT ![t] = "popped"]
        /\ p' = [p EXCEPT ![t] = head] /\ rest' = [rest EXCEPT ![t] = None]
        /\ head' = head /\ next' = next /\ value' = value /\ sought' = sought
    BY <1>7 DEF Stack!PopEnds
  <2>2. StackTyped'
    BY <1>a, <1>b, <1>c, <2>1 DEF StackTyped, Stack!TypeOK
  <2>3. /\ \A u \in FewThreads : u # t => /\ p'[u] = p[u] /\ rest'[u] = rest[u]
                                          /\ stackPc'[u] = stackPc[u]
        /\ p'[t] = head /\ stackPc'[t] = "popped"
    BY <1>b, <2>1
  <2>4. QED
    BY <1>d, <2>1, <2>2, <2>3, ReadingStack
<1>8. CASE Stack!CallFront(t)
  <2>1. /\ stackPc[t] = "idle" /\ stackPc' = [stackPc EXCEPT ![t] = "front"]
        /\ p' = [p EXCEPT ![t] = head]
        /\ head' = head /\ next' = next /\ value' = value /\ sought' = sought /\ rest' = rest
    BY <1>8 DEF Stack!CallFront
  <2>2. StackTyped'
    BY <1>a, <1>b, <1>c, <2>1 DEF StackTyped, Stack!TypeOK
  <2>3. /\ \A u \in FewThreads : u # t => p'[u] = p[u] /\ stackPc'[u] = stackPc[u]
        /\ p'[t] = head /\ stackPc'[t] = "front"
    BY <1>b, <2>1
  <2>4. QED
    BY <1>d, <2>1, <2>2, <2>3, ReadingStack
<1>9. CASE Stack!CallFind(t)
  <2>1. PICK v \in Values :
        /\ stackPc[t] = "idle" /\ stackPc' = [stackPc EXCEPT ![t] = "find"]
        /\ p' = [p EXCEPT ![t] = head] /\ sought' = [sought EXCEPT ![t] = v]
        /\ head' = head /\ next' = next /\ value' = value /\ rest' = rest
    BY <1>9 DEF Stack!CallFind
  <2>2. StackTyped'
    BY <1>a, <1>b, <1>c, <2>1 DEF StackTyped, Stack!TypeOK
  <2>3. /\ \A u \in FewThreads : u # t => /\ p'[u] = p[u] /\ sought'[u] = sought[u]
                                          /\ stackPc'[u] = stackPc[u]
        /\ p'[t] = head /\ stackPc'[t] = "find"
    BY <1>b, <2>1
  <2>4. QED
    BY <1>d, <2>1, <2>2, <2>3, ReadingStack
<1>10. CASE Stack!FindNext(t)
  <2>1. /\ stackPc[t] = "find" /\ p[t] # None /\ p' = [p EXCEPT ![t] = next[p[t]]]
        /\ head' = head /\ next' = next /\ value' = value /\ sought' = sought
        /\ rest' = rest /\ stackPc' = stackPc
    BY <1>10 DEF Stack!FindNext, Stack!Mismatch
  <2>2. p[t] \in Nodes
    BY <1>b, <2>1
  <2>3. StackTyped'
    BY <1>a, <1>b, <2>1, <2>2 DEF StackTyped, Stack!TypeOK
  <2>4. /\ \A u \in FewThreads : u # t => p'[u] = p[u]
        /\ p'[t] = next[p[t]]
    BY <1>b, <2>1
  <2>5. QED
    BY <1>d, <2>1, <2>3, <2>4, ReadingStack
<1>11. CASE Stack!FindEnds(t)
  <2>1. /\ stackPc[t] = "find" /\ stackPc' = [stackPc EXCEPT ![t] = "found"]
        /\ p[t] # None => value[p[t]] = sought[t]
        /\ head' = head /\ next' = next /\ value' = value /\ sought' = sought
        /\ rest' = rest /\ p' = p
    BY <1>11 DEF Stack!FindEnds, Stack!Mismatch
  <2>2. StackTyped'
    BY <1>a, <1>b, <1>c, <2>1 DEF StackTyped, Stack!TypeOK
  <2>3. /\ \A u \in FewThreads : u # t => stackPc'[u] = stackPc[u]
        /\ stackPc'[t] = "found"
    BY <1>b, <2>1
  <2>4. QED
    BY <1>d, <2>1, <2>2, <2>3, ReadingStack
<1>12. CASE Stack!Drop(t)
  <2>1. /\ stackPc[t] \in {"popped", "front", "found"} /\ stackPc' = [stackPc EXCEPT ![t] = "idle"]
        /\ p' = [p EXCEPT ![t] = None] /\ sought' = [sought EXCEPT ![t] = None]
        /\ head' = head /\ next' = next /\ value' = value /\ rest' = rest
    BY <1>12 DEF Stack!Drop, Stack!Answered
  <2>2. StackTyped'
    BY <1>a, <1>b, <1>c, <2>1 DEF StackTyped, Stack!TypeOK
  <2>3. /\ \A u \in FewThreads : u # t => /\ p'[u] = p[u] /\ sought'[u] = sought[u]
                                          /\ stackPc'[u] = stackPc[u]
        /\ p'[t] = None /\ stackPc'[t] = "idle"
    BY <1>b, <2>1
  <2>4. QED
    BY <1>d, <2>1, <2>2, <2>3, ReadingStack
<1>13. QED
  BY <1>1, <1>2, <1>3, <1>4, <1>5, <1>6, <1>7, <1>8, <1>9, <1>10, <1>11, <1>12 DEF Stack!Step

LEMMA StepStack ==
  ASSUME StackSound, Stack!Next \/ UNCHANGED stackVars
  PROVE  StackSound' /\ (SameNodes \/ NewTop \/ TopGone)
<1>1. CASE Stack!Next
  BY <1>1, ThreadStack DEF Stack!Next
<1>2. CASE UNCHANGED stackVars
  <2>1. /\ head' = head /\ value' = value /\ next' = next /\ stackPc' = stackPc /\ p' = p
        /\ sought' = sought /\ rest' = rest
    BY <1>2 DEF stackVars
  <2>2. QED
    BY <2>1 DEF StackSound, StackTyped, Stack!TypeOK, AllChained, Private, RestKnown,
       Stack!ReferencesKeep, SameNodes
<1>3. QED
  BY <1>1, <1>2

-----------------------------------------------------------------------------
(* The stack implements Stack *)

(* What the model substitutes for the items of the abstract stack.         *)
Items == [i \in 1 .. Stack!Cardinality(Stack!Linked(head)) |-> value[Stack!Path(head)[i-1]]]

ItemsExact ==
  \A a, n : IsChain(a, n, Nodes, head, next) => Items = [i \in 1 .. n |-> value[a[i-1]]]

LEMMA ItemsAre == ItemsExact
<1> SUFFICES ASSUME NEW a, NEW n, IsChain(a, n, Nodes, head, next)
             PROVE  Items = [i \in 1 .. n |-> value[a[i-1]]]
  BY DEF ItemsExact
<1>1. Cardinality(OnChain(a, n)) = n /\ n \in Nat
  BY ChainCount, NodesAssumption DEF IsChain
<1>2. /\ Stack!Linked(head) = OnChain(a, n)
      /\ \A k \in Nat : k < n => Stack!Path(head)[k] = a[k]
  BY StackPath DEF PathExact
<1>3. Stack!Cardinality(Stack!Linked(head)) = n
  BY <1>1, <1>2 DEF Stack!Cardinality, Cardinality
<1>4. \A i \in 1 .. n : i - 1 \in Nat /\ i - 1 < n
  BY <1>1
<1>5. QED
  BY <1>2, <1>3, <1>4 DEF Items

LEMMA ItemsNext == ItemsExact'
BY ItemsAre, PTL

(* The values from the head on, in the state before a step.                *)
LEMMA ItemsTyped ==
  ASSUME StackSound, NEW a, NEW n, IsChain(a, n, Nodes, head, next)
  PROVE  /\ n \in Nat /\ Items = [i \in 1 .. n |-> value[a[i-1]]]
         /\ Items \in [1 .. n -> Values \cup {None}]
         /\ \A i \in 1 .. n : i - 1 \in Nat /\ i - 1 < n /\ a[i-1] \in Nodes
<1>1. n \in Nat /\ \A k \in Nat : k < n => a[k] \in Nodes
  BY DEF IsChain
<1>2. \A i \in 1 .. n : i - 1 \in Nat /\ i - 1 < n
  BY <1>1
<1>3. Items = [i \in 1 .. n |-> value[a[i-1]]]
  BY ItemsAre DEF ItemsExact
<1>4. value \in [Nodes -> Values \cup {None}]
  BY DEF StackSound, StackTyped, Stack!TypeOK
<1>5. QED
  BY <1>1, <1>2, <1>3, <1>4

LEMMA SameItems == StackSound /\ SameNodes => Items' = Items
<1> SUFFICES ASSUME StackSound, SameNodes PROVE Items' = Items
  OBVIOUS
<1>1. PICK n \in Nat : \E a \in [Nat -> Nodes \cup {None}] : IsChain(a, n, Nodes, head, next)
  BY DEF StackSound, AllChained, Chained
<1>2. PICK a \in [Nat -> Nodes \cup {None}] : IsChain(a, n, Nodes, head, next)
  BY <1>1
<1>3. IsChain(a, n, Nodes, head', next')
  BY <1>2, KeptChain DEF SameNodes
<1>4. Items' = [i \in 1 .. n |-> value'[a[i-1]]]
  BY <1>3, ItemsNext DEF ItemsExact
<1>5. \A k \in Nat : k < n => value'[a[k]] = value[a[k]]
  <2>1. Reach(head, next) = OnChain(a, n)
    BY <1>2, ReachIs
  <2>2. QED
    BY <2>1 DEF SameNodes, OnChain
<1>6. /\ Items = [i \in 1 .. n |-> value[a[i-1]]]
      /\ \A i \in 1 .. n : i - 1 \in Nat /\ i - 1 < n
  BY <1>2, ItemsTyped
<1>7. QED
  BY <1>4, <1>5, <1>6

LEMMA PushItems ==
  StackSound /\ StackSound' /\ NewTop => \E v \in Values : Items' = <<v>> \o Items
<1> SUFFICES ASSUME StackSound, StackSound', NewTop PROVE \E v \in Values : Items' = <<v>> \o Items
  OBVIOUS
<1>1. PICK x \in Nodes : /\ head' = x /\ next[x] = head /\ value[x] \in Values
                         /\ next' = next /\ value' = value
  BY DEF NewTop
<1>2. PICK n \in Nat : \E a \in [Nat -> Nodes \cup {None}] : IsChain(a, n, Nodes, head, next)
  BY DEF StackSound, AllChained, Chained
<1>3. PICK a \in [Nat -> Nodes \cup {None}] : IsChain(a, n, Nodes, head, next)
  BY <1>2
<1>4. x \notin Reach(head, next)
  <2>1. Chained(x, next)
    BY <1>1 DEF StackSound, AllChained
  <2>2. QED
    BY <1>1, <2>1, RestReach
<1> DEFINE b == Before(x, a)
<1>5. IsChain(b, n + 1, Nodes, head', next')
  BY <1>1, <1>3, <1>4, BeforeChain
<1>6. b[0] = x /\ \A k \in Nat : b[k + 1] = a[k]
  BY DEF Before
<1> HIDE DEF b
<1>7. Items' = [i \in 1 .. n + 1 |-> value[b[i-1]]]
  BY <1>1, <1>5, ItemsNext DEF ItemsExact
<1>8. /\ Items = [i \in 1 .. n |-> value[a[i-1]]]
      /\ Items \in [1 .. n -> Values \cup {None}]
      /\ \A i \in 1 .. n : i - 1 \in Nat /\ i - 1 < n
  BY <1>3, ItemsTyped
<1>9. /\ 1 \in 1 .. n + 1 /\ 1 - 1 = 0
      /\ \A i \in 1 .. n : i + 1 \in 1 .. n + 1 /\ (i + 1) - 1 = (i - 1) + 1
      /\ \A i \in 1 .. n + 1 : i = 1 \/ (i - 1 \in 1 .. n /\ (i - 1) + 1 = i)
  OBVIOUS
<1>10. Items'[1] = value[x] /\ \A i \in 1 .. n : Items'[i + 1] = Items[i]
  BY <1>6, <1>7, <1>8, <1>9
<1>11. \A i \in 1 .. n + 1 : value[b[i-1]] \in Values \cup {None}
  <2> SUFFICES ASSUME NEW i \in 1 .. n + 1 PROVE value[b[i-1]] \in Values \cup {None}
    OBVIOUS
  <2>1. value[b[i-1]] = Items'[i]
    BY <1>7
  <2>2. CASE i = 1
    BY <1>1, <1>10, <2>1, <2>2
  <2>3. CASE i # 1
    <3>1. PICK j \in 1 .. n : j + 1 = i
      BY <1>9, <2>3
    <3>2. Items'[i] = Items[j]
      BY <1>10, <3>1
    <3>3. Items[j] \in Values \cup {None}
      BY <1>8
    <3>4. QED
      BY <2>1, <3>2, <3>3
  <2>4. QED
    BY <2>2, <2>3
<1>12. Items' \in [1 .. n + 1 -> Values \cup {None}]
  BY <1>7, <1>11
<1>13. Items' = <<Items'[1]>> \o Items
  <2>1. Items \in [1 .. n -> Values \cup {None}] /\ \A i \in 1 .. n : Items'[i + 1] = Items[i]
    BY <1>8, <1>10
  <2>2. QED
    BY <1>12, <2>1, BeforeFunction
<1>14. QED
  BY <1>1, <1>10, <1>13

LEMMA PopItems == StackSound /\ TopGone => Items # <<>> /\ Items' = Tail(Items)
<1> SUFFICES ASSUME StackSound, TopGone PROVE Items # <<>> /\ Items' = Tail(Items)
  OBVIOUS
<1>1. head \in Nodes /\ head' = next[head] /\ next' = next /\ value' = value
  BY DEF TopGone
<1>2. PICK n \in Nat : \E a \in [Nat -> Nodes \cup {None}] : IsChain(a, n, Nodes, head, next)
  BY DEF StackSound, AllChained, Chained
<1>3. PICK a \in [Nat -> Nodes \cup {None}] : IsChain(a, n, Nodes, head, next)
  BY <1>2
<1> DEFINE b == Rest(a)
<1>4. n > 0 /\ IsChain(b, n - 1, Nodes, head', next')
  BY <1>1, <1>3, RestChain
<1>5. \A k \in Nat : b[k] = a[k + 1]
  BY DEF Rest
<1> HIDE DEF b
<1>6. Items' = [i \in 1 .. n - 1 |-> value[b[i-1]]]
  BY <1>1, <1>4, ItemsNext DEF ItemsExact
<1>7. /\ Items = [i \in 1 .. n |-> value[a[i-1]]]
      /\ Items \in [1 .. n -> Values \cup {None}]
  BY ZenonT(30), <1>3, ItemsTyped
<1>8. \A i \in 1 .. n - 1 : /\ i + 1 \in 1 .. n /\ i - 1 \in Nat
                            /\ (i - 1) + 1 = i /\ (i + 1) - 1 = i
  OBVIOUS
<1>9. ASSUME NEW i \in 1 .. n - 1 PROVE Items'[i] = Items[i + 1]
  <2>1. Items'[i] = value[b[i-1]] /\ Items[i + 1] = value[a[(i + 1) - 1]]
    BY <1>6, <1>7, <1>8
  <2>2. b[i-1] = a[(i - 1) + 1]
    BY <1>5, <1>8
  <2>3. QED
    BY <1>8, <2>1, <2>2
<1>10. Items' \in [1 .. n - 1 -> Values \cup {None}]
  <2>1. \A i \in 1 .. n - 1 : Items[i + 1] \in Values \cup {None}
    BY <1>7, <1>8
  <2>2. \A i \in 1 .. n - 1 : value[b[i-1]] \in Values \cup {None}
    BY <1>6, <1>9, <2>1
  <2>3. QED
    BY <1>6, <2>2
<1>11. Items # <<>>
  BY <1>4, <1>7, SeqOfFunction
<1>12. Items' = Tail(Items)
  <2>1. n > 0 /\ Items \in [1 .. n -> Values \cup {None}]
    BY <1>4, <1>7
  <2>2. QED
    BY <1>9, <1>10, <2>1, TailFunction
<1>13. QED
  BY <1>11, <1>12

-----------------------------------------------------------------------------
(* The answers *)

LinkedSound == ListSound /\ StackSound

LEMMA InitLinked == Init => LinkedSound
BY InitList, InitStack DEF Init, LinkedSound

LEMMA StepParts ==
  [Next]_<<part, lockFreeVars, mutexVars, vectorVars, stackVars, listVars>> =>
    (List!Next \/ UNCHANGED listVars) /\ (Stack!Next \/ UNCHANGED stackVars)
BY DEF Next

LEMMA StepLinked ==
  LinkedSound /\ [Next]_<<part, lockFreeVars, mutexVars, vectorVars, stackVars, listVars>>
    => LinkedSound'
BY StepParts, StepList, StepStack DEF LinkedSound

LEMMA LinkedAlways == Spec => []LinkedSound
BY InitLinked, StepLinked, PTL DEF Spec

(* No node is lost or freed too early: what find() answered keeps its      *)
(* value while nodes are popped and their addresses reused, every node of  *)
(* the list is on it or with the thread that will put it there, and the    *)
(* destructor of the list finds all.                                       *)
THEOREM NodesAreKept == Spec => []NodesKept
<1>1. LinkedSound => NodesKept
  BY ListAnswers DEF LinkedSound, NodesKept, StackSound, StackTyped
<1>2. QED
  BY <1>1, LinkedAlways, PTL

(* A step changes the stack by one value at its top, or not at all, and    *)
(* the list by one node at its end, or not at all, however the steps of    *)
(* the threads interleave.                                                 *)
THEOREM ChangesLinearized == Spec => Linearized
<1>1. ASSUME LinkedSound,
             [Next]_<<part, lockFreeVars, mutexVars, vectorVars, stackVars, listVars>>
      PROVE  /\ ~ List!Destroyed' =>
                  \/ List!Order' = List!Order
                  \/ \E n \in ListNodes : List!Order' = List!Append(List!Order, n)
             /\ \/ Stack!Abstract!Push \/ Stack!Abstract!Pop
                \/ UNCHANGED [i \in 1 .. Stack!Cardinality(Stack!Linked(head)) |->
                                value[Stack!Path(head)[i-1]]]
  <2>1. (List!Next \/ UNCHANGED listVars) /\ (Stack!Next \/ UNCHANGED stackVars)
    BY <1>1, StepParts
  <2>2. ListSound /\ StackSound
    BY <1>1 DEF LinkedSound
  <2>3. listHead' # None =>
          List!Order' = List!Order \/ \E x \in ListNodes : List!Order' = Append(List!Order, x)
    BY <2>1, <2>2, ListAppends
  <2>4. StackSound' /\ (SameNodes \/ NewTop \/ TopGone)
    BY <2>1, <2>2, StepStack
  <2>5. \/ \E v \in Values : Items' = <<v>> \o Items
        \/ Items # <<>> /\ Items' = Tail(Items)
        \/ Items' = Items
    BY <2>2, <2>4, SameItems, PushItems, PopItems
  <2>6. \/ Stack!Abstract!Push \/ Stack!Abstract!Pop
        \/ UNCHANGED [i \in 1 .. Stack!Cardinality(Stack!Linked(head)) |->
                        value[Stack!Path(head)[i-1]]]
    BY <2>5 DEF Items, Stack!Abstract!Push, Stack!Abstract!Pop
  <2>7. QED
    BY <2>3, <2>6 DEF List!Destroyed
<1>2. Init => Stack!Abstract!StackInit
  <2> SUFFICES ASSUME Init PROVE Stack!Abstract!StackInit
    OBVIOUS
  <2>1. head = None
    BY DEF Init, Stack!Init
  <2>2. IsChain([k \in Nat |-> None], 0, Nodes, head, next)
    BY <2>1, NilChain
  <2>3. Items = [i \in 1 .. 0 |-> value[[k \in Nat |-> None][i-1]]]
    BY <2>2, ItemsAre DEF ItemsExact
  <2>4. Items = <<>>
    BY <2>3
  <2>5. QED
    BY <2>4 DEF Items, Stack!Abstract!StackInit
<1>3. QED
  BY <1>1, <1>2, LinkedAlways, PTL
  DEF Spec, Linearized, Stack!IsStack, Stack!Abstract!StackSpec, List!AppendsOnly, List!vars, List!locals
=============================================================================
