---------------------------- MODULE LockFreeList ----------------------------
(***************************************************************************)
(* The class lf_slist of lock_free_allocator/lf_slist.h: a linked list to  *)
(* which threads append by exchanging the tail and then linking the old    *)
(* tail to their node.  Between the two the list is cut at the old tail,   *)
(* and stays so if the thread stops there.                                 *)
(*                                                                         *)
(* Nodes are addresses that push_back gets from new; nothing but the       *)
(* destructor frees them.  A node stands for the slab it carries.          *)
(***************************************************************************)
EXTENDS Integers, FiniteSets, Sequences

CONSTANTS
  Threads,
  Nodes,       (* bound: as many nodes are ever allocated *)
  NoNode

VARIABLES
  head, tail,
  next,          (* the field next of every node *)
  heap,          (* the nodes that are allocated *)
  pc,
  newNode, expectedTail   (* the locals of push_back *)

locals == <<newNode, expectedTail>>
vars   == <<head, tail, next, heap, pc, locals>>

Goto(t, label) == pc' = [pc EXCEPT ![t] = label]
Move(t, from, to) == pc[t] = from /\ Goto(t, to)

Destroyed == head = NoNode

(* lf_slist(s): one node, which is head and tail. *)
Init ==
  \E n \in Nodes :
    /\ head = n
    /\ tail = n
    /\ next = [m \in Nodes |-> NoNode]
    /\ heap = {n}
    /\ pc = [t \in Threads |-> "idle"]
    /\ newNode = [t \in Threads |-> NoNode]
    /\ expectedTail = [t \in Threads |-> NoNode]

-----------------------------------------------------------------------------
(* new Node(s, nullptr) and tail.load() *)
CallPush(t) ==
  /\ Move(t, "idle", "exchange")
  /\ ~Destroyed
  /\ \E n \in Nodes \ heap :
       /\ heap' = heap \cup {n}
       /\ newNode' = [newNode EXCEPT ![t] = n]
  /\ expectedTail' = [expectedTail EXCEPT ![t] = tail]
  /\ UNCHANGED <<head, tail, next>>

(* Mutant: the tail is stored, not exchanged. *)
StoreTail(t) ==
  /\ Move(t, "exchange", "link")
  /\ tail' = newNode[t]
  /\ UNCHANGED <<head, next, heap, locals>>

Exchange(t) ==
  /\ Move(t, "exchange", "link")
  /\ tail = expectedTail[t]
  /\ tail' = newNode[t]
  /\ UNCHANGED <<head, next, heap, locals>>

ExchangeFails(t) ==
  /\ pc[t] = "exchange" /\ tail # expectedTail[t]
  /\ expectedTail' = [expectedTail EXCEPT ![t] = tail]
  /\ UNCHANGED <<head, tail, next, heap, pc, newNode>>

Return(t, from) ==
  /\ Move(t, from, "idle")
  /\ newNode' = [newNode EXCEPT ![t] = NoNode]
  /\ expectedTail' = [expectedTail EXCEPT ![t] = NoNode]

(* Mutants: the link is put on the tail of now; it points backwards. *)
LinkFromTail(t) ==
  /\ Return(t, "link")
  /\ next' = [next EXCEPT ![tail] = newNode[t]]
  /\ UNCHANGED <<head, tail, heap>>

LinkBackwards(t) ==
  /\ Return(t, "link")
  /\ next' = [next EXCEPT ![newNode[t]] = expectedTail[t]]
  /\ UNCHANGED <<head, tail, heap>>

(* expected_tail->next = new_node *)
Link(t) ==
  /\ Return(t, "link")
  /\ next' = [next EXCEPT ![expectedTail[t]] = newNode[t]]
  /\ UNCHANGED <<head, tail, heap>>

-----------------------------------------------------------------------------
(* The nodes from head on, where succ says what follows a node. *)
Walk(succ) ==
  LET nth[k \in 0 .. Cardinality(Nodes)] ==
        IF k = 0 THEN head ELSE IF nth[k-1] = NoNode THEN NoNode ELSE succ[nth[k-1]]
  IN  nth

Visited(succ) == {Walk(succ)[k] : k \in 0 .. Cardinality(Nodes)} \ {NoNode}

(* ~lf_slist deletes what it finds from head on; the benchmark, its only   *)
(* client, calls it when all threads are done.                             *)
Destroy ==
  /\ ~Destroyed
  /\ \A t \in Threads : pc[t] = "idle"
  /\ heap' = heap \ Visited(next)
  /\ head' = NoNode
  /\ UNCHANGED <<tail, next, pc, locals>>

Gone == Destroyed /\ UNCHANGED vars

Step(t) == Exchange(t) \/ ExchangeFails(t) \/ Link(t)

Next ==
  \/ \E t \in Threads : CallPush(t) \/ Step(t)
  \/ Destroy
  \/ Gone

Spec == Init /\ [][Next]_vars
(* The operating system runs every thread that is inside a call. *)
Fairness == \A t \in Threads : WF_vars(Step(t))

-----------------------------------------------------------------------------
(* Nodes that have been exchanged into the tail, in that order: where the  *)
(* list is cut, the thread that cut it knows what follows.                 *)
Linking(t) == pc[t] = "link"

Successor ==
  [n \in Nodes |->
     IF \E t \in Threads : Linking(t) /\ expectedTail[t] = n
     THEN newNode[CHOOSE t \in Threads : Linking(t) /\ expectedTail[t] = n]
     ELSE next[n]]

Order == [k \in 1 .. Cardinality(Visited(Successor)) |-> Walk(Successor)[k-1]]

(* The exchanges of the tail put the pushes in one order: each adds its    *)
(* node behind all others, and none moves or drops out, however the links  *)
(* that are set later interleave.                                          *)
AppendsOnly ==
  [][~Destroyed' => \/ Order' = Order
                    \/ \E n \in Nodes : Order' = Append(Order, n)]_vars

(* Every allocated node is in that order or still in the hands of the      *)
(* thread that has not exchanged it, and cuts in the list are where a      *)
(* thread is about to link.                                                *)
NoNodeLost ==
  ~Destroyed =>
    /\ heap = Visited(Successor) \cup {newNode[t] : t \in {u \in Threads : pc[u] = "exchange"}}
    /\ \A n \in heap \ {tail} :
         next[n] = NoNode => \E t \in Threads : newNode[t] = n \/ (Linking(t) /\ expectedTail[t] = n)

(* The destructor, called when no push is in progress, frees every node.   *)
AllFreed == Destroyed => heap = {}

(* A pushed node cannot be reached while an older push has not linked, but *)
(* it becomes reachable as long as every thread goes on.                   *)
BecomesReachable ==
  \A n \in Nodes : tail = n ~> (n \in Visited(next) \/ Destroyed)
=============================================================================
