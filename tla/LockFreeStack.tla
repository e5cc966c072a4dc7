--------------------------- MODULE LockFreeStack ---------------------------
(***************************************************************************)
(* lock_free_allocator/lf_stack.h: a linked stack whose head is a          *)
(* shared_ptr that is read and exchanged atomically.                       *)
(*                                                                         *)
(* Nodes are addresses.  A node lives as long as a shared_ptr leads to it, *)
(* from the head, from a local of a thread or from a reference that a      *)
(* client holds; its address may be another node's as soon as it is dead.  *)
(* atomic_compare_exchange_weak is the exchange of libstdc++, which fails  *)
(* only when the head is not the node it expects.                          *)
(***************************************************************************)
EXTENDS Integers, FiniteSets, Sequences

CONSTANTS
  Threads,
  Values,
  Nodes,       (* the addresses of nodes *)
  MaxNodes,    (* bound, at most as many as Nodes: push_front is called while fewer live *)
  NoNode, NoValue

VARIABLES
  head,
  value, next,   (* the fields t and next of every node *)
  pc,
  p,             (* the shared_ptr of the call, then that of its reference *)
  sought,        (* the argument of find *)
  rest           (* p->next as pop_front read it, before the exchange *)

memory == <<value, next>>
args   == <<sought, rest>>
vars   == <<head, memory, pc, p, args>>

Goto(t, label) == pc' = [pc EXCEPT ![t] = label]
Move(t, from, to) == pc[t] = from /\ Goto(t, to)
SetP(t, n) == p' = [p EXCEPT ![t] = n]

(* The nodes that next leads to from n on, n at 0. *)
Path(n) ==
  LET nth[k \in 0 .. Cardinality(Nodes)] ==
        IF k = 0 THEN n ELSE IF nth[k-1] = NoNode THEN NoNode ELSE next[nth[k-1]]
  IN  nth

Linked(n) == {Path(n)[k] : k \in 0 .. Cardinality(Nodes)} \ {NoNode}

(* Mutant: raw pointers, which keep nothing alive but what is on the stack *)
(* and the node that is being pushed.                                      *)
LiveRaw == Linked(head) \cup {p[t] : t \in {u \in Threads : pc[u] = "push"}}

Live == Linked(head) \cup UNION {Linked(p[t]) : t \in Threads}

Init ==
  /\ head = NoNode
  /\ value = [n \in Nodes |-> NoValue]
  /\ next = [n \in Nodes |-> NoNode]
  /\ pc = [t \in Threads |-> "idle"]
  /\ p = [t \in Threads |-> NoNode]
  /\ sought = [t \in Threads |-> NoValue]
  /\ rest = [t \in Threads |-> NoNode]

-----------------------------------------------------------------------------
(* make_shared<Node>() and the load of the head into p->next *)
CallPush(t) ==
  /\ Move(t, "idle", "push")
  /\ Cardinality(Live) < MaxNodes
  /\ \E n \in Nodes \ Live, v \in Values :
       /\ SetP(t, n)
       /\ value' = [value EXCEPT ![n] = v]
       /\ next' = [next EXCEPT ![n] = head]
  /\ UNCHANGED <<head, args>>

(* Mutant: the head is stored, whatever it is by now. *)
PushStore(t) ==
  /\ Move(t, "push", "idle")
  /\ head' = p[t]
  /\ SetP(t, NoNode)
  /\ UNCHANGED <<memory, args>>

Push(t) ==
  /\ Move(t, "push", "idle")
  /\ head = next[p[t]]
  /\ head' = p[t]
  /\ SetP(t, NoNode)
  /\ UNCHANGED <<memory, args>>

(* Mutant: a failed exchange does not refresh p->next. *)
PushAgainStale(t) ==
  /\ pc[t] = "push" /\ head # next[p[t]]
  /\ UNCHANGED vars

(* A failed exchange leaves the head it found in p->next. *)
PushAgain(t) ==
  /\ pc[t] = "push" /\ head # next[p[t]]
  /\ next' = [next EXCEPT ![p[t]] = head]
  /\ UNCHANGED <<head, value, pc, p, args>>

-----------------------------------------------------------------------------
(* pop_front: auto p = atomic_load(&head); the loop is not entered without *)
(* a node.                                                                 *)
CallPop(t) ==
  /\ Move(t, "idle", IF head = NoNode THEN "popped" ELSE "pop")
  /\ SetP(t, head)
  /\ UNCHANGED <<head, memory, args>>

(* p->next is read to be passed to the exchange. *)
PopRead(t) ==
  /\ Move(t, "pop", "exchange")
  /\ rest' = [rest EXCEPT ![t] = next[p[t]]]
  /\ UNCHANGED <<head, memory, p, sought>>

(* The exchange succeeds, and for that reason the loop tries it again. *)
Pop(t) ==
  /\ Move(t, "exchange", "pop")
  /\ head = p[t]
  /\ head' = rest[t]
  /\ UNCHANGED <<memory, p, args>>

(* It fails, p becomes the head it found, and the loop ends. *)
PopEnds(t) ==
  /\ Move(t, "exchange", "popped")
  /\ head # p[t]
  /\ SetP(t, head)
  /\ rest' = [rest EXCEPT ![t] = NoNode]
  /\ UNCHANGED <<head, memory, sought>>

-----------------------------------------------------------------------------
(* front and find(v); find walks from the head it loaded. *)
CallFront(t) ==
  /\ Move(t, "idle", "front")
  /\ SetP(t, head)
  /\ UNCHANGED <<head, memory, args>>

CallFind(t) ==
  /\ Move(t, "idle", "find")
  /\ SetP(t, head)
  /\ \E v \in Values : sought' = [sought EXCEPT ![t] = v]
  /\ UNCHANGED <<head, memory, rest>>

Mismatch(t) == p[t] # NoNode /\ value[p[t]] # sought[t]

FindNext(t) ==
  /\ pc[t] = "find" /\ Mismatch(t)
  /\ SetP(t, next[p[t]])
  /\ UNCHANGED <<head, memory, pc, args>>

FindEnds(t) ==
  /\ Move(t, "find", "found")
  /\ ~Mismatch(t)
  /\ UNCHANGED <<head, memory, p, args>>

(* The client drops the reference, as the end of its scope does. *)
Answered == {"popped", "front", "found"}

Drop(t) ==
  /\ pc[t] \in Answered
  /\ Goto(t, "idle")
  /\ SetP(t, NoNode)
  /\ sought' = [sought EXCEPT ![t] = NoValue]
  /\ UNCHANGED <<head, memory, rest>>

Step(t) ==
  \/ Push(t) \/ PushAgain(t) \/ PopRead(t) \/ Pop(t) \/ PopEnds(t)
  \/ FindNext(t) \/ FindEnds(t) \/ Drop(t)

Next ==
  \E t \in Threads : CallPush(t) \/ CallPop(t) \/ CallFront(t) \/ CallFind(t) \/ Step(t)

Spec == Init /\ [][Next]_vars
(* The operating system runs every thread that is inside a call. *)
Fairness == \A t \in Threads : WF_vars(Step(t))

-----------------------------------------------------------------------------
(* Type invariant; a thread outside a call keeps no node alive. *)
TypeOK ==
  /\ head \in Nodes \cup {NoNode}
  /\ value \in [Nodes -> Values \cup {NoValue}]
  /\ next \in [Nodes -> Nodes \cup {NoNode}]
  /\ p \in [Threads -> Nodes \cup {NoNode}]
  /\ rest \in [Threads -> Nodes \cup {NoNode}]
  /\ sought \in [Threads -> Values \cup {NoValue}]
  /\ \A t \in Threads : pc[t] = "idle" => p[t] = NoNode
  /\ \A t \in Threads : pc[t] \in {"push", "pop", "exchange"} => p[t] \in Nodes

(* The exchange of push_front or pop_front that succeeds adds or removes   *)
(* one value at the top: pushes that race are not lost, and a node whose   *)
(* address was the head before, left and came back does not deceive pop.   *)
Abstract == INSTANCE Stack
              WITH items <- [i \in 1 .. Cardinality(Linked(head)) |-> value[Path(head)[i-1]]]

IsStack == Abstract!StackSpec

(* The node that find(v) answered with carries v for as long as the client *)
(* holds the reference, whoever pops it and whatever is pushed meanwhile.  *)
ReferencesKeep ==
  \A t \in Threads : pc[t] = "found" /\ p[t] # NoNode => value[p[t]] = sought[t]

(* Lock freedom: a thread that loops in push_front or pop_front does so    *)
(* because the head changed, so while calls are in progress some call ends *)
(* again and again.                                                        *)
Idle(t) == pc[t] = "idle"
Returns(t) == ~Idle(t) /\ Idle(t)'

CallsKeepReturning ==
  \/ []<>(\A t \in Threads : Idle(t))
  \/ []<><<\E t \in Threads : Returns(t)>>_vars
=============================================================================
