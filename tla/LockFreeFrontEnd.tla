-------------------------- MODULE LockFreeFrontEnd --------------------------
(***************************************************************************)
(* SlabAllocator<T> of lock_free_allocator/slab_allocator.h: the objects   *)
(* that containers copy, the internal state that copies share, and the     *)
(* SingleAllocator of every size class, created on first use behind a      *)
(* check that is repeated under a lock.                                    *)
(*                                                                         *)
(* The first check reads a pointer that is not atomic.  If Ordered, stores *)
(* become visible in program order, as they do on x86 when the compiler    *)
(* leaves them alone; otherwise a thread may see the pointer to a          *)
(* SingleAllocator before what its constructor stored.                     *)
(*                                                                         *)
(* A SingleAllocator is the pool that module LockFreeAllocator shows it to *)
(* be: allocate() returns a slot that is not in use.                       *)
(***************************************************************************)
EXTENDS Integers, FiniteSets

CONSTANTS
  Threads,
  Copies,       (* the places where allocators can be constructed *)
  Internals,    (* the internal states, each used once *)
  Classes,      (* size classes below MAX_ALLOCATORS *)
  Objects,      (* SingleAllocators *)
  MaxDemand,    (* bound on the slots in use and the calls in progress *)
  Ordered,      (* TRUE or FALSE *)
  None

VARIABLES
  internal_state,   (* the internal state of every copy that exists *)
  allocators,       (* of an internal state, the object of each class *)
  mux_allocators,   (* whether the mutex of an internal state is taken *)
  status,           (* of every object *)
  made_for,         (* the internal state and class it was created for *)
  held,             (* the slots that clients use *)
  pc, copy, class,  (* of every thread; copy is the one it calls *)
  salloc,           (* the object it found *)
  arg               (* the slot it gives back *)

heap   == <<allocators, status, made_for>>
locals == <<copy, class, salloc, arg>>
vars   == <<internal_state, heap, mux_allocators, held, pc, locals>>

Goto(t, label) == pc' = [pc EXCEPT ![t] = label]
Move(t, from, to) == pc[t] = from /\ Goto(t, to)

(* new gives a fresh object; which one is told apart by nobody. *)
Any(S)    == CHOOSE x \in S : TRUE
Created   == {o \in Objects : status[o] # "none"}
Alive(c)  == internal_state[c] # None
Users(i)  == {c \in Copies : internal_state[c] = i}
Unused    == {i \in Internals : Users(i) = {} /\ \A e \in Classes : allocators[i][e] = None}
Mine(t)   == internal_state[copy[t]]
Entry(t)  == allocators[Mine(t)][class[t]]

Init ==
  /\ internal_state = [c \in Copies |-> None]
  /\ allocators = [i \in Internals |-> [e \in Classes |-> None]]
  /\ mux_allocators = [i \in Internals |-> FALSE]
  /\ status = [o \in Objects |-> "none"]
  /\ made_for = [o \in Objects |-> None]
  /\ held = {}
  /\ pc = [t \in Threads |-> "idle"]
  /\ copy = [t \in Threads |-> None]
  /\ class = [t \in Threads |-> None]
  /\ salloc = [t \in Threads |-> None]
  /\ arg = [t \in Threads |-> None]

Return(t, from) ==
  /\ Move(t, from, "idle")
  /\ copy' = [copy EXCEPT ![t] = None]
  /\ class' = [class EXCEPT ![t] = None]
  /\ salloc' = [salloc EXCEPT ![t] = None]
  /\ arg' = [arg EXCEPT ![t] = None]

-----------------------------------------------------------------------------
(* Construction, copies and destruction *)

Construct(c) ==
  /\ ~Alive(c)
  /\ Unused # {}
  /\ internal_state' = [internal_state EXCEPT ![c] = Any(Unused)]
  /\ UNCHANGED <<heap, mux_allocators, held, pc, locals>>

Copy(c, d) ==
  /\ Alive(c) /\ ~Alive(d)
  /\ internal_state' = [internal_state EXCEPT ![d] = internal_state[c]]
  /\ UNCHANGED <<heap, mux_allocators, held, pc, locals>>

(* delete allocators[j], for all j *)
Deleted(i) == {allocators[i][e] : e \in Classes} \ {None}

(* Mutant: every copy deletes. *)
DestroyEach(c) ==
  LET i == internal_state[c] IN
  /\ Alive(c)
  /\ \A t \in Threads : copy[t] # c
  /\ Users(i) = {c} => \A h \in held : made_for[h.object][1] # i
  /\ internal_state' = [internal_state EXCEPT ![c] = None]
  /\ status' = [o \in Objects |-> IF o \in Deleted(i) THEN "deleted" ELSE status[o]]
  /\ UNCHANGED <<allocators, made_for, mux_allocators, held, pc, locals>>

(* A copy dies when nobody calls it.  The last one takes the internal      *)
(* state with it; containers have returned what they allocated.            *)
Destroy(c) ==
  LET i == internal_state[c] IN
  /\ Alive(c)
  /\ \A t \in Threads : copy[t] # c
  /\ Users(i) = {c} => \A h \in held : made_for[h.object][1] # i
  /\ internal_state' = [internal_state EXCEPT ![c] = None]
  /\ status' = [o \in Objects |->
                  IF Users(i) = {c} /\ o \in Deleted(i) THEN "deleted" ELSE status[o]]
  /\ UNCHANGED <<allocators, made_for, mux_allocators, held, pc, locals>>

-----------------------------------------------------------------------------
(* allocate(n) *)

CallAllocate(t) ==
  /\ Move(t, "idle", "check")
  /\ Cardinality(held) + Cardinality({u \in Threads : pc[u] # "idle"}) < MaxDemand
  /\ \E c \in Copies, e \in Classes :
       /\ Alive(c)
       /\ copy' = [copy EXCEPT ![t] = c]
       /\ class' = [class EXCEPT ![t] = e]
  /\ UNCHANGED <<internal_state, heap, mux_allocators, held, salloc, arg>>

Check(t) ==
  /\ Move(t, "check", IF Entry(t) = None THEN "lock" ELSE "load")
  /\ UNCHANGED <<internal_state, heap, mux_allocators, held, locals>>

Lock(t) ==
  /\ Move(t, "lock", "recheck")
  /\ ~mux_allocators[Mine(t)]
  /\ mux_allocators' = [mux_allocators EXCEPT ![Mine(t)] = TRUE]
  /\ UNCHANGED <<internal_state, heap, held, locals>>

(* Mutant: the check is not repeated. *)
RecheckNot(t) ==
  /\ Move(t, "recheck", "create")
  /\ UNCHANGED <<internal_state, heap, mux_allocators, held, locals>>

Recheck(t) ==
  /\ Move(t, "recheck", IF Entry(t) = None THEN "create" ELSE "unlock")
  /\ UNCHANGED <<internal_state, heap, mux_allocators, held, locals>>

(* new: memory for the object, not yet what the constructor puts there *)
Create(t) ==
  /\ Move(t, "create", "construct")
  /\ Objects \ Created # {}
  /\ LET o == Any(Objects \ Created) IN
       /\ status' = [status EXCEPT ![o] = "raw"]
       /\ made_for' = [made_for EXCEPT ![o] = <<Mine(t), class[t]>>]
       /\ salloc' = [salloc EXCEPT ![t] = o]
  /\ UNCHANGED <<internal_state, allocators, mux_allocators, held, copy, class, arg>>

Store(t) == allocators' = [allocators EXCEPT ![Mine(t)][class[t]] = salloc[t]]
Build(t) == status' = [status EXCEPT ![salloc[t]] = "built"]

(* The constructor's stores and that of the pointer, in program order or,  *)
(* if nothing orders them, the other way round.                            *)
First(t) ==
  /\ Move(t, "construct", "second")
  /\ \/ Build(t) /\ UNCHANGED allocators
     \/ ~Ordered /\ Store(t) /\ UNCHANGED status
  /\ UNCHANGED <<internal_state, made_for, mux_allocators, held, locals>>

Second(t) ==
  /\ Move(t, "second", "unlock")
  /\ Build(t) /\ Store(t)
  /\ UNCHANGED <<internal_state, made_for, mux_allocators, held, locals>>

(* Mutant: the lock is kept. *)
UnlockForgotten(t) ==
  /\ Move(t, "unlock", "load")
  /\ UNCHANGED <<internal_state, heap, mux_allocators, held, locals>>

Unlock(t) ==
  /\ Move(t, "unlock", "load")
  /\ mux_allocators' = [mux_allocators EXCEPT ![Mine(t)] = FALSE]
  /\ UNCHANGED <<internal_state, heap, held, locals>>

(* salloc = allocators[exponent], read again *)
Load(t, from, to) ==
  /\ Move(t, from, to)
  /\ salloc' = [salloc EXCEPT ![t] = Entry(t)]
  /\ UNCHANGED <<internal_state, heap, mux_allocators, held, copy, class, arg>>

(* salloc->allocate(); nothing is modelled of a call to an object whose     *)
(* constructor has not run.                                                *)
Allocate(t) ==
  /\ Return(t, "allocate")
  /\ status[salloc[t]] = "built"
  /\ \E k \in 1 .. MaxDemand :
       LET s == [object |-> salloc[t], slot |-> k]
       IN  s \notin held /\ (\A u \in Threads : arg[u] # s) /\ held' = held \cup {s}
  /\ UNCHANGED <<internal_state, heap, mux_allocators>>

-----------------------------------------------------------------------------
(* deallocate(p, n), on any copy that compares equal to the one that       *)
(* allocated: operator== compares internal_state.                          *)
CallDeallocate(t) ==
  /\ Move(t, "idle", "find")
  /\ \E s \in held, c \in Copies :
       /\ Alive(c) /\ internal_state[c] = made_for[s.object][1]
       /\ copy' = [copy EXCEPT ![t] = c]
       /\ class' = [class EXCEPT ![t] = made_for[s.object][2]]
       /\ arg' = [arg EXCEPT ![t] = s]
       /\ held' = held \ {s}
  /\ UNCHANGED <<internal_state, heap, mux_allocators, salloc>>

(* salloc->deallocate(p) *)
Deallocate(t) ==
  /\ Return(t, "deallocate")
  /\ UNCHANGED <<internal_state, heap, mux_allocators, held>>

Step(t) ==
  \/ Check(t) \/ Lock(t) \/ Recheck(t) \/ Create(t) \/ First(t) \/ Second(t) \/ Unlock(t)
  \/ Load(t, "load", "allocate") \/ Allocate(t)
  \/ Load(t, "find", "deallocate") \/ Deallocate(t)

Gone == Unused = {} /\ (\A c \in Copies : ~Alive(c)) /\ UNCHANGED vars

Next ==
  \/ \E c \in Copies : Construct(c) \/ Destroy(c)
  \/ \E c, d \in Copies : Copy(c, d)
  \/ \E t \in Threads : CallAllocate(t) \/ CallDeallocate(t) \/ Step(t)
  \/ Gone

Spec == Init /\ [][Next]_vars
(* The operating system runs every thread that is inside a call. *)
Fairness == \A t \in Threads : WF_vars(Step(t))

-----------------------------------------------------------------------------
(* However many threads find no allocator of a class at once, one creates  *)
(* it: a second would hide the first, with the slabs it owns.              *)
OnePerClass == \A o, p \in Created : made_for[o] = made_for[p] => o = p

(* allocate() and deallocate() call an object that is constructed and not  *)
(* yet deleted.  There is one exception, where nothing orders the stores:  *)
(* the thread that creates the object has stored the pointer already.      *)
UsedWhenBuilt ==
  \A t \in Threads : pc[t] \in {"allocate", "deallocate"} =>
    /\ salloc[t] # None
    /\ \/ status[salloc[t]] = "built"
       \/ /\ ~Ordered /\ pc[t] = "allocate"
          /\ \E u \in Threads \ {t} : pc[u] = "second" /\ salloc[u] = salloc[t]

(* A slot goes back to the object it came from, by whichever copy: that    *)
(* one's queue of slabs is the one its slab belongs to.                    *)
FoundMaker ==
  \A t \in Threads : pc[t] = "deallocate" => salloc[t] = arg[t].object

(* The last copy deletes what was created through any; before, nothing is. *)
DeletedWithLast ==
  \A o \in Created :
    (status[o] = "deleted") <=> (Users(made_for[o][1]) = {})

(* Every call returns: a class is created once, so a thread waits for the  *)
(* mutex a bounded number of times.                                        *)
CallsReturn == \A t \in Threads : pc[t] # "idle" ~> pc[t] = "idle"
=============================================================================
