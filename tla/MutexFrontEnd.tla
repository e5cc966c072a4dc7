--------------------------- MODULE MutexFrontEnd ---------------------------
(***************************************************************************)
(* SlabAllocator<T> of mutex_allocator/slab_allocator.h.  Every copy has   *)
(* an array of its own of the SingleAllocators by size class: a copy takes *)
(* over the pointers its source has while it is copied, and only the mutex *)
(* is shared from then on.  All allocators compare equal, so a client may  *)
(* return a pointer through any of them.                                   *)
(*                                                                         *)
(* Threads share copies, as benchmark-multi-threaded.cpp does, and make    *)
(* copies of a shared one, as tests/multi-threaded.cpp does.  Stores are   *)
(* seen in program order; module LockFreeFrontEnd, whose check is the      *)
(* same, has what else may happen.  A SingleAllocator is known by what it  *)
(* made; its slots are in module MutexAllocator.                           *)
(***************************************************************************)
EXTENDS Integers, FiniteSets

CONSTANTS
  Threads,
  Copies,       (* the places where allocators can be constructed *)
  Classes,      (* the size classes below MAX_ALLOCATORS *)
  Objects,      (* bound: SingleAllocators *)
  MaxDemand,    (* bound on the slots in use and the calls in progress *)
  None

VARIABLES
  family,           (* of every copy that exists, the one that made its mutex *)
  allocators,       (* of every copy, the object of each class *)
  source, rest,     (* of a copy being written: from which, and what is to come *)
  mux_allocators,   (* whether the mutex of a family is taken *)
  made_for,         (* of every object, the family and class it was created for *)
  held,             (* the pointers that clients have *)
  pc, copy, class,  (* of every thread; copy is the one it calls *)
  salloc,           (* the object it found *)
  arg               (* the pointer it gives back *)

arrays == <<family, allocators, source, rest>>
locals == <<copy, class, salloc, arg>>
vars   == <<arrays, mux_allocators, made_for, held, pc, locals>>

Goto(t, label) == pc' = [pc EXCEPT ![t] = label]
Move(t, from, to) == pc[t] = from /\ Goto(t, to)

Empty     == [e \in Classes |-> None]
Alive(c)  == family[c] # None
Ready(c)  == Alive(c) /\ rest[c] = {}
InUse(c)  == (\E t \in Threads : copy[t] = c) \/ (\E d \in Copies : source[d] = c)
Entry(t)  == allocators[copy[t]][class[t]]
Mine(t)   == family[copy[t]]
Busy      == {t \in Threads : pc[t] # "idle"}

(* new gives a fresh object; which one is told apart by nobody. *)
Unused    == {o \in Objects : made_for[o] = None}

(* The slots of an object are numbered as they are taken. *)
Taken(o)  == {h.slot : h \in {g \in held : g.object = o}}

Init ==
  /\ family = [c \in Copies |-> None]
  /\ allocators = [c \in Copies |-> Empty]
  /\ source = [c \in Copies |-> None]
  /\ rest = [c \in Copies |-> {}]
  /\ mux_allocators = [c \in Copies |-> FALSE]
  /\ made_for = [o \in Objects |-> None]
  /\ held = {}
  /\ pc = [t \in Threads |-> "idle"]
  /\ copy = [t \in Threads |-> None]
  /\ class = [t \in Threads |-> None]
  /\ salloc = [t \in Threads |-> None]
  /\ arg = [t \in Threads |-> None]

Return(t, from) ==
  /\ Move(t, from, "idle")
  /\ copy' = [copy EXCEPT ![t] = None]
  /\ class' = [class EXCEPT ![t] = None]
  /\ salloc' = [salloc EXCEPT ![t] = None]
  /\ arg' = [arg EXCEPT ![t] = None]

-----------------------------------------------------------------------------
(* Construction, copies and destruction.  A copy is written and destroyed  *)
(* when nobody calls it or copies it; its source may be in use.            *)

(* Families have the names of their first copies, each used once. *)
Construct(c) ==
  /\ ~Alive(c)
  /\ \A d \in Copies : family[d] # c
  /\ \A o \in Objects : made_for[o] # None => made_for[o][1] # c
  /\ family' = [family EXCEPT ![c] = c]
  /\ allocators' = [allocators EXCEPT ![c] = Empty]
  /\ UNCHANGED <<source, rest, mux_allocators, made_for, held, pc, locals>>

(* For each pointer in use, `known' has the copies that were called or     *)
(* taken later from one that was: h after d has become one of c's copies,  *)
(* and after d is no more what it was.                                     *)
Known(h, c, d) ==
  [h EXCEPT !.known = IF c \in h.known THEN h.known \cup {d} ELSE h.known \ {d}]
Forgotten(h, d) == [h EXCEPT !.known = h.known \ {d}]

(* The pointer to the mutex is taken over, and memcpy begins. *)
Begin(c, d) ==
  /\ Ready(c) /\ c # d
  /\ family' = [family EXCEPT ![d] = family[c]]
  /\ source' = [source EXCEPT ![d] = c]
  /\ rest' = [rest EXCEPT ![d] = Classes]
  /\ held' = {Known(h, c, d) : h \in held}

Copy(c, d) ==
  /\ ~Alive(d)
  /\ Begin(c, d)
  /\ allocators' = [allocators EXCEPT ![d] = Empty]
  /\ UNCHANGED <<mux_allocators, made_for, pc, locals>>

Assign(c, d) ==
  /\ Ready(d) /\ ~InUse(d)
  /\ Begin(c, d)
  /\ UNCHANGED <<allocators, mux_allocators, made_for, pc, locals>>

Written(d, e) ==
  /\ rest' = [rest EXCEPT ![d] = rest[d] \ {e}]
  /\ source' = [source EXCEPT ![d] = IF rest[d] = {e} THEN None ELSE source[d]]
  /\ UNCHANGED <<family, mux_allocators, made_for, held, pc, locals>>

(* Mutant: memcpy is told the number of pointers for their size. *)
CopyShort(d, e) ==
  /\ e \in rest[d]
  /\ UNCHANGED allocators
  /\ Written(d, e)

(* memcpy, under no lock: threads may be creating what it reads. *)
CopyEntry(d, e) ==
  /\ e \in rest[d]
  /\ allocators' = [allocators EXCEPT ![d][e] = allocators[source[d]][e]]
  /\ Written(d, e)

(* ~SlabAllocator does nothing: objects and mutex are leaked. *)
Destroy(c) ==
  /\ Ready(c) /\ ~InUse(c)
  /\ family' = [family EXCEPT ![c] = None]
  /\ allocators' = [allocators EXCEPT ![c] = Empty]
  /\ held' = {Forgotten(h, c) : h \in held}
  /\ UNCHANGED <<source, rest, mux_allocators, made_for, pc, locals>>

-----------------------------------------------------------------------------
(* allocate(n) *)

(* The call, and the first check, under no lock.  Bound: there is an       *)
(* object for every call that may create one.                              *)
Check(t) ==
  \E c \in Copies, e \in Classes :
    /\ Ready(c)
    /\ Move(t, "idle", IF allocators[c][e] = None THEN "lock" ELSE "load")
    /\ Cardinality(held) + Cardinality(Busy) < MaxDemand
    /\ allocators[c][e] # None \/ Cardinality(Busy) < Cardinality(Unused)
    /\ copy' = [copy EXCEPT ![t] = c]
    /\ class' = [class EXCEPT ![t] = e]
    /\ UNCHANGED <<arrays, mux_allocators, made_for, held, salloc, arg>>

Lock(t) ==
  /\ Move(t, "lock", "recheck")
  /\ ~mux_allocators[Mine(t)]
  /\ mux_allocators' = [mux_allocators EXCEPT ![Mine(t)] = TRUE]
  /\ UNCHANGED <<arrays, made_for, held, locals>>

(* Mutant: the check is not repeated. *)
RecheckNot(t) ==
  /\ Move(t, "recheck", "create")
  /\ UNCHANGED <<arrays, mux_allocators, made_for, held, locals>>

Recheck(t) ==
  /\ Move(t, "recheck", IF Entry(t) = None THEN "create" ELSE "unlock")
  /\ UNCHANGED <<arrays, mux_allocators, made_for, held, locals>>

(* new SingleAllocator, which nobody sees until its pointer is stored *)
Create(t) ==
  /\ Move(t, "create", "unlock")
  /\ Unused # {}
  /\ LET o == CHOOSE o \in Unused : TRUE IN
       /\ made_for' = [made_for EXCEPT ![o] = <<Mine(t), class[t]>>]
       /\ allocators' = [allocators EXCEPT ![copy[t]][class[t]] = o]
  /\ UNCHANGED <<family, source, rest, mux_allocators, held, locals>>

Unlock(t) ==
  /\ Move(t, "unlock", "load")
  /\ mux_allocators' = [mux_allocators EXCEPT ![Mine(t)] = FALSE]
  /\ UNCHANGED <<arrays, made_for, held, locals>>

(* allocators[exponent], read for the call that follows *)
Load(t) ==
  /\ Move(t, "load", "allocate")
  /\ salloc' = [salloc EXCEPT ![t] = Entry(t)]
  /\ UNCHANGED <<arrays, mux_allocators, made_for, held, copy, class, arg>>

(* salloc->allocate() *)
Allocate(t) ==
  /\ Return(t, "allocate")
  /\ salloc[t] # None
  /\ \E k \in (1 .. MaxDemand) \ Taken(salloc[t]) :
       /\ 1 .. k - 1 \subseteq Taken(salloc[t])
       /\ held' = held \cup {[object |-> salloc[t], slot |-> k,
                              class |-> class[t], known |-> {copy[t]}]}
  /\ UNCHANGED <<arrays, mux_allocators, made_for>>

-----------------------------------------------------------------------------
(* deallocate(p, n): operator== is always true, so any copy may be called. *)
Find(t) ==
  /\ Move(t, "idle", "deallocate")
  /\ \E h \in held, c \in Copies :
       /\ Ready(c)
       /\ copy' = [copy EXCEPT ![t] = c]
       /\ class' = [class EXCEPT ![t] = h.class]
       /\ salloc' = [salloc EXCEPT ![t] = allocators[c][h.class]]
       /\ arg' = [arg EXCEPT ![t] = [object |-> h.object, known |-> c \in h.known]]
       /\ held' = held \ {h}
  /\ UNCHANGED <<arrays, mux_allocators, made_for>>

(* salloc->deallocate(p).  An object that has not made the slot finds its  *)
(* slab all the same, by the address, frees the slot there, and takes the  *)
(* slab into its own queue if it was full.                                 *)
Deallocate(t) ==
  /\ Return(t, "deallocate")
  /\ salloc[t] # None
  /\ UNCHANGED <<arrays, mux_allocators, made_for, held>>

(* A member of a null pointer is read. *)
Crash(t) ==
  /\ pc[t] \in {"allocate", "deallocate"} /\ salloc[t] = None
  /\ Goto(t, "crashed")
  /\ UNCHANGED <<arrays, mux_allocators, made_for, held, locals>>

Crashed == \E t \in Threads : pc[t] = "crashed"

(* The program has crashed or is over. *)
Ended ==
  /\ Crashed \/ \A c \in Copies : ~Alive(c)
  /\ UNCHANGED vars

Step(t) ==
  \/ Check(t) \/ Lock(t) \/ Recheck(t) \/ Create(t) \/ Unlock(t) \/ Load(t) \/ Allocate(t)
  \/ Find(t) \/ Deallocate(t) \/ Crash(t)

Next ==
  \/ /\ ~Crashed
     /\ \/ \E c \in Copies : Construct(c) \/ Destroy(c)
        \/ \E c, d \in Copies : Copy(c, d) \/ Assign(c, d)
        \/ \E d \in Copies, e \in Classes : CopyEntry(d, e)
        \/ \E t \in Threads : Step(t)
  \/ Ended

Spec == Init /\ [][Next]_vars

-----------------------------------------------------------------------------
(* A pointer goes back to the object it came from through the copy that    *)
(* allocated it and through every copy taken from that one later, whoever  *)
(* creates classes in them meanwhile: two first requests at once do not    *)
(* overwrite each other's object.                                          *)
FoundMaker ==
  \A t \in Threads :
    pc[t] = "deallocate" /\ arg[t].known => salloc[t] = arg[t].object

(* Through another copy, though it compares equal, a pointer may find no   *)
(* object, and only this crashes the program: no allocation does.          *)
CrashedApart ==
  \A t \in Threads : pc[t] = "crashed" => arg[t] \in [object : Objects, known : {FALSE}]

(* What it finds otherwise has slots of the right size, and was created    *)
(* behind the mutex of the copy that is called.                            *)
RightObject ==
  \A t \in Threads :
    pc[t] \in {"allocate", "deallocate"} /\ salloc[t] # None =>
      made_for[salloc[t]] = <<Mine(t), class[t]>>

(* Equal allocators can return each other's pointers: what operator==      *)
(* answers for all of them (slab_allocator.h:121-125), and what            *)
(* deallocate() sets out to do (:113): "Find the correct allocator for     *)
(* this size".                                                             *)
EqualsReturn == ~Crashed
=============================================================================
