------------------------- MODULE Concurrent_proof --------------------------
(***************************************************************************)
(* Proofs about the three SlabAllocators, for any number of threads,       *)
(* copies, classes and objects: what creation on first use, behind a check *)
(* that is repeated under a lock, promises to those who do not lock.       *)
(*                                                                         *)
(* MCConcurrent puts the allocators side by side, and a step is a step of  *)
(* one of them, so each has an invariant of its own.                       *)
(***************************************************************************)
EXTENDS MCConcurrent, DataLemmas, FiniteSetTheorems

-----------------------------------------------------------------------------
(* The vector allocator: one Slab, and bitmaps that nobody locks *)

SlabSteps ==
  {"idle", "check", "lock", "construct", "publish", "unlock", "find_block", "resize",
   "find_slot", "aborted", "load_clear", "store_clear", "is_full", "clear_block", "pointer_to",
   "load_set", "store_set", "set_block"}

(* Where the mutex is held, and where the Slab is taken for granted. *)
InCreation == {"construct", "publish", "unlock"}
UsesSlab   ==
  {"unlock", "find_block", "find_slot", "load_clear", "store_clear", "is_full", "clear_block",
   "pointer_to"}

(* Where a thread has the slot it takes or gives back. *)
HasSlot ==
  {"load_clear", "store_clear", "is_full", "clear_block", "pointer_to", "load_set", "store_set"}

Positions == Nat \ {0}

VectorTyped ==
  /\ slab \in Slabs \cup {None}
  /\ created \subseteq Slabs
  /\ slabPc \in [FewThreads -> SlabSteps]
  /\ new \in [FewThreads -> Slabs \cup {None}]
  /\ word \in [FewThreads -> SUBSET Positions]
  /\ slot \in [FewThreads -> Positions \cup {None}]

(* Whoever is in the creation is alone there, and the Slab is in the table *)
(* before the pointer to it is stored.                                     *)
VectorCreation ==
  /\ \A t, u \in FewThreads : slabPc[t] \in InCreation /\ slabPc[u] \in InCreation => t = u
  /\ \A t \in FewThreads : slabPc[t] \in InCreation => mux_slabs
  /\ \A t \in FewThreads : slabPc[t] = "construct" => created = {}
  /\ \A t \in FewThreads : slabPc[t] = "publish" =>
       new[t] = table /\ new[t] # None /\ created # {}
  /\ created = {} => slab = None
  /\ created # {} => created = {table}
  /\ slab # None => slab = table
  /\ slab = None =>
       created = {} \/ \E t \in FewThreads : slabPc[t] = "publish"
  /\ \A t \in FewThreads : slabPc[t] \in UsesSlab => slab # None

(* No word that a thread has loaded, and may store again later, ever had   *)
(* the bit of the metadata; nor does a client hold that slot.              *)
VectorBits ==
  /\ free_slot_list \subseteq Positions
  /\ \A t \in FewThreads : slabPc[t] \in HasSlot => slot[t] \in Positions
  /\ \A h \in slabHeld : h.slot \in Positions /\ h.in_slab

VectorSound == VectorTyped /\ VectorCreation /\ VectorBits

LEMMA InitVector == Vector!Init => VectorSound
  BY NoneAssumption DEF Vector!Init, VectorSound, VectorTyped, VectorCreation, VectorBits,
     SlabSteps, InCreation, UsesSlab, HasSlot, Positions

LEMMA LowestBit ==
  ASSUME NEW S \in SUBSET Positions, S # {}
  PROVE  Vector!Min(S) \in S
<1>1. Vector!Min(S) = Min(S)
  BY DEF Vector!Min, Min
<1>2. QED
  BY <1>1, MinIsLeast DEF Positions

LEMMA StepVector ==
  ASSUME VectorSound, Vector!Next
  PROVE  VectorSound'
<1>a. VectorTyped /\ VectorCreation /\ VectorBits
  BY DEF VectorSound
<1> USE DEF VectorTyped, VectorCreation, VectorBits, VectorSound, Vector!Move, Vector!Goto,
        Vector!Return, Vector!slabVars, Vector!bitmaps, Vector!locals,
        SlabSteps, InCreation, UsesSlab, HasSlot
<1>1. ASSUME NEW t \in FewThreads, Vector!CallAllocate(t) PROVE VectorSound'
  BY <1>1, <1>a, NoneAssumption DEF Vector!CallAllocate
<1>2. ASSUME NEW t \in FewThreads, Vector!Check(t) PROVE VectorSound'
  BY <1>2, <1>a, NoneAssumption DEF Vector!Check
<1>3. ASSUME NEW t \in FewThreads, Vector!Lock(t) PROVE VectorSound'
  BY <1>3, <1>a, NoneAssumption DEF Vector!Lock
<1>4. ASSUME NEW t \in FewThreads, Vector!Construct(t) PROVE VectorSound'
  <2>1. PICK s \in Slabs : /\ created' = {s} /\ table' = s
                           /\ new' = [new EXCEPT ![t] = s]
    BY <1>4, <1>a DEF Vector!Construct
  <2>2. 1 .. BlockSlots - 1 \subseteq Positions
    BY BlockSlotsAssumption DEF Positions
  <2>3. /\ slabPc[t] = "construct" /\ slabPc' = [slabPc EXCEPT ![t] = "publish"]
        /\ free_slot_list' \subseteq Positions
        /\ slab' = slab /\ mux_slabs' = mux_slabs /\ slabHeld' = slabHeld
        /\ word' = word /\ slot' = slot
    BY <1>4, <2>2 DEF Vector!Construct
  <2>4. slab = None /\ \A u \in FewThreads : slabPc[u] \notin UsesSlab
    BY <1>a, <2>3
  <2>5. VectorTyped'
    BY <1>a, <2>1, <2>3
  <2>6. VectorCreation'
    BY <1>a, <2>1, <2>3, <2>4, NoneAssumption
  <2>7. VectorBits'
    BY <1>a, <2>3
  <2>8. QED
    BY <2>5, <2>6, <2>7
<1>5. ASSUME NEW t \in FewThreads, Vector!Publish(t) PROVE VectorSound'
  <2>1. /\ slabPc[t] = "publish" /\ slabPc' = [slabPc EXCEPT ![t] = "unlock"]
        /\ slab' = new[t] /\ table' = table /\ created' = created
        /\ mux_slabs' = mux_slabs /\ slabHeld' = slabHeld
        /\ free_slot_list' = free_slot_list
        /\ new' = new /\ word' = word /\ slot' = slot
    BY <1>5 DEF Vector!Publish
  <2>2. new[t] = table /\ new[t] # None /\ new[t] \in Slabs \cup {None} /\ created # {}
    BY <1>a, <2>1
  <2>3. VectorTyped'
    BY <1>a, <2>1, <2>2
  <2>4. VectorCreation'
    BY <1>a, <2>1, <2>2
  <2>5. VectorBits'
    BY <1>a, <2>1
  <2>6. QED
    BY <2>3, <2>4, <2>5
<1>6. ASSUME NEW t \in FewThreads, Vector!Unlock(t) PROVE VectorSound'
  BY <1>6, <1>a, NoneAssumption DEF Vector!Unlock
<1>7. ASSUME NEW t \in FewThreads, Vector!FindBlock(t) PROVE VectorSound'
  BY <1>7, <1>a, NoneAssumption DEF Vector!FindBlock
<1>8. ASSUME NEW t \in FewThreads, Vector!FindSlot(t) PROVE VectorSound'
  <2>1. /\ slabPc[t] = "find_slot" /\ slabPc' = [slabPc EXCEPT ![t] = "load_clear"]
        /\ free_slot_list # {} /\ free_slot_list' = free_slot_list
        /\ slot' = [slot EXCEPT ![t] = Vector!Min(free_slot_list)]
        /\ slab' = slab /\ table' = table /\ created' = created
        /\ mux_slabs' = mux_slabs /\ slabHeld' = slabHeld
        /\ new' = new /\ word' = word
    BY <1>8 DEF Vector!FindSlot
  <2>2. Vector!Min(free_slot_list) \in Positions
    BY <1>a, <2>1, LowestBit
  <2>3. VectorTyped'
    BY <1>a, <2>1, <2>2
  <2>4. VectorCreation'
    BY <1>a, <2>1
  <2>5. VectorBits'
    BY <1>a, <2>1, <2>2
  <2>6. QED
    BY <2>3, <2>4, <2>5
<1>9. ASSUME NEW t \in FewThreads, Vector!Abort(t) PROVE VectorSound'
  BY <1>9, <1>a, NoneAssumption DEF Vector!Abort
<1>10. ASSUME NEW t \in FewThreads, Vector!StoreClear(t) PROVE VectorSound'
  BY <1>10, <1>a, NoneAssumption DEF Vector!StoreClear
<1>11. ASSUME NEW t \in FewThreads, Vector!IsFull(t) PROVE VectorSound'
  BY <1>11, <1>a, NoneAssumption DEF Vector!IsFull
<1>12. ASSUME NEW t \in FewThreads, Vector!ClearBlock(t) PROVE VectorSound'
  BY <1>12, <1>a, NoneAssumption DEF Vector!ClearBlock
<1>13. ASSUME NEW t \in FewThreads, Vector!PointerTo(t) PROVE VectorSound'
  <2>1. slab = table /\ slot[t] \in Positions
    BY <1>13, <1>a DEF Vector!PointerTo
  <2>2. \A h \in slabHeld' : h.slot \in Positions /\ h.in_slab
    <3> DEFINE r == [thread |-> t, slot |-> slot[t], in_slab |-> table = slab]
    <3>1. slabHeld' = slabHeld \cup {r}
      BY <1>13 DEF Vector!PointerTo
    <3>2. r.slot = slot[t] /\ r.in_slab = (table = slab)
      OBVIOUS
    <3>3. \A h \in slabHeld : h.slot \in Positions /\ h.in_slab
      BY <1>a
    <3> HIDE DEF r
    <3>4. QED
      BY <2>1, <3>1, <3>2, <3>3
  <2>3. QED
    BY <1>13, <1>a, <2>2, NoneAssumption DEF Vector!PointerTo
<1>14. ASSUME NEW t \in FewThreads, Vector!CallDeallocate(t) PROVE VectorSound'
  BY <1>14, <1>a, NoneAssumption DEF Vector!CallDeallocate, Positions
<1>15. ASSUME NEW t \in FewThreads,
             \/ Vector!LoadWord(t, "load_clear", "store_clear")
             \/ Vector!LoadWord(t, "load_set", "store_set")
       PROVE  VectorSound'
  BY <1>15, <1>a, NoneAssumption DEF Vector!LoadWord
<1>16. ASSUME NEW t \in FewThreads, Vector!StoreSet(t) PROVE VectorSound'
  BY <1>16, <1>a, NoneAssumption DEF Vector!StoreSet
<1>17. ASSUME NEW t \in FewThreads, Vector!SetBlock(t) PROVE VectorSound'
  BY <1>17, <1>a, NoneAssumption DEF Vector!SetBlock
<1>18. CASE Vector!Ended
  BY <1>18, <1>a DEF Vector!Ended, Vector!vars
<1>19. QED
  BY <1>1, <1>2, <1>3, <1>4, <1>5, <1>6, <1>7, <1>8, <1>9, <1>10, <1>11, <1>12, <1>13, <1>14, <1>15, <1>16, <1>17, <1>18 DEF Vector!Next

(* Steps of the other parts do not touch this one. *)
LEMMA RestVector == VectorSound /\ UNCHANGED vectorVars => VectorSound'
  BY DEF VectorSound, VectorTyped, VectorCreation, VectorBits, vectorVars

LEMMA VectorAnswers ==
  VectorSound => Vector!OneSlab /\ Vector!SlabRegistered /\ Vector!MetadataSafe
<1> SUFFICES ASSUME VectorSound
             PROVE  Vector!OneSlab /\ Vector!SlabRegistered /\ Vector!MetadataSafe
  OBVIOUS
<1>a. VectorTyped /\ VectorCreation /\ VectorBits
  BY DEF VectorSound
<1>0. Vector!Cardinality(created) = Cardinality(created)
  BY DEF Vector!Cardinality, Cardinality
<1>1. Cardinality(created) <= 1
  <2>1. created = {} \/ created = {table}
    BY <1>a DEF VectorCreation
  <2>2. Cardinality({}) = 0 /\ Cardinality({table}) = 1
    BY FS_EmptySet, FS_Singleton
  <2>3. QED
    BY <2>1, <2>2
<1>2. slab # None => table = slab
  BY <1>a DEF VectorCreation
<1>3. Vector!SlabRegistered
  BY <1>a DEF VectorBits, Vector!SlabRegistered
<1>4. Vector!MetadataSafe
  BY <1>a, NoneAssumption DEF VectorBits, VectorTyped, Positions, Vector!MetadataSafe
<1>5. QED
  BY <1>0, <1>1, <1>2, <1>3, <1>4 DEF Vector!OneSlab

-----------------------------------------------------------------------------
(* The mutex allocator: every copy has an array of its own *)

Made     == MutexCopies \X MutexClasses
Pointers == [object : MutexObjects, slot : 1 .. MutexDemand, class : MutexClasses,
             known : SUBSET MutexCopies]
Returned == [object : MutexObjects, known : BOOLEAN]

CopySteps ==
  {"idle", "lock", "recheck", "create", "unlock", "load", "allocate", "deallocate", "crashed"}

(* Where the mutex of the family is held. *)
InFamily(t) == copyPc[t] \in {"recheck", "create", "unlock"}

CopiesTyped ==
  /\ family \in [MutexCopies -> MutexCopies \cup {None}]
  /\ copyAllocators \in [MutexCopies -> [MutexClasses -> MutexObjects \cup {None}]]
  /\ source \in [MutexCopies -> MutexCopies \cup {None}]
  /\ copyRest \in [MutexCopies -> SUBSET MutexClasses]
  /\ familyMux \in [MutexCopies -> BOOLEAN]
  /\ copyMadeFor \in [MutexObjects -> Made \cup {None}]
  /\ copyHeld \subseteq Pointers
  /\ copyPc \in [Threads -> CopySteps]
  /\ calledCopy \in [Threads -> MutexCopies \cup {None}]
  /\ calledClass \in [Threads -> MutexClasses \cup {None}]
  /\ copySalloc \in [Threads -> MutexObjects \cup {None}]
  /\ copyArg \in [Threads -> Returned \cup {None}]

(* A thread inside a call has a copy that exists and is not being written; *)
(* what is being written has a source of the same kind.                    *)
CopiesCalled ==
  /\ \A t \in Threads : copyPc[t] # "idle" =>
       /\ calledCopy[t] \in MutexCopies /\ calledClass[t] \in MutexClasses
       /\ family[calledCopy[t]] # None /\ copyRest[calledCopy[t]] = {}
  /\ \A d \in MutexCopies : copyRest[d] # {} =>
       /\ family[d] # None
       /\ source[d] \in MutexCopies
       /\ family[source[d]] = family[d] /\ copyRest[source[d]] = {}

(* The mutex of a family has one owner, whichever copies are called. *)
CopiesLocked ==
  /\ \A t \in Threads : InFamily(t) => familyMux[Mutex!Mine(t)]
  /\ \A t, u \in Threads : InFamily(t) /\ InFamily(u) /\ t # u => Mutex!Mine(t) # Mutex!Mine(u)

(* What a copy has, was made for its family and the class, once it is its  *)
(* own and not what memcpy has still to overwrite.                         *)
CopiesMade ==
  \A c \in MutexCopies, e \in MutexClasses :
    copyAllocators[c][e] # None /\ e \notin copyRest[c] =>
      copyMadeFor[copyAllocators[c][e]] = <<family[c], e>> /\ family[c] # None

(* A copy that is known for a pointer has the object it came from, or will *)
(* read it from one that has.                                              *)
CopiesKnown ==
  \A h \in copyHeld : \A c \in h.known :
    /\ family[c] # None
    /\ IF h.class \in copyRest[c] THEN source[c] \in h.known
                                  ELSE copyAllocators[c][h.class] = h.object

(* What a thread takes for granted from its checks on. *)
CopiesFind ==
  /\ \A t \in Threads : copyPc[t] = "create" => Mutex!Entry(t) = None
  /\ \A t \in Threads : copyPc[t] \in {"unlock", "load", "allocate"} => Mutex!Entry(t) # None
  /\ \A t \in Threads : copyPc[t] = "allocate" => copySalloc[t] = Mutex!Entry(t)
  /\ \A t \in Threads : copyPc[t] \in {"deallocate", "crashed"} =>
       copyArg[t] \in Returned /\ (copyArg[t].known => copySalloc[t] = copyArg[t].object)
  /\ \A t \in Threads : copyPc[t] = "deallocate" /\ copySalloc[t] # None =>
       copyMadeFor[copySalloc[t]] = <<Mutex!Mine(t), calledClass[t]>>
  /\ \A t \in Threads : copyPc[t] = "crashed" => copySalloc[t] = None

CopiesSound ==
  CopiesTyped /\ CopiesCalled /\ CopiesLocked /\ CopiesMade /\ CopiesKnown /\ CopiesFind

LEMMA InitCopies == Mutex!Init => CopiesSound
  BY DEF Mutex!Init, Mutex!Empty, CopiesSound, CopiesTyped, CopiesCalled, CopiesLocked, CopiesMade,
     CopiesKnown, CopiesFind, InFamily, CopySteps

(* The other copies for which a pointer is known. *)
LEMMA PointerKnown ==
  ASSUME NEW h \in Pointers, NEW K \in SUBSET MutexCopies
  PROVE  /\ [h EXCEPT !.known = K] \in Pointers
         /\ [h EXCEPT !.known = K].object = h.object
         /\ [h EXCEPT !.known = K].class = h.class
         /\ [h EXCEPT !.known = K].known = K
  BY DEF Pointers

(* A copy in use, and one that is being written, keep their family, their  *)
(* place and their array when another copy is made or destroyed.           *)
LEMMA CopiesConstruct ==
  ASSUME CopiesSound, NEW c \in MutexCopies, Mutex!Construct(c)
  PROVE  CopiesSound'
<1>a. CopiesTyped /\ CopiesCalled /\ CopiesLocked /\ CopiesMade /\ CopiesKnown /\ CopiesFind
  BY DEF CopiesSound
<1>1. /\ family[c] = None
      /\ family' = [family EXCEPT ![c] = c]
      /\ copyAllocators' = [copyAllocators EXCEPT ![c] = Mutex!Empty]
      /\ UNCHANGED <<source, copyRest, familyMux, copyMadeFor, copyHeld>>
      /\ UNCHANGED <<copyPc, calledCopy, calledClass, copySalloc, copyArg>>
  BY DEF Mutex!Construct, Mutex!Alive, Mutex!locals
<1>2. \A t \in Threads : copyPc[t] # "idle" =>
        Mutex!Mine(t)' = Mutex!Mine(t) /\ Mutex!Entry(t)' = Mutex!Entry(t)
  BY <1>a, <1>1 DEF CopiesTyped, CopiesCalled, Mutex!Mine, Mutex!Entry
<1>3. \A e \in MutexClasses : copyAllocators'[c][e] = None
  BY <1>a, <1>1 DEF CopiesTyped, Mutex!Empty
<1>4. CopiesTyped'
  BY <1>a, <1>1 DEF CopiesTyped, Mutex!Empty
<1>5. CopiesCalled'
  BY <1>a, <1>1, NoneAssumption DEF CopiesTyped, CopiesCalled
<1>6. CopiesLocked'
  BY <1>a, <1>1, <1>2 DEF CopiesLocked, InFamily
<1>7. CopiesMade'
  BY <1>a, <1>1, <1>3 DEF CopiesTyped, CopiesMade
<1>8. CopiesKnown'
  <2>1. \A h \in copyHeld : h.known \subseteq MutexCopies /\ c \notin h.known
    BY <1>a, <1>1 DEF CopiesTyped, CopiesKnown, Pointers
  <2>2. QED
    BY <1>a, <1>1, <2>1 DEF CopiesTyped, CopiesKnown
<1>9. CopiesFind'
  BY <1>a, <1>1, <1>2 DEF CopiesFind
<1>10. QED
  BY <1>4, <1>5, <1>6, <1>7, <1>8, <1>9 DEF CopiesSound

(* d has become a copy of c, whose entries are still to come. *)
LEMMA CopiesBegin ==
  ASSUME CopiesSound, NEW c \in MutexCopies, NEW d \in MutexCopies,
         Mutex!Copy(c, d) \/ Mutex!Assign(c, d)
  PROVE  CopiesSound'
<1>a. CopiesTyped /\ CopiesCalled /\ CopiesLocked /\ CopiesMade /\ CopiesKnown /\ CopiesFind
  BY DEF CopiesSound
<1>1. /\ family[c] # None /\ copyRest[c] = {} /\ c # d
      /\ family' = [family EXCEPT ![d] = family[c]]
      /\ source' = [source EXCEPT ![d] = c]
      /\ copyRest' = [copyRest EXCEPT ![d] = MutexClasses]
      /\ copyHeld' = {Mutex!Known(h, c, d) : h \in copyHeld}
      /\ UNCHANGED <<familyMux, copyMadeFor>>
      /\ UNCHANGED <<copyPc, calledCopy, calledClass, copySalloc, copyArg>>
  BY DEF Mutex!Copy, Mutex!Assign, Mutex!Begin, Mutex!Ready, Mutex!Alive, Mutex!locals
<1>2. /\ copyAllocators' \in [MutexCopies -> [MutexClasses -> MutexObjects \cup {None}]]
      /\ \A x \in MutexCopies : x # d => copyAllocators'[x] = copyAllocators[x]
  <2>1. CASE Mutex!Copy(c, d)
    BY <1>a, <2>1 DEF CopiesTyped, Mutex!Copy, Mutex!Empty
  <2>2. CASE Mutex!Assign(c, d)
    BY <1>a, <2>2 DEF CopiesTyped, Mutex!Assign
  <2>3. QED
    BY <2>1, <2>2
<1>3. /\ \A t \in Threads : copyPc[t] # "idle" => calledCopy[t] # d
      /\ \A x \in MutexCopies : copyRest[x] # {} => x # c /\ source[x] # d
      /\ copyRest[d] = {}
  BY <1>a, <1>1, NoneAssumption
     DEF CopiesTyped, CopiesCalled, Mutex!Copy, Mutex!Assign, Mutex!InUse, Mutex!Ready, Mutex!Alive
<1>4. \A t \in Threads : copyPc[t] # "idle" =>
        Mutex!Mine(t)' = Mutex!Mine(t) /\ Mutex!Entry(t)' = Mutex!Entry(t)
  BY <1>a, <1>1, <1>2, <1>3 DEF CopiesTyped, CopiesCalled, Mutex!Mine, Mutex!Entry
<1>5. ASSUME NEW h \in copyHeld
      PROVE  /\ Mutex!Known(h, c, d) \in Pointers
             /\ Mutex!Known(h, c, d).object = h.object
             /\ Mutex!Known(h, c, d).class = h.class
             /\ c \in h.known => Mutex!Known(h, c, d).known = h.known \cup {d}
             /\ c \notin h.known => Mutex!Known(h, c, d).known = h.known \ {d}
  <2> DEFINE K == IF c \in h.known THEN h.known \cup {d} ELSE h.known \ {d}
  <2>1. h \in Pointers /\ h.known \subseteq MutexCopies
    BY <1>a DEF CopiesTyped, Pointers
  <2>2. K \in SUBSET MutexCopies
    BY <2>1
  <2>3. Mutex!Known(h, c, d) = [h EXCEPT !.known = K]
    BY DEF Mutex!Known
  <2>4. /\ c \in h.known => K = h.known \cup {d}
        /\ c \notin h.known => K = h.known \ {d}
    OBVIOUS
  <2> HIDE DEF K
  <2>5. QED
    BY <2>1, <2>2, <2>3, <2>4, PointerKnown
<1>6. CopiesTyped'
  <2>1. copyHeld' \subseteq Pointers
    BY <1>1, <1>5
  <2>2. QED
    BY <1>a, <1>1, <1>2, <2>1 DEF CopiesTyped
<1>7. CopiesCalled'
  BY <1>a, <1>1, <1>3 DEF CopiesTyped, CopiesCalled
<1>8. CopiesLocked'
  BY <1>a, <1>1, <1>4 DEF CopiesLocked, InFamily
<1>9. CopiesMade'
  BY <1>a, <1>1, <1>2 DEF CopiesTyped, CopiesMade
<1>10. CopiesKnown'
  <2> SUFFICES ASSUME NEW g \in copyHeld', NEW x \in g.known
               PROVE  /\ family'[x] # None
                      /\ IF g.class \in copyRest'[x] THEN source'[x] \in g.known
                         ELSE copyAllocators'[x][g.class] = g.object
    BY DEF CopiesKnown
  <2>1. PICK h \in copyHeld : g = Mutex!Known(h, c, d)
    BY <1>1
  <2>2. /\ g.object = h.object /\ g.class = h.class
        /\ h.class \in MutexClasses /\ h.known \subseteq MutexCopies
        /\ c \in h.known => g.known = h.known \cup {d}
        /\ c \notin h.known => g.known = h.known \ {d}
    BY <1>a, <1>5, <2>1 DEF CopiesTyped, Pointers
  <2>3. CASE x = d
    BY <1>a, <1>1, <2>2, <2>3 DEF CopiesTyped
  <2>4. CASE x # d
    <3>1. x \in h.known /\ x \in MutexCopies
      BY <2>2, <2>4
    <3>2. /\ family[x] # None
          /\ IF h.class \in copyRest[x] THEN source[x] \in h.known
             ELSE copyAllocators[x][h.class] = h.object
      BY <1>a, <3>1 DEF CopiesKnown
    <3>3. /\ family'[x] = family[x] /\ source'[x] = source[x] /\ copyRest'[x] = copyRest[x]
          /\ copyAllocators'[x] = copyAllocators[x]
      BY <1>a, <1>1, <1>2, <2>4, <3>1 DEF CopiesTyped
    <3>4. h.class \in copyRest[x] => source[x] # d
      BY <1>3, <3>1
    <3>5. QED
      BY <2>2, <3>2, <3>3, <3>4
  <2>5. QED
    BY <2>3, <2>4
<1>11. CopiesFind'
  BY <1>a, <1>1, <1>4 DEF CopiesFind
<1>12. QED
  BY <1>6, <1>7, <1>8, <1>9, <1>10, <1>11 DEF CopiesSound

(* One entry more is d's own; its source has it, if it is known. *)
LEMMA CopiesEntry ==
  ASSUME CopiesSound, NEW d \in MutexCopies, NEW e \in MutexClasses, Mutex!CopyEntry(d, e)
  PROVE  CopiesSound'
<1>a. CopiesTyped /\ CopiesCalled /\ CopiesLocked /\ CopiesMade /\ CopiesKnown /\ CopiesFind
  BY DEF CopiesSound
<1> DEFINE c == source[d]
           o == copyAllocators[c][e]
<1>1. /\ e \in copyRest[d]
      /\ copyAllocators' = [copyAllocators EXCEPT ![d][e] = o]
      /\ copyRest' = [copyRest EXCEPT ![d] = copyRest[d] \ {e}]
      /\ source' = [source EXCEPT ![d] = IF copyRest[d] = {e} THEN None ELSE source[d]]
      /\ UNCHANGED <<family, familyMux, copyMadeFor, copyHeld>>
      /\ UNCHANGED <<copyPc, calledCopy, calledClass, copySalloc, copyArg>>
  BY DEF Mutex!CopyEntry, Mutex!Written, Mutex!locals
<1>2. c \in MutexCopies /\ c # d /\ family[c] = family[d] /\ copyRest[c] = {}
  BY <1>a, <1>1 DEF CopiesCalled
<1>3. o \in MutexObjects \cup {None}
  BY <1>a, <1>2 DEF CopiesTyped
<1>4. o # None => copyMadeFor[o] = <<family[d], e>> /\ family[d] # None
  BY <1>a, <1>2 DEF CopiesMade
<1>5. /\ copyAllocators' \in [MutexCopies -> [MutexClasses -> MutexObjects \cup {None}]]
      /\ \A x \in MutexCopies, y \in MutexClasses :
           copyAllocators'[x][y] = IF x = d /\ y = e THEN o ELSE copyAllocators[x][y]
  <2> HIDE DEF o
  <2>1. QED
    BY <1>a, <1>1, <1>3 DEF CopiesTyped
<1>6. /\ \A x \in MutexCopies : x # d => source'[x] = source[x] /\ copyRest'[x] = copyRest[x]
      /\ copyRest'[d] = copyRest[d] \ {e}
      /\ copyRest'[d] # {} => source'[d] = c
      /\ source' \in [MutexCopies -> MutexCopies \cup {None}]
      /\ copyRest' \in [MutexCopies -> SUBSET MutexClasses]
  BY <1>a, <1>1 DEF CopiesTyped
<1>7. \A h \in copyHeld : c \in h.known => copyAllocators[c][h.class] = h.object
  BY <1>a, <1>2 DEF CopiesKnown
<1> HIDE DEF c
<1>8. \A t \in Threads : Mutex!Mine(t)' = Mutex!Mine(t)
  BY <1>1 DEF Mutex!Mine
<1>9. \A t \in Threads : copyPc[t] # "idle" => Mutex!Entry(t)' = Mutex!Entry(t)
  <2> HIDE DEF o
  <2>1. \A t \in Threads : copyPc[t] # "idle" =>
          calledCopy[t] # d /\ calledCopy[t] \in MutexCopies /\ calledClass[t] \in MutexClasses
    BY <1>a, <1>1 DEF CopiesCalled
  <2>2. QED
    BY <1>1, <1>5, <2>1 DEF Mutex!Entry
<1>10. CopiesTyped'
  BY <1>a, <1>1, <1>5, <1>6 DEF CopiesTyped
<1>11. CopiesCalled'
  BY <1>a, <1>1, <1>2, <1>6 DEF CopiesCalled
<1>12. CopiesLocked'
  BY <1>a, <1>1, <1>8 DEF CopiesLocked, InFamily
<1>13. CopiesMade'
  <2> HIDE DEF o
  <2> SUFFICES ASSUME NEW x \in MutexCopies, NEW y \in MutexClasses,
                      copyAllocators'[x][y] # None, y \notin copyRest'[x]
               PROVE  copyMadeFor[copyAllocators'[x][y]] = <<family[x], y>> /\ family[x] # None
    BY <1>1 DEF CopiesMade
  <2>1. CASE x = d /\ y = e
    BY <1>4, <1>5, <2>1
  <2>2. CASE ~(x = d /\ y = e)
    <3>1. copyAllocators'[x][y] = copyAllocators[x][y] /\ y \notin copyRest[x]
      BY <1>5, <1>6, <2>2
    <3>2. QED
      BY <1>a, <3>1 DEF CopiesMade
  <2>3. QED
    BY <2>1, <2>2
<1>14. CopiesKnown'
  <2> SUFFICES ASSUME NEW h \in copyHeld, NEW x \in h.known
               PROVE  /\ family[x] # None
                      /\ IF h.class \in copyRest'[x] THEN source'[x] \in h.known
                         ELSE copyAllocators'[x][h.class] = h.object
    BY <1>1 DEF CopiesKnown
  <2>1. /\ family[x] # None
        /\ IF h.class \in copyRest[x] THEN source[x] \in h.known
           ELSE copyAllocators[x][h.class] = h.object
    BY <1>a DEF CopiesKnown
  <2>2. x \in MutexCopies /\ h.class \in MutexClasses
    BY <1>a DEF CopiesTyped, Pointers
  <2>3. CASE x = d /\ h.class = e
    BY <1>1, <1>5, <1>6, <1>7, <2>1, <2>2, <2>3 DEF c
  <2>4. CASE x = d /\ h.class # e
    BY <1>5, <1>6, <2>1, <2>2, <2>4 DEF c
  <2>5. CASE x # d
    BY <1>5, <1>6, <2>1, <2>2, <2>5
  <2>6. QED
    BY <2>3, <2>4, <2>5
<1>15. CopiesFind'
  BY <1>a, <1>1, <1>8, <1>9 DEF CopiesFind
<1>16. QED
  BY <1>10, <1>11, <1>12, <1>13, <1>14, <1>15 DEF CopiesSound

LEMMA CopiesDestroy ==
  ASSUME CopiesSound, NEW c \in MutexCopies, Mutex!Destroy(c)
  PROVE  CopiesSound'
<1>a. CopiesTyped /\ CopiesCalled /\ CopiesLocked /\ CopiesMade /\ CopiesKnown /\ CopiesFind
  BY DEF CopiesSound
<1>1. /\ family[c] # None /\ copyRest[c] = {}
      /\ family' = [family EXCEPT ![c] = None]
      /\ copyAllocators' = [copyAllocators EXCEPT ![c] = Mutex!Empty]
      /\ copyHeld' = {Mutex!Forgotten(h, c) : h \in copyHeld}
      /\ UNCHANGED <<source, copyRest, familyMux, copyMadeFor>>
      /\ UNCHANGED <<copyPc, calledCopy, calledClass, copySalloc, copyArg>>
  BY DEF Mutex!Destroy, Mutex!Ready, Mutex!Alive, Mutex!locals
<1>2. /\ copyAllocators' \in [MutexCopies -> [MutexClasses -> MutexObjects \cup {None}]]
      /\ \A x \in MutexCopies : x # c => copyAllocators'[x] = copyAllocators[x]
      /\ \A e \in MutexClasses : copyAllocators'[c][e] = None
  BY <1>a, <1>1 DEF CopiesTyped, Mutex!Empty
<1>3. /\ \A t \in Threads : copyPc[t] # "idle" => calledCopy[t] # c
      /\ \A x \in MutexCopies : copyRest[x] # {} => source[x] # c
  BY <1>a DEF CopiesCalled, Mutex!Destroy, Mutex!InUse
<1>4. \A t \in Threads : copyPc[t] # "idle" =>
        Mutex!Mine(t)' = Mutex!Mine(t) /\ Mutex!Entry(t)' = Mutex!Entry(t)
  BY <1>a, <1>1, <1>2, <1>3 DEF CopiesTyped, CopiesCalled, Mutex!Mine, Mutex!Entry
<1>5. ASSUME NEW h \in copyHeld
      PROVE  /\ Mutex!Forgotten(h, c) \in Pointers
             /\ Mutex!Forgotten(h, c).object = h.object
             /\ Mutex!Forgotten(h, c).class = h.class
             /\ Mutex!Forgotten(h, c).known = h.known \ {c}
  <2>1. h \in Pointers /\ h.known \ {c} \in SUBSET MutexCopies
    BY <1>a DEF CopiesTyped, Pointers
  <2>2. QED
    BY <2>1, PointerKnown DEF Mutex!Forgotten
<1>6. CopiesTyped'
  <2>1. copyHeld' \subseteq Pointers
    BY <1>1, <1>5
  <2>2. QED
    BY <1>a, <1>1, <1>2, <2>1 DEF CopiesTyped
<1>7. CopiesCalled'
  BY <1>a, <1>1, <1>3 DEF CopiesTyped, CopiesCalled
<1>8. CopiesLocked'
  BY <1>a, <1>1, <1>4 DEF CopiesLocked, InFamily
<1>9. CopiesMade'
  BY <1>a, <1>1, <1>2 DEF CopiesTyped, CopiesMade
<1>10. CopiesKnown'
  <2> SUFFICES ASSUME NEW g \in copyHeld', NEW x \in g.known
               PROVE  /\ family'[x] # None
                      /\ IF g.class \in copyRest[x] THEN source[x] \in g.known
                         ELSE copyAllocators'[x][g.class] = g.object
    BY <1>1 DEF CopiesKnown
  <2>1. PICK h \in copyHeld : g = Mutex!Forgotten(h, c)
    BY <1>1
  <2>2. /\ g.object = h.object /\ g.class = h.class /\ g.known = h.known \ {c}
        /\ h.class \in MutexClasses /\ h.known \subseteq MutexCopies
    BY <1>a, <1>5, <2>1 DEF CopiesTyped, Pointers
  <2>3. x \in h.known /\ x \in MutexCopies /\ x # c
    BY <2>2
  <2>4. /\ family[x] # None
        /\ IF h.class \in copyRest[x] THEN source[x] \in h.known
           ELSE copyAllocators[x][h.class] = h.object
    BY <1>a, <2>3 DEF CopiesKnown
  <2>5. family'[x] = family[x] /\ copyAllocators'[x] = copyAllocators[x]
    BY <1>a, <1>1, <1>2, <2>3 DEF CopiesTyped
  <2>6. h.class \in copyRest[x] => source[x] # c
    BY <1>3, <2>3
  <2>7. QED
    BY <2>2, <2>4, <2>5, <2>6
<1>11. CopiesFind'
  BY <1>a, <1>1, <1>4 DEF CopiesFind
<1>12. QED
  BY <1>6, <1>7, <1>8, <1>9, <1>10, <1>11 DEF CopiesSound
LEMMA RestCopies == CopiesSound /\ UNCHANGED mutexVars => CopiesSound'
  BY DEF CopiesSound, CopiesTyped, CopiesCalled, CopiesLocked, CopiesMade, CopiesKnown, CopiesFind,
     InFamily, Mutex!Mine, Mutex!Entry, mutexVars

(* The first object of a class: nobody else is between the check and the   *)
(* store, and the entry has been empty since the check.                    *)
LEMMA CopiesCreate ==
  ASSUME CopiesSound, NEW t \in Threads, Mutex!Create(t)
  PROVE  CopiesSound'
<1>a. CopiesTyped /\ CopiesCalled /\ CopiesLocked /\ CopiesMade /\ CopiesKnown /\ CopiesFind
  BY DEF CopiesSound
<1> DEFINE c == calledCopy[t]
           e == calledClass[t]
<1>1. PICK o \in MutexObjects :
        /\ copyMadeFor[o] = None
        /\ copyMadeFor' = [copyMadeFor EXCEPT ![o] = <<family[c], e>>]
        /\ copyAllocators' = [copyAllocators EXCEPT ![c][e] = o]
  BY DEF Mutex!Create, Mutex!Unused, Mutex!Mine
<1>2. /\ copyPc[t] = "create" /\ copyPc' = [copyPc EXCEPT ![t] = "unlock"]
      /\ UNCHANGED <<family, source, copyRest, familyMux, copyHeld>>
      /\ UNCHANGED <<calledCopy, calledClass, copySalloc, copyArg>>
  BY DEF Mutex!Create, Mutex!Move, Mutex!Goto, Mutex!locals
<1>3. /\ c \in MutexCopies /\ e \in MutexClasses /\ family[c] \in MutexCopies
      /\ copyRest[c] = {} /\ copyAllocators[c][e] = None /\ o # None
  BY <1>a, <1>2, NoneAssumption DEF CopiesTyped, CopiesCalled, CopiesFind, Mutex!Entry
<1>4. /\ copyPc'[t] = "unlock" /\ \A u \in Threads : u # t => copyPc'[u] = copyPc[u]
      /\ copyPc' \in [Threads -> CopySteps]
  BY <1>a, <1>2 DEF CopiesTyped, CopySteps
<1> HIDE DEF c, e
<1>5. /\ copyAllocators' \in [MutexCopies -> [MutexClasses -> MutexObjects \cup {None}]]
      /\ \A x \in MutexCopies, y \in MutexClasses :
           copyAllocators'[x][y] = IF x = c /\ y = e THEN o ELSE copyAllocators[x][y]
  BY <1>a, <1>1, <1>3 DEF CopiesTyped
<1>6. /\ copyMadeFor' \in [MutexObjects -> Made \cup {None}]
      /\ copyMadeFor'[o] = <<family[c], e>>
      /\ \A q \in MutexObjects : q # o => copyMadeFor'[q] = copyMadeFor[q]
  BY <1>a, <1>1, <1>3 DEF CopiesTyped, Made
<1>7. \A u \in Threads : Mutex!Mine(u)' = Mutex!Mine(u)
  BY <1>2 DEF Mutex!Mine
<1>8. /\ Mutex!Entry(t)' = o
      /\ \A u \in Threads : copyPc[u] # "idle" =>
           Mutex!Entry(u)' = Mutex!Entry(u) \/ (Mutex!Entry(u) = None /\ Mutex!Entry(u)' = o)
  BY <1>a, <1>2, <1>3, <1>5 DEF CopiesCalled, Mutex!Entry, c, e
<1>9. ASSUME NEW u \in Threads, u # t, copyPc[u] = "create"
      PROVE  Mutex!Entry(u)' = None
  <2>1. Mutex!Mine(u) # Mutex!Mine(t)
    BY <1>a, <1>2, <1>9 DEF CopiesLocked, InFamily
  <2>2. calledCopy[u] # c
    BY <2>1 DEF Mutex!Mine, c
  <2>3. calledCopy[u] \in MutexCopies /\ calledClass[u] \in MutexClasses
    BY <1>a, <1>9 DEF CopiesCalled
  <2>4. QED
    BY <1>a, <1>2, <1>5, <1>9, <2>2, <2>3 DEF CopiesFind, Mutex!Entry
<1>10. CopiesTyped'
  BY <1>a, <1>2, <1>4, <1>5, <1>6 DEF CopiesTyped
<1>11. CopiesCalled'
  BY <1>a, <1>2, <1>4 DEF CopiesCalled
<1>12. CopiesLocked'
  BY <1>a, <1>2, <1>4, <1>7 DEF CopiesLocked, InFamily
<1>13. CopiesMade'
  <2> SUFFICES ASSUME NEW x \in MutexCopies, NEW y \in MutexClasses,
                      copyAllocators'[x][y] # None, y \notin copyRest[x]
               PROVE  copyMadeFor'[copyAllocators'[x][y]] = <<family[x], y>> /\ family[x] # None
    BY <1>2 DEF CopiesMade
  <2>1. CASE x = c /\ y = e
    BY <1>3, <1>5, <1>6, <2>1, NoneAssumption
  <2>2. CASE ~(x = c /\ y = e)
    <3>1. copyAllocators'[x][y] = copyAllocators[x][y]
      BY <1>5, <2>2
    <3>2. copyMadeFor[copyAllocators[x][y]] = <<family[x], y>> /\ family[x] # None
      BY <1>a, <3>1 DEF CopiesMade
    <3>3. family[x] \in MutexCopies /\ copyAllocators[x][y] \in MutexObjects
      BY <1>a, <3>1, <3>2 DEF CopiesTyped
    <3>4. <<family[x], y>> \in MutexCopies \X MutexClasses
      BY <3>3
    <3>5. copyAllocators[x][y] # o
      BY <1>1, <3>2, <3>4, PairsAssumption
    <3>6. QED
      BY <1>6, <3>1, <3>2, <3>3, <3>5
  <2>3. QED
    BY <2>1, <2>2
<1>14. CopiesKnown'
  <2> SUFFICES ASSUME NEW h \in copyHeld, NEW x \in h.known
               PROVE  /\ family[x] # None
                      /\ IF h.class \in copyRest[x] THEN source[x] \in h.known
                         ELSE copyAllocators'[x][h.class] = h.object
    BY <1>2 DEF CopiesKnown
  <2>1. /\ family[x] # None
        /\ IF h.class \in copyRest[x] THEN source[x] \in h.known
           ELSE copyAllocators[x][h.class] = h.object
    BY <1>a DEF CopiesKnown
  <2>2. x \in MutexCopies /\ h.class \in MutexClasses /\ h.object \in MutexObjects
    BY <1>a DEF CopiesTyped, Pointers
  <2>3. h.object # None
    BY <2>2, NoneAssumption
  <2>4. QED
    BY <1>3, <1>5, <2>1, <2>2, <2>3
<1>15. CopiesFind'
  <2>1. \A u \in Threads : copyPc'[u] = "create" => Mutex!Entry(u)' = None
    BY <1>4, <1>9
  <2>2. \A u \in Threads : copyPc'[u] \in {"unlock", "load", "allocate"} =>
          Mutex!Entry(u)' # None
    BY <1>a, <1>3, <1>4, <1>8 DEF CopiesFind
  <2>3. \A u \in Threads : copyPc'[u] = "allocate" => copySalloc'[u] = Mutex!Entry(u)'
    BY <1>a, <1>2, <1>4, <1>8 DEF CopiesFind
  <2>4. \A u \in Threads : copyPc'[u] = "deallocate" /\ copySalloc'[u] # None =>
          copyMadeFor'[copySalloc'[u]] = <<Mutex!Mine(u)', calledClass'[u]>>
    <3> SUFFICES ASSUME NEW u \in Threads, copyPc'[u] = "deallocate", copySalloc[u] # None
                 PROVE  copyMadeFor'[copySalloc[u]] = <<Mutex!Mine(u), calledClass[u]>>
      BY <1>2, <1>7
    <3>1. copyMadeFor[copySalloc[u]] = <<Mutex!Mine(u), calledClass[u]>>
      BY <1>a, <1>4 DEF CopiesFind
    <3>2. /\ Mutex!Mine(u) \in MutexCopies /\ calledClass[u] \in MutexClasses
          /\ copySalloc[u] \in MutexObjects
      BY <1>a, <1>4 DEF CopiesTyped, CopiesCalled, Mutex!Mine
    <3>3. <<Mutex!Mine(u), calledClass[u]>> \in MutexCopies \X MutexClasses
      BY <3>2
    <3>4. copySalloc[u] # o
      BY <1>1, <3>1, <3>3, PairsAssumption
    <3>5. QED
      BY <1>6, <3>1, <3>2, <3>4
  <2>5. QED
    BY <1>a, <1>2, <1>4, <2>1, <2>2, <2>3, <2>4 DEF CopiesFind
<1>16. QED
  BY <1>10, <1>11, <1>12, <1>13, <1>14, <1>15 DEF CopiesSound

(* The copy that is called has the object of the pointer it gives out.     *)
LEMMA CopiesAllocate ==
  ASSUME CopiesSound, NEW t \in Threads, Mutex!Allocate(t)
  PROVE  CopiesSound'
<1>a. CopiesTyped /\ CopiesCalled /\ CopiesLocked /\ CopiesMade /\ CopiesKnown /\ CopiesFind
  BY DEF CopiesSound
<1> USE DEF Mutex!Allocate, Mutex!Return, Mutex!Move, Mutex!Goto, Mutex!arrays
<1>1. /\ calledCopy[t] \in MutexCopies /\ calledClass[t] \in MutexClasses
      /\ family[calledCopy[t]] # None /\ copyRest[calledCopy[t]] = {}
      /\ copySalloc[t] \in MutexObjects
      /\ copyAllocators[calledCopy[t]][calledClass[t]] = copySalloc[t]
  BY <1>a DEF CopiesTyped, CopiesCalled, CopiesFind, Mutex!Entry
<1>2. PICK k \in 1 .. MutexDemand :
        copyHeld' = copyHeld \cup {[object |-> copySalloc[t], slot |-> k,
                                    class |-> calledClass[t], known |-> {calledCopy[t]}]}
  OBVIOUS
<1>3. CopiesTyped'
  <2>1. copyHeld' \subseteq Pointers
    BY <1>a, <1>1, <1>2 DEF CopiesTyped, Pointers
  <2>2. QED
    BY <1>a, <2>1 DEF CopiesTyped, CopySteps
<1>4. CopiesCalled'
  BY <1>a DEF CopiesTyped, CopiesCalled
<1>5. CopiesLocked'
  BY <1>a DEF CopiesTyped, CopiesLocked, InFamily, Mutex!Mine
<1>6. CopiesMade' /\ CopiesKnown'
  BY <1>a, <1>1, <1>2 DEF CopiesMade, CopiesKnown
<1>7. CopiesFind'
  BY <1>a DEF CopiesTyped, CopiesFind, Mutex!Mine, Mutex!Entry
<1>8. QED
  BY <1>3, <1>4, <1>5, <1>6, <1>7 DEF CopiesSound

(* A copy that is known for the pointer has its object in the entry read.  *)
LEMMA CopiesReturn ==
  ASSUME CopiesSound, NEW t \in Threads, Mutex!Find(t)
  PROVE  CopiesSound'
<1>a. CopiesTyped /\ CopiesCalled /\ CopiesLocked /\ CopiesMade /\ CopiesKnown /\ CopiesFind
  BY DEF CopiesSound
<1>1. PICK h \in copyHeld, c \in MutexCopies :
        /\ family[c] # None /\ copyRest[c] = {}
        /\ calledCopy' = [calledCopy EXCEPT ![t] = c]
        /\ calledClass' = [calledClass EXCEPT ![t] = h.class]
        /\ copySalloc' = [copySalloc EXCEPT ![t] = copyAllocators[c][h.class]]
        /\ copyArg' = [copyArg EXCEPT ![t] = [object |-> h.object, known |-> c \in h.known]]
        /\ copyHeld' = copyHeld \ {h}
  BY DEF Mutex!Find, Mutex!Ready, Mutex!Alive
<1>2. /\ copyPc[t] = "idle" /\ copyPc' = [copyPc EXCEPT ![t] = "deallocate"]
      /\ UNCHANGED <<family, copyAllocators, source, copyRest, familyMux, copyMadeFor>>
  BY DEF Mutex!Find, Mutex!Move, Mutex!Goto, Mutex!arrays
<1>3. /\ h.class \in MutexClasses /\ h.object \in MutexObjects
      /\ copyAllocators[c][h.class] \in MutexObjects \cup {None}
      /\ c \in h.known => copyAllocators[c][h.class] = h.object
  BY <1>a, <1>1 DEF CopiesTyped, CopiesKnown, Pointers
<1>4. [object |-> h.object, known |-> c \in h.known] \in Returned
  BY <1>3 DEF Returned
<1>5. copyArg'[t] \in Returned /\ (copyArg'[t].known => copySalloc'[t] = copyArg'[t].object)
  BY <1>a, <1>1, <1>3, <1>4 DEF CopiesTyped
<1>6. CopiesTyped'
  <2>1. /\ calledCopy' \in [Threads -> MutexCopies \cup {None}]
        /\ calledClass' \in [Threads -> MutexClasses \cup {None}]
        /\ copySalloc' \in [Threads -> MutexObjects \cup {None}]
    BY <1>a, <1>1, <1>3 DEF CopiesTyped
  <2>2. copyArg' \in [Threads -> Returned \cup {None}]
    BY <1>a, <1>1, <1>4 DEF CopiesTyped
  <2>3. copyHeld' \subseteq Pointers /\ copyPc' \in [Threads -> CopySteps]
    BY <1>a, <1>1, <1>2 DEF CopiesTyped, CopySteps
  <2>4. QED
    BY <1>a, <1>2, <2>1, <2>2, <2>3 DEF CopiesTyped
<1>7. CopiesCalled'
  BY <1>a, <1>1, <1>2, <1>3 DEF CopiesTyped, CopiesCalled
<1>8. CopiesLocked'
  BY <1>a, <1>1, <1>2 DEF CopiesTyped, CopiesLocked, InFamily, Mutex!Mine
<1>9. CopiesMade' /\ CopiesKnown'
  BY <1>a, <1>1, <1>2 DEF CopiesMade, CopiesKnown
<1>10. CopiesFind'
  <2>1. /\ copyPc'[t] = "deallocate"
        /\ copySalloc'[t] # None =>
             copyMadeFor[copySalloc'[t]] = <<Mutex!Mine(t)', calledClass'[t]>>
    BY <1>a, <1>1, <1>2, <1>3 DEF CopiesTyped, CopiesMade, Mutex!Mine
  <2>2. \A u \in Threads : u # t =>
          /\ copyPc'[u] = copyPc[u] /\ copySalloc'[u] = copySalloc[u]
          /\ copyArg'[u] = copyArg[u] /\ calledClass'[u] = calledClass[u]
          /\ Mutex!Mine(u)' = Mutex!Mine(u) /\ Mutex!Entry(u)' = Mutex!Entry(u)
    BY <1>a, <1>1, <1>2 DEF CopiesTyped, Mutex!Mine, Mutex!Entry
  <2>3. \A u \in Threads : copyPc'[u] \in {"create", "unlock", "load", "allocate", "crashed"} =>
          u # t
    BY <2>1
  <2>4. \A u \in Threads :
          /\ copyPc'[u] = "create" => Mutex!Entry(u)' = None
          /\ copyPc'[u] \in {"unlock", "load", "allocate"} => Mutex!Entry(u)' # None
          /\ copyPc'[u] = "allocate" => copySalloc'[u] = Mutex!Entry(u)'
          /\ copyPc'[u] = "crashed" => copySalloc'[u] = None
    BY <1>a, <2>2, <2>3 DEF CopiesFind
  <2>5. \A u \in Threads : copyPc'[u] \in {"deallocate", "crashed"} =>
          copyArg'[u] \in Returned /\ (copyArg'[u].known => copySalloc'[u] = copyArg'[u].object)
    BY <1>a, <1>5, <2>2 DEF CopiesFind
  <2>6. \A u \in Threads : copyPc'[u] = "deallocate" /\ copySalloc'[u] # None =>
          copyMadeFor'[copySalloc'[u]] = <<Mutex!Mine(u)', calledClass'[u]>>
    <3>1. ASSUME NEW u \in Threads, u # t, copyPc'[u] = "deallocate", copySalloc'[u] # None
          PROVE  copyMadeFor'[copySalloc'[u]] = <<Mutex!Mine(u)', calledClass'[u]>>
      <4>1. copyMadeFor[copySalloc[u]] = <<Mutex!Mine(u), calledClass[u]>>
        BY <1>a, <2>2, <3>1 DEF CopiesFind
      <4>2. QED
        BY <1>2, <2>2, <3>1, <4>1
    <3>2. QED
      BY <1>2, <2>1, <3>1
  <2>7. QED
    BY <2>4, <2>5, <2>6 DEF CopiesFind
<1>11. QED
  BY <1>6, <1>7, <1>8, <1>9, <1>10 DEF CopiesSound

(* The other steps of a call leave arrays and pointers in use alone.       *)
LEMMA StepCopies ==
  ASSUME CopiesSound, Mutex!Next
  PROVE  CopiesSound'
<1>a. CopiesTyped /\ CopiesCalled /\ CopiesLocked /\ CopiesMade /\ CopiesKnown /\ CopiesFind
  BY DEF CopiesSound
<1> USE DEF Mutex!Move, Mutex!Goto, Mutex!Return, Mutex!arrays, Mutex!locals, Mutex!Mine,
        Mutex!Entry, Mutex!Ready, Mutex!Alive
<1>1. ASSUME NEW t \in Threads, Mutex!Check(t) PROVE CopiesSound'
  <2> USE <1>1, <1>a, NoneAssumption DEF Mutex!Check, CopiesTyped, CopiesCalled
  <2>1. CopiesTyped'
    BY DEF CopySteps
  <2>2. CopiesCalled'
    OBVIOUS
  <2>3. CopiesLocked'
    BY DEF CopiesLocked, InFamily
  <2>4. CopiesMade' /\ CopiesKnown'
    BY DEF CopiesMade, CopiesKnown
  <2>5. CopiesFind'
    BY DEF CopiesFind
  <2>6. QED
    BY <2>1, <2>2, <2>3, <2>4, <2>5 DEF CopiesSound
<1>2. ASSUME NEW t \in Threads, Mutex!Lock(t) PROVE CopiesSound'
  <2> USE <1>2, <1>a, NoneAssumption DEF Mutex!Lock, CopiesTyped, CopiesCalled
  <2>1. CopiesTyped'
    BY DEF CopySteps
  <2>2. CopiesCalled'
    OBVIOUS
  <2>3. CopiesLocked'
    BY DEF CopiesLocked, InFamily
  <2>4. CopiesMade' /\ CopiesKnown'
    BY DEF CopiesMade, CopiesKnown
  <2>5. CopiesFind'
    BY DEF CopiesFind
  <2>6. QED
    BY <2>1, <2>2, <2>3, <2>4, <2>5 DEF CopiesSound
<1>3. ASSUME NEW t \in Threads, Mutex!Recheck(t) PROVE CopiesSound'
  <2> USE <1>3, <1>a, NoneAssumption DEF Mutex!Recheck, CopiesTyped, CopiesCalled
  <2>1. CopiesTyped'
    BY DEF CopySteps
  <2>2. CopiesCalled'
    OBVIOUS
  <2>3. CopiesLocked'
    BY DEF CopiesLocked, InFamily
  <2>4. CopiesMade' /\ CopiesKnown'
    BY DEF CopiesMade, CopiesKnown
  <2>5. CopiesFind'
    BY DEF CopiesFind
  <2>6. QED
    BY <2>1, <2>2, <2>3, <2>4, <2>5 DEF CopiesSound
<1>4. ASSUME NEW t \in Threads, Mutex!Unlock(t) PROVE CopiesSound'
  <2> USE <1>4, <1>a, NoneAssumption DEF Mutex!Unlock, CopiesTyped, CopiesCalled
  <2>1. CopiesTyped'
    BY DEF CopySteps
  <2>2. CopiesCalled'
    OBVIOUS
  <2>3. CopiesLocked'
    BY DEF CopiesLocked, InFamily
  <2>4. CopiesMade' /\ CopiesKnown'
    BY DEF CopiesMade, CopiesKnown
  <2>5. CopiesFind'
    BY DEF CopiesFind
  <2>6. QED
    BY <2>1, <2>2, <2>3, <2>4, <2>5 DEF CopiesSound
<1>5. ASSUME NEW t \in Threads, Mutex!Load(t) PROVE CopiesSound'
  <2> USE <1>5, <1>a, NoneAssumption DEF Mutex!Load, CopiesTyped, CopiesCalled
  <2>1. CopiesTyped'
    BY DEF CopySteps
  <2>2. CopiesCalled'
    OBVIOUS
  <2>3. CopiesLocked'
    BY DEF CopiesLocked, InFamily
  <2>4. CopiesMade' /\ CopiesKnown'
    BY DEF CopiesMade, CopiesKnown
  <2>5. CopiesFind'
    BY DEF CopiesFind
  <2>6. QED
    BY <2>1, <2>2, <2>3, <2>4, <2>5 DEF CopiesSound
<1>6. ASSUME NEW t \in Threads, Mutex!Deallocate(t) PROVE CopiesSound'
  <2> USE <1>6, <1>a, NoneAssumption DEF Mutex!Deallocate, CopiesTyped, CopiesCalled
  <2>1. CopiesTyped'
    BY DEF CopySteps
  <2>2. CopiesCalled'
    OBVIOUS
  <2>3. CopiesLocked'
    BY DEF CopiesLocked, InFamily
  <2>4. CopiesMade' /\ CopiesKnown'
    BY DEF CopiesMade, CopiesKnown
  <2>5. CopiesFind'
    BY DEF CopiesFind
  <2>6. QED
    BY <2>1, <2>2, <2>3, <2>4, <2>5 DEF CopiesSound
<1>7. ASSUME NEW t \in Threads, Mutex!Crash(t) PROVE CopiesSound'
  <2> USE <1>7, <1>a, NoneAssumption DEF Mutex!Crash, CopiesTyped, CopiesCalled
  <2>1. CopiesTyped'
    BY DEF CopySteps
  <2>2. CopiesCalled'
    OBVIOUS
  <2>3. CopiesLocked'
    BY DEF CopiesLocked, InFamily
  <2>4. CopiesMade' /\ CopiesKnown'
    BY DEF CopiesMade, CopiesKnown
  <2>5. CopiesFind'
    BY DEF CopiesFind
  <2>6. QED
    BY <2>1, <2>2, <2>3, <2>4, <2>5 DEF CopiesSound
<1>8. CASE Mutex!Ended
  BY <1>8, RestCopies DEF Mutex!Ended, Mutex!vars, mutexVars
<1>9. QED
  BY <1>1, <1>2, <1>3, <1>4, <1>5, <1>6, <1>7, <1>8, CopiesConstruct, CopiesDestroy, CopiesBegin, CopiesEntry,
     CopiesCreate, CopiesAllocate, CopiesReturn
  DEF Mutex!Next, Mutex!Step

LEMMA CopiesAnswer ==
  CopiesSound => Mutex!FoundMaker /\ Mutex!CrashedApart /\ Mutex!RightObject
<1> SUFFICES ASSUME CopiesSound
             PROVE  Mutex!FoundMaker /\ Mutex!CrashedApart /\ Mutex!RightObject
  OBVIOUS
<1>a. CopiesTyped /\ CopiesCalled /\ CopiesMade /\ CopiesFind
  BY DEF CopiesSound
<1>1. Mutex!FoundMaker
  BY <1>a DEF CopiesFind, Mutex!FoundMaker
<1>2. Mutex!CrashedApart
  <2> SUFFICES ASSUME NEW t \in Threads, copyPc[t] = "crashed"
               PROVE  copyArg[t] \in [object : MutexObjects, known : {FALSE}]
    BY DEF Mutex!CrashedApart
  <2>1. copyArg[t] \in Returned /\ copySalloc[t] = None
    BY <1>a DEF CopiesFind
  <2>2. copyArg[t].object \in MutexObjects
    BY <2>1 DEF Returned
  <2>3. ~copyArg[t].known
    BY <1>a, <2>1, <2>2, NoneAssumption DEF CopiesFind
  <2>4. QED
    BY <2>1, <2>3 DEF Returned
<1>3. ASSUME NEW t \in Threads, copyPc[t] = "allocate", copySalloc[t] # None
      PROVE  copyMadeFor[copySalloc[t]] = <<Mutex!Mine(t), calledClass[t]>>
  <2>1. /\ calledCopy[t] \in MutexCopies /\ calledClass[t] \in MutexClasses
        /\ copyRest[calledCopy[t]] = {}
    BY <1>a, <1>3 DEF CopiesCalled
  <2>2. copySalloc[t] = copyAllocators[calledCopy[t]][calledClass[t]]
    BY <1>a, <1>3 DEF CopiesFind, Mutex!Entry
  <2>3. QED
    BY <1>a, <1>3, <2>1, <2>2 DEF CopiesMade, Mutex!Mine
<1>4. Mutex!RightObject
  BY <1>a, <1>3 DEF CopiesFind, Mutex!RightObject
<1>5. QED
  BY <1>1, <1>2, <1>4

-----------------------------------------------------------------------------
(* The lock-free allocator: one SingleAllocator per class *)

FrontSteps ==
  {"idle", "check", "lock", "recheck", "create", "construct", "second", "unlock",
   "load", "allocate", "find", "deallocate"}

(* Where the mutex of the internal state is held, and where an object is   *)
(* in the hands of the thread that makes it.                               *)
InLock(t) == pc[t] \in {"recheck", "create", "construct", "second", "unlock"}
Making(t) == pc[t] \in {"construct", "second"}

Pairs     == Internals \X Classes
HeldSlots == [object : Objects, slot : 1 .. MaxDemand]
EntryOf(o) == allocators[made_for[o][1]][made_for[o][2]]

FrontTyped ==
  /\ internal_state \in [Copies -> Internals \cup {None}]
  /\ allocators \in [Internals -> [Classes -> Objects \cup {None}]]
  /\ mux_allocators \in [Internals -> BOOLEAN]
  /\ status \in [Objects -> {"none", "raw", "built", "deleted"}]
  /\ made_for \in [Objects -> Pairs \cup {None}]
  /\ held \subseteq HeldSlots
  /\ pc \in [Threads -> FrontSteps]
  /\ copy \in [Threads -> Copies \cup {None}]
  /\ class \in [Threads -> Classes \cup {None}]
  /\ salloc \in [Threads -> Objects \cup {None}]
  /\ arg \in [Threads -> HeldSlots \cup {None}]

(* A thread inside a call has a copy that exists. *)
FrontCalls ==
  \A t \in Threads :
    pc[t] # "idle" =>
      copy[t] \in Copies /\ class[t] \in Classes /\ LockFree!Mine(t) \in Internals

FrontLocked ==
  /\ \A t \in Threads : InLock(t) => mux_allocators[LockFree!Mine(t)]
  /\ \A t, u \in Threads :
       InLock(t) /\ InLock(u) /\ LockFree!Mine(t) = LockFree!Mine(u) => t = u

(* What the thread knows that makes the object: nobody else has put one    *)
(* there, and how far its own is.                                          *)
FrontMaking ==
  \A t \in Threads :
    /\ pc[t] \in {"create", "construct"} => LockFree!Entry(t) = None
    /\ Making(t) =>
         salloc[t] \in Objects /\ made_for[salloc[t]] = <<LockFree!Mine(t), class[t]>>
    /\ pc[t] = "construct" => status[salloc[t]] = "raw"
    /\ pc[t] = "second" =>
         \/ LockFree!Entry(t) = None /\ status[salloc[t]] = "built"
         \/ ~Ordered /\ LockFree!Entry(t) = salloc[t] /\ status[salloc[t]] = "raw"

(* Every object is the entry of the class it was created for, or about to  *)
(* be; and the last copy deletes it.                                       *)
FrontObjects ==
  /\ \A i \in Internals, e \in Classes :
       allocators[i][e] # None =>
         status[allocators[i][e]] # "none" /\ made_for[allocators[i][e]] = <<i, e>>
  /\ \A o \in Objects :
       status[o] # "none" =>
         /\ made_for[o] \in Pairs
         /\ EntryOf(o) = o \/ \E t \in Threads : Making(t) /\ salloc[t] = o
  /\ \A o \in Objects : status[o] = "raw" => \E t \in Threads : Making(t) /\ salloc[t] = o
  /\ LockFree!DeletedWithLast

(* What a thread takes for granted once it has not found the entry empty,  *)
(* and of the slots clients hold or give back.                             *)
FrontFound ==
  /\ \A t \in Threads :
       /\ pc[t] \in {"unlock", "load"} => LockFree!Entry(t) # None
       /\ pc[t] = "allocate" => LockFree!Entry(t) # None /\ salloc[t] = LockFree!Entry(t)
       /\ pc[t] \in {"find", "deallocate"} =>
            /\ arg[t] \in HeldSlots
            /\ LockFree!Entry(t) = arg[t].object
            /\ status[arg[t].object] = "built"
       /\ pc[t] = "deallocate" => salloc[t] = LockFree!Entry(t)
  /\ \A h \in held : status[h.object] = "built" /\ EntryOf(h.object) = h.object

FrontSound ==
  FrontTyped /\ FrontCalls /\ FrontLocked /\ FrontMaking /\ FrontObjects /\ FrontFound

LEMMA InitFront == LockFree!Init => FrontSound
  BY NoneAssumption DEF LockFree!Init, FrontSound, FrontTyped, FrontCalls, FrontLocked,
     FrontMaking, FrontObjects, FrontFound, FrontSteps, InLock, Making,
     LockFree!DeletedWithLast, LockFree!Created

(* Two threads do not make the same object. *)
LEMMA MakersApart ==
  ASSUME FrontLocked, FrontMaking, NEW t \in Threads, NEW u \in Threads,
         Making(t), Making(u), salloc[t] = salloc[u]
  PROVE  t = u
<1>1. <<LockFree!Mine(t), class[t]>> = <<LockFree!Mine(u), class[u]>>
  BY DEF FrontMaking
<1>2. LockFree!Mine(t) = LockFree!Mine(u)
  BY <1>1
<1>3. QED
  BY <1>2 DEF FrontLocked, InLock, Making

(* An internal state from which a thread was called has users. *)
LEMMA CalledIsUsed ==
  ASSUME FrontCalls, NEW t \in Threads, pc[t] # "idle"
  PROVE  LockFree!Users(LockFree!Mine(t)) # {}
  BY DEF FrontCalls, LockFree!Users, LockFree!Mine

(* Steps that leave the objects alone. *)
LEMMA ObjectsKept ==
  ASSUME FrontObjects, internal_state' = internal_state,
         allocators' = allocators, status' = status, made_for' = made_for,
         \A u \in Threads : Making(u) => Making(u)' /\ salloc'[u] = salloc[u]
  PROVE  FrontObjects'
  BY DEF FrontObjects, EntryOf, LockFree!DeletedWithLast, LockFree!Users, LockFree!Created

(* A call that is not, and does not get, into the creation leaves alone    *)
(* what others are making.                                                 *)
LEMMA MakingKept ==
  ASSUME FrontMaking, made_for' = made_for, status' = status, NEW t \in Threads,
         pc'[t] \notin {"create", "construct", "second"},
         \A u \in Threads : u # t =>
           /\ LockFree!Mine(u)' = LockFree!Mine(u) /\ LockFree!Entry(u)' = LockFree!Entry(u)
           /\ pc'[u] = pc[u] /\ class'[u] = class[u] /\ salloc'[u] = salloc[u]
  PROVE  FrontMaking'
<1> SUFFICES ASSUME NEW u \in Threads
             PROVE  /\ pc'[u] \in {"create", "construct"} => LockFree!Entry(u)' = None
                    /\ Making(u)' =>
                         /\ salloc'[u] \in Objects
                         /\ made_for'[salloc'[u]] = <<LockFree!Mine(u)', class'[u]>>
                    /\ pc'[u] = "construct" => status'[salloc'[u]] = "raw"
                    /\ pc'[u] = "second" =>
                         \/ LockFree!Entry(u)' = None /\ status'[salloc'[u]] = "built"
                         \/ /\ ~Ordered /\ LockFree!Entry(u)' = salloc'[u]
                            /\ status'[salloc'[u]] = "raw"
  BY DEF FrontMaking
<1>1. CASE u = t
  BY <1>1 DEF Making
<1>2. CASE u # t
  BY <1>2 DEF FrontMaking, Making
<1>3. QED
  BY <1>1, <1>2

LEMMA FrontConstruct ==
  ASSUME FrontSound, NEW c \in Copies, LockFree!Construct(c)
  PROVE  FrontSound'
<1>a. FrontTyped /\ FrontCalls /\ FrontLocked /\ FrontMaking /\ FrontObjects /\ FrontFound
  BY DEF FrontSound
<1> DEFINE i == LockFree!Any(LockFree!Unused)
<1>1. /\ internal_state[c] = None /\ LockFree!Unused # {}
      /\ internal_state' = [internal_state EXCEPT ![c] = i]
      /\ UNCHANGED <<allocators, status, made_for, mux_allocators, held, pc>>
      /\ UNCHANGED <<copy, class, salloc, arg>>
  BY DEF LockFree!Construct, LockFree!Alive, LockFree!heap, LockFree!locals
<1>2. i \in LockFree!Unused
  BY <1>1 DEF LockFree!Any
<1>3. i \in Internals /\ LockFree!Users(i) = {} /\ \A e \in Classes : allocators[i][e] = None
  BY <1>2 DEF LockFree!Unused
<1> HIDE DEF i
<1>4. \A t \in Threads : pc[t] # "idle" =>
        /\ copy[t] # c /\ LockFree!Mine(t) # i /\ LockFree!Mine(t)' = LockFree!Mine(t)
        /\ LockFree!Entry(t)' = LockFree!Entry(t)
  BY <1>a, <1>1, <1>3, NoneAssumption
     DEF FrontTyped, FrontCalls, LockFree!Mine, LockFree!Entry, LockFree!Users
<1>5. ASSUME NEW o \in Objects, status[o] # "none" PROVE made_for[o][1] # i
  <2>1. CASE EntryOf(o) = o
    BY <1>a, <1>3, <1>5, <2>1, NoneAssumption DEF FrontObjects, EntryOf, Pairs
  <2>2. ASSUME NEW t \in Threads, Making(t), salloc[t] = o PROVE made_for[o][1] # i
    BY <1>a, <1>4, <2>2 DEF FrontMaking, Making
  <2>3. QED
    BY <1>a, <1>5, <2>1, <2>2 DEF FrontObjects
<1>6. \A j \in Internals : j # i => LockFree!Users(j)' = LockFree!Users(j)
  BY <1>a, <1>1, NoneAssumption DEF FrontTyped, LockFree!Users
<1>7. LockFree!DeletedWithLast'
  BY <1>a, <1>1, <1>5, <1>6 DEF FrontObjects, LockFree!DeletedWithLast, LockFree!Created, Pairs
<1>8. FrontTyped'
  BY <1>a, <1>1, <1>3 DEF FrontTyped
<1>9. FrontCalls' /\ FrontLocked'
  BY <1>a, <1>1, <1>4 DEF FrontCalls, FrontLocked, InLock
<1>10. FrontMaking'
  BY <1>a, <1>1, <1>4 DEF FrontMaking, Making
<1>11. FrontObjects'
  BY <1>a, <1>1, <1>7 DEF FrontObjects, EntryOf, Making
<1>12. FrontFound'
  BY <1>a, <1>1, <1>4 DEF FrontFound, EntryOf
<1>13. QED
  BY <1>8, <1>9, <1>10, <1>11, <1>12 DEF FrontSound

LEMMA FrontCopy ==
  ASSUME FrontSound, NEW c \in Copies, NEW d \in Copies, LockFree!Copy(c, d)
  PROVE  FrontSound'
<1>a. FrontTyped /\ FrontCalls /\ FrontLocked /\ FrontMaking /\ FrontObjects /\ FrontFound
  BY DEF FrontSound
<1>1. /\ internal_state[c] # None /\ internal_state[d] = None
      /\ internal_state' = [internal_state EXCEPT ![d] = internal_state[c]]
      /\ UNCHANGED <<allocators, status, made_for, mux_allocators, held, pc>>
      /\ UNCHANGED <<copy, class, salloc, arg>>
  BY DEF LockFree!Copy, LockFree!Alive, LockFree!heap, LockFree!locals
<1>2. \A t \in Threads : pc[t] # "idle" =>
        LockFree!Mine(t)' = LockFree!Mine(t) /\ LockFree!Entry(t)' = LockFree!Entry(t)
  BY <1>a, <1>1, NoneAssumption DEF FrontTyped, FrontCalls, LockFree!Mine, LockFree!Entry
<1>3. \A j \in Internals : LockFree!Users(j)' = {} <=> LockFree!Users(j) = {}
  BY <1>a, <1>1, NoneAssumption DEF FrontTyped, LockFree!Users
<1>4. LockFree!DeletedWithLast'
  BY <1>a, <1>1, <1>3 DEF FrontObjects, LockFree!DeletedWithLast, LockFree!Created, Pairs
<1>5. FrontTyped'
  BY <1>a, <1>1 DEF FrontTyped
<1>6. FrontCalls' /\ FrontLocked'
  BY <1>a, <1>1, <1>2 DEF FrontCalls, FrontLocked, InLock
<1>7. FrontMaking'
  BY <1>a, <1>1, <1>2 DEF FrontMaking, Making
<1>8. FrontObjects'
  BY <1>a, <1>1, <1>4 DEF FrontObjects, EntryOf, Making
<1>9. FrontFound'
  BY <1>a, <1>1, <1>2 DEF FrontFound, EntryOf
<1>10. QED
  BY <1>5, <1>6, <1>7, <1>8, <1>9 DEF FrontSound

LEMMA FrontDestroy ==
  ASSUME FrontSound, NEW c \in Copies, LockFree!Destroy(c)
  PROVE  FrontSound'
<1>a. FrontTyped /\ FrontCalls /\ FrontLocked /\ FrontMaking /\ FrontObjects /\ FrontFound
  BY DEF FrontSound
<1> DEFINE i == internal_state[c]
           Last == LockFree!Users(i) = {c}
<1>1. /\ i \in Internals /\ \A t \in Threads : copy[t] # c
      /\ Last => \A h \in held : made_for[h.object][1] # i
      /\ internal_state' = [internal_state EXCEPT ![c] = None]
      /\ status' = [o \in Objects |-> IF Last /\ o \in LockFree!Deleted(i)
                                      THEN "deleted" ELSE status[o]]
      /\ UNCHANGED <<allocators, made_for, mux_allocators, held, pc>>
      /\ UNCHANGED <<copy, class, salloc, arg>>
  BY <1>a DEF LockFree!Destroy, LockFree!Alive, LockFree!locals, FrontTyped
<1>2. c \in LockFree!Users(i)
  BY DEF LockFree!Users
<1>3. \A j \in Internals : LockFree!Users(j)' = LockFree!Users(j) \ {c}
  BY <1>a, <1>1, NoneAssumption DEF FrontTyped, LockFree!Users
<1>4. \A j \in Internals : j # i => c \notin LockFree!Users(j)
  BY DEF LockFree!Users
<1>5. \A t \in Threads : pc[t] # "idle" =>
        /\ LockFree!Mine(t)' = LockFree!Mine(t) /\ LockFree!Entry(t)' = LockFree!Entry(t)
        /\ Last => LockFree!Mine(t) # i
        /\ LockFree!Mine(t) \in Internals /\ class[t] \in Classes
  BY <1>a, <1>1 DEF FrontTyped, FrontCalls, LockFree!Mine, LockFree!Entry, LockFree!Users
<1>6. \A o \in LockFree!Deleted(i) :
        o \in Objects /\ status[o] # "none" /\ made_for[o][1] = i
  BY <1>a, <1>1 DEF FrontTyped, FrontObjects, LockFree!Deleted
<1>7. ASSUME Last, NEW o \in Objects, status[o] # "none", made_for[o][1] = i
      PROVE  o \in LockFree!Deleted(i)
  <2>1. ~ \E t \in Threads : Making(t) /\ salloc[t] = o
    BY <1>a, <1>5, <1>7 DEF FrontMaking, Making
  <2>2. EntryOf(o) = o /\ made_for[o] \in Pairs
    BY <1>a, <1>7, <2>1 DEF FrontObjects
  <2>3. QED
    BY <1>7, <2>2, NoneAssumption DEF EntryOf, LockFree!Deleted, Pairs
<1>8. \A o \in Objects : made_for[o][1] # i \/ ~Last => status'[o] = status[o]
  BY <1>1, <1>6
<1> HIDE DEF i
<1>9. ASSUME NEW o \in Objects, status[o] # "none", NEW j \in Internals, made_for[o][1] = j
      PROVE  (status'[o] = "deleted") <=> (LockFree!Users(j)' = {})
  <2>1. (status[o] = "deleted") <=> (LockFree!Users(j) = {})
    BY <1>a, <1>9 DEF FrontObjects, LockFree!DeletedWithLast, LockFree!Created
  <2>2. CASE j = i /\ Last
    <3>1. status'[o] = "deleted"
      BY <1>1, <1>7, <1>9, <2>2
    <3>2. LockFree!Users(j)' = {}
      BY <1>3, <2>2
    <3>3. QED
      BY <3>1, <3>2
  <2>3. CASE j = i /\ ~Last
    <3>1. status'[o] = status[o]
      BY <1>8, <2>3
    <3>2. LockFree!Users(j)' # {} /\ LockFree!Users(j) # {}
      BY <1>2, <1>3, <2>3
    <3>3. QED
      BY <2>1, <3>1, <3>2
  <2>4. CASE j # i
    <3>1. status'[o] = status[o]
      BY <1>8, <1>9, <2>4
    <3>2. LockFree!Users(j)' = LockFree!Users(j)
      BY <1>3, <1>4, <2>4
    <3>3. QED
      BY <2>1, <3>1, <3>2
  <2>5. QED
    BY <2>2, <2>3, <2>4
<1>10. LockFree!DeletedWithLast'
  <2> SUFFICES ASSUME NEW o \in Objects, status'[o] # "none"
               PROVE  (status'[o] = "deleted") <=> (LockFree!Users(made_for[o][1])' = {})
    BY DEF LockFree!DeletedWithLast, LockFree!Created
  <2>1. status[o] # "none" /\ made_for' = made_for
    BY <1>1, <1>6
  <2>2. made_for[o][1] \in Internals
    BY <1>a, <2>1 DEF FrontObjects, Pairs
  <2>3. PICK j \in Internals : made_for[o][1] = j
    BY <2>2
  <2>4. QED
    BY <1>9, <2>1, <2>3
<1>11. FrontTyped'
  BY <1>a, <1>1 DEF FrontTyped
<1>12. FrontCalls' /\ FrontLocked'
  BY <1>a, <1>1, <1>5 DEF FrontCalls, FrontLocked, InLock
<1>13. FrontMaking'
  <2>1. ASSUME NEW t \in Threads, Making(t) PROVE status'[salloc[t]] = status[salloc[t]]
    BY <1>a, <1>5, <1>8, <2>1 DEF FrontMaking, Making
  <2>2. QED
    BY <1>a, <1>1, <1>5, <2>1 DEF FrontMaking, Making
<1>14. FrontObjects'
  <2>1. \A o \in Objects : status'[o] # "none" => status[o] # "none"
    BY <1>1, <1>6
  <2>2. \A o \in Objects : status'[o] = "raw" => status[o] = "raw"
    BY <1>1
  <2>3. \A o \in Objects : status[o] # "none" => status'[o] # "none"
    BY <1>1
  <2>4. QED
    BY <1>a, <1>1, <1>10, <2>1, <2>2, <2>3 DEF FrontTyped, FrontObjects, EntryOf, Making
<1>15. FrontFound'
  <2>1. ASSUME NEW t \in Threads, pc[t] \in {"find", "deallocate"}
        PROVE  status'[arg[t].object] = "built"
    <3>1. /\ arg[t].object \in Objects /\ status[arg[t].object] = "built"
          /\ LockFree!Entry(t) = arg[t].object
      BY <1>a, <2>1 DEF FrontFound, HeldSlots
    <3>2. made_for[arg[t].object] = <<LockFree!Mine(t), class[t]>>
      BY <1>a, <1>5, <2>1, <3>1, NoneAssumption DEF FrontObjects, LockFree!Entry
    <3>3. QED
      BY <1>5, <1>8, <2>1, <3>1, <3>2
  <2>2. ASSUME NEW h \in held PROVE status'[h.object] = "built"
    BY <1>a, <1>1, <1>8 DEF FrontFound, FrontTyped, HeldSlots
  <2>3. QED
    BY <1>a, <1>1, <1>5, <2>1, <2>2 DEF FrontFound, EntryOf
<1>16. QED
  BY <1>11, <1>12, <1>13, <1>14, <1>15 DEF FrontSound

LEMMA FrontCallDeallocate ==
  ASSUME FrontSound, NEW t \in Threads, LockFree!CallDeallocate(t)
  PROVE  FrontSound'
<1>a. FrontTyped /\ FrontCalls /\ FrontLocked /\ FrontMaking /\ FrontObjects /\ FrontFound
  BY DEF FrontSound
<1>1. PICK s \in held, c \in Copies :
        /\ internal_state[c] # None /\ internal_state[c] = made_for[s.object][1]
        /\ copy' = [copy EXCEPT ![t] = c]
        /\ class' = [class EXCEPT ![t] = made_for[s.object][2]]
        /\ arg' = [arg EXCEPT ![t] = s]
        /\ held' = held \ {s}
  BY DEF LockFree!CallDeallocate, LockFree!Alive
<1>2. /\ pc[t] = "idle" /\ pc' = [pc EXCEPT ![t] = "find"]
      /\ UNCHANGED <<internal_state, allocators, status, made_for, mux_allocators, salloc>>
  BY DEF LockFree!CallDeallocate, LockFree!Move, LockFree!Goto, LockFree!heap
<1>3. /\ s \in HeldSlots /\ s.object \in Objects /\ status[s.object] = "built"
      /\ made_for[s.object] \in Pairs /\ EntryOf(s.object) = s.object
  BY <1>a DEF FrontTyped, FrontFound, FrontObjects, HeldSlots
<1>4. made_for[s.object][1] \in Internals /\ made_for[s.object][2] \in Classes
  BY <1>3 DEF Pairs
<1>5. \A u \in Threads : u # t =>
        /\ LockFree!Mine(u)' = LockFree!Mine(u) /\ LockFree!Entry(u)' = LockFree!Entry(u)
        /\ pc'[u] = pc[u] /\ copy'[u] = copy[u] /\ class'[u] = class[u] /\ arg'[u] = arg[u]
  BY <1>a, <1>1, <1>2 DEF FrontTyped, LockFree!Mine, LockFree!Entry
<1>6. /\ LockFree!Mine(t)' = made_for[s.object][1] /\ LockFree!Entry(t)' = s.object
      /\ pc'[t] = "find" /\ copy'[t] = c /\ class'[t] = made_for[s.object][2] /\ arg'[t] = s
  BY <1>a, <1>1, <1>2, <1>3 DEF FrontTyped, LockFree!Mine, LockFree!Entry, EntryOf
<1>7. FrontTyped'
  BY <1>a, <1>1, <1>2, <1>3, <1>4 DEF FrontTyped, FrontSteps
<1>8. FrontCalls'
  BY <1>a, <1>1, <1>4, <1>5, <1>6 DEF FrontCalls
<1>9. FrontLocked'
  BY <1>a, <1>2, <1>5, <1>6 DEF FrontLocked, InLock
<1>10. FrontMaking'
  BY <1>a, <1>2, <1>5, <1>6, MakingKept
<1>11. FrontObjects'
  BY <1>a, <1>2, <1>5, ObjectsKept DEF Making
<1>12. FrontFound'
  BY <1>a, <1>1, <1>2, <1>3, <1>5, <1>6 DEF FrontFound, EntryOf
<1>13. QED
  BY <1>7, <1>8, <1>9, <1>10, <1>11, <1>12 DEF FrontSound

LEMMA FrontAllocate ==
  ASSUME FrontSound, NEW t \in Threads, LockFree!Allocate(t)
  PROVE  FrontSound'
<1>a. FrontTyped /\ FrontCalls /\ FrontLocked /\ FrontMaking /\ FrontObjects /\ FrontFound
  BY DEF FrontSound
<1>1. PICK k \in 1 .. MaxDemand : held' = held \cup {[object |-> salloc[t], slot |-> k]}
  BY DEF LockFree!Allocate
<1>2. /\ pc[t] = "allocate" /\ status[salloc[t]] = "built"
      /\ pc' = [pc EXCEPT ![t] = "idle"]
      /\ copy' = [copy EXCEPT ![t] = None] /\ class' = [class EXCEPT ![t] = None]
      /\ salloc' = [salloc EXCEPT ![t] = None] /\ arg' = [arg EXCEPT ![t] = None]
      /\ UNCHANGED <<internal_state, allocators, status, made_for, mux_allocators>>
  BY DEF LockFree!Allocate, LockFree!Return, LockFree!Move, LockFree!Goto, LockFree!heap
<1>3. salloc[t] # None /\ salloc[t] = LockFree!Entry(t) /\ salloc[t] \in Objects
  BY <1>a, <1>2 DEF FrontTyped, FrontFound
<1>4. made_for[salloc[t]] = <<LockFree!Mine(t), class[t]>>
  <2>1. LockFree!Mine(t) \in Internals /\ class[t] \in Classes
    BY <1>a, <1>2 DEF FrontCalls
  <2>2. \A i \in Internals, e \in Classes :
          allocators[i][e] # None => made_for[allocators[i][e]] = <<i, e>>
    BY <1>a DEF FrontObjects
  <2>3. QED
    BY <1>3, <2>1, <2>2 DEF LockFree!Entry
<1>5. EntryOf(salloc[t]) = salloc[t]
  BY <1>3, <1>4 DEF EntryOf, LockFree!Entry
<1>6. \A u \in Threads : u # t =>
        /\ LockFree!Mine(u)' = LockFree!Mine(u) /\ LockFree!Entry(u)' = LockFree!Entry(u)
        /\ pc'[u] = pc[u] /\ copy'[u] = copy[u] /\ class'[u] = class[u]
        /\ salloc'[u] = salloc[u] /\ arg'[u] = arg[u]
  BY <1>a, <1>2 DEF FrontTyped, LockFree!Mine, LockFree!Entry
<1>7. pc'[t] = "idle"
  BY <1>a, <1>2 DEF FrontTyped
<1> DEFINE s == [object |-> salloc[t], slot |-> k]
<1>8. s \in HeldSlots /\ s.object = salloc[t]
  BY <1>3 DEF HeldSlots
<1> HIDE DEF s
<1>9. FrontTyped'
  <2>1. held' \subseteq HeldSlots
    BY <1>a, <1>1, <1>8 DEF FrontTyped, s
  <2>2. QED
    BY <1>a, <1>2, <2>1 DEF FrontTyped, FrontSteps
<1>10. FrontCalls' /\ FrontLocked'
  BY <1>a, <1>2, <1>6, <1>7 DEF FrontCalls, FrontLocked, InLock
<1>11. FrontMaking'
  BY <1>a, <1>2, <1>6, <1>7, MakingKept
<1>12. FrontObjects'
  BY <1>a, <1>2, <1>6, ObjectsKept DEF Making
<1>13. FrontFound'
  <2>1. \A h \in held' : status'[h.object] = "built" /\ (EntryOf(h.object) = h.object)
    BY <1>a, <1>1, <1>2, <1>5, <1>8 DEF FrontFound, s
  <2>2. QED
    BY <1>a, <1>2, <1>6, <1>7, <2>1 DEF FrontFound, EntryOf
<1>14. QED
  BY <1>9, <1>10, <1>11, <1>12, <1>13 DEF FrontSound

LEMMA FrontCreate ==
  ASSUME FrontSound, NEW t \in Threads, LockFree!Create(t)
  PROVE  FrontSound'
<1>a. FrontTyped /\ FrontCalls /\ FrontLocked /\ FrontMaking /\ FrontObjects /\ FrontFound
  BY DEF FrontSound
<1>1. PICK o \in Objects \ LockFree!Created :
        /\ status' = [status EXCEPT ![o] = "raw"]
        /\ made_for' = [made_for EXCEPT ![o] = <<LockFree!Mine(t), class[t]>>]
        /\ salloc' = [salloc EXCEPT ![t] = o]
  BY DEF LockFree!Create, LockFree!Any
<1>2. /\ pc[t] = "create" /\ pc' = [pc EXCEPT ![t] = "construct"]
      /\ UNCHANGED <<internal_state, allocators, mux_allocators, held, copy, class, arg>>
  BY DEF LockFree!Create, LockFree!Move, LockFree!Goto
<1>3. o \in Objects /\ status[o] = "none"
  BY DEF LockFree!Created
<1>4. \A u \in Threads :
        LockFree!Mine(u)' = LockFree!Mine(u) /\ LockFree!Entry(u)' = LockFree!Entry(u)
  BY <1>2 DEF LockFree!Mine, LockFree!Entry
<1>5. \A u \in Threads : Making(u) => salloc[u] \in Objects /\ salloc[u] # o
  BY <1>a, <1>3 DEF FrontMaking, Making
<1>6. \A x \in Objects : x # o => status'[x] = status[x] /\ made_for'[x] = made_for[x]
  BY <1>a, <1>1 DEF FrontTyped
<1>7. /\ status'[o] = "raw" /\ made_for'[o] = <<LockFree!Mine(t), class[t]>>
      /\ pc'[t] = "construct" /\ salloc'[t] = o
  BY <1>a, <1>1, <1>2 DEF FrontTyped
<1>8. \A u \in Threads : u # t => pc'[u] = pc[u] /\ salloc'[u] = salloc[u]
  BY <1>a, <1>1, <1>2 DEF FrontTyped
<1>9. LockFree!Mine(t) \in Internals /\ class[t] \in Classes
  BY <1>a, <1>2 DEF FrontCalls
<1>10. FrontTyped'
  BY <1>a, <1>1, <1>2, <1>9 DEF FrontTyped, FrontSteps, Pairs
<1>11. FrontCalls' /\ FrontLocked'
  BY <1>a, <1>2, <1>4, <1>7, <1>8 DEF FrontCalls, FrontLocked, InLock
<1>12. FrontMaking'
  <2>1. LockFree!Entry(t) = None
    BY <1>a, <1>2 DEF FrontMaking
  <2>2. ASSUME NEW u \in Threads, u # t, Making(u)
        PROVE  /\ status'[salloc[u]] = status[salloc[u]]
               /\ made_for'[salloc[u]] = made_for[salloc[u]]
    BY <1>5, <1>6, <2>2
  <2>3. QED
    BY <1>a, <1>2, <1>3, <1>4, <1>7, <1>8, <2>1, <2>2 DEF FrontMaking, Making
<1>13. FrontObjects'
  <2>1. \A i \in Internals, e \in Classes :
          allocators[i][e] # None => allocators[i][e] \in Objects /\ allocators[i][e] # o
    BY <1>a, <1>3 DEF FrontTyped, FrontObjects
  <2>2. \A i \in Internals, e \in Classes :
          allocators'[i][e] # None =>
            status'[allocators'[i][e]] # "none" /\ made_for'[allocators'[i][e]] = <<i, e>>
    BY <1>a, <1>2, <1>6, <2>1 DEF FrontObjects
  <2>3. ASSUME NEW x \in Objects, x # o, status[x] # "none"
        PROVE  EntryOf(x)' = EntryOf(x)
    BY <1>2, <1>6, <2>3 DEF EntryOf
  <2>4. \A u \in Threads : Making(u) => Making(u)' /\ salloc'[u] = salloc[u]
    BY <1>2, <1>8 DEF Making
  <2>5. Making(t)'
    BY <1>7 DEF Making
  <2>6. ASSUME NEW x \in Objects, status'[x] # "none"
        PROVE  /\ made_for'[x] \in Pairs
               /\ EntryOf(x)' = x \/ \E u \in Threads : Making(u)' /\ salloc'[u] = x
    <3>1. CASE x = o
      BY <1>7, <1>9, <2>5, <3>1 DEF Pairs
    <3>2. CASE x # o
      BY <1>a, <1>6, <2>3, <2>4, <2>6, <3>2 DEF FrontObjects
    <3>3. QED
      BY <3>1, <3>2
  <2>7. \A x \in Objects : status'[x] = "raw" => \E u \in Threads : Making(u)' /\ salloc'[u] = x
    BY <1>a, <1>6, <1>7, <2>4, <2>5 DEF FrontObjects
  <2>8. LockFree!DeletedWithLast'
    <3>1. \A j : LockFree!Users(j)' = LockFree!Users(j)
      BY <1>2 DEF LockFree!Users
    <3>2. LockFree!Users(LockFree!Mine(t)) # {}
      BY <1>a, <1>2, CalledIsUsed
    <3>3. ASSUME NEW x \in Objects, status'[x] # "none", NEW j, j = made_for'[x][1]
          PROVE  (status'[x] = "deleted") <=> (LockFree!Users(j) = {})
      <4>1. CASE x = o
        BY <1>7, <3>2, <3>3, <4>1
      <4>2. CASE x # o
        BY <1>a, <1>6, <3>3, <4>2 DEF FrontObjects, LockFree!DeletedWithLast, LockFree!Created
      <4>3. QED
        BY <4>1, <4>2
    <3>4. QED
      BY <3>1, <3>3 DEF LockFree!DeletedWithLast, LockFree!Created
  <2>9. QED
    BY <2>2, <2>6, <2>7, <2>8 DEF FrontObjects
<1>14. FrontFound'
  <2>1. \A u \in Threads : pc[u] \in {"find", "deallocate"} => status'[arg[u].object] = "built"
    BY <1>a, <1>3, <1>6 DEF FrontFound, HeldSlots
  <2>2. \A h \in held : status'[h.object] = "built" /\ EntryOf(h.object)' = h.object
    <3>1. ASSUME NEW h \in held PROVE h.object \in Objects /\ h.object # o
      BY <1>a, <1>3 DEF FrontFound, FrontTyped, HeldSlots
    <3>2. QED
      BY <1>a, <1>2, <1>6, <3>1 DEF FrontFound, EntryOf
  <2>3. QED
    BY <1>a, <1>2, <1>4, <1>7, <1>8, <2>1, <2>2 DEF FrontFound, EntryOf
<1>15. QED
  BY <1>10, <1>11, <1>12, <1>13, <1>14 DEF FrontSound

(* Where the object of t is entered, nothing or that object was before: no *)
(* other thread makes one there, and no entry is ever replaced.            *)
LEMMA EntryStored ==
  ASSUME FrontTyped, FrontCalls, FrontLocked, FrontMaking, FrontObjects, FrontFound,
         NEW t \in Threads, Making(t),
         LockFree!Entry(t) = None \/ LockFree!Entry(t) = salloc[t],
         internal_state' = internal_state, made_for' = made_for,
         copy' = copy, class' = class, salloc' = salloc,
         allocators' = [allocators EXCEPT ![LockFree!Mine(t)][class[t]] = salloc[t]]
  PROVE  /\ \A i \in Internals, e \in Classes :
              allocators'[i][e] = IF i = LockFree!Mine(t) /\ e = class[t]
                                  THEN salloc[t] ELSE allocators[i][e]
         /\ allocators' \in [Internals -> [Classes -> Objects \cup {None}]]
         /\ \A u \in Threads : LockFree!Mine(u)' = LockFree!Mine(u)
         /\ \A u \in Threads : pc[u] # "idle" /\ LockFree!Entry(u) # None =>
              LockFree!Entry(u)' = LockFree!Entry(u)
         /\ \A u \in Threads : u # t /\ InLock(u) => LockFree!Entry(u)' = LockFree!Entry(u)
         /\ LockFree!Entry(t)' = salloc[t]
         /\ \A o \in Objects : status[o] # "none" /\ EntryOf(o) = o => EntryOf(o)' = o
         /\ made_for[salloc[t]] = <<LockFree!Mine(t), class[t]>>
         /\ EntryOf(salloc[t])' = salloc[t]
<1>1. pc[t] # "idle" /\ InLock(t)
  BY DEF Making, InLock
<1>2. /\ LockFree!Mine(t) \in Internals /\ class[t] \in Classes /\ salloc[t] \in Objects
      /\ made_for[salloc[t]] = <<LockFree!Mine(t), class[t]>>
  BY <1>1 DEF FrontCalls, FrontMaking
<1>3. \A i \in Internals, e \in Classes :
        allocators'[i][e] = IF i = LockFree!Mine(t) /\ e = class[t]
                            THEN salloc[t] ELSE allocators[i][e]
  BY <1>2 DEF FrontTyped
<1>4. allocators' \in [Internals -> [Classes -> Objects \cup {None}]]
  BY <1>2 DEF FrontTyped
<1>5. \A u \in Threads : LockFree!Mine(u)' = LockFree!Mine(u)
  BY DEF LockFree!Mine
<1>6. \A u \in Threads : pc[u] # "idle" =>
        LockFree!Mine(u) \in Internals /\ class[u] \in Classes
  BY DEF FrontCalls
<1>7. \A u \in Threads : LockFree!Entry(u)' = allocators'[LockFree!Mine(u)][class[u]]
  BY <1>5 DEF LockFree!Entry
<1>8. \A u \in Threads : pc[u] # "idle" /\ LockFree!Entry(u) # None =>
        LockFree!Entry(u)' = LockFree!Entry(u)
  BY <1>3, <1>6, <1>7 DEF LockFree!Entry
<1>9. ASSUME NEW u \in Threads, u # t, InLock(u)
      PROVE  LockFree!Entry(u)' = LockFree!Entry(u)
  <2>1. LockFree!Mine(u) # LockFree!Mine(t) /\ pc[u] # "idle"
    BY <1>1, <1>9 DEF FrontLocked, InLock
  <2>2. QED
    BY <1>3, <1>6, <1>7, <2>1 DEF LockFree!Entry
<1>10. LockFree!Entry(t)' = salloc[t]
  BY <1>2, <1>3, <1>7
<1>11. ASSUME NEW o \in Objects, status[o] # "none", EntryOf(o) = o
       PROVE  EntryOf(o)' = o
  <2>1. made_for[o][1] \in Internals /\ made_for[o][2] \in Classes
    BY <1>11 DEF FrontObjects, Pairs
  <2>2. EntryOf(o)' = allocators'[made_for[o][1]][made_for[o][2]]
    BY DEF EntryOf
  <2>3. CASE made_for[o][1] = LockFree!Mine(t) /\ made_for[o][2] = class[t]
    <3>1. LockFree!Entry(t) = o
      BY <1>11, <2>3 DEF EntryOf, LockFree!Entry
    <3>2. o = salloc[t]
      BY <3>1, NoneAssumption
    <3>3. QED
      BY <1>3, <2>1, <2>2, <2>3, <3>2
  <2>4. CASE ~(made_for[o][1] = LockFree!Mine(t) /\ made_for[o][2] = class[t])
    BY <1>3, <1>11, <2>1, <2>2, <2>4 DEF EntryOf
  <2>5. QED
    BY <2>3, <2>4
<1>12. EntryOf(salloc[t])' = salloc[t]
  <2>1. PICK o \in Objects : o = salloc[t]
    BY <1>2
  <2>2. made_for'[o] = <<LockFree!Mine(t), class[t]>>
    BY <1>2, <2>1
  <2>3. allocators'[made_for'[o][1]][made_for'[o][2]] = o
    BY <1>2, <1>3, <2>1, <2>2
  <2>4. QED
    BY <2>1, <2>3 DEF EntryOf
<1>13. QED
  BY <1>2, <1>3, <1>4, <1>5, <1>8, <1>9, <1>10, <1>11, <1>12

(* What changes of FrontObjects when t builds the object it makes and may  *)
(* enter it: nobody's object but its own.                                  *)
LEMMA ObjectBuilt ==
  ASSUME FrontTyped, FrontCalls, FrontLocked, FrontMaking, FrontObjects,
         NEW t \in Threads, Making(t),
         internal_state' = internal_state, made_for' = made_for, salloc' = salloc,
         status' = [status EXCEPT ![salloc[t]] = "built"],
         \A u \in Threads : u # t => (Making(u)' <=> Making(u)),
         \A o \in Objects : status[o] # "none" /\ EntryOf(o) = o => EntryOf(o)' = o,
         Making(t)' \/ EntryOf(salloc[t])' = salloc[t],
         \A i \in Internals, e \in Classes :
           \/ allocators'[i][e] = allocators[i][e]
           \/ allocators'[i][e] = salloc[t] /\ made_for[salloc[t]] = <<i, e>>
  PROVE  FrontObjects'
<1> USE DEF FrontObjects
<1>1. salloc[t] \in Objects /\ status[salloc[t]] \in {"raw", "built"} /\ pc[t] # "idle"
  BY DEF FrontMaking, Making
<1>2. \A o \in Objects : status'[o] = IF o = salloc[t] THEN "built" ELSE status[o]
  BY DEF FrontTyped
<1>3. \A i \in Internals, e \in Classes :
        allocators'[i][e] # None =>
          status'[allocators'[i][e]] # "none" /\ made_for'[allocators'[i][e]] = <<i, e>>
  BY <1>1, <1>2 DEF FrontTyped
<1>4. ASSUME NEW o \in Objects, status'[o] # "none"
      PROVE  /\ made_for'[o] \in Pairs
             /\ EntryOf(o)' = o \/ \E u \in Threads : Making(u)' /\ salloc'[u] = o
  <2>1. status[o] # "none"
    BY <1>1, <1>2, <1>4
  <2>2. made_for[o] \in Pairs /\ (EntryOf(o) = o \/ \E u \in Threads : Making(u) /\ salloc[u] = o)
    BY <2>1
  <2>3. CASE o = salloc[t]
    <3>1. CASE Making(t)'
      BY <2>2, <2>3, <3>1
    <3>2. CASE EntryOf(salloc[t])' = salloc[t]
      <4>1. EntryOf(o)' = o
        BY <2>3, <3>2 DEF EntryOf
      <4>2. QED
        BY <2>2, <4>1
    <3>3. QED
      BY <3>1, <3>2
  <2>4. CASE o # salloc[t]
    BY <2>1, <2>2, <2>4
  <2>5. QED
    BY <2>3, <2>4
<1>5. ASSUME NEW o \in Objects, status'[o] = "raw"
      PROVE  \E u \in Threads : Making(u)' /\ salloc'[u] = o
  <2>1. o # salloc[t] /\ status[o] = "raw"
    BY <1>2, <1>5
  <2>2. QED
    BY <2>1
<1>6. LockFree!DeletedWithLast'
  <2>1. \A j : LockFree!Users(j)' = LockFree!Users(j)
    BY DEF LockFree!Users
  <2>2. LockFree!Users(LockFree!Mine(t)) # {} /\ made_for[salloc[t]][1] = LockFree!Mine(t)
    <3>1. made_for[salloc[t]] = <<LockFree!Mine(t), class[t]>>
      BY DEF FrontMaking
    <3>2. QED
      BY <1>1, <3>1, CalledIsUsed
  <2>3. ASSUME NEW o \in Objects, status'[o] # "none", NEW j, j = made_for'[o][1]
        PROVE  (status'[o] = "deleted") <=> (LockFree!Users(j) = {})
    <3>1. CASE o = salloc[t]
      BY <1>2, <2>2, <2>3, <3>1
    <3>2. CASE o # salloc[t]
      BY <1>2, <2>3, <3>2 DEF LockFree!DeletedWithLast, LockFree!Created
    <3>3. QED
      BY <3>1, <3>2
  <2>4. QED
    BY <2>1, <2>3 DEF LockFree!DeletedWithLast, LockFree!Created
<1>7. QED
  BY <1>3, <1>4, <1>5, <1>6

(* Nobody but t has the object that t makes in another place. *)
LEMMA OthersKept ==
  ASSUME FrontTyped, FrontCalls, FrontLocked, FrontMaking, FrontFound,
         NEW t \in Threads, Making(t), status' = [status EXCEPT ![salloc[t]] = "built"]
  PROVE  /\ \A u \in Threads : u # t /\ Making(u) => status'[salloc[u]] = status[salloc[u]]
         /\ \A o \in Objects : status[o] = "built" => status'[o] = "built"
         /\ status'[salloc[t]] = "built"
<1>1. salloc[t] \in Objects /\ \A u \in Threads : Making(u) => salloc[u] \in Objects
  BY DEF FrontMaking
<1>2. \A o \in Objects : status'[o] = IF o = salloc[t] THEN "built" ELSE status[o]
  BY DEF FrontTyped
<1>3. \A u \in Threads : u # t /\ Making(u) => salloc[u] # salloc[t]
  BY MakersApart
<1>4. QED
  BY <1>1, <1>2, <1>3

LEMMA FrontFirst ==
  ASSUME FrontSound, NEW t \in Threads, LockFree!First(t)
  PROVE  FrontSound'
<1>a. FrontTyped /\ FrontCalls /\ FrontLocked /\ FrontMaking /\ FrontObjects /\ FrontFound
  BY DEF FrontSound
<1>1. /\ pc[t] = "construct" /\ pc' = [pc EXCEPT ![t] = "second"]
      /\ UNCHANGED <<internal_state, made_for, mux_allocators, held, copy, class, salloc, arg>>
  BY DEF LockFree!First, LockFree!Move, LockFree!Goto, LockFree!locals
<1>2. pc'[t] = "second" /\ \A u \in Threads : u # t => pc'[u] = pc[u]
  BY <1>a, <1>1 DEF FrontTyped
<1>3. /\ Making(t) /\ Making(t)' /\ InLock(t) /\ InLock(t)'
      /\ \A u \in Threads : (Making(u)' <=> Making(u)) /\ (InLock(u)' <=> InLock(u))
  BY <1>1, <1>2 DEF Making, InLock
<1>4. /\ LockFree!Entry(t) = None /\ status[salloc[t]] = "raw" /\ salloc[t] \in Objects
  BY <1>a, <1>1, <1>3 DEF FrontMaking
<1>5. \A u \in Threads : LockFree!Mine(u)' = LockFree!Mine(u)
  BY <1>1 DEF LockFree!Mine
<1>6. FrontCalls' /\ FrontLocked'
  BY <1>a, <1>1, <1>2, <1>3, <1>5 DEF FrontCalls, FrontLocked
<1>7. CASE LockFree!Build(t) /\ UNCHANGED allocators
  <2>1. status' = [status EXCEPT ![salloc[t]] = "built"] /\ allocators' = allocators
    BY <1>7 DEF LockFree!Build
  <2>2. \A u \in Threads : LockFree!Entry(u)' = LockFree!Entry(u)
    BY <1>1, <1>5, <2>1 DEF LockFree!Entry
  <2>3. /\ \A u \in Threads : u # t /\ Making(u) => status'[salloc[u]] = status[salloc[u]]
        /\ \A o \in Objects : status[o] = "built" => status'[o] = "built"
        /\ status'[salloc[t]] = "built"
    BY <1>a, <1>3, <2>1, OthersKept
  <2>4. FrontTyped'
    BY <1>a, <1>1, <2>1 DEF FrontTyped, FrontSteps
  <2>5. FrontMaking'
    <3>1. made_for[salloc[t]] = <<LockFree!Mine(t), class[t]>>
      BY <1>a, <1>3 DEF FrontMaking
    <3>2. /\ LockFree!Entry(t)' = None /\ status'[salloc'[t]] = "built"
          /\ made_for'[salloc'[t]] = <<LockFree!Mine(t)', class'[t]>> /\ salloc'[t] \in Objects
      BY <1>1, <1>4, <1>5, <2>2, <2>3, <3>1
    <3>3. \A u \in Threads : u # t /\ Making(u) => status'[salloc'[u]] = status[salloc[u]]
      BY <1>1, <2>3
    <3>4. QED
      BY <1>a, <1>1, <1>2, <1>5, <2>2, <3>2, <3>3 DEF FrontMaking, Making
  <2>6. FrontObjects'
    <3>1. \A o \in Objects : status[o] # "none" /\ EntryOf(o) = o => EntryOf(o)' = o
      BY <1>1, <2>1 DEF EntryOf
    <3>2. QED
      BY <1>a, <1>1, <1>3, <2>1, <3>1, ObjectBuilt
  <2>7. FrontFound'
    BY <1>a, <1>1, <1>2, <2>1, <2>2, <2>3 DEF FrontTyped, FrontFound, EntryOf, HeldSlots
  <2>8. QED
    BY <1>6, <2>4, <2>5, <2>6, <2>7 DEF FrontSound
<1>8. CASE ~Ordered /\ LockFree!Store(t) /\ UNCHANGED status
  <2>1. /\ allocators' = [allocators EXCEPT ![LockFree!Mine(t)][class[t]] = salloc[t]]
        /\ status' = status
    BY <1>8 DEF LockFree!Store
  <2>2. /\ \A i \in Internals, e \in Classes :
             allocators'[i][e] = IF i = LockFree!Mine(t) /\ e = class[t]
                                 THEN salloc[t] ELSE allocators[i][e]
        /\ allocators' \in [Internals -> [Classes -> Objects \cup {None}]]
        /\ \A u \in Threads : pc[u] # "idle" /\ LockFree!Entry(u) # None =>
             LockFree!Entry(u)' = LockFree!Entry(u)
        /\ \A u \in Threads : u # t /\ InLock(u) => LockFree!Entry(u)' = LockFree!Entry(u)
        /\ LockFree!Entry(t)' = salloc[t]
        /\ \A o \in Objects : status[o] # "none" /\ EntryOf(o) = o => EntryOf(o)' = o
        /\ made_for[salloc[t]] = <<LockFree!Mine(t), class[t]>>
    BY <1>a, <1>1, <1>3, <1>4, <2>1, EntryStored
  <2>3. FrontTyped'
    BY <1>a, <1>1, <2>1, <2>2 DEF FrontTyped, FrontSteps
  <2>4. FrontMaking'
    <3>1. \A u \in Threads : u # t =>
            (pc[u] \in {"create", "construct"} \/ Making(u) => LockFree!Entry(u)' = LockFree!Entry(u))
      BY <2>2 DEF InLock, Making
    <3>2. QED
      <4>1. /\ LockFree!Entry(t)' = salloc'[t] /\ status'[salloc'[t]] = "raw"
            /\ made_for'[salloc'[t]] = <<LockFree!Mine(t)', class'[t]>> /\ salloc'[t] \in Objects
        BY <1>1, <1>4, <1>5, <2>1, <2>2
      <4>2. QED
        BY <1>a, <1>1, <1>2, <1>5, <1>8, <2>1, <3>1, <4>1 DEF FrontMaking, Making
  <2>5. FrontObjects'
    <3>1. \A i \in Internals, e \in Classes :
            allocators'[i][e] # None =>
              status'[allocators'[i][e]] # "none" /\ made_for'[allocators'[i][e]] = <<i, e>>
      <4>1. \A i \in Internals, e \in Classes :
              allocators[i][e] # None =>
                status[allocators[i][e]] # "none" /\ made_for[allocators[i][e]] = <<i, e>>
        BY <1>a DEF FrontObjects
      <4>2. \A i \in Internals, e \in Classes :
              allocators'[i][e] = IF i = LockFree!Mine(t) /\ e = class[t]
                                  THEN salloc[t] ELSE allocators[i][e]
        BY <2>2
      <4>3. made_for' = made_for /\ status' = status /\ status[salloc[t]] # "none"
        BY <1>1, <1>4, <2>1
      <4>4. made_for[salloc[t]] = <<LockFree!Mine(t), class[t]>>
        BY <2>2
      <4>5. QED
        BY <4>1, <4>2, <4>3, <4>4
    <3>2. LockFree!DeletedWithLast'
      BY <1>a, <1>1, <2>1
         DEF FrontObjects, LockFree!DeletedWithLast, LockFree!Users, LockFree!Created
    <3>3. QED
      BY <1>a, <1>1, <1>3, <2>1, <2>2, <3>1, <3>2 DEF FrontObjects
  <2>6. FrontFound'
    <3>1. \A u \in Threads : pc[u] \in {"unlock", "load", "allocate", "find", "deallocate"} =>
            u # t /\ LockFree!Entry(u) # None
      BY <1>a, <1>1, NoneAssumption DEF FrontFound, HeldSlots
    <3>2. \A u \in Threads : pc[u] \in {"unlock", "load", "allocate", "find", "deallocate"} =>
            LockFree!Entry(u)' = LockFree!Entry(u)
      BY <2>2, <3>1
    <3>3. \A h \in held : status'[h.object] = "built" /\ EntryOf(h.object)' = h.object
      <4>1. ASSUME NEW h \in held, NEW o, o = h.object
            PROVE  status'[o] = "built" /\ EntryOf(o)' = o
        BY <1>a, <2>1, <2>2, <4>1 DEF FrontTyped, FrontFound, HeldSlots
      <4>2. QED
        BY <4>1 DEF EntryOf
    <3>4. QED
      BY <1>a, <1>1, <1>2, <2>1, <3>2, <3>3 DEF FrontFound, EntryOf
  <2>7. QED
    BY <1>6, <2>3, <2>4, <2>5, <2>6 DEF FrontSound
<1>9. QED
  BY <1>7, <1>8 DEF LockFree!First

LEMMA FrontSecond ==
  ASSUME FrontSound, NEW t \in Threads, LockFree!Second(t)
  PROVE  FrontSound'
<1>a. FrontTyped /\ FrontCalls /\ FrontLocked /\ FrontMaking /\ FrontObjects /\ FrontFound
  BY DEF FrontSound
<1>1. /\ pc[t] = "second" /\ pc' = [pc EXCEPT ![t] = "unlock"]
      /\ status' = [status EXCEPT ![salloc[t]] = "built"]
      /\ allocators' = [allocators EXCEPT ![LockFree!Mine(t)][class[t]] = salloc[t]]
      /\ UNCHANGED <<internal_state, made_for, mux_allocators, held, copy, class, salloc, arg>>
  BY DEF LockFree!Second, LockFree!Build, LockFree!Store, LockFree!Move, LockFree!Goto,
     LockFree!locals
<1>2. pc'[t] = "unlock" /\ \A u \in Threads : u # t => pc'[u] = pc[u]
  BY <1>a, <1>1 DEF FrontTyped
<1>3. /\ Making(t) /\ InLock(t) /\ \A u \in Threads : InLock(u)' <=> InLock(u)
      /\ \A u \in Threads : u # t => (Making(u)' <=> Making(u))
  BY <1>1, <1>2 DEF Making, InLock
<1>4. /\ LockFree!Entry(t) = None \/ LockFree!Entry(t) = salloc[t]
      /\ salloc[t] \in Objects
  BY <1>a, <1>1, <1>3 DEF FrontMaking
<1>5. /\ \A i \in Internals, e \in Classes :
           allocators'[i][e] = IF i = LockFree!Mine(t) /\ e = class[t]
                               THEN salloc[t] ELSE allocators[i][e]
      /\ allocators' \in [Internals -> [Classes -> Objects \cup {None}]]
      /\ \A u \in Threads : LockFree!Mine(u)' = LockFree!Mine(u)
      /\ \A u \in Threads : pc[u] # "idle" /\ LockFree!Entry(u) # None =>
           LockFree!Entry(u)' = LockFree!Entry(u)
      /\ \A u \in Threads : u # t /\ InLock(u) => LockFree!Entry(u)' = LockFree!Entry(u)
      /\ LockFree!Entry(t)' = salloc[t]
      /\ \A o \in Objects : status[o] # "none" /\ EntryOf(o) = o => EntryOf(o)' = o
      /\ made_for[salloc[t]] = <<LockFree!Mine(t), class[t]>>
      /\ EntryOf(salloc[t])' = salloc[t]
  BY <1>a, <1>1, <1>3, <1>4, EntryStored
<1>6. /\ \A u \in Threads : u # t /\ Making(u) => status'[salloc[u]] = status[salloc[u]]
      /\ \A o \in Objects : status[o] = "built" => status'[o] = "built"
      /\ status'[salloc[t]] = "built"
  BY <1>a, <1>1, <1>3, OthersKept
<1>7. FrontTyped'
  BY <1>a, <1>1, <1>5 DEF FrontTyped, FrontSteps
<1>8. FrontCalls' /\ FrontLocked'
  BY <1>a, <1>1, <1>2, <1>3, <1>5 DEF FrontCalls, FrontLocked
<1>9. FrontMaking'
  <2>1. \A u \in Threads : u # t =>
          (pc[u] \in {"create", "construct"} \/ Making(u) => LockFree!Entry(u)' = LockFree!Entry(u))
    BY <1>5 DEF InLock, Making
  <2>2. \A u \in Threads : u # t /\ Making(u) => status'[salloc'[u]] = status[salloc[u]]
    BY <1>1, <1>6
  <2>3. \A u \in Threads :
          /\ LockFree!Mine(u)' = LockFree!Mine(u) /\ salloc'[u] = salloc[u]
          /\ made_for'[salloc'[u]] = made_for[salloc[u]] /\ class'[u] = class[u]
    BY <1>1, <1>5
  <2>4. pc'[t] = "unlock" /\ \A u \in Threads : u # t => pc'[u] = pc[u]
    BY <1>2
  <2>5. QED
    BY <1>a, <2>1, <2>2, <2>3, <2>4 DEF FrontMaking, Making
<1>10. FrontObjects'
  <2>1. \A i \in Internals, e \in Classes :
          \/ allocators'[i][e] = allocators[i][e]
          \/ allocators'[i][e] = salloc[t] /\ made_for[salloc[t]] = <<i, e>>
    BY <1>5
  <2>2. QED
    BY <1>a, <1>1, <1>3, <1>5, <2>1, ObjectBuilt
<1>11. FrontFound'
  <2>1. \A u \in Threads : pc[u] \in {"unlock", "load", "allocate", "find", "deallocate"} =>
          u # t /\ LockFree!Entry(u) # None /\ LockFree!Entry(u)' = LockFree!Entry(u)
    BY <1>a, <1>1, <1>5, NoneAssumption DEF FrontFound, HeldSlots
  <2>2. LockFree!Entry(t)' # None
    BY <1>4, <1>5, NoneAssumption
  <2>3. ASSUME NEW u \in Threads, pc[u] \in {"find", "deallocate"}
        PROVE  status'[arg[u].object] = "built"
    BY <1>a, <1>6, <2>3 DEF FrontFound, HeldSlots
  <2>4. \A h \in held : status'[h.object] = "built" /\ EntryOf(h.object)' = h.object
    <3>1. ASSUME NEW h \in held, NEW o, o = h.object
          PROVE  status'[o] = "built" /\ EntryOf(o)' = o
      BY <1>a, <1>5, <1>6, <3>1 DEF FrontTyped, FrontFound, HeldSlots
    <3>2. QED
      BY <3>1 DEF EntryOf
  <2>5. QED
    BY <1>a, <1>1, <1>2, <2>1, <2>2, <2>3, <2>4 DEF FrontFound, EntryOf
<1>12. QED
  BY <1>7, <1>8, <1>9, <1>10, <1>11 DEF FrontSound

(* A step of another front end leaves this one alone. *)
LEMMA RestFront ==
  ASSUME FrontSound, UNCHANGED lockFreeVars
  PROVE  FrontSound'
<1>a. FrontTyped /\ FrontCalls /\ FrontLocked /\ FrontMaking /\ FrontObjects /\ FrontFound
  BY DEF FrontSound
<1>1. /\ internal_state' = internal_state /\ allocators' = allocators
      /\ status' = status /\ made_for' = made_for /\ mux_allocators' = mux_allocators
      /\ held' = held /\ pc' = pc /\ copy' = copy /\ class' = class
      /\ salloc' = salloc /\ arg' = arg
  BY DEF lockFreeVars
<1>2. \A t \in Threads : /\ LockFree!Mine(t)' = LockFree!Mine(t)
                         /\ LockFree!Entry(t)' = LockFree!Entry(t)
                         /\ Making(t)' = Making(t)
  BY <1>1 DEF LockFree!Mine, LockFree!Entry, Making
<1>3. FrontTyped'
  BY <1>a, <1>1 DEF FrontTyped
<1>4. FrontCalls'
  BY <1>a, <1>1, <1>2 DEF FrontCalls
<1>5. FrontLocked'
  BY <1>a, <1>1, <1>2 DEF FrontLocked, InLock
<1>6. FrontMaking'
  BY <1>a, <1>1, <1>2 DEF FrontMaking
<1>7. FrontObjects'
  BY <1>a, <1>1, <1>2, ObjectsKept
<1>8. FrontFound'
  BY <1>a, <1>1, <1>2 DEF FrontFound, EntryOf
<1>9. QED
  BY <1>3, <1>4, <1>5, <1>6, <1>7, <1>8 DEF FrontSound

LEMMA StepFront ==
  ASSUME FrontSound, LockFree!Next
  PROVE  FrontSound'
<1>a. FrontTyped /\ FrontCalls /\ FrontLocked /\ FrontMaking /\ FrontObjects /\ FrontFound
  BY DEF FrontSound
<1> USE DEF LockFree!Move, LockFree!Goto, LockFree!Return, LockFree!heap, LockFree!locals,
        LockFree!Mine, LockFree!Entry, LockFree!Alive
<1>1. ASSUME NEW t \in Threads, LockFree!CallAllocate(t) PROVE FrontSound'
  <2> USE <1>1, <1>a, NoneAssumption DEF LockFree!CallAllocate, FrontTyped, FrontCalls
  <2>1. FrontTyped'
    BY DEF FrontSteps
  <2>2. FrontCalls'
    OBVIOUS
  <2>3. FrontLocked'
    BY DEF FrontLocked, InLock
  <2>4. FrontMaking'
    BY DEF FrontMaking, Making
  <2>5. FrontObjects'
    BY ObjectsKept DEF Making
  <2>6. FrontFound'
    BY DEF FrontFound, EntryOf
  <2>7. QED
    BY <2>1, <2>2, <2>3, <2>4, <2>5, <2>6 DEF FrontSound
<1>2. ASSUME NEW t \in Threads, LockFree!Check(t) PROVE FrontSound'
  <2> USE <1>2, <1>a, NoneAssumption DEF LockFree!Check, FrontTyped, FrontCalls
  <2>1. FrontTyped'
    BY DEF FrontSteps
  <2>2. FrontCalls'
    OBVIOUS
  <2>3. FrontLocked'
    BY DEF FrontLocked, InLock
  <2>4. FrontMaking'
    BY DEF FrontMaking, Making
  <2>5. FrontObjects'
    BY ObjectsKept DEF Making
  <2>6. FrontFound'
    BY DEF FrontFound, EntryOf
  <2>7. QED
    BY <2>1, <2>2, <2>3, <2>4, <2>5, <2>6 DEF FrontSound
<1>3. ASSUME NEW t \in Threads, LockFree!Lock(t) PROVE FrontSound'
  <2> USE <1>3, <1>a, NoneAssumption DEF LockFree!Lock, FrontTyped, FrontCalls
  <2>1. FrontTyped'
    BY DEF FrontSteps
  <2>2. FrontCalls'
    OBVIOUS
  <2>3. FrontLocked'
    BY DEF FrontLocked, InLock
  <2>4. FrontMaking'
    BY DEF FrontMaking, Making
  <2>5. FrontObjects'
    BY ObjectsKept DEF Making
  <2>6. FrontFound'
    BY DEF FrontFound, EntryOf
  <2>7. QED
    BY <2>1, <2>2, <2>3, <2>4, <2>5, <2>6 DEF FrontSound
<1>4. ASSUME NEW t \in Threads, LockFree!Recheck(t) PROVE FrontSound'
  <2> USE <1>4, <1>a, NoneAssumption DEF LockFree!Recheck, FrontTyped, FrontCalls
  <2>1. FrontTyped'
    BY DEF FrontSteps
  <2>2. FrontCalls'
    OBVIOUS
  <2>3. FrontLocked'
    BY DEF FrontLocked, InLock
  <2>4. FrontMaking'
    BY DEF FrontMaking, Making
  <2>5. FrontObjects'
    BY ObjectsKept DEF Making
  <2>6. FrontFound'
    BY DEF FrontFound, EntryOf
  <2>7. QED
    BY <2>1, <2>2, <2>3, <2>4, <2>5, <2>6 DEF FrontSound
<1>5. ASSUME NEW t \in Threads, LockFree!Unlock(t) PROVE FrontSound'
  <2> USE <1>5, <1>a, NoneAssumption DEF LockFree!Unlock, FrontTyped, FrontCalls
  <2>1. FrontTyped'
    BY DEF FrontSteps
  <2>2. FrontCalls'
    OBVIOUS
  <2>3. FrontLocked'
    BY DEF FrontLocked, InLock
  <2>4. FrontMaking'
    BY DEF FrontMaking, Making
  <2>5. FrontObjects'
    BY ObjectsKept DEF Making
  <2>6. FrontFound'
    BY DEF FrontFound, EntryOf
  <2>7. QED
    BY <2>1, <2>2, <2>3, <2>4, <2>5, <2>6 DEF FrontSound
<1>6. ASSUME NEW t \in Threads, LockFree!Load(t, "load", "allocate") PROVE FrontSound'
  <2> USE <1>6, <1>a, NoneAssumption DEF LockFree!Load, FrontTyped, FrontCalls
  <2>1. FrontTyped'
    BY DEF FrontSteps
  <2>2. FrontCalls'
    OBVIOUS
  <2>3. FrontLocked'
    BY DEF FrontLocked, InLock
  <2>4. FrontMaking'
    BY DEF FrontMaking, Making
  <2>5. FrontObjects'
    BY ObjectsKept DEF Making
  <2>6. FrontFound'
    BY DEF FrontFound, EntryOf
  <2>7. QED
    BY <2>1, <2>2, <2>3, <2>4, <2>5, <2>6 DEF FrontSound
<1>7. ASSUME NEW t \in Threads, LockFree!Load(t, "find", "deallocate") PROVE FrontSound'
  <2> USE <1>7, <1>a, NoneAssumption DEF LockFree!Load, FrontTyped, FrontCalls
  <2>1. FrontTyped'
    BY DEF FrontSteps
  <2>2. FrontCalls'
    OBVIOUS
  <2>3. FrontLocked'
    BY DEF FrontLocked, InLock
  <2>4. FrontMaking'
    BY DEF FrontMaking, Making
  <2>5. FrontObjects'
    BY ObjectsKept DEF Making
  <2>6. FrontFound'
    BY DEF FrontFound, EntryOf
  <2>7. QED
    BY <2>1, <2>2, <2>3, <2>4, <2>5, <2>6 DEF FrontSound
<1>8. ASSUME NEW t \in Threads, LockFree!Deallocate(t) PROVE FrontSound'
  <2> USE <1>8, <1>a, NoneAssumption DEF LockFree!Deallocate, FrontTyped, FrontCalls
  <2>1. FrontTyped'
    BY DEF FrontSteps
  <2>2. FrontCalls'
    OBVIOUS
  <2>3. FrontLocked'
    BY DEF FrontLocked, InLock
  <2>4. FrontMaking'
    BY DEF FrontMaking, Making
  <2>5. FrontObjects'
    BY ObjectsKept DEF Making
  <2>6. FrontFound'
    BY DEF FrontFound, EntryOf
  <2>7. QED
    BY <2>1, <2>2, <2>3, <2>4, <2>5, <2>6 DEF FrontSound
<1>9. CASE LockFree!Gone
  BY <1>9, RestFront DEF LockFree!Gone, LockFree!vars, lockFreeVars, LockFree!heap,
     LockFree!locals
<1>10. QED
  BY <1>1, <1>2, <1>3, <1>4, <1>5, <1>6, <1>7, <1>8, <1>9, FrontConstruct, FrontDestroy,
     FrontCopy, FrontCallDeallocate, FrontCreate, FrontFirst, FrontSecond, FrontAllocate
  DEF LockFree!Next, LockFree!Step

LEMMA FrontAnswers ==
  ASSUME FrontSound
  PROVE  /\ LockFree!OnePerClass /\ LockFree!UsedWhenBuilt
         /\ LockFree!FoundMaker /\ LockFree!DeletedWithLast
<1>a. FrontTyped /\ FrontCalls /\ FrontLocked /\ FrontMaking /\ FrontObjects /\ FrontFound
  BY DEF FrontSound
<1>1. LockFree!OnePerClass
  <2> SUFFICES ASSUME NEW o \in Objects, NEW q \in Objects,
                      status[o] # "none", status[q] # "none", made_for[o] = made_for[q]
               PROVE  o = q
    BY DEF LockFree!OnePerClass, LockFree!Created
  <2>1. EntryOf(o) = EntryOf(q) /\ made_for[o] \in Pairs
    BY <1>a DEF FrontObjects, EntryOf
  <2>2. ASSUME NEW x \in Objects, NEW y \in Objects, made_for[x] = made_for[y],
               EntryOf(x) = x, NEW t \in Threads, Making(t), salloc[t] = y
        PROVE  x = y
    <3>1. made_for[x] = <<LockFree!Mine(t), class[t]>>
      BY <1>a, <2>2 DEF FrontMaking
    <3>2. LockFree!Entry(t) = x
      BY <2>2, <3>1 DEF EntryOf, LockFree!Entry
    <3>3. LockFree!Entry(t) = None \/ LockFree!Entry(t) = y
      BY <1>a, <2>2 DEF FrontMaking, Making
    <3>4. QED
      BY <3>2, <3>3, NoneAssumption
  <2>3. CASE EntryOf(o) = o /\ EntryOf(q) = q
    BY <2>1, <2>3
  <2>4. ASSUME NEW t \in Threads, Making(t), salloc[t] = o,
               NEW u \in Threads, Making(u), salloc[u] = q
        PROVE  o = q
    <3>1. <<LockFree!Mine(t), class[t]>> = <<LockFree!Mine(u), class[u]>>
      BY <1>a, <2>4 DEF FrontMaking
    <3>2. LockFree!Mine(t) = LockFree!Mine(u)
      BY <3>1
    <3>3. t = u
      BY <1>a, <2>4, <3>2 DEF FrontLocked, InLock, Making
    <3>4. QED
      BY <2>4, <3>3
  <2>5. QED
    BY <1>a, <2>2, <2>3, <2>4 DEF FrontObjects
<1>2. LockFree!DeletedWithLast
  BY <1>a DEF FrontObjects
<1>3. ASSUME NEW t \in Threads, pc[t] = "allocate", status[salloc[t]] # "built"
      PROVE  ~Ordered /\ \E u \in Threads \ {t} : pc[u] = "second" /\ salloc[u] = salloc[t]
  <2>1. /\ LockFree!Mine(t) \in Internals /\ class[t] \in Classes
        /\ salloc[t] = LockFree!Entry(t) /\ salloc[t] # None /\ salloc[t] \in Objects
    BY <1>a, <1>3 DEF FrontTyped, FrontCalls, FrontFound
  <2>2. status[salloc[t]] # "none" /\ made_for[salloc[t]] = <<LockFree!Mine(t), class[t]>>
    <3>1. \A i \in Internals, e \in Classes :
            allocators[i][e] # None =>
              status[allocators[i][e]] # "none" /\ made_for[allocators[i][e]] = <<i, e>>
      BY <1>a DEF FrontObjects
    <3>2. QED
      BY <2>1, <3>1 DEF LockFree!Entry
  <2>3. LockFree!Users(made_for[salloc[t]][1]) # {}
    BY <1>a, <1>3, <2>2, CalledIsUsed
  <2>4. status[salloc[t]] # "deleted"
    BY <1>2, <2>1, <2>2, <2>3 DEF LockFree!DeletedWithLast, LockFree!Created
  <2>5. status[salloc[t]] = "raw"
    BY <1>a, <1>3, <2>1, <2>2, <2>4 DEF FrontTyped
  <2>6. PICK u \in Threads : Making(u) /\ salloc[u] = salloc[t]
    BY <1>a, <2>1, <2>5 DEF FrontObjects
  <2>7. <<LockFree!Mine(u), class[u]>> = <<LockFree!Mine(t), class[t]>>
    BY <1>a, <2>2, <2>6 DEF FrontMaking
  <2>8. LockFree!Entry(u) = salloc[t]
    BY <2>1, <2>7 DEF LockFree!Entry
  <2>9. pc[u] = "second" /\ ~Ordered
    BY <1>a, <2>1, <2>5, <2>6, <2>8 DEF FrontMaking, Making
  <2>10. QED
    BY <1>3, <2>6, <2>9
<1>4. ASSUME NEW t \in Threads, pc[t] = "deallocate"
      PROVE  salloc[t] = arg[t].object /\ status[salloc[t]] = "built" /\ salloc[t] # None
  BY <1>a, <1>4, NoneAssumption DEF FrontFound, HeldSlots
<1>5. ASSUME NEW t \in Threads, pc[t] = "allocate" PROVE salloc[t] # None
  BY <1>a, <1>5 DEF FrontFound
<1>6. LockFree!UsedWhenBuilt
  BY <1>3, <1>4, <1>5 DEF LockFree!UsedWhenBuilt
<1>7. LockFree!FoundMaker
  BY <1>4 DEF LockFree!FoundMaker
<1>8. QED
  BY <1>1, <1>2, <1>6, <1>7

-----------------------------------------------------------------------------
(* The three together *)

FrontEndsSound == VectorSound /\ CopiesSound /\ FrontSound

LEMMA InitFrontEnds == Init => FrontEndsSound
  BY InitVector, InitCopies, InitFront DEF Init, FrontEndsSound

LEMMA StepFrontEnds ==
  FrontEndsSound /\ [Next]_<<part, lockFreeVars, mutexVars, vectorVars, stackVars, listVars>>
    => FrontEndsSound'
<1> SUFFICES ASSUME FrontEndsSound,
                    [Next]_<<part, lockFreeVars, mutexVars, vectorVars, stackVars, listVars>>
             PROVE  FrontEndsSound'
  OBVIOUS
<1>1. VectorSound /\ CopiesSound /\ FrontSound
  BY DEF FrontEndsSound
<1>2. LockFree!Next \/ UNCHANGED lockFreeVars
  BY DEF Next
<1>3. Mutex!Next \/ UNCHANGED mutexVars
  BY DEF Next
<1>4. Vector!Next \/ UNCHANGED vectorVars
  BY DEF Next
<1>5. FrontSound'
  BY <1>1, <1>2, StepFront, RestFront
<1>6. CopiesSound'
  BY <1>1, <1>3, StepCopies, RestCopies
<1>7. VectorSound'
  BY <1>1, <1>4, StepVector, RestVector
<1>8. QED
  BY <1>5, <1>6, <1>7 DEF FrontEndsSound

LEMMA FrontEndsAlways == Spec => []FrontEndsSound
  BY InitFrontEnds, StepFrontEnds, PTL DEF Spec

(* However many threads find no allocator of a class at once, one object   *)
(* of the class is made: for each internal state in the lock-free          *)
(* allocator, once and for all in the vector allocator.                    *)
THEOREM CreatedOnce == Spec => []OnePerClass
<1>1. FrontEndsSound => OnePerClass
  BY FrontAnswers, VectorAnswers DEF FrontEndsSound, OnePerClass
<1>2. QED
  BY <1>1, FrontEndsAlways, PTL

(* No call reaches an object before it is constructed, but for the one     *)
(* case that unordered stores leave open, nor after the last copy has      *)
(* deleted it; the last copy deletes all; and no slot of a Slab is handed  *)
(* out before the Slab is in the table.                                    *)
THEOREM BuiltBeforeUse == Spec => []UsedWhenBuilt
<1>1. FrontEndsSound => UsedWhenBuilt
  BY FrontAnswers, VectorAnswers DEF FrontEndsSound, UsedWhenBuilt
<1>2. QED
  BY <1>1, FrontEndsAlways, PTL

(* However threads share, copy, assign and destroy the allocators: of the  *)
(* lock-free one, a slot goes back to the object it came from through      *)
(* every copy that compares equal.  Of the mutex one, where each copy has  *)
(* an array of its own, through the copy that allocated it and through     *)
(* all that were taken from that one later; another copy may crash the     *)
(* program, which nothing else does, or finds an object of the right size. *)
THEOREM ReturnedToMaker == Spec => []FoundMaker
<1>1. FrontEndsSound => FoundMaker
  BY FrontAnswers, CopiesAnswer DEF FrontEndsSound, FoundMaker
<1>2. QED
  BY <1>1, FrontEndsAlways, PTL

(* Whatever updates of the bitmaps get lost, none makes the slot free that *)
(* holds the metadata.                                                     *)
THEOREM MetadataNeverGiven == Spec => []MetadataSafe
<1>1. FrontEndsSound => MetadataSafe
  BY VectorAnswers DEF FrontEndsSound, MetadataSafe
<1>2. QED
  BY <1>1, FrontEndsAlways, PTL
=============================================================================
