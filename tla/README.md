# Slab allocators: specifications, model checking and proofs

The repository holds two generations of slab allocators meant for zero-copy
serialization. `old-slab-allocator` has a lock-free and a mutex variant of the
same design; `vector-slab-allocator` keeps the slots of a size in one growing
array, so that it can be copied as a whole, and hands out position-independent
pointers. This directory specifies them in TLA+, from the front ends that
containers call down to single atomic instructions, model-checks small
instances with TLC and proves with TLAPS, for instances of any size, the safety
properties of all of them, down to the arithmetic of sizes and addresses.

## The system

| Part | Source | State | Operations | Modelled in |
|---|---|---|---|---|
| Lock-free `Slab` | `lock_free_allocator/slab.h` | atomic counter `num_free`, atomic word `free_slots` | `lock_slot`, `get_pointer`, `release_slot`, `find_slab_info` | `LockFreeSlab`; addresses in `SlabLayout` |
| Lock-free `SingleAllocator` | `lock_free_allocator/single_allocator.h` | queue of slabs with a free slot, list of all slabs | `allocate`, `deallocate`, constructor, destructor | `LockFreeAllocator` |
| `LowLockQueue` | `lock_free_allocator/lowlockqueue.h` | linked list with a dummy node, two spin locks | `push_back`, `pop_front`, destructor | `LowLockQueue`; as a sequence in `LockFreeAllocator` |
| Lock-free `SlabAllocator<T>` | `lock_free_allocator/slab_allocator.h` | 40 allocators by size class, shared by copies | `allocate`, `deallocate`, copy, destruction | `LockFreeFrontEnd`, `SizeClass` |
| Mutex `Slab`, `SingleAllocator` | `mutex_allocator/slab.h`, `single_allocator.h` | counter, bitset and its mutex; queue and its mutex | `insert`, `erase`; `allocate`, `deallocate` | `MutexAllocator`; addresses in `SlabLayout` |
| Mutex `SlabAllocator<T>` | `mutex_allocator/slab_allocator.h` | 13 allocators by size class, one array per copy | `allocate`, `deallocate`, copy, assignment | `MutexFrontEnd`, `SizeClass` |
| Vector `Slab` | `vector-slab-allocator/include/slab.h` | array of blocks with their metadata | `allocate`, `deallocate`, `resize` | `VectorSlab`; addresses in `SlabLayout` |
| Vector `SlabAllocator<T>` | `vector-slab-allocator/include/slab_allocator.h` | 40 slabs by size class | `allocate`, `deallocate` | `VectorFrontEnd` (threads), `FancyPointer`, `SizeClass` |
| `fancy_pointer`, lookup table | `fancy_pointer.h`, `slab_lookup_table.h` | table of slabs by machine and size | `pointer_to`, `to_address`, arithmetic | `FancyPointer`, `PointerArithmetic` |
| `lock_free_stack` | `lf_stack.h` | linked stack of `shared_ptr` nodes | `push_front`, `pop_front`, `front`, `find` | `LockFreeStack`; no allocator uses it |
| `lf_slist` | `lf_slist.h` | linked list with an atomic tail | `push_back`, destructor | `LockFreeList`; used by a benchmark |

How they interact: a container calls `SlabAllocator<T>`, which picks (creating
it on first use) the allocator of the size class; that one takes a slab from
its queue and a slot from the slab. A pointer carries no header: `deallocate`
finds the slab and the slot from the alignment of the address. Client threads
call from everywhere; there are no callbacks, no I/O and nothing persistent, so
no crash or restart behaviour exists. What is hard is concurrency - two spin
locks taken in different orders, atomic words changed under no lock, a counter
and a bitmap that change separately, nodes freed outside the locks - and
boundaries: 64 bits for 63 slots, a 64-bit list for any number of blocks, sizes
that are an `int` in one place and a `size_t` in the next, ends of arrays.
Copies of an allocator are hard, too: containers copy, rebind and compare
allocators as they like, and deallocate through another copy than they
allocated from.

## Modules

### The lock-free allocator

`SlotPool` is what an allocator for one slot size promises its clients: every
`allocate()` returns a slot inside a slab that nobody holds; `deallocate()`
takes it back when it is called. Call and return are separate steps.

`LockFreeSlab` is `slab.h`: each operator is one atomic instruction. A word is
the set of its bits at 1; `ffsll` is `Min`. The word has `MaxSlots + 1` bits,
as in the source (64 for 63).

`LockFreeAllocator` is `single_allocator.h` with the queue's control flow. Each
thread has a program counter and the locals that matter (`slab`, `slot`,
`expected`, the word a compare-exchange starts from), and each action is one
access to shared state. The mapping of `pop_front`: `acquire_consumer`
(lines 63-64), `read_next` (65-68), `lock_slot` (69), `swing_first` (75-76),
`unlock_consumer` (71 or 77), `try_producer` (84), `new_slab` (85-88),
`publish_new` (90-91), `unlock_new` (92), `give_up` (98); of `get_pointer`:
`load_word`, `claim`, with `nullptr` for the early return; of `release_slot` and
`push_back`: `load_bits`, `set_bit`, `add_free`, `acquire_producer`, `publish`,
`unlock_producer`. A failed exchange is `ClaimAgain` or `SetBitAgain`. A
spurious failure of `compare_exchange_weak` repeats the step it is in and is
stuttering, as is a spin on a lock. The queue is a sequence: `push_back` takes
effect at `last->next = tmp`, `pop_front` at `first = theNext`. That is
justified by `LowLockQueue`, where both are steps on real nodes.
`pop_front` copies the value to `result` after it has released the lock; the
value is a local, so nothing can come between.

Clients are as the precondition of `deallocate` demands: they free only what
they own, once. `Destroy` is the destructor of the last copy: no call is in
progress and clients have returned every pointer.

`LowLockQueue` has the nodes: addresses that are allocated or not, with the
fields `value` and `next`; `new` may return any address that is not in use,
including one just deleted. `FifoQueue` is its abstract specification.

Memory is sequentially consistent in both modules. The atomics use the default
(sequentially consistent) order; `first`, `last` and `value` are plain, but each
is accessed only under its lock (or, for a new node's `value`, before the node
is published). `all_slabs`, a plain deque, is changed under both locks.

### The mutex allocator

`MutexAllocator` has the same structure. `allocate()` holds `mux_free_slabs`
throughout, so it is a sequence of four actions (`LockQueue`, `Insert`,
`FetchSub`, `Settle`) that other allocations cannot enter; `Erase`, `FetchAdd`
of a deallocation can come between any two. `Settle` reads `num_free` a second
time, as the code does. `MutexFrontEnd` is the class in front of it. Threads
share copies, as `benchmark_tests/benchmark-multi-threaded.cpp` does, so
`allocate()` is a sequence of steps, of several threads at once in one copy: the
unlocked check (`Check`, line 87), the mutex (88), the second check (89), the
store of a new object (90), the end of the lock's scope (92), the second read
(`Load`, 94) and the call (95). Copies are made of a copy that is in use, as
in `tests/multi-threaded.cpp`: `memcpy` (`CopyEntry`, one pointer at a time) reads
an array that threads are changing, under no lock. A copy is called once it is
written, and is assigned to or destroyed when nobody calls it; its source may be
in use. A client may deallocate through any copy that exists, for all compare
equal. The entry it reads (`Find`) may lead to the object that made the pointer, to
another, or nowhere, and then the program crashes (`Crash`, line 115).
Two variables exist in the model only: `made_for` has the family of copies and the
class that a `SingleAllocator` was created for, and the field `known` of a pointer has
the copies that were called for it or were taken later from one that was; these
are the ones a client can rely on. The first copy names its family, which has the
mutex they share.

### The lock-free front end

`LockFreeFrontEnd` follows `allocate()` of several threads line by line: the
unlocked check (98), the mutex (99), the second check (100), and in line 101
the memory (`Create`), the constructor's stores and the store of the pointer
(`First`, `Second`), which come in program order if `Ordered`. The pointer is
read again in line 106 (`Load`). The `SingleAllocator` behind it is the pool that
`LockFreeAllocator` is shown to be. Copies are constructed, copied and destroyed
at any time nobody calls them; the last one deletes the internal state, as
`shared_ptr` does. Containers have returned their slots by then.

### Sizes and addresses

`SizeClass` has the loop that all three front ends run to find the class of a
request, with `int` and `size_t` as words of `IntWidth` and `SizeWidth` bits, and
the size of slot that each derives from the class. Powers of two are the recursive
function `Two` of `Powers`, which the provers can be told about, as they cannot
about `^`. `SlabLayout` has the
arithmetic of addresses: where a slot lies, and how `deallocate()` finds slab,
block and slot in the address. Memory starts at any multiple of its alignment,
and grows with `resize()`. In the vector layout slot 0 is the one slot of a block that
is never handed out. The code takes `max(1, size/sz)` slots for metadata
(`slab.h:100-103`), in the first block for that of the slab, too; it hands out fewer
slots than the module then, at the same addresses.

### The vector slab

`VectorSlab` is `slab.h` of the vector allocator, one call per action: the class
has no synchronization of its own and the tests call it from one thread. The
array is a function from block numbers to sets of free slots; its address is a
number that grows with each `resize()`. `AllocateResized` is the recursive
`allocate()`. The client is that of `tests/test2.cpp` and `test3.cpp`: it
moves its pointers by `new_blocks - blocks` when `did_resize` is true.
`deallocate()` finds the block from the address; the model reads block and slot
from the pointer. `1ULL << block_num` for a block past the word is undefined in
C++; the model lets it set bit `block_num % 64` (what x86-64 and AArch64 do) or
no bit.
A failed assertion ends the program; with `NDEBUG`, which a Release build
defines, the code would go on with slot -1, and that is not modelled.

### The vector allocator around it

`FancyPointer` puts together the lookup table, slabs of several classes, arrays
that move when they grow, the vector `SlabAllocator` and its fancy pointers,
with one thread. Addresses are numbers, an array may come to lie directly
behind another or behind an object that belongs to no slab (`outside`, as the
end node of a list does). `PointerTo` scans the table as `pointer_to` does and
takes the first array that matches; the end of an array belongs to it, for the
comparison is `<=`. That one array's end is another's start does no harm: slot
0 has metadata, so no pointer to it is ever made (`RoundTrip`). A deleted slab
in the table ends what is modelled only where `pointer_to` gets as far as its entry
(`NoneDeleted`). `PointerArithmetic` has the operators of lines 114 to 211, without
the sum of two pointers and the comparison with null.

`VectorFrontEnd` has the threads: double-checked creation as in the lock-free
front end, then `slab->allocate()` and `deallocate()` under no lock. `ffsll` reads the
word of slots (`FindSlot`), and the `&=` that follows reads it again: every `|=` and
`&=` on it is a load and a store of its own (`LoadWord`, `StoreClear`, `StoreSet`). It
ends where a thread would resize.

### The linked structures

`LockFreeStack` is `lf_stack.h`. A node lives while a `shared_ptr` leads to it
(`Live`), so its address comes back at once when the last one goes; that is
what makes the exchange safe, and the mutant `LiveRaw` shows what raw pointers
would do. `Stack` is its abstract specification. `LockFreeList` is the class
`lf_slist`: `Successor` is the list as it will be when the threads that have
exchanged the tail have linked.

## What is checked

| Run | Instance | Shows |
|---|---|---|
| `lock_free_safety` | 3 threads, 4 slabs of 2 slots, at most 4 slots in demand | locks exclude; no slot has two owners or is lost; `num_free` exact; `allocate()` never fails; the queue offers each slab with space once; the destructor frees each slab once; slabs are bounded; the allocator is a `SlotPool` |
| `low_lock_queue` | 3 threads, 2 values, 6 node addresses | no use after free, no lost node, FIFO |
| `mutex_threads` | 3 threads, 4 slabs, demand 4, queue below 3 when a slot is freed | what survives concurrency: slots have one owner, no slab with space is forgotten |
| `mutex_sequential` | 1 thread, slabs of 3 slots, demand 8 | with one thread, all promises hold |
| `mutex_layout` | 2 threads, 3 slabs | violation: a pointer behind the slab's memory |
| `vector_small` | 4 blocks of 4 slots, list of 4 bits | the list of blocks is exact, the assertion holds |
| `vector_large` | up to 8 blocks of 3 slots, list of 2 bits | what holds beyond the list |
| `vector_assert` | up to 4 blocks of 3 slots, list of 2 bits | violation: the assertion in `find_free_slot` fails |
| `concurrent`, part `lock_free` | 3 threads, 2 copies, 2 internal states, 1 class, demand 3, stores in any order | one allocator per class and internal state, built when it is called, found again by every copy, deleted with the last |
| part `mutex` | 3 threads, 2 copies, 2 classes, 2 `SingleAllocator`s, demand 2 | a copy finds what it allocated from, also if it was taken while threads create classes; only another copy crashes, and what it finds otherwise has the right size |
| part `vector` | 2 threads, block of 3 slots, demand 3 | one slab, in the table before a slot leaves it; the metadata slot never handed out |
| part `stack` | 2 threads, 3 nodes, 2 values | a stack; references keep their value; no thread keeps a node alive after its call |
| part `list` | 3 threads, 4 nodes | no node lost, one order, all freed |
| `mutex_copies` | 2 threads, 2 copies, 1 class | violation: a pointer returned through an allocator that compares equal crashes the program |
| `progress`, part `lock_free` | 2 threads, 3 slabs of 2 slots, demand 3 | spin locks are always released; calls keep returning |
| part `front_end` | 2 threads, 2 copies, 2 classes | every call returns |
| part `list` | 3 threads, 4 nodes | every node becomes reachable |
| part `mutex` | 2 threads, 3 slabs of 2 slots, demand 4, queue below 2 when a slot is freed | calls keep returning, although the queue holds duplicates and `insert()` finds nothing |
| part `stack` | 2 threads, 2 nodes, 2 values | calls keep returning |
| `addresses`, part `class` | `int` of 8 and `size_t` of 11 bits, requests up to 260, where counted in `size_t` up to 1030 | class exact, slot fits, loop ends, size kept: exactly where no word overflows |
| part `layout` | `int` of 7 bits, slots of 1, 3, 8, 16 bytes, up to 4 blocks of 4 slots | addresses lead back; slots are apart and inside; where it is that `resize()` asks for too little |
| part `fancy` | 2 allocators, 2 classes, 15 addresses, 1 object outside | fancy pointers lead to their slots and have one name |
| part `walk` | objects of 1 to 8 bytes, 6 of them, words of 8 bits | pointers walk and compare like pointers; which differences are right |

The runs `concurrent`, `progress` and `addresses` check several components that do not
use each other, side by side (`MCConcurrent`, `MCProgress`, `MCAddresses`). The variable `part` is
chosen at the start and says which component takes the steps of a behaviour;
the state of the others stays what it was initially. A property of such a run
is the conjunction of what it asks of each component.

Bounds. `MaxDemand` bounds the slots in use or asked for; with two slots to a
slab and a demand of four, slabs fill up, are unlinked, come back, and new ones
are created while others wait to be pushed. Three threads give one in
`get_pointer`, one in `release_slot` and one in the queue at the same time.
`MaxSlots >= 2` is an assumption: a slab of one slot would be queued full by
`pop_front`, which publishes a new slab with its first slot reserved.
Words are a few bits wide in `SizeClass`, `SlabLayout` and `PointerArithmetic`
because the code treats widths alike: what matters is which power of two no
longer fits, and the instances go past every such power. Three nodes for the
stack suffice for a node to leave and its address to come back under a thread
that still expects it; three threads in the list suffice for a chain of nodes
that nobody has linked. `MaxAddress` in `FancyPointer` leaves room for an array
to move while another class, or another allocator, has one. Names of families
in `MutexFrontEnd` and of internal states are used once, so those programs come
to an end (`Ended`, `Gone`).
`Slabs` is never exhausted in the lock-free runs (`SlabsBounded` says why).
`MaxQueue` in `MutexAllocator` cuts off the growth of the queue by duplicates,
which the code does not bound. `MaxNodes` bounds the calls of `push_back`.
`MaxBlocks` stops the growth of the array; in `vector_large` it is four times
the width of the list, in `vector_small` equal to it, so both sides of the
boundary are reached. Slots and blocks are few because the code treats all
bits alike; only "none left", "one left" and "more" differ.

Symmetry of threads and slabs (and of nodes and values) is used for invariants
and for the safety refinements, where all of them are interchangeable; never
for liveness.

Fairness: `WF_vars(Step(t))` for every thread inside a call: the operating
system runs every thread. Calls are not fair, for no client has to call, and no
lock is: an `exchange` loop guarantees nothing to one thread. So a single call
may spin for ever, and only progress of the whole is claimed. The same holds of
the mutexes of the mutex allocator, of the stack and of the list: `WF` of
`Step(t)`, and claims about the whole. In `LockFreeFrontEnd` single calls
return, because a mutex is taken only while a class is missing. That a node of
the list becomes reachable needs that a thread between exchange and link is run
again; that is why the list is not lock-free.

## Findings

`mutex_layout`. A thread that takes the last slot of a slab tests
`num_free == 0` after `insert()`. A deallocation from the same slab in between
makes the test fail, so the slab is not popped, and if that deallocation saw 0
it pushes the slab again. Now the queue holds a slab twice; it is popped once
when it fills, stays in the queue although full, and the next `insert()`, which
searches 64 bits, returns the slot behind the last. The comment at
`mutex_allocator/slab.h:27` and the allocation at line 33 provide 63.
The same duplicates make `~SingleAllocator` delete a slab twice, and full
slabs that are missing are leaked; with one thread neither happens
(`mutex_sequential`).

`vector_assert`. `deallocate()` sets bit `block_num` of `free_block_list` even
for blocks past the 64th. Where the shift wraps, the list names a block that may
be full, and `find_free_slot` asserts that it is not.

`mutex_copies`. `operator==` of the mutex allocator is true for any two allocators, and
`deallocate()` is to "Find the correct allocator for this size" (line 113), but each
allocator has an array of its own: one that was not asked for the size before finds a
null pointer there. `tests/multi-threaded.cpp` crashes at line 115 for this reason:
`std::deque` allocates and frees its map through rebound temporary copies.

## Limits of the code

Some promises of the comments end where the code ends them. The properties that
are named here say where; for sizes, addresses and differences exactly, so that
a change in either direction shows:

- Sizes (`ClassFits`). `log2_int_ceil` of the lock-free front end takes an
  `int`. Up to 512 MiB the slots are right; above, `2 << exponent` is negative;
  just above 1 GiB the loop does not end; from 2 GiB on the request itself is
  negative and gets a slot of 2 bytes. The comment at
  `lock_free_allocator/slab_allocator.h:28` promises ceil(log2 n).
  `SlabMD::sz` of the vector slab keeps slots below 2 GiB only. The loops in
  `size_t` of the other two front ends end up to 2^63 (`InReach`); beyond, the
  doubled size is 0 before it reaches the request.
- Addresses (`AddressesExact`). `64*sz` and `new_num_blocks * 64*sz` are `int`s.
  `deallocate()` goes wrong from slots of 2^25 bytes on, and `resize()` asks for
  the wrong amount as soon as the new array has 2^31 bytes; the result of
  `posix_memalign` is not looked at. `pointer_to` computes the end of an array in
  `int`, too (`fancy_pointer.h:86`), and misses arrays of 2^31 bytes or more;
  `FancyPointer` has unbounded numbers there, since `resize()` fails before that, or
  at once where a single block is that large (slots of 2^25 bytes).
- Fancy pointers (`FancyExact`). The end of an array counts as inside
  (`fancy_pointer.h:86`), so an object that lies right behind one is taken for a
  part of it. A second allocator that makes a slab of the same class in the
  same process takes over the entry of the table (`Alone`). The difference of
  two pointers is divided as an unsigned number, so a negative one comes out
  positive, against the `random_access_iterator_tag` at line 34.
- Copies of the mutex allocator (`FoundMaker`). They share the mutex but not the
  array, and all compare equal. The copy that allocated finds the object again, and
  so does every copy taken from it later, however many threads create classes in
  it meanwhile. Another copy may find none, and the program crashes
  (`mutex_copies`); or an object of the same class and of its own family. That one frees
  the slot all the same, for the slab is found by the address, but a slab that
  was full is then offered by an allocator that did not make it.
- Double-checked creation (`UsedWhenBuilt`). The pointer is not atomic. If nothing
  orders the stores, a thread may call an allocator whose constructor has not
  run, in the one window the property names; with stores in program order
  (`Ordered`) there is none.
- Threads in the vector allocator (`MetadataSafe`). Its mutex is for the creation
  of slabs only: two threads may read the same word and take the same slot.
  What is left is that the metadata stays out of reach.
- The queue of the mutex allocator (`CallsKeepReturning`). With two threads it
  comes to hold slabs twice and full ones, see `mutex_layout`; `QueueExact` holds
  with one thread only. `allocate()` then returns `nullptr` at times, but the
  allocator does not hang.
- `pop_front` of the stack (`Linearized`). The negation in the commented line
  `lf_stack.h:65` is missing in line 66: it goes on while the exchange succeeds,
  and its answer is still on the stack. What it does is a sequence of pops all
  the same.
- Destruction of the vector allocator. Slabs that are deleted stay in the table,
  and their blocks stay allocated; `FancyPointer` follows the first up to the
  next `pointer_to`, which would read the deleted slab.

The limits of sizes, the crash of `multi-threaded.cpp`, the one of `resize()`
and `pop_front` were reproduced with the repository's code and g++.

## What is proved

The theorems hold for any number of threads, slabs, slots, nodes and copies, and
for any demand. The assumptions are those of the modules, which TLC evaluates:

- `LockFreeAllocator`: `Threads` finite and not empty, `MaxSlots >= 2`,
  `MaxDemand >= 1`, `NoSlab` and `NoSlot` outside their sets. `MutexAllocator`: `Threads` finite
  (`ThreadsAssumption`) and `MaxSlots >= 1`.
- `VectorSlab`: blocks and lists of any width, any bound on the growth, and
  metadata that takes at least one slot of a block and leaves at least one
  (`SizesAssumption`).
- `LowLockQueue`: finitely many addresses, `NoNode` not one of them
  (`NoNodeAssumption`).
- `MCConcurrent`: a block has at least one slot (`BlockSlotsAssumption`), finitely
  many nodes (`NodesAssumption`), and `None`, the null pointer, is not one of the
  things that are pointed to (`NoneAssumption`, `NodesAssumption`) nor a pair
  (`PairsAssumption`).
- `SlabLayout` (`LayoutAssumption`): every number of slots, blocks, multiples and
  `IntLimit` is positive, and a pointer is not wider than `MaxSlots + 2` bytes, from
  which it follows that the alignment of an old slab exceeds the offset of every
  slot, as the code wants it (8 and 64 in the code).
- `SizeClass` (`ClassAssumption`): an `int` has at least 3 bits and not more than a
  `size_t`, whose width an `int` can count; the sizes that are requested are `size_t`s;
  and the lock-free allocator is not asked for a quarter of what a `size_t` can count
  (2^62 bytes), where the `int` of its loop would see a small number again.
- `FancyPointer` (`FancyAssumption`): a block has a slot, and `Nothing`, the null
  pointer, is neither an entry of the table nor a slab.
- `PointerArithmetic` (`WalkAssumption`): objects have a size, and the array is in
  reach of a positive `ptrdiff_t`.

Three theorems about the mutex allocator have a hypothesis besides, `Sequential`:
there are no two threads. The code does not promise more: with two threads the
queue comes to hold duplicates and full slabs, and the run `mutex_layout` refutes
`SlotInLayout`, the second conclusion of `SequentialQueue`.

| Theorem | Module | Says |
|---|---|---|
| `LocksCorrect` | `LockFreeAllocator_proof` | `LocksExclude` |
| `TypeCorrect` | `LockFreeAllocator_proof` | `TypeOK` |
| `OwnershipCorrect` | `LockFreeAllocator_proof` | `SlotsOwnedOnce` |
| `QueueCorrect` | `LockFreeAllocator_proof` | `OfferedOnce` |
| `CounterCorrect` | `LockFreeAllocator_proof` | `CounterExact` |
| `NothingLost` | `LockFreeAllocator_proof` | `NoSlotLost` |
| `AnswersCorrect` | `LockFreeAllocator_proof` | `AllocateAnswers` |
| `ImplementsPool` | `LockFreeAllocator_proof` | `Spec => IsSlotPool` |
| `ShutdownCorrect` | `LockFreeAllocator_proof` | `DeletedOnce` |
| `CreationBounded` | `LockFreeAllocator_proof` | `SlabsBounded` |
| `ListTypeCorrect` | `LowLockQueue_proof` | `TypeOK` |
| `NoneUsedAfterFree` | `LowLockQueue_proof` | `NoUseAfterFree` |
| `NodesAccounted` | `LowLockQueue_proof` | `NoNodeLost` |
| `ListIsFifo` | `LowLockQueue_proof` | `Spec => IsFifoQueue` |
| `MutexTypeCorrect` | `MutexAllocator_proof` | `TypeOK` |
| `MutexOwnership` | `MutexAllocator_proof` | `SlotsOwnedOnce` |
| `MutexReachable` | `MutexAllocator_proof` | `SlabsReachable` |
| `MutexCounter` | `MutexAllocator_proof` | `num_free`, slots in use and calls under way add up to `MaxSlots` |
| `SequentialQueue` | `MutexAllocator_proof` | `QueueExact` and `SlotInLayout`, if `Sequential` |
| `SequentialShutdown` | `MutexAllocator_proof` | `DeletedOnce`, if `Sequential` |
| `SequentialPool` | `MutexAllocator_proof` | `Spec => IsSlotPool`, if `Sequential` |
| `CreatedOnce` | `Concurrent_proof` | `OnePerClass` |
| `BuiltBeforeUse` | `Concurrent_proof` | `UsedWhenBuilt` |
| `ReturnedToMaker` | `Concurrent_proof` | `FoundMaker` |
| `MetadataNeverGiven` | `Concurrent_proof` | `MetadataSafe` |
| `NodesAreKept` | `Linked_proof` | `NodesKept` |
| `ChangesLinearized` | `Linked_proof` | `Spec => Linearized` |
| `VectorTypeCorrect` | `VectorSlab_proof` | `TypeOK` |
| `PartitionCorrect` | `VectorSlab_proof` | `SlotsPartitioned` |
| `PointersCorrect` | `VectorSlab_proof` | `PointersCurrent` |
| `CoverCorrect` | `VectorSlab_proof` | `BlockListCovers` |
| `GrowthCorrect` | `VectorSlab_proof` | `GrowsWhenFull` |
| `ListCorrect` | `VectorSlab_proof` | `BlockListExact` |
| `AssertionHolds` | `VectorSlab_proof` | `FreeSlotFound`, if `MaxBlocks <= BlockBits` |
| `AddressesCorrect` | `Addresses_proof` | `AddressesExact` |
| `ClassesCorrect` | `Addresses_proof` | `ClassFits` |
| `FancyCorrect` | `Addresses_proof` | `FancyExact` |

So every invariant that a passing run checks is proved, with `Sequential` where the code
needs it, and every refinement of an abstract specification.

`DataLemmas` has the facts about data that several proofs share: the least
element of a set, induction over the naturals stated for sets, what appending
to a sequence, dropping its head or prepending to it does to it as a function,
and powers of two. Those need that the recursive definition of `Two` has a value at
all, which the library states with an operator parameter; the lemmas build it
from the functions that satisfy the equation up to some `n` (`BeginningExists`,
`BeginningsAgree`).

The argument for the lock-free allocator, in layers, each inductive relative to those before it:

1. `LocksExclude` is inductive by itself.
2. `Typed` adds to `TypeOK` what the locals hold at each program point
   (`LocalsOK`) and that the consumer that is about to reserve or unlink still
   has its slab at the head of the queue (`AtHead`). The second needs the
   consumer lock, and `TypeOK` needs it, for `Tail(queue)`.
3. `SlotsOwnedOnce`: an exchange succeeds only on the word it read, so the bit
   it clears was 1 and had no owner. `DataLemmas` supplies that the lowest bit
   of a word that is not 0 is one of its bits.
4. `OfferedOnce` is inductive with `Typed`. The point is which thread sees the
   counter pass through 0: the one that takes it to 0 unlinks the slab, the one
   that takes it from 0 pushes it, and between the two the slab's counter is
   positive only if a pusher exists. A slab may be at the head, being unlinked,
   and at the same time pushed again: `Offered` leaves out the head then.
5. `CounterExact` follows reservations from `lock_slot` to `release_slot`;
   `NoSlotLost` is the converse of `SlotsOwnedOnce`.
6. `AllocateAnswers`: if a thread that has reserved found no bit of a slot at 1,
   all `MaxSlots` slots would have owners (`NoSlotLost`), so with the thread
   itself the reservations would be `MaxSlots + 1`, and `num_free`, by
   `CounterExact`, negative, against `OfferedOnce`. So some bit below the last
   is 1, and the lowest is, too.
7. `ImplementsPool`: `Claim` returns a slot that nobody owns (3) inside the slab
   (6); all other steps stutter or are calls and returns.
8. `DeletedOnce`: with no call in progress and nothing owned every counter is
   `MaxSlots` (5), so every slab is in the queue once (4).
9. `SlabsBounded` is not inductive: between the moment a thread sees the queue
   empty and the one at which it creates a slab, others may push any number. The
   invariant `SlabsKnown` keeps what held at the first moment: room for one slab
   more while a thread is in `Creating`. There, a slab has a pusher of its own (4)
   or is full, and a full slab has `MaxSlots` owners (5, by induction over the set of
   full slabs), none of them a pusher or the creator. Only consumers create slabs,
   and they exclude each other (1).

The argument for the array allocator. `Sound`, the conjunction of `TypeOK`,
`PointersCurrent`, `SlotsPartitioned` and `BlockListCovers`, is inductive. The parts
rest on each other:

1. `deallocate()` takes one pointer from the client; that this frees the slot
   for good needs that no other pointer names the same block and slot, which
   holds because all pointers have the current base (`PointersCurrent`).
2. `allocate()` settles for no block only when the list names none that exists
   and the scan finds none; with `BlockListCovers` every block is full then
   (`NoneChosen`), which is `GrowsWhenFull`.
3. After `resize()` the recursive call finds one of the new blocks, and such a
   block has a free slot (`GrownHasRoom`): the first new block is listed, or the
   list is empty and the scan reaches it. `BlockListCovers` speaks of blocks
   still to come for this reason.
4. While the array fits the list, `deallocate()` sets no bit but that of its
   block, so the list is exact (`BlockListExact`, inductive with `Sound`), and
   the block it names has a free slot: the assertion of `find_free_slot` holds.
   The run `vector_assert` shows that the bound is needed.

The argument for the mutex allocator. What the bitmaps and the counter need is
weaker than what the queue needs, and survives a queue that is wrong:

1. `Typed` adds to `TypeOK` that the mutex of the queue has one owner, what the
   locals hold, and `AtHead`: the queue is not empty, and the slab an allocation
   works on is its front. When `Settle` pops the only slab it pushes a new one.
2. `OwnedOnce`: a bit is 1 exactly while a client owns the slot or one thread is
   about to hand it out or to erase it.
3. `CounterExact`: `num_free`, the slots of the clients (`LiveOn`) and the calls
   between their two updates (`CountedOn`) add up to `MaxSlots`.
4. `Reachable`: a counter above 0 means that the slab is queued or that the thread
   that took it from 0 is still to push it; `Settle` pops a slab only when it
   reads 0.
5. With one thread, `Kept`: the queue holds each slab with a free slot once and no
   other, and `insert()` stays among the slots of the slab. It needs 2 to 4, for a
   slab in the queue has a counter above 0, hence by 3 a bit at 0 below the last.
   From it follow `QueueExact`, `SlotInLayout`, `DeletedOnce` and the refinement of
   `SlotPool`, where `Settle`, which answers, is the step that claims the slot.

The argument for the linked queue. The invariant says what the list is, not only
that one can be walked along: there are a number `n` and a function `c` on `0 .. n`
(`Linked`) whose values are all different, each the successor of the one before;
`c[0]` is `first`, and `c[n]` is the last node, whatever `last` says while a
producer is between `link` and `swing_last` (`TailKnown`). The heap consists of
these nodes and of those that one thread has (`OwnedBy`). The consumer's node is
`c[1]` and stays so (`FrontKnown`). Then:

1. Every step takes `c` to the same, to `c` with a node behind it, or to `c`
   without its first node; one lemma for each of the two changes.
2. `NoUseAfterFree`: what a thread touches is on the list or its own.
3. `NoNodeLost` and `IsFifoQueue` speak of recursive functions that walk along
   `next` (`Walk`). That a walk meets exactly `c[0], c[1], ...` needs induction
   over the length. The library's induction theorems take an operator, which the
   provers cannot instantiate; `SetInduction` takes the set of numbers for which
   the statement is true.
4. `IsFifoQueue`: `link` appends to the abstract queue, `swing_first` takes its
   head, all else stutters.

The argument for the front ends. Each has an invariant of its own (`VectorSound`,
`CopiesSound`, `FrontSound`). A step of one leaves the others alone.

1. Lock-free: `FrontLocked` says that the mutex has one owner for each internal
   state. `FrontMaking` says that a thread that found the entry empty under the mutex
   still finds it empty when it stores the pointer, and how far its object is. So an
   object is the entry of its class or is being made by the one thread that will
   enter it (`FrontObjects`): two objects for one class would be two threads under one
   mutex. A call is inside a copy, so the copy exists and its internal state has users
   (`FrontCalls`): the last copy can go only when no call is inside. With unordered
   stores the entry may lead to an object whose constructor has not run; that is
   the disjunct of `FrontMaking` that names `~Ordered`.
2. Mutex: `CopiesLocked` says that the mutex of a family has one owner, whichever copies
   are called. A thread that found an entry empty under the mutex therefore still finds
   it empty when it stores its object (`CopiesFind`), and nobody else fills it: entries of
   a copy that is in use never change once they lead somewhere. `CopiesMade`: each entry
   leads to an object made for the family of the copy and the class. `CopiesKnown`: for
   each pointer in use, a copy that is known has its object, or `memcpy` has that entry
   still to read from a copy that is known; a copy that is called is written, and what
   is being read is not written (`CopiesCalled`). So `Find` reads the right object where the
   copy is known, and null leads to a crash only where it is not.
3. Vector: creation as in 1 with one mutex. `VectorBits`: the words a thread has read
   have the bit of the metadata at 0, so whatever it overwrites with them, that bit
   stays 0.

The argument for the linked structures (`Linked_proof`). `IsChain(a, n, S, x, succ)`
says that following `succ` from `x` meets `a[0] .. a[n-1]`, all different, and ends;
`Reach` are the nodes on the way.

1. `lf_slist`: threads that have exchanged the tail but not linked are apart, each
   with an expected tail of its own (`LinkersApart`). `List!Successor` is `next` with
   these links made: `Link` does not change it at all, and `Exchange` adds a node at
   its tail. So it leads from the head to the tail along a chain (`HasOrder`), which
   with the nodes not yet exchanged makes up the heap. The order only grows at its
   end, and the destructor, which runs when no thread is left, meets every node.
2. `lock_free_stack`: no reference leads in a circle (`AllChained`), and a node that
   is being pushed can be reached from nowhere else (`Private`), because `new` returns
   only addresses no reference leads to. A thread that is about to exchange the head
   has read `rest[t] = next[p[t]]`, and since its own reference keeps `p[t]`, this
   stays true even if the node left the stack and came back (`RestKnown`). So the
   exchange, which compares addresses only, takes the top and nothing else.
3. The refinement of `Stack`: a push puts one value in front of the chain of `head`,
   a pop drops the first, and other steps do not change what `head` reaches.

The argument for the addresses (`Addresses_proof`). The invariant `LayoutSound` adds
to the answers that were given (`FoundExact`) that the memory starts at a multiple of
its alignment (`Layouts`), that `room` is what the code computed for that many
blocks, and that every client has the address of its slot in the array as it is now
(`HeldExact`).

1. A slot lies at a fixed distance plus `Number(slot)` times the size behind the
   start, where the numbers run through the blocks. Different slots have different
   numbers (`NumbersDiffer`), and different multiples of a size are at least that
   size apart (`Multiples`): so slots are apart (`Apart`) and inside (`Inside`).
2. A slot of an old slab begins less than one alignment behind its start, so the
   remainder by the alignment is the offset (`OldFound`). In the vector slab the
   remainder by the size of a block is the offset in the block, and the rest counts
   the blocks (`VectorFound`); this needs the size of a block to fit an `int`.
3. `Resize` keeps the slots and moves each address as far as the array has moved
   (`StepResize`). That it asked for enough is equivalent to the size fitting an
   `int` (`RoomFits`), for a wrapped `int` is always below `IntLimit`.

The argument for the size classes, in the same module, needs one invariant
(`LoopSound`): in the loop, either `rounded_size` is `Two[exponent]` and half of it was
too small (`Counts`), or the request is beyond the last power of two of the word and
`rounded_size` is 0, or for one step the least `int` (`Lost`); an answer is given in
the first case only.

1. Doubling a power of two below the last gives the next, doubling the last
   overflows (`Doublings`), and what has overflowed stays below every request that the
   loop has not ended for.
2. So the answer has the least exponent whose power holds the request, which is
   `CeilLog` (`LogExact`).
3. The slot of an exponent is the power of two that the code means where the word holds
   it, and otherwise too small or far too large (`SlotSizes`, `FitExact`). This is why
   the slots are right exactly up to a quarter of the range of an `int`.

The argument for the pointer arithmetic. As long as an index stays in the array, the
offset is `First + index * size` (`Reached`), so wrapping does not show. Forward the
difference of the offsets is a multiple of the size; backward it is 2^64 less such a
multiple, and its quotient by a size of two or more is too small to be
negative once it is signed (`Differences`).

The argument for fancy pointers. `Arranged` says that the entry of a class is a slab of
that class, that arrays do not overlap, and that a slab which is the only one of
its class has the entry. `HeldIn` says that what a client holds names entry and offset of
its slot, or is the bare address where another slab had the entry. With what is in
use (`UsedIn`) and what the other pointers are (`OutsideIn`) they make up `FancySound`.

1. Slots have an offset of at least one slot, for slot 0 of a block is metadata. So
   the byte before a slot is in the same array, and no other array can end
   where the slot starts: of all entries only its own matches (`MatchesSlot`). This is
   where `<=` in place of `<` in `pointer_to` does no harm. It does for another
   object, which may lie right behind an array (`PointerOutside`).
2. An offset leads back to block and slot (`FancySlots`), so `deallocate()` frees the slot
   of the client and no other (`StepFree`), and equal pointers are of equal slots
   (`HeldCounted`).
3. A new array, or one that has moved, overlaps none, takes the entry of its class
   and leaves the offsets as they were (`Placing`, `HeldStill`); the slot then taken
   from it was not in use (`TakeSound`).

Only model-checked:

- Liveness (`progress`), for the prover handles neither fairness nor `ENABLED`.
- The findings. They are counterexamples.

## Not modelled

- Printing (`viewState`), padding, `Mallocator`, the tests and benchmarks.
- `catch.hpp`, the vendored test library: 14362 of the 16635 lines that count as
  implementation. The allocators themselves are about 1800 lines.
- `bad_slist`, whose `push_back` compares with a value it has changed itself and
  so never pushes; nobody calls it.
- `pop_front` of `lock_free_stack<Slab*>`, which decrements a bitmap and ends
  without a return value; null fancy pointers, which index the table with -1;
  `operator=` of the mutex allocator has no return statement (the model has the
  effect of its body).
- What clients do with a fancy pointer whose entry another slab has taken.
- A resize of a vector slab while other threads use it: they would work on freed
  memory.
- Memory exhaustion: the results of `posix_memalign` are ignored by the code;
  `SlabLayout` stops at the request that asks for too little.
- Weak memory, but for the two stores of double-checked creation (`Ordered`).
- Crashes and restarts: nothing is persistent.
