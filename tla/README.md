# Itoyori: TLA+ models, model checking and proofs

Itoyori is a header-only C++17 runtime for fork-join threads on distributed
memory. Each MPI process (a *rank*) runs one worker. Threads are created with
fork/join and move between ranks by work stealing (`ityr::ito`); data lives in
a global address space that every rank accesses through a software cache with
checkout and checkin (`ityr::ori`). Containers and parallel algorithms
(`container/`, `pattern/`) are built on both. All communication is one-sided:
puts, gets and atomics on the memory of other ranks, without those ranks taking
part. That is what makes the code hard to test: the interesting errors are
interleavings of remote operations with plain loads and stores.

This directory models the protocols of the runtime, checks them with TLC on
small instances, and proves the safety properties of the lock, the queue, the
random scheduler, collective tasks, lazy release, the cache and the fences of
the parallel patterns with TLAPS, for any number of ranks, any size and any
number of operations.

## 1. Inventory

| Component (under `src/include/ityr/`) | State | Operations | Hard because | Correct if |
|---|---|---|---|---|
| Global lock (`common/global_lock.hpp`) | one integer per lock in an MPI window | `trylock`, `lock`, `priolock`, `unlock` | the word is both lock and priority request; atomics of many ranks interleave | exclusion, priority is kept, the priority caller gets in |
| Work-stealing queue (`ito/wsqueue.hpp`) | `top`, `base`, array, `local_empty_` | `push`, `pop`, `steal`, `abort_steal`, `pass`, `for_each_entry` | the owner avoids the lock; THE-style race at the last entry; entries move inside the array | every entry is taken exactly once; full and empty are reported only when true |
| Random work-stealing scheduler (`ito/sched/randws.hpp`, `ito/worker.hpp`) | `thread_state`s, queues, evacuated stacks, mailboxes | `fork`, `join`, `on_die`, `steal`, `resume`, `migrate_to`, `root_exec`, `coll_exec` | the join race, stacks copied while their victim goes on, memory freed by other ranks | no continuation lost or run twice, no use after free, every `root_exec` returns |
| One-slot mailboxes and broadcast trees (`ito/sched/util.hpp`) | one message per rank | `put`, `pop` | a second message before the first was taken | the slot is free at every put, every rank is reached once |
| ADWS scheduler (`ito/sched/adws.hpp`) | distribution ranges, the tree of task groups with versions and dominant flags, two queues per depth, dummy tasks | as above, with task groups and work hints | copies of remote tree nodes go stale; threads migrate back; a thread that ends waits for ranks that may wait | continuations and frames as above; a cross-worker thread is at its owner; nobody waits for ever |
| Lazy release (`ori/release_manager.hpp`) | current and requested epoch of each rank | `release_lazy`, `acquire`, `poll`, `ensure_released` | requests race with write-backs; waiting without polling | after `acquire` the released data is home; waiting ends |
| Software cache (`ori/cache_manager.hpp`, `ori/cache_system.hpp`, `ori/tlb.hpp`, `ori/core.hpp`) | blocks with valid and dirty regions, LRU, TLB, mappings, operations in flight | `checkout`, `checkin`, `release`, `acquire`, `discard_dirty`, `free_coll`, `set_readonly_coll` | non-blocking puts and gets that overlap with evictions and rewrites; bytes fetched along by padding | a checkout for reading sees the last value; no write is lost |
| Home memory and checkout spans (`ori/home_manager.hpp`, `ori/mem_mapper.hpp`, `ori/coll_mem*.hpp`, `container/checkout_span.hpp`) | which home segments are mapped, LRU, TLB, reference counts, what each span holds | `checkout`, `checkin`, `get`, `put`, `malloc_coll`, `free_coll`, mapping arithmetic | the limit of mmap entries; segments in the TLB before they are mapped; memory reallocated at the same address | what is checked out is held by one span and is mapped, where all nodes agree it is |
| Region sets (`ori/block_region_set.hpp`) | sorted lists of intervals | `add`, `remove`, `include`, `intersection`, `complement` | boundaries that touch | they are sets of bytes, sorted and merged |
| Allocators (`common/allocator.hpp`, `common/freelist.hpp`, `ori/noncoll_mem.hpp`) | free lists, list of objects with a remotely set `freed` flag | `allocate`, `deallocate`, `collect_deallocated`, `is_remotely_freed` | flags are set by unflushed puts while the owner collects | no byte lost or given out twice; no flag put into reused memory |
| Global vector (`container/global_vector.hpp`) | begin, size and capacity, elements in global memory | all modifiers | growth from another rank than the one that allocated; overlapping moves | equal to a `std::vector`; no leak, no use after free |
| Patterns (`pattern/`) and work hints (`container/workhint*.hpp`) | none of their own; fences on the caches | loops, reductions, scans, sort, merge, partition, search, shuffle, invoke | results must not depend on steals; fences only where a steal happened; boundaries of every split | same result as the sequential algorithm; every access sees the newest data |
| MPI, RMA, memory mapping, topology, options, profilers, logging | | | I/O and system calls | not modelled |

How they interact: a worker pushes continuations into its queue (**wsqueue**)
and steals from others under the queue's **global lock**. When a thread leaves
a rank, the scheduler calls `release_lazy()`; where it arrives, `acquire()`
with the handler it brought. These calls sit in the callbacks that the
**patterns** pass to fork, join and poll. They go to the **cache manager**,
which lets the **release manager** count epochs: one each time everything is
home. Memory at home on the own node bypasses the cache and goes through the
**home manager**. Thread states and collective tasks are allocated in
**remotable memory**, vectors in **noncollective memory**; both are freed by
any rank. Workers that wait poll, so that requests of other ranks are served.

## 2. Modules

Each module states its abstractions at the top. Definitions keep the names of
the code; operators with a suffix (`unlock_StoresZero`) are mutants, variants
with a plausible bug that nothing uses except the mutation tests listed in
`PROJECT.json`, which check that each property can fail.

| Module | Models |
|---|---|
| `PrioMutex` | abstract: a mutex in which one caller may announce itself and then enters next |
| `GlobalLock` | the lock word, one action per atomic MPI operation |
| `WorkDeque` | abstract: a sequence with push and pop at one end, steal and pass at the other |
| `WsQueue` | the queue, built on `PrioMutex` |
| `BcastTree` | the tree of exit requests and collective tasks: the set of ranks that a rank passes a message on to |
| `RandWs` | the random work-stealing scheduler on an atomic deque |
| `CollExec` | collective tasks |
| `Adws` | the ADWS scheduler on atomic deques |
| `ReleaseManager` | lazy release between ranks |
| `CacheManager` | the cache of one rank against home memory |
| `RegionSet` | interval lists, as operators |
| `Freelist` | the list of free ranges, as operators |
| `RemotableMem` | both allocators with remote frees, built on `Freelist` |
| `GlobalVector` | vectors, built on `RemotableMem` |
| `MemMapper` | which node keeps what, as operators |
| `HomeManager` | the mapping of home segments, built on `MemMapper` |
| `CheckoutSpan` | the spans through which a program holds checked-out regions, built on `HomeManager` |
| `Patterns` | the parallel algorithms and the work hints, as operators on sequences |
| `ForkJoin` | where the patterns put their fences |
| `Library` | composes the modules from `RegionSet` on |
| `GlobalLockProofs`, `WsQueueProofs`, `BcastTreeProofs`, `CollExecProofs`, `RandWsProofs`, `ReleaseManagerProofs`, `CacheManagerProofs`, `ForkJoinProofs` | theorems about the module of that name |
| `MC*` | constants and symmetry for TLC |

The modules form layers, each relying on the promise of the one below:
`GlobalLock` implements `PrioMutex` (proved), `WsQueue` is built on `PrioMutex`
and implements `WorkDeque` (proved), `RandWs` and `Adws` use queues that
behave like `WorkDeque`. `CacheManager` uses what `ReleaseManager` shows of
epochs: data that was dirty at a `release_lazy()` may be used elsewhere once
the epoch has advanced; and it uses sets of bytes where the code has the
interval lists of `RegionSet`. `ForkJoin` relies on both for what a fence does,
and on `RandWs` for who resumes whom.

### GlobalLock

`word` is the integer in the window, `pc[r]` the place of a rank. `trylock` is
a compare-and-swap from 0 to 1; `lock` repeats it; `priolock` adds 1 and, if
the word was not 0, waits until it reads 1; `unlock` subtracts 1. The comment
in the code demands that only one rank calls `priolock` at a time; this is a
guard of the model (each queue has one owner, the only caller).

### WsQueue

One queue of one rank. The owner and the other ranks have a program counter
each; every load or store of `top` and `base` that somebody can interleave
with is an action. Actions of the owner under the lock are one step. The
memory is sequentially consistent: the code has a full fence between the
decrement of `top` and the read of `base`, and the RMA calls are flushed.
`out` collects the entries that are in nobody's queue. `MarginDiv` is the
constant 10 of `pop()`, made a parameter so that small arrays reach the case.
`move_entries()` copies with `std::move` on overlapping ranges; for the
trivially copyable entries that is `memmove`, hence a correct move in the
model. `size()`, `empty()` and `for_each_nonempty_queue()` only read and give
hints.

### RandWs and CollExec

A thread is a member of `Threads`; `level[t]` stands for the address of its
frames, which is the same on all ranks. The continuation of a thread is on a
rank, in a queue, in a mailbox or evacuated. `fork` pushes the parent and runs
the child; `on_die` is split into pop, put of the result, fetch-and-add of
`resume_flag` and the resumption of the parent; `join` into check, evacuation,
fetch-and-add and the reading of the result; `steal` into taking the entry and
copying the stack, with the queue's lock held in between. Only the root thread
migrates explicitly (`migrate_to`), as in `coll_exec` and `root_exec`.
`root_exec()` can be called again and again; its budget of forks starts anew
each time, and thread states that were freed are given new names.
Assumed: the program joins every thread in the thread that forked it. Left
out: the DAG profiler and the drift callbacks (releases and acquires, which
`ForkJoin`, `ReleaseManager` and `CacheManager` model). `CollExec` models the
collective task, its copies along the tree, the mailboxes and the barriers; the
broadcast at its start is merged with the barrier that follows it at once.

### Adws

The line [0, number of ranks) is cut into `K` points per rank, so that a
distribution range is a pair of integers and dividing it by a work hint rounds
as the smallest step of the code does. `th[t]` is the thread-local storage:
the range, the reference to the node of the tree, the flipper (the set of its
bits that are 1), the open task groups and the place where the thread resumes.
`node`, `flag`, `versions` and `bottom` are the distribution tree: every rank
keeps the path it is under as copies of nodes, with versions. `MaxVersion`
stands for the largest version; the run stays below it. `prim` and `mig` are the two queues per depth. Puts into
mailboxes are steps of their own (`PutMail`), so that several senders can be
on the way to one slot. `get_topmost_dominant()` goes depth by depth and asks
one random rank at a time; a steal then tries the queues of one rank. The code
tries them in an order and goes on where `trylock()` fails or nothing is left;
in the model any queue that the order reaches may be the one that is taken
from, or none. The race
of `join()` with the end of a thread, which `RandWs` models access by access,
is one step here. `path[t]` is history, used to say which node a thread should
find.

### ReleaseManager

Data is reduced to counters: how many of its writes a rank has checked in
(`written`), put (`begun`) and flushed (`home`). A handler is the code's pair
(`target_rank`, `required_epoch`) with, for the properties only, the number of
writes it stands for. `acquire(rh)` is: write back, see whether the cached
remote epoch suffices, request with a compare-and-swap loop, wait, invalidate.
A `release()` with nothing dirty changes nothing.

### CacheManager

One rank in full detail; all others are an environment that uses home memory.
Values are reduced to *freshness*: a copy of a byte, in a cache slot, in a put
under way or at home, is fresh if it is what was written last by anybody. A
put reads its bytes at one moment and lands at a later one; a get copies at
one moment; both at any time up to the flush. `valid`, `dirty` and `readonly`
are sets of offsets, the interval lists of `block_region_set` read as sets.
`writing` is the set of slots whose `writeback_epoch` is the current one. The
TLB is a set of pairs whose size is left open: it may drop entries at any
`add`. `owner[b]` states who may use a byte in a program without data races.
The handing over follows the release protocol: offered bytes become usable by
others when the epoch advances, or at once if nothing was dirty. Checkouts do
not overlap with fork and join, as the documentation of `make_checkout`
demands, and a batch of non-blocking checkouts is completed before any of it
is used, as `make_checkouts()` and the serial loops do. All blocks are in one
window. `get()` and `put()`, which take a single block without a reference
count, and the write-through option are left out.

### RemotableMem and Freelist

A heap is the free lists of one rank, the list of its objects and the counters
that decide when to collect. `Freelist` has `get()`, the aligned `get()` that
splits an entry in three, and `add()` with its merges. A behaviour is about
one of the two allocators: `remotable_resource` (blocks, large objects straight
from the window, collection inside `allocate`) or `noncoll_mem` (collection by
threshold and as a last resort before it gives up). A remote free puts the flag
into the header (`flight`), and the put lands any time up to the flush after
`MaxUnflushed` frees. `PostAllocate`, `PostPut` and `IsRemotelyFreed` are the
use that ADWS makes of it: dummy tasks whose owner polls their headers until
they are freed. The pool of the standard library between header and block is
taken as one that passes every request on.

### GlobalVector

Vectors in noncollective memory: the collective ones, whose memory comes from
`malloc_coll()` and whose operations go through `root_exec_if_coll()` and
`coll_exec_if_coll()`, are not modelled.
Operations are functions on the triple of vector, elements and heap, built
from the private helpers of the class (`construct_elems`, `realloc_mem`,
`make_space_for_insertion`, ...). Each call may run on another rank than the
one before, since the thread that owns the vector moves. A cell of memory is
raw, an element, or moved from; constructing twice or assigning to a raw cell
gives `Broken`. The copies and moves of elements are the serial loops over
global iterators; that parallel ones give the same is a matter of `Patterns`.

### MemMapper, HomeManager and CheckoutSpan

The mappers `block`, `block_adws` and `cyclic` are functions from offsets to
segments, and `MapperSound` compares what each node computes for itself with
what the others compute of it. `HomeManager` is the process of one node: the
LRU of `HomeEntries` mapped segments, the TLB in front of it, reference counts,
the list of segments to map at `checkout_complete()`, and memory that is freed
and allocated again at the same address with another mapper. A segment counts
as mapped in its slot if its address is the one that the slot has mapped, as in
the code. The copies that `get()` and `put()` make of a range, segment by
segment or block by block, are operators of `MemMapper`, for collective and
noncollective memory.

`CheckoutSpan` adds `ptr_` and `n_` of each span. A span is filled by its
constructor or by `checkout()`, which first checks in what it held, emptied by
`checkin()` or the destructor, and moved from; `MakeCheckouts` begins two
checkouts and completes them together, as `make_checkouts()` and the serial
loops do. Assigning a span to itself checks its region in and leaves it empty.
`HomeMapped` says that what the spans hold is what is checked out, no region
being forgotten or checked in twice, and that all of it is mapped. Regions are
not empty: the constructor accepts a length of 0 and then holds nothing, while
`checkout()` and `make_checkouts()` fail a check. The modes of checkouts matter
for the cache only (`CacheManager`).

### Patterns, ForkJoin and Library

`Patterns` has every algorithm as an operator on sequences that takes a policy:
the cutoff, the checkout count, whether the continuation runs before the child,
and the set of forks that lose their continuation to a thief. Reductions are
over the free monoid (`vec_concat`), so that a wrong order or a lost, repeated
or misplaced accumulator shows; that each reducer of `reducer.hpp` is a monoid
is checked separately over words of three bits. Elements carry tags, so that
stability shows. Failed `ITYR_CHECK`s are results of their own: the leaves of
`inplace_merge()`, `stable_partition()` and `shuffle()` demand that
`checkout_count` is `cutoff_count`, and `create_workhint_range()` that the
number of leaves is a power of two. The calls try every `checkout_count` up to
the cutoff. `OrderKept` says that the checks hold if the two are equal, and
that otherwise an algorithm gives the right result or stops at that check
(section 6).

Of `parallel_invoke()`, `Patterns` has the order of two tasks and the hints
that any number of tasks give the scheduler, where either all of them come with
a hint or none does (the code takes a mixture, if it compiles at all, for
something else, since a hint then counts as a task). The fences of
`parallel_invoke()` are those of two tasks, in `ForkJoin`; `all_serialized_`
over several children is not modelled. The release and acquire in the callbacks
of ADWS are not either: `ReadsLatest` is about random work stealing.

Of work hints, `Patterns` has the tree that is built, its views and the hint
that each fork takes from it; where the tree is allocated and who releases it
is left out.

`ForkJoin` runs passes of loops, invokes and reductions on threads that are
stolen at any fork, with caches that see the newest write to a cell only if the
fences make them; serial parts, `migrate_to`, `coll_exec` and `root_exec` lie
between the passes. A call of a pattern is known by its range, which no two
calls of a pass share: `frames` has the calls under way, each with its caller
and its place in the code (`call`, `forked`, `rest`, `join`, `wait`,
`return`), `runs[w]` is the call that a worker executes and `wsq[w]` the
continuations pushed there. A thread is a left half with what it calls, and its
stack is the chain of callers. `cell` says who has the newest value of a cell,
who an older one and who one that is not written back; `stale` records an
access that missed the newest value or a write that overtook another's.

`Library` composes all of these for one run: the variable `layer` says which
of them a behaviour is about, and the actions `Call...` call the pure operators
with every small argument.

## 3. Runs

`cd tla; tlc -config X.cfg Module`. All passing runs are exhaustive for their
bounds.

| Run | Instance | Checks |
|---|---|---|
| `lock` | 4 ranks | `MutualExclusion`, `PriolockReturns`, `ImplementsPrioMutex` |
| `queue_pass` | owner and 2 thieves, 4 slots, 5 entries, with `pass()` | `ExactlyOnce`, `FullMeansFull`, `PopEmptyIsEmpty`, `ImplementsDeque` |
| `queue_nopass` | owner and 2 thieves, 3 slots, 4 entries, without `pass()` | `LocalEmptySound`, `OwnerReturns` |
| `release` | 3 ranks, two of which write once | `PollServed`, `CleanWhileWaiting`, `AcquireSeesRelease`, `AcquireReturns` |
| `randws` | 3 ranks, 4 threads, 3 forks and 1 migration in each of any number of `root_exec()` calls | `NoUseAfterFree`, `OneContinuation`, `PoppedIsParent`, `FramesIntact`, `RootExecReturns` |
| `coll` | 5 ranks, 2 collective tasks | `TaskAlive`, `ExecuteTogether`, `CollExecReturns` |
| `adws` | 3 ranks of 6 points, ranges of less than 5 points are small, tree of depth 2, 4 threads, 3 forks, 2 task groups | `MailboxFree`, `OneContinuation`, `FramesIntact`, `CrossWorkerHome`, `TreeConsistent`, `RootExecReturns` |
| `cache_bytes` | 2 blocks of 2 bytes, 1 slot, at most 1 dirty block | `CheckedOutLatest`, `HomeLatest`, `DieOnlyIfExhausted` |
| `cache_slots` | 3 blocks of 1 byte, 2 slots, at most 2 dirty blocks | `NoLostWrite`, `RmaDisjoint` |
| `cache_readonly` | as `cache_bytes`, `set_readonly_coll()` at any time | `CheckedOutLatest`, violated: see section 6 |
| `library` | see below | `HeapPartition`, `HeadersAlive`, `VectorContents`, `HomeMapped`, `ReadsLatest`, `RangesSound`, `OrderKept`, `StealingInvisible` |
| `minmax` | as `library` | `FirstMaximum`, violated: see section 6 |

Why the bounds suffice for the cases that matter:

- `lock`: holder, priority caller, a spinning rank and one more that tries in
  between are all the roles there are.
- Queues: one entry more than slots fills the array and overflows it; two thieves
  are enough for a thief that aborts while another waits for the lock. The
  proofs lift the bounds for all of the invariants. The progress of the owner
  is checked without `pass()`; a rank in `pass()` holds the lock for a bounded
  number of steps like a thief.
- `release`: two ranks that both hold handlers of each other are the shortest
  cycle of waiting, and the third rank races with either of them to request an
  epoch of the other, which a stale compare-and-swap needs. One write each
  leaves out write-backs of a part of the dirty data; the safety properties are
  proved for any number of ranks and writes.
- `randws`: three forks of four threads give a stolen thread whose child is
  stolen in turn, and a rank that steals from a victim whose parent thread
  waits elsewhere. Further `root_exec()` calls reuse thread states and
  mailboxes. The invariants are proved for any number of ranks and threads;
  that `root_exec()` returns is checked here only.
- `coll`: five ranks give a tree of depth three that is not a power of two;
  the second task starts, perhaps on another rank, while some have not left
  the first. The invariants are proved for any number of ranks and tasks.
- `adws`: halving the range of eighteen points on three ranks gives cross-worker
  tasks to other ranks, tasks for migration queues, ranks that get no task and hence
  dummies, and a group whose thread must migrate back. Two groups nest to the
  full depth of the tree or follow each other at one depth, where the second
  one needs a version of its own; two groups cannot use up the versions, so the
  wrap to the first version is not reached. Ranges of four points are small:
  one that spans two ranks is cut back to the boundary before it is divided.
- Cache: one slot for two blocks forces evictions between all operations; two
  bytes per block with a sub-block of two make every read fetch a neighbour
  that somebody else may own. Two slots for three blocks exercise the LRU
  order, the TLB and write-backs of several blocks, where the order in the
  dirty list matters. `MaxHeld` is 2: two checkouts of one block, or of
  different blocks at once. All the invariants are proved without the bounds.
- `library`, memory: the arena of a rank holds two blocks of four units; the
  requests are one unit, one aligned unit and one that is larger than a block,
  so entries are split in three, merged on both sides and refilled, and the
  arena runs out. A flush comes after two remote frees. Vectors: two of them,
  up to three elements, four calls, on two ranks. Home: three mappers, one of
  them mapped as a whole; two entries for up to three segments, six regions
  and three spans. Fences: four items on three workers, a tree of forks of depth
  two, where a child is stolen from a stolen parent; `ReadsLatest` is proved
  without these bounds. Calls: sorts of up to 6
  and merges of up to 5 + 5 elements of 3 keys, other ranges up to 5, cutoffs 1
  to 3 with every checkout count up to them, every set of stolen continuations; every free list and region set
  within 6 bytes; mappers of up to 9 bytes on up to 4 nodes; hint trees of up
  to 8 leaves for up to 9 elements, and numbers of leaves that are no power of
  two.

Deadlock checking is on for `lock`, `release`, `randws` and `coll`. It is off
where the model may stop because its budget is used up or the process has died
(queues with no entry left, the cache after `die()`, the one root thread of
`adws`, the calls of `library`).

Symmetry is used over thieves and entries, over blocks, and in `library` over
vectors, values and workers, in runs without liveness properties only; nothing
in the models orders these, and `Owner` and the numbered ranks of the trees are
not permuted.

### Fairness

- `GlobalLock`: weak fairness of the priority loop and of `unlock`. A worker
  leaves its critical sections, and the loop reads again and again. Nothing is
  assumed of `lock()`, which can starve.
- `WsQueue`: weak fairness of the steps inside the calls of the owner and of
  each thief, not of the calls themselves. No call waits for anything but the
  lock.
- `ReleaseManager`: weak fairness of the steps inside calls and of `poll()`:
  workers poll in their scheduling loop and when threads are switched. That is
  an assumption on threads that compute for long.
- `RandWs`: weak fairness of a worker's steps and of the barrier. Threads end;
  no steal has to succeed and nobody has to fork.
- `Adws`: weak fairness of each worker's steps and of the barrier. Threads end
  their groups and return; nobody has to fork and no steal has to be tried, so
  every task is found by the rank it was sent to.
- `CollExec`: weak fairness of the steps; a busy worker comes back to its
  scheduling loop.

## 4. Proofs

`tlapm GlobalLockProofs.tla`, and so on. The theorems hold for every set of
ranks and every value of the other constants that satisfies the assumptions
named in the modules.

**GlobalLockProofs.** `LockInv` says that at most one rank holds the lock, at
most one waits with priority, and the word is the sum of the two. Neither part
is inductive alone: a compare-and-swap that succeeds on 0 tells something about
the other ranks only through the word. `LockInv` is inductive and gives
exclusion, the range that the assertions of `trylock()` demand, the counting
property and the action property that nobody overtakes the priority caller
(the last three are not checked by a run). `LockImplementsMutex` maps the
holder and the waiter by CHOOSE and shows that every step is a step of
`PrioMutex` or a stutter.

**WsQueueProofs.** `ExactlyOnce` alone is not inductive: it must be known
which slots between `base` and `top` belong to whom while a thief has raised
`base` and the owner has lowered `top`. `IInv` adds who is inside the lock for
which place in the code (`LockInv`), what the owner knows at each place
(`OwnerInv`), the bounds of the slots that are really in use, with the steps
under way counted in, and what the owner's decisions rely on (`SlotsInv`), and
what each thief knows of `base` and of the slot it works on (`ThiefInv`). The
proof has one lemma per action or group of actions. From `IInv` follow type
correctness, exactly-once, the assertion of `move_entries()`, and that full and
empty (also the cached `local_empty_`) are only reported when they are true.

`QueueImplementsDeque` uses the same invariant. The abstract deque is the
sequence of the slots in use, from `EffBase` to `EffTop`: `base` and `top` with
the steps under way counted in, so that an entry that is being taken is in the
deque until it is. A `pop()` takes effect when it takes the entry, without or
under the lock, a steal at the unlock after which it cannot be aborted, a push
at the store of `top` and a pass at the put of `base`; everything else,
`move_entries()` and aborted steals included, is a stutter.

**BcastTreeProofs.** A rank computes from its own number to whom it passes a
message on. `OneParent` says that no rank is told twice and `EveryoneTold` that
every rank but the first is told, by a rank below it, for any number of ranks.
A target is an odd multiple of its distance, which is a power of two; of two
powers of two the smaller, doubled, divides the larger, so the distance is
unique. To prove facts of that kind without induction over recursive
definitions, a power of two is characterised by its divisors.

**CollExecProofs.** `TaskAlive` (the task that is copied still exists) needs to
know who has been told: `IInv` counts the barriers behind each rank (`Counts`),
says what a rank behind a barrier knows of the others (`Barriers`), that the
root thread is on one rank (`OneRoot`), that a message in a mailbox comes from
a rank that cannot leave before it is taken (`Mail`), and that whoever is still
to be told has an empty mailbox (`ToBeTold`). The last one is kept by a step
only because a rank has one sender, which is `OneParent`.

**RandWsProofs.** `OneContinuation`, `PoppedIsParent`, `NoUseAfterFree` and
`FramesIntact` are proved from one invariant, as none can do without the
others. `Family` relates a thread to its parent and to its `thread_state`;
`Apart` and `Places` say that a thread is in one place and what that place
tells of it; `Races` gives, for each of the states of the two sides of the join
race, the values of `resume_flag` and of the suspended parent, from which it
follows who is second and hence who frees; `Chains` says that a queue holds the
ancestors of the running thread, in order, with frames one above the other,
and that whoever has been stolen leaves no unfinished child behind in the queue
he left; `Exit` that the exit starts when the root thread has ended, and
everybody is told once (again by `OneParent`). `Chains` is the heart: that the
entry popped by a thread that ends is its parent is true only since a rank that
loses the bottom of its queue can never push its ancestor again.

**CacheManagerProofs.** The invariant has two halves. `SInv` is about the
structure: every block has at most one slot and the TLB agrees (`Keys`); what
is checked out has a slot, a reference count and the rights of the program
(`Rights`); what each place in the code may rely on, such as that everything is
clean between the write-back and the retry of a checkout (`Calls`); a slot that
is not mapped where it belongs is on the list to be mapped, behind the slot
that its block is still mapped to (`Maps`); and a byte in flight belongs to a
slot known to be writing back, in one put at most (`Flights`). It is inductive
without any assumption on the program beyond the guards of the model, and gives
`TypeCorrect`, `RmaDisjoint` and `DieOnlyIfExhausted`. `DInv` is about the
data, byte by byte: a valid copy that the program may read is fresh or being
fetched (`ValidFresh`), what is fetched is fresh at home (`FetchesHome`), what
is written back is nobody else's (`WritesMine`), a put that has already read an
old value is followed by another one (`StaleOnWire`), and the last value is at
home or in a slot that is going to be written back (`Somewhere`). The case that
needs all of them is the rewrite of a byte whose put is under way. `DInv` gives
`HomeLatest`, `NoLostWrite` and `CheckedOutLatest`, under the hypothesis
`SetAfterAcquire`; run `cache_readonly` shows that `CheckedOutLatest` is false
without it (section 6).

**ReleaseManagerProofs.** `IInv` orders the counters (`home` at most `begun`
at most `written`), ties `has_dirty` to unfinished writes, bounds all requested
and required epochs by the one that the next complete write-back reaches, and
says that a handler whose epoch has passed has its data at home. The rank that
waits is clean, so that two ranks that wait for each other can both be served.
It gives the soundness of `acquire`, the assertion at the end of `poll()`, and
that requests never go back.

**ForkJoinProofs.** `ReadsLatest` says nothing about why an access is up to
date, so the invariant has to say where the newest value of every cell is at
every moment of a pass. It has four parts.

- `Ctl` is about control. `Shape`: the calls under way are a tree of ranges
  (of two calls, one lies in a half of the other that has been called, or they
  are disjoint), and every call is at a place that agrees with which of its
  halves exist. `Running`: no call is executed by two workers. `Queues`: the
  entries of a queue are ancestors of the call that its worker executes, one
  inside the left half of the next. `Forks`: a call at its fork is in a queue
  and has lost nothing to a thief. `Deaths`: a thread that ended apart from its
  parent is remembered until the parent joins it.
- `Accs` says which accumulator a call of a reduction uses, and `OneHolder`
  that no two calls hold the same one, although a stolen right half takes a new
  one and the left half passes its own on.
- `Memory` gives every cell an owner among the calls: the innermost call whose
  range has it, or for an accumulator the call that holds it. Only the code of
  the owner accesses the cell. What is dirty is dirty at a worker that is busy
  inside the owner (`Busy`), and, as long as a thief may take the owner from a
  queue, at the worker that its release handler names (`Pinned`). If nothing inside the owner was
  stolen (`Whole`), the one worker busy there sees the newest value of all it
  owns.

None of these can be dropped. A step hands cells from one owner to another (a
call to the half it calls, a half that ends to its caller), and the fence of
that step is enough because of what `Memory` says about the previous owner;
that the previous owner is the only one is `Shape` and `OneHolder`, that a
thread which finds its parent in its own queue was not separated from it, and
may skip the fences, is `Queues`, and that a steal acquires what the victim
wrote before the fork is `Pinned`. There is one lemma per action for each of
`Ctl`, `Accs`, ownership and `Memory`. Besides `ForkJoinReads` the module
proves three facts that no run states: what a thread that ends pops from the
queue is the continuation of its parent, a pass leaves nothing behind when it
returns, and calls that run at the same time share no cell. Assumed is only
that there is an element, and that `Nobody` is neither a worker nor a range.

**Only model-checked.** Liveness, in all modules (the prover does not do
fairness). `Adws`, whose invariants would need a proof of the size of
`RandWsProofs` and `ForkJoinProofs` together. In the run `library`:
`HeapPartition` and `HeadersAlive` of `RemotableMem`, `VectorContents` of
`GlobalVector` and `HomeMapped` of `CheckoutSpan` are about operators that fold
over lists and sets (the collection of flagged objects, the segments of a
checkout), and what a fold computes takes induction over data; the operators
behind `RangesSound`, `OrderKept` and `StealingInvisible` are recursive. Both
are beyond the prover.

## 5. What the checks show

The fast paths of the queue are right: with the lock taken only when the queue
seems empty, no entry is lost or taken twice. In the scheduler each
continuation is in one place at every time, the parent found by a thread that
ends is always its own, and a stack is never overwritten while a thief copies
it, since `pop()` needs the lock to see the queue empty. A rank that waits in
`ensure_released()` without polling is always clean, so lazy release cannot
deadlock. In the cache, stale bytes that were fetched along are never handed
out, puts under way never hit memory that others have got since, not even
after `free()`, and the cache is reported exhausted only if it is.

In ADWS no second message ever meets a full mailbox, although tasks, dummies
and continuations of several ranks share the slot; a thread whose range spans
ranks is always back on the owner of the range when it touches its node of the
tree; and a thread that waits for its dummies without polling does not wait for
ever: no cycle of ranks that wait for each other comes about.

In the library, an object is collected only after the put of its flag has
landed, so unflushed frees never hit reused memory; home segments stay mapped
while they are checked out although the TLB knows them before they are mapped,
and a span that is moved, also to itself, checks its region in exactly once;
the fences that the patterns skip when a child was serialized are not needed;
and results do not depend on which continuations were stolen. For the fences
this holds of every tree of calls, not only of the small one that is checked.

## 6. Findings

**Read-only regions.** `set_readonly_coll()` (`ori/core.hpp:280`) releases and
then declares a range read-only, but it does not invalidate. A byte of the
range that the cache fetched along with a neighbour, and that another rank
wrote afterwards, is still marked valid; `invalidate_all()` skips read-only
bytes, so every later `acquire()` keeps it, and checkouts in read mode return
the old value. The documentation (`container/checkout_span.hpp:206`) says: "If
`read` or `read_write`, the checked-out region has the latest data." Run
`cache_readonly` shows the steps. The passing cache runs assume that
`set_readonly_coll()` is called right after an `acquire()`
(`SetAfterAcquire`), under which the sentence holds.

**minmax_element.** The leaves call `std::minmax_element`
(`pattern/parallel_search.hpp:308`), which returns the last maximum, while the
documentation (line 273 of that file) says: "If multiple minimum/maximum
elements exist, the iterator to the first element is returned for each." Run
`minmax` shows two equal maxima in one leaf. The minima, and `min_element()`
and `max_element()`, are as documented.

**Read off the code while modelling**, not the subject of a run of their own:

- a policy whose `checkout_count` is smaller than its `cutoff_count` passes
  `assert_policy()`, and the documentation of `inplace_merge()`
  (`pattern/parallel_merge.hpp:253-256`) and `stable_sort()`
  (`pattern/parallel_sort.hpp:50-53`) promises that global pointers are checked
  out in the granularity of `checkout_count`. The leaves of merge
  (`pattern/parallel_merge.hpp:163`), and with it of both sorts, of
  `stable_partition()` (`pattern/parallel_filter.hpp:21`) and of `shuffle()`
  (`pattern/parallel_shuffle.hpp:25`) fail an `ITYR_CHECK` of equality instead;
  with `NDEBUG`, where there are no checks, they check out a whole leaf at
  once. `OrderKept` therefore assumes equal counts where it says that no check
  fails;
- the same functions have no overload for a `sequenced_policy`, which their
  documentation names;
- the documentation of `rotate()` (`pattern/parallel_loop.hpp:1114-1115`) says
  that `[first, middle)` "is placed before" `[middle, last)`. The code, the
  example below that sentence and `std::rotate` place it after, and so do
  `Rotated` and `OrderKept`;
- the histogram reducer (`pattern/reducer_extra.hpp:22-26`) counts a value equal
  to `highest_` into a bin that its own check excludes, and line 39 calls an
  undeclared `foldl`;
- `stable_partition()` of an empty range fails the check at
  `pattern/serial_loop.hpp:32`; `global_vector(0)` fails one too, and
  `create_workhint_range()` of an empty range asks for a tree of 2 * 0 - 1
  nodes;
- `global_vector::operator=(const global_vector&)` with itself frees its
  elements before it reads them;
- the counter of unflushed frees in `remote_deallocate()`
  (`common/allocator.hpp:245`) is a function-local static, shared by all
  instances;
- `checkout_nb()` of a region that an earlier `checkout_nb()` has begun to
  fetch reports completion through the TLB (`ori/cache_manager.hpp:79`); all
  callers in the library call `checkout_complete()` anyway;
- `shuffle()` ends with probability 1 only: a partition may leave all elements
  on one side any number of times.

## 7. Not modelled

- MPI and RMA wrappers, virtual and physical memory, topology, options,
  profilers and logging: system calls and observation. What MPI promises
  (atomicity of its atomics, completion at the flush) is how the actions are
  cut.
- Global pointers, global spans, iterator adaptors and `unique_file_ptr`: typed
  wrappers around modelled calls. Files behind `file_mem`: system calls.
- The assembly of context switches, and weak memory beyond the fences that the
  code has.
- The serial scheduler and the `core` variants without a cache keep no
  concurrent state.
- `get()`, `put()` and the write-through option in `CacheManager`.
- Collective vectors; allocation, moves and release of work hints, with the
  places where a program that uses them elsewhere than on the root thread or in
  an SPMD region dies.
- The fences of `parallel_invoke()` with more than two tasks, and those that
  the patterns run in the callbacks of ADWS.
- Versions of the ADWS tree that wrap around.
- The histogram reducer and the random engine (its outcomes are free choices).

## 8. What is left

1. `MailboxFree`, `OneContinuation` and `FramesIntact` of `Adws`, as theorems.
   `Family`, `Places` and the frames can be taken over from `RandWsProofs`; what
   is new are several queues per rank, the messages on their way to a mailbox,
   and the dummies.
2. `HeadersAlive` of `RemotableMem`. A new header must not be where a flag is
   on its way to, which is `HeapPartition`; that needs what a collection, a fold
   over the list, leaves of the free lists.
3. `SegmentsMapped` of `HomeManager`: its mappings are close to `Maps` of
   `CacheManagerProofs`, but a checkout is a fold over segments, and would have
   to become one action per segment first.
4. Lemmas about `get_union`, `overlap` and the entries of `Freelist`.
