----------------------------- MODULE RemotableMem -----------------------------
(* common/allocator.hpp and ori/noncoll_mem.hpp: memory that the rank which  *)
(* allocated it or any other rank frees. A remote free sets a flag in the    *)
(* header of the object with a put that nobody waits for; the owner collects *)
(* flagged objects later. A behaviour has memory of one kind mr:             *)
(*   "remotable": the allocators of the schedulers (remotable_resource);     *)
(*   "noncoll"  : malloc() and free() of core.hpp (noncoll_mem).             *)
(* The pool of the standard library between the headers and the resources is *)
(* taken as one that passes every request on, as it does with large ones.    *)
EXTENDS Freelist, FiniteSets, FiniteSetsExt

CONSTANTS Ranks,         \* 0 .. n-1
          Allocators,    \* the ranks that allocate; every rank frees
          LocalMax,      \* local_max_size_
          HeaderSize,    \* sizeof(header)
          AllocBlock,    \* allocator_block_size_option
          PageSize,      \* get_page_size()
          FirstThreshold,\* initial collect_threshold_
          MaxUnflushed,  \* allocator_max_unflushed_free_objs_option
          Requests       \* sizes and alignments that the program asks for

ASSUME ArenaAssumption == LocalMax % AllocBlock = 0 /\ AllocBlock % PageSize = 0

VARIABLES mr,       \* "remotable" or "noncoll"
          heap,     \* per rank: free lists, allocated_list_, allocated_size_, collect_threshold_
          freed,    \* addresses of the headers whose freed flag is set
          flight,   \* per rank: headers for which its put of the flag is under way
          count,    \* per rank: unflushed remote frees
          held,     \* objects that the program of a scheduler uses
          posting,  \* per rank: objects allocated for other ranks, not handed out yet
          waiting,  \* per rank: objects whose remote free it waits for
          died      \* die() was called
memVars == <<mr, heap, freed, flight, count, held, posting, waiting, died>>

--------------------------------------------------------------------------------
VmAddr == LocalMax
BaseAddr(r) == VmAddr + r * LocalMax
get_owner(p) == (p - VmAddr) \div LocalMax
ArenaSize == IF mr = "noncoll" THEN LocalMax - 1 ELSE LocalMax
collect_threshold_max == (LocalMax * 8) \div 10

Pad(alignment) == RoundUp(HeaderSize, alignment)
HeaderOf(o) == o.p - Pad(o.alignment)

TakeRoot(h, s) == [ok |-> s.ok, addr |-> s.addr, heap |-> [h EXCEPT !.root = s.fl]]
TakeBlk(h, s) == [ok |-> s.ok, addr |-> s.addr, heap |-> [h EXCEPT !.blk = s.fl]]

(* mpi_win_resource: whole pages. The caller dies if it fails.               *)
win_allocate(h, bytes, alignment) ==
    TakeRoot(h, fl_get_aligned(h.root, RoundUp(bytes, PageSize), alignment))

win_deallocate(h, addr, bytes) ==
    [h EXCEPT !.root = fl_add(@, addr, RoundUp(bytes, PageSize))]

(* block_resource: small requests share blocks, large ones go upstream; b is *)
(* a new block.                                                              *)
block_refill(b, bytes, alignment) ==
    IF ~b.ok THEN b
    ELSE TakeBlk(b.heap, fl_get_aligned(fl_add(b.heap.blk, b.addr, AllocBlock), bytes, alignment))

block_small(h, s, bytes, alignment) ==
    IF s.ok THEN TakeBlk(h, s)
    ELSE block_refill(win_allocate(h, AllocBlock, AllocBlock), bytes, alignment)

block_allocate(h, bytes, alignment) ==
    IF bytes >= AllocBlock THEN win_allocate(h, bytes, Max({alignment, AllocBlock}))
    ELSE block_small(h, fl_get_aligned(h.blk, bytes, alignment), bytes, alignment)

block_deallocate(h, addr, bytes) ==
    IF bytes >= AllocBlock THEN win_deallocate(h, addr, bytes)
    ELSE [h EXCEPT !.blk = fl_add(@, addr, bytes)]

(* root_resource of noncoll_mem: throws if it has no room.                   *)
root_allocate(h, bytes, alignment) == TakeRoot(h, fl_get_aligned(h.root, bytes, alignment))

root_deallocate(h, addr, bytes) == [h EXCEPT !.root = fl_add(@, addr, bytes)]

upstream_deallocate(h, addr, bytes) ==
    IF mr = "noncoll" THEN root_deallocate(h, addr, bytes)
    ELSE block_deallocate(h, addr, bytes)

local_deallocate_impl(h, e) ==
    [upstream_deallocate(h, e.addr, e.size) EXCEPT
        !.list = @ \ {e}, !.allocated = @ - e.size]

(* The walk over allocated_list_ frees what is flagged (fr), in whatever     *)
(* order: the list is a set here. Flags that land meanwhile are as if they   *)
(* had landed before or after it.                                            *)
free_flagged(h, fr) ==
    FoldSet(LAMBDA e, g : local_deallocate_impl(g, e), h, {e \in h.list : e.addr \in fr})

next_threshold(h) ==
    IF h.allocated * 2 > collect_threshold_max
    THEN (collect_threshold_max + h.allocated) \div 2 ELSE h.allocated * 2

Retune(h) == [h EXCEPT !.threshold = next_threshold(h)]

(* noncoll_mem::collect_deallocated() sets the next threshold itself.        *)
collect_noncoll(h, fr) == Retune(free_flagged(h, fr))

collect_if_due(h, fr) == IF h.allocated >= h.threshold THEN Retune(free_flagged(h, fr)) ELSE h

(* do_allocate() of remotable_resource ...                                   *)
allocate_remotable(h, fr, bytes, alignment) ==
    block_allocate(collect_if_due(h, fr), bytes, alignment)

(* ... and of noncoll_mem, which collects and tries again before it dies.    *)
root_retry(t, fr, bytes, alignment) ==
    IF t.ok THEN t ELSE root_allocate(collect_noncoll(t.heap, fr), bytes, alignment)

allocate_noncoll(h, fr, bytes, alignment) ==
    root_retry(root_allocate(collect_if_due(h, fr), bytes, alignment), fr, bytes, alignment)

(* The common part: the header in front, appended to the list.               *)
with_header(t, bytes, alignment) ==
    LET real == bytes + Pad(alignment)
    IN [ok |-> t.ok,
        obj |-> [p |-> t.addr + Pad(alignment), bytes |-> bytes, alignment |-> alignment],
        heap |-> [t.heap EXCEPT
                    !.list = @ \cup {[addr |-> t.addr, size |-> real]},
                    !.allocated = @ + real]]

do_allocate(h, fr, bytes, alignment) ==
    LET real == bytes + Pad(alignment)
    IN with_header(IF mr = "noncoll" THEN allocate_noncoll(h, fr, real, alignment)
                   ELSE allocate_remotable(h, fr, real, alignment), bytes, alignment)

HeaderAddrs(h) == {e.addr : e \in h.list}

EntryOf(h, o) == CHOOSE e \in h.list : e.addr = HeaderOf(o)

(* The memory as one value, for operations that allocate and free in turn.   *)
Memory == [heap |-> heap, freed |-> freed, flight |-> flight, count |-> count]
SetMemory(m) == heap' = m.heap /\ freed' = m.freed /\ flight' = m.flight /\ count' = m.count

(* Flags go with their headers, and are clear in a new one.                  *)
WithHeap(m, r, h, new) ==
    [m EXCEPT !.heap[r] = h,
              !.freed = {a \in @ : get_owner(a) = r => a \in HeaderAddrs(h) \ new}]

WithObject(m, r, t) ==
    [ok |-> t.ok, obj |-> t.obj,
     m |-> IF t.ok THEN WithHeap(m, r, t.heap, {HeaderOf(t.obj)}) ELSE m]

Allocating(m, r, bytes, alignment) ==
    WithObject(m, r, do_allocate(m.heap[r], m.freed, bytes, alignment))

local_deallocate(m, r, o) ==
    WithHeap(m, r, local_deallocate_impl(m.heap[r], EntryOf(m.heap[r], o)), {})

(* The put of the flag is flushed only once in a while.                      *)
remote_deallocate(m, r, o) ==
    IF m.count[r] + 1 >= MaxUnflushed
    THEN [m EXCEPT !.freed = @ \cup m.flight[r] \cup {HeaderOf(o)},
                   !.flight[r] = {}, !.count[r] = 0]
    ELSE [m EXCEPT !.flight[r] = @ \cup {HeaderOf(o)}, !.count[r] = @ + 1]

do_deallocate(m, r, o) ==
    IF get_owner(o.p) = r THEN local_deallocate(m, r, o) ELSE remote_deallocate(m, r, o)

(* free() of core.hpp makes the same choice; the dirty data that it discards *)
(* before a remote free are those of CacheManager!discard_dirty.             *)
core_free(m, r, o) == do_deallocate(m, r, o)

--------------------------------------------------------------------------------
NewHeap(r) == [root |-> <<Range_(BaseAddr(r), ArenaSize)>>, blk |-> <<>>, list |-> {},
               allocated |-> 0, threshold |-> FirstThreshold]

MemInit ==
    /\ mr \in {"remotable", "noncoll"}
    /\ heap = [r \in Ranks |-> NewHeap(r)]
    /\ freed = {} /\ held = {} /\ died = FALSE
    /\ flight = [r \in Ranks |-> {}]
    /\ count = [r \in Ranks |-> 0]
    /\ posting = [r \in Ranks |-> <<>>]
    /\ waiting = [r \in Ranks |-> <<>>]

(* A put of a flag takes effect at any time before the flush.                *)
PutLands(r, a) ==
    /\ ~died /\ a \in flight[r]
    /\ freed' = freed \cup {a}
    /\ flight' = [flight EXCEPT ![r] = @ \ {a}]
    /\ UNCHANGED <<mr, heap, count, held, posting, waiting, died>>

--------------------------------------------------------------------------------
(* A scheduler as the program: frames and tasks are allocated on one rank    *)
(* and freed on the rank that ran them.                                      *)
Allocate(r, q) ==
    /\ mr = "remotable" /\ ~died /\ r \in Allocators
    /\ posting[r] = <<>> /\ waiting[r] = <<>>
    /\ LET t == Allocating(Memory, r, q.bytes, q.alignment) IN
       /\ SetMemory(t.m)
       /\ held' = held \cup (IF t.ok THEN {t.obj} ELSE {})
       /\ died' = ~t.ok
    /\ UNCHANGED <<mr, posting, waiting>>

Deallocate(r, o) ==
    /\ mr = "remotable" /\ ~died /\ o \in held
    /\ \A i \in DOMAIN waiting[r] : waiting[r][i] # o
    /\ SetMemory(do_deallocate(Memory, r, o))
    /\ held' = held \ {o}
    /\ UNCHANGED <<mr, posting, waiting, died>>

(* on_task_die() of ADWS hands out tasks to other ranks and waits until they *)
(* are freed there: first all are allocated, then all are handed out.        *)
HandedAtOnce_Yes(o) == {o}

HandedAtOnce(o) == {}

PostAllocate(r, q) ==
    /\ mr = "remotable" /\ ~died /\ r \in Allocators
    /\ Len(posting[r]) < 2 /\ waiting[r] = <<>>
    /\ LET t == Allocating(Memory, r, q.bytes, q.alignment) IN
       /\ t.ok /\ SetMemory(t.m)
       /\ posting' = [posting EXCEPT ![r] = Append(@, t.obj)]
       /\ held' = held \cup HandedAtOnce(t.obj)
    /\ UNCHANGED <<mr, waiting, died>>

PostPut(r) ==
    /\ ~died /\ posting[r] # <<>>
    /\ waiting' = [waiting EXCEPT ![r] = posting[r]]
    /\ posting' = [posting EXCEPT ![r] = <<>>]
    /\ held' = held \cup ToSet(posting[r])
    /\ UNCHANGED <<mr, heap, freed, flight, count, died>>

(* is_remotely_freed() in a loop that does nothing else.                     *)
IsRemotelyFreed(r) ==
    /\ ~died /\ waiting[r] # <<>>
    /\ LET o == Head(waiting[r]) IN
       /\ HeaderOf(o) \in freed
       /\ SetMemory(local_deallocate(Memory, r, o))
    /\ waiting' = [waiting EXCEPT ![r] = Tail(@)]
    /\ UNCHANGED <<mr, held, posting, died>>

MemNext ==
    \E r \in Ranks :
        \/ \E q \in Requests : Allocate(r, q) \/ PostAllocate(r, q)
        \/ \E o \in held : Deallocate(r, o)
        \/ PostPut(r) \/ IsRemotelyFreed(r)
        \/ \E a \in flight[r] : PutLands(r, a)

--------------------------------------------------------------------------------
Cells(e) == e.addr .. (EndOf(e) - 1)

(* What an object takes: whole pages if it comes from the window.            *)
Taken(e) == IF mr = "remotable" /\ e.size >= AllocBlock THEN RoundUp(e.size, PageSize)
            ELSE e.size

Parts(h) == ToSet(h.root) \cup ToSet(h.blk) \cup
            {Range_(e.addr, Taken(e)) : e \in h.list}

(* Whatever is allocated, split for alignment, freed here or there and coll- *)
(* ected: objects and free entries never overlap, nothing is lost between    *)
(* them, entries that touch are merged, and allocated_size_ is exact.        *)
HeapPartition ==
    \A r \in Ranks : LET h == heap[r] IN
        /\ \A a, b \in Parts(h) : a # b => Cells(a) \cap Cells(b) = {}
        /\ UNION {Cells(a) : a \in Parts(h)} = BaseAddr(r) .. (BaseAddr(r) + ArenaSize - 1)
        /\ \A fl \in {h.root, h.blk} : \A i \in 1 .. (Len(fl) - 1) : EndOf(fl[i]) < fl[i + 1].addr
        /\ h.allocated = MapThenSumSet(LAMBDA e : e.size, h.list)

(* A flag is only ever put into the header of an object that still exists,   *)
(* and a rank that polls a header polls one that was not collected: memory   *)
(* is never reused while a remote free of it is under way.                   *)
HeadersAlive ==
    /\ \A r \in Ranks : \A a \in flight[r] : a \in HeaderAddrs(heap[get_owner(a)]) \ freed
    /\ \A r \in Ranks : \A i \in DOMAIN waiting[r] :
          HeaderOf(waiting[r][i]) \in HeaderAddrs(heap[r])
    /\ \A o \in held : HeaderOf(o) \in HeaderAddrs(heap[get_owner(o.p)])

================================================================================
