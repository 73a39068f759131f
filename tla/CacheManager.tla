------------------------------ MODULE CacheManager ------------------------------
(***************************************************************************)
(* ityr::ori::cache_manager with cache_system and tlb: the software cache  *)
(* of one rank, against home memory that the other ranks use at the same   *)
(* time.                                                                   *)
(*                                                                         *)
(* Data is abstracted to freshness: a copy of a byte, at home or in a      *)
(* cache slot, is fresh if it is the value that was last written by        *)
(* anybody.  A put_nb reads its bytes at one time and writes them at a     *)
(* later one, a get_nb copies them at one time, any time up to the flush,  *)
(* which waits for them.                                                   *)
(*                                                                         *)
(* The program is any program without data races: owner[b] says who may    *)
(* use byte b.  The other ranks give bytes away before this rank's         *)
(* acquire(); this rank offers bytes with release_lazy(), and the others   *)
(* may use them when its epoch has advanced (ReleaseManager), or at once   *)
(* if it was clean.  Checkouts do not overlap with fork and join, that is, *)
(* with releases and acquires.  Several checkouts may be begun before they *)
(* are completed together, but none is used before that, as in             *)
(* make_checkouts().  MaxHeld bounds the checkouts held at a time.         *)
(*                                                                         *)
(* All blocks belong to one window, so that a flush completes every        *)
(* operation in flight.                                                    *)
(***************************************************************************)
EXTENDS Integers, Sequences, FiniteSets

CONSTANTS Blocks, NoBlock,    \* block addresses of global memory
          BlockSize, sub_block_size,
          NSlots, NoSlot,     \* entries of the cache
          max_dirty_cache_blocks, MaxHeld,
          SetAfterAcquire     \* set_readonly_coll() is called right after acquire()

Slots == 1..NSlots
Offsets == 0..(BlockSize - 1)
Bytes == Blocks \X Offsets

ASSUME CacheAssumption ==
    /\ BlockSize \in Nat \ {0} /\ sub_block_size \in 1..BlockSize
    /\ NSlots \in Nat \ {0} /\ NoSlot \notin Slots /\ NoBlock \notin Blocks
    /\ max_dirty_cache_blocks \in Nat \ {0}
    /\ SetAfterAcquire \in BOOLEAN

VARIABLES
    cached, lru,             \* cache_system: key of each slot, slots from old to new
    valid, dirty, ref_count, \* cache_block: valid_regions, dirty_regions, ref_count
    mapped, vm,              \* mapped_addr of a slot; the slot mapped at an address
    writing,                 \* slots whose writeback_epoch is the current one
    dirty_cache_blocks, has_dirty_cache, readonly,
    tlb,                     \* cache_tlb_
    to_map, fetching, completed,  \* cache_blocks_to_map_, fetching_wins_, the result
    puts, gets,              \* bytes <<slot, offset>> to be put, to be fetched
    wire,                    \* bytes read by a put, and whether they are fresh
    fresh, home,             \* fresh copies: <<slot, offset>>, <<block, offset>>
    owner, held,             \* of the program: rights and checkouts
    pc, op, req              \* place in the code, call, and its argument

slotVars == <<cached, lru, valid, dirty, ref_count>>
mapVars == <<mapped, vm, to_map>>
writeVars == <<writing, dirty_cache_blocks, has_dirty_cache>>
fetchVars == <<fetching, completed, gets>>
dataVars == <<puts, wire, fresh, home>>
callVars == <<pc, op, req>>
vars == <<slotVars, mapVars, writeVars, fetchVars, dataVars, callVars,
          readonly, tlb, owner, held>>

Regions == {a..b : a \in Offsets, b \in Offsets} \ {{}}
Requests == [blk : Blocks, reg : Regions, mode : {"read", "write", "read_write"}]
NoReq == [blk |-> NoBlock, reg |-> {}, mode |-> "read"]

TypeOK ==
    /\ cached \in [Slots -> Blocks \cup {NoBlock}]
    /\ lru \in [Slots -> Slots]
    /\ valid \in [Slots -> SUBSET Offsets] /\ dirty \in [Slots -> SUBSET Offsets]
    /\ ref_count \in [Slots -> Nat]
    /\ mapped \in [Slots -> Blocks \cup {NoBlock}]
    /\ vm \in [Blocks -> Slots \cup {NoSlot}] /\ to_map \in Seq(Slots)
    /\ writing \subseteq Slots
    /\ dirty_cache_blocks \in Seq(Slots) /\ has_dirty_cache \in BOOLEAN
    /\ readonly \subseteq Bytes /\ tlb \subseteq Blocks \X Slots
    /\ fetching \in BOOLEAN /\ completed \in BOOLEAN
    /\ puts \subseteq Slots \X Offsets /\ gets \subseteq Slots \X Offsets
    /\ wire \subseteq Slots \X Offsets \X BOOLEAN
    /\ fresh \subseteq Slots \X Offsets /\ home \subseteq Bytes
    /\ owner \in [Bytes -> {"mine", "offered", "theirs"}]
    /\ held \subseteq [request : Requests, written : BOOLEAN]
    /\ pc \in {"run", "batch", "map", "complete", "retry", "invalidate", "evict", "set", "die"}
    /\ op \in {"none", "release", "acquire", "free_coll", "set_readonly", "checkout"}
    /\ req \in Requests \cup {NoReq}

Init ==
    /\ cached = [s \in Slots |-> NoBlock]
    /\ lru = [i \in Slots |-> i]
    /\ valid = [s \in Slots |-> {}] /\ dirty = [s \in Slots |-> {}]
    /\ ref_count = [s \in Slots |-> 0]
    /\ mapped = [s \in Slots |-> NoBlock]
    /\ vm = [b \in Blocks |-> NoSlot] /\ to_map = <<>>
    /\ writing = {} /\ dirty_cache_blocks = <<>> /\ has_dirty_cache = FALSE
    /\ readonly = {} /\ tlb = {}
    /\ fetching = FALSE /\ completed = TRUE
    /\ puts = {} /\ gets = {} /\ wire = {}
    /\ fresh = {} /\ home = Bytes
    /\ owner \in [Bytes -> {"mine", "theirs"}] /\ held = {}
    /\ pc = "run" /\ op = "none" /\ req = NoReq

--------------------------------------------------------------------------------
(* Bytes of global memory behind bytes of cache slots.                     *)
Addr(places) == {<<cached[p[1]], p[2]>> : p \in places}
Part(r) == {r.blk} \X r.reg

(* Copies of some bytes cease to be fresh when these are written.          *)
Outdated(bs) ==
    {IF <<cached[w[1]], w[2]>> \in bs THEN <<w[1], w[2], FALSE>> ELSE w : w \in wire}
Without(bs) == {p \in fresh : <<cached[p[1]], p[2]>> \notin bs}

PutReads ==
    \E p \in puts :
        /\ puts' = puts \ {p}
        /\ wire' = wire \cup {<<p[1], p[2], p \in fresh>>}
        /\ UNCHANGED <<slotVars, mapVars, writeVars, fetchVars, fresh, home, callVars,
                       readonly, tlb, owner, held>>

PutLands ==
    \E w \in wire :
        LET b == <<cached[w[1]], w[2]>> IN
        /\ wire' = wire \ {w}
        /\ home' = IF w[3] THEN home \cup {b} ELSE home \ {b}
        /\ UNCHANGED <<slotVars, mapVars, writeVars, fetchVars, puts, fresh, callVars,
                       readonly, tlb, owner, held>>

GetLands ==
    \E p \in gets :
        /\ gets' = gets \ {p}
        /\ fresh' = IF <<cached[p[1]], p[2]>> \in home THEN fresh \cup {p} ELSE fresh \ {p}
        /\ UNCHANGED <<slotVars, mapVars, writeVars, fetching, completed, puts, wire, home, callVars,
                       readonly, tlb, owner, held>>

(* rma::flush() returns when all puts have landed.                         *)
Flushed == puts = {} /\ wire = {}

--------------------------------------------------------------------------------
(* Mutant: a block that is being written back is put again at once.        *)
writeback_begin_NoWait(d, list) ==
    LET todo == {s \in Slots : d[s] # {} /\ \E i \in DOMAIN list : list[i] = s} IN
    /\ puts' = puts \cup {p \in todo \X Offsets : p[2] \in d[p[1]]}
    /\ writing' = writing \cup todo
    /\ dirty' = [s \in Slots |-> IF s \in todo THEN {} ELSE d[s]]
    /\ dirty_cache_blocks' = <<>>
    /\ UNCHANGED home

(***************************************************************************)
(* writeback_begin(): put the dirty bytes d of all blocks in list.  A      *)
(* block that is being written back already makes it wait for all puts     *)
(* that have begun, those of this very loop included.                      *)
(***************************************************************************)
writeback_begin(d, list) ==
    LET todo == {s \in Slots : d[s] # {} /\ \E i \in DOMAIN list : list[i] = s}
        again == {i \in DOMAIN list : list[i] \in todo \cap writing}
        early == {s \in todo : \E i \in DOMAIN list :
                                   list[i] = s /\ \A j \in again : i < j}
        late == todo \ early
        region(S) == {p \in S \X Offsets : p[2] \in d[p[1]]}
    IN  /\ IF again = {}
           THEN /\ puts' = puts \cup region(todo)
                /\ writing' = writing \cup todo
                /\ UNCHANGED home
           ELSE /\ Flushed
                /\ home' = (home \ Addr(region(early))) \cup Addr(region(early) \cap fresh)
                /\ puts' = region(late)
                /\ writing' = late
        /\ dirty' = [s \in Slots |-> IF s \in todo THEN {} ELSE d[s]]
        /\ dirty_cache_blocks' = <<>>

(* What increment_epoch() lets the other ranks have.                       *)
EpochAdvanced == [b \in Bytes |-> IF owner[b] = "offered" THEN "theirs" ELSE owner[b]]

AllClean == dirty_cache_blocks = <<>> /\ has_dirty_cache

(* ensure_all_cache_clean() is writeback_begin() and writeback_complete(). *)
CleanCall(name, r) ==
    /\ writeback_begin(dirty, dirty_cache_blocks)
    /\ pc' = "complete" /\ op' = name /\ req' = r
    /\ UNCHANGED <<cached, lru, valid, ref_count, mapVars, has_dirty_cache, fetchVars, wire, fresh,
                   readonly, tlb, owner, held>>

writeback_complete ==
    /\ pc = "complete"
    /\ writing # {} => Flushed
    /\ writing' = {}
    /\ has_dirty_cache' = (has_dirty_cache /\ ~AllClean)
    /\ owner' = IF AllClean THEN EpochAdvanced ELSE owner
    /\ pc' = CASE op = "release" -> "run"
               [] op = "acquire" -> "invalidate"
               [] op = "free_coll" -> "evict"
               [] op = "set_readonly" -> "set"
               [] op = "checkout" -> "retry"
    /\ op' = "none"
    /\ UNCHANGED <<slotVars, mapVars, dirty_cache_blocks, fetchVars, dataVars, readonly, tlb,
                   held, req>>

--------------------------------------------------------------------------------
(***************************************************************************)
(* Checkout.                                                               *)
(***************************************************************************)
Pad(reg) == {o \in Offsets : \E p \in reg : o \div sub_block_size = p \div sub_block_size}

(* Mutant: a block is given away with its dirty bytes.                     *)
is_evictable_Dirty(s) == ref_count[s] = 0 /\ s \notin writing

is_evictable(s) == ref_count[s] = 0 /\ dirty[s] = {} /\ s \notin writing

Usable(s) == cached[s] = NoBlock \/ is_evictable(s)

(* get_empty_slot(): the least recently used slot that can be had.         *)
EmptySlots ==
    {s \in Slots : /\ Usable(s)
                   /\ \A i, j \in Slots : lru[i] = s /\ j < i => ~Usable(lru[j])}

(* move_to_back_lru(): the slots behind s move up.                         *)
MovedToBack(s) ==
    LET k == CHOOSE i \in Slots : lru[i] = s IN
    [i \in Slots |-> CASE i < k -> lru[i]
                       [] i >= k /\ i < NSlots -> lru[i + 1]
                       [] OTHER -> s]

(* What the program may check out: its own bytes, read-only ones to read.  *)
Permitted(r) ==
    /\ \A b \in Part(r) : owner[b] = "mine" /\ (b \in readonly => r.mode = "read")
    /\ \A h \in held : h.request # r
    /\ Cardinality(held) < MaxHeld

(* Mutant: a region is taken for valid if a part of it is.                 *)
Begins_Partly(r, v) == r.mode # "write" /\ r.reg \cap v = {}

(* The common part of checkout_fast() and checkout_blk(): fetch_begin() on *)
(* slot s with valid regions v, or no fetch in write mode.                 *)
Begins(r, v) == r.mode # "write" /\ ~(r.reg \subseteq v)

TakeOut(s, r, v) ==
    /\ valid' = [valid EXCEPT ![s] = v \cup (IF Begins(r, v) THEN Pad(r.reg) ELSE r.reg)]
    /\ gets' = gets \cup (IF Begins(r, v) THEN {s} \X (Pad(r.reg) \ v) ELSE {})
    /\ fetching' = (fetching \/ Begins(r, v))
    /\ ref_count' = [ref_count EXCEPT ![s] = @ + 1]
    /\ held' = held \cup {[request |-> r, written |-> FALSE]}
    /\ pc' = "batch" /\ req' = NoReq
    /\ UNCHANGED <<dirty, mapped, vm, writeVars, puts, wire, home, op, readonly, owner>>

(* checkout_fast(): the block is in the TLB.                               *)
checkout_fast(r) ==
    /\ pc \in {"run", "batch"} /\ Permitted(r)
    /\ \E s \in Slots :
          /\ <<r.blk, s>> \in tlb
          /\ TakeOut(s, r, valid[s])
          /\ completed' = (completed /\ ~Begins(r, valid[s]))
    /\ UNCHANGED <<cached, lru, to_map, fresh, tlb>>

(* cache_tlb_.add(): which entries it drops is left open.                  *)
TlbAdd(old, blk, s) == \E kept \in SUBSET old : tlb' = kept \cup {<<blk, s>>}

(* The rest of checkout_blk() on a slot that was found or emptied.         *)
CheckoutAt(s, r, v, old) ==
    LET remap == mapped[s] # r.blk IN
    /\ lru' = MovedToBack(s)
    /\ to_map' = IF remap THEN Append(to_map, s) ELSE to_map
    /\ TakeOut(s, r, v)
    /\ completed' = (completed /\ ~Begins(r, v) /\ ~remap)
    /\ TlbAdd(old, r.blk, s)

CheckoutHit(r) ==
    /\ pc \in {"run", "batch"} /\ Permitted(r)
    /\ \E s \in Slots :
          /\ cached[s] = r.blk
          /\ CheckoutAt(s, r, valid[s], tlb)
    /\ UNCHANGED <<cached, fresh>>

Requested(r) == (pc \in {"run", "batch"} /\ Permitted(r)) \/ (pc = "retry" /\ r = req)

IsCached(blk) == \E s \in Slots : cached[s] = blk

(* Eviction clears the TLB.                                                *)
CheckoutMiss(r) ==
    /\ Requested(r) /\ ~IsCached(r.blk)
    /\ \E s \in EmptySlots :
          /\ cached' = [cached EXCEPT ![s] = r.blk]
          /\ fresh' = {p \in fresh : p[1] # s}
          /\ CheckoutAt(s, r, {}, IF cached[s] = NoBlock THEN tlb ELSE {})

(* Mutant: it retries when the write-back has begun.                       *)
CheckoutFull_BeginOnly(r) ==
    /\ pc \in {"run", "batch"} /\ Permitted(r)
    /\ ~IsCached(r.blk) /\ EmptySlots = {}
    /\ writeback_begin(dirty, dirty_cache_blocks)
    /\ pc' = "retry" /\ req' = r
    /\ UNCHANGED <<cached, lru, valid, ref_count, mapVars, has_dirty_cache, fetchVars, wire, fresh,
                   op, readonly, tlb, owner, held>>

(* cache_full_exception: write everything back and retry, or die.          *)
CheckoutFull(r) ==
    /\ pc \in {"run", "batch"} /\ Permitted(r)
    /\ ~IsCached(r.blk) /\ EmptySlots = {}
    /\ CleanCall("checkout", r)

die ==
    /\ pc = "retry" /\ EmptySlots = {}
    /\ pc' = "die"
    /\ UNCHANGED <<slotVars, mapVars, writeVars, fetchVars, dataVars, op, req,
                   readonly, tlb, owner, held>>

(* checkout() returns at once if everything is there.                      *)
CheckoutReturn ==
    /\ pc = "batch"
    /\ pc' = IF completed THEN "run" ELSE "map"
    /\ UNCHANGED <<slotVars, mapVars, writeVars, fetchVars, dataVars, op, req,
                   readonly, tlb, owner, held>>

(* checkout_complete(): map the blocks, then wait for the fetches.         *)
update_mapping ==
    /\ pc = "map" /\ to_map # <<>>
    /\ LET s == Head(to_map)
           unmapped == [b \in Blocks |-> IF b = mapped[s] THEN NoSlot ELSE vm[b]]
       IN  /\ vm' = [unmapped EXCEPT ![cached[s]] = s]
           /\ mapped' = [mapped EXCEPT ![s] = cached[s]]
    /\ to_map' = Tail(to_map)
    /\ UNCHANGED <<slotVars, writeVars, fetchVars, dataVars, callVars,
                   readonly, tlb, owner, held>>

fetch_complete ==
    /\ pc = "map" /\ to_map = <<>>
    /\ fetching => gets = {}
    /\ fetching' = FALSE /\ completed' = TRUE
    /\ pc' = "run"
    /\ UNCHANGED <<slotVars, mapVars, writeVars, gets, dataVars, op, req,
                   readonly, tlb, owner, held>>

--------------------------------------------------------------------------------
(* The program writes the bytes it has checked out, through the mapping.   *)
Write(h) ==
    LET s == vm[h.request.blk] IN
    /\ pc = "run" /\ h \in held
    /\ h.request.mode # "read" /\ s # NoSlot
    /\ fresh' = Without(Part(h.request)) \cup ({s} \X h.request.reg)
    /\ wire' = Outdated(Part(h.request))
    /\ home' = home \ Part(h.request)
    /\ held' = (held \ {h}) \cup {[h EXCEPT !.written = TRUE]}
    /\ UNCHANGED <<slotVars, mapVars, writeVars, fetchVars, puts, callVars,
                   readonly, tlb, owner>>

(* checkin_fast() finds the slot in the TLB, checkin_blk() in the table.   *)
Lookup(blk) == {s \in Slots : <<blk, s>> \in tlb \/ cached[s] = blk}

add_dirty_region(s, reg) ==
    LET d == [dirty EXCEPT ![s] = @ \cup reg]
        list == IF dirty[s] = {} THEN Append(dirty_cache_blocks, s) ELSE dirty_cache_blocks
    IN  /\ has_dirty_cache' = (has_dirty_cache \/ dirty[s] = {})
        /\ IF dirty[s] = {} /\ Len(list) >= max_dirty_cache_blocks
           THEN writeback_begin(d, list)
           ELSE dirty' = d /\ dirty_cache_blocks' = list /\ UNCHANGED <<puts, home, writing>>

checkin(h) ==
    /\ pc = "run" /\ h \in held
    /\ h.request.mode = "write" => h.written
    /\ \E s \in Lookup(h.request.blk) :
          /\ IF h.request.mode = "read"
             THEN UNCHANGED <<dirty, writeVars, puts, home>>
             ELSE add_dirty_region(s, h.request.reg)
          /\ ref_count' = [ref_count EXCEPT ![s] = @ - 1]
    /\ held' = held \ {h}
    /\ UNCHANGED <<cached, lru, valid, mapVars, fetchVars, wire, fresh, callVars, readonly, tlb,
                   owner>>

--------------------------------------------------------------------------------
(***************************************************************************)
(* Release and acquire.                                                    *)
(***************************************************************************)
Outside == pc = "run" /\ held = {}

(* release(), and poll() that serves a request.                            *)
release == Outside /\ CleanCall("release", NoReq)

(* release_lazy() for a thread that takes the right to byte b elsewhere.   *)
release_lazy(b) ==
    /\ Outside /\ owner[b] = "mine"
    /\ owner' = [owner EXCEPT ![b] = IF has_dirty_cache THEN "offered" ELSE "theirs"]
    /\ UNCHANGED <<slotVars, mapVars, writeVars, fetchVars, dataVars, callVars,
                   readonly, tlb, held>>

acquire == Outside /\ CleanCall("acquire", NoReq)

(* invalidate_all(), at a time when the other ranks have given up got.     *)
invalidate_all(got) ==
    /\ pc = "invalidate"
    /\ \A b \in got : owner[b] = "theirs"
    /\ valid' = [s \in Slots |-> {o \in valid[s] : <<cached[s], o>> \in readonly}]
    /\ owner' = [b \in Bytes |-> IF b \in got THEN "mine" ELSE owner[b]]
    /\ pc' = "run"
    /\ UNCHANGED <<cached, lru, dirty, ref_count, mapVars, writeVars, fetchVars, dataVars,
                   op, req, readonly, tlb, held>>

(* The other ranks write where they may, except between the two barriers   *)
(* of set_readonly_coll(), in which they take part.                        *)
OthersWrite(b) ==
    /\ owner[b] = "theirs" /\ b \notin readonly /\ pc # "set"
    /\ home' = home \cup {b}
    /\ fresh' = Without({b}) /\ wire' = Outdated({b})
    /\ UNCHANGED <<slotVars, mapVars, writeVars, fetchVars, puts, callVars,
                   readonly, tlb, owner, held>>

--------------------------------------------------------------------------------
(* The bytes of a freed object: what is at home is now their value, and    *)
(* copies of another value, which was not written back, are outdated.      *)
Reverted(bs) ==
    /\ home' = home \cup bs
    /\ fresh' = Without(bs \ home) /\ wire' = Outdated(bs \ home)

(* Mutant: puts in flight are not waited for.                              *)
discard_dirty_NoFlush(b) ==
    LET hit == {s \in Slots : cached[s] = b[1]} IN
    /\ Outside /\ owner[b] = "mine" /\ b \notin readonly
    /\ dirty' = [s \in Slots |-> IF s \in hit THEN dirty[s] \ {b[2]} ELSE dirty[s]]
    /\ Reverted({b})
    /\ owner' = [owner EXCEPT ![b] = "theirs"]
    /\ UNCHANGED <<cached, lru, valid, ref_count, mapVars, writeVars, fetchVars, puts, callVars,
                   readonly, tlb, held>>

(***************************************************************************)
(* free() of a remote object: discard_dirty(), and the memory goes back to *)
(* its owner without a release.                                            *)
(***************************************************************************)
discard_dirty(b) ==
    LET hit == {s \in Slots : cached[s] = b[1]}
        complete == hit \cap writing # {}
    IN
    /\ Outside /\ owner[b] = "mine" /\ b \notin readonly
    /\ lru' = IF hit = {} THEN lru ELSE MovedToBack(CHOOSE s \in hit : TRUE)
    /\ dirty' = [s \in Slots |-> IF s \in hit THEN dirty[s] \ {b[2]} ELSE dirty[s]]
    /\ complete => Flushed
    /\ Reverted({b})
    /\ writing' = (IF complete THEN {} ELSE writing)
    /\ has_dirty_cache' = (has_dirty_cache /\ ~(complete /\ AllClean))
    /\ owner' = [(IF complete /\ AllClean THEN EpochAdvanced ELSE owner) EXCEPT ![b] = "theirs"]
    /\ UNCHANGED <<cached, valid, ref_count, mapVars, dirty_cache_blocks, fetchVars, puts, callVars,
                   readonly, tlb, held>>

(* free_coll() of an object of one block: clean, then ensure_evicted(),    *)
(* clear_tlb(), and the address range is given back.                       *)
BlockBytes(blk) == {blk} \X Offsets

free_coll(blk) ==
    /\ Outside
    /\ \A b \in BlockBytes(blk) : owner[b] = "mine" /\ b \notin readonly
    /\ CleanCall("free_coll", [blk |-> blk, reg |-> Offsets, mode |-> "write"])

ensure_evicted ==
    LET hit == {s \in Slots : cached[s] = req.blk} IN
    /\ pc = "evict"
    /\ cached' = [s \in Slots |-> IF s \in hit THEN NoBlock ELSE cached[s]]
    /\ mapped' = [s \in Slots |-> IF s \in hit THEN NoBlock ELSE mapped[s]]
    /\ valid' = [s \in Slots |-> IF s \in hit THEN {} ELSE valid[s]]
    /\ tlb' = {}
    /\ vm' = [vm EXCEPT ![req.blk] = NoSlot]
    /\ home' = home \cup BlockBytes(req.blk)
    /\ fresh' = {p \in fresh : p[1] \notin hit}
    /\ pc' = "run" /\ req' = NoReq
    /\ UNCHANGED <<lru, dirty, ref_count, to_map, writeVars, fetchVars, puts, wire, op,
                   readonly, owner, held>>

--------------------------------------------------------------------------------
(* set_readonly_coll() of one block: release(), and between two barriers   *)
(* the block joins readonly_regions_.                                      *)
set_readonly_coll(blk) ==
    /\ Outside
    /\ SetAfterAcquire => \A s \in Slots : {cached[s]} \X valid[s] \subseteq readonly
    /\ CleanCall("set_readonly", [blk |-> blk, reg |-> Offsets, mode |-> "read"])

SetReadonly ==
    /\ pc = "set"
    /\ readonly' = readonly \cup Part(req)
    /\ pc' = "run" /\ req' = NoReq
    /\ UNCHANGED <<slotVars, mapVars, writeVars, fetchVars, dataVars, op, tlb, owner, held>>

unset_readonly_coll(blk) ==
    /\ Outside /\ BlockBytes(blk) \cap readonly # {}
    /\ readonly' = readonly \ BlockBytes(blk)
    /\ UNCHANGED <<slotVars, mapVars, writeVars, fetchVars, dataVars, callVars,
                   tlb, owner, held>>

--------------------------------------------------------------------------------
Checkouts(r) ==
    checkout_fast(r) \/ CheckoutHit(r) \/ CheckoutMiss(r) \/ CheckoutFull(r)

Next ==
    \/ PutReads \/ PutLands \/ GetLands
    \/ \E r \in Requests : Checkouts(r)
    \/ die \/ CheckoutReturn \/ update_mapping \/ fetch_complete
    \/ \E h \in held : Write(h) \/ checkin(h)
    \/ release \/ acquire \/ writeback_complete
    \/ \E got \in SUBSET Bytes : invalidate_all(got)
    \/ \E b \in Bytes : release_lazy(b) \/ OthersWrite(b) \/ discard_dirty(b)
    \/ \E blk \in Blocks : free_coll(blk) \/ set_readonly_coll(blk) \/ unset_readonly_coll(blk)
    \/ ensure_evicted \/ SetReadonly

Spec == Init /\ [][Next]_vars

--------------------------------------------------------------------------------
(* Bytes that are checked out to be written but not written yet.           *)
Unwritten == UNION {Part(h.request) : h \in {g \in held : g.request.mode = "write" /\ ~g.written}}

(* The documentation of make_checkout(): "If `read` or `read_write`, the   *)
(* checked-out region has the latest data."  The address is mapped to the  *)
(* slot of its block, and the copy there is the last value anybody wrote,  *)
(* whatever was evicted, fetched along, written back, freed or declared    *)
(* read-only before.                                                       *)
CheckedOutLatest ==
    pc = "run" => \A h \in held :
        LET s == vm[h.request.blk] IN
        /\ s # NoSlot /\ cached[s] = h.request.blk
        /\ \A o \in h.request.reg : <<h.request.blk, o>> \notin Unwritten => <<s, o>> \in fresh

(* When other ranks may use a byte, or all may read it, home memory has    *)
(* its last value, and nothing that this rank still has in flight or       *)
(* writes back later overwrites what they have written since, or what the  *)
(* memory of a freed object is used for next.                              *)
HomeLatest == \A b \in Bytes : owner[b] = "theirs" \/ b \in readonly => b \in home

(* The last value of a byte is at home or on its way: in a slot that keeps *)
(* it dirty or puts it, or that the program still has checked out.         *)
NoLostWrite ==
    \A b \in Bytes \ (home \cup Unwritten) : \E s \in Slots :
        /\ cached[s] = b[1] /\ <<s, b[2]>> \in fresh
        /\ \/ b[2] \in dirty[s]
           \/ <<s, b[2]>> \in puts \/ <<s, b[2], TRUE>> \in wire
           \/ \E h \in held : h.written /\ b \in Part(h.request)

(* Operations in flight never overlap: "overlapping MPI_Put calls for the  *)
(* same location will cause undefined behaviour".  A byte is in at most    *)
(* one put, whose block is known to be writing back; nothing is fetched    *)
(* that is being put, and no fetch overwrites dirty bytes.                 *)
RmaDisjoint ==
    LET sent == {<<w[1], w[2]>> : w \in wire} IN
    /\ puts \cap sent = {} /\ Cardinality(sent) = Cardinality(wire)
    /\ \A p \in puts \cup sent : p[1] \in writing
    /\ Addr(gets) \cap Addr(puts \cup sent) = {}
    /\ \A p \in gets : p[2] \notin dirty[p[1]]

(* die("cache is exhausted (too much checked-out memory)") tells the       *)
(* truth: all blocks are checked out.                                      *)
DieOnlyIfExhausted == pc = "die" => \A s \in Slots : ref_count[s] > 0

================================================================================
