----------------------------- MODULE HomeManager ------------------------------
(* ori/home_manager.hpp with cache_system.hpp, tlb.hpp and the collective    *)
(* half of core_default: how the process of node Me maps the parts of a      *)
(* collective memory that are at home there. Only HomeEntries segments are   *)
(* mapped at a time. Parts that are at home elsewhere go to the cache (Cache-*)
(* Manager) and are left out here. Memory that is allocated after a free()   *)
(* may get the same addresses: cm is the mapper of what is there now.        *)
EXTENDS MemMapper

CONSTANTS Me, HomeEntries, TlbSize,
          Mappers,      \* what malloc_coll() may be asked for
          Regions,      \* regions <<b, e>> that the program accesses
          NoSeg

VARIABLES cm,           \* the collective memory, or NoSeg
          entries,      \* mmap_entry of each slot of cs_
          lru,          \* slots, least recently used first
          tlb,          \* home_tlb_: slots in use and their order of use
          vmap,         \* segments that are mapped in the address space
          checkouts,    \* regions that are checked out, with repetitions
          torn,         \* an access met a segment that was not mapped
          exhausted     \* die(): home segments are exhausted
homeVars == <<cm, entries, lru, tlb, vmap, checkouts, torn, exhausted>>

--------------------------------------------------------------------------------
Slots == 1 .. HomeEntries
FreshEntry == [allocated |-> FALSE, addr |-> NoSeg, mapped |-> NoSeg, ref |-> 0]
DummyEntry == 0          \* mmap_entry_dummy_
EmptyTlb == [slot |-> <<>>, age |-> <<>>]

(* The state that an operation works on; todo is home_segments_to_map_.      *)
Home == [entries |-> entries, lru |-> lru, tlb |-> tlb, vmap |-> vmap, todo |-> <<>>, ok |-> TRUE]

home_all_mapped(m) == m.ranks = 1 \/ should_map_all_home(m)

SegmentsOf(m, rg) == SelectSeq(for_each_mem_segment(m, rg[1], rg[2]), LAMBDA s : s.owner = Me)
HomeSegments(m) == ToSet(SegmentsOf(m, <<0, m.size>>))

(* tlb::add() and tlb::get(): the last slot that covers the region.          *)
tlb_touch(t, i) == [t EXCEPT !.age = Append(SelectSeq(@, LAMBDA j : j # i), i)]

tlb_add(t, s, i) ==
    LET k == IF Len(t.slot) < TlbSize THEN Len(t.slot) + 1 ELSE Head(t.age)
    IN tlb_touch([t EXCEPT !.slot = IF k > Len(@) THEN Append(@, [seg |-> s, me |-> i])
                                    ELSE [@ EXCEPT ![k] = [seg |-> s, me |-> i]]], k)

tlb_get(t, rg) ==
    SelectLastInSeq(t.slot, LAMBDA x : x.seg.b <= rg[1] /\ rg[2] <= x.seg.e)

(* cache_system: look the key up or take the first slot that can be had.     *)
SlotOf(h, s) == {i \in Slots : h.entries[i].allocated /\ h.entries[i].addr.b = s.b}
move_to_back_lru(h, i) == [h EXCEPT !.lru = Append(SelectSeq(@, LAMBDA j : j # i), i)]
is_evictable(me) == me.ref = 0

get_empty_slot(h) == SelectInSeq(h.lru, LAMBDA i : ~h.entries[i].allocated \/ is_evictable(h.entries[i]))

on_evict(h, i) ==
    IF h.entries[i].allocated THEN [h EXCEPT !.tlb = EmptyTlb, !.entries[i].allocated = FALSE] ELSE h

(* checkout_seg(): the segment is only mapped when the checkout completes. A *)
(* slot is mapped already if it is mapped at the same address, mapped_addr.  *)
mmap_hit(me, s) == me.mapped # NoSeg /\ me.mapped.b = s.b

checkout_seg(h, m, s, inc) ==
    LET hit == SlotOf(h, s)
        k   == get_empty_slot(h)
        i   == IF hit # {} THEN CHOOSE j \in hit : TRUE ELSE h.lru[k]
        g   == move_to_back_lru(IF hit # {} THEN h ELSE on_evict(h, i), i)
        old == mmap_hit(g.entries[i], s)
    IN CASE home_all_mapped(m) -> [h EXCEPT !.tlb = tlb_add(@, s, DummyEntry)]
         [] ~home_all_mapped(m) /\ hit = {} /\ k = 0 -> [h EXCEPT !.ok = FALSE]
         [] OTHER ->
              [g EXCEPT !.entries[i] = [allocated |-> TRUE, addr |-> IF old THEN @.addr ELSE s,
                                        mapped |-> @.mapped, ref |-> @.ref + inc],
                        !.todo = IF old THEN @ ELSE Append(@, i),
                        !.tlb = tlb_add(@, s, i)]

(* checkout_coll_nb() and checkin_coll(): by the TLB, else by the segments.  *)
AddRef(h, i, n) == IF i = DummyEntry THEN h ELSE [h EXCEPT !.entries[i].ref = @ + n]

checkout_coll_nb(h, m, rg, inc) ==
    LET f == tlb_get(h.tlb, rg)
    IN IF f # 0 THEN [AddRef(h, h.tlb.slot[f].me, inc) EXCEPT !.tlb = tlb_touch(@, f)]
       ELSE FoldLeft(LAMBDA g, s : IF g.ok THEN checkout_seg(g, m, s, inc) ELSE g,
                     h, SegmentsOf(m, rg))

checkin_seg(h, m, s, dec) ==
    IF home_all_mapped(m) THEN h ELSE AddRef(h, CHOOSE i \in SlotOf(h, s) : TRUE, -dec)

checkin_coll(h, m, rg, dec) ==
    LET f == tlb_get(h.tlb, rg)
    IN IF f # 0 THEN [AddRef(h, h.tlb.slot[f].me, -dec) EXCEPT !.tlb = tlb_touch(@, f)]
       ELSE FoldLeft(LAMBDA g, s : checkin_seg(g, m, s, dec), h, SegmentsOf(m, rg))

(* checkout_complete(): unmap what the slot had mapped before, then map.     *)
update_mapping(h, i) ==
    [h EXCEPT !.vmap = (@ \ {h.entries[i].mapped}) \cup {h.entries[i].addr},
              !.entries[i].mapped = h.entries[i].addr]

checkout_complete_Reversed(h) ==
    [FoldLeft(update_mapping, h, Reverse(h.todo)) EXCEPT !.todo = <<>>]

checkout_complete(h) ==
    [FoldLeft(update_mapping, h, h.todo) EXCEPT !.todo = <<>>]

--------------------------------------------------------------------------------
HomeInit ==
    /\ cm = NoSeg /\ vmap = {} /\ torn = FALSE /\ exhausted = FALSE
    /\ entries = [i \in Slots |-> FreshEntry]
    /\ lru = [i \in Slots |-> i]
    /\ tlb = EmptyTlb
    /\ checkouts = <<>>

SetHome(h) == entries' = h.entries /\ lru' = h.lru /\ tlb' = h.tlb /\ vmap' = h.vmap

Mapped(h, m, rg) == ToSet(SegmentsOf(m, rg)) \subseteq h.vmap

(* More segments are needed at once than there are entries.                  *)
Needed(m, rgs) == UNION {ToSet(SegmentsOf(m, rgs[i])) : i \in DOMAIN rgs}
TooMany(m, rgs) == Cardinality(Needed(m, rgs)) > HomeEntries

MallocColl(m) ==
    /\ cm = NoSeg
    /\ cm' = m
    /\ vmap' = IF home_all_mapped(m) THEN HomeSegments(m) ELSE {}
    /\ UNCHANGED <<entries, lru, tlb, checkouts, torn, exhausted>>

(* free_coll(): evict what is left of the memory, forget the TLB, unmap.     *)
ensure_evicted(me) == IF me.allocated THEN FreshEntry ELSE me

FreeColl ==
    /\ cm # NoSeg /\ checkouts = <<>>
    /\ cm' = NoSeg /\ vmap' = {} /\ tlb' = EmptyTlb
    /\ entries' = [i \in Slots |-> ensure_evicted(entries[i])]
    /\ UNCHANGED <<lru, checkouts, torn, exhausted>>

(* get() and put() copy. Within a block they take no reference.              *)
GetPut(rg, put) ==
    /\ cm # NoSeg
    /\ LET small == rg[1] \div cm.bs = rg[2] \div cm.bs
           ref   == IF small THEN 0 ELSE 1
           nb    == checkout_coll_nb(Home, cm, rg, ref)
           h     == checkout_complete(nb)
       IN /\ SetHome(IF ~nb.ok THEN Home
                     ELSE IF small /\ ~put THEN h ELSE checkin_coll(h, cm, rg, ref))
          /\ exhausted' = ~nb.ok
          /\ torn' = (torn \/ IF nb.ok THEN ~Mapped(h, cm, rg)
                              ELSE ~TooMany(cm, Append(checkouts, rg)))
    /\ UNCHANGED <<cm, checkouts>>

HomeNext ==
    \/ \E m \in Mappers : MallocColl(m)
    \/ FreeColl
    \/ \E rg \in Regions, put \in BOOLEAN : GetPut(rg, put)

--------------------------------------------------------------------------------
(* Whatever is checked out is mapped, at the offset that the mapper of the   *)
(* memory that is there now gives, and was mapped when get() or put() copied *)
(* it: no eviction, no stale TLB entry and no order of remapping within a    *)
(* checkout takes it away. No more segments are mapped than entries allow,   *)
(* references count the checkouts, and the process only dies if more is      *)
(* needed at once than there are entries.                                    *)
SegmentsMapped ==
    /\ ~torn
    /\ \A i \in DOMAIN checkouts : Mapped(Home, cm, checkouts[i])
    /\ cm # NoSeg => vmap \subseteq HomeSegments(cm)
    /\ cm # NoSeg /\ ~home_all_mapped(cm) =>
         /\ vmap = {entries[i].mapped : i \in Slots} \ {NoSeg}
         /\ \A i \in Slots : LET s == entries[i].addr IN
              /\ entries[i].allocated => entries[i].mapped = s
              /\ entries[i].ref = Cardinality({k \in DOMAIN checkouts :
                                    s \in ToSet(SegmentsOf(cm, checkouts[k]))})

================================================================================
