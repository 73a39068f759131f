------------------------------ MODULE MemMapper -------------------------------
(* ori/mem_mapper.hpp: which node keeps which part of a collective memory,   *)
(* and the walks of coll_mem.hpp and core.hpp over the parts of a region.    *)
(* A mapper m is [kind, size, ranks (nodes), intra (ranks of a node), bs     *)
(* (BlockSize), seg (segment size of cyclic)].                               *)
EXTENDS Integers, SequencesExt, FiniteSetsExt

CeilDiv(a, b) == (a + b - 1) \div b
AtLeast1(n) == IF n > 0 THEN n ELSE 1

n_blk(m) == CeilDiv(m.size, m.bs)

(* Split n blocks among k parts: block rounds up, block_adws rounds down and *)
(* counts the ranks from the other end.                                      *)
split_up(i, n, k)   == <<CeilDiv(i * n, k), CeilDiv((i + 1) * n, k)>>
split_down(i, n, k) == <<(i * n) \div k, ((i + 1) * n) \div k>>

part_up(b, n, k) == (b * k) \div n
part_down(b, n, k) == CeilDiv((b + 1) * k, n) - 1

get_seg_range(m, seg_id) ==
    IF m.kind = "block" THEN split_up(seg_id, n_blk(m), m.ranks)
    ELSE split_down(seg_id, n_blk(m), m.ranks)

(* local_size(): the physical memory of a node is never empty.               *)
BlockLocal(m, rg) == AtLeast1(rg[2] - rg[1]) * m.bs

local_size(m, rank) ==
    CASE m.kind = "block"  -> BlockLocal(m, get_seg_range(m, rank))
      [] m.kind = "adws"   -> BlockLocal(m, get_seg_range(m, m.ranks - rank - 1))
      [] m.kind = "cyclic" -> CeilDiv(CeilDiv(m.size, m.seg), m.ranks) * m.seg

effective_size(m) ==
    IF m.kind = "cyclic" THEN local_size(m, 0) * m.ranks ELSE n_blk(m) * m.bs

Segment(owner, b, e, pm) == [owner |-> owner, b |-> b, e |-> e, pm |-> pm]

get_segment_block(m, offset) ==
    LET id == part_up(offset \div m.bs, n_blk(m), m.ranks)
        rg == get_seg_range(m, id)
    IN Segment(id, rg[1] * m.bs, rg[2] * m.bs, 0)

get_segment_adws(m, offset) ==
    LET id == part_down(offset \div m.bs, n_blk(m), m.ranks)
        rg == get_seg_range(m, id)
    IN Segment(m.ranks - id - 1, rg[1] * m.bs, rg[2] * m.bs, 0)

get_segment_cyclic(m, offset) ==
    LET g == offset \div m.seg
    IN Segment(g % m.ranks, g * m.seg, (g + 1) * m.seg, (g \div m.ranks) * m.seg)

get_segment(m, offset) ==
    CASE m.kind = "block"  -> get_segment_block(m, offset)
      [] m.kind = "adws"   -> get_segment_adws(m, offset)
      [] m.kind = "cyclic" -> get_segment_cyclic(m, offset)

(* The rank of the node next to whose memory a part should be; -1: any.      *)
NumaSegment(m, owner, rg) == [owner |-> owner, b |-> rg[1] * m.bs, e |-> rg[2] * m.bs]

get_numa_segment(m, rank, pm) ==
    LET n  == CeilDiv(local_size(m, rank), m.bs)
        up == part_up(pm \div m.bs, n, m.intra)
        dn == part_down(pm \div m.bs, n, m.intra)
    IN CASE m.kind = "block"  -> NumaSegment(m, up, split_up(up, n, m.intra))
         [] m.kind = "adws"   -> NumaSegment(m, m.intra - dn - 1, split_down(dn, n, m.intra))
         [] m.kind = "cyclic" -> [owner |-> -1, b |-> 0, e |-> local_size(m, rank)]

should_map_all_home(m) == m.kind # "cyclic"

--------------------------------------------------------------------------------
(* The walks. Each goes on from the end of the part that it has found.       *)
RECURSIVE for_each_mem_segment(_, _, _)
for_each_mem_segment(m, b, e) ==
    IF b >= e THEN <<>>
    ELSE LET s == get_segment(m, b) IN <<s>> \o for_each_mem_segment(m, s.e, e)

RECURSIVE numa_segments(_, _, _)
numa_segments(m, rank, pm) ==
    IF pm >= local_size(m, rank) THEN <<>>
    ELSE LET s == get_numa_segment(m, rank, pm) IN <<s>> \o numa_segments(m, rank, s.e)

(* for_each_block(): the blocks of [b, e) with the bytes asked for in each.  *)
for_each_block(bs, b, e) ==
    LET first == (b \div bs) * bs
    IN [i \in 1 .. CeilDiv(e - first, bs) |->
          LET k == first + (i - 1) * bs IN [blk |-> k, b |-> Max({b, k}), e |-> Min({e, k + bs})]]

(* for_each_seg_blk(): home segments of node me as a whole, the segments of  *)
(* other nodes block by block, with the offset at which the owner keeps it.  *)
for_each_seg_blk(m, me, b, e) ==
    LET Visit(s) ==
          IF s.owner = me THEN <<[home |-> TRUE, seg |-> s]>>
          ELSE LET blks == for_each_block(m.bs, Max({s.b, b}), Min({s.e, e}))
               IN [i \in DOMAIN blks |->
                     [home |-> FALSE, blk |-> blks[i], owner |-> s.owner,
                      pm |-> s.pm + (blks[i].blk - s.b)]]
    IN FlattenSeq([i \in DOMAIN for_each_mem_segment(m, b, e) |->
                     Visit(for_each_mem_segment(m, b, e)[i])])

(* The bytes of [b, e) and their places <<node, byte of its memory>> when    *)
(* node me copies each part from or to its home memory or the owner's window.*)
copied(m, me, b, e) ==
    LET Places(x) ==
          IF x.home
          THEN {<<o, <<me, x.seg.pm + (o - x.seg.b)>> >> : o \in Max({b, x.seg.b}) .. (Min({x.seg.e, e}) - 1)}
          ELSE {<<o, <<x.owner, x.pm + (o - x.blk.blk)>> >> : o \in x.blk.b .. (x.blk.e - 1)}
    IN UNION {Places(x) : x \in ToSet(for_each_seg_blk(m, me, b, e))}

(* get_coll() of core_nocache: where each byte of the buffer comes from, and *)
(* put_coll(): which byte of the buffer each place gets.                     *)
get_coll(m, me, b, e) == [o \in b .. (e - 1) |-> {c[2] : c \in {d \in copied(m, me, b, e) : d[1] = o}}]

put_coll(m, me, b, e) ==
    [at \in {c[2] : c \in copied(m, me, b, e)} |-> {c[1] : c \in {d \in copied(m, me, b, e) : d[2] = at}}]

(* get_noncoll() and put_noncoll(), of memory that has one owner: at once if *)
(* it can be reached, else block by block, by the displacement of the block. *)
get_noncoll(bs, reachable, b, e) ==
    [o \in b .. (e - 1) |->
       IF reachable THEN {o}
       ELSE {k.blk + (k.b - k.blk) + (o - k.b) :
               k \in {x \in ToSet(for_each_block(bs, b, e)) : x.b <= o /\ o < x.e}}]

put_noncoll(bs, reachable, b, e) ==
    [at \in b .. (e - 1) |->
       IF reachable THEN {at}
       ELSE {b + (k.b - b) + (at - (k.blk + (k.b - k.blk))) :
               k \in {x \in ToSet(for_each_block(bs, b, e)) : x.b <= at /\ at < x.e}}]

--------------------------------------------------------------------------------
(* What a mapper promises. The segments that the walk finds partition the    *)
(* memory, each lies within the physical memory of its owner, no two share   *)
(* bytes of it, and parts of a node's memory partition that memory.          *)
Tiles(s, size) ==
    /\ s # <<>> /\ s[1].b = 0 /\ Last(s).e >= size
    /\ \A i \in DOMAIN s : s[i].b < s[i].e
    /\ \A i \in 1 .. (Len(s) - 1) : s[i].e = s[i + 1].b

MapperSound(m) ==
    LET segs == for_each_mem_segment(m, 0, m.size) IN
    /\ Tiles(segs, m.size)
    /\ \A i \in DOMAIN segs : LET s == segs[i] IN
          /\ s.owner \in 0 .. (m.ranks - 1)
          /\ s.e <= effective_size(m) /\ s.pm + (s.e - s.b) <= local_size(m, s.owner)
          /\ \A o \in s.b .. (s.e - 1) : get_segment(m, o) = s
    /\ \A r \in 0 .. (m.ranks - 1) :
          /\ Tiles(numa_segments(m, r, 0), local_size(m, r))
          /\ Last(numa_segments(m, r, 0)).e = local_size(m, r)

(* Every node finds every byte at one and the same place, and no two bytes   *)
(* at one place, whatever part of them is home to it; what one node puts     *)
(* there, and nothing else, is what every node gets.                         *)
CopySound(m) ==
    LET whole == get_coll(m, 0, 0, m.size)
        bytes(b, e) == [o \in b .. (e - 1) |-> {o}] IN
    /\ \A o \in DOMAIN whole : Cardinality(whole[o]) = 1
    /\ \A o, p \in DOMAIN whole : o # p => whole[o] # whole[p]
    /\ \A me \in 0 .. (m.ranks - 1), b, e \in 0 .. m.size : b < e =>
          /\ get_coll(m, me, b, e) = [o \in b .. (e - 1) |-> whole[o]]
          /\ LET put == put_coll(m, me, b, e)
             IN [o \in b .. (e - 1) |-> UNION {put[at] : at \in whole[o] \cap DOMAIN put}] = bytes(b, e)
          /\ DOMAIN put_coll(m, me, b, e) = UNION {whole[o] : o \in b .. (e - 1)}
    /\ \A b, e \in 0 .. m.size, reachable \in BOOLEAN : b < e =>
          /\ get_noncoll(m.bs, reachable, b, e) = bytes(b, e)
          /\ put_noncoll(m.bs, reachable, b, e) = bytes(b, e)

================================================================================
