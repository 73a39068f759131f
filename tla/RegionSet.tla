------------------------------ MODULE RegionSet -------------------------------
(* ori/block_region_set.hpp: sets of bytes as sorted lists of regions        *)
(* [b, e), with which the cache keeps what is valid and what is dirty.       *)
(* CacheManager uses the sets themselves.                                    *)
EXTENDS Integers, SequencesExt, FiniteSetsExt

Region(b, e) == [b |-> b, e |-> e]
overlap(r, s) == r.b < s.e /\ s.b < r.e
get_union(r, s) == Region(Min({r.b, s.b}), Max({r.e, s.e}))
get_intersection(r, s) == Region(Max({r.b, s.b}), Min({r.e, s.e}))

(* add(): skip what ends before r, insert or merge, then merge with what     *)
(* follows as long as it touches.                                            *)
rs_add_Once(rs, r) ==
    LET i == SelectInSeq(rs, LAMBDA s : ~(s.e < r.b))
    IN CASE i = 0 -> Append(rs, r)
         [] i # 0 /\ r.e < rs[i].b -> InsertAt(rs, i, r)
         [] OTHER -> [rs EXCEPT ![i] = get_union(rs[i], r)]

rs_add(rs, r) ==
    LET i == SelectInSeq(rs, LAMBDA s : ~(s.e < r.b))
        Absorb(acc, s) == IF Last(acc).e >= s.b
                          THEN Append(Front(acc), get_union(Last(acc), s)) ELSE Append(acc, s)
    IN CASE i = 0 -> Append(rs, r)
         [] i # 0 /\ r.e < rs[i].b -> InsertAt(rs, i, r)
         [] OTHER -> SubSeq(rs, 1, i - 1) \o
                     FoldLeft(Absorb, <<get_union(rs[i], r)>>, SubSeq(rs, i + 1, Len(rs)))

(* remove(): what of each region lies to the left and to the right of r.     *)
rs_remove(rs, r) ==
    LET Rest(s) == CASE ~overlap(s, r) -> <<s>>
                     [] overlap(s, r) /\ r.b <= s.b /\ s.e <= r.e -> <<>>
                     [] overlap(s, r) /\ r.b <= s.b /\ r.e < s.e -> <<Region(r.e, s.e)>>
                     [] overlap(s, r) /\ s.b < r.b /\ s.e <= r.e -> <<Region(s.b, r.b)>>
                     [] OTHER -> <<Region(s.b, r.b), Region(r.e, s.e)>>
    IN FlattenSeq([i \in DOMAIN rs |-> Rest(rs[i])])

rs_include(rs, r) ==
    \E i \in DOMAIN rs : r.e <= rs[i].e /\ \A j \in 1 .. i : rs[j].b <= r.b

(* complement(): the gaps of rs inside r; x is the rest of r still to do.    *)
rs_complement(rs, r) ==
    LET Gap(acc, s) ==
          IF acc.x.b >= acc.x.e THEN acc
          ELSE [out |-> IF acc.x.b < s.b
                        THEN Append(acc.out, Region(acc.x.b, Min({s.b, acc.x.e}))) ELSE acc.out,
                x |-> IF acc.x.b < s.e THEN Region(s.e, acc.x.e) ELSE acc.x]
        end == FoldLeft(Gap, [out |-> <<>>, x |-> r], rs)
    IN IF end.x.b < end.x.e THEN Append(end.out, end.x) ELSE end.out

rs_intersection(rs, r) ==
    LET hit == SelectSeq(rs, LAMBDA s : overlap(s, r))
    IN [i \in DOMAIN hit |-> get_intersection(hit[i], r)]

(* intersection() of two sets walks both, past the one that ends first.      *)
RECURSIVE rs_intersection2(_, _)
rs_intersection2(rs, qs) ==
    IF rs = <<>> \/ qs = <<>> THEN <<>>
    ELSE LET r == Head(rs)  q == Head(qs) IN
         (IF overlap(r, q) THEN <<get_intersection(r, q)>> ELSE <<>>) \o
         (IF r.e <= q.e THEN rs_intersection2(Tail(rs), qs) ELSE rs_intersection2(rs, Tail(qs)))

--------------------------------------------------------------------------------
Bytes(rs) == UNION {rs[i].b .. (rs[i].e - 1) : i \in DOMAIN rs}

Sorted(rs) ==
    /\ \A i \in DOMAIN rs : rs[i].b < rs[i].e
    /\ \A i \in 1 .. (Len(rs) - 1) : rs[i].e < rs[i + 1].b

(* The list that stands for a set of bytes.                                  *)
RegionsOf(S) ==
    LET starts == {b \in S : b - 1 \notin S}
        EndAt(b) == Min({e \in b .. (b + Cardinality(S)) : e \notin S})
    IN [i \in 1 .. Cardinality(starts) |->
          LET b == SetToSortSeq(starts, <)[i] IN Region(b, EndAt(b))]

(* The operations on the lists are the operations on the sets of bytes.      *)
RegionsSound(S, T, r) ==
    LET rs == RegionsOf(S)  qs == RegionsOf(T)  R == r.b .. (r.e - 1) IN
    /\ Bytes(rs_add(rs, r)) = S \cup R /\ Sorted(rs_add(rs, r))
    /\ Bytes(rs_remove(rs, r)) = S \ R /\ Sorted(rs_remove(rs, r))
    /\ rs_include(rs, r) <=> R \subseteq S
    /\ Bytes(rs_complement(rs, r)) = R \ S /\ Sorted(rs_complement(rs, r))
    /\ Bytes(rs_intersection(rs, r)) = S \cap R /\ Sorted(rs_intersection(rs, r))
    /\ Bytes(rs_intersection2(rs, qs)) = S \cap T /\ Sorted(rs_intersection2(rs, qs))

================================================================================
