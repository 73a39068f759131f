------------------------------- MODULE Patterns -------------------------------
(* pattern/: the parallel algorithms, as functions on sequences.  A range     *)
(* [f, l) counts from 0.  A policy p gives the cutoff, the number of elements *)
(* checked out at a time, and which half of a fork is run first (p.late: the  *)
(* continuation was stolen and went ahead of the child); p.stolen is the set  *)
(* of ranges whose fork lost its continuation to a thief.  Elements are       *)
(* <<key, tag>>, compared by key; the comparison functions of the callers     *)
(* are this strict weak order.                                                *)
EXTENDS Integers, SequencesExt, FiniteSetsExt

comp(x, y) == x[1] < y[1]
at(a, i) == a[i + 1]
part(a, f, l) == SubSeq(a, f + 1, l)
splice(a, f, s) == [i \in DOMAIN a |-> IF i \in (f + 1) .. (f + Len(s)) THEN s[i - f] ELSE a[i]]
Keys(a) == [i \in DOMAIN a |-> a[i][1]]

(* std:: algorithms used at the leaves.                                       *)
std_stable_sort(a) == SortSeq([i \in DOMAIN a |-> <<a[i], i>>],
                              LAMBDA x, y : comp(x[1], y[1]) \/ (~comp(y[1], x[1]) /\ x[2] < y[2]))
sorted_stable(a) == [i \in DOMAIN a |-> std_stable_sort(a)[i][1]]
RECURSIVE std_inplace_merge(_, _)
std_inplace_merge(x, y) ==
    IF x = <<>> \/ y = <<>> THEN x \o y
    ELSE IF comp(y[1], x[1]) THEN <<y[1]>> \o std_inplace_merge(x, Tail(y))
    ELSE <<x[1]>> \o std_inplace_merge(Tail(x), y)

std_partition(a, T) == SelectSeq(a, LAMBDA x : x \in T) \o SelectSeq(a, LAMBDA x : x \notin T)
Minima(a) == {i \in DOMAIN a : \A j \in DOMAIN a : ~comp(a[j], a[i])}
Maxima(a) == {i \in DOMAIN a : \A j \in DOMAIN a : ~comp(a[i], a[j])}

(* parallel_invoke() of two calls, which is all the algorithms need: the      *)
(* order in which the calls take effect.                                      *)
parallel_invoke(p) == IF p.late THEN <<2, 1>> ELSE <<1, 2>>

(* The hints that parallel_invoke() of the tasks ts gives the scheduler, fork *)
(* by fork: the work of the task and that of all that follow.  A task is the  *)
(* work it was passed with, or NoHint; either all of them have it or none.    *)
NoHint == 0
count_num_tasks(ts) == Len(ts)
get_total_work(ts) == FoldLeft(+, 0, ts)

invoke_hints(ts) ==
    [i \in 1 .. (Len(ts) - 1) |->
       LET rest == SubSeq(ts, i + 1, Len(ts))
       IN IF ts[i] = NoHint THEN <<1, count_num_tasks(rest)>> ELSE <<ts[i], get_total_work(rest)>>]

--------------------------------------------------------------------------------
(* assert_policy(): the policies that pass the checks of the generic loops.   *)
assert_policy(p) == 0 < p.checkout /\ p.checkout <= p.cutoff

(* The further check at the leaves of inplace_merge(), stable_partition() and *)
(* random_partition(), which check out all of a leaf ("TODO: consider         *)
(* policy.checkout_count").  Failed, no range at all, is where a failed check *)
(* leads to.                                                                  *)
whole_leaves(p) == p.cutoff = p.checkout
Failed == <<>>

(* parallel_loop_generic() halves the range down to the cutoff, and           *)
(* for_each_aux() goes through a leaf in chunks of checkout_count.            *)
chunks(c, f, l) ==
    [i \in 1 .. ((l - f + c - 1) \div c) |-> <<f + (i - 1) * c, Min({f + i * c, l})>>]

for_each_aux(p, f, l) ==
    FlattenSeq([k \in DOMAIN chunks(p.checkout, f, l) |->
                  LET ch == chunks(p.checkout, f, l)[k]
                  IN [i \in 1 .. (ch[2] - ch[1]) |-> ch[1] + i - 1]])

RECURSIVE forks(_, _, _)
forks(c, f, l) ==
    LET mid == f + (l - f) \div 2
    IN IF l - f <= c THEN {} ELSE {<<f, l>>} \cup forks(c, f, mid) \cup forks(c, mid, l)

RECURSIVE loop(_, _, _)
loop(p, f, l) ==
    LET mid == f + (l - f) \div 2 IN
    IF l - f <= p.cutoff THEN for_each_aux(p, f, l)
    ELSE IF p.late THEN loop(p, mid, l) \o loop(p, f, mid) ELSE loop(p, f, mid) \o loop(p, mid, l)

(* loop_generic() of both kinds of policy, on which for_each() is built.      *)
loop_generic(seq, p, f, l) == IF seq THEN for_each_aux(p, f, l) ELSE loop(p, f, l)

for_each(seq, p, n) == loop_generic(seq, p, 0, n)

(* Work hints.  The tree t of a range is an array in preorder whose nodes     *)
(* hold the work of the two halves; a view is a part of it.                   *)
View(offset, size) == [offset |-> offset, size |-> size]
NoView == View(0, 0)
has_children(v) == v.size > 2
get_children(v) ==
    LET n == v.size - 1
    IN <<View(v.offset + 1, n \div 2), View(v.offset + n \div 2 + 1, n \div 2)>>

is_pow2(n) == n = 0 \/ \E k \in 0 .. n : n = 2 ^ k
next_pow2(n) == IF n = 0 THEN 0 ELSE Min({2 ^ k : k \in 0 .. n} \ (0 .. (n - 1)))

workhint_range(n_leaves) == [t |-> [i \in 1 .. (2 * n_leaves - 1) |-> <<0, 0>>], v |-> View(0, 2 * n_leaves - 1)]

(* create_workhint_range_aux(): fills the nodes of v with the sums of the     *)
(* weights work[i], below the last node too, where a range may be empty.      *)
RECURSIVE create_workhint_range_aux(_, _, _, _, _)
create_workhint_range_aux(work, t, v, f, l) ==
    LET mid == f + (l - f) \div 2
        c == IF has_children(v) THEN get_children(v) ELSE <<NoView, NoView>>
        r1 == create_workhint_range_aux(work, t, c[1], f, mid)
        r2 == create_workhint_range_aux(work, r1.t, c[2], mid, l)
    IN IF v.size = 0 THEN [t |-> t, w |-> FoldLeft(+, 0, part(work, f, l))]
       ELSE [t |-> [r2.t EXCEPT ![v.offset + 1] = <<r1.w, r2.w>>], w |-> r1.w + r2.w]

(* The number of leaves is given, or next_pow2() of the length.               *)
create_workhint_range(work, n_leaves) ==
    LET r == workhint_range(n_leaves)
    IN IF ~is_pow2(n_leaves) THEN [t |-> Failed, v |-> NoView]
       ELSE [r EXCEPT !.t = create_workhint_range_aux(work, r.t, r.v, 0, Len(work)).t]

create_workhint_range_full(work) == create_workhint_range(work, next_pow2(Len(work)))

get_workhint(t, v) == IF v.size = 0 THEN <<1, 1>> ELSE t[v.offset + 1]

get_child_policies(v) ==
    IF v.size = 0 THEN <<v, v>> ELSE IF has_children(v) THEN get_children(v) ELSE <<NoView, NoView>>

(* The forks of a loop over [f, l), each with the hint it gives the scheduler.*)
RECURSIVE hints(_, _, _, _, _)
hints(c, t, v, f, l) ==
    LET mid == f + (l - f) \div 2  ps == get_child_policies(v)
    IN IF l - f <= c THEN {}
       ELSE {<<f, l, get_workhint(t, v)>>} \cup hints(c, t, ps[1], f, mid) \cup hints(c, t, ps[2], mid, l)

(* transform(), of which copy() and fill() are instances: op of each element  *)
(* of src in [f, l) to dst from fd on.                                        *)
transform(p, src, f, l, dst, fd, op) ==
    FoldLeft(LAMBDA d, i : [d EXCEPT ![fd + i - f + 1] = op[at(src, i)]], dst, loop(p, f, l))

copy(p, src, f, l, dst, fd) == transform(p, src, f, l, dst, fd, [x \in ToSet(src) |-> x])
fill(p, f, l, dst, v) == transform(p, dst, f, l, dst, f, [x \in ToSet(dst) |-> v])

(* The second transform() zips two inputs; move() is a copy() that leaves the *)
(* source with values nobody relies on.                                       *)
MovedFrom == -1

transform_binary(p, src1, src2, dst, op) ==
    LET zip == Zip(src1, SubSeq(src2, 1, Len(src1))) IN transform(p, zip, 0, Len(zip), dst, 0, op)

move(p, src, f, l, dst, fd) ==
    [src |-> [i \in DOMAIN src |-> IF i \in (f + 1) .. l THEN MovedFrom ELSE src[i]],
     dst |-> copy(p, src, f, l, dst, fd)]

reverse_copy(p, src, dst) == copy(p, Reverse(src), 0, Len(src), dst, 0)

rotate_copy(p, src, mid, dst) ==
    FoldLeft(LAMBDA d, call : IF call = 1 THEN copy(p, src, mid, Len(src), d, 0)
                              ELSE copy(p, src, 0, mid, d, Len(src) - mid),
             dst, parallel_invoke(p))

swapped(a, i, j) ==
    [k \in DOMAIN a |-> IF k = i + 1 THEN at(a, j) ELSE IF k = j + 1 THEN at(a, i) ELSE a[k]]

reverse(p, a, f, l) ==
    FoldLeft(LAMBDA b, i : swapped(b, i, f + l - 1 - i), a, loop(p, f, f + (l - f) \div 2))

rotate(p, a, f, m, l) ==
    IF f = m THEN [a |-> a, it |-> l]
    ELSE IF m = l THEN [a |-> a, it |-> f]
    ELSE LET b == FoldLeft(LAMBDA x, call : IF call = 1 THEN reverse(p, x, f, m) ELSE reverse(p, x, m, l),
                           a, parallel_invoke(p))
         IN [a |-> reverse(p, b, f, l), it |-> f + (l - m)]

--------------------------------------------------------------------------------
(* find_split_points_for_merge(): where to cut two sorted ranges so that      *)
(* everything left of the cuts is no more than anything right of them; the    *)
(* search is over the longer range.  NoSplit is a failed ITYR_CHECK.          *)
NoSplit == <<-1, -1>>

RECURSIVE search_split(_, _, _, _, _, _, _)
search_split(a, f1, l1, f2, l2, low, high) ==
    LET m == (l1 - f1 + l2 - f2) \div 2
        it2 == low + (high - low) \div 2
        c2 == it2 - f2
        it1 == f1 + (m - c2)
        Left == IF high = it2 THEN NoSplit ELSE search_split(a, f1, l1, f2, l2, low, it2)
        Right == IF low = it2 + 1 THEN NoSplit ELSE search_split(a, f1, l1, f2, l2, it2 + 1, high)
        Inside == it1 \notin {f1, l1} /\ it2 \notin {f2, l2}
    IN IF low > high THEN NoSplit
       ELSE IF m <= c2 THEN IF comp(at(a, f1), at(a, it2 - 1)) THEN Left ELSE <<f1, it2>>
       ELSE IF m - c2 >= l1 - f1 THEN IF comp(at(a, it2), at(a, l1 - 1)) THEN Right ELSE <<l1, it2>>
       ELSE IF ~Inside THEN NoSplit
       ELSE IF comp(at(a, it2), at(a, it1 - 1)) THEN Right
       ELSE IF comp(at(a, it1), at(a, it2 - 1)) THEN Left ELSE <<it1, it2>>

find_split(a, f1, l1, f2, l2) ==
    LET it2 == f2 + (l1 - f1 + l2 - f2) \div 2 IN
    IF l1 - f1 = 1
    THEN IF it2 - 1 < f2 \/ it2 >= l2 THEN NoSplit
         ELSE <<IF comp(at(a, f1), at(a, it2)) THEN l1 ELSE f1, it2>>
    ELSE search_split(a, f1, l1, f2, l2, f2, l2)

find_split_points_for_merge(a, f1, l1, f2, l2) ==
    IF l1 - f1 > l2 - f2 THEN Reverse(find_split(a, f2, l2, f1, l1))
    ELSE find_split(a, f1, l1, f2, l2)

(* The adjustment of the cuts that keeps equal elements in their order: if    *)
(* they would be rotated past each other, one of the cuts moves.              *)
stable_split_None(a, f, m, s) == s

stable_split(a, f, m, s) ==
    LET r == at(a, s[1])  q == at(a, s[2] - 1)
        Until(i, j, P(_)) == Min({j} \cup {k \in i .. (j - 1) : ~P(at(a, k))})
    IN IF s[1] = m \/ s[2] = m \/ comp(r, q) \/ comp(q, r) THEN s
       ELSE IF s[1] = f THEN <<Until(s[1], m, LAMBDA x : ~comp(r, x)), s[2]>>
       ELSE <<s[1], Until(m, s[2], LAMBDA x : comp(x, q))>>

(* inplace_merge_aux()                                                        *)
RECURSIVE inplace_merge(_, _, _, _, _, _)
inplace_merge(p, stable, a, f, m, l) ==
    LET s0 == find_split_points_for_merge(a, f, m, m, l)
        s == IF stable THEN stable_split(a, f, m, s0) ELSE s0
        ro == rotate(p, a, s[1], m, s[2])
        Half(b, call) == IF b = Failed THEN b
                         ELSE IF call = 1 THEN inplace_merge(p, stable, b, f, s[1], ro.it)
                         ELSE inplace_merge(p, stable, b, ro.it, s[2], l)
    IN IF l - f <= 1 \/ f = m \/ m = l THEN a
       ELSE IF l - f <= p.cutoff
       THEN IF whole_leaves(p) THEN splice(a, f, std_inplace_merge(part(a, f, m), part(a, m, l))) ELSE Failed
       ELSE IF ~comp(at(a, m), at(a, m - 1)) THEN a
       ELSE IF comp(at(a, l - 1), at(a, f)) THEN rotate(p, a, f, m, l).a
       ELSE IF s0 = NoSplit \/ ro.it \notin (f + 1) .. (l - 1) THEN Failed
       ELSE FoldLeft(Half, ro.a, parallel_invoke(p))

RECURSIVE merge_sort(_, _, _, _, _)
merge_sort(p, stable, a, f, l) ==
    LET m == f + (l - f) \div 2
        Half(b, call) == IF b = Failed THEN b
                         ELSE IF call = 1 THEN merge_sort(p, stable, b, f, m)
                         ELSE merge_sort(p, stable, b, m, l)
        b0 == FoldLeft(Half, a, parallel_invoke(p))
    IN IF l - f <= 1 THEN a
       ELSE IF l - f <= p.cutoff THEN splice(a, f, sorted_stable(part(a, f, l)))
       ELSE IF b0 = Failed THEN b0 ELSE inplace_merge(p, stable, b0, f, m, l)

sort(p, a) == merge_sort(p, FALSE, a, 0, Len(a))

stable_sort(p, a) == merge_sort(p, TRUE, a, 0, Len(a))

--------------------------------------------------------------------------------
(* stable_partition_aux(), by membership in T; random_partition() is the same *)
(* with a coin for each element.                                              *)
RECURSIVE stable_partition(_, _, _, _, _)
stable_partition(p, a, f, l, T) ==
    LET mid == f + (l - f) \div 2
        Stop == [a |-> Failed, it |-> f]
        Half(r, call) ==
            LET h == IF call = 1 THEN stable_partition(p, r.a, f, mid, T)
                     ELSE stable_partition(p, r.a, mid, l, T)
            IN IF r.a = Failed THEN r ELSE [a |-> h.a, m |-> [r.m EXCEPT ![call] = h.it]]
        both == FoldLeft(Half, [a |-> a, m |-> <<f, mid>>], parallel_invoke(p))
    IN IF l - f <= p.cutoff
       THEN IF ~whole_leaves(p) THEN Stop
            ELSE [a |-> splice(a, f, std_partition(part(a, f, l), T)),
                  it |-> f + Len(SelectSeq(part(a, f, l), LAMBDA x : x \in T))]
       ELSE IF both.a = Failed THEN Stop
       ELSE rotate(p, both.a, both.m[1], mid, both.m[2])

(* shuffle(): all the sequences it can leave behind when the random numbers   *)
(* make no more than n partitions on the way to a leaf.                       *)
RECURSIVE shuffle(_, _, _, _, _)
shuffle(p, a, f, l, n) ==
    LET Half(it, S, call) ==
            UNION {IF b = Failed THEN {b} ELSE IF call = 1 THEN shuffle(p, b, f, it, n - 1)
                   ELSE shuffle(p, b, it, l, n - 1) : b \in S}
        Halves(r) == FoldLeft(LAMBDA S, call : Half(r.it, S, call), {r.a}, parallel_invoke(p))
    IN IF l - f <= 1 THEN {a}
       ELSE IF l - f <= p.cutoff THEN {splice(a, f, s) : s \in SetToSeqs(ToSet(part(a, f, l)))}
       ELSE IF n = 0 THEN {}
       ELSE UNION {Halves(stable_partition(p, a, f, l, T)) : T \in SUBSET ToSet(part(a, f, l))}

--------------------------------------------------------------------------------
(* search_aux(): the positions of a minimum and a maximum.  The leaf of       *)
(* minmax_element() is std::minmax_element, which takes the last maximum.     *)
search_leaf(both, s) ==
    [lo |-> Min(Minima(s)) - 1, hi |-> (IF both THEN Max(Maxima(s)) ELSE Min(Maxima(s))) - 1]

search_select(a, x, y) ==
    [lo |-> IF comp(at(a, y.lo), at(a, x.lo)) THEN y.lo ELSE x.lo,
     hi |-> IF comp(at(a, x.hi), at(a, y.hi)) THEN y.hi ELSE x.hi]

RECURSIVE search_aux(_, _, _, _, _)
search_aux(p, both, a, f, l) ==
    LET mid == f + (l - f) \div 2
        leaf == search_leaf(both, part(a, f, l))
    IN IF l - f <= p.cutoff THEN [lo |-> f + leaf.lo, hi |-> f + leaf.hi]
       ELSE search_select(a, search_aux(p, both, a, f, mid), search_aux(p, both, a, mid, l))

search(p, both, a) == IF Len(a) <= 1 THEN [lo |-> 0, hi |-> 0] ELSE search_aux(p, both, a, 0, Len(a))

--------------------------------------------------------------------------------
(* The reducers over unsigned words of three bits.  Folding is a homomorphism *)
(* from sequences to their accumulators, which is what carries the results    *)
(* over the free monoid below to every one of them.                           *)
Reducers == {"plus", "multiplies", "min", "max", "minmax", "logical_and", "logical_or"}
Word == 8

reducer_values(k) == IF k \in {"logical_and", "logical_or"} THEN BOOLEAN ELSE {0, 1, 3, Word - 1}

reducer_identity(k) ==
    CASE k = "plus" -> 0           [] k = "multiplies" -> 1
      [] k = "min" -> Word - 1     [] k = "max" -> 0
      [] k = "logical_and" -> TRUE [] k = "logical_or" -> FALSE
      [] k = "minmax" -> <<Word - 1, 0>>

(* x and y are accumulators; a value of minmax is the pair of it with itself. *)
reducer_op(k, x, y) ==
    CASE k = "plus" -> (x + y) % Word   [] k = "multiplies" -> (x * y) % Word
      [] k = "min" -> Min({x, y})       [] k = "max" -> Max({x, y})
      [] k = "logical_and" -> x /\ y    [] k = "logical_or" -> x \/ y
      [] k = "minmax" -> <<Min({x[1], y[1]}), Max({x[2], y[2]})>>

folded(k, s) ==
    FoldLeft(LAMBDA x, v : reducer_op(k, x, IF k = "minmax" THEN <<v, v>> ELSE v), reducer_identity(k), s)

ReducerSound(k, s, t) == folded(k, s \o t) = reducer_op(k, folded(k, s), folded(k, t))

vec_concat(x, y) == x \o y

(* parallel_reduce_generic() over the free monoid (the vec_concat reducer):   *)
(* where the continuation stayed with its child the accumulator is threaded   *)
(* through, where it was stolen the right half starts from the identity and   *)
(* is combined after the join.  d is the output of the scans, whose           *)
(* combine_op puts the left accumulator before each element of the right half.*)
combine_Half(p, x, y, mid, l) == [acc |-> vec_concat(x.acc, y.acc), d |-> y.d]

combine(p, x, y, mid, l) ==
    [acc |-> vec_concat(x.acc, y.acc),
     d |-> FoldLeft(LAMBDA d, i : [d EXCEPT ![i + 1] = vec_concat(x.acc, @)], y.d, loop(p, mid, l))]

accumulate(r, i, x) ==
    [acc |-> vec_concat(r.acc, <<x>>), d |-> [r.d EXCEPT ![i + 1] = vec_concat(r.acc, <<x>>)]]

RECURSIVE reduce_generic(_, _, _, _, _)
reduce_generic(p, a, r, f, l) ==
    LET mid == f + (l - f) \div 2
        left == reduce_generic(p, a, r, f, mid)
        Empty == [acc |-> <<>>, d |-> left.d]
    IN IF l - f <= p.cutoff THEN FoldLeft(LAMBDA q, i : accumulate(q, i, at(a, i)), r, for_each_aux(p, f, l))
       ELSE IF <<f, l>> \notin p.stolen THEN reduce_generic(p, a, left, mid, l)
       ELSE combine(p, left, reduce_generic(p, a, Empty, mid, l), mid, l)

transform_inclusive_scan(p, a, init, op) ==
    reduce_generic(p, [i \in DOMAIN a |-> op[a[i]]],
                   [acc |-> init, d |-> [i \in DOMAIN a |-> <<>>]], 0, Len(a))

inclusive_scan(p, a, init) == transform_inclusive_scan(p, a, init, [x \in ToSet(a) |-> x]).d

(* transform_reduce() and reduce() go the same way without an output; equal() *)
(* and is_sorted() use the logical reducers.                                  *)
transform_reduce(p, a, init, op) == transform_inclusive_scan(p, a, init, op).acc

reduce(p, a, init) == transform_reduce(p, a, init, [x \in ToSet(a) |-> x])

transform_reduce_binary(p, a, b, init, op) ==
    transform_reduce(p, Zip(a, SubSeq(b, 1, Len(a))), init, op)

equal_first(p, a, b) ==
    FALSE \notin ToSet(transform_reduce_binary(p, a, b, <<>>, [x \in ToSet(a) \X ToSet(b) |-> x[1] = x[2]]))

equal(p, a, b) == Len(a) = Len(b) /\ equal_first(p, a, b)

is_sorted(p, a) ==
    \/ Len(a) <= 1
    \/ TRUE \notin ToSet(transform_reduce_binary(p, Tail(a), a, <<>>,
                                                 [x \in ToSet(a) \X ToSet(a) |-> comp(x[1], x[2])]))

================================================================================
