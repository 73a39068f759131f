------------------------------- MODULE Library --------------------------------
(* The layers above the scheduler and the cache.  A behaviour is about one of *)
(* them: "memory" is allocation and global vectors, "home" the mapping of     *)
(* home segments, "fences" the patterns with respect to the caches; in        *)
(* "calls" the pure parts are called on all small arguments, and result has   *)
(* the arguments and the outcome of the call.                                 *)
EXTENDS GlobalVector, CheckoutSpan, ForkJoin

Pat == INSTANCE Patterns
Reg == INSTANCE RegionSet

CONSTANTS ElemKeys,    \* keys of the elements
          MaxMerge,    \* length of each half of a merge
          MaxSort,     \* length of a range to be sorted
          MaxRange,    \* length of the ranges of the other algorithms
          MaxHinted,   \* length of the ranges with work hints
          MaxCutoff,
          MaxByte,     \* addresses of the free lists and region sets
          MaxMemory    \* size of the collective memories

ASSUME LibraryAssumption == {MaxMerge, MaxSort, MaxRange, MaxHinted, MaxCutoff, MaxByte, MaxMemory} \subseteq Nat

VARIABLES layer, result

Tagged(ks) == [i \in DOMAIN ks |-> <<ks[i], i>>]
KeySeqs(n) == [1 .. n -> ElemKeys]
Ascending(n) == {ks \in KeySeqs(n) : \A i \in 1 .. (n - 1) : ks[i] <= ks[i + 1]}
Policies(c, d, S) ==
    {p \in [cutoff : {c}, checkout : {d}, late : BOOLEAN, stolen : S] : Pat!assert_policy(p)}

Answer(algo, in, out) == result' = [algo |-> algo, in |-> in, out |-> out]

(* What the algorithms that work on whole leaves were called with.            *)
Asked(in, p) == [in |-> in, whole |-> Pat!whole_leaves(p)]

CallMerge ==
    \E n1, n2 \in 0 .. MaxMerge, c, d \in 1 .. MaxCutoff, stable \in BOOLEAN :
    \E p \in Policies(c, d, {{}}), x \in Ascending(n1), y \in Ascending(n2) :
        LET a == Tagged(x \o y) IN
        Answer(IF stable THEN "stable" ELSE "sort", Asked(a, p), Pat!inplace_merge(p, stable, a, 0, n1, n1 + n2))

CallSort ==
    \E n \in 0 .. MaxSort, c, d \in 1 .. MaxCutoff, stable \in BOOLEAN :
    \E p \in Policies(c, d, {{}}), x \in KeySeqs(n) :
        LET a == Tagged(x) IN
        Answer(IF stable THEN "stable" ELSE "sort", Asked(a, p), IF stable THEN Pat!stable_sort(p, a) ELSE Pat!sort(p, a))

Zeros(n) == [i \in 1 .. n |-> 0]

CallRotate ==
    \E n \in 1 .. MaxRange, c, d \in 1 .. MaxCutoff : \E p \in Policies(c, d, {{}}), f, m, l \in 0 .. n :
        LET a == [i \in 1 .. n |-> i] IN
        /\ f <= m /\ m <= l
        /\ Answer("rotate", <<a, f, m, l>>,
                  [rotated |-> Pat!rotate(p, a, f, m, l), copied |-> Pat!rotate_copy(p, a, m, a),
                   reversed |-> Pat!reverse_copy(p, a, a), filled |-> Pat!fill(p, f, l, a, 0),
                   moved |-> Pat!move(p, a, f, m, Zeros(n), l - m),
                   summed |-> Pat!transform_binary(p, a, Append(Reverse(a), 0), Zeros(n),
                                                   [x \in (1 .. n) \X (1 .. n) |-> x[1] + x[2]])])

CallPartition ==
    \E n \in 1 .. MaxRange, c, d \in 1 .. MaxCutoff : \E p \in Policies(c, d, {{}}), T \in SUBSET (1 .. n) :
        LET a == [i \in 1 .. n |-> i] IN
        Answer("partition", Asked(<<a, T>>, p), Pat!stable_partition(p, a, 0, n, T))

CallShuffle ==
    \E n \in 1 .. 3, c, d \in 1 .. MaxCutoff : \E p \in Policies(c, d, {{}}) :
        LET a == [i \in 1 .. n |-> i] IN Answer("shuffle", Asked(a, p), Pat!shuffle(p, a, 0, n, n))

CallSearch ==
    \E n \in 1 .. MaxRange, c, d \in 1 .. MaxCutoff, both \in BOOLEAN :
    \E p \in Policies(c, d, {{}}), x \in KeySeqs(n) :
        Answer(IF both THEN "minmax" ELSE "search", Tagged(x), Pat!search(p, both, Tagged(x)))

CallScan ==
    \E n \in 0 .. MaxRange, c, d \in 1 .. MaxCutoff, init \in {<<>>, <<0>>} :
    \E p \in Policies(c, d, SUBSET Pat!forks(c, 0, n)) :
        LET a == [i \in 1 .. n |-> i] IN
        Answer("scan", <<a, init>>, [d |-> Pat!inclusive_scan(p, a, init), acc |-> Pat!reduce(p, a, init)])

CallTest ==
    \E n, k \in 0 .. 4, c \in 1 .. MaxCutoff :
    \E p \in Policies(c, c, SUBSET Pat!forks(c, 0, n)), x \in [1 .. n -> 1 .. 2], y \in [1 .. k -> 1 .. 2] :
        Answer("test", <<x, y>>, <<Pat!equal(p, x, y), Pat!is_sorted(p, Tagged(x))>>)

CallReducer ==
    \E k \in Pat!Reducers : \E s, t \in BoundedSeq(Pat!reducer_values(k), 2) :
        Answer("reducer", <<k, s, t>>, Pat!ReducerSound(k, s, t))

CallLoop ==
    \E n \in 0 .. MaxRange, c, d \in 1 .. MaxCutoff, seq \in BOOLEAN : \E p \in Policies(c, d, {{}}) :
        Answer("loop", n, Pat!for_each(seq, p, n))

CallHints ==
    \E n \in 1 .. MaxHinted, c \in 1 .. MaxCutoff, leaves \in 0 .. 8 :
        LET work == [i \in 1 .. n |-> 2 ^ (i - 1)]
            r == IF leaves = 0 THEN Pat!create_workhint_range_full(work)
                 ELSE Pat!create_workhint_range(work, leaves)
        IN Answer("hints", [work |-> work, c |-> c, leaves |-> leaves],
                  [died |-> r.t = Pat!Failed, told |-> IF r.t = Pat!Failed THEN {} ELSE Pat!hints(c, r.t, r.v, 0, n)])

CallInvoke ==
    \E n \in 1 .. 4 : \E ts \in [1 .. n -> 1 .. 3] \cup {[i \in 1 .. n |-> Pat!NoHint]} :
        Answer("invoke", ts, Pat!invoke_hints(ts))

--------------------------------------------------------------------------------
FreeListOf(S) == LET rs == Reg!RegionsOf(S) IN [i \in DOMAIN rs |-> Range_(rs[i].b, rs[i].e - rs[i].b)]
AddressesOf(fl) == {a \in 0 .. (2 * MaxByte) : \E i \in DOMAIN fl : fl[i].addr <= a /\ a < EndOf(fl[i])}

CallFreelist ==
    \E S \in SUBSET (0 .. MaxByte), size \in 1 .. 3, alignment \in {1, 2, 4} :
        Answer("freelist", [S |-> S, size |-> size, alignment |-> alignment],
               fl_get_aligned(FreeListOf(S), size, alignment))

CallRegions ==
    \E S \in SUBSET (0 .. MaxByte), T \in {{}, 0 .. MaxByte, {1, 2, 4}, {0, 3, 4}}, b, e \in 0 .. (MaxByte + 1) :
        /\ b < e
        /\ Answer("regions", <<S, T, b, e>>, Reg!RegionsSound(S, T, Reg!Region(b, e)))

CallMapper ==
    \E k \in {"block", "adws", "cyclic"}, s \in 1 .. MaxMemory, n \in 1 .. 4, i \in 1 .. 3, g \in {2, 4} :
        LET m == [kind |-> k, size |-> s, ranks |-> n, intra |-> i, bs |-> 2, seg |-> g] IN
        Answer("mapper", m, MapperSound(m) /\ CopySound(m))

(* The free list gives the memory it says it gives, keeps the rest, and       *)
(* stays sorted and merged.                                                   *)
FreelistSound(in, out) ==
    LET given == IF out.ok THEN out.addr .. (out.addr + in.size - 1) ELSE {} IN
    /\ out.ok => out.addr % in.alignment = 0 /\ given \subseteq in.S
    /\ AddressesOf(out.fl) = in.S \ given
    /\ \A i \in DOMAIN out.fl : out.fl[i].size > 0
    /\ \A i \in 1 .. (Len(out.fl) - 1) : EndOf(out.fl[i]) < out.fl[i + 1].addr

(* Every fork of a loop is told the work of its two halves, as far down as    *)
(* the tree has levels, and that they are equal below; to the last fork if    *)
(* the number of leaves was left to the library (leaves = 0).  A number that  *)
(* is no power of two is refused.                                             *)
HintsSound(in, out) ==
    LET forks == Pat!forks(in.c, 0, Len(in.work))
        Above(f, l) == Cardinality({g \in forks : g[1] <= f /\ l <= g[2]}) - 1
        Work(f, l) == FoldLeft(+, 0, SubSeq(in.work, f + 1, l))
    IN IF out.died THEN in.leaves \notin {0, 1, 2, 4, 8}
       ELSE /\ {<<h[1], h[2]>> : h \in out.told} = forks
            /\ \A h \in out.told :
                 LET cut == h[1] + (h[2] - h[1]) \div 2
                 IN h[3] = IF in.leaves = 0 \/ 2 ^ Above(h[1], h[2]) <= in.leaves
                           THEN <<Work(h[1], cut), Work(cut, h[2])>> ELSE <<1, 1>>

(* Each fork of parallel_invoke() divides the work that is left: the second   *)
(* number of its hint is what the forks after it divide among themselves.     *)
InvokeSound(ts, hs) ==
    LET Share(i) == IF ts[i] = Pat!NoHint THEN 1 ELSE ts[i] IN
    /\ Len(hs) = Len(ts) - 1
    /\ \A i \in DOMAIN hs :
         /\ hs[i][1] = Share(i)
         /\ hs[i][2] = IF i = Len(hs) THEN Share(i + 1) ELSE hs[i + 1][1] + hs[i + 1][2]

Is(algos) == result.algo \in algos

(* Ranges of addresses and of indices are cut without loss or overlap, at     *)
(* every boundary: free lists with aligned requests, the region lists of the  *)
(* cache blocks, the segments of the memory mappers as seen by every node,    *)
(* and the leaves, chunks and work hints of the parallel loops and invokes.   *)
RangesSound ==
    /\ Is({"freelist"}) => FreelistSound(result.in, result.out)
    /\ Is({"regions", "mapper"}) => result.out
    /\ Is({"loop"}) => /\ Len(result.out) = result.in
                       /\ ToSet(result.out) = 0 .. (result.in - 1)
    /\ Is({"hints"}) => HintsSound(result.in, result.out)
    /\ Is({"invoke"}) => InvokeSound(result.in, result.out)

Rotated(a, f, m, l) == SubSeq(a, 1, f) \o SubSeq(a, m + 1, l) \o SubSeq(a, f + 1, m) \o SubSeq(a, l + 1, Len(a))
FirstIs(a, i, best) == a[i + 1][1] = best /\ \A j \in 1 .. i : a[j][1] # best

(* An ITYR_CHECK on the way failed.                                           *)
ChecksFail ==
    \/ Is({"stable", "sort"}) /\ result.in.in # <<>> /\ result.out = Pat!Failed
    \/ Is({"partition"}) /\ result.out.a = Pat!Failed
    \/ Is({"shuffle"}) /\ Pat!Failed \in result.out

(* The algorithms that move elements end with the order that their standard   *)
(* counterparts promise, whatever the policy and whichever half runs first:   *)
(* merging and stable sorting keep equal elements in their order, rotation    *)
(* and partition return the new place of the middle, a shuffle reaches every  *)
(* permutation and nothing else, and a search finds the first of the minima.  *)
(* No ITYR_CHECK on the way fails if checkout_count is cutoff_count, which is *)
(* what the leaves of merge, partition and shuffle insist on; with a smaller  *)
(* checkout_count they give the right result or stop there.                   *)
OrderKept ==
    LET in == result.in  out == result.out IN
    IF ChecksFail THEN ~in.whole ELSE
    /\ Is({"stable"}) => out = Pat!sorted_stable(in.in)
    /\ Is({"sort"}) => /\ Pat!Keys(out) = Pat!Keys(Pat!sorted_stable(in.in))
                       /\ ToSet(out) = ToSet(in.in)
    /\ Is({"rotate"}) =>
         LET a == in[1]  f == in[2]  m == in[3]  l == in[4] IN
         /\ out.rotated = [a |-> Rotated(a, f, m, l), it |-> f + (l - m)]
         /\ out.copied = Rotated(a, 0, m, Len(a)) /\ out.reversed = Reverse(a)
         /\ out.filled = [i \in DOMAIN a |-> IF i \in (f + 1) .. l THEN 0 ELSE i]
         /\ out.moved.dst = Zeros(l - m) \o SubSeq(a, f + 1, m) \o Zeros(Len(a) - (l - f))
         /\ \A i \in DOMAIN a \ ((f + 1) .. m) : out.moved.src[i] = a[i]
         /\ out.summed = [i \in DOMAIN a |-> Len(a) + 1]
    /\ Is({"partition"}) => LET a == in.in[1]  T == in.in[2] IN
         /\ out.a = SetToSortSeq(T, <) \o SetToSortSeq(ToSet(a) \ T, <)
         /\ out.it = Cardinality(T)
    /\ Is({"shuffle"}) => out = SetToSeqs(ToSet(in.in))
    /\ Is({"search", "minmax"}) =>
         LET ks == {in[i][1] : i \in DOMAIN in} IN
         /\ FirstIs(in, out.lo, Min(ks)) /\ in[out.hi + 1][1] = Max(ks)
         /\ Is({"search"}) => FirstIs(in, out.hi, Max(ks))

(* A reduction over any monoid, and the scans, give the same result however   *)
(* the range is cut and whichever continuations are stolen: the initial value *)
(* is used once, at the left, and nothing is lost or combined twice; and the  *)
(* reducers are such monoids.                                                 *)
StealingInvisible ==
    LET in == result.in  out == result.out IN
    /\ Is({"scan"}) => /\ out.acc = in[2] \o in[1]
                       /\ out.d = [i \in DOMAIN in[1] |-> in[2] \o SubSeq(in[1], 1, i)]
    /\ Is({"reducer"}) => out
    /\ Is({"test"}) => out = <<in[1] = in[2], \A i \in 1 .. (Len(in[1]) - 1) : in[1][i] <= in[1][i + 1]>>

(* minmax_element() returns the first of the maxima, as its documentation     *)
(* says ("the iterator to the first element is returned for each").           *)
FirstMaximum ==
    Is({"minmax"}) => FirstIs(result.in, result.out.hi, Max({result.in[i][1] : i \in DOMAIN result.in}))

--------------------------------------------------------------------------------
Calls ==
    \/ CallMerge \/ CallSort \/ CallRotate \/ CallPartition \/ CallShuffle \/ CallSearch
    \/ CallScan \/ CallTest \/ CallReducer \/ CallLoop \/ CallHints \/ CallInvoke \/ CallFreelist
    \/ CallRegions \/ CallMapper

vars == <<memVars, vecVars, spanVars, fjVars, layer, result>>

NoResult == [algo |-> "none", in |-> 0, out |-> 0]

Init ==
    /\ layer \in {"memory", "home", "fences", "calls"}
    /\ MemInit /\ (layer # "memory" => mr = "noncoll")
    /\ VecInit /\ SpanInit /\ FjInit
    /\ result = NoResult

Next ==
    \/ /\ layer = "memory"
       /\ VecNext \/ (MemNext /\ UNCHANGED vecVars)
       /\ UNCHANGED <<spanVars, fjVars, layer, result>>
    \/ /\ layer = "home"
       /\ SpanNext
       /\ UNCHANGED <<memVars, vecVars, fjVars, layer, result>>
    \/ /\ layer = "fences"
       /\ FjNext
       /\ UNCHANGED <<memVars, vecVars, spanVars, layer, result>>
    \/ /\ layer = "calls" /\ result = NoResult
       /\ Calls
       /\ UNCHANGED <<memVars, vecVars, spanVars, fjVars, layer>>

Spec == Init /\ [][Next]_vars

================================================================================
