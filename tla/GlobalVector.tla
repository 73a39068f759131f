----------------------------- MODULE GlobalVector -----------------------------
(* container/global_vector.hpp on noncollective memory. A vector is used by  *)
(* one thread at a time, but the thread moves: each operation may run on     *)
(* another rank r than the one before, so that buffers are freed remotely.   *)
(* Operations are atomic here because nobody else touches the vector; what   *)
(* interleaves is the memory below (RemotableMem).                           *)
(*                                                                           *)
(* An operation is a function from a state w of the vector, the elements in  *)
(* memory and the memory itself to the next such state.                      *)
EXTENDS RemotableMem

CONSTANTS Vectors, Values, 
          MaxLen, MaxCalls, \* bounds on the length of a vector and on the calls
          Raw,       \* a cell that holds no constructed element
          Moved,     \* an element that was default-constructed or moved from
          Broken     \* constructed twice, or assigned to without construction

VARIABLES vec,    \* per vector: begin_ (0: nullptr), size() and capacity()
          mem,    \* elements at the addresses of noncollective memory
          std,    \* what a std::vector would hold after the same calls
          calls   \* number of calls so far
vecVars == <<vec, mem, std, calls>>

--------------------------------------------------------------------------------
AllCells == VmAddr .. (VmAddr + Cardinality(Ranks) * LocalMax - 1)
Null == [begin |-> 0, size |-> 0, cap |-> 0]

VecInit ==
    /\ vec = [v \in Vectors |-> Null]
    /\ mem = [a \in AllCells |-> Raw]
    /\ std = [v \in Vectors |-> <<>>]
    /\ calls = 0

EndPtr(x) == x.begin + x.size
Buffer(x) == [p |-> x.begin, bytes |-> x.cap, alignment |-> 1]
State(v)  == [x |-> vec[v], cells |-> mem, m |-> Memory, ok |-> TRUE]

Elements(w) == [i \in 1 .. w.x.size |-> w.cells[w.x.begin + i - 1]]

next_size(w, least) == Max({least, w.x.size * 2})

(* Elements at the addresses from b: construct_elems() and construct_elems_- *)
(* from_iter(), destruct_elems(), and assignment.                            *)
Update(w, b, n, Val(_)) ==
    [w EXCEPT !.cells = [a \in AllCells |-> IF a \in b .. (b + n - 1) THEN Val(a) ELSE @[a]]]

construct_elems(w, b, s) ==
    Update(w, b, Len(s), LAMBDA a : IF w.cells[a] = Raw THEN s[a - b + 1] ELSE Broken)

destruct_elems(w, b, n) == Update(w, b, n, LAMBDA a : Raw)

assign(w, b, s) ==
    Update(w, b, Len(s), LAMBDA a : IF w.cells[a] = Raw THEN Broken ELSE s[a - b + 1])

(* move_backward() of [first, last) to the range that ends at d, from the    *)
(* last element to the first.                                                *)
move_one(w, src, dst) ==
    [assign(w, dst, <<w.cells[src]>>) EXCEPT !.cells[src] = Moved]

move_backward_Forward(w, first, last, d) ==
    FoldLeft(LAMBDA u, k : move_one(u, first + k - 1, d - (last - first) + k - 1),
             w, [k \in 1 .. (last - first) |-> k])

move_backward(w, first, last, d) ==
    FoldLeft(LAMBDA u, k : move_one(u, last - k, d - k),
             w, [k \in 1 .. (last - first) |-> k])

--------------------------------------------------------------------------------
(* allocate_mem() dies if there is no memory; free_mem().                    *)
with_buffer(w, t, n, size) ==
    [w EXCEPT !.m = t.m, !.ok = @ /\ t.ok, !.x = [begin |-> t.obj.p, size |-> size, cap |-> n]]

allocate_mem(w, r, n, size) == with_buffer(w, Allocating(w.m, r, n, 1), n, size)

free_mem(w, r, x) == [w EXCEPT !.m = core_free(@, r, Buffer(x))]

(* The elements move from the buffer of w to the new one, if there is one.   *)
move_to_new(w, r, new) ==
    LET mvd == destruct_elems(construct_elems(new, new.x.begin, Elements(w)), w.x.begin, w.x.size)
    IN CASE ~new.ok -> new
         [] new.ok /\ w.x.cap = 0 -> mvd
         [] OTHER -> free_mem(mvd, r, w.x)

realloc_mem(w, r, n) == move_to_new(w, r, allocate_mem(w, r, n, w.x.size))

Grow(w, r, n) == IF n > w.x.cap THEN realloc_mem(w, r, next_size(w, n)) ELSE w

destroy(w, r) ==
    IF w.x.begin = 0 THEN w
    ELSE free_mem(destruct_elems(w, w.x.begin, w.x.size), r, w.x)

construct_all(w, s) == IF w.ok THEN construct_elems(w, w.x.begin, s) ELSE w

initialize(w, r, s) ==
    IF s = <<>> THEN [w EXCEPT !.x = Null]
    ELSE construct_all(allocate_mem(w, r, Len(s), Len(s)), s)

construct_back(w, s) ==
    IF w.ok THEN [construct_elems(w, EndPtr(w.x), s) EXCEPT !.x.size = @ + Len(s)] ELSE w

push_back_impl(w, r, e) == construct_back(Grow(w, r, w.x.size + 1), <<e>>)

resize_impl(w, r, n, e) ==
    IF n > w.x.size THEN construct_back(Grow(w, r, n), [i \in 1 .. (n - w.x.size) |-> e])
    ELSE [destruct_elems(w, w.x.begin + n, w.x.size - n) EXCEPT !.x.size = n]

move_up(w, i, n) ==
    LET e == EndPtr(w.x)
    IN IF w.ok THEN move_backward(construct_elems(w, e, [k \in 1 .. n |-> Moved]),
                                  w.x.begin + i, e, e + n)
       ELSE w

make_space_for_insertion(w, r, i, n) == move_up(Grow(w, r, w.x.size + n), i, n)

(* insert_one() inside the vector, insert_n() and insert_iter() of forward   *)
(* iterators: make space, then assign.                                       *)
assign_at(w, i, s) ==
    IF w.ok THEN [assign(w, w.x.begin + i, s) EXCEPT !.x.size = @ + Len(s)] ELSE w

insert_space(w, r, i, s) ==
    IF s = <<>> THEN w ELSE assign_at(make_space_for_insertion(w, r, i, Len(s)), i, s)

insert_one(w, r, i, e) ==
    IF i = w.x.size THEN push_back_impl(w, r, e) ELSE insert_space(w, r, i, <<e>>)

(* Input iterators have no length: one by one.                               *)
insert_each(w, r, i, s) ==
    FoldLeft(LAMBDA u, k : IF u.ok THEN insert_one(u, r, i + k - 1, s[k]) ELSE u,
             w, [k \in 1 .. Len(s) |-> k])

initialize_each(w, r, s) ==
    FoldLeft(LAMBDA u, e : IF u.ok THEN push_back_impl(u, r, e) ELSE u, w, s)

reserve_(w, r, n) ==
    CASE w.x.cap = 0 /\ n > 0 -> allocate_mem(w, r, n, 0)
      [] w.x.cap > 0 /\ n > w.x.cap -> realloc_mem(w, r, n)
      [] OTHER -> w

--------------------------------------------------------------------------------
(* The calls. The result w of an operation on v replaces the state; s is     *)
(* what the vector should hold.                                              *)
Becomes(v, w, s) ==
    /\ died' = ~w.ok
    /\ SetMemory(IF w.ok THEN w.m ELSE Memory)
    /\ IF w.ok THEN /\ vec' = [vec EXCEPT ![v] = w.x] /\ mem' = w.cells
                    /\ std' = [std EXCEPT ![v] = s]
               ELSE UNCHANGED <<vec, mem, std>>
    /\ UNCHANGED <<mr, held, posting, waiting>>

Lists == BoundedSeq(Values, 2)

Construct(r, v, s) ==
    /\ vec[v] = Null
    /\ \/ Becomes(v, initialize(State(v), r, s), s)
       \/ Becomes(v, initialize_each(State(v), r, s), s)

Destruct(r, v) ==
    /\ Becomes(v, [destroy(State(v), r) EXCEPT !.x = Null], <<>>)

CopyAssign(r, v, o) ==
    /\ v # o
    /\ Becomes(v, initialize(destroy(State(v), r), r, Elements(State(o))), std[o])

MoveAssign(r, v, o) ==
    /\ v # o
    /\ LET w == destroy(State(v), r) IN
       /\ vec' = [vec EXCEPT ![v] = vec[o], ![o] = Null]
       /\ std' = [std EXCEPT ![v] = std[o], ![o] = <<>>]
       /\ mem' = w.cells /\ SetMemory(w.m)
    /\ UNCHANGED <<mr, held, posting, waiting, died>>

Swap(v, o) ==
    /\ v # o
    /\ vec' = [vec EXCEPT ![v] = vec[o], ![o] = vec[v]]
    /\ std' = [std EXCEPT ![v] = std[o], ![o] = std[v]]
    /\ UNCHANGED <<mem, memVars>>

Clear(r, v) ==
    /\ vec[v].size > 0
    /\ Becomes(v, [destruct_elems(State(v), vec[v].begin, vec[v].size) EXCEPT !.x.size = 0], <<>>)

Reserve(r, v, n) == Becomes(v, reserve_(State(v), r, n), std[v])

Resize(r, v, n, e) ==
    Becomes(v, resize_impl(State(v), r, n, e),
            [i \in 1 .. n |-> IF i <= Len(std[v]) THEN std[v][i] ELSE e])

PushBack(r, v, e) == Becomes(v, push_back_impl(State(v), r, e), Append(std[v], e))

PopBack(r, v) ==
    /\ vec[v].size > 0
    /\ Becomes(v, [destruct_elems(State(v), EndPtr(vec[v]) - 1, 1) EXCEPT !.x.size = @ - 1],
               Front(std[v]))

Insert(r, v, i, s) ==
    /\ i <= vec[v].size /\ Len(s) + vec[v].size <= MaxLen
    /\ LET after == SubSeq(std[v], 1, i) \o s \o SubSeq(std[v], i + 1, Len(std[v])) IN
       \/ Becomes(v, insert_space(State(v), r, i, s), after)
       \/ Becomes(v, insert_each(State(v), r, i, s), after)

VecNext ==
    /\ mr = "noncoll" /\ ~died /\ calls < MaxCalls /\ calls' = calls + 1
    /\ \E r \in Ranks, v \in Vectors :
        \/ \E s \in Lists : Construct(r, v, s) \/ (\E i \in 0 .. MaxLen : Insert(r, v, i, s))
        \/ \E o \in Vectors : CopyAssign(r, v, o) \/ MoveAssign(r, v, o)
        \/ \E o \in Vectors : Swap(v, o)
        \/ Destruct(r, v) \/ Clear(r, v) \/ PopBack(r, v)
        \/ \E n \in 0 .. MaxLen : Reserve(r, v, n) \/ (\E e \in Values : Resize(r, v, n, e))
        \/ \E e \in Values : vec[v].size < MaxLen /\ PushBack(r, v, e)

--------------------------------------------------------------------------------
(* After every sequence of calls, on whatever ranks: each vector holds what  *)
(* a std::vector would; the memory holds exactly these elements, each con-   *)
(* structed once; and the live objects of the memory are exactly the buffers *)
(* of the vectors: none freed while in use, none shared, none leaked.        *)
VectorContents ==
    mr = "noncoll" =>
    LET Live(r) == {e \in HeaderAddrs(heap[r]) : e \notin freed \cup UNION Range(flight)}
        owners  == {v \in Vectors : vec[v].cap > 0}
    IN /\ \A v \in Vectors : /\ vec[v].size <= vec[v].cap
                             /\ Elements(State(v)) = std[v]
       /\ \A a \in AllCells : mem[a] # Raw =>
            \E v \in owners : a \in vec[v].begin .. (EndPtr(vec[v]) - 1)
       /\ {HeaderOf(Buffer(vec[v])) : v \in owners} = UNION {Live(r) : r \in Ranks}
       /\ \A v, u \in owners : v # u => vec[v].begin # vec[u].begin

================================================================================
