------------------------------- MODULE Freelist -------------------------------
(* common/freelist.hpp: the list of free address ranges that the memory re-  *)
(* sources allocate from. A list is a sequence of entries, sorted by address *)
(* and merged where entries touch; get() and add() return the new list.      *)
EXTENDS Integers, SequencesExt

Range_(addr, size) == [addr |-> addr, size |-> size]

EndOf(e) == e.addr + e.size

RoundUp(x, alignment) == ((x + alignment - 1) \div alignment) * alignment

Fail(fl) == [ok |-> FALSE, addr |-> 0, fl |-> fl]

(* get(size): the first entry that is large enough (i), from its front.      *)
fl_take(fl, i, size) ==
    IF i = 0 THEN Fail(fl)
    ELSE [ok |-> TRUE, addr |-> fl[i].addr,
          fl |-> IF fl[i].size = size THEN RemoveAt(fl, i)
                 ELSE [fl EXCEPT ![i] = Range_(@.addr + size, @.size - size)]]

fl_get(fl, size) == fl_take(fl, SelectInSeq(fl, LAMBDA e : e.size >= size), size)

(* add(): walk to the first entry that the range precedes or touches (i).    *)
merge_next(fl, i) ==
    IF i < Len(fl) /\ fl[i + 1].addr = EndOf(fl[i])
    THEN RemoveAt([fl EXCEPT ![i].size = @ + fl[i + 1].size], i + 1)
    ELSE fl

fl_put(fl, i, addr, size) ==
    IF size = 0 THEN fl
    ELSE IF i = 0 THEN Append(fl, Range_(addr, size))
    ELSE IF addr + size = fl[i].addr THEN [fl EXCEPT ![i] = Range_(addr, @.size + size)]
    ELSE IF addr + size < fl[i].addr THEN InsertAt(fl, i, Range_(addr, size))
    ELSE merge_next([fl EXCEPT ![i].size = @ + size], i)

fl_add_Unmerged(fl, addr, size) ==
    fl_put(fl, SelectInSeq(fl, LAMBDA e : addr + size <= e.addr), addr, size)

fl_add(fl, addr, size) ==
    fl_put(fl, SelectInSeq(fl, LAMBDA e : addr + size <= e.addr \/ addr = EndOf(e)), addr, size)

(* get(size, alignment): if the first fit is not aligned, put it back, take  *)
(* a larger one and put back what is left on both sides.                     *)
split_aligned(s, size, alignment) ==
    LET ret == RoundUp(s.addr, alignment) IN
    IF ~s.ok THEN s
    ELSE [ok |-> TRUE, addr |-> ret,
          fl |-> fl_add(fl_add(s.fl, s.addr, ret - s.addr),
                        ret + size, (s.addr + size + alignment) - (ret + size))]

retry_aligned(s, size, alignment) ==
    IF ~s.ok \/ s.addr % alignment = 0 THEN s
    ELSE split_aligned(fl_get(fl_add(s.fl, s.addr, size), size + alignment), size, alignment)

fl_get_aligned(fl, size, alignment) == retry_aligned(fl_get(fl, size), size, alignment)

================================================================================
