-------------------------------- MODULE WorkDeque --------------------------------
(***************************************************************************)
(* What one work-stealing queue promises to the schedulers built on it: a  *)
(* bounded deque whose owner works at the top end and whose other users    *)
(* work at the base end.  Every operation is atomic.  An entry is a task   *)
(* or a suspended thread: it is in the deque or in the hands of a worker,  *)
(* and never in both or in two places of the deque.                        *)
(***************************************************************************)
EXTENDS Integers, Sequences

CONSTANTS Entry,     \* the entries that exist
          Capacity   \* how many the deque can hold

VARIABLES items,     \* the entries from base to top
          owned      \* the entries in the hands of workers

dequeVars == <<items, owned>>

DequeInit ==
    /\ items = <<>>
    /\ owned = Entry

(* push(): the owner adds at the top.                                      *)
PushTop ==
    \E e \in owned :
        /\ Len(items) < Capacity
        /\ items' = Append(items, e)
        /\ owned' = owned \ {e}

(* pop(): the owner takes from the top.                                    *)
PopTop ==
    /\ items # <<>>
    /\ items' = SubSeq(items, 1, Len(items) - 1)
    /\ owned' = owned \cup {items[Len(items)]}

(* steal(): another rank takes from the base.                              *)
StealBase ==
    /\ items # <<>>
    /\ items' = Tail(items)
    /\ owned' = owned \cup {Head(items)}

(* pass(): another rank adds at the base.                                  *)
PassBase ==
    \E e \in owned :
        /\ Len(items) < Capacity
        /\ items' = <<e>> \o items
        /\ owned' = owned \ {e}

DequeNext == PushTop \/ PopTop \/ StealBase \/ PassBase

DequeSpec == DequeInit /\ [][DequeNext]_dequeVars

================================================================================
