----------------------------- MODULE CheckoutSpan -----------------------------
(* container/checkout_span.hpp on top of core_default: the spans through     *)
(* which a program holds the regions it has checked out. A span that is not  *)
(* yet constructed, moved from or destroyed is Empty: its ptr_ is nullptr.   *)
(* All of it happens between two forks, on one process.                      *)
EXTENDS HomeManager

CONSTANTS Spans

VARIABLE span           \* ptr_ and n_ of each span, as a region
spanVars == <<homeVars, span>>

Empty == <<0, 0>>

SpanInit == HomeInit /\ span = [c \in Spans |-> Empty]

--------------------------------------------------------------------------------
(* What the calls of one operation work on: the home manager, the regions    *)
(* that are checked out, and the spans; ok is FALSE once die() was called.   *)
Calls0 == [h |-> Home, out |-> checkouts, span |-> span, ok |-> TRUE]

InOrder(s) == SortSeq(s, LAMBDA p, q : p[1] < q[1] \/ (p[1] = q[1] /\ p[2] < q[2]))

core_checkout_nb(st, rg) ==
    LET h == checkout_coll_nb(st.h, cm, rg, 1)
    IN IF st.ok THEN [st EXCEPT !.h = h, !.ok = h.ok, !.out = InOrder(Append(@, rg))] ELSE st

core_checkout_complete(st) == IF st.ok THEN [st EXCEPT !.h = checkout_complete(@)] ELSE st

core_checkin(st, rg) ==
    [st EXCEPT !.h = checkin_coll(@, cm, rg, 1), !.out = RemoveFirst(@, rg)]

(* destroy() leaves the pointer as it is, checkin() forgets it.              *)
destroy_span(st, c) == IF st.span[c] = Empty THEN st ELSE core_checkin(st, st.span[c])

checkin_span(st, c) == [destroy_span(st, c) EXCEPT !.span[c] = Empty]

checkout_nb_span(st, c, rg) == [core_checkout_nb(checkin_span(st, c), rg) EXCEPT !.span[c] = rg]

(* The move constructor and the move assignment, to a span itself too.       *)
move_span(st, c, d) == [destroy_span(st, c) EXCEPT !.span[c] = st.span[d], !.span[d] = Empty]

(* The process goes on, or it dies, which is right only if more is needed at *)
(* once than there are entries.                                              *)
Ends(st) ==
    /\ SetHome(IF st.ok THEN st.h ELSE Home)
    /\ checkouts' = IF st.ok THEN st.out ELSE checkouts
    /\ span' = IF st.ok THEN st.span ELSE span
    /\ exhausted' = ~st.ok
    /\ torn' = (torn \/ (~st.ok /\ ~TooMany(cm, st.out)))
    /\ UNCHANGED cm

--------------------------------------------------------------------------------
(* The constructor and checkout(), which first checks in what the span held. *)
CheckoutInto(c, rg) ==
    /\ cm # NoSeg
    /\ Ends(core_checkout_complete(checkout_nb_span(Calls0, c, rg)))

(* checkin() and the destructor.                                             *)
CheckinSpan(c) == span[c] # Empty /\ Ends(checkin_span(Calls0, c))

Move(c, d) == span[d] # Empty /\ Ends(move_span(Calls0, c, d))

(* make_checkouts() and checkout_global_iterators(): all are begun, and then *)
(* completed together.                                                       *)
MakeCheckouts(c, d, rg, rg2) ==
    /\ cm # NoSeg /\ c # d /\ span[c] = Empty /\ span[d] = Empty
    /\ Ends(core_checkout_complete(checkout_nb_span(checkout_nb_span(Calls0, c, rg), d, rg2)))

SpanNext ==
    /\ ~exhausted
    /\ \/ HomeNext /\ UNCHANGED span
       \/ \E c \in Spans, rg \in Regions : CheckoutInto(c, rg)
       \/ \E c \in Spans : CheckinSpan(c)
       \/ \E c, d \in Spans : Move(c, d)
       \/ \E c, d \in Spans, rg, rg2 \in Regions : MakeCheckouts(c, d, rg, rg2)

--------------------------------------------------------------------------------
(* Whatever a span holds is checked out and mapped, and what is checked out  *)
(* is held by one span: moving spans, to themselves too, and checking other  *)
(* regions out through them neither forgets to check a region in nor does it *)
(* twice. The home manager keeps what is checked out mapped, whatever is     *)
(* evicted, freed or found in the TLB (SegmentsMapped).                      *)
HomeMapped ==
    /\ SegmentsMapped
    /\ \A rg \in Regions :
         Cardinality({c \in Spans : span[c] = rg}) = Cardinality({i \in DOMAIN checkouts : checkouts[i] = rg})

================================================================================
