------------------------------- MODULE ForkJoin -------------------------------
(* Where the patterns put their fences.  parallel_loop_generic(),             *)
(* parallel_invoke() and parallel_reduce_generic() run on the threads of      *)
(* random work stealing and access global memory through the caches, which    *)
(* are not coherent: a rank keeps reading its copy of a cell until it         *)
(* acquires, and others see what it wrote once it has released.  Both are     *)
(* kept here only as far as the fences need them; RandWs, CacheManager and    *)
(* ReleaseManager have the details.  Copies are not dropped and releases      *)
(* asked of another rank write back at once: dropping a copy, or polling      *)
(* later, only makes more of the newest data visible.  Cells are homed on     *)
(* ranks that take no part.                                                   *)
(*                                                                            *)
(* The program alternates serial parts, in which the root thread reads and    *)
(* writes every cell, with a pass of one of three kinds over the cells:       *)
(*   loop    the leaf i reads and writes cell i;                              *)
(*   invoke  each call reads and writes its whole range before it invokes     *)
(*           its halves and again afterwards, as sorting and merging do;      *)
(*   reduce  the leaves use cell i and the accumulator, and combining two     *)
(*           accumulators goes over the right half, as the scans do.          *)
EXTENDS Integers, SequencesExt, FiniteSets

CONSTANTS Workers,    \* the ranks
          Items,      \* number of elements of the range
          Nobody      \* no rank: the dummy release handler, an idle worker

ASSUME WorkersAssumption ==
    /\ Items \in Nat \ {0}
    /\ Nobody \notin Workers /\ Nobody \notin (0 .. Items) \X (0 .. Items)

VARIABLES
    kind,       \* "serial", or the kind of the pass under way
    runs,       \* runs[w]: the call that w executes
    wsq,        \* wsq[w]: calls whose continuations were pushed on w, the oldest first
    frames,     \* the calls under way, by their ranges
    dead,       \* threads that ended apart from their parents
    cell,       \* cell[c]: who has its newest value, who an older one, who a dirty one
    stale       \* an access did not see the newest value

fjVars == <<kind, runs, wsq, frames, dead, cell, stale>>

Data(f, l) == {<<"data", i>> : i \in f .. (l - 1)}
Acc(i) == <<"acc", i>>
Locations == Data(0, Items) \cup {Acc(i) : i \in 0 .. (Items - 1)}

--------------------------------------------------------------------------------
(* Memory: fresh copies are equal to the newest write, home is as long as     *)
(* nobody is dirty.                                                           *)
HasDirty(cs, w) == \E c \in Locations : w \in cs[c].dirty

SeesNewest(cs, w, c) == w \in cs[c].fresh \/ (w \notin cs[c].old /\ cs[c].dirty = {})

(* Writing the cells C: only w is up to date then.                            *)
written(cs, w, C) ==
    [c \in Locations |-> IF c \in C THEN [fresh |-> {w}, dirty |-> {w},
                                          old |-> (cs[c].fresh \cup cs[c].old) \ {w}]
                         ELSE cs[c]]

(* Reading them first, and overwriting them while another's write is pending. *)
MissesNewest(cs, w, C) == \E c \in C : ~SeesNewest(cs, w, c)
Overtaken(cs, w, C) == \E c \in C : cs[c].dirty \ {w} # {}

(* A release writes back everything, which honours the handlers of W.         *)
released(cs, W) == [c \in Locations |-> [cs[c] EXCEPT !.dirty = @ \ W]]
honoured(ks, W) == [n \in DOMAIN ks |-> IF ks[n].rh \in W THEN [ks[n] EXCEPT !.rh = Nobody] ELSE ks[n]]

release_lazy(cs, w) == IF HasDirty(cs, w) THEN w ELSE Nobody

invalidate_all(cs, w) ==
    [c \in Locations |-> [cs[c] EXCEPT !.fresh = @ \ {w}, !.old = @ \ {w}]]

acquired(cs, w, rh) == invalidate_all(released(cs, {w, rh}), w)

--------------------------------------------------------------------------------
(* Calls and threads.  A call of the range n = <<first, last>> goes through   *)
(* "call", "forked" (its child has the left half, itself is in a queue),      *)
(* "rest" (it calls the right half), "join", "wait" and "return"; ser tells   *)
(* that the child was not separated from it by a steal, acc is the            *)
(* accumulator it was given and returns.  A thread is named by its first      *)
(* call, a left half or the root; its stack is the frames that up links.      *)
Root == <<0, Items>>
mid(n) == n[1] + (n[2] - n[1]) \div 2
LeftHalf(n) == <<n[1], mid(n)>>
RightHalf(n) == <<mid(n), n[2]>>

Frame(rh, acc, up) == [rh |-> rh, acc |-> acc, up |-> up, at |-> "call", ser |-> FALSE]
WithFrame(ks, n, x) == [u \in DOMAIN ks \cup {n} |-> IF u = n THEN x ELSE ks[u]]
WithoutFrame(ks, n) == [u \in DOMAIN ks \ {n} |-> ks[u]]

At(w, place) == runs[w] # Nobody /\ kind # "serial" /\ frames[runs[w]].at = place
IsThread(n) == n # Root /\ n = LeftHalf(frames[n].up)

(* The leaf of a pass.                                                        *)
Leaf(w) ==
    LET n == runs[w]
        C == Data(n[1], n[2]) \cup (IF kind = "reduce" THEN {Acc(frames[n].acc)} ELSE {})
    IN /\ At(w, "call") /\ n[2] - n[1] = 1
       /\ stale' = (stale \/ MissesNewest(cell, w, C))
       /\ cell' = written(cell, w, C)
       /\ frames' = [frames EXCEPT ![n].at = "return"]
       /\ UNCHANGED <<kind, runs, wsq, dead>>

(* The fork: the child starts at once, the parent goes to the queue.          *)
ForkCall(w) ==
    LET n == runs[w]
        C == IF kind = "invoke" THEN Data(n[1], n[2]) ELSE {}
        rh == IF kind = "invoke" THEN release_lazy(cell', w) ELSE frames[n].rh
    IN /\ At(w, "call") /\ n[2] - n[1] > 1
       /\ stale' = (stale \/ MissesNewest(cell, w, C))
       /\ cell' = written(cell, w, C)
       /\ frames' = WithFrame([frames EXCEPT ![n].at = "forked", ![n].rh = rh],
                            LeftHalf(n), Frame(rh, frames[n].acc, n))
       /\ wsq' = [wsq EXCEPT ![w] = Append(@, n)]
       /\ runs' = [runs EXCEPT ![w] = LeftHalf(n)]
       /\ UNCHANGED <<kind, dead>>

(* The continuation of n calls the right half.                                *)
CallRest(ks, n, ser, rh, acc) ==
    WithFrame([ks EXCEPT ![n].at = "rest", ![n].ser = ser, ![n].rh = rh],
             RightHalf(n), Frame(rh, acc, n))

(* When it was stolen, acquire() in the fork callback comes first, and a      *)
(* reduction makes a new accumulator and handler.                             *)
drift_fork(cs, w, rh) == acquired(cs, w, rh)

StealFrom(w, v) ==
    LET n == Head(wsq[v])
        cs == drift_fork(cell, w, frames[n].rh)
        C == IF kind = "reduce" THEN {Acc(mid(n))} ELSE {}
        rh == IF kind = "reduce" THEN release_lazy(cell', w) ELSE Nobody
    IN /\ runs[w] = Nobody /\ wsq[v] # <<>>
       /\ stale' = (stale \/ Overtaken(cs, w, C))
       /\ cell' = written(cs, w, C)
       /\ frames' = CallRest(honoured(frames, {w, frames[n].rh}), n, FALSE, rh, mid(n))
       /\ runs' = [runs EXCEPT ![w] = RightHalf(n)]
       /\ wsq' = [wsq EXCEPT ![v] = Tail(@)]
       /\ UNCHANGED <<kind, dead>>

(* The end of the right half.                                                 *)
ReturnCall(w) ==
    LET n == runs[w]  up == frames[n].up
    IN /\ At(w, "return") /\ n # Root /\ ~IsThread(n)
       /\ frames' = [WithoutFrame(frames, n) EXCEPT ![up].at = "join"]
       /\ runs' = [runs EXCEPT ![w] = up]
       /\ UNCHANGED <<kind, wsq, dead, cell, stale>>

(* The end of a call n after the join: an acquire() if its child was not      *)
(* serialized, and then what the pass does with both halves.                  *)
acquire_joined_Skipped(cs, w) == cs

acquire_joined(cs, w) == acquired(cs, w, Nobody)

AfterJoin(w, n, cs) ==
    LET C == CASE kind = "invoke" -> Data(n[1], n[2])
               [] kind = "reduce" /\ ~frames[n].ser ->
                    Data(mid(n), n[2]) \cup {Acc(frames[n].acc), Acc(mid(n))}
               [] OTHER -> {}
    IN /\ stale' = (stale \/ MissesNewest(cs, w, C))
       /\ cell' = written(cs, w, C)

Returning(ks, n) == [ks EXCEPT ![n].at = "return", ![n].rh = Nobody]

(* The join; a parent without its child releases first, and waits unless the  *)
(* child has ended.                                                           *)
release_joining(cs, w) == released(cs, {w})

JoinSerialized(w) ==
    LET n == runs[w] IN
    /\ At(w, "join") /\ frames[n].ser
    /\ AfterJoin(w, n, cell)
    /\ frames' = Returning(frames, n)
    /\ UNCHANGED <<kind, runs, wsq, dead>>

JoinEnded(w) ==
    LET n == runs[w] IN
    /\ At(w, "join") /\ ~frames[n].ser /\ LeftHalf(n) \in dead
    /\ AfterJoin(w, n, acquire_joined(release_joining(cell, w), w))
    /\ frames' = Returning(honoured(frames, {w}), n)
    /\ dead' = dead \ {LeftHalf(n)}
    /\ UNCHANGED <<kind, runs, wsq>>

JoinWait(w) ==
    LET n == runs[w] IN
    /\ At(w, "join") /\ ~frames[n].ser /\ LeftHalf(n) \notin dead
    /\ cell' = release_joining(cell, w)
    /\ frames' = [honoured(frames, {w}) EXCEPT ![n].at = "wait"]
    /\ runs' = [runs EXCEPT ![w] = Nobody]
    /\ UNCHANGED <<kind, wsq, dead, stale>>

(* A thread ends: with its parent still in the queue they go on as one, else  *)
(* it releases, and goes on with the parent if that waits.                    *)
Dies(w) == At(w, "return") /\ IsThread(runs[w])

DieSerialized(w) ==
    LET n == runs[w]  up == Last(wsq[w]) IN
    /\ Dies(w) /\ wsq[w] # <<>>
    /\ frames' = CallRest(WithoutFrame(frames, n), up, TRUE, frames[up].rh, frames[n].acc)
    /\ runs' = [runs EXCEPT ![w] = RightHalf(up)]
    /\ wsq' = [wsq EXCEPT ![w] = Front(@)]
    /\ UNCHANGED <<kind, dead, cell, stale>>

drift_die(cs, w) == released(cs, {w})

DieApart(w) ==
    LET n == runs[w] IN
    /\ Dies(w) /\ wsq[w] = <<>> /\ frames[frames[n].up].at # "wait"
    /\ cell' = drift_die(cell, w)
    /\ frames' = WithoutFrame(honoured(frames, {w}), n)
    /\ dead' = dead \cup {n}
    /\ runs' = [runs EXCEPT ![w] = Nobody]
    /\ UNCHANGED <<kind, wsq, stale>>

DieResuming(w) ==
    LET n == runs[w]  up == frames[n].up IN
    /\ Dies(w) /\ wsq[w] = <<>> /\ frames[up].at = "wait"
    /\ AfterJoin(w, up, acquire_joined(drift_die(cell, w), w))
    /\ frames' = Returning(WithoutFrame(honoured(frames, {w}), n), up)
    /\ runs' = [runs EXCEPT ![w] = up]
    /\ UNCHANGED <<kind, wsq, dead>>

--------------------------------------------------------------------------------
(* The serial parts of the root thread, on w.                                 *)
Serial(w) == kind = "serial" /\ runs[w] = Root

NoFrames == [n \in {} |-> Frame(Nobody, 0, Root)]

Begin(w, k) ==
    LET used == written(cell, w, Data(0, Items))
        C == IF k = "reduce" THEN {Acc(0)} ELSE {}
        rh == IF k = "invoke" THEN Nobody ELSE release_lazy(cell', w)
    IN /\ Serial(w)
       /\ kind' = k
       /\ stale' = (stale \/ MissesNewest(cell, w, Data(0, Items)) \/ Overtaken(used, w, C))
       /\ cell' = written(used, w, C)
       /\ frames' = WithFrame(NoFrames, Root, Frame(rh, 0, Root))
       /\ UNCHANGED <<runs, wsq, dead>>

Finish(w) ==
    LET C == Data(0, Items) \cup (IF kind = "reduce" THEN {Acc(0)} ELSE {})
    IN /\ At(w, "return") /\ runs[w] = Root
       /\ kind' = "serial"
       /\ stale' = (stale \/ MissesNewest(cell, w, C))
       /\ cell' = written(cell, w, C)
       /\ frames' = NoFrames
       /\ UNCHANGED <<runs, wsq, dead>>

(* migrate_to(): release, move, acquire.                                      *)
migrate_to(w, v) ==
    /\ Serial(w) /\ v # w
    /\ cell' = acquired(released(cell, {w}), v, Nobody)
    /\ runs' = [runs EXCEPT ![w] = Nobody, ![v] = Root]
    /\ UNCHANGED <<kind, wsq, frames, dead, stale>>

(* The cells are dealt out to one or two of the workers.                      *)
Distributions ==
    {[c \in Data(0, Items) |-> IF c[2] % 2 = 0 THEN u ELSE v] : u \in Workers, v \in Workers}

(* Each worker uses its own cells between an acquire and a release.  They go  *)
(* in any order: what another one has not written back may be missed.         *)
MissesSomewhere(cs, own) == \E c \in Data(0, Items) : cs[c].dirty \ {own[c]} # {}

everywhere(own) ==
    [c \in Locations |-> [fresh |-> IF c \in Data(0, Items) THEN {own[c]} ELSE {},
                          dirty |-> {}, old |-> {}]]

(* coll_exec() on the root thread.                                            *)
coll_exec(w, own) ==
    /\ Serial(w)
    /\ stale' = (stale \/ MissesSomewhere(released(cell, {w}), own))
    /\ cell' = acquired(everywhere(own), w, Nobody)
    /\ UNCHANGED <<kind, runs, wsq, frames, dead>>

(* The end of root_exec() and the beginning of the next one on rank v: all    *)
(* release, meet, use their cells in the SPMD region between, release, meet   *)
(* and acquire.                                                               *)
NoCopies == [c \in Locations |-> [fresh |-> {}, old |-> {}, dirty |-> {}]]

root_exec(w, v, own) ==
    /\ Serial(w)
    /\ stale' = (stale \/ MissesSomewhere(released(cell, Workers), own))
    /\ cell' = NoCopies
    /\ runs' = [u \in Workers |-> IF u = v THEN Root ELSE Nobody]
    /\ UNCHANGED <<kind, wsq, frames, dead>>

(* Evictions write back at any time.                                          *)
WriteBack(w) ==
    /\ HasDirty(cell, w)
    /\ cell' = released(cell, {w})
    /\ frames' = honoured(frames, {w})
    /\ UNCHANGED <<kind, runs, wsq, dead, stale>>

FjInit ==
    /\ kind = "serial"
    /\ \E w \in Workers : runs = [u \in Workers |-> IF u = w THEN Root ELSE Nobody]
    /\ wsq = [w \in Workers |-> <<>>]
    /\ frames = NoFrames
    /\ dead = {}
    /\ cell = NoCopies
    /\ stale = FALSE

Step(w) ==
    \/ Leaf(w) \/ ForkCall(w) \/ ReturnCall(w)
    \/ JoinSerialized(w) \/ JoinEnded(w) \/ JoinWait(w)
    \/ DieSerialized(w) \/ DieApart(w) \/ DieResuming(w)
    \/ Finish(w) \/ WriteBack(w)
    \/ \E v \in Workers \ {w} : StealFrom(w, v) \/ migrate_to(w, v)
    \/ \E k \in {"loop", "invoke", "reduce"} : Begin(w, k)
    \/ \E own \in Distributions : coll_exec(w, own)
    \/ \E own \in Distributions, v \in Workers : root_exec(w, v, own)

FjNext == \E w \in Workers : Step(w)

FjSpec == FjInit /\ [][FjNext]_fjVars

(* Every access of the patterns and of the serial parts sees the newest write *)
(* to its cell, and no write is undone by the write-back of an older one,     *)
(* whichever continuations are stolen: the fences the patterns leave out on   *)
(* the serialized path are not needed, and the ones at steals and joins are   *)
(* enough.                                                                    *)
ReadsLatest == ~stale

================================================================================
