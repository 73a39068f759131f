---------------------------- MODULE ForkJoinProofs ----------------------------
(* Every access of the patterns sees the newest data, for any number of       *)
(* workers and of elements.                                                   *)
(*                                                                            *)
(* The calls under way form a tree, and at each time every cell is owned by   *)
(* one of them: the innermost whose range has it, or, if it is an             *)
(* accumulator in use, the one that would return it.  Only the owner's code   *)
(* uses the cell.  A call is whole as long as nothing inside it was stolen;   *)
(* then one worker at most is busy in it, and that one sees the newest value  *)
(* of all that the call owns.  What is dirty is always dirty at a worker that *)
(* is still busy inside the owner, and, for a call in a queue, at the worker  *)
(* that its release handler names.  So the fences at the steal, at the end of *)
(* a separated thread and at its join are enough.                             *)
EXTENDS ForkJoin, SequenceTheorems, WellFoundedInduction, TLAPS

--------------------------------------------------------------------------------
(* Ranges.                                                                    *)
Nodes == {n \in (0 .. Items) \X (0 .. Items) : n[1] < n[2]}
Split(n) == n[2] - n[1] > 1
In(m, n) == n[1] <= m[1] /\ m[2] <= n[2]
Apart(m, n) == m[2] <= n[1] \/ n[2] <= m[1]

(* A set A of ranges, of which those in R have called their right halves.     *)
Below(m, n, A, R) ==
    \/ In(m, LeftHalf(n)) /\ LeftHalf(n) \in A
    \/ In(m, RightHalf(n)) /\ n \in R

Related(m, n, A, R) == m = n \/ Apart(m, n) \/ Below(m, n, A, R) \/ Below(n, m, A, R)

(* The ranges are cut out of each other: two of them are apart, or one is in  *)
(* a half of the other, and that half has been called itself.                 *)
Tree(A, R) ==
    /\ A \subseteq Nodes /\ R \subseteq A
    /\ \A n \in R : Split(n) /\ RightHalf(n) \in A
    /\ \A m, n \in A : Related(m, n, A, R)

(* A nonempty set of natural numbers has a least element.                     *)
LEMMA LeastElement ==
    ASSUME NEW S \in SUBSET Nat, S # {}
    PROVE  \E x \in S : \A y \in S : x <= y
<1> DEFINE L == OpToRel(<, Nat)
<1>1. IsWellFoundedOn(L, Nat)
  BY NatLessThanWellFounded, Zenon
<1>2. \A x, y \in Nat : x < y => <<x, y>> \in L
  BY DEF OpToRel
<1> HIDE DEF L
<1>3. PICK x \in S : \A y \in S : ~(<<y, x>> \in L)
  BY <1>1, WFMin, Zenon
<1>4. \A y \in S : ~(y < x)
  BY <1>2, <1>3
<1>. QED BY <1>4

(* The two ends of a range are numbers.                                       *)
LEMMA NodeFacts ==
    ASSUME NEW n \in Nodes
    PROVE  /\ n[1] \in Nat /\ n[2] \in Nat /\ n[1] < n[2] /\ n = <<n[1], n[2]>>
           /\ Items \in Nat /\ n[2] <= Items
BY WorkersAssumption DEF Nodes

(* The halves of a range are ranges if it has two elements or more.           *)
LEMMA Halves ==
    ASSUME NEW n \in Nodes
    PROVE  /\ mid(n) \in Nat /\ mid(n) <= n[2]
           /\ LeftHalf(n)[1] = n[1] /\ LeftHalf(n)[2] = mid(n)
           /\ RightHalf(n)[1] = mid(n) /\ RightHalf(n)[2] = n[2]
           /\ Split(n) => /\ n[1] < mid(n) /\ mid(n) < n[2]
                          /\ LeftHalf(n) \in Nodes /\ RightHalf(n) \in Nodes
           /\ LeftHalf(n) \in Nodes => Split(n)
<1>1. PICK a \in Nat, b \in Nat : n = <<a, b>> /\ a < b /\ b <= Items /\ Items \in Nat
  BY NodeFacts
<1>2. mid(n) = a + (b - a) \div 2
  BY <1>1 DEF mid
<1>3. mid(n) \in Nat /\ mid(n) <= b /\ (b - a > 1 => a < mid(n) /\ mid(n) < b) /\ (a < mid(n) => b - a > 1)
  BY <1>1, <1>2
<1>4. LeftHalf(n) = <<a, mid(n)>> /\ RightHalf(n) = <<mid(n), b>> /\ (Split(n) <=> b - a > 1)
  BY <1>1 DEF LeftHalf, RightHalf, Split
<1>5. LeftHalf(n) \in Nodes => a < mid(n)
  BY <1>4 DEF Nodes
<1>. QED BY <1>1, <1>3, <1>4, <1>5 DEF Nodes

(* What lies in a range that lies in another lies in the other.               *)
LEMMA InTrans ==
    ASSUME NEW l \in Nodes, NEW m \in Nodes, NEW n, n[1] \in Nat, n[2] \in Nat, In(l, m), In(m, n)
    PROVE  In(l, n)
BY NodeFacts DEF In

(* The left half of what lies in a range lies in it too.                      *)
LEMMA HalfIn ==
    ASSUME NEW m \in Nodes, NEW n, n[1] \in Nat, n[2] \in Nat, In(m, n)
    PROVE  In(LeftHalf(m), n)
<1>1. LeftHalf(m)[1] = m[1] /\ LeftHalf(m)[2] \in Nat /\ LeftHalf(m)[2] <= m[2] /\ m[1] \in Nat /\ m[2] \in Nat
  BY Halves, NodeFacts
<1>. QED BY <1>1 DEF In

(* If the left half of a range is the half of another, it is the same range.  *)
LEMMA LeftOfOne ==
    ASSUME NEW A, NEW R, Tree(A, R), NEW m \in A, NEW n \in A, Split(m), Split(n)
    PROVE  /\ LeftHalf(m) = LeftHalf(n) => m = n
           /\ LeftHalf(m) = RightHalf(n) /\ n \notin R => FALSE
           /\ mid(m) = mid(n) => m = n
<1>1. m \in Nodes /\ n \in Nodes /\ Related(m, n, A, R)
  BY DEF Tree
<1>2. /\ m[1] \in Nat /\ m[2] \in Nat /\ mid(m) \in Nat /\ m[1] < mid(m) /\ mid(m) < m[2]
      /\ n[1] \in Nat /\ n[2] \in Nat /\ mid(n) \in Nat /\ n[1] < mid(n) /\ mid(n) < n[2]
  BY <1>1, NodeFacts, Halves
<1>3. ASSUME LeftHalf(m) = LeftHalf(n) PROVE m = n
  <2>1. m[1] = n[1] /\ mid(m) = mid(n)
    BY <1>1, <1>3, Halves
  <2>. QED BY <1>1, <1>2, <2>1, Halves DEF Related, Below, Apart, In
<1>4. ASSUME LeftHalf(m) = RightHalf(n), n \notin R PROVE FALSE
  <2>1. m[1] = mid(n) /\ mid(m) = n[2]
    BY <1>1, <1>4, Halves
  <2>. QED BY <1>1, <1>2, <1>4, <2>1, Halves DEF Related, Below, Apart, In
<1>5. ASSUME mid(m) = mid(n) PROVE m = n
  BY <1>1, <1>2, <1>5, Halves DEF Related, Below, Apart, In
<1>. QED BY <1>3, <1>4, <1>5

(* The two halves of a range differ.                                          *)
LEMMA RightIsNotLeft ==
    ASSUME NEW u \in Nodes, Split(u), NEW n, n = RightHalf(u)
    PROVE  LeftHalf(u) # n /\ n[2] = u[2]
BY Halves, NodeFacts

(* Nothing is inside a range that has called neither of its halves.           *)
LEMMA NoneInside ==
    ASSUME NEW A, NEW R, Tree(A, R), NEW n \in A, n \notin R, LeftHalf(n) \notin A,
           NEW x \in A, In(x, n)
    PROVE  x = n
<1>1. x \in Nodes /\ n \in Nodes /\ Related(x, n, A, R)
  BY DEF Tree
<1>2. LeftHalf(x) \in A => Split(x)
  BY <1>1, Halves DEF Tree
<1>3. x \in R => Split(x)
  BY DEF Tree
<1>. QED BY <1>1, <1>2, <1>3, NodeFacts, Halves DEF Related, Below, Apart, In

(* No range lies in a half that was not called.                               *)
LEMMA NoneInHalf ==
    ASSUME NEW A, NEW R, Tree(A, R), NEW n \in A, Split(n), NEW x \in A
    PROVE  /\ LeftHalf(n) \notin A => ~In(x, LeftHalf(n))
           /\ n \notin R => ~In(x, RightHalf(n))
<1>1. x \in Nodes /\ n \in Nodes /\ Related(x, n, A, R)
  BY DEF Tree
<1>2. LeftHalf(x) \in A => Split(x)
  BY <1>1, Halves DEF Tree
<1>3. x \in R => Split(x)
  BY DEF Tree
<1>. QED BY <1>1, <1>2, <1>3, NodeFacts, Halves DEF Related, Below, Apart, In

(* A range that contains a half of n, other than the half itself, contains n. *)
LEMMA AroundHalf ==
    ASSUME NEW A, NEW R, Tree(A, R), NEW n \in A, Split(n), NEW x \in A
    PROVE  /\ In(LeftHalf(n), x) => x = LeftHalf(n) \/ In(n, x)
           /\ In(RightHalf(n), x) => x = RightHalf(n) \/ In(n, x)
<1>1. x \in Nodes /\ n \in Nodes /\ Related(x, n, A, R)
  BY DEF Tree
<1>2. LeftHalf(x) \in A => Split(x)
  BY <1>1, Halves DEF Tree
<1>3. x \in R => Split(x)
  BY DEF Tree
<1>4. /\ LeftHalf(n) = <<n[1], mid(n)>> /\ RightHalf(n) = <<mid(n), n[2]>> /\ x = <<x[1], x[2]>>
  BY <1>1, NodeFacts DEF LeftHalf, RightHalf
<1>. QED BY <1>1, <1>2, <1>3, <1>4, NodeFacts, Halves DEF Related, Below, Apart, In

(* The tree with the left half of n, which nothing was called in before.      *)
LEMMA TreeAddLeft ==
    ASSUME NEW A, NEW R, Tree(A, R), NEW n \in A, Split(n), LeftHalf(n) \notin A
    PROVE  Tree(A \cup {LeftHalf(n)}, R)
<1> DEFINE z == LeftHalf(n)
           B == A \cup {z}
<1>1. n \in Nodes /\ z \in Nodes /\ B \subseteq Nodes /\ R \subseteq B /\ \A k \in R : Split(k) /\ RightHalf(k) \in B
  BY Halves DEF Tree
<1>2. ASSUME NEW m \in A PROVE Related(m, z, B, R) /\ Related(z, m, B, R)
  <2>1. m \in Nodes /\ Related(m, n, A, R) /\ ~In(m, z)
    BY NoneInHalf DEF Tree
  <2>2. (LeftHalf(m) \in A => Split(m)) /\ (m \in R => Split(m))
    BY <2>1, Halves DEF Tree
  <2>. QED BY <1>1, <2>1, <2>2, NodeFacts, Halves DEF Related, Below, Apart, In
<1>3. \A m, k \in A : Related(m, k, B, R)
  BY DEF Tree, Related, Below
<1>4. Related(z, z, B, R)
  BY DEF Related
<1>5. \A m, k \in B : Related(m, k, B, R)
  BY <1>2, <1>3, <1>4
<1>. QED BY <1>1, <1>5 DEF Tree

(* The tree with the right half of n.                                         *)
LEMMA TreeAddRight ==
    ASSUME NEW A, NEW R, Tree(A, R), NEW n \in A, Split(n), n \notin R
    PROVE  Tree(A \cup {RightHalf(n)}, R \cup {n})
<1> DEFINE z == RightHalf(n)
           B == A \cup {z}
           S == R \cup {n}
<1>1. n \in Nodes /\ z \in Nodes /\ B \subseteq Nodes /\ S \subseteq B /\ \A k \in S : Split(k) /\ RightHalf(k) \in B
  BY Halves DEF Tree
<1>2. ASSUME NEW m \in A PROVE Related(m, z, B, S) /\ Related(z, m, B, S)
  <2>1. m \in Nodes /\ Related(m, n, A, R) /\ ~In(m, z)
    BY NoneInHalf DEF Tree
  <2>2. (LeftHalf(m) \in A => Split(m)) /\ (m \in R => Split(m))
    BY <2>1, Halves DEF Tree
  <2>. QED BY <1>1, <2>1, <2>2, NodeFacts, Halves DEF Related, Below, Apart, In
<1>3. \A m, k \in A : Related(m, k, B, S)
  BY DEF Tree, Related, Below
<1>4. Related(z, z, B, S)
  BY DEF Related
<1>5. \A m, k \in B : Related(m, k, B, S)
  BY <1>2, <1>3, <1>4
<1>. QED BY <1>1, <1>5 DEF Tree

(* The tree without a range that has called nothing.                          *)
LEMMA TreeRemove ==
    ASSUME NEW A, NEW R, Tree(A, R), NEW n \in A, n \notin R, LeftHalf(n) \notin A,
           NEW S, S \subseteq R, \A k \in R : k \in S <=> RightHalf(k) # n
    PROVE  Tree(A \ {n}, S)
<1> DEFINE B == A \ {n}
<1>1. B \subseteq Nodes /\ S \subseteq B /\ \A k \in S : Split(k) /\ RightHalf(k) \in B
  BY DEF Tree
<1>2. \A m \in B : ~In(m, n)
  BY NoneInside
<1>3. ASSUME NEW m \in B, NEW k \in B, Below(m, k, A, R) PROVE Below(m, k, B, S)
  BY <1>2, <1>3 DEF Below
<1>4. ASSUME NEW m \in B, NEW k \in B PROVE Related(m, k, B, S)
  BY <1>3 DEF Tree, Related
<1>. QED BY <1>1, <1>4 DEF Tree

(* Two ranges that are apart have been called, directly or not, from the two  *)
(* halves of one range.                                                       *)
LEMMA CommonCaller ==
    ASSUME NEW A, NEW R, Tree(A, R), NEW r \in A, \A n \in A : In(n, r),
           NEW x \in A, NEW y \in A, Apart(x, y)
    PROVE  \E z \in R : /\ LeftHalf(z) \in A
                        /\ \/ In(x, LeftHalf(z)) /\ In(y, RightHalf(z))
                           \/ In(y, LeftHalf(z)) /\ In(x, RightHalf(z))
<1> DEFINE Z == {z \in A : In(x, z) /\ In(y, z)}
           L == {z[2] - z[1] : z \in Z}
<1>1. r \in Z /\ L # {}
  OBVIOUS
<1>2. L \in SUBSET Nat
  BY NodeFacts DEF Tree
<1>3. PICK s \in L : \A t \in L : s <= t
  BY <1>1, <1>2, LeastElement
<1>4. PICK z \in Z : s = z[2] - z[1]
  BY <1>3
<1>5. ASSUME NEW k \in Z PROVE z[2] - z[1] <= k[2] - k[1]
  BY <1>3, <1>4
<1>6. /\ x \in Nodes /\ y \in Nodes /\ z \in Nodes
      /\ Related(x, z, A, R) /\ Related(y, z, A, R)
      /\ LeftHalf(x) \in A => LeftHalf(x) \in Nodes
      /\ LeftHalf(y) \in A => LeftHalf(y) \in Nodes
      /\ LeftHalf(z) \in A => LeftHalf(z) \in Nodes
      /\ (x \in R => Split(x)) /\ (y \in R => Split(y)) /\ (z \in R => Split(z))
  BY <1>4 DEF Tree
<1>7. Below(x, z, A, R) /\ Below(y, z, A, R)
  BY <1>4, <1>6, NodeFacts, Halves DEF Related, Below, Apart, In
<1>8. ASSUME In(x, LeftHalf(z)), In(y, LeftHalf(z)), LeftHalf(z) \in A PROVE FALSE
  <2>1. LeftHalf(z) \in Z
    BY <1>8
  <2>. QED BY <1>5, <1>6, <1>8, <2>1, NodeFacts, Halves
<1>9. ASSUME In(x, RightHalf(z)), In(y, RightHalf(z)), z \in R PROVE FALSE
  <2>1. RightHalf(z) \in Z
    BY <1>9 DEF Tree
  <2>. QED BY <1>5, <1>6, <1>9, <2>1, NodeFacts, Halves
<1>. QED BY <1>4, <1>7, <1>8, <1>9 DEF Below

--------------------------------------------------------------------------------
(* The invariant of the control.                                              *)
Places == {"call", "forked", "rest", "join", "wait", "return"}
Frames == [rh : Workers \cup {Nobody}, acc : 0 .. (Items - 1), up : Nodes, at : Places, ser : BOOLEAN]
Cells == [fresh : SUBSET Workers, old : SUBSET Workers, dirty : SUBSET Workers]

Active == DOMAIN frames
Resting == {n \in Active : frames[n].at = "rest"}

(* The child of n was separated from it by a steal, and not joined yet.       *)
Sep(n) == frames[n].at \in {"rest", "join", "wait"} /\ ~frames[n].ser

(* Nothing inside n was stolen, as far as it was not joined again.            *)
Whole(n) == \A m \in Active : In(m, n) => ~Sep(m)

(* The workers that execute a call inside n.                                  *)
Busy(n) == {w \in Workers : runs[w] # Nobody /\ In(runs[w], n)}

TypeOK ==
    /\ kind \in {"serial", "loop", "invoke", "reduce"}
    /\ runs \in [Workers -> Nodes \cup {Nobody}]
    /\ wsq \in [Workers -> Seq(Nodes)]
    /\ Active \subseteq Nodes /\ frames \in [Active -> Frames]
    /\ dead \subseteq Nodes
    /\ cell \in [Locations -> Cells]
    /\ stale \in BOOLEAN

(* Where a call is, and which halves it has called.                           *)
FrameOK(n) ==
    /\ \/ n = Root
       \/ /\ frames[n].up \in Active /\ Split(frames[n].up)
          /\ \/ n = LeftHalf(frames[n].up)
             \/ n = RightHalf(frames[n].up) /\ frames[frames[n].up].at = "rest"
    /\ frames[n].at = "rest" => frames[RightHalf(n)].up = n
    /\ LeftHalf(n) \in Active => frames[LeftHalf(n)].up = n
    /\ frames[n].at \in {"forked", "join", "wait"} => Split(n)
    /\ frames[n].at \in {"forked", "wait"} => LeftHalf(n) \in Active
    /\ frames[n].at \in {"call", "return"} \/ frames[n].ser => LeftHalf(n) \notin Active
    /\ frames[n].at = "call" => ~frames[n].ser

Shape ==
    /\ Root \in Active
    /\ Tree(Active, Resting)
    /\ \A n \in Active : FrameOK(n)

(* The workers execute different calls.                                       *)
Running ==
    /\ \A v \in Workers : runs[v] # Nobody =>
         runs[v] \in Active /\ frames[runs[v]].at \in {"call", "return", "join"}
    /\ \A u, v \in Workers : runs[u] = runs[v] => u = v \/ runs[u] = Nobody

(* What follows the entry i of v's queue: the next entry, or the call that v  *)
(* executes.                                                                  *)
Follower(v, i) == IF i = Len(wsq[v]) THEN runs[v] ELSE wsq[v][i + 1]

(* The entries of a queue are nested, each in the left half of the one        *)
(* before it and at its right end.                                            *)
EntryOK(v, i) ==
    /\ wsq[v][i] \in Active /\ frames[wsq[v][i]].at = "forked"
    /\ runs[v] # Nobody /\ In(runs[v], LeftHalf(wsq[v][i]))
    /\ \A j \in 1 .. Len(wsq[v]) : i < j => In(wsq[v][j], LeftHalf(wsq[v][i]))
    /\ Follower(v, i)[2] = mid(wsq[v][i])

Queues == \A v \in Workers : \A i \in 1 .. Len(wsq[v]) : EntryOK(v, i)

(* A call whose continuation waits in a queue is whole.                       *)
Forks ==
    \A n \in Active : frames[n].at = "forked" =>
        Whole(n) /\ \E v \in Workers : \E i \in 1 .. Len(wsq[v]) : n = wsq[v][i]

(* The dead are the children, not yet joined, of separated calls.             *)
Deaths ==
    /\ \A d \in dead : d \notin Active /\ \E n \in Active : Sep(n) /\ d = LeftHalf(n)
    /\ \A n \in Active : Sep(n) => LeftHalf(n) \in Active \/ LeftHalf(n) \in dead

--------------------------------------------------------------------------------
(* How the frames change, apart from the handlers.                            *)
Keeps(u) ==
    /\ frames'[u].at = frames[u].at /\ frames'[u].ser = frames[u].ser
    /\ frames'[u].acc = frames[u].acc /\ frames'[u].up = frames[u].up

Sets(u, a, s) ==
    /\ frames'[u].at = a /\ frames'[u].ser = s
    /\ frames'[u].acc = frames[u].acc /\ frames'[u].up = frames[u].up

IsNew(u, up, acc) ==
    /\ frames'[u].at = "call" /\ frames'[u].ser = FALSE
    /\ frames'[u].acc = acc /\ frames'[u].up = up

(* n goes to the place a.                                                     *)
Moves(n, a) ==
    /\ Active' = Active
    /\ \A u \in Active \ {n} : Keeps(u)
    /\ Sets(n, a, frames[n].ser)

(* n ends, and up goes to the place a.                                        *)
Ends(n, up, a) ==
    /\ Active' = Active \ {n}
    /\ \A u \in Active \ {n, up} : Keeps(u)
    /\ Sets(up, a, frames[up].ser)

(* n forks.                                                                   *)
Forking(n) ==
    /\ Active' = Active \cup {LeftHalf(n)}
    /\ \A u \in Active \ {n} : Keeps(u)
    /\ Sets(n, "forked", frames[n].ser)
    /\ IsNew(LeftHalf(n), n, frames[n].acc)

(* n calls its right half.                                                    *)
Resumes(n, gone, s, acc) ==
    /\ Active' = (Active \ gone) \cup {RightHalf(n)}
    /\ \A u \in Active \ (gone \cup {n}) : Keeps(u)
    /\ Sets(n, "rest", s)
    /\ IsNew(RightHalf(n), n, acc)

(* The shape when a call moves to another place.                              *)
LEMMA ShapeMoves ==
    ASSUME TypeOK, Shape, NEW n \in Active, NEW a \in Places, Moves(n, a), a # "rest",
           frames[n].at # "rest",
           a \in {"forked", "join", "wait"} => Split(n),
           a \in {"forked", "wait"} => LeftHalf(n) \in Active,
           a \in {"call", "return"} => LeftHalf(n) \notin Active,
           a = "call" => frames[n].at = "call"
    PROVE  Shape'
<1>1. Active' = Active /\ Resting' = Resting
  BY DEF Moves, Keeps, Sets, Resting
<1>2. ASSUME NEW u \in Active PROVE FrameOK(u)'
  <2>1. frames'[u].up = frames[u].up /\ frames'[u].ser = frames[u].ser
    BY DEF Moves, Keeps, Sets
  <2>2. frames[u].at = "rest" <=> frames'[u].at = "rest"
    BY DEF Moves, Keeps, Sets
  <2>3. \A k \in Active : frames'[k].up = frames[k].up
    BY DEF Moves, Keeps, Sets
  <2>4. \A k \in Active : frames[k].at = "rest" => RightHalf(k) \in Active /\ frames'[k].at = "rest"
    BY DEF Moves, Keeps, Sets, Shape, Tree, Resting
  <2>5. FrameOK(u)
    BY DEF Shape
  <2>6. CASE u = n
    BY <1>1, <2>1, <2>3, <2>4, <2>5, <2>6 DEF FrameOK, Moves, Sets
  <2>7. CASE u # n
    <3>1. frames'[u].at = frames[u].at
      BY <2>7 DEF Moves, Keeps
    <3>. QED BY <1>1, <2>1, <2>3, <2>4, <2>5, <3>1 DEF FrameOK
  <2>. QED BY <2>6, <2>7
<1>. QED BY <1>1, <1>2 DEF Shape

(* A call ends: it returns to its caller, or it is a thread that ends apart   *)
(* from its parent, or while that one waits.                                  *)
EndsWell(n, up, a) ==
    \/ n = RightHalf(up) /\ frames[up].at = "rest" /\ a = "join"
    \/ n = LeftHalf(up) /\ frames[up].at \in {"rest", "join"} /\ a = frames[up].at
    \/ n = LeftHalf(up) /\ frames[up].at = "wait" /\ a = "return"

(* The shape when a call ends.                                                *)
LEMMA ShapeEnds ==
    ASSUME TypeOK, Shape, NEW n \in Active, n # Root, frames[n].at = "return",
           NEW up, up = frames[n].up, NEW a \in Places, Ends(n, up, a), EndsWell(n, up, a)
    PROVE  Shape'
<1>1. up \in Active /\ Split(up) /\ up \in Nodes /\ n \in Nodes /\ FrameOK(up)
  BY DEF Shape, FrameOK, TypeOK
<1>2. LeftHalf(up) # RightHalf(up) /\ up # n
  BY <1>1, Halves, NodeFacts DEF EndsWell
<1>3. LeftHalf(n) \notin Active /\ n \notin Resting
  BY DEF Shape, FrameOK, Resting
<1>4. ASSUME NEW k \in Active, frames[k].at = "rest", RightHalf(k) = n
      PROVE  k = up /\ frames'[k].at # "rest"
  <2>1. k = up
    BY <1>4 DEF Shape, FrameOK
  <2>. QED BY <1>2, <1>4, <2>1 DEF EndsWell, Ends, Sets
<1>5. ASSUME NEW k \in Active, k # n, frames[k].at = "rest", RightHalf(k) # n
      PROVE  frames'[k].at = "rest"
  BY <1>1, <1>2, <1>5 DEF Ends, Keeps, Sets, EndsWell
<1>6. ASSUME NEW k \in Active, k # n, frames'[k].at = "rest"
      PROVE  frames[k].at = "rest"
  BY <1>1, <1>2, <1>6 DEF Ends, Keeps, Sets, EndsWell
<1>7. Active' = Active \ {n} /\ up \in Active'
  BY <1>1, <1>2 DEF Ends
<1>8. Resting' \subseteq Resting /\ \A k \in Resting : k \in Resting' <=> RightHalf(k) # n
  BY <1>3, <1>4, <1>5, <1>6, <1>7 DEF Resting
<1>9. Tree(Active', Resting')
  <2>1. Tree(Active, Resting)
    BY DEF Shape
  <2>. QED BY <1>3, <1>7, <1>8, <2>1, TreeRemove
<1>10. ASSUME NEW u \in Active'
       PROVE  FrameOK(u)'
  <2>1. u \in Active /\ u # n /\ FrameOK(u)
    BY <1>7 DEF Shape
  <2>2. \A k \in Active' : frames'[k].up = frames[k].up /\ frames'[k].ser = frames[k].ser
    BY <1>1, <1>7 DEF Ends, Keeps, Sets
  <2>3. u = Root \/ /\ frames'[u].up \in Active' /\ Split(frames'[u].up)
                    /\ \/ u = LeftHalf(frames'[u].up)
                       \/ u = RightHalf(frames'[u].up) /\ frames'[frames'[u].up].at = "rest"
    <3>1. SUFFICES ASSUME u # Root PROVE /\ frames[u].up \in Active' /\ Split(frames[u].up)
                    /\ \/ u = LeftHalf(frames[u].up)
                       \/ u = RightHalf(frames[u].up) /\ frames'[frames[u].up].at = "rest"
      BY <2>2
    <3>2. frames[u].up \in Active /\ frames[u].up # n
      BY <2>1, <3>1, <1>3 DEF FrameOK
    <3>. QED BY <1>5, <1>7, <2>1, <3>1, <3>2 DEF FrameOK
  <2>4. frames'[u].at = "rest" => frames'[RightHalf(u)].up = u
    BY <1>4, <1>6, <1>7, <2>1, <2>2 DEF FrameOK, Shape, Tree, Resting
  <2>5. LeftHalf(u) \in Active' => frames'[LeftHalf(u)].up = u
    BY <1>7, <2>1, <2>2 DEF FrameOK
  <2>6. frames'[u].at \in {"forked", "join", "wait"} => Split(u)
    BY <1>1, <2>1 DEF FrameOK, Ends, Keeps
  <2>7. frames'[u].at \in {"forked", "wait"} => LeftHalf(u) \in Active'
    <3>1. u # up => LeftHalf(u) # n
      BY <1>1, <2>1 DEF FrameOK
    <3>2. CASE u # up
      BY <1>7, <2>1, <3>1, <3>2 DEF FrameOK, Ends, Keeps
    <3>3. CASE u = up
      BY <3>3 DEF Ends, Sets, EndsWell
    <3>. QED BY <3>2, <3>3
  <2>8. frames'[u].at \in {"call", "return"} \/ frames'[u].ser => LeftHalf(u) \notin Active'
    <3>1. CASE u # up
      BY <1>7, <2>1, <3>1 DEF FrameOK, Ends, Keeps
    <3>2. CASE u = up
      BY <1>7, <2>1, <3>2 DEF Ends, Sets, EndsWell, FrameOK
    <3>. QED BY <3>1, <3>2
  <2>9. frames'[u].at = "call" => ~frames'[u].ser
    BY <2>1, <1>1 DEF FrameOK, Ends, Keeps, Sets, EndsWell
  <2>. QED BY <2>3, <2>4, <2>5, <2>6, <2>7, <2>8, <2>9 DEF FrameOK
<1>11. Root \in Active'
  BY <1>7 DEF Shape
<1>. QED BY <1>9, <1>10, <1>11 DEF Shape

(* The shape when a call forks.                                               *)
LEMMA ShapeForking ==
    ASSUME TypeOK, Shape, NEW n \in Active, frames[n].at = "call", Split(n), Forking(n)
    PROVE  Shape'
<1> DEFINE z == LeftHalf(n)
<1>1. z \notin Active /\ n \in Nodes /\ z \in Nodes /\ n # z /\ ~frames[n].ser
  BY Halves, NodeFacts DEF Shape, FrameOK, TypeOK
<1>2. Active' = Active \cup {z} /\ Resting' = Resting
  BY <1>1 DEF Forking, Keeps, Sets, IsNew, Resting
<1>3. Tree(Active, Resting) /\ n \notin Resting
  BY DEF Shape, Resting
<1>4. Tree(Active', Resting')
  BY <1>1, <1>2, <1>3, TreeAddLeft
<1>5. LeftHalf(z) \notin Active'
  <2>1. LeftHalf(z) \in Active => In(LeftHalf(z), z)
    BY <1>1, Halves, NodeFacts DEF In, Shape, Tree
  <2>2. LeftHalf(z) # z
    BY <1>1, Halves, NodeFacts
  <2>. QED BY <1>1, <1>2, <1>3, <2>1, <2>2, NoneInHalf
<1>6. \A k \in Active : LeftHalf(k) = z => k = n
  <2>1. \A k \in Active : LeftHalf(k) = z => Split(k)
    BY <1>1, Halves DEF Shape, Tree
  <2>. QED BY <1>3, <2>1, LeftOfOne
<1>7. \A k \in Active : frames'[k].up = frames[k].up /\ frames'[k].ser = frames[k].ser
  BY DEF Forking, Keeps, Sets
<1>8. ASSUME NEW u \in Active PROVE FrameOK(u)'
  <2>1. FrameOK(u) /\ frames[u].at = "rest" => RightHalf(u) \in Active
    BY DEF Shape, Tree, Resting
  <2>2. FrameOK(u)
    BY DEF Shape
  <2>3. \A k \in Active : frames[k].at = "rest" <=> frames'[k].at = "rest"
    BY DEF Forking, Keeps, Sets
  <2>4. CASE u = n
    BY <1>1, <1>2, <1>7, <2>2, <2>3, <2>4 DEF FrameOK, Forking, Sets, IsNew
  <2>5. CASE u # n
    <3>1. frames'[u].at = frames[u].at /\ LeftHalf(u) # z
      BY <1>6, <2>5 DEF Forking, Keeps
    <3>. QED BY <1>1, <1>2, <1>7, <2>1, <2>2, <2>3, <3>1 DEF FrameOK
  <2>. QED BY <2>4, <2>5
<1>9. FrameOK(z)'
  BY <1>1, <1>2, <1>5 DEF FrameOK, Forking, IsNew
<1>. QED BY <1>2, <1>4, <1>8, <1>9 DEF Shape

(* The shape when the continuation of a fork goes on: its child is elsewhere, *)
(* or has just ended.                                                         *)
LEMMA ShapeResumes ==
    ASSUME TypeOK, Shape, NEW n \in Active, frames[n].at = "forked",
           NEW gone, NEW s \in BOOLEAN, NEW acc, Resumes(n, gone, s, acc),
           \/ gone = {} /\ ~s
           \/ gone = {LeftHalf(n)} /\ s /\ frames[LeftHalf(n)].at = "return"
    PROVE  Shape'
<1> DEFINE z == RightHalf(n)
           y == LeftHalf(n)
           A == Active \ gone
<1>1. /\ y \in Active /\ n \in Nodes /\ z \in Nodes /\ Split(n) /\ FrameOK(y) /\ FrameOK(n)
      /\ n # y /\ n # z /\ z # y /\ y # Root /\ z # Root /\ frames[y].up = n
  BY Halves, NodeFacts DEF Shape, FrameOK, TypeOK, Root
<1>2. Tree(Active, Resting) /\ n \notin Resting
  BY DEF Shape, Resting
<1>3. \A x \in Active : ~In(x, z)
  BY <1>1, <1>2, NoneInHalf
<1>4. z \notin Active
  BY <1>1, <1>3, NodeFacts DEF In
<1>5. Active' = A \cup {z} /\ Resting' = Resting \cup {n}
  <2>1. y \in Active /\ gone \subseteq {y} /\ (gone # {} => frames[y].at = "return")
    BY <1>1
  <2>. QED BY <1>1, <1>4, <2>1 DEF Resumes, Keeps, Sets, IsNew, Resting
<1>6. gone # {} => y \notin Resting /\ LeftHalf(y) \notin Active
  BY <1>1 DEF Resting, FrameOK
<1>7. Tree(A, Resting)
  <2>1. CASE gone = {}
    BY <1>2, <2>1
  <2>2. CASE gone # {}
    <3>1. \A k \in Resting : RightHalf(k) # y
      BY <1>1, <1>2 DEF Shape, FrameOK, Resting
    <3>. QED BY <1>1, <1>2, <1>6, <2>2, <3>1, TreeRemove
  <2>. QED BY <2>1, <2>2
<1>8. Tree(Active', Resting')
  BY <1>1, <1>2, <1>5, <1>7, TreeAddRight
<1>9. LeftHalf(z) \notin Active'
  <2>1. LeftHalf(z) \in Active => In(LeftHalf(z), z)
    BY <1>1, Halves, NodeFacts DEF In, Shape, Tree
  <2>2. LeftHalf(z) # z
    BY <1>1, Halves, NodeFacts
  <2>. QED BY <1>3, <1>5, <2>1, <2>2
<1>10. \A k \in Active : LeftHalf(k) # z
  <2>1. \A k \in Active : LeftHalf(k) = z => Split(k)
    BY <1>1, Halves DEF Shape, Tree
  <2>. QED BY <1>1, <1>2, <2>1, LeftOfOne
<1>11. \A k \in A : frames'[k].up = frames[k].up
  BY <1>1 DEF Resumes, Keeps, Sets
<1>12. \A k \in A : k # n => frames'[k].at = frames[k].at /\ frames'[k].ser = frames[k].ser
  BY DEF Resumes, Keeps
<1>13. frames'[n].at = "rest" /\ frames'[n].ser = s /\ n \in A
  BY <1>1 DEF Resumes, Sets
<1>14. ASSUME NEW u \in A PROVE FrameOK(u)'
  <2>1. FrameOK(u) /\ u # z
    BY <1>4 DEF Shape
  <2>2. u = Root \/ /\ frames'[u].up \in Active' /\ Split(frames'[u].up)
                    /\ \/ u = LeftHalf(frames'[u].up)
                       \/ u = RightHalf(frames'[u].up) /\ frames'[frames'[u].up].at = "rest"
    <3>1. SUFFICES ASSUME u # Root PROVE /\ frames[u].up \in Active' /\ Split(frames[u].up)
                    /\ \/ u = LeftHalf(frames[u].up)
                       \/ u = RightHalf(frames[u].up) /\ frames'[frames[u].up].at = "rest"
      BY <1>11
    <3>2. frames[u].up \in A
      BY <1>1, <1>6, <2>1, <3>1 DEF FrameOK, Resting
    <3>. QED BY <1>5, <1>12, <1>13, <2>1, <3>1, <3>2 DEF FrameOK
  <2>3. frames'[u].at = "rest" => frames'[RightHalf(u)].up = u
    <3>1. CASE u = n
      BY <3>1 DEF Resumes, IsNew
    <3>2. ASSUME u # n, frames'[u].at = "rest" PROVE frames'[RightHalf(u)].up = u
      <4>1. u \in Resting /\ frames[RightHalf(u)].up = u /\ RightHalf(u) \in A
        BY <1>7, <1>12, <2>1, <3>2 DEF FrameOK, Resting, Tree
      <4>. QED BY <1>11, <4>1
    <3>. QED BY <3>1, <3>2
  <2>4. LeftHalf(u) \in Active' => frames'[LeftHalf(u)].up = u
    BY <1>5, <1>10, <1>11, <2>1 DEF FrameOK
  <2>5. frames'[u].at \in {"forked", "join", "wait"} => Split(u)
    BY <1>12, <1>13, <2>1 DEF FrameOK
  <2>6. frames'[u].at \in {"forked", "wait"} => LeftHalf(u) \in Active'
    <3>1. u # n => LeftHalf(u) # y
      BY <1>1, <2>1 DEF FrameOK
    <3>. QED BY <1>1, <1>5, <1>12, <1>13, <2>1, <3>1 DEF FrameOK
  <2>7. frames'[u].at \in {"call", "return"} \/ frames'[u].ser => LeftHalf(u) \notin Active'
    BY <1>1, <1>5, <1>10, <1>12, <1>13, <2>1 DEF FrameOK
  <2>8. frames'[u].at = "call" => ~frames'[u].ser
    BY <1>12, <1>13, <2>1 DEF FrameOK
  <2>. QED BY <2>2, <2>3, <2>4, <2>5, <2>6, <2>7, <2>8 DEF FrameOK
<1>15. FrameOK(z)'
  BY <1>1, <1>5, <1>9, <1>13 DEF FrameOK, Resumes, IsNew
<1>16. Root \in Active'
  BY <1>1, <1>5 DEF Shape
<1>. QED BY <1>5, <1>8, <1>14, <1>15, <1>16 DEF Shape

--------------------------------------------------------------------------------
(* A whole call keeps one worker busy at most.                                *)
LEMMA OneBusy ==
    ASSUME TypeOK, Shape, Running, NEW n \in Active, Whole(n),
           NEW v \in Busy(n), NEW w \in Busy(n)
    PROVE  v = w
<1> DEFINE x == runs[v]
           y == runs[w]
<1>1. /\ v \in Workers /\ w \in Workers /\ x # Nobody /\ In(x, n) /\ In(y, n)
      /\ x \in Active /\ y \in Active /\ x \notin Resting /\ y \notin Resting
      /\ frames[x].at \in {"call", "return", "join"} /\ frames[y].at \in {"call", "return", "join"}
  BY DEF Busy, Running, Resting
<1>2. Tree(Active, Resting) /\ FrameOK(x) /\ FrameOK(y) /\ ~Sep(x) /\ ~Sep(y)
  BY <1>1 DEF Shape, Whole
<1>3. LeftHalf(x) \notin Active /\ LeftHalf(y) \notin Active
  BY <1>1, <1>2 DEF FrameOK, Sep
<1>4. x = y \/ Apart(x, y)
  BY <1>1, <1>2, <1>3 DEF Tree, Related, Below
<1>5. ~Apart(x, y)
  <2>1. SUFFICES ASSUME Apart(x, y) PROVE FALSE
    OBVIOUS
  <2>2. Root \in Active /\ \A k \in Active : In(k, Root)
    BY NodeFacts DEF Shape, Tree, In, Root
  <2>3. PICK z \in Resting : /\ LeftHalf(z) \in Active
                             /\ \/ In(x, LeftHalf(z)) /\ In(y, RightHalf(z))
                                \/ In(y, LeftHalf(z)) /\ In(x, RightHalf(z))
    BY <1>1, <1>2, <2>1, <2>2, CommonCaller
  <2>4. z \in Active /\ Sep(z)
    BY <2>3 DEF Resting, Sep, Shape, FrameOK
  <2>5. /\ x \in Nodes /\ y \in Nodes /\ z \in Nodes /\ n \in Nodes /\ Split(z)
        /\ Related(z, n, Active, Resting)
        /\ LeftHalf(n) \in Active => LeftHalf(n) \in Nodes
        /\ n \in Resting => Split(n)
    BY <1>1, <1>2, <2>3, <2>4 DEF Tree
  <2>6. In(z, n)
    <3>1. /\ x[1] \in Nat /\ x[2] \in Nat /\ x[1] < x[2] /\ y[1] \in Nat /\ y[2] \in Nat /\ y[1] < y[2]
          /\ z[1] \in Nat /\ z[2] \in Nat /\ n[1] \in Nat /\ n[2] \in Nat
          /\ n[1] < n[2]
      BY <2>5, NodeFacts
    <3>2. /\ LeftHalf(z)[1] = z[1] /\ LeftHalf(z)[2] = mid(z) /\ mid(z) \in Nat
          /\ RightHalf(z)[1] = mid(z) /\ RightHalf(z)[2] = z[2] /\ z[1] < mid(z) /\ mid(z) < z[2]
      BY <2>5, Halves
    <3>3. /\ mid(n) \in Nat /\ LeftHalf(n)[1] = n[1] /\ LeftHalf(n)[2] = mid(n)
          /\ RightHalf(n)[1] = mid(n) /\ RightHalf(n)[2] = n[2]
          /\ LeftHalf(n) \in Active \/ n \in Resting => n[1] < mid(n) /\ mid(n) < n[2]
      BY <2>5, Halves
    <3>4. CASE z = n
      BY <3>1, <3>4 DEF In
    <3>5. CASE Apart(z, n)
      BY <1>1, <2>3, <3>1, <3>2, <3>5 DEF In, Apart
    <3>6. CASE Below(z, n, Active, Resting)
      BY <3>1, <3>3, <3>6 DEF In, Below
    <3>7. CASE Below(n, z, Active, Resting)
      BY <1>1, <2>3, <3>1, <3>2, <3>7 DEF In, Below
    <3>. QED BY <2>5, <3>4, <3>5, <3>6, <3>7 DEF Related
  <2>. QED BY <2>4, <2>6 DEF Whole
<1>. QED BY <1>1, <1>4, <1>5 DEF Running

(* The worker in whose queue n is, is busy inside it.                         *)
LEMMA QueuedBusy ==
    ASSUME TypeOK, Queues, NEW v \in Workers, NEW i \in 1 .. Len(wsq[v])
    PROVE  /\ v \in Busy(wsq[v][i]) /\ wsq[v][i] \in Active /\ frames[wsq[v][i]].at = "forked"
           /\ runs[v] # Nobody /\ In(runs[v], LeftHalf(wsq[v][i]))
<1>1. EntryOK(v, i)
  BY DEF Queues
<1>2. wsq[v][i] \in Nodes /\ runs[v] \in Nodes
  BY <1>1 DEF EntryOK, TypeOK
<1>3. In(runs[v], wsq[v][i])
  BY <1>1, <1>2, NodeFacts, Halves DEF EntryOK, In
<1>. QED BY <1>1, <1>3 DEF EntryOK, Busy

(* The queue of a worker without a call, and of one whose call was separated  *)
(* from its child, is empty.                                                  *)
LEMMA EmptyQueue ==
    ASSUME TypeOK, Queues, Forks, NEW w \in Workers,
           runs[w] = Nobody \/ (runs[w] \in Active /\ Sep(runs[w]))
    PROVE  wsq[w] = <<>> /\ Len(wsq[w]) = 0
<1>1. wsq[w] \in Seq(Nodes)
  BY DEF TypeOK
<1>2. SUFFICES ASSUME wsq[w] # <<>> PROVE FALSE
  BY <1>1, EmptySeq
<1>3. 1 \in 1 .. Len(wsq[w])
  BY <1>1, <1>2, EmptySeq
<1>4. /\ w \in Busy(wsq[w][1]) /\ wsq[w][1] \in Active /\ frames[wsq[w][1]].at = "forked"
      /\ runs[w] # Nobody
  BY <1>3, QueuedBusy
<1>. QED BY <1>4 DEF Forks, Whole, Busy

(* The newest entry of the queue of a worker whose thread is at its end is    *)
(* the parent of that thread.                                                 *)
LEMMA NewestIsParent ==
    ASSUME TypeOK, Shape, Queues, NEW w \in Workers, NEW n \in Active, n = runs[w],
           n # Root, n = LeftHalf(frames[n].up), wsq[w] # <<>>
    PROVE  Last(wsq[w]) = frames[n].up
<1> DEFINE i == Len(wsq[w])
           p == wsq[w][i]
           q == frames[n].up
<1>1. wsq[w] \in Seq(Nodes)
  BY DEF TypeOK
<1>2. i \in 1 .. Len(wsq[w])
  BY <1>1, EmptySeq
<1>3. EntryOK(w, i) /\ Last(wsq[w]) = p
  BY <1>2 DEF Queues, Last
<1>4. p \in Active /\ frames[p].at = "forked" /\ In(n, LeftHalf(p)) /\ n[2] = mid(p)
  BY <1>3 DEF EntryOK, Follower
<1>5. q \in Active /\ Split(q) /\ Split(p) /\ Tree(Active, Resting)
  BY <1>4 DEF Shape, FrameOK
<1>6. n[2] = mid(q)
  BY <1>5, Halves DEF Tree
<1>7. p = q
  <2> HIDE DEF p, q
  <2>. QED BY <1>4, <1>5, <1>6, LeftOfOne
<1>. QED BY <1>3, <1>7

(* The parent of a thread that ends with an empty queue was separated from    *)
(* it.                                                                        *)
LEMMA ParentApart ==
    ASSUME TypeOK, Shape, Running, Queues, Forks, NEW w \in Workers, NEW n \in Active, n = runs[w],
           n # Root, n = LeftHalf(frames[n].up), wsq[w] = <<>>
    PROVE  /\ frames[n].up \in Active /\ Split(frames[n].up) /\ Sep(frames[n].up)
<1> DEFINE q == frames[n].up
<1>1. q \in Active /\ Split(q) /\ FrameOK(q) /\ q \in Nodes /\ n \in Nodes /\ runs[w] # Nobody
  BY WorkersAssumption DEF Shape, FrameOK, TypeOK, Nodes
<1>2. w \in Busy(q)
  BY <1>1, Halves, NodeFacts DEF Busy, In
<1>3. frames[q].at # "forked"
  <2>1. SUFFICES ASSUME frames[q].at = "forked" PROVE FALSE
    OBVIOUS
  <2>2. PICK v \in Workers : \E i \in 1 .. Len(wsq[v]) : q = wsq[v][i]
    BY <1>1, <2>1 DEF Forks
  <2>3. v \in Busy(q)
    BY <2>2, QueuedBusy
  <2>4. v = w
    BY <1>1, <1>2, <2>1, <2>3, OneBusy DEF Forks
  <2>. QED BY <2>2, <2>4
<1>4. frames[q].at \in Places /\ frames[q].at \notin {"call", "return"} /\ ~frames[q].ser
  BY <1>1 DEF TypeOK, Frames, FrameOK
<1>. QED BY <1>1, <1>3, <1>4 DEF Sep, Places

--------------------------------------------------------------------------------
Ctl == Shape /\ Running /\ Queues /\ Forks /\ Deaths

(* Nothing is separated by the step.                                          *)
SepShrinks == \A m \in Active' : Sep(m)' => m \in Active /\ Sep(m)

(* What was whole stays so if nothing is separated.                           *)
LEMMA WholeKept ==
    ASSUME SepShrinks, NEW n, Whole(n)
    PROVE  Whole(n)'
BY DEF SepShrinks, Whole

(* A queue that does not change.                                              *)
LEMMA EntriesKept ==
    ASSUME Queues, NEW v \in Workers, wsq'[v] = wsq[v], runs'[v] = runs[v],
           \A u \in Active : frames[u].at = "forked" => u \in Active' /\ frames'[u].at = "forked"
    PROVE  \A i \in 1 .. Len(wsq'[v]) : EntryOK(v, i)'
BY DEF Queues, EntryOK, Follower

(* The same, when it is only n that leaves the queues.                        *)
LEMMA OthersKept ==
    ASSUME Queues, NEW v \in Workers, wsq'[v] = wsq[v], runs'[v] = runs[v],
           NEW n, \A i \in 1 .. Len(wsq[v]) : wsq[v][i] # n,
           \A u \in Active : u # n /\ frames[u].at = "forked" => u \in Active' /\ frames'[u].at = "forked"
    PROVE  \A i \in 1 .. Len(wsq'[v]) : EntryOK(v, i)'
BY DEF Queues, EntryOK, Follower

(* Forked calls stay forked, and in their queues.                             *)
LEMMA ForksKept ==
    ASSUME Forks, SepShrinks, wsq' = wsq,
           \A u \in Active' : frames'[u].at = "forked" => u \in Active /\ frames[u].at = "forked"
    PROVE  Forks'
<1>1. SUFFICES ASSUME NEW n \in Active', frames'[n].at = "forked"
               PROVE  Whole(n)' /\ \E v \in Workers : \E i \in 1 .. Len(wsq'[v]) : n = wsq'[v][i]
  BY DEF Forks
<1>2. Whole(n) /\ \E v \in Workers : \E i \in 1 .. Len(wsq[v]) : n = wsq[v][i]
  BY <1>1 DEF Forks
<1>. QED BY <1>2, WholeKept

(* Separated calls have two halves, and the left one tells them apart.        *)
LEMMA SepFacts ==
    ASSUME TypeOK, Shape
    PROVE  /\ \A k \in Active : Sep(k) => Split(k)
           /\ \A k, m \in Active : Split(k) /\ Split(m) /\ LeftHalf(k) = LeftHalf(m) => k = m
<1>1. Tree(Active, Resting)
  BY DEF Shape
<1>2. \A k \in Active : Sep(k) => Split(k)
  BY DEF Shape, FrameOK, Sep, Tree, Resting
<1>3. \A k, m \in Active : Split(k) /\ Split(m) /\ LeftHalf(k) = LeftHalf(m) => k = m
  BY <1>1, LeftOfOne
<1>. QED BY <1>2, <1>3

(* The worker w gets to the end of its call n.                                *)
LEMMA CtlReturning ==
    ASSUME TypeOK, Ctl, NEW w \in Workers, NEW n \in Active, n = runs[w],
           frames[n].at \in {"call", "join"}, LeftHalf(n) \notin Active,
           Moves(n, "return"), runs' = runs, wsq' = wsq,
           \/ ~Sep(n) /\ dead' = dead
           \/ Sep(n) /\ dead' = dead \ {LeftHalf(n)}
    PROVE  Ctl'
<1> USE DEF Ctl
<1>1. Shape'
  BY ShapeMoves DEF Places
<1>2. Active' = Active /\ \A u \in Active : u # n => Keeps(u)
  BY DEF Moves
<1>3. frames'[n].at = "return"
  BY DEF Moves, Sets
<1>4. SepShrinks /\ ~Sep(n)' /\ \A m \in Active : m # n => (Sep(m)' <=> Sep(m))
  BY <1>2, <1>3 DEF SepShrinks, Sep, Keeps
<1>5. \A u \in Active : frames[u].at = "forked" <=> frames'[u].at = "forked"
  BY <1>2, <1>3 DEF Keeps
<1>6. Running'
  BY <1>2, <1>3 DEF Running, Keeps
<1>7. Queues'
  BY <1>2, <1>5, EntriesKept DEF Queues
<1>8. Forks'
  BY <1>2, <1>4, <1>5, ForksKept
<1>9. Deaths'
  <2>1. \A d \in dead' : d \notin Active' /\ \E k \in Active' : Sep(k)' /\ d = LeftHalf(k)
    BY <1>2, <1>4 DEF Deaths
  <2>2. ASSUME NEW k \in Active, Sep(k)' PROVE LeftHalf(k) \in Active' \/ LeftHalf(k) \in dead'
    <3>1. k # n /\ Sep(k)
      BY <1>4, <2>2
    <3>2. Sep(n) => LeftHalf(k) # LeftHalf(n)
      BY <3>1, SepFacts
    <3>. QED BY <1>2, <3>1, <3>2 DEF Deaths
  <2>. QED BY <1>2, <2>1, <2>2 DEF Deaths
<1>. QED BY <1>1, <1>6, <1>7, <1>8, <1>9

(* A call waits for its child, and w has nothing to do.                       *)
LEMMA CtlWaiting ==
    ASSUME TypeOK, Ctl, NEW w \in Workers, NEW n \in Active, n = runs[w],
           frames[n].at = "join", Sep(n), LeftHalf(n) \notin dead,
           Moves(n, "wait"), runs' = [runs EXCEPT ![w] = Nobody], wsq' = wsq, dead' = dead
    PROVE  Ctl'
<1> USE DEF Ctl
<1>1. LeftHalf(n) \in Active /\ Split(n)
  BY SepFacts DEF Deaths
<1>2. Shape'
  BY <1>1, ShapeMoves DEF Places
<1>3. Active' = Active /\ \A u \in Active : u # n => Keeps(u)
  BY DEF Moves
<1>4. frames'[n].at = "wait" /\ frames'[n].ser = frames[n].ser
  BY DEF Moves, Sets
<1>5. SepShrinks /\ \A m \in Active : Sep(m)' <=> Sep(m)
  BY <1>3, <1>4 DEF SepShrinks, Sep, Keeps
<1>6. \A u \in Active : frames[u].at = "forked" <=> frames'[u].at = "forked"
  BY <1>3, <1>4 DEF Keeps
<1>7. \A v \in Workers : runs'[v] = IF v = w THEN Nobody ELSE runs[v]
  BY DEF TypeOK
<1>8. Running'
  BY <1>3, <1>7 DEF Running, Keeps
<1>9. Queues'
  <2>1. ASSUME NEW v \in Workers PROVE \A i \in 1 .. Len(wsq'[v]) : EntryOK(v, i)'
    <3>1. CASE v = w
      <4>1. Len(wsq'[v]) = 0
        BY <3>1, EmptyQueue
      <4>. QED BY <4>1
    <3>2. CASE v # w
      BY <1>3, <1>6, <1>7, <3>2, EntriesKept
    <3>. QED BY <3>1, <3>2
  <2>. QED BY <2>1 DEF Queues
<1>10. Forks'
  BY <1>3, <1>5, <1>6, ForksKept
<1>11. Deaths'
  BY <1>3, <1>5 DEF Deaths
<1>. QED BY <1>2, <1>8, <1>9, <1>10, <1>11

(* w is at the end of the call n, which up called; n is a thread, or the      *)
(* right half.                                                                *)
AtEnd(w, n, up) == n = runs[w] /\ n # Root /\ frames[n].at = "return" /\ up = frames[n].up
ThreadEnd(w, n, up) == AtEnd(w, n, up) /\ n = LeftHalf(up)
RightEnd(w, n, up) == AtEnd(w, n, up) /\ n = RightHalf(up) /\ frames[up].at = "rest"

(* ParentApart, in these terms.                                               *)
LEMMA ThreadApart ==
    ASSUME TypeOK, Ctl, NEW w \in Workers, NEW n \in Active, NEW up, ThreadEnd(w, n, up), wsq[w] = <<>>
    PROVE  /\ up \in Active /\ up # n /\ Split(up) /\ Sep(up) /\ ~Sep(n)
           /\ frames[n].at = "return" /\ LeftHalf(n) \notin Active
<1>1. AtEnd(w, n, up) /\ n = LeftHalf(up)
  BY DEF ThreadEnd
<1>2. n = runs[w] /\ n # Root /\ frames[n].at = "return" /\ up = frames[n].up
  BY <1>1 DEF AtEnd
<1>3. n = LeftHalf(frames[n].up)
  BY <1>1, <1>2
<1>4. frames[n].up \in Active /\ Split(frames[n].up) /\ Sep(frames[n].up)
  BY <1>2, <1>3, ParentApart DEF Ctl
<1>5. LeftHalf(n) \notin Active /\ ~Sep(n)
  BY <1>2 DEF Ctl, Shape, FrameOK, Sep
<1>6. up \in Active /\ Split(up) /\ Sep(up)
  BY <1>2, <1>4
<1>. QED BY <1>2, <1>5, <1>6

(* What holds after the end of a call, however it ends.                       *)
Ended(w, n, up, a) ==
    /\ Shape' /\ Forks' /\ SepShrinks
    /\ up \in Active' /\ up \in Active /\ Active' = Active \ {n} /\ up # n /\ Split(up)
    /\ \A u \in Active' : u # up => Keeps(u)
    /\ frames'[up].at = a /\ frames'[up].ser = frames[up].ser
    /\ \A u \in Active : Split(u) /\ LeftHalf(u) = n => u = up
    /\ \A v \in Workers : v # w => \A i \in 1 .. Len(wsq'[v]) : EntryOK(v, i)'
    /\ \A v \in Workers : v # w /\ runs[v] # Nobody =>
         /\ runs[v] # n /\ runs[v] \in Active'
         /\ runs[v] = up => frames[up].at = "join" /\ a = "join"

(* The end of a call, as far as it does not matter how it ends.               *)
LEMMA EndsCommon ==
    ASSUME TypeOK, Ctl, NEW w \in Workers, NEW n \in Active, NEW up, AtEnd(w, n, up), NEW a \in Places,
           Ends(n, up, a), EndsWell(n, up, a), wsq' = wsq,
           \A v \in Workers : v # w => runs'[v] = runs[v]
    PROVE  Ended(w, n, up, a)
<1> USE DEF Ctl, AtEnd
<1>1. Shape'
  BY ShapeEnds
<1>2. up \in Active /\ Split(up) /\ up # n /\ n \in Nodes /\ up \in Nodes
  <2>1. up \in Active /\ Split(up) /\ n \in Nodes /\ up \in Nodes
    BY DEF Shape, FrameOK, TypeOK
  <2>. QED BY <2>1, Halves, NodeFacts DEF EndsWell
<1>3. Active' = Active \ {n} /\ up \in Active' /\ \A u \in Active' : u # up => Keeps(u)
  BY <1>2 DEF Ends
<1>4. frames'[up].at = a /\ frames'[up].ser = frames[up].ser
  BY DEF Ends, Sets
<1>5. SepShrinks
  BY <1>2, <1>3, <1>4 DEF SepShrinks, Sep, Keeps, EndsWell
<1>6. \A u \in Active : frames[u].at = "forked" => u \in Active' /\ frames'[u].at = "forked"
  BY <1>2, <1>3, <1>4 DEF Keeps, EndsWell
<1>7. \A u \in Active' : frames'[u].at = "forked" => u \in Active /\ frames[u].at = "forked"
  BY <1>2, <1>3, <1>4 DEF Keeps, EndsWell
<1>8. Forks'
  BY <1>5, <1>7, ForksKept
<1>9. \A u \in Active : Split(u) /\ LeftHalf(u) = n => u = up
  BY DEF Shape, FrameOK
<1>10. \A v \in Workers : v # w => \A i \in 1 .. Len(wsq'[v]) : EntryOK(v, i)'
  BY <1>6, EntriesKept
<1>11. ASSUME NEW v \in Workers, v # w, runs[v] # Nobody
       PROVE  /\ runs[v] # n /\ runs[v] \in Active'
              /\ runs[v] = up => frames[up].at = "join" /\ a = "join"
  <2>1. runs[v] \in Active /\ frames[runs[v]].at \in {"call", "return", "join"} /\ runs[v] # n
    BY <1>11 DEF Running
  <2>. QED BY <1>3, <2>1 DEF EndsWell
<1>. QED BY <1>1, <1>2, <1>3, <1>4, <1>5, <1>8, <1>9, <1>10, <1>11 DEF Ended

(* The right half returns to its caller.                                      *)
LEMMA CtlReturned ==
    ASSUME TypeOK, Ctl, NEW w \in Workers, NEW n \in Active, NEW up, RightEnd(w, n, up), Ends(n, up, "join"),
           wsq' = wsq, runs' = [runs EXCEPT ![w] = up], dead' = dead
    PROVE  Ctl'
<1> USE DEF Ctl
<1>1. \A v \in Workers : runs'[v] = IF v = w THEN up ELSE runs[v]
  BY DEF TypeOK
<1>2. AtEnd(w, n, up) /\ frames[up].at = "rest"
  BY DEF RightEnd
<1>3. EndsWell(n, up, "join")
  BY DEF EndsWell, RightEnd
<1>4. Ended(w, n, up, "join")
  BY <1>2, <1>1, <1>3, EndsCommon DEF Places
<1>5. \A m \in Active' : Sep(m)' <=> Sep(m)
  BY <1>2, <1>4 DEF Sep, Keeps, Ended
<1>6. Running'
  <2>1. ASSUME NEW v \in Workers, v # w, runs[v] # Nobody
        PROVE  /\ runs'[v] = runs[v] /\ runs[v] # up /\ runs[v] \in Active'
               /\ frames'[runs[v]].at \in {"call", "return", "join"}
    BY <1>2, <1>1, <1>4, <2>1 DEF Running, Keeps, Ended
  <2>2. runs'[w] = up /\ up \in Active' /\ frames'[up].at \in {"call", "return", "join"}
    BY <1>1, <1>4 DEF Ended
  <2>. QED BY <1>1, <2>1, <2>2 DEF Running
<1>7. up \in Nodes /\ n \in Nodes /\ up # Nobody /\ Tree(Active, Resting)
  BY <1>4, WorkersAssumption DEF TypeOK, Nodes, Shape, Ended
<1>8. LeftHalf(up) # n /\ n[2] = up[2]
  <2>1. Split(up)
    BY <1>4 DEF Ended
  <2>2. n = RightHalf(up)
    BY DEF RightEnd
  <2>. QED BY <1>7, <2>1, <2>2, RightIsNotLeft, Zenon
<1>9. Queues'
  <2>1. ASSUME NEW i \in 1 .. Len(wsq[w]) PROVE EntryOK(w, i)'
    <3>1. EntryOK(w, i) /\ wsq[w] \in Seq(Nodes)
      BY DEF Queues, TypeOK
    <3> DEFINE p == wsq[w][i]
    <3>2. p \in Active /\ frames[p].at = "forked" /\ In(n, LeftHalf(p)) /\ LeftHalf(p) \in Active
      BY <1>2, <3>1 DEF EntryOK, Shape, FrameOK, AtEnd
    <3>3. p # up /\ p # n /\ frames'[p].at = "forked" /\ p \in Active'
      BY <1>2, <1>4, <3>2 DEF Keeps, Ended, AtEnd
    <3>4. LeftHalf(p) # n
      BY <1>2, <3>2, <3>3 DEF Shape, FrameOK, AtEnd
    <3>5. In(up, LeftHalf(p))
      BY <1>4, <1>7, <3>2, <3>4, AroundHalf DEF Ended, RightEnd
    <3>6. Follower(w, i)'[2] = mid(p)
      <4>1. Follower(w, i)[2] = mid(p)
        BY <3>1 DEF EntryOK
      <4>2. runs[w] = n
        BY <1>2 DEF AtEnd
      <4>. QED BY <1>1, <1>8, <4>1, <4>2 DEF Follower
    <3>. QED BY <1>1, <1>7, <3>1, <3>3, <3>5, <3>6 DEF EntryOK
  <2>. QED BY <1>4, <2>1 DEF Queues, Ended
<1>10. Deaths'
  <2>1. \A d \in dead' : d \notin Active' /\ \E k \in Active' : Sep(k)' /\ d = LeftHalf(k)
    <3>1. ~Sep(n)
      BY <1>2 DEF Sep, AtEnd
    <3>. QED BY <1>4, <1>5, <3>1 DEF Deaths, Ended
  <2>2. ASSUME NEW k \in Active', Sep(k)' PROVE LeftHalf(k) \in Active' \/ LeftHalf(k) \in dead'
    <3>1. k \in Active /\ Sep(k) /\ Split(k)
      BY <1>4, <1>5, <2>2, SepFacts DEF Ended
    <3>2. LeftHalf(k) # n
      BY <1>4, <1>8, <3>1 DEF Ended
    <3>. QED BY <1>4, <3>1, <3>2 DEF Deaths, Ended
  <2>. QED BY <2>1, <2>2 DEF Deaths
<1>. QED BY <1>4, <1>6, <1>9, <1>10 DEF Ended

(* A thread ends apart from its parent, which does not wait yet.              *)
LEMMA CtlDied ==
    ASSUME TypeOK, Ctl, NEW w \in Workers, NEW n \in Active, NEW up, ThreadEnd(w, n, up),
           Ends(n, up, frames[up].at), frames[up].at # "wait",
           wsq[w] = <<>>, wsq' = wsq, runs' = [runs EXCEPT ![w] = Nobody], dead' = dead \cup {n}
    PROVE  Ctl'
<1> USE DEF Ctl
<1>1. \A v \in Workers : runs'[v] = IF v = w THEN Nobody ELSE runs[v]
  BY DEF TypeOK
<1>2. up \in Active /\ Sep(up) /\ ~Sep(n) /\ AtEnd(w, n, up)
  BY ThreadApart DEF ThreadEnd
<1>3. frames[up].at \in Places /\ EndsWell(n, up, frames[up].at)
  BY <1>2 DEF EndsWell, Sep, Places, ThreadEnd
<1>4. Ended(w, n, up, frames[up].at)
  BY <1>1, <1>2, <1>3, EndsCommon
<1>5. ASSUME NEW m \in Active' PROVE Keeps(m) /\ (Sep(m)' <=> Sep(m))
  <2>1. Keeps(m)
    BY <1>4 DEF Ended, Ends, Sets, Keeps
  <2>. QED BY <2>1 DEF Sep, Keeps
<1>6. Running'
  <2>1. ASSUME NEW v \in Workers, v # w, runs[v] # Nobody
        PROVE  /\ runs'[v] = runs[v] /\ runs[v] \in Active'
               /\ frames'[runs[v]].at \in {"call", "return", "join"}
    <3>1. runs'[v] = runs[v] /\ runs[v] \in Active'
      BY <1>1, <1>4, <2>1 DEF Ended
    <3>2. frames[runs[v]].at \in {"call", "return", "join"}
      BY <2>1 DEF Running
    <3>3. Keeps(runs[v])
      BY <1>5, <3>1
    <3>. QED BY <3>1, <3>2, <3>3 DEF Keeps
  <2>2. \A u, v \in Workers : runs'[u] = runs'[v] => u = v \/ runs'[u] = Nobody
    BY <1>1 DEF Running
  <2>. QED BY <1>1, <2>1, <2>2 DEF Running
<1>7. Queues'
  <2>1. Len(wsq'[w]) = 0
    OBVIOUS
  <2>2. \A v \in Workers : v # w => \A i \in 1 .. Len(wsq'[v]) : EntryOK(v, i)'
    BY <1>4 DEF Ended
  <2>. QED BY <2>1, <2>2 DEF Queues
<1>8. Deaths'
  <2>1. Active' = Active \ {n} /\ up \in Active' /\ ~Sep(n)
    BY <1>2, <1>4 DEF Ended
  <2>2. ASSUME NEW d \in dead' PROVE d \notin Active' /\ \E k \in Active' : Sep(k)' /\ d = LeftHalf(k)
    <3>1. CASE d = n
      BY <1>2, <1>5, <2>1, <3>1 DEF ThreadEnd
    <3>2. CASE d # n
      <4>1. PICK k \in Active : Sep(k) /\ d = LeftHalf(k)
        BY <3>2 DEF Deaths
      <4>. QED BY <1>5, <2>1, <3>2, <4>1 DEF Deaths
    <3>. QED BY <3>1, <3>2
  <2>3. \A k \in Active' : Sep(k)' => LeftHalf(k) \in Active' \/ LeftHalf(k) \in dead'
    BY <1>5, <2>1 DEF Deaths
  <2>. QED BY <2>2, <2>3 DEF Deaths
<1>. QED BY <1>4, <1>6, <1>7, <1>8 DEF Ended

(* A thread ends and w goes on with its parent, which waited.                 *)
LEMMA CtlResumed ==
    ASSUME TypeOK, Ctl, NEW w \in Workers, NEW n \in Active, NEW up, ThreadEnd(w, n, up),
           Ends(n, up, "return"), frames[up].at = "wait",
           wsq[w] = <<>>, wsq' = wsq, runs' = [runs EXCEPT ![w] = up], dead' = dead
    PROVE  Ctl'
<1> USE DEF Ctl
<1>1. \A v \in Workers : runs'[v] = IF v = w THEN up ELSE runs[v]
  BY DEF TypeOK
<1>2. AtEnd(w, n, up) /\ ~Sep(n)
  BY ThreadApart DEF ThreadEnd
<1>3. EndsWell(n, up, "return")
  BY DEF EndsWell, ThreadEnd
<1>4. Ended(w, n, up, "return")
  BY <1>2, <1>1, <1>3, EndsCommon DEF Places
<1>5. ~Sep(up)' /\ \A m \in Active' : m # up => (Sep(m)' <=> Sep(m))
  BY <1>4 DEF Sep, Keeps, Ended
<1>6. Running'
  <2>1. ASSUME NEW v \in Workers, v # w, runs[v] # Nobody
        PROVE  /\ runs'[v] = runs[v] /\ runs[v] # up /\ runs[v] \in Active'
               /\ frames'[runs[v]].at \in {"call", "return", "join"}
    BY <1>1, <1>4, <2>1 DEF Running, Keeps, Ended
  <2>2. runs'[w] = up /\ up \in Active' /\ frames'[up].at \in {"call", "return", "join"}
    BY <1>1, <1>4 DEF Ended
  <2>. QED BY <1>1, <2>1, <2>2 DEF Running
<1>7. Queues'
  <2>1. Len(wsq'[w]) = 0
    OBVIOUS
  <2>2. \A v \in Workers : v # w => \A i \in 1 .. Len(wsq'[v]) : EntryOK(v, i)'
    BY <1>4 DEF Ended
  <2>. QED BY <2>1, <2>2 DEF Queues
<1>8. Deaths'
  <2>1. Active' = Active \ {n} /\ up \in Active' /\ ~Sep(n)
    BY <1>2, <1>4 DEF Ended
  <2>2. ASSUME NEW d \in dead' PROVE d \notin Active' /\ \E k \in Active' : Sep(k)' /\ d = LeftHalf(k)
    <3>1. PICK k \in Active : Sep(k) /\ d = LeftHalf(k)
      BY DEF Deaths
    <3>2. d \notin Active /\ k # up
      BY <3>1 DEF Deaths, ThreadEnd
    <3>. QED BY <1>5, <2>1, <3>1, <3>2
  <2>3. ASSUME NEW k \in Active', Sep(k)' PROVE LeftHalf(k) \in Active' \/ LeftHalf(k) \in dead'
    <3>1. k \in Active /\ k # up /\ Sep(k) /\ Split(k)
      BY <1>5, <2>1, <2>3, SepFacts
    <3>2. LeftHalf(k) # n
      BY <1>4, <3>1 DEF Ended
    <3>. QED BY <2>1, <3>1, <3>2 DEF Deaths
  <2>. QED BY <2>2, <2>3 DEF Deaths
<1>. QED BY <1>4, <1>6, <1>7, <1>8 DEF Ended

(* A call forks: its child is the new call of w.                              *)
LEMMA CtlForking ==
    ASSUME TypeOK, Ctl, NEW w \in Workers, NEW n \in Active, n = runs[w],
           frames[n].at = "call", Split(n), Forking(n),
           wsq' = [wsq EXCEPT ![w] = Append(@, n)],
           runs' = [runs EXCEPT ![w] = LeftHalf(n)], dead' = dead
    PROVE  Ctl'
<1> USE DEF Ctl
<1> DEFINE z == LeftHalf(n)
<1>1. Shape'
  BY ShapeForking
<1>2. /\ z \notin Active /\ n \in Nodes /\ z \in Nodes /\ n # z /\ z # Nobody
      /\ Tree(Active, Resting) /\ n \notin Resting
  BY Halves, NodeFacts, WorkersAssumption DEF Shape, FrameOK, TypeOK, Resting, Nodes
<1>3. /\ Active' = Active \cup {z} /\ \A u \in Active : u # n => Keeps(u)
      /\ frames'[n].at = "forked" /\ frames'[z].at = "call"
  BY DEF Forking, Sets, IsNew
<1>4. \A v \in Workers : runs'[v] = IF v = w THEN z ELSE runs[v]
  BY DEF TypeOK
<1>5. wsq'[w] = Append(wsq[w], n) /\ (\A v \in Workers : v # w => wsq'[v] = wsq[v])
  BY DEF TypeOK
<1>6. SepShrinks /\ \A m \in Active : Sep(m)' <=> Sep(m)
  BY <1>3 DEF SepShrinks, Sep, Keeps
<1>7. Running'
  <2>1. \A v \in Workers : v # w /\ runs[v] # Nobody =>
          runs[v] \in Active /\ runs[v] # n /\ frames[runs[v]].at \in {"call", "return", "join"}
    BY DEF Running
  <2>2. \A v \in Workers : v # w /\ runs[v] # Nobody =>
          runs[v] \in Active' /\ frames'[runs[v]].at \in {"call", "return", "join"}
    BY <1>3, <2>1 DEF Keeps
  <2>3. \A u, v \in Workers : runs'[u] = runs'[v] => u = v \/ runs'[u] = Nobody
    BY <1>2, <1>4, <2>1 DEF Running
  <2>. QED BY <1>3, <1>4, <2>2, <2>3 DEF Running
<1>8. PICK k \in Nat : k = Len(wsq[w]) /\ wsq[w] \in Seq(Nodes)
  BY LenProperties DEF TypeOK
<1>9. Len(wsq'[w]) = k + 1 /\ wsq'[w][k + 1] = n /\ \A i \in 1 .. k : wsq'[w][i] = wsq[w][i]
  BY <1>2, <1>5, <1>8, AppendProperties
<1>10. \A u \in Active : frames[u].at = "forked" => u \in Active' /\ frames'[u].at = "forked"
  BY <1>3 DEF Keeps
<1>11. Queues'
  <2>1. ASSUME NEW i \in 1 .. k PROVE EntryOK(w, i)'
    <3> DEFINE p == wsq[w][i]
    <3>1. EntryOK(w, i) /\ i \in 1 .. Len(wsq'[w]) /\ p = wsq'[w][i] /\ p \in Nodes
      BY <1>8, <1>9 DEF Queues
    <3>2. p \in Active' /\ frames'[p].at = "forked"
      BY <1>10, <3>1 DEF EntryOK
    <3>3. In(n, LeftHalf(p)) /\ In(z, LeftHalf(p))
      <4>1. In(n, LeftHalf(p))
        BY <3>1 DEF EntryOK
      <4>2. LeftHalf(p)[1] \in Nat /\ LeftHalf(p)[2] \in Nat
        BY <3>1, Halves, NodeFacts
      <4>. QED BY <1>2, <4>1, <4>2, HalfIn
    <3>4. ASSUME NEW j \in 1 .. Len(wsq'[w]), i < j PROVE In(wsq'[w][j], LeftHalf(p))
      <4>1. CASE j \in 1 .. k
        BY <1>8, <1>9, <3>1, <3>4, <4>1 DEF EntryOK
      <4>2. CASE j = k + 1
        BY <1>9, <3>3, <4>2
      <4>. QED BY <1>9, <4>1, <4>2
    <3>5. Follower(w, i)'[2] = mid(p)
      <4>1. Follower(w, i)' = wsq'[w][i + 1]
        BY <1>8, <1>9 DEF Follower
      <4>2. Follower(w, i) = wsq'[w][i + 1]
        <5>1. CASE i = k
          BY <1>8, <1>9, <5>1 DEF Follower
        <5>2. CASE i # k
          <6>1. i + 1 \in 1 .. k
            BY <5>2
          <6>. QED BY <1>8, <1>9, <5>2, <6>1 DEF Follower
        <5>. QED BY <5>1, <5>2
      <4>. QED BY <3>1, <4>1, <4>2 DEF EntryOK
    <3>. QED BY <1>2, <1>4, <3>1, <3>2, <3>3, <3>4, <3>5 DEF EntryOK
  <2>2. EntryOK(w, k + 1)'
    <3>1. wsq'[w][k + 1] \in Active' /\ frames'[wsq'[w][k + 1]].at = "forked"
      BY <1>3, <1>9
    <3>2. runs'[w] = z /\ z # Nobody /\ In(z, LeftHalf(n)) /\ z[2] = mid(n)
      BY <1>2, <1>4, Halves, NodeFacts DEF In
    <3>3. Follower(w, k + 1)' = z
      BY <1>9, <3>2 DEF Follower
    <3>4. \A j \in 1 .. Len(wsq'[w]) : ~(k + 1 < j)
      BY <1>8, <1>9
    <3>. QED BY <1>9, <3>1, <3>2, <3>3, <3>4 DEF EntryOK
  <2>3. \A i \in 1 .. Len(wsq'[w]) : EntryOK(w, i)'
    BY <1>8, <1>9, <2>1, <2>2
  <2>4. \A v \in Workers : v # w => \A i \in 1 .. Len(wsq'[v]) : EntryOK(v, i)'
    BY <1>4, <1>5, <1>10, EntriesKept
  <2>. QED BY <2>3, <2>4 DEF Queues
<1>12. Forks'
  <2>1. SUFFICES ASSUME NEW u \in Active', frames'[u].at = "forked"
                 PROVE  Whole(u)' /\ \E v \in Workers : \E i \in 1 .. Len(wsq'[v]) : u = wsq'[v][i]
    BY DEF Forks
  <2>2. CASE u = n
    <3>1. \A m \in Active : In(m, n) => m = n
      BY <1>2, NoneInside
    <3>2. Whole(n)'
      BY <1>3, <3>1 DEF Whole, Sep
    <3>3. k + 1 \in 1 .. Len(wsq'[w])
      BY <1>8, <1>9
    <3>. QED BY <1>9, <2>2, <3>2, <3>3
  <2>3. CASE u # n
    <3>1. u \in Active /\ frames[u].at = "forked"
      BY <1>3, <2>1, <2>3 DEF Keeps
    <3>2. Whole(u)'
      BY <1>6, <3>1, WholeKept DEF Forks
    <3>3. PICK v \in Workers : \E i \in 1 .. Len(wsq[v]) : u = wsq[v][i]
      BY <3>1 DEF Forks
    <3>4. \E i \in 1 .. Len(wsq'[v]) : u = wsq'[v][i]
      <4>1. CASE v # w
        BY <1>5, <3>3, <4>1
      <4>2. CASE v = w
        <5>1. PICK i \in 1 .. k : u = wsq'[w][i]
          BY <1>8, <1>9, <3>3, <4>2
        <5>2. i \in 1 .. Len(wsq'[w])
          BY <1>8, <1>9
        <5>. QED BY <4>2, <5>1, <5>2
      <4>. QED BY <4>1, <4>2
    <3>. QED BY <3>2, <3>4
  <2>. QED BY <2>2, <2>3
<1>13. Deaths'
  <2>1. z \notin dead
    <3>1. SUFFICES ASSUME NEW m \in Active, Sep(m), z = LeftHalf(m) PROVE FALSE
      BY DEF Deaths
    <3>2. m = n
      BY <3>1, SepFacts
    <3>. QED BY <3>1, <3>2 DEF Sep
  <2>. QED BY <1>3, <1>6, <2>1 DEF Deaths, Sep
<1>. QED BY <1>1, <1>7, <1>11, <1>12, <1>13

(* What holds after the continuation of n has gone on, on w.                  *)
Resumed(w, n, gone, s) ==
    /\ Shape' /\ Running' /\ Deaths'
    /\ n \in Nodes /\ Split(n) /\ LeftHalf(n) \in Active
    /\ RightHalf(n) \in Nodes /\ RightHalf(n) # Nobody /\ RightHalf(n) \notin Active
    /\ Active' = (Active \ gone) \cup {RightHalf(n)}
    /\ \A u \in Active \ (gone \cup {n}) : Keeps(u)
    /\ n \in Active' /\ frames'[n].at = "rest" /\ frames'[n].ser = s /\ frames'[RightHalf(n)].at = "call"
    /\ \A v \in Workers : runs'[v] = IF v = w THEN RightHalf(n) ELSE runs[v]
    /\ \A m \in Active' : Sep(m)' => (m = n /\ ~s) \/ (m \in Active /\ Sep(m))
    /\ \A u \in Active : u # n /\ frames[u].at = "forked" => u \in Active' /\ frames'[u].at = "forked"
    /\ \A u \in Active' : frames'[u].at = "forked" => u # n /\ u \in Active /\ frames[u].at = "forked"

(* The continuation of a fork goes on, as far as the queues do not matter.    *)
LEMMA ResumesCommon ==
    ASSUME TypeOK, Ctl, NEW w \in Workers, NEW n \in Active, frames[n].at = "forked",
           NEW gone, NEW s \in BOOLEAN, NEW acc, Resumes(n, gone, s, acc),
           \/ gone = {} /\ ~s /\ runs[w] = Nobody
           \/ gone = {LeftHalf(n)} /\ s /\ runs[w] = LeftHalf(n) /\ frames[LeftHalf(n)].at = "return",
           runs' = [runs EXCEPT ![w] = RightHalf(n)], dead' = dead
    PROVE  Resumed(w, n, gone, s)
<1> USE DEF Ctl
<1> DEFINE z == RightHalf(n)
           y == LeftHalf(n)
<1>1. Shape'
  BY ShapeResumes
<1>2. /\ y \in Active /\ n \in Nodes /\ z \in Nodes /\ Split(n) /\ z # Nobody
      /\ n # y /\ n # z /\ z # y /\ frames[y].up = n /\ n \notin Resting /\ Tree(Active, Resting)
  BY Halves, NodeFacts, WorkersAssumption DEF Shape, FrameOK, TypeOK, Resting, Nodes
<1>3. z \notin Active
  <2>1. \A x \in Active : ~In(x, z)
    BY <1>2, NoneInHalf
  <2>. QED BY <1>2, <2>1, NodeFacts DEF In
<1>4. /\ Active' = (Active \ gone) \cup {z} /\ \A u \in Active \ (gone \cup {n}) : Keeps(u)
      /\ frames'[n].at = "rest" /\ frames'[n].ser = s /\ frames'[z].at = "call"
      /\ gone \subseteq {y} /\ n \in Active'
  BY <1>2 DEF Resumes, Sets, IsNew
<1>5. \A v \in Workers : runs'[v] = IF v = w THEN z ELSE runs[v]
  BY DEF TypeOK
<1>6. \A m \in Active' : m # n => (Sep(m)' <=> m \in Active /\ Sep(m))
  BY <1>2, <1>3, <1>4 DEF Sep, Keeps
<1>7. Sep(n)' <=> ~s
  BY <1>4 DEF Sep
<1>8. gone # {} => frames[y].at = "return" /\ gone = {y}
  BY <1>4
<1>9. \A u \in Active : u # n /\ frames[u].at = "forked" => u \in Active' /\ frames'[u].at = "forked"
  BY <1>4, <1>8 DEF Keeps
<1>10. \A u \in Active' : frames'[u].at = "forked" => u # n /\ u \in Active /\ frames[u].at = "forked"
  BY <1>3, <1>4 DEF Keeps
<1>11. Running'
  <2>1. ASSUME NEW v \in Workers, v # w, runs[v] # Nobody
        PROVE  runs[v] \in Active' /\ frames'[runs[v]].at \in {"call", "return", "join"} /\ runs[v] # z
    <3>1. runs[v] \in Active /\ frames[runs[v]].at \in {"call", "return", "join"}
      BY <2>1 DEF Running
    <3>2. runs[v] # n /\ runs[v] \notin gone
      BY <1>2, <2>1, <3>1 DEF Running
    <3>. QED BY <1>3, <1>4, <3>1, <3>2 DEF Keeps
  <2>2. \A u, v \in Workers : runs'[u] = runs'[v] => u = v \/ runs'[u] = Nobody
    BY <1>2, <1>5, <2>1 DEF Running
  <2>. QED BY <1>4, <1>5, <2>1, <2>2 DEF Running
<1>12. z \notin dead
  <2>1. SUFFICES ASSUME NEW m \in Active, Sep(m), z = LeftHalf(m) PROVE FALSE
    BY DEF Deaths
  <2>2. Split(m)
    BY <2>1, SepFacts
  <2>. QED BY <1>2, <2>1, <2>2, LeftOfOne
<1>13. Deaths'
  <2>1. ASSUME NEW d \in dead PROVE d \notin Active' /\ \E k \in Active' : Sep(k)' /\ d = LeftHalf(k)
    <3>1. PICK k \in Active : Sep(k) /\ d = LeftHalf(k)
      BY DEF Deaths
    <3>2. k # n /\ k \notin gone /\ d \notin Active
      BY <1>8, <3>1 DEF Deaths, Sep
    <3>. QED BY <1>4, <1>6, <1>12, <3>1, <3>2
  <2>2. ASSUME NEW k \in Active', Sep(k)' PROVE LeftHalf(k) \in Active' \/ LeftHalf(k) \in dead
    <3>1. CASE k = n
      BY <1>2, <1>4, <1>7, <2>2, <3>1
    <3>2. CASE k # n
      <4>1. k \in Active /\ Sep(k) /\ Split(k)
        BY <1>6, <2>2, <3>2, SepFacts
      <4>2. LeftHalf(k) # y
        BY <1>2, <3>2, <4>1, SepFacts
      <4>. QED BY <1>4, <4>1, <4>2 DEF Deaths
    <3>. QED BY <3>1, <3>2
  <2>. QED BY <2>1, <2>2 DEF Deaths
<1>. QED BY <1>1, <1>2, <1>3, <1>4, <1>5, <1>6, <1>7, <1>9, <1>10, <1>11, <1>13 DEF Resumed

(* A sequence without its last or its first element.                          *)
LEMMA FrontFacts ==
    ASSUME NEW s \in Seq(Nodes), s # <<>>
    PROVE  \E k \in Nat : /\ Len(s) = k + 1 /\ Last(s) = s[k + 1] /\ s[k + 1] \in Nodes
                          /\ Front(s) \in Seq(Nodes) /\ Len(Front(s)) = k
                          /\ \A i \in 1 .. k : Front(s)[i] = s[i]
<1>1. Len(s) \in Nat \ {0}
  BY EmptySeq
<1>2. PICK k \in Nat : Len(s) = k + 1
  BY <1>1
<1>3. 1 \in Int /\ k \in Int /\ Len(s) - 1 = k /\ \A i \in 1 .. k : s[i] \in Nodes
  BY <1>2
<1>4. /\ Front(s) \in Seq(Nodes) /\ Len(Front(s)) = IF 1 <= k THEN k - 1 + 1 ELSE 0
      /\ \A i \in 1 .. (k - 1 + 1) : Front(s)[i] = s[1 + i - 1]
  BY <1>3, SubSeqProperties DEF Front
<1>5. Len(Front(s)) = k
  BY <1>2, <1>4
<1>6. ASSUME NEW i \in 1 .. k PROVE Front(s)[i] = s[i]
  <2>1. i \in 1 .. (k - 1 + 1) /\ 1 + i - 1 = i
    BY <1>2
  <2>. QED BY <1>4, <2>1
<1>. QED BY <1>2, <1>4, <1>5, <1>6 DEF Last

(* As FrontFacts, without the first element.                                  *)
LEMMA TailFacts ==
    ASSUME NEW s \in Seq(Nodes), s # <<>>
    PROVE  \E k \in Nat : /\ Len(s) = k + 1 /\ Head(s) = s[1] /\ s[1] \in Nodes
                          /\ Tail(s) \in Seq(Nodes) /\ Len(Tail(s)) = k
                          /\ \A i \in 1 .. k : Tail(s)[i] = s[i + 1]
<1>1. Len(s) \in Nat \ {0}
  BY EmptySeq
<1>2. PICK k \in Nat : Len(s) = k + 1
  BY <1>1
<1>. QED BY <1>2, HeadTailProperties

(* A thread ends and its parent is the newest entry of the queue of w.        *)
LEMMA CtlSerialized ==
    ASSUME TypeOK, Ctl, NEW w \in Workers, NEW n \in Active, frames[n].at = "forked",
           runs[w] = LeftHalf(n), frames[LeftHalf(n)].at = "return",
           wsq[w] # <<>>, n = Last(wsq[w]), wsq' = [wsq EXCEPT ![w] = Front(@)],
           NEW acc, Resumes(n, {LeftHalf(n)}, TRUE, acc),
           runs' = [runs EXCEPT ![w] = RightHalf(n)], dead' = dead
    PROVE  Ctl'
<1> USE DEF Ctl
<1> DEFINE z == RightHalf(n)
           y == LeftHalf(n)
<1>1. Resumed(w, n, {y}, TRUE)
  BY ResumesCommon
<1>2. /\ Shape' /\ Running' /\ Deaths'
      /\ n \in Nodes /\ Split(n) /\ y \in Active /\ z \in Nodes /\ z # Nobody
      /\ \A v \in Workers : runs'[v] = IF v = w THEN z ELSE runs[v]
      /\ \A u \in Active : u # n /\ frames[u].at = "forked" => u \in Active' /\ frames'[u].at = "forked"
      /\ \A u \in Active' : frames'[u].at = "forked" => u # n /\ u \in Active /\ frames[u].at = "forked"
  BY <1>1 DEF Resumed
<1>3. SepShrinks
  BY <1>1 DEF SepShrinks, Resumed
<1>4. wsq[w] \in Seq(Nodes) /\ wsq'[w] = Front(wsq[w]) /\ \A v \in Workers : v # w => wsq'[v] = wsq[v]
  BY DEF TypeOK
<1>5. PICK k \in Nat : /\ Len(wsq[w]) = k + 1 /\ n = wsq[w][k + 1] /\ Len(wsq'[w]) = k
                       /\ \A i \in 1 .. k : wsq'[w][i] = wsq[w][i]
  BY <1>4, FrontFacts
<1>6. Queues'
  <2>1. ASSUME NEW i \in 1 .. k PROVE EntryOK(w, i)'
    <3> DEFINE p == wsq[w][i]
    <3>1. i \in 1 .. Len(wsq[w]) /\ k + 1 \in 1 .. Len(wsq[w]) /\ i < k + 1 /\ i # Len(wsq[w])
      BY <1>5
    <3>2. EntryOK(w, i) /\ p = wsq'[w][i] /\ p \in Nodes
      BY <1>4, <1>5, <3>1 DEF Queues
    <3>3. p \in Active /\ frames[p].at = "forked" /\ In(n, LeftHalf(p)) /\ Split(p)
      BY <1>5, <3>1, <3>2 DEF EntryOK, Shape, FrameOK
    <3>4. p # n /\ In(z, LeftHalf(p)) /\ z[2] = n[2]
      BY <1>2, <3>2, <3>3, Halves, NodeFacts DEF In
    <3>5. p \in Active' /\ frames'[p].at = "forked"
      BY <1>2, <3>3, <3>4
    <3>6. ASSUME NEW j \in 1 .. Len(wsq'[w]), i < j PROVE In(wsq'[w][j], LeftHalf(p))
      BY <1>5, <3>2, <3>6 DEF EntryOK
    <3>7. Follower(w, i)[2] = mid(p) /\ Follower(w, i) = wsq[w][i + 1]
      BY <3>1, <3>2 DEF EntryOK, Follower
    <3>8. Follower(w, i)'[2] = mid(p)
      <4>1. CASE i = k
        BY <1>2, <1>5, <3>4, <3>7, <4>1 DEF Follower
      <4>2. CASE i # k
        <5>1. i + 1 \in 1 .. k
          BY <4>2
        <5>. QED BY <1>5, <3>7, <4>2, <5>1 DEF Follower
      <4>. QED BY <4>1, <4>2
    <3>. QED BY <1>2, <3>2, <3>4, <3>5, <3>6, <3>8 DEF EntryOK
  <2>2. ASSUME NEW v \in Workers, v # w PROVE \A i \in 1 .. Len(wsq'[v]) : EntryOK(v, i)'
    <3>1. ASSUME NEW i \in 1 .. Len(wsq[v]) PROVE wsq[v][i] # n
      <4>1. v \in Busy(wsq[v][i])
        BY QueuedBusy
      <4>2. k + 1 \in 1 .. Len(wsq[w])
        BY <1>5
      <4>3. w \in Busy(n) /\ Whole(n)
        BY <1>5, <4>2, QueuedBusy DEF Forks
      <4>. QED BY <2>2, <4>1, <4>3, OneBusy
    <3>2. wsq'[v] = wsq[v] /\ runs'[v] = runs[v]
      BY <1>2, <1>4, <2>2
    <3>3. \A u \in Active : u # n /\ frames[u].at = "forked" => u \in Active' /\ frames'[u].at = "forked"
      BY <1>2
    <3>4. Queues
      OBVIOUS
    <3>. QED BY <3>1, <3>2, <3>3, <3>4, OthersKept, Zenon
  <2>. QED BY <1>5, <2>1, <2>2 DEF Queues
<1>7. Forks'
  <2>1. SUFFICES ASSUME NEW u \in Active', frames'[u].at = "forked"
                 PROVE  Whole(u)' /\ \E v \in Workers : \E i \in 1 .. Len(wsq'[v]) : u = wsq'[v][i]
    BY DEF Forks
  <2>2. u # n /\ u \in Active /\ frames[u].at = "forked"
    BY <1>2, <2>1
  <2>3. Whole(u)'
    BY <1>3, <2>2, WholeKept DEF Forks
  <2>4. PICK v \in Workers : \E i \in 1 .. Len(wsq[v]) : u = wsq[v][i]
    BY <2>2 DEF Forks
  <2>5. PICK i \in 1 .. Len(wsq[v]) : u = wsq[v][i]
    BY <2>4
  <2>6. CASE v # w
    BY <1>4, <2>3, <2>5, <2>6
  <2>7. CASE v = w
    <3>1. i \in 1 .. k
      BY <1>5, <2>2, <2>5, <2>7
    <3>. QED BY <1>5, <2>3, <2>5, <2>7, <3>1
  <2>. QED BY <2>6, <2>7
<1>. QED BY <1>2, <1>6, <1>7

(* A continuation is stolen by w from the queue of v.                         *)
LEMMA CtlStolen ==
    ASSUME TypeOK, Ctl, NEW w \in Workers, NEW v \in Workers, v # w,
           NEW n \in Active, frames[n].at = "forked",
           runs[w] = Nobody, wsq[v] # <<>>, n = Head(wsq[v]), wsq' = [wsq EXCEPT ![v] = Tail(@)],
           NEW acc, Resumes(n, {}, FALSE, acc),
           runs' = [runs EXCEPT ![w] = RightHalf(n)], dead' = dead
    PROVE  Ctl'
<1> USE DEF Ctl
<1> DEFINE z == RightHalf(n)
<1>1. Resumed(w, n, {}, FALSE)
  BY ResumesCommon
<1>2. /\ Shape' /\ Running' /\ Deaths'
      /\ n \in Nodes /\ Split(n) /\ z \in Nodes
      /\ \A x \in Workers : runs'[x] = IF x = w THEN z ELSE runs[x]
      /\ \A m \in Active' : Sep(m)' => m = n \/ (m \in Active /\ Sep(m))
      /\ \A u \in Active : u # n /\ frames[u].at = "forked" => u \in Active' /\ frames'[u].at = "forked"
      /\ \A u \in Active' : frames'[u].at = "forked" => u # n /\ u \in Active /\ frames[u].at = "forked"
  BY <1>1 DEF Resumed
<1>3. wsq[v] \in Seq(Nodes) /\ wsq'[v] = Tail(wsq[v]) /\ \A x \in Workers : x # v => wsq'[x] = wsq[x]
  BY DEF TypeOK
<1>4. PICK k \in Nat : /\ Len(wsq[v]) = k + 1 /\ n = wsq[v][1] /\ Len(wsq'[v]) = k
                       /\ \A i \in 1 .. k : wsq'[v][i] = wsq[v][i + 1]
  <2>1. PICK k \in Nat : /\ Len(wsq[v]) = k + 1 /\ Head(wsq[v]) = wsq[v][1] /\ Len(Tail(wsq[v])) = k
                         /\ \A i \in 1 .. k : Tail(wsq[v])[i] = wsq[v][i + 1]
    BY <1>3, TailFacts
  <2>. QED BY <1>3, <2>1
<1>5. 1 \in 1 .. Len(wsq[v]) /\ EntryOK(v, 1)
  BY <1>4 DEF Queues
<1>6. \A j \in 2 .. (k + 1) : In(wsq[v][j], LeftHalf(n)) /\ wsq[v][j] \in Nodes
  BY <1>3, <1>4, <1>5 DEF EntryOK
<1>7. ASSUME NEW u \in Nodes, In(u, LeftHalf(n)) PROVE u # n /\ ~In(n, u)
  BY <1>2, <1>7, Halves, NodeFacts DEF In
<1>8. Queues'
  <2>1. ASSUME NEW i \in 1 .. k PROVE EntryOK(v, i)'
    <3> DEFINE p == wsq[v][i + 1]
    <3>1. i + 1 \in 1 .. Len(wsq[v]) /\ i + 1 \in 2 .. (k + 1) /\ i \in 1 .. Len(wsq'[v])
      BY <1>4
    <3>2. EntryOK(v, i + 1) /\ p = wsq'[v][i] /\ p # n
      BY <1>4, <1>6, <1>7, <3>1 DEF Queues
    <3>3. p \in Active' /\ frames'[p].at = "forked"
      BY <1>2, <3>2 DEF EntryOK
    <3>4. runs'[v] = runs[v] /\ runs[v] # Nobody /\ In(runs[v], LeftHalf(p))
      BY <1>2, <3>2 DEF EntryOK
    <3>5. ASSUME NEW j \in 1 .. Len(wsq'[v]), i < j PROVE In(wsq'[v][j], LeftHalf(p))
      <4>1. j + 1 \in 1 .. Len(wsq[v]) /\ i + 1 < j + 1 /\ wsq'[v][j] = wsq[v][j + 1]
        BY <1>4, <3>5
      <4>. QED BY <3>2, <4>1 DEF EntryOK
    <3>6. Follower(v, i)' = Follower(v, i + 1)
      <4>1. CASE i = k
        BY <1>4, <3>4, <4>1 DEF Follower
      <4>2. CASE i # k
        <5>1. i + 1 \in 1 .. k
          BY <4>2
        <5>2. Follower(v, i)' = wsq'[v][i + 1]
          BY <1>4, <4>2 DEF Follower
        <5>3. Follower(v, i + 1) = wsq[v][i + 1 + 1]
          BY <1>4, <4>2 DEF Follower
        <5>. QED BY <1>4, <5>1, <5>2, <5>3
      <4>. QED BY <4>1, <4>2
    <3>. QED BY <3>2, <3>3, <3>4, <3>5, <3>6 DEF EntryOK
  <2>2. ASSUME NEW x \in Workers, x # v PROVE \A i \in 1 .. Len(wsq'[x]) : EntryOK(x, i)'
    <3>1. CASE x = w
      <4>1. Len(wsq'[x]) = 0
        BY <1>3, <3>1, EmptyQueue
      <4>2. 1 .. Len(wsq'[x]) = {}
        <5>1. 1 .. 0 = {}
          OBVIOUS
        <5>. QED BY <4>1, <5>1, Zenon
      <4>. QED BY <4>2, Zenon
    <3>2. CASE x # w
      <4>1. ASSUME NEW i \in 1 .. Len(wsq[x]) PROVE wsq[x][i] # n
        <5>1. x \in Busy(wsq[x][i])
          BY QueuedBusy
        <5>2. v \in Busy(n) /\ Whole(n)
          BY <1>4, <1>5, QueuedBusy DEF Forks
        <5>. QED BY <2>2, <5>1, <5>2, OneBusy
      <4>2. wsq'[x] = wsq[x] /\ runs'[x] = runs[x]
        BY <1>2, <1>3, <2>2, <3>2
      <4>3. \A u \in Active : u # n /\ frames[u].at = "forked" => u \in Active' /\ frames'[u].at = "forked"
        BY <1>2
      <4>4. Queues
        OBVIOUS
      <4>. QED BY <4>1, <4>2, <4>3, <4>4, OthersKept, Zenon
    <3>. QED BY <3>1, <3>2
  <2>. QED BY <1>4, <2>1, <2>2 DEF Queues
<1>9. Forks'
  <2>1. SUFFICES ASSUME NEW u \in Active', frames'[u].at = "forked"
                 PROVE  Whole(u)' /\ \E x \in Workers : \E i \in 1 .. Len(wsq'[x]) : u = wsq'[x][i]
    BY DEF Forks
  <2>2. u # n /\ u \in Active /\ frames[u].at = "forked" /\ Whole(u) /\ u \in Nodes
    BY <1>2, <2>1 DEF Forks, TypeOK
  <2>3. PICK x \in Workers : \E i \in 1 .. Len(wsq[x]) : u = wsq[x][i]
    BY <2>2 DEF Forks
  <2>4. PICK i \in 1 .. Len(wsq[x]) : u = wsq[x][i]
    BY <2>3
  <2>5. x = v => i \in 2 .. (k + 1)
    BY <1>4, <2>2, <2>4
  <2>6. ~In(n, u)
    <3>1. SUFFICES ASSUME In(n, u) PROVE FALSE
      OBVIOUS
    <3>2. x \in Busy(u)
      BY <2>4, QueuedBusy
    <3>3. runs[v] # Nobody /\ In(runs[v], n)
      <4>1. v \in Busy(n)
        BY <1>4, <1>5, QueuedBusy
      <4>. QED BY <4>1 DEF Busy
    <3>4. v \in Busy(u)
      <4>1. runs[v] \in Nodes /\ u[1] \in Nat /\ u[2] \in Nat
        BY <2>2, <3>3, NodeFacts DEF TypeOK
      <4>2. In(runs[v], u)
        BY <1>2, <3>1, <3>3, <4>1, InTrans
      <4>. QED BY <3>3, <4>2 DEF Busy
    <3>5. x = v
      BY <2>2, <3>2, <3>4, OneBusy
    <3>. QED BY <1>6, <1>7, <2>4, <2>5, <3>1, <3>5
  <2>7. Whole(u)'
    BY <1>2, <2>2, <2>6 DEF Whole
  <2>8. CASE x # v
    BY <1>3, <2>4, <2>7, <2>8
  <2>9. CASE x = v
    <3>1. ASSUME NEW h \in 2 .. (k + 1) PROVE \E j \in 1 .. k : h = j + 1
      <4>1. h - 1 \in 1 .. k /\ h = (h - 1) + 1
        BY ONLY k \in Nat, h \in 2 .. (k + 1)
      <4>. QED BY <4>1
    <3>2. i \in 2 .. (k + 1)
      BY <2>5, <2>9
    <3>3. PICK j \in 1 .. k : i = j + 1
      BY <3>1, <3>2
    <3>. QED BY <1>4, <2>4, <2>7, <2>9, <3>3
  <2>. QED BY <2>8, <2>9
<1>. QED BY <1>2, <1>8, <1>9

--------------------------------------------------------------------------------
(* How the actions change the frames: some handlers, those of W, may be       *)
(* honoured first.                                                            *)
Like(ks, W) ==
    /\ ks \in [Active -> Frames]
    /\ \A u \in Active : /\ ks[u].at = frames[u].at /\ ks[u].ser = frames[u].ser
                         /\ ks[u].acc = frames[u].acc /\ ks[u].up = frames[u].up
                         /\ ks[u].rh = frames[u].rh \/ frames[u].rh \in W

(* The handlers of the calls other than those in S.                           *)
Handlers(S, W) ==
    \A u \in Active \cap Active' : u \notin S => frames'[u].rh = frames[u].rh \/ frames[u].rh \in W

(* Honouring handlers changes nothing else.                                   *)
LEMMA HonouredFacts ==
    ASSUME TypeOK, NEW W
    PROVE  Like(frames, {}) /\ Like(honoured(frames, W), W)
<1>1. frames \in [Active -> Frames]
  BY DEF TypeOK
<1>2. honoured(frames, W) = [u \in Active |-> IF frames[u].rh \in W THEN [frames[u] EXCEPT !.rh = Nobody]
                                              ELSE frames[u]]
  BY DEF honoured, Active
<1>3. honoured(frames, W) \in [Active -> Frames]
  BY <1>1, <1>2 DEF Frames
<1>4. ASSUME NEW u \in Active
      PROVE  /\ honoured(frames, W)[u].at = frames[u].at /\ honoured(frames, W)[u].ser = frames[u].ser
             /\ honoured(frames, W)[u].acc = frames[u].acc /\ honoured(frames, W)[u].up = frames[u].up
             /\ honoured(frames, W)[u].rh = frames[u].rh \/ frames[u].rh \in W
  BY <1>1, <1>2 DEF Frames
<1>. QED BY <1>1, <1>3, <1>4 DEF Like

(* What the worker w executes, in a pass.                                     *)
LEMMA AtFacts ==
    ASSUME TypeOK, Ctl, NEW w \in Workers, NEW a, At(w, a)
    PROVE  /\ runs[w] \in Active /\ runs[w] \in Nodes /\ runs[w] # Nobody /\ frames[runs[w]].at = a
           /\ kind # "serial" /\ FrameOK(runs[w])
BY DEF TypeOK, Ctl, Running, At, Shape

(* A call moves to another place, and may drop its handler.                   *)
LEMMA MovesFrames ==
    ASSUME TypeOK, NEW W, NEW ks, Like(ks, W), NEW n \in Active, NEW a \in Places,
           frames' = [ks EXCEPT ![n].at = a] \/ frames' = [ks EXCEPT ![n].at = a, ![n].rh = Nobody]
    PROVE  Moves(n, a) /\ Handlers({n}, W) /\ frames' \in [Active' -> Frames]
<1>1. ks \in [Active -> Frames]
  BY DEF Like
<1>2. PICK y \in Frames : /\ frames' = [ks EXCEPT ![n] = y]
                          /\ y.at = a /\ y.ser = ks[n].ser /\ y.acc = ks[n].acc /\ y.up = ks[n].up
  <2>0. ks[n] \in Frames
    BY <1>1
  <2>1. CASE frames' = [ks EXCEPT ![n].at = a]
    <3> DEFINE y == [ks[n] EXCEPT !.at = a]
    <3>1. y \in Frames /\ y.at = a /\ y.ser = ks[n].ser /\ y.acc = ks[n].acc /\ y.up = ks[n].up
      BY <2>0 DEF Frames
    <3>2. frames' = [ks EXCEPT ![n] = y]
      BY <2>1
    <3>. QED BY <3>1, <3>2
  <2>2. CASE frames' = [ks EXCEPT ![n].at = a, ![n].rh = Nobody]
    <3> DEFINE y == [ks[n] EXCEPT !.at = a, !.rh = Nobody]
    <3>1. y \in Frames /\ y.at = a /\ y.ser = ks[n].ser /\ y.acc = ks[n].acc /\ y.up = ks[n].up
      BY <2>0 DEF Frames
    <3>2. frames' = [ks EXCEPT ![n] = y]
      BY <1>1, <2>2
    <3>. QED BY <3>1, <3>2
  <2>. QED BY <2>1, <2>2
<1>3. frames' \in [Active -> Frames]
  BY <1>1, <1>2
<1>4. /\ \A u \in Active : u # n => frames'[u] = ks[u]
      /\ frames'[n] = y
  BY <1>1, <1>2
<1>5. Active' = Active
  BY <1>3 DEF Active
<1>6. Sets(n, a, frames[n].ser)
  BY <1>2, <1>4 DEF Sets, Like
<1>7. \A u \in Active \ {n} : Keeps(u)
  BY <1>4 DEF Keeps, Like
<1>8. Handlers({n}, W)
  BY <1>4, <1>5 DEF Handlers, Like
<1>. QED BY <1>3, <1>5, <1>6, <1>7, <1>8 DEF Moves

(* A call ends, and its caller up moves to another place.                     *)
LEMMA EndsFrames ==
    ASSUME TypeOK, NEW W, NEW ks, Like(ks, W), NEW n \in Active, NEW up \in Active, up # n, NEW a \in Places,
           \/ frames' = [WithoutFrame(ks, n) EXCEPT ![up].at = a]
           \/ frames' = [WithoutFrame(ks, n) EXCEPT ![up].at = a, ![up].rh = Nobody]
           \/ frames' = WithoutFrame(ks, n) /\ a = frames[up].at
    PROVE  Ends(n, up, a) /\ Handlers({up}, W) /\ frames' \in [Active' -> Frames]
<1> DEFINE js == WithoutFrame(ks, n)
<1>1. ks \in [Active -> Frames]
  BY DEF Like
<1>2. js \in [Active \ {n} -> Frames] /\ \A u \in Active \ {n} : js[u] = ks[u]
  BY <1>1 DEF WithoutFrame
<1> HIDE DEF js
<1>3. PICK y \in Frames : /\ frames' = [js EXCEPT ![up] = y]
                          /\ y.at = a /\ y.ser = ks[up].ser /\ y.acc = ks[up].acc /\ y.up = ks[up].up
  <2>0. js[up] \in Frames /\ js[up] = ks[up]
    BY <1>2
  <2>1. CASE frames' = [js EXCEPT ![up].at = a]
    <3> DEFINE y == [js[up] EXCEPT !.at = a]
    <3>1. y \in Frames /\ y.at = a /\ y.ser = ks[up].ser /\ y.acc = ks[up].acc /\ y.up = ks[up].up
      BY <2>0 DEF Frames
    <3>2. frames' = [js EXCEPT ![up] = y]
      BY <2>1
    <3>. QED BY <3>1, <3>2
  <2>2. CASE frames' = [js EXCEPT ![up].at = a, ![up].rh = Nobody]
    <3> DEFINE y == [js[up] EXCEPT !.at = a, !.rh = Nobody]
    <3>1. y \in Frames /\ y.at = a /\ y.ser = ks[up].ser /\ y.acc = ks[up].acc /\ y.up = ks[up].up
      BY <2>0 DEF Frames
    <3>2. frames' = [js EXCEPT ![up] = y]
      BY <1>2, <2>2
    <3>. QED BY <3>1, <3>2
  <2>3. CASE frames' = js /\ a = frames[up].at
    <3>1. js[up].at = a
      BY <1>2, <2>3 DEF Like
    <3>2. frames' = [js EXCEPT ![up] = js[up]]
      BY <1>2, <2>3
    <3>. QED BY <2>0, <3>1, <3>2
  <2>. QED BY <2>1, <2>2, <2>3 DEF js
<1>4. frames' \in [Active \ {n} -> Frames]
  BY <1>2, <1>3
<1>5. /\ \A u \in Active \ {n} : u # up => frames'[u] = ks[u]
      /\ frames'[up] = y
  BY <1>2, <1>3
<1>6. Active' = Active \ {n}
  BY <1>4 DEF Active
<1>7. Sets(up, a, frames[up].ser)
  BY <1>3, <1>5 DEF Sets, Like
<1>8. \A u \in Active \ {n, up} : Keeps(u)
  BY <1>5 DEF Keeps, Like
<1>9. Handlers({up}, W)
  BY <1>5, <1>6 DEF Handlers, Like
<1>. QED BY <1>4, <1>6, <1>7, <1>8, <1>9 DEF Ends

(* A call forks.                                                              *)
LEMMA ForkFrames ==
    ASSUME TypeOK, NEW n \in Active, LeftHalf(n) \notin Active, LeftHalf(n) \in Nodes, NEW rh \in Workers \cup {Nobody},
           frames' = WithFrame([frames EXCEPT ![n].at = "forked", ![n].rh = rh],
                               LeftHalf(n), Frame(rh, frames[n].acc, n))
    PROVE  /\ Forking(n) /\ Handlers({n}, {}) /\ frames' \in [Active' -> Frames]
           /\ frames'[n].rh = rh /\ frames'[LeftHalf(n)].rh = rh
<1> DEFINE z == LeftHalf(n)
           ks == [frames EXCEPT ![n].at = "forked", ![n].rh = rh]
           x == Frame(rh, frames[n].acc, n)
<1>1. frames \in [Active -> Frames] /\ n \in Nodes
  BY DEF TypeOK
<1>2. /\ ks \in [Active -> Frames] /\ \A u \in Active : u # n => ks[u] = frames[u]
      /\ ks[n] = [frames[n] EXCEPT !.at = "forked", !.rh = rh]
  BY <1>1 DEF Frames, Places
<1>3. x \in Frames /\ x.at = "call" /\ x.ser = FALSE /\ x.acc = frames[n].acc /\ x.up = n /\ x.rh = rh
  BY <1>1 DEF Frame, Frames, Places
<1> HIDE DEF ks, x
<1>4. frames' = [u \in Active \cup {z} |-> IF u = z THEN x ELSE ks[u]]
  BY <1>2 DEF WithFrame, ks, x
<1> HIDE DEF z
<1>5. frames' \in [Active \cup {z} -> Frames]
  BY <1>2, <1>3, <1>4
<1>6. frames'[z] = x /\ \A u \in Active : u # z => frames'[u] = ks[u]
  BY <1>4
<1>7. z \notin Active
  BY DEF z
<1>8. Active' = Active \cup {z}
  BY <1>5 DEF Active
<1>9. frames[n] \in Frames /\ frames'[n] = [frames[n] EXCEPT !.at = "forked", !.rh = rh]
  BY <1>1, <1>2, <1>6, <1>7
<1>10. Sets(n, "forked", frames[n].ser) /\ frames'[n].rh = rh
  <2>1. ASSUME NEW f \in Frames, NEW g, g = [f EXCEPT !.at = "forked", !.rh = rh]
        PROVE  g.at = "forked" /\ g.rh = rh /\ g.ser = f.ser /\ g.acc = f.acc /\ g.up = f.up
    BY ONLY <2>1 DEF Frames
  <2>. QED BY <1>9, <2>1 DEF Sets
<1>11. \A u \in Active \ {n} : Keeps(u)
  BY <1>2, <1>6, <1>7 DEF Keeps
<1>12. IsNew(z, n, frames[n].acc) /\ frames'[z].rh = rh
  BY <1>3, <1>6 DEF IsNew
<1>13. Handlers({n}, {})
  BY <1>2, <1>6, <1>7 DEF Handlers
<1>. QED BY <1>5, <1>8, <1>10, <1>11, <1>12, <1>13 DEF Forking, z

(* The frames of ks but those of the calls in gone.                           *)
Leaves(js, ks, gone) ==
    js \in [Active \ gone -> Frames] /\ \A u \in Active \ gone : js[u] = ks[u]

(* The continuation of n goes on, from the frames js.                         *)
RestsFrom(n, gone, s, rh, acc, ks, W, js) ==
    /\ Like(ks, W) /\ Leaves(js, ks, gone) /\ n \notin gone
    /\ RightHalf(n) \notin Active /\ RightHalf(n) \in Nodes
    /\ rh \in Workers \cup {Nobody} /\ s \in BOOLEAN /\ acc \in 0 .. (Items - 1)
    /\ frames' = CallRest(js, n, s, rh, acc)

(* The continuation of n goes on.                                             *)
LEMMA RestFrames ==
    ASSUME TypeOK, NEW n \in Active, NEW gone, NEW s, NEW rh, NEW acc, NEW ks, NEW W, NEW js,
           RestsFrom(n, gone, s, rh, acc, ks, W, js)
    PROVE  /\ Resumes(n, gone, s, acc) /\ Handlers({n}, W) /\ frames' \in [Active' -> Frames]
           /\ frames'[RightHalf(n)].rh = rh
<1> USE DEF RestsFrom
<1> DEFINE z == RightHalf(n)
           A == Active \ gone
           is == [js EXCEPT ![n].at = "rest", ![n].ser = s, ![n].rh = rh]
           x == Frame(rh, acc, n)
<1>1. js \in [A -> Frames] /\ (\A u \in A : js[u] = ks[u]) /\ n \in Nodes /\ n \in A
  BY DEF Leaves, TypeOK
<1> DEFINE y == [ks[n] EXCEPT !.at = "rest", !.ser = s, !.rh = rh]
<1>2. /\ y \in Frames /\ y.at = "rest" /\ y.ser = s /\ y.acc = frames[n].acc /\ y.up = frames[n].up
  <2>1. ks[n] \in Frames
    BY DEF Like
  <2>. QED BY <2>1 DEF Frames, Places, Like
<1>3. /\ is \in [A -> Frames] /\ \A u \in A : u # n => is[u] = ks[u]
      /\ is[n] = y
  <2>1. is = [js EXCEPT ![n] = y]
    BY <1>1
  <2> HIDE DEF is, y
  <2>. QED BY <1>2, <1>1, <2>1
<1> HIDE DEF y
<1>4. x \in Frames /\ x.at = "call" /\ x.ser = FALSE /\ x.acc = acc /\ x.up = n /\ x.rh = rh
  BY <1>1 DEF Frame, Frames, Places
<1> HIDE DEF is, x
<1>5. frames' = [u \in A \cup {z} |-> IF u = z THEN x ELSE is[u]]
  BY <1>3 DEF CallRest, WithFrame, is, x
<1>6. z \notin A /\ z \notin Active
  OBVIOUS
<1> HIDE DEF z
<1>7. frames' \in [A \cup {z} -> Frames]
  BY <1>3, <1>4, <1>5
<1>8. frames'[z] = x /\ \A u \in A : u # z => frames'[u] = is[u]
  BY <1>5
<1>9. Active' = A \cup {z}
  BY <1>7 DEF Active
<1>10. Sets(n, "rest", s)
  BY <1>2, <1>1, <1>3, <1>8, <1>6 DEF Sets
<1>11. ASSUME NEW u \in Active, u \notin gone, u # n PROVE frames'[u] = ks[u]
  <2>1. u \in A /\ u # z
    BY <1>6, <1>11
  <2>. QED BY <1>3, <1>8, <1>11, <2>1
<1>12. \A u \in Active \ (gone \cup {n}) : Keeps(u)
  BY <1>11 DEF Keeps, Like
<1>13. IsNew(z, n, acc) /\ frames'[z].rh = rh
  BY <1>4, <1>8 DEF IsNew
<1>14. Handlers({n}, W)
  BY <1>6, <1>9, <1>11 DEF Handlers, Like
<1>. QED BY <1>7, <1>9, <1>10, <1>12, <1>13, <1>14 DEF Resumes, z

--------------------------------------------------------------------------------
(* Accumulators.  Each call was given the accumulator of its caller, or, when *)
(* it was stolen, the one that the thief made; that one is in use as long as  *)
(* the calls are separated.                                                   *)
Rooted(n) == \/ frames[n].acc = 0
             \/ \E k \in Active : Sep(k) /\ frames[n].acc = mid(k) /\ In(n, RightHalf(k))

AccOK(n) ==
    /\ LeftHalf(n) \in Active => frames[LeftHalf(n)].acc = frames[n].acc
    /\ frames[n].at = "rest" =>
         frames[RightHalf(n)].acc = IF frames[n].ser THEN frames[n].acc ELSE mid(n)
    /\ Rooted(n)

Accs == \A n \in Active : AccOK(n)

(* Only calls that have nothing in their right halves are joined.             *)
JoinsEmpty ==
    \A k \in Active : Sep(k) =>
        (k \in Active' /\ Sep(k)') \/ \A m \in Active' : m \in Active => ~In(m, RightHalf(k))

(* A call keeps its accumulator in use.                                       *)
LEMMA RootedKept ==
    ASSUME JoinsEmpty, NEW m \in Active, m \in Active', frames'[m].acc = frames[m].acc, Rooted(m)
    PROVE  Rooted(m)'
BY DEF JoinsEmpty, Rooted

(* Nothing is in the right half of a call that does not rest.                 *)
LEMMA NothingRight ==
    ASSUME Shape, NEW k \in Active, Split(k), frames[k].at # "rest", NEW m \in Active
    PROVE  ~In(m, RightHalf(k))
BY NoneInHalf DEF Shape, Resting

(* The accumulators when a call moves.                                        *)
LEMMA AccsMoves ==
    ASSUME TypeOK, Shape, Accs, NEW n \in Active, NEW a \in {"return", "wait"}, Moves(n, a),
           frames[n].at # "rest"
    PROVE  Accs'
<1>1. /\ Active' = Active /\ \A u \in Active : frames'[u].acc = frames[u].acc /\ frames'[u].ser = frames[u].ser
      /\ \A u \in Active : frames'[u].at = "rest" => frames[u].at = "rest"
  BY DEF Moves, Keeps, Sets
<1>2. JoinsEmpty
  <2>1. ASSUME NEW k \in Active, Sep(k), k # n PROVE Sep(k)'
    BY <2>1 DEF Sep, Moves, Keeps
  <2>2. Sep(n) => \A m \in Active : ~In(m, RightHalf(n))
    BY NothingRight, SepFacts
  <2>. QED BY <1>1, <2>1, <2>2 DEF JoinsEmpty
<1>3. ASSUME NEW u \in Active PROVE AccOK(u)'
  <2>1. AccOK(u) /\ (frames[u].at = "rest" => RightHalf(u) \in Active)
    BY DEF Accs, Shape, Tree, Resting
  <2>2. Rooted(u)'
    BY <1>1, <1>2, <2>1, RootedKept DEF AccOK
  <2>. QED BY <1>1, <2>1, <2>2 DEF AccOK
<1>. QED BY <1>1, <1>3 DEF Accs

(* The accumulators when a call ends.                                         *)
LEMMA AccsEnds ==
    ASSUME TypeOK, Shape, Shape', Accs, NEW n \in Active, n # Root, frames[n].at = "return",
           NEW up, up = frames[n].up, NEW a \in Places, Ends(n, up, a), EndsWell(n, up, a)
    PROVE  Accs'
<1>0. up \in Active /\ Split(up) /\ up \in Nodes /\ n \in Nodes
  BY DEF Shape, FrameOK, TypeOK
<1>1. /\ Active' = Active \ {n} /\ \A u \in Active' : frames'[u].acc = frames[u].acc /\ frames'[u].ser = frames[u].ser
      /\ \A u \in Active' : frames'[u].at = "rest" => frames[u].at = "rest"
  BY <1>0 DEF Ends, Keeps, Sets, EndsWell
<1>2. JoinsEmpty
  <2>1. ASSUME NEW k \in Active, Sep(k), k # up PROVE k \in Active' /\ Sep(k)'
    BY <1>1, <2>1 DEF Sep, Ends, Keeps
  <2>2. ASSUME Sep(up) PROVE (up \in Active' /\ Sep(up)') \/ \A m \in Active : ~In(m, RightHalf(up))
    <3>1. CASE a = "return"
      BY <1>0, <3>1, NothingRight DEF EndsWell
    <3>2. CASE a # "return"
      <4>1. up # n
        BY <2>2 DEF Sep
      <4>. QED BY <1>0, <1>1, <2>2, <3>2, <4>1 DEF Sep, Ends, Sets, EndsWell
    <3>. QED BY <3>1, <3>2
  <2>. QED BY <2>1, <2>2 DEF JoinsEmpty
<1>3. ASSUME NEW u \in Active' PROVE AccOK(u)'
  <2>1. u \in Active /\ AccOK(u) /\ (frames'[u].at = "rest" => RightHalf(u) \in Active')
    BY <1>1 DEF Accs, Shape, Tree, Resting
  <2>2. Rooted(u)'
    BY <1>1, <1>2, <2>1, RootedKept DEF AccOK
  <2>. QED BY <1>1, <2>1, <2>2 DEF AccOK
<1>. QED BY <1>3 DEF Accs

(* The accumulators when a call forks.                                        *)
LEMMA AccsForking ==
    ASSUME TypeOK, Shape, Shape', Accs, NEW n \in Active, frames[n].at = "call", Split(n), Forking(n)
    PROVE  Accs'
<1> DEFINE z == LeftHalf(n)
<1>0. n \in Nodes /\ z \in Nodes /\ z \notin Active /\ In(z, n)
  BY Halves, NodeFacts DEF Shape, FrameOK, TypeOK, In
<1>1. /\ Active' = Active \cup {z} /\ \A u \in Active : frames'[u].acc = frames[u].acc /\ frames'[u].ser = frames[u].ser
      /\ \A u \in Active : frames'[u].at = "rest" <=> frames[u].at = "rest"
      /\ \A k \in Active : Sep(k) => Sep(k)'
      /\ frames'[z].acc = frames[n].acc /\ frames'[z].at = "call" /\ frames'[z].up = n
  BY DEF Forking, Keeps, Sets, Sep, IsNew
<1>2. JoinsEmpty
  BY <1>1 DEF JoinsEmpty
<1>3. ASSUME NEW u \in Active PROVE AccOK(u)'
  <2>1. AccOK(u) /\ (frames[u].at = "rest" => RightHalf(u) \in Active)
    BY DEF Accs, Shape, Tree, Resting
  <2>2. Rooted(u)'
    BY <1>1, <1>2, <2>1, RootedKept DEF AccOK
  <2>3. LeftHalf(u) = z => u = n
    BY <1>1 DEF Shape, FrameOK
  <2>. QED BY <1>0, <1>1, <2>1, <2>2, <2>3 DEF AccOK
<1>4. AccOK(z)'
  <2>1. LeftHalf(z) \notin Active'
    BY <1>1 DEF Shape, FrameOK
  <2>2. Rooted(z)'
    <3>1. AccOK(n)
      BY DEF Accs
    <3>2. CASE frames[n].acc = 0
      BY <1>1, <3>2 DEF Rooted
    <3>3. CASE frames[n].acc # 0
      <4>1. PICK k \in Active : Sep(k) /\ frames[n].acc = mid(k) /\ In(n, RightHalf(k))
        BY <3>1, <3>3 DEF AccOK, Rooted
      <4>2. k \in Nodes /\ RightHalf(k) \in Nodes
        BY <4>1, SepFacts, Halves DEF TypeOK
      <4>3. In(z, RightHalf(k))
        BY <1>0, <4>1, <4>2, NodeFacts DEF In
      <4>. QED BY <1>1, <4>1, <4>3 DEF Rooted
    <3>. QED BY <3>2, <3>3
  <2>. QED BY <1>1, <2>1, <2>2 DEF AccOK
<1>. QED BY <1>1, <1>3, <1>4 DEF Accs

(* The accumulators when the continuation of a fork goes on.                  *)
LEMMA AccsResumes ==
    ASSUME TypeOK, Shape, Shape', Accs, NEW n \in Active, frames[n].at = "forked",
           NEW gone, NEW s \in BOOLEAN, NEW acc, Resumes(n, gone, s, acc),
           \/ gone = {} /\ ~s /\ acc = mid(n)
           \/ /\ gone = {LeftHalf(n)} /\ s /\ frames[LeftHalf(n)].at = "return"
              /\ acc = frames[LeftHalf(n)].acc
    PROVE  Accs'
<1> DEFINE z == RightHalf(n)
           y == LeftHalf(n)
<1>0. n \in Nodes /\ z \in Nodes /\ z \notin Active /\ y \in Active /\ In(z, n) /\ Split(n) /\ y # n /\ n # z /\ In(z, z)
  <2>1. n \in Nodes /\ y \in Active /\ Split(n)
    BY DEF Shape, FrameOK, TypeOK
  <2>2. z \in Nodes /\ In(z, n) /\ In(z, z) /\ y # n /\ n # z
    BY <2>1, Halves, NodeFacts DEF In
  <2>. QED BY <2>1, <2>2, NothingRight
<1>1. /\ Active' = (Active \ gone) \cup {z}
      /\ \A u \in Active \ gone : frames'[u].acc = frames[u].acc
      /\ \A u \in Active \ gone : u # n => Keeps(u)
      /\ frames'[n].at = "rest" /\ frames'[n].ser = s /\ n \in Active'
      /\ frames'[z].acc = acc /\ frames'[z].at = "call" /\ frames'[z].up = n
  BY <1>0 DEF Resumes, Keeps, Sets, IsNew
<1>2. \A k \in Active : Sep(k) => k \in Active' /\ Sep(k)'
  BY <1>0, <1>1 DEF Keeps, Sep
<1>3. JoinsEmpty
  BY <1>2 DEF JoinsEmpty
<1>4. acc = IF s THEN frames[n].acc ELSE mid(n)
  BY <1>0 DEF Accs, AccOK
<1>5. ASSUME NEW u \in Active \ gone PROVE AccOK(u)'
  <2>1. AccOK(u) /\ u # z
    BY <1>0 DEF Accs
  <2>2. Rooted(u)'
    BY <1>1, <1>3, <2>1, RootedKept DEF AccOK
  <2>3. LeftHalf(u) \in Active' => frames'[LeftHalf(u)].acc = frames'[u].acc
    <3>1. ASSUME LeftHalf(u) = z PROVE FALSE
      <4>1. u = n
        BY <1>1, <3>1 DEF Shape, FrameOK
      <4>. QED BY <1>0, <3>1, <4>1
    <3>. QED BY <1>1, <2>1, <3>1 DEF AccOK
  <2>4. ASSUME frames'[u].at = "rest"
        PROVE  frames'[RightHalf(u)].acc = IF frames'[u].ser THEN frames'[u].acc ELSE mid(u)
    <3>1. CASE u = n
      BY <1>1, <1>4, <3>1
    <3>2. CASE u # n
      <4>1. frames[u].at = "rest" /\ frames'[u].ser = frames[u].ser
        BY <1>1, <2>4, <3>2 DEF Keeps
      <4>2. RightHalf(u) \in Active \cap Active' /\ RightHalf(u) # z
        BY <1>0, <1>1, <2>4, <4>1 DEF Shape, Tree, Resting
      <4>. QED BY <1>1, <2>1, <4>1, <4>2 DEF AccOK
    <3>. QED BY <3>1, <3>2
  <2>. QED BY <2>2, <2>3, <2>4 DEF AccOK
<1>6. AccOK(z)'
  <2>1. LeftHalf(z) \notin Active'
    BY <1>1 DEF Shape, FrameOK
  <2>2. Rooted(z)'
    <3>1. CASE ~s
      <4>1. Sep(n)'
        BY <1>1, <3>1 DEF Sep
      <4>. QED BY <1>0, <1>1, <1>4, <3>1, <4>1 DEF Rooted
    <3>2. CASE s /\ frames[n].acc = 0
      BY <1>1, <1>4, <3>2 DEF Rooted
    <3>3. CASE s /\ frames[n].acc # 0
      <4>1. PICK k \in Active : Sep(k) /\ frames[n].acc = mid(k) /\ In(n, RightHalf(k))
        BY <3>3 DEF Accs, AccOK, Rooted
      <4>2. k \in Nodes /\ RightHalf(k) \in Nodes
        BY <4>1, SepFacts, Halves DEF TypeOK
      <4>3. In(z, RightHalf(k))
        BY <1>0, <4>1, <4>2, NodeFacts DEF In
      <4>. QED BY <1>1, <1>2, <1>4, <3>3, <4>1, <4>3 DEF Rooted
    <3>. QED BY <3>1, <3>2, <3>3
  <2>. QED BY <1>1, <2>1, <2>2 DEF AccOK
<1>. QED BY <1>1, <1>5, <1>6 DEF Accs

--------------------------------------------------------------------------------
(* Who owns a cell.  A call covers the elements of its range that it has not  *)
(* handed to a call of one of its halves.                                     *)
CoversIn(n, i, A, R) ==
    /\ n[1] <= i /\ i < n[2]
    /\ ~(i < mid(n) /\ LeftHalf(n) \in A)
    /\ ~(mid(n) <= i /\ n \in R)

Covers(n, i) == CoversIn(n, i, Active, Resting)

(* The accumulators in use: the first, and one for each separated call.       *)
Live(a) == kind = "reduce" /\ (a = 0 \/ \E k \in Active : Sep(k) /\ a = mid(k))

(* The call that would return the accumulator a, or combine it.               *)
Holds(n, a) ==
    /\ kind = "reduce"
    /\ \/ /\ frames[n].acc = a
          /\ \/ frames[n].at \in {"call", "return"}
             \/ frames[n].at = "join" /\ frames[n].ser
             \/ Sep(n) /\ LeftHalf(n) \notin Active
       \/ a = mid(n) /\ ~frames[n].ser /\ frames[n].at \in {"join", "wait"}

Owns(n, c) == IF c[1] = "acc" /\ Live(c[2]) THEN Holds(n, c[2]) ELSE Covers(n, c[2])

OneHolder == \A a \in Nat : \A m, n \in Active : Holds(m, a) /\ Holds(n, a) => m = n

(* No two calls cover the same element.                                       *)
LEMMA CoversOne ==
    ASSUME NEW A, NEW R, Tree(A, R), NEW m \in A, NEW n \in A, NEW i \in Nat,
           CoversIn(m, i, A, R), CoversIn(n, i, A, R)
    PROVE  m = n
<1>1. m \in Nodes /\ n \in Nodes /\ Related(m, n, A, R)
  BY DEF Tree
<1>2. /\ m[1] \in Nat /\ m[2] \in Nat /\ mid(m) \in Nat /\ n[1] \in Nat /\ n[2] \in Nat /\ mid(n) \in Nat
      /\ LeftHalf(m)[1] = m[1] /\ LeftHalf(m)[2] = mid(m) /\ LeftHalf(n)[1] = n[1] /\ LeftHalf(n)[2] = mid(n)
      /\ RightHalf(m)[1] = mid(m) /\ RightHalf(m)[2] = m[2] /\ RightHalf(n)[1] = mid(n) /\ RightHalf(n)[2] = n[2]
  BY <1>1, NodeFacts, Halves
<1>3. m[1] <= i /\ i < m[2] /\ n[1] <= i /\ i < n[2]
  BY DEF CoversIn
<1>4. ~Apart(m, n)
  BY <1>2, <1>3 DEF Apart
<1>5. ~Below(m, n, A, R)
  BY <1>2, <1>3 DEF Below, In, CoversIn
<1>6. ~Below(n, m, A, R)
  BY <1>2, <1>3 DEF Below, In, CoversIn
<1>. QED BY <1>1, <1>4, <1>5, <1>6 DEF Related

(* A held accumulator is in use.                                              *)
LEMMA HeldIsLive ==
    ASSUME TypeOK, Shape, Accs, NEW n \in Active, NEW a, Holds(n, a)
    PROVE  Live(a)
<1>1. CASE a = mid(n) /\ ~frames[n].ser /\ frames[n].at \in {"join", "wait"}
  BY <1>1 DEF Live, Holds, Sep
<1>2. CASE frames[n].acc = a
  BY <1>2 DEF Live, Holds, Accs, AccOK, Rooted
<1>. QED BY <1>1, <1>2 DEF Holds

(* A cell has one owner.                                                      *)
LEMMA OneOwner ==
    ASSUME TypeOK, Shape, OneHolder, NEW m \in Active, NEW n \in Active, NEW c \in Locations,
           Owns(m, c), Owns(n, c)
    PROVE  m = n
<1>1. c[2] \in Nat
  BY WorkersAssumption DEF Locations, Data, Acc
<1>2. CASE c[1] = "acc" /\ Live(c[2])
  BY <1>1, <1>2 DEF Owns, OneHolder
<1>3. CASE ~(c[1] = "acc" /\ Live(c[2]))
  <2>1. CoversIn(m, c[2], Active, Resting) /\ CoversIn(n, c[2], Active, Resting)
    BY <1>3 DEF Owns, Covers
  <2>. QED BY <1>1, <2>1, CoversOne DEF Shape
<1>. QED BY <1>2, <1>3

(* The accumulators in use are numbered.                                      *)
LEMMA LiveOf ==
    ASSUME TypeOK, Shape, NEW n \in Active, Split(n), ~Sep(n)
    PROVE  ~Live(mid(n)) /\ mid(n) \in Nat
<1>1. n \in Nodes /\ mid(n) # 0 /\ mid(n) \in Nat
  BY Halves, NodeFacts DEF TypeOK
<1>2. \A k \in Active : Sep(k) /\ mid(k) = mid(n) => k = n
  <2>1. Tree(Active, Resting)
    BY DEF Shape
  <2>. QED BY <2>1, SepFacts, LeftOfOne
<1>. QED BY <1>1, <1>2 DEF Live

(* What m holds after the step it held before, or got from n, being t.        *)
HoldsPassed(n, t) ==
    \A m \in Active' : \A a \in Nat : Holds(m, a)' =>
        (m \in Active /\ Holds(m, a) /\ (m = n => n = t)) \/ (m = t /\ Holds(n, a))

(* Then there is still one holder.                                            *)
LEMMA OneHolderKept ==
    ASSUME OneHolder, NEW n \in Active, NEW t, HoldsPassed(n, t)
    PROVE  OneHolder'
BY DEF OneHolder, HoldsPassed

(* What m owns after the step it owned before, or got from n, being t.        *)
OwnsPassed(n, t) ==
    \A m \in Active' : \A c \in Locations : Owns(m, c)' =>
        (m \in Active /\ Owns(m, c)) \/ (m = t /\ Owns(n, c))

(* A call moves.                                                              *)
LEMMA OwnsMoves ==
    ASSUME TypeOK, Ctl, Accs, OneHolder, Shape', kind' = kind, NEW n \in Active, NEW a, Moves(n, a),
           \/ a = "return" /\ frames[n].at \in {"call", "join"} /\ LeftHalf(n) \notin Active
           \/ a = "wait" /\ frames[n].at = "join" /\ Sep(n)
    PROVE  OneHolder' /\ OwnsPassed(n, n)
<1>1. /\ Active' = Active /\ Resting' = Resting /\ \A u \in Active : u # n => Keeps(u)
      /\ frames'[n].at = a /\ frames'[n].ser = frames[n].ser /\ frames'[n].acc = frames[n].acc
  BY DEF Moves, Keeps, Sets, Resting
<1>2. ASSUME NEW m \in Active, NEW b \in Nat, Holds(m, b)' PROVE Holds(m, b)
  <2>1. CASE m # n
    BY <1>1, <1>2, <2>1 DEF Keeps, Holds, Sep
  <2>2. CASE m = n
    BY <1>1, <1>2, <2>2 DEF Holds, Sep, Ctl, Shape, FrameOK
  <2>. QED BY <2>1, <2>2
<1>3. OneHolder'
  BY <1>1, <1>2 DEF OneHolder
<1>4. \A m \in Active, i \in Nat : Covers(m, i)' <=> Covers(m, i)
  BY <1>1 DEF Covers
<1>5. \A k \in Active : Sep(k)' => Sep(k)
  BY <1>1 DEF Sep, Keeps
<1>6. \A b : Live(b)' => Live(b)
  BY <1>1, <1>5 DEF Live
<1>7. ASSUME NEW m \in Active, NEW c \in Locations, Owns(m, c)' PROVE Owns(m, c)
  <2>1. c[2] \in Nat
    BY WorkersAssumption DEF Locations, Data, Acc
  <2>2. CASE Live(c[2])' <=> Live(c[2])
    BY <1>2, <1>4, <1>7, <2>1, <2>2 DEF Owns
  <2>3. CASE Live(c[2]) /\ ~Live(c[2])'
    <3>1. PICK k \in Active : Sep(k) /\ ~Sep(k)' /\ c[2] = mid(k) /\ kind = "reduce"
      BY <1>1, <2>3 DEF Live
    <3>2. k = n /\ a = "return" /\ Split(n) /\ n \in Nodes /\ LeftHalf(n) \notin Active /\ n \notin Resting
      BY <1>1, <3>1, SepFacts DEF Sep, Keeps, TypeOK, Ctl, Resting
    <3>3. CoversIn(n, c[2], Active, Resting)
      BY <3>1, <3>2, Halves, NodeFacts DEF CoversIn
    <3>4. CASE c[1] = "acc"
      <4>1. CoversIn(m, c[2], Active, Resting)
        BY <1>4, <1>7, <2>1, <2>3, <3>4 DEF Owns, Covers
      <4>2. m = n
        BY <2>1, <3>3, <4>1, CoversOne DEF Ctl, Shape
      <4>. QED BY <2>3, <3>1, <3>2, <3>4, <4>2 DEF Owns, Holds, Sep
    <3>5. CASE c[1] # "acc"
      BY <1>4, <1>7, <2>1, <3>5 DEF Owns
    <3>. QED BY <3>4, <3>5
  <2>. QED BY <1>6, <2>2, <2>3
<1>. QED BY <1>1, <1>3, <1>7 DEF OwnsPassed

(* A call ends.                                                               *)
LEMMA OwnsEnds ==
    ASSUME TypeOK, Ctl, Accs, OneHolder, Shape', kind' = kind, NEW w, NEW n \in Active, NEW up, AtEnd(w, n, up),
           NEW a \in Places, Ends(n, up, a), EndsWell(n, up, a)
    PROVE  OneHolder' /\ OwnsPassed(n, up)
<1>0. up \in Active /\ Split(up) /\ up \in Nodes /\ n \in Nodes /\ up # n /\ FrameOK(n) /\ FrameOK(up)
      /\ LeftHalf(n) \notin Active /\ n \notin Resting /\ frames[n].at = "return"
  <2>1. up \in Active /\ Split(up) /\ up \in Nodes /\ n \in Nodes /\ FrameOK(n) /\ FrameOK(up)
        /\ frames[n].at = "return"
    BY DEF Ctl, Shape, FrameOK, TypeOK, AtEnd
  <2>2. LeftHalf(n) \notin Active /\ n \notin Resting
    BY <2>1 DEF FrameOK, Resting
  <2>. QED BY <2>1, <2>2, Halves, NodeFacts DEF EndsWell
<1>1. /\ Active' = Active \ {n} /\ \A u \in Active : u # n /\ u # up => Keeps(u)
      /\ frames'[up].at = a /\ frames'[up].ser = frames[up].ser /\ frames'[up].acc = frames[up].acc
  BY DEF Ends, Sets
<1>2. \A u \in Active : Split(u) /\ LeftHalf(u) = n => u = up
  BY DEF Ctl, Shape, FrameOK, AtEnd
<1>3. AccOK(n) /\ AccOK(up)
  BY <1>0 DEF Accs
<1>4. LeftHalf(up) # RightHalf(up) /\ (n = LeftHalf(up) => ~frames[up].ser)
  BY <1>0, Halves, NodeFacts DEF FrameOK
<1>5. ASSUME NEW m \in Active', NEW b \in Nat, Holds(m, b)'
      PROVE  Holds(m, b) \/ (m = up /\ Holds(n, b))
  <2>1. CASE m # up
    <3>1. m \in Active /\ Keeps(m)
      BY <1>1, <2>1
    <3>2. LeftHalf(m) \notin Active' /\ Sep(m) => LeftHalf(m) \notin Active
      BY <1>1, <1>2, <2>1, <3>1, SepFacts DEF Ctl
    <3>. QED BY <1>5, <3>1, <3>2 DEF Keeps, Holds, Sep
  <2>2. CASE m = up /\ n = RightHalf(up) /\ frames[up].at = "rest" /\ a = "join"
    <3>1. frames[n].acc = IF frames[up].ser THEN frames[up].acc ELSE mid(up)
      BY <1>3, <2>2 DEF AccOK
    <3>2. LeftHalf(up) \notin Active' => LeftHalf(up) \notin Active
      BY <1>1, <1>4, <2>2
    <3>. QED BY <1>0, <1>1, <1>5, <2>2, <3>1, <3>2 DEF Holds, Sep
  <2>3. CASE m = up /\ n = LeftHalf(up) /\ frames[up].at \in {"rest", "join"} /\ a = frames[up].at
    <3>1. frames[n].acc = frames[up].acc
      BY <1>3, <2>3 DEF AccOK
    <3>. QED BY <1>0, <1>1, <1>4, <1>5, <2>3, <3>1 DEF Holds, Sep
  <2>4. CASE m = up /\ n = LeftHalf(up) /\ frames[up].at = "wait" /\ a = "return"
    <3>1. frames[n].acc = frames[up].acc
      BY <1>3, <2>4 DEF AccOK
    <3>. QED BY <1>0, <1>1, <1>4, <1>5, <2>4, <3>1 DEF Holds, Sep
  <2>. QED BY <2>1, <2>2, <2>3, <2>4 DEF EndsWell
<1>6. HoldsPassed(n, up)
  BY <1>1, <1>5 DEF HoldsPassed
<1>7. OneHolder'
  BY <1>6, OneHolderKept
<1>8. ASSUME NEW m \in Active', NEW i \in Nat, Covers(m, i)'
      PROVE  Covers(m, i) \/ (m = up /\ Covers(n, i))
  <2>1. m \in Nodes /\ m \in Active /\ (LeftHalf(m) \in Active => Split(m))
    BY <1>1, Halves DEF TypeOK
  <2>2. CASE m # up
    <3>1. LeftHalf(m) \in Active => LeftHalf(m) \in Active'
      BY <1>1, <1>2, <2>1, <2>2
    <3>2. m \in Resting => m \in Resting'
      BY <1>1, <2>2 DEF Resting, Keeps
    <3>. QED BY <1>8, <3>1, <3>2 DEF Covers, CoversIn
  <2>3. CASE m = up
    <3>1. up[1] <= i /\ i < up[2] /\ up[1] \in Nat /\ up[2] \in Nat /\ mid(up) \in Nat
      BY <1>0, <1>8, <2>3, NodeFacts, Halves DEF Covers, CoversIn
    <3>2. CASE n = RightHalf(up) /\ frames[up].at = "rest" /\ a = "join"
      <4>1. CASE mid(up) <= i
        <5>1. n[1] <= i /\ i < n[2]
          BY <1>0, <3>1, <3>2, <4>1, Halves
        <5>. QED BY <1>0, <2>3, <5>1 DEF Covers, CoversIn
      <4>2. CASE ~(mid(up) <= i)
        <5>1. LeftHalf(up) \in Active => LeftHalf(up) \in Active'
          BY <1>1, <1>4, <3>2
        <5>. QED BY <1>8, <2>3, <3>1, <4>2, <5>1 DEF Covers, CoversIn
      <4>. QED BY <4>1, <4>2
    <3>3. CASE n = LeftHalf(up) /\ frames[up].at \in {"rest", "join", "wait"} /\ (a = frames[up].at \/ frames[up].at = "wait")
      <4>1. CASE i < mid(up)
        <5>1. n[1] <= i /\ i < n[2]
          BY <1>0, <3>1, <3>3, <4>1, Halves
        <5>. QED BY <1>0, <2>3, <5>1 DEF Covers, CoversIn
      <4>2. CASE ~(i < mid(up))
        <5>1. up \in Resting => up \in Resting'
          BY <1>0, <1>1, <3>3 DEF Resting
        <5>. QED BY <1>8, <2>3, <3>1, <4>2, <5>1 DEF Covers, CoversIn
      <4>. QED BY <4>1, <4>2
    <3>. QED BY <3>2, <3>3 DEF EndsWell
  <2>. QED BY <2>2, <2>3
<1>9. \A k \in Active' : Sep(k)' => k \in Active /\ Sep(k)
  BY <1>0, <1>1 DEF Sep, Keeps, EndsWell
<1>10. \A b : Live(b)' => Live(b)
  BY <1>9 DEF Live
<1>11. ASSUME NEW m \in Active', NEW c \in Locations, Owns(m, c)'
       PROVE  Owns(m, c) \/ (m = up /\ Owns(n, c))
  <2>1. c[2] \in Nat
    BY WorkersAssumption DEF Locations, Data, Acc
  <2>2. CASE Live(c[2])' <=> Live(c[2])
    BY <1>5, <1>8, <1>11, <2>1, <2>2 DEF Owns
  <2>3. CASE Live(c[2]) /\ ~Live(c[2])'
    <3>1. PICK k \in Active : Sep(k) /\ ~(k \in Active' /\ Sep(k)') /\ c[2] = mid(k) /\ kind = "reduce"
      BY <1>1, <2>3 DEF Live
    <3>2. k = up
      BY <1>0, <1>1, <3>1 DEF Sep, Keeps
    <3>3. a = "return" /\ frames[up].at = "wait" /\ n = LeftHalf(up)
      BY <1>0, <1>1, <3>1, <3>2 DEF Sep, EndsWell
    <3>4. CoversIn(up, c[2], Active', Resting')
      <4>1. up \notin Resting' /\ mid(up) = c[2] /\ up[1] <= mid(up) /\ mid(up) < up[2] /\ ~(mid(up) < mid(up))
        BY <1>0, <1>1, <3>1, <3>2, <3>3, Halves, NodeFacts DEF Resting
      <4>. QED BY <4>1 DEF CoversIn
    <3>5. CASE c[1] = "acc"
      <4>1. CoversIn(m, c[2], Active', Resting')
        BY <1>11, <2>3, <3>5 DEF Owns, Covers
      <4>2. m = up
        <5>1. up \in Active' /\ Tree(Active', Resting')
          BY <1>0, <1>1 DEF Shape
        <5>. QED BY <2>1, <3>4, <4>1, <5>1, CoversOne
      <4>. QED BY <2>3, <3>1, <3>2, <3>3, <3>5, <4>2 DEF Owns, Holds, Sep
    <3>6. CASE c[1] # "acc"
      BY <1>8, <1>11, <2>1, <3>6 DEF Owns
    <3>. QED BY <3>5, <3>6
  <2>. QED BY <1>10, <2>2, <2>3
<1>. QED BY <1>1, <1>7, <1>11 DEF OwnsPassed

(* A call forks.                                                              *)
LEMMA OwnsForking ==
    ASSUME TypeOK, Ctl, Accs, OneHolder, Shape', kind' = kind,
           NEW n \in Active, frames[n].at = "call", Split(n), Forking(n)
    PROVE  /\ OneHolder' /\ OwnsPassed(n, LeftHalf(n))
           /\ ~Owns(n, Acc(frames[n].acc))' \/ kind # "reduce"
<1> DEFINE z == LeftHalf(n)
<1>0. /\ n \in Nodes /\ z \in Nodes /\ z \notin Active /\ n \notin Resting /\ ~frames[n].ser
      /\ z[1] = n[1] /\ z[2] = mid(n) /\ mid(n) <= n[2] /\ mid(n) \in Nat /\ n[2] \in Nat
  <2>1. n \in Nodes /\ z \notin Active /\ n \notin Resting /\ ~frames[n].ser
    BY DEF Ctl, Shape, FrameOK, TypeOK, Resting
  <2>. QED BY <2>1, Halves, NodeFacts
<1>1. /\ Active' = Active \cup {z} /\ Resting' = Resting /\ \A u \in Active : u # n => Keeps(u)
      /\ frames'[n].at = "forked" /\ frames'[n].ser = frames[n].ser
      /\ frames'[z].at = "call" /\ frames'[z].acc = frames[n].acc /\ frames'[z].ser = FALSE
  BY <1>0 DEF Forking, Sets, IsNew, Resting, Keeps
<1>2. \A k \in Active' : Sep(k)' <=> k \in Active /\ Sep(k)
  BY <1>0, <1>1 DEF Sep, Keeps
<1>3. \A b : Live(b)' <=> Live(b)
  BY <1>1, <1>2 DEF Live
<1>4. ASSUME NEW m \in Active', NEW b \in Nat, Holds(m, b)'
      PROVE  (m \in Active /\ m # n /\ Holds(m, b)) \/ (m = z /\ Holds(n, b))
  <2>1. m # n
    BY <1>1, <1>4 DEF Holds, Sep
  <2>2. CASE m = z
    BY <1>1, <1>4, <2>2 DEF Holds, Sep
  <2>3. CASE m # z
    <3>1. m \in Active /\ Keeps(m)
      BY <1>1, <2>1, <2>3
    <3>. QED BY <1>1, <1>4, <2>1, <3>1 DEF Keeps, Holds, Sep
  <2>. QED BY <2>2, <2>3
<1>5. HoldsPassed(n, z)
  BY <1>4 DEF HoldsPassed
<1>6. OneHolder'
  BY <1>5, OneHolderKept
<1>7. ASSUME NEW m \in Active', NEW i \in Nat, Covers(m, i)'
      PROVE  (m \in Active /\ Covers(m, i)) \/ (m = z /\ Covers(n, i))
  <2>1. CASE m \in Active
    BY <1>1, <1>7, <2>1 DEF Covers, CoversIn
  <2>2. CASE m = z
    BY <1>0, <1>7, <2>2 DEF Covers, CoversIn
  <2>. QED BY <1>1, <2>1, <2>2
<1>8. OwnsPassed(n, z)
  <2>1. \A c \in Locations : c[2] \in Nat
    BY WorkersAssumption DEF Locations, Data, Acc
  <2>2. SUFFICES ASSUME NEW m \in Active', NEW c \in Locations, Owns(m, c)'
                 PROVE  (m \in Active /\ Owns(m, c)) \/ (m = z /\ Owns(n, c))
    BY DEF OwnsPassed
  <2>. QED BY <1>3, <1>4, <1>7, <2>1, <2>2 DEF Owns
<1>9. ASSUME kind = "reduce" PROVE ~Owns(n, Acc(frames[n].acc))'
  <2>1. frames'[n].acc = frames[n].acc
    BY DEF Forking, Sets
  <2>2. Live(frames[n].acc)'
    <3>1. Holds(n, frames[n].acc)
      BY <1>9 DEF Holds
    <3>2. Live(frames[n].acc)
      BY <3>1, HeldIsLive DEF Ctl
    <3>. QED BY <1>3, <2>1, <3>2
  <2>3. ~Holds(n, frames[n].acc)'
    BY <1>1 DEF Holds, Sep
  <2>. QED BY <2>1, <2>2, <2>3 DEF Owns, Acc
<1>. QED BY <1>6, <1>8, <1>9

(* A continuation is stolen: its right half gets all that it owned, and a new *)
(* accumulator.                                                               *)
LEMMA OwnsStolen ==
    ASSUME TypeOK, Ctl, Accs, OneHolder, Shape', kind' = kind,
           NEW n \in Active, frames[n].at = "forked", Resumes(n, {}, FALSE, mid(n))
    PROVE  /\ OneHolder' /\ \A c \in Locations : ~Owns(n, c)'
           /\ OwnsPassed(n, RightHalf(n))
<1> DEFINE z == RightHalf(n)
           y == LeftHalf(n)
<1>0. /\ n \in Nodes /\ z \in Nodes /\ z \notin Active /\ n \notin Resting /\ y \in Active /\ y \in Nodes
      /\ z[1] = mid(n) /\ z[2] = n[2] /\ n[1] < mid(n) /\ mid(n) \in Nat /\ n[1] \in Nat /\ n # z /\ Split(n)
  <2>1. n \in Nodes /\ y \in Active /\ n \notin Resting /\ Split(n) /\ y \in Nodes
    BY DEF Ctl, Shape, FrameOK, TypeOK, Resting
  <2>. QED BY <2>1, Halves, NodeFacts, NothingRight DEF Ctl, In
<1>1. /\ Active' = Active \cup {z} /\ Resting' = Resting \cup {n} /\ \A u \in Active : u # n => Keeps(u)
      /\ frames'[n].at = "rest" /\ frames'[n].ser = FALSE
      /\ frames'[z].at = "call" /\ frames'[z].acc = mid(n) /\ frames'[z].ser = FALSE
  BY <1>0 DEF Resumes, Sets, IsNew, Resting, Keeps
<1>2. \A k \in Active' : Sep(k)' <=> k = n \/ (k \in Active /\ Sep(k))
  BY <1>0, <1>1 DEF Sep, Keeps
<1>3. ~Live(mid(n)) /\ \A b : Live(b)' <=> Live(b) \/ (b = mid(n) /\ kind = "reduce")
  <2>1. ~Sep(n)
    BY DEF Sep
  <2>2. ~Live(mid(n))
    BY <1>0, <2>1, LiveOf DEF Ctl
  <2>. QED BY <1>0, <1>1, <1>2, <2>2 DEF Live
<1>4. ASSUME NEW m \in Active', NEW b \in Nat, Holds(m, b)'
      PROVE  (m \in Active /\ m # n /\ Holds(m, b)) \/ (m = z /\ b = mid(n))
  <2>1. m # n
    BY <1>0, <1>1, <1>4 DEF Holds, Sep
  <2>2. CASE m = z
    BY <1>1, <1>4, <2>2 DEF Holds, Sep
  <2>3. CASE m # z
    <3>1. m \in Active /\ Keeps(m)
      BY <1>1, <2>1, <2>3
    <3>. QED BY <1>1, <1>4, <2>1, <3>1 DEF Keeps, Holds, Sep
  <2>. QED BY <2>2, <2>3
<1>5. \A m \in Active : ~Holds(m, mid(n))
  BY <1>3, HeldIsLive DEF Ctl
<1>6. OneHolder'
  BY <1>4, <1>5 DEF OneHolder
<1>7. ASSUME NEW m \in Active', NEW i \in Nat, Covers(m, i)'
      PROVE  (m \in Active /\ m # n /\ Covers(m, i)) \/ (m = z /\ Covers(n, i))
  <2>1. CASE m = n
    BY <1>0, <1>1, <1>7, <2>1 DEF Covers, CoversIn
  <2>2. CASE m = z
    BY <1>0, <1>7, <2>2 DEF Covers, CoversIn
  <2>3. CASE m \in Active /\ m # n
    BY <1>1, <1>7, <2>3 DEF Covers, CoversIn
  <2>. QED BY <1>1, <2>1, <2>2, <2>3
<1>8. \A c \in Locations : c[2] \in Nat
  BY WorkersAssumption DEF Locations, Data, Acc
<1>9. Covers(n, mid(n))
  BY <1>0, NodeFacts DEF Covers, CoversIn
<1>10. ASSUME NEW m \in Active', NEW c \in Locations, Owns(m, c)'
       PROVE  (m \in Active /\ m # n /\ Owns(m, c)) \/ (m = z /\ Owns(n, c))
  <2>1. CASE c[1] = "acc" /\ c[2] = mid(n) /\ kind = "reduce"
    <3>1. Holds(m, mid(n))'
      BY <1>3, <1>10, <2>1 DEF Owns
    <3>2. m = z
      BY <1>0, <1>4, <1>5, <3>1
    <3>3. Owns(n, c)
      BY <1>3, <1>9, <2>1 DEF Owns
    <3>. QED BY <3>2, <3>3
  <2>2. CASE ~(c[1] = "acc" /\ c[2] = mid(n) /\ kind = "reduce")
    <3>1. CASE c[1] = "acc" /\ Live(c[2])'
      <4>1. Live(c[2]) /\ Holds(m, c[2])' /\ c[2] # mid(n)
        BY <1>3, <1>10, <2>2, <3>1 DEF Owns, Live
      <4>. QED BY <1>4, <1>8, <3>1, <4>1 DEF Owns
    <3>2. CASE ~(c[1] = "acc" /\ Live(c[2])')
      <4>1. ~(c[1] = "acc" /\ Live(c[2])) /\ Covers(m, c[2])'
        BY <1>3, <1>10, <3>2 DEF Owns
      <4>. QED BY <1>7, <1>8, <4>1 DEF Owns
    <3>. QED BY <3>1, <3>2
  <2>. QED BY <2>1, <2>2
<1>11. \A c \in Locations : ~Owns(n, c)'
  BY <1>0, <1>1, <1>10
<1>. QED BY <1>6, <1>10, <1>11 DEF OwnsPassed

(* A thread ends and its parent goes on: what the thread had covered goes to  *)
(* its parent, and the rest to the right half.                                *)
LEMMA OwnsSerialized ==
    ASSUME TypeOK, Ctl, Accs, OneHolder, Shape', kind' = kind,
           NEW n \in Active, frames[n].at = "forked", frames[LeftHalf(n)].at = "return",
           Resumes(n, {LeftHalf(n)}, TRUE, frames[LeftHalf(n)].acc)
    PROVE  /\ OneHolder'
           /\ \A m \in Active' : \A c \in Locations : Owns(m, c)' =>
                \/ m \in Active /\ m # n /\ m # RightHalf(n) /\ Owns(m, c)
                \/ m = n /\ Owns(LeftHalf(n), c)
                \/ /\ m = RightHalf(n)
                   /\ Owns(n, c) \/ (Owns(LeftHalf(n), c) /\ kind = "reduce" /\ c = Acc(frames[LeftHalf(n)].acc))
<1> DEFINE z == RightHalf(n)
           y == LeftHalf(n)
<1>0. /\ n \in Nodes /\ z \in Nodes /\ z \notin Active /\ n \notin Resting /\ y \in Active /\ y \in Nodes
      /\ z[1] = mid(n) /\ z[2] = n[2] /\ n[1] < mid(n) /\ mid(n) \in Nat /\ n[1] \in Nat /\ n # z /\ Split(n)
      /\ n[2] \in Nat /\ y[1] = n[1] /\ y[2] = mid(n) /\ y # n /\ y # z
      /\ LeftHalf(y) \notin Active /\ y \notin Resting
  <2>1. n \in Nodes /\ y \in Active /\ n \notin Resting /\ Split(n) /\ y \in Nodes
        /\ LeftHalf(y) \notin Active /\ y \notin Resting
    BY DEF Ctl, Shape, FrameOK, TypeOK, Resting
  <2>. QED BY <2>1, Halves, NodeFacts, NothingRight DEF Ctl, In
<1>1. /\ Active' = (Active \ {y}) \cup {z} /\ \A u \in Active : u # n /\ u # y => Keeps(u)
      /\ frames'[n].at = "rest" /\ frames'[n].ser = TRUE
      /\ frames'[z].at = "call" /\ frames'[z].acc = frames[y].acc /\ frames'[z].ser = FALSE
  BY <1>0 DEF Resumes, Sets, IsNew
<1>2. Resting' = Resting \cup {n}
  BY <1>0, <1>1 DEF Resting, Keeps
<1>3. \A k \in Active' : Sep(k)' <=> (k \in Active /\ Sep(k))
  BY <1>0, <1>1 DEF Sep, Keeps
<1>4. ~Sep(y)
  BY DEF Sep
<1>5. \A b : Live(b)' <=> Live(b)
  BY <1>1, <1>3, <1>4 DEF Live
<1>6. \A u \in Active : Split(u) /\ LeftHalf(u) = y => u = n
  BY <1>0, SepFacts DEF Ctl
<1>7. ASSUME NEW m \in Active', NEW b \in Nat, Holds(m, b)'
      PROVE  (m \in Active /\ m # n /\ m # z /\ Holds(m, b)) \/ (m = z /\ Holds(y, b) /\ b = frames[y].acc)
  <2>1. m # n
    BY <1>0, <1>1, <1>7 DEF Holds, Sep
  <2>2. CASE m = z
    BY <1>1, <1>7, <2>2 DEF Holds, Sep
  <2>3. CASE m # z
    <3>1. m \in Active /\ m # y /\ Keeps(m)
      BY <1>0, <1>1, <2>1, <2>3
    <3>2. LeftHalf(m) \notin Active' /\ Sep(m) => LeftHalf(m) \notin Active
      BY <1>1, <1>6, <2>1, <3>1, SepFacts DEF Ctl
    <3>. QED BY <1>7, <2>1, <2>3, <3>1, <3>2 DEF Keeps, Holds, Sep
  <2>. QED BY <2>2, <2>3
<1>8. OneHolder'
  <2>1. HoldsPassed(y, z)
    BY <1>0, <1>1, <1>7 DEF HoldsPassed
  <2>. QED BY <1>0, <2>1, OneHolderKept
<1>9. ASSUME NEW m \in Active', NEW i \in Nat, Covers(m, i)'
      PROVE  \/ m \in Active /\ m # n /\ m # z /\ Covers(m, i)
             \/ m = n /\ Covers(y, i)
             \/ m = z /\ Covers(n, i)
  <2>1. CASE m = n
    BY <1>0, <1>2, <1>9, <2>1 DEF Covers, CoversIn
  <2>2. CASE m = z
    BY <1>0, <1>9, <2>2 DEF Covers, CoversIn
  <2>3. CASE m # n /\ m # z
    <3>1. m \in Active /\ m \in Nodes /\ (LeftHalf(m) \in Active => Split(m))
      BY <1>1, <2>3, Halves DEF TypeOK
    <3>2. LeftHalf(m) \in Active => LeftHalf(m) \in Active'
      BY <1>1, <1>6, <2>3, <3>1
    <3>3. m \in Resting => m \in Resting'
      BY <1>2
    <3>. QED BY <1>9, <2>3, <3>1, <3>2, <3>3 DEF Covers, CoversIn
  <2>. QED BY <2>1, <2>2, <2>3
<1>10. ASSUME NEW m \in Active', NEW c \in Locations, Owns(m, c)'
       PROVE  \/ m \in Active /\ m # n /\ m # z /\ Owns(m, c)
              \/ m = n /\ Owns(y, c)
              \/ /\ m = z
                 /\ Owns(n, c) \/ (Owns(y, c) /\ kind = "reduce" /\ c = Acc(frames[y].acc))
  <2>1. c[2] \in Nat /\ c = <<c[1], c[2]>>
    BY WorkersAssumption DEF Locations, Data, Acc
  <2>2. CASE c[1] = "acc" /\ Live(c[2])'
    <3>1. Live(c[2]) /\ Holds(m, c[2])' /\ kind = "reduce"
      BY <1>5, <1>10, <2>2 DEF Owns, Live
    <3>2. CASE m = z
      <4>1. Holds(y, c[2]) /\ c[2] = frames[y].acc
        BY <1>7, <2>1, <3>1, <3>2
      <4>. QED BY <2>1, <2>2, <3>1, <3>2, <4>1 DEF Owns, Acc
    <3>3. CASE m # z
      BY <1>7, <2>1, <2>2, <3>1, <3>3 DEF Owns
    <3>. QED BY <3>2, <3>3
  <2>3. CASE ~(c[1] = "acc" /\ Live(c[2])')
    <3>1. ~(c[1] = "acc" /\ Live(c[2])) /\ Covers(m, c[2])'
      BY <1>5, <1>10, <2>3 DEF Owns
    <3>. QED BY <1>9, <2>1, <3>1 DEF Owns
  <2>. QED BY <2>2, <2>3
<1>. QED BY <1>8, <1>10

--------------------------------------------------------------------------------
(* What a step of w leaves of a cell x that it does not write: the workers of *)
(* W have written back, and w has dropped its copy if drop is true.           *)
Fades(x, y, w, W, drop) ==
    /\ y.dirty = x.dirty \ W
    /\ \A u \in Workers : u # w \/ ~drop => (u \in x.fresh => u \in y.fresh) /\ (u \in y.old => u \in x.old)
    /\ drop => w \notin y.old

Faded(cs, w, W, drop) ==
    /\ cs \in [Locations -> Cells]
    /\ \A c \in Locations : Fades(cell[c], cs[c], w, W, drop)

Written(w, c) == cell'[c].fresh = {w} /\ cell'[c].dirty = {w}

(* A step of w writes the cells of C.                                         *)
Access(w, W, C, drop) ==
    \A c \in Locations :
        /\ c \in C => Written(w, c)
        /\ c \notin C => Fades(cell[c], cell'[c], w, W, drop)

(* release(), cell by cell.                                                   *)
LEMMA ReleasedFacts ==
    ASSUME NEW cs \in [Locations -> Cells], NEW W
    PROVE  /\ released(cs, W) \in [Locations -> Cells]
           /\ \A c \in Locations : /\ released(cs, W)[c].fresh = cs[c].fresh
                                    /\ released(cs, W)[c].old = cs[c].old
                                    /\ released(cs, W)[c].dirty = cs[c].dirty \ W
<1>1. ASSUME NEW c \in Locations
      PROVE  /\ released(cs, W)[c] \in Cells
             /\ released(cs, W)[c].fresh = cs[c].fresh
             /\ released(cs, W)[c].old = cs[c].old
             /\ released(cs, W)[c].dirty = cs[c].dirty \ W
  <2>1. released(cs, W)[c] = [cs[c] EXCEPT !.dirty = @ \ W] /\ cs[c] \in Cells
    BY DEF released
  <2>. QED BY <2>1 DEF Cells
<1>2. released(cs, W) = [c \in Locations |-> released(cs, W)[c]]
  BY DEF released
<1>. QED BY <1>1, <1>2

(* The copies of w are dropped, cell by cell.                                 *)
LEMMA InvalidatedFacts ==
    ASSUME NEW cs \in [Locations -> Cells], NEW w
    PROVE  /\ invalidate_all(cs, w) \in [Locations -> Cells]
           /\ \A c \in Locations : /\ invalidate_all(cs, w)[c].fresh = cs[c].fresh \ {w}
                                    /\ invalidate_all(cs, w)[c].old = cs[c].old \ {w}
                                    /\ invalidate_all(cs, w)[c].dirty = cs[c].dirty
<1>1. ASSUME NEW c \in Locations
      PROVE  /\ invalidate_all(cs, w)[c] \in Cells
             /\ invalidate_all(cs, w)[c].fresh = cs[c].fresh \ {w}
             /\ invalidate_all(cs, w)[c].old = cs[c].old \ {w}
             /\ invalidate_all(cs, w)[c].dirty = cs[c].dirty
  <2>1. invalidate_all(cs, w)[c] = [cs[c] EXCEPT !.fresh = @ \ {w}, !.old = @ \ {w}] /\ cs[c] \in Cells
    BY DEF invalidate_all
  <2>. QED BY <2>1 DEF Cells
<1>2. invalidate_all(cs, w) = [c \in Locations |-> invalidate_all(cs, w)[c]]
  BY DEF invalidate_all
<1>. QED BY <1>1, <1>2

(* acquire(), cell by cell.                                                   *)
LEMMA AcquiredFacts ==
    ASSUME NEW cs \in [Locations -> Cells], NEW w, NEW r
    PROVE  /\ acquired(cs, w, r) \in [Locations -> Cells]
           /\ \A c \in Locations : /\ acquired(cs, w, r)[c].fresh = cs[c].fresh \ {w}
                                    /\ acquired(cs, w, r)[c].old = cs[c].old \ {w}
                                    /\ acquired(cs, w, r)[c].dirty = cs[c].dirty \ {w, r}
<1> DEFINE ds == released(cs, {w, r})
<1>1. ds \in [Locations -> Cells] /\ acquired(cs, w, r) = invalidate_all(ds, w)
  BY ReleasedFacts DEF acquired
<1>2. \A c \in Locations : ds[c].fresh = cs[c].fresh /\ ds[c].old = cs[c].old /\ ds[c].dirty = cs[c].dirty \ {w, r}
  BY ReleasedFacts
<1> HIDE DEF ds
<1>. QED BY <1>1, <1>2, InvalidatedFacts

(* Nothing changes.                                                           *)
LEMMA FadedNot ==
    ASSUME TypeOK, NEW w \in Workers
    PROVE  Faded(cell, w, {}, FALSE)
BY DEF TypeOK, Faded, Fades, Cells

(* release()                                                                  *)
LEMMA FadedReleased ==
    ASSUME TypeOK, NEW w \in Workers
    PROVE  Faded(released(cell, {w}), w, {w}, FALSE)
<1> DEFINE cs == released(cell, {w})
<1>1. /\ cs \in [Locations -> Cells]
      /\ \A c \in Locations : cs[c].fresh = cell[c].fresh /\ cs[c].old = cell[c].old /\ cs[c].dirty = cell[c].dirty \ {w}
  BY ReleasedFacts DEF TypeOK
<1> HIDE DEF cs
<1>. QED BY <1>1 DEF Faded, Fades, cs

(* acquire()                                                                  *)
LEMMA FadedAcquired ==
    ASSUME TypeOK, NEW w \in Workers, NEW r
    PROVE  Faded(acquired(cell, w, r), w, {w, r}, TRUE)
BY AcquiredFacts DEF TypeOK, Faded, Fades

(* release() and then acquire()                                               *)
LEMMA FadedJoined ==
    ASSUME TypeOK, NEW w \in Workers
    PROVE  Faded(acquired(released(cell, {w}), w, Nobody), w, {w, Nobody}, TRUE)
<1> DEFINE cs == released(cell, {w})
<1>1. /\ cs \in [Locations -> Cells]
      /\ \A c \in Locations : cs[c].fresh = cell[c].fresh /\ cs[c].old = cell[c].old /\ cs[c].dirty = cell[c].dirty \ {w}
  BY ReleasedFacts DEF TypeOK
<1> HIDE DEF cs
<1>2. /\ acquired(cs, w, Nobody) \in [Locations -> Cells]
      /\ \A c \in Locations : /\ acquired(cs, w, Nobody)[c].fresh = cell[c].fresh \ {w}
                               /\ acquired(cs, w, Nobody)[c].old = cell[c].old \ {w}
                               /\ acquired(cs, w, Nobody)[c].dirty = cell[c].dirty \ {w, Nobody}
  BY <1>1, AcquiredFacts
<1>. QED BY <1>2 DEF Faded, Fades, cs

(* The accesses of w, after its fences.                                       *)
LEMMA AccessWritten ==
    ASSUME NEW w \in Workers, NEW W, NEW drop \in BOOLEAN, NEW cs, Faded(cs, w, W, drop),
           NEW C, cell' = written(cs, w, C)
    PROVE  Access(w, W, C, drop) /\ cell' \in [Locations -> Cells]
<1>1. cs \in [Locations -> Cells]
  BY DEF Faded
<1>2. cell' \in [Locations -> Cells]
  BY <1>1 DEF written, Cells
<1>3. ASSUME NEW c \in Locations
      PROVE  IF c \in C THEN Written(w, c) ELSE cell'[c] = cs[c]
  BY DEF written, Written
<1>. QED BY <1>2, <1>3 DEF Access, Faded

(* Only fences.                                                               *)
LEMMA AccessNothing ==
    ASSUME NEW w \in Workers, NEW W, NEW drop \in BOOLEAN, Faded(cell', w, W, drop)
    PROVE  Access(w, W, {}, drop) /\ cell' \in [Locations -> Cells]
BY DEF Faded, Access

--------------------------------------------------------------------------------
(* The state of a cell c that n owns: it is dirty only at workers that are    *)
(* busy inside n, the worker of a whole call sees the newest value, and, when *)
(* the call may be taken over from a queue, its handler names the worker at   *)
(* which the cell is dirty.                                                   *)
Pinned(n, c) ==
    \/ frames[n].at = "forked"
    \/ frames[n].at = "call" /\ kind # "invoke" /\ ~(kind = "reduce" /\ c = Acc(frames[n].acc))

Good(n, c) ==
    /\ cell[c].dirty \subseteq Busy(n)
    /\ Whole(n) => \A w \in Busy(n) : SeesNewest(cell, w, c)
    /\ Pinned(n, c) => cell[c].dirty \subseteq {frames[n].rh}

Memory == \A n \in Active : \A c \in Locations : Owns(n, c) => Good(n, c)

(* An owner whose cell is not written by the step.                            *)
LEMMA GoodKept ==
    ASSUME NEW w \in Workers, NEW W, NEW C, NEW drop \in BOOLEAN, Access(w, W, C, drop),
           NEW c \in Locations, c \notin C, NEW m, Good(m, c),
           Busy(m) \ Busy(m)' \subseteq W,
           Whole(m)' => \/ Whole(m) /\ Busy(m)' \subseteq Busy(m) /\ (drop => w \notin Busy(m)')
                        \/ drop /\ w \in W /\ Busy(m)' \subseteq {w},
           Pinned(m, c)' => Pinned(m, c) /\ (frames'[m].rh = frames[m].rh \/ frames[m].rh \in W)
    PROVE  Good(m, c)'
<1>0. Fades(cell[c], cell'[c], w, W, drop)
  BY DEF Access
<1>1. /\ cell'[c].dirty = cell[c].dirty \ W
      /\ \A u \in Workers : u # w \/ ~drop => /\ u \in cell[c].fresh => u \in cell'[c].fresh
                                              /\ u \in cell'[c].old => u \in cell[c].old
      /\ drop => w \notin cell'[c].old
  BY <1>0 DEF Fades
<1>2. cell[c].dirty \subseteq Busy(m)
  BY DEF Good
<1>3. cell'[c].dirty \subseteq Busy(m)'
  BY <1>1, <1>2
<1>4. ASSUME Whole(m)', NEW u \in Busy(m)' PROVE SeesNewest(cell', u, c)
  <2>0. u \in Workers
    BY DEF Busy
  <2>1. CASE Whole(m) /\ Busy(m)' \subseteq Busy(m) /\ (drop => w \notin Busy(m)')
    <3>1. SeesNewest(cell, u, c)
      BY <2>1 DEF Good
    <3>. QED BY <1>1, <2>0, <2>1, <3>1 DEF SeesNewest
  <2>2. CASE drop /\ w \in W /\ Busy(m)' \subseteq {w}
    <3>1. u = w /\ cell'[c].dirty = {}
      BY <1>1, <1>3, <2>2
    <3>. QED BY <1>1, <2>2, <3>1 DEF SeesNewest
  <2>. QED BY <1>4, <2>1, <2>2
<1>5. ASSUME Pinned(m, c)' PROVE cell'[c].dirty \subseteq {frames'[m].rh}
  BY <1>1, <1>5 DEF Good
<1>. QED BY <1>3, <1>4, <1>5 DEF Good

(* An owner whose cell is written by w.                                       *)
LEMMA GoodWritten ==
    ASSUME NEW w, NEW c, Written(w, c), NEW m, w \in Busy(m)', Whole(m)' => Busy(m)' \subseteq {w},
           Pinned(m, c)' => frames'[m].rh = w
    PROVE  Good(m, c)'
BY DEF Good, Written, SeesNewest

(* Only w is busy in a call that it executes, if the call has no child.       *)
LEMMA LoneBusy ==
    ASSUME TypeOK, Ctl, NEW w \in Workers, NEW n \in Active, n = runs[w],
           frames[n].at # "rest", LeftHalf(n) \notin Active
    PROVE  /\ Busy(n) = {w} /\ (Whole(n) <=> ~Sep(n)) /\ \A m \in Active : In(m, n) => m = n
<1>1. \A m \in Active : In(m, n) => m = n
  BY NoneInside DEF Ctl, Shape, Resting
<1>2. In(n, n) /\ n # Nobody
  BY NodeFacts, WorkersAssumption DEF TypeOK, In, Nodes
<1>3. Busy(n) = {w}
  BY <1>1, <1>2 DEF Busy, Ctl, Running
<1>. QED BY <1>1, <1>2, <1>3 DEF Whole

(* Only w is busy in a thread that it is at the end of.                       *)
LEMMA ThreadBusy ==
    ASSUME TypeOK, Ctl, NEW w \in Workers, NEW n \in Active, NEW up, AtEnd(w, n, up)
    PROVE  Busy(n) = {w}
<1>1. n = runs[w] /\ frames[n].at = "return"
  BY DEF AtEnd
<1>2. LeftHalf(n) \notin Active
  BY <1>1 DEF Ctl, Shape, FrameOK
<1>. QED BY <1>1, <1>2, LoneBusy

(* OneBusy for the next state as well.                                        *)
BusyOne == \A n \in Active : Whole(n) => \A v, w \in Busy(n) : v = w

(* A whole call has one busy worker at most, in this state                    *)
LEMMA BusyOneHolds == TypeOK /\ Ctl => BusyOne
BY OneBusy DEF BusyOne, Ctl

(* and in the next one.                                                       *)
LEMMA BusyOneNext == TypeOK' /\ Ctl' => BusyOne'
BY BusyOneHolds, PTL


(* An owner, when w only writes back.                                         *)
LEMMA GoodReleased ==
    ASSUME NEW w \in Workers, Access(w, {w}, {}, FALSE), NEW c \in Locations, NEW m, Good(m, c),
           Busy(m)' \subseteq Busy(m), Busy(m) \ Busy(m)' \subseteq {w}, Whole(m)' => Whole(m),
           Pinned(m, c)' => Pinned(m, c) /\ (frames'[m].rh = frames[m].rh \/ frames[m].rh \in {w})
    PROVE  Good(m, c)'
<1>1. PICK W, C : W = {w} /\ C = {}
  OBVIOUS
<1>2. PICK drop \in BOOLEAN : drop = FALSE
  OBVIOUS
<1>3. /\ Access(w, W, C, drop) /\ c \notin C
      /\ Busy(m) \ Busy(m)' \subseteq W
      /\ Pinned(m, c)' => Pinned(m, c) /\ (frames'[m].rh = frames[m].rh \/ frames[m].rh \in W)
  BY <1>1, <1>2
<1>4. Whole(m)' => \/ Whole(m) /\ Busy(m)' \subseteq Busy(m) /\ (drop => w \notin Busy(m)')
                   \/ drop /\ w \in W /\ Busy(m)' \subseteq {w}
  BY <1>2
<1>. QED BY <1>3, <1>4, GoodKept

(* The memory when a call comes to its end: Leaf, JoinSerialized, JoinEnded.  *)
LEMMA MemReturning ==
    ASSUME TypeOK, Ctl, Accs, OneHolder, Memory, TypeOK', Ctl', kind' = kind,
           NEW w \in Workers, NEW n \in Active, n = runs[w], runs' = runs,
           Moves(n, "return"), frames[n].at \in {"call", "join"}, LeftHalf(n) \notin Active,
           NEW W, NEW C, NEW drop \in BOOLEAN, Access(w, W, C, drop), Handlers({n}, W),
           drop => w \in W, Sep(n) => drop, \A c \in C : Owns(n, c)
    PROVE  Memory'
<1>1. /\ Active' = Active /\ \A u \in Active : u # n => Keeps(u)
      /\ frames'[n].at = "return"
  BY DEF Moves, Sets
<1>2. OwnsPassed(n, n)
  BY OwnsMoves DEF Ctl
<1>3. \A m : Busy(m)' = Busy(m)
  BY DEF Busy
<1>4. Busy(n) = {w}
  BY LoneBusy
<1>5. BusyOne'
  BY BusyOneNext
<1>6. ASSUME NEW m \in Active, Whole(m)', ~drop \/ w \notin Busy(m) PROVE Whole(m)
  <2>1. SUFFICES ASSUME NEW k \in Active, In(k, m), Sep(k) PROVE FALSE
    BY DEF Whole
  <2>2. k # n => Sep(k)'
    BY <1>1, <2>1 DEF Sep, Keeps
  <2>3. k = n
    BY <1>1, <1>6, <2>1, <2>2 DEF Whole
  <2>4. w \in Busy(m)
    BY <1>4, <2>1, <2>3 DEF Busy
  <2>. QED BY <1>6, <2>1, <2>3, <2>4
<1>7. SUFFICES ASSUME NEW m \in Active', NEW c \in Locations, Owns(m, c)' PROVE Good(m, c)'
  BY DEF Memory
<1>8. m \in Active /\ Owns(m, c) /\ Good(m, c)
  BY <1>2, <1>7 DEF OwnsPassed, Memory
<1>9. CASE c \in C
  <2>1. m = n
    BY <1>8, <1>9, OneOwner DEF Ctl
  <2>2. Written(w, c)
    BY <1>9 DEF Access
  <2>3. w \in Busy(m)' /\ Busy(m)' \subseteq {w}
    BY <1>3, <1>4, <2>1
  <2>4. ~Pinned(m, c)'
    BY <1>1, <2>1 DEF Pinned
  <2>. QED BY <2>2, <2>3, <2>4, GoodWritten
<1>10. CASE c \notin C
  <2>1. Busy(m) \ Busy(m)' \subseteq W
    BY <1>3
  <2>2. Whole(m)' => \/ Whole(m) /\ Busy(m)' \subseteq Busy(m) /\ (drop => w \notin Busy(m)')
                     \/ drop /\ w \in W /\ Busy(m)' \subseteq {w}
    <3>1. ASSUME Whole(m)', drop, w \in Busy(m)' PROVE Busy(m)' \subseteq {w}
      BY <1>5, <1>7, <3>1 DEF BusyOne
    <3>. QED BY <1>3, <1>6, <1>8, <3>1
  <2>3. ASSUME Pinned(m, c)' PROVE Pinned(m, c) /\ (frames'[m].rh = frames[m].rh \/ frames[m].rh \in W)
    <3>1. m # n
      BY <1>1, <2>3 DEF Pinned
    <3>. QED BY <1>1, <1>7, <1>8, <2>3, <3>1 DEF Pinned, Keeps, Handlers
  <2>. QED BY <1>8, <1>10, <2>1, <2>2, <2>3, GoodKept
<1>. QED BY <1>9, <1>10

(* A call waits.                                                              *)
LEMMA MemWaiting ==
    ASSUME TypeOK, Ctl, Accs, OneHolder, Memory, TypeOK', Ctl', kind' = kind,
           NEW w \in Workers, NEW n \in Active, n = runs[w], runs' = [runs EXCEPT ![w] = Nobody],
           Moves(n, "wait"), frames[n].at = "join", Sep(n),
           Access(w, {w}, {}, FALSE), Handlers({n}, {w})
    PROVE  Memory'
<1>1. /\ Active' = Active /\ \A u \in Active : u # n => Keeps(u)
      /\ frames'[n].at = "wait" /\ frames'[n].ser = frames[n].ser
  BY DEF Moves, Sets
<1>2. OwnsPassed(n, n)
  BY OwnsMoves DEF Ctl
<1>3. \A m : Busy(m)' \subseteq Busy(m) /\ Busy(m) \ Busy(m)' \subseteq {w}
  BY DEF Busy, TypeOK
<1>4. \A m \in Active : Whole(m)' => Whole(m)
  BY <1>1 DEF Whole, Sep, Keeps
<1>5. SUFFICES ASSUME NEW m \in Active', NEW c \in Locations, Owns(m, c)' PROVE Good(m, c)'
  BY DEF Memory
<1>6. m \in Active /\ Good(m, c)
  BY <1>2, <1>5 DEF OwnsPassed, Memory
<1>7. ASSUME Pinned(m, c)' PROVE Pinned(m, c) /\ (frames'[m].rh = frames[m].rh \/ frames[m].rh \in {w})
  <2>1. m # n
    BY <1>1, <1>7 DEF Pinned
  <2>. QED BY <1>1, <1>5, <1>6, <1>7, <2>1 DEF Pinned, Keeps, Handlers
<1>8. Whole(m)' => Whole(m)
  BY <1>4, <1>6
<1>. QED BY <1>3, <1>6, <1>7, <1>8, GoodReleased

(* w returns from n to its caller up, which goes to the place a.              *)
ReturnsTo(w, n, up, a) ==
    /\ AtEnd(w, n, up) /\ runs' = [runs EXCEPT ![w] = up]
    /\ a \in {"join", "return"} /\ Ends(n, up, a) /\ EndsWell(n, up, a)

(* A call ends and w goes on with its caller: ReturnCall, DieResuming.        *)
LEMMA MemReturned ==
    ASSUME TypeOK, Ctl, Accs, OneHolder, Memory, TypeOK', Ctl', kind' = kind,
           NEW w \in Workers, NEW n \in Active, NEW up, NEW a, ReturnsTo(w, n, up, a),
           NEW W, NEW C, NEW drop \in BOOLEAN, Access(w, W, C, drop), Handlers({up}, W),
           drop => w \in W, a = "return" => drop,
           \A c \in C : Owns(n, c) \/ Owns(up, c)
    PROVE  Memory'
<1> USE DEF ReturnsTo
<1>1. OwnsPassed(n, up)
  BY OwnsEnds DEF Ctl, Places
<1> USE DEF AtEnd
<1>2. /\ up \in Active /\ Split(up) /\ up \in Nodes /\ n \in Nodes /\ FrameOK(n) /\ FrameOK(up) /\ LeftHalf(n) \notin Active
      /\ up # Nobody /\ Tree(Active, Resting)
  BY WorkersAssumption DEF Ctl, Shape, FrameOK, TypeOK, Nodes
<1>3. /\ Active' = Active \ {n} /\ \A u \in Active : u # n /\ u # up => Keeps(u)
      /\ frames'[up].at = a /\ frames'[up].ser = frames[up].ser
  BY DEF Ends, Sets
<1>4. n # up /\ In(n, up) /\ In(up, up)
  BY <1>2, Halves, NodeFacts DEF EndsWell, In
<1>5. \A m \in Active : m # n => (In(up, m) <=> In(n, m))
  <2>1. \A m \in Active : In(up, m) => In(n, m)
    BY <1>2, <1>4, NodeFacts DEF In, TypeOK
  <2>2. \A m \in Active : In(n, m) => m = n \/ In(up, m)
    BY <1>2, AroundHalf DEF EndsWell
  <2>. QED BY <2>1, <2>2
<1>6. \A v \in Workers : runs'[v] = IF v = w THEN up ELSE runs[v]
  BY DEF TypeOK
<1>7. ASSUME NEW m \in Active, m # n PROVE Busy(m)' = Busy(m)
  <2>1. n # Nobody
    BY <1>2, WorkersAssumption DEF Nodes
  <2>. QED BY <1>2, <1>5, <1>6, <1>7, <2>1 DEF Busy
<1>8. Busy(n) = {w} /\ w \in Busy(up)' /\ Whole(n)
  <2>1. Busy(n) = {w} /\ Whole(n)
    BY LoneBusy, <1>2 DEF Sep
  <2>. QED BY <1>2, <1>4, <1>6, <2>1 DEF Busy
<1>9. BusyOne'
  BY BusyOneNext
<1>10. ASSUME NEW m \in Active, m # n, Whole(m)', ~drop \/ w \notin Busy(m) PROVE Whole(m)
  <2>1. SUFFICES ASSUME NEW k \in Active, In(k, m), Sep(k) PROVE FALSE
    BY DEF Whole
  <2>2. k # n
    BY <2>1 DEF Sep
  <2>3. k # up => Sep(k)'
    BY <1>3, <2>1, <2>2 DEF Sep, Keeps
  <2>4. k = up /\ ~Sep(up)'
    BY <1>3, <1>10, <2>1, <2>2, <2>3 DEF Whole
  <2>5. a = "return"
    BY <1>3, <2>1, <2>4 DEF Sep
  <2>6. In(n, m) /\ w \in Busy(m)
    BY <1>5, <1>8, <1>10, <2>1, <2>4 DEF Busy
  <2>. QED BY <1>10, <2>5, <2>6
<1>11. SUFFICES ASSUME NEW m \in Active', NEW c \in Locations, Owns(m, c)' PROVE Good(m, c)'
  BY DEF Memory
<1>12. m \in Active /\ m # n /\ (Owns(m, c) \/ (m = up /\ Owns(n, c)))
  BY <1>3, <1>1, <1>11 DEF OwnsPassed
<1>13. ~Pinned(up, c)'
  BY <1>3 DEF Pinned
<1>14. Whole(up)' => Busy(up)' \subseteq {w}
  BY <1>2, <1>3, <1>4, <1>8, <1>9 DEF BusyOne
<1>15. CASE c \in C
  <2>1. m = up
    BY <1>2, <1>12, <1>15, OneOwner DEF Ctl
  <2>2. Written(w, c)
    BY <1>15 DEF Access
  <2>. QED BY <1>8, <1>13, <1>14, <2>1, <2>2, GoodWritten
<1>16. CASE c \notin C /\ Owns(m, c)
  <2>0. Good(m, c)
    BY <1>12, <1>16 DEF Memory
  <2>1. Busy(m) \ Busy(m)' \subseteq W
    BY <1>7, <1>12
  <2>2. Whole(m)' => \/ Whole(m) /\ Busy(m)' \subseteq Busy(m) /\ (drop => w \notin Busy(m)')
                     \/ drop /\ w \in W /\ Busy(m)' \subseteq {w}
    <3>1. ASSUME Whole(m)', drop, w \in Busy(m)' PROVE Busy(m)' \subseteq {w}
      BY <1>9, <1>11, <3>1 DEF BusyOne
    <3>. QED BY <1>7, <1>10, <1>12, <3>1
  <2>3. ASSUME Pinned(m, c)' PROVE Pinned(m, c) /\ (frames'[m].rh = frames[m].rh \/ frames[m].rh \in W)
    <3>1. m # up
      BY <1>13, <2>3
    <3>. QED BY <1>3, <1>11, <1>12, <2>3, <3>1 DEF Pinned, Keeps, Handlers
  <2>. QED BY <1>16, <2>0, <2>1, <2>2, <2>3, GoodKept
<1>17. CASE c \notin C /\ m = up /\ Owns(n, c)
  <2>1. Good(n, c)
    BY <1>17 DEF Memory
  <2>2. Fades(cell[c], cell'[c], w, W, drop)
    BY <1>17 DEF Access
  <2>3. cell[c].dirty \subseteq {w} /\ SeesNewest(cell, w, c)
    BY <1>8, <2>1 DEF Good
  <2>4. cell'[c].dirty \subseteq Busy(up)'
    BY <1>8, <2>2, <2>3 DEF Fades
  <2>5. SeesNewest(cell', w, c)
    BY <2>2, <2>3 DEF Fades, SeesNewest
  <2>6. Whole(up)' => \A u \in Busy(up)' : SeesNewest(cell', u, c)
    BY <1>14, <2>5
  <2>. QED BY <1>13, <1>17, <2>4, <2>6 DEF Good
<1>. QED BY <1>12, <1>15, <1>16, <1>17

(* A thread ends apart from its parent.                                       *)
LEMMA MemDied ==
    ASSUME TypeOK, Ctl, Accs, OneHolder, Memory, TypeOK', Ctl', kind' = kind,
           NEW w \in Workers, NEW n \in Active, NEW up, ThreadEnd(w, n, up),
           runs' = [runs EXCEPT ![w] = Nobody], frames[up].at # "wait", wsq[w] = <<>>,
           Ends(n, up, frames[up].at),
           Access(w, {w}, {}, FALSE), Handlers({up}, {w})
    PROVE  Memory'
<1>0. up \in Active /\ Sep(up) /\ up # n /\ ~Sep(n) /\ AtEnd(w, n, up)
  BY ThreadApart DEF ThreadEnd
<1>1. /\ Active' = Active \ {n} /\ \A u \in Active : u # n /\ u # up => Keeps(u)
      /\ frames'[up].at = frames[up].at /\ frames'[up].ser = frames[up].ser
  BY DEF Ends, Sets
<1>2. OwnsPassed(n, up)
  <2>1. EndsWell(n, up, frames[up].at) /\ frames[up].at \in Places
    <3>1. frames[up].at \in {"rest", "join"}
      BY <1>0 DEF Sep
    <3>2. n = LeftHalf(up)
      BY DEF ThreadEnd
    <3>. QED BY <3>1, <3>2 DEF EndsWell, Places
  <2>. QED BY <1>0, <2>1, OwnsEnds DEF Ctl
<1>3. \A m : Busy(m)' \subseteq Busy(m) /\ Busy(m) \ Busy(m)' \subseteq {w}
  BY DEF Busy, TypeOK
<1>4. Busy(n) = {w}
  BY <1>0, ThreadBusy
<1>5. Sep(up)' /\ up \in Active' /\ \A k \in Active : Sep(k) => k \in Active' /\ Sep(k)'
  BY <1>0, <1>1 DEF Sep, Keeps
<1>6. SUFFICES ASSUME NEW m \in Active', NEW c \in Locations, Owns(m, c)' PROVE Good(m, c)'
  BY DEF Memory
<1>7. m \in Active /\ m # n /\ (Owns(m, c) \/ (m = up /\ Owns(n, c)))
  BY <1>1, <1>2, <1>6 DEF OwnsPassed
<1>8. ~Pinned(up, c)'
  BY <1>0, <1>1 DEF Pinned, Sep
<1>9. CASE Owns(m, c)
  <2>1. Good(m, c)
    BY <1>7, <1>9 DEF Memory
  <2>2. Whole(m)' => Whole(m)
    BY <1>3, <1>5 DEF Whole
  <2>3. ASSUME Pinned(m, c)' PROVE Pinned(m, c) /\ (frames'[m].rh = frames[m].rh \/ frames[m].rh \in {w})
    <3>1. m # up
      BY <1>8, <2>3
    <3>. QED BY <1>1, <1>6, <1>7, <2>3, <3>1 DEF Pinned, Keeps, Handlers
  <2>. QED BY <1>3, <2>1, <2>2, <2>3, GoodReleased
<1>10. CASE m = up /\ Owns(n, c)
  <2>1. cell[c].dirty \subseteq {w}
    BY <1>4, <1>10 DEF Memory, Good
  <2>2. Fades(cell[c], cell'[c], w, {w}, FALSE)
    BY DEF Access
  <2>3. cell'[c].dirty = {}
    BY <2>1, <2>2 DEF Fades
  <2>4. In(up, up)
    <3>1. up \in Nodes
      BY <1>0 DEF TypeOK
    <3>. QED BY <3>1, NodeFacts DEF In
  <2>5. ~Whole(up)'
    BY <1>5, <2>4 DEF Whole
  <2>. QED BY <1>8, <1>10, <2>3, <2>5 DEF Good
<1>. QED BY <1>7, <1>9, <1>10


(* A call forks.                                                              *)
LEMMA MemForking ==
    ASSUME TypeOK, Ctl, Accs, OneHolder, Memory, TypeOK', Ctl', kind' = kind,
           NEW w \in Workers, NEW n \in Active, n = runs[w], runs' = [runs EXCEPT ![w] = LeftHalf(n)],
           frames[n].at = "call", Split(n), Forking(n),
           NEW C, Access(w, {}, C, FALSE), Handlers({n}, {}), \A c \in C : Owns(n, c),
           NEW rh, frames'[n].rh = rh, frames'[LeftHalf(n)].rh = rh,
           rh = IF kind = "invoke" THEN release_lazy(cell', w) ELSE frames[n].rh,
           kind # "invoke" => C = {}
    PROVE  Memory'
<1> DEFINE z == LeftHalf(n)
<1>0. /\ n \in Nodes /\ z \in Nodes /\ z \notin Active /\ ~frames[n].ser /\ z # Nobody /\ n # Nobody
      /\ z # n /\ In(z, n) /\ In(z, z) /\ Tree(Active, Resting)
  <2>1. n \in Nodes /\ z \notin Active /\ ~frames[n].ser /\ Tree(Active, Resting)
    BY DEF Ctl, Shape, FrameOK, TypeOK
  <2>. QED BY <2>1, Halves, NodeFacts, WorkersAssumption DEF Nodes, In
<1>1. /\ Active' = Active \cup {z} /\ \A u \in Active : u # n => Keeps(u)
      /\ frames'[n].at = "forked" /\ frames'[n].ser = frames[n].ser
      /\ frames'[z].at = "call" /\ frames'[z].acc = frames[n].acc /\ frames'[z].ser = FALSE
  BY DEF Forking, Sets, IsNew
<1>2. /\ OwnsPassed(n, z) /\ (kind = "reduce" => ~Owns(n, Acc(frames[n].acc))')
      /\ frames'[n].acc = frames[n].acc
  BY OwnsForking DEF Ctl, Forking, Sets
<1>3. Busy(n) = {w} /\ Whole(n)
  BY LoneBusy, <1>0 DEF Sep
<1>4. \A v \in Workers : runs'[v] = IF v = w THEN z ELSE runs[v]
  BY DEF TypeOK
<1>5. \A m \in Active : In(z, m) <=> In(n, m)
  <2>1. \A m \in Active : In(n, m) => In(z, m)
    BY <1>0, NodeFacts DEF In, TypeOK
  <2>2. \A m \in Active : In(z, m) => m = z \/ In(n, m)
    BY <1>0, AroundHalf
  <2>. QED BY <1>0, <2>1, <2>2
<1>6. \A m \in Active : Busy(m)' = Busy(m)
  BY <1>0, <1>4, <1>5 DEF Busy
<1>7. Busy(z)' = {w}
  <2>1. \A v \in Busy(n) : v = w
    BY <1>3
  <2>2. \A v \in Workers : v # w /\ runs[v] # Nobody => ~In(runs[v], z)
    <3>1. \A v \in Workers : v # w /\ runs[v] # Nobody => runs[v] \in Active
      BY DEF Ctl, Running
    <3>. QED BY <1>0, <3>1, NoneInHalf
  <2>. QED BY <1>0, <1>4, <2>2 DEF Busy
<1>8. \A k \in Active : Sep(k) => Sep(k)'
  BY <1>0, <1>1 DEF Sep, Keeps
<1>9. SUFFICES ASSUME NEW m \in Active', NEW c \in Locations, Owns(m, c)' PROVE Good(m, c)'
  BY DEF Memory
<1>10. CASE m # n /\ m # z
  <2>1. m \in Active /\ Owns(m, c) /\ Good(m, c) /\ m # n
    BY <1>1, <1>2, <1>9, <1>10 DEF OwnsPassed, Memory
  <2>2. c \notin C
    BY <2>1, OneOwner DEF Ctl
  <2>3. Whole(m)' => \/ Whole(m) /\ Busy(m)' \subseteq Busy(m) /\ (FALSE => w \notin Busy(m)')
                     \/ FALSE /\ w \in {} /\ Busy(m)' \subseteq {w}
    BY <1>1, <1>6, <1>8, <2>1 DEF Whole
  <2>4. Pinned(m, c)' => Pinned(m, c) /\ (frames'[m].rh = frames[m].rh \/ frames[m].rh \in {})
    BY <1>1, <1>9, <2>1 DEF Pinned, Keeps, Handlers
  <2>5. FALSE \in BOOLEAN /\ Busy(m) \ Busy(m)' \subseteq {}
    BY <1>6, <2>1
  <2>. QED BY <2>1, <2>2, <2>3, <2>4, <2>5, GoodKept, Zenon
<1>11. CASE m = n \/ m = z
  <2>1. Owns(n, c) /\ Good(n, c)
    BY <1>0, <1>2, <1>9, <1>11 DEF OwnsPassed, Memory
  <2>2. Busy(m)' = {w}
    BY <1>3, <1>6, <1>7, <1>11
  <2>3. CASE c \in C
    <3>1. Written(w, c)
      BY <2>3 DEF Access
    <3>2. HasDirty(cell', w)
      BY <3>1 DEF Written, HasDirty
    <3>3. frames'[m].rh = w
      BY <1>11, <2>3, <3>2 DEF release_lazy
    <3>. QED BY <2>2, <3>1, <3>3, GoodWritten
  <2>4. CASE c \notin C
    <3>1. Fades(cell[c], cell'[c], w, {}, FALSE)
      BY <2>4 DEF Access
    <3>2. cell'[c].dirty = cell[c].dirty /\ cell[c].dirty \subseteq {w} /\ SeesNewest(cell, w, c)
      BY <1>3, <2>1, <3>1 DEF Fades, Good
    <3>3. SeesNewest(cell', w, c)
      BY <3>1, <3>2 DEF Fades, SeesNewest
    <3>4. ASSUME Pinned(m, c)' PROVE cell'[c].dirty \subseteq {rh}
      <4>1. CASE kind = "invoke"
        BY <3>2, <4>1 DEF release_lazy, HasDirty
      <4>2. CASE kind # "invoke"
        <5>1. ~(kind = "reduce" /\ c = Acc(frames[n].acc))
          <6>1. CASE m = n
            BY <1>2, <1>9, <6>1
          <6>2. CASE m = z
            BY <1>1, <3>4, <4>2, <6>2 DEF Pinned
          <6>. QED BY <1>11, <6>1, <6>2
        <5>2. Pinned(n, c)
          BY <4>2, <5>1 DEF Pinned
        <5>. QED BY <2>1, <3>2, <4>2, <5>2 DEF Good
      <4>. QED BY <4>1, <4>2
    <3>5. frames'[m].rh = rh
      BY <1>11
    <3>. QED BY <2>2, <3>2, <3>3, <3>4, <3>5 DEF Good
  <2>. QED BY <2>3, <2>4
<1>. QED BY <1>10, <1>11

(* A continuation is stolen.                                                  *)
LEMMA MemStolen ==
    ASSUME TypeOK, Ctl, Accs, OneHolder, Memory, TypeOK', Ctl', kind' = kind,
           NEW w \in Workers, NEW n \in Active, runs[w] = Nobody, runs' = [runs EXCEPT ![w] = RightHalf(n)],
           frames[n].at = "forked", Resumes(n, {}, FALSE, mid(n)),
           NEW W, W = {w, frames[n].rh}, NEW C, Access(w, W, C, TRUE), Handlers({n}, W),
           C = IF kind = "reduce" THEN {Acc(mid(n))} ELSE {}, Acc(mid(n)) \in Locations
    PROVE  Memory'
<1> DEFINE z == RightHalf(n)
           y == LeftHalf(n)
<1>0. /\ n \in Nodes /\ z \in Nodes /\ z \notin Active /\ Split(n) /\ z # Nobody
      /\ z # n /\ In(z, n) /\ In(z, z) /\ In(n, n) /\ Tree(Active, Resting) /\ n \notin Resting
  <2>1. n \in Nodes /\ Split(n) /\ Tree(Active, Resting) /\ n \notin Resting
    BY DEF Ctl, Shape, FrameOK, TypeOK, Resting
  <2>. QED BY <2>1, Halves, NodeFacts, WorkersAssumption, NothingRight DEF Nodes, In, Ctl
<1>1. /\ Active' = Active \cup {z} /\ \A u \in Active : u # n => Keeps(u)
      /\ frames'[n].at = "rest" /\ frames'[n].ser = FALSE
      /\ frames'[z].at = "call" /\ frames'[z].acc = mid(n) /\ frames'[z].ser = FALSE
  BY <1>0 DEF Resumes, Sets, IsNew
<1>2. OwnsPassed(n, z) /\ \A c \in Locations : ~Owns(n, c)'
  BY OwnsStolen DEF Ctl
<1>3. \A v \in Workers : runs'[v] = IF v = w THEN z ELSE runs[v]
  BY DEF TypeOK
<1>4. \A m \in Active : In(z, m) => In(n, m)
  BY <1>0, AroundHalf
<1>5. ASSUME NEW m \in Active PROVE Busy(m) \subseteq Busy(m)' /\ Busy(m)' \subseteq Busy(m) \cup {w}
  BY <1>3 DEF Busy
<1>6. Busy(z)' = {w}
  <2>1. \A v \in Workers : v # w /\ runs[v] # Nobody => ~In(runs[v], z)
    <3>1. \A v \in Workers : v # w /\ runs[v] # Nobody => runs[v] \in Active
      BY DEF Ctl, Running
    <3>. QED BY <1>0, <3>1, NoneInHalf
  <2>. QED BY <1>0, <1>3, <2>1 DEF Busy
<1>7. Sep(n)' /\ \A k \in Active : Sep(k) => Sep(k)'
  BY <1>1 DEF Sep, Keeps
<1>8. ASSUME NEW m \in Active, Whole(m)' PROVE Whole(m) /\ w \notin Busy(m)'
  <2>1. ~In(n, m)
    BY <1>1, <1>7, <1>8 DEF Whole
  <2>2. ~In(z, m)
    BY <1>4, <2>1
  <2>. QED BY <1>1, <1>3, <1>7, <1>8, <2>2 DEF Whole, Busy
<1>9. SUFFICES ASSUME NEW m \in Active', NEW c \in Locations, Owns(m, c)' PROVE Good(m, c)'
  BY DEF Memory
<1>10. CASE m # z
  <2>1. m \in Active /\ Owns(m, c) /\ Good(m, c) /\ m # n
    BY <1>1, <1>2, <1>9, <1>10 DEF OwnsPassed, Memory
  <2>2. c \notin C
    <3>1. SUFFICES ASSUME kind = "reduce", c = Acc(mid(n)) PROVE FALSE
      OBVIOUS
    <3>2. Owns(n, c)
      <4>1. ~Live(mid(n))
        BY <1>0, LiveOf DEF Ctl, Sep
      <4>2. Covers(n, mid(n))
        BY <1>0, Halves, NodeFacts DEF Covers, CoversIn
      <4>. QED BY <3>1, <4>1, <4>2 DEF Owns, Acc
    <3>. QED BY <2>1, <3>2, OneOwner DEF Ctl
  <2>3. PICK drop \in BOOLEAN : drop = TRUE
    OBVIOUS
  <2>4. Whole(m)' => \/ Whole(m) /\ Busy(m)' \subseteq Busy(m) /\ (drop => w \notin Busy(m)')
                     \/ drop /\ w \in W /\ Busy(m)' \subseteq {w}
    BY <1>5, <1>8, <2>1
  <2>5. Pinned(m, c)' => Pinned(m, c) /\ (frames'[m].rh = frames[m].rh \/ frames[m].rh \in W)
    BY <1>1, <1>9, <2>1 DEF Pinned, Keeps, Handlers
  <2>6. Busy(m) \ Busy(m)' \subseteq W
    BY <1>5, <2>1
  <2>7. Access(w, W, C, drop)
    BY <2>3
  <2>. QED BY <2>1, <2>2, <2>4, <2>5, <2>6, <2>7, GoodKept
<1>11. CASE m = z
  <2>1. Owns(n, c) /\ Good(n, c)
    BY <1>0, <1>2, <1>9, <1>11 DEF OwnsPassed, Memory
  <2>3. CASE c \in C
    <3>1. Written(w, c)
      BY <2>3 DEF Access
    <3>2. ~Pinned(z, c)'
      BY <1>1, <2>3 DEF Pinned
    <3>. QED BY <1>6, <1>11, <3>1, <3>2, GoodWritten
  <2>4. CASE c \notin C
    <3>1. Fades(cell[c], cell'[c], w, W, TRUE)
      BY <2>4 DEF Access
    <3>2. cell[c].dirty \subseteq {frames[n].rh}
      BY <2>1 DEF Good, Pinned
    <3>3. cell'[c].dirty = {} /\ w \notin cell'[c].old
      BY <3>1, <3>2 DEF Fades
    <3>. QED BY <1>6, <1>11, <3>3 DEF Good, SeesNewest
  <2>. QED BY <2>3, <2>4
<1>. QED BY <1>10, <1>11

(* A thread ends and its parent goes on.                                      *)
LEMMA MemSerialized ==
    ASSUME TypeOK, Ctl, Accs, OneHolder, Memory, TypeOK', Ctl', kind' = kind, cell' = cell,
           NEW w \in Workers, NEW n \in Active, runs[w] = LeftHalf(n), runs' = [runs EXCEPT ![w] = RightHalf(n)],
           frames[n].at = "forked", frames[LeftHalf(n)].at = "return",
           Resumes(n, {LeftHalf(n)}, TRUE, frames[LeftHalf(n)].acc),
           Handlers({n}, {}), frames'[RightHalf(n)].rh = frames[n].rh
    PROVE  Memory'
<1> DEFINE z == RightHalf(n)
           y == LeftHalf(n)
<1>0. /\ n \in Nodes /\ z \in Nodes /\ z \notin Active /\ y \in Active /\ y \in Nodes /\ Split(n) /\ z # Nobody /\ y # Nobody
      /\ z # n /\ y # n /\ y # z /\ In(z, n) /\ In(z, z) /\ In(n, n) /\ In(y, n) /\ In(y, y)
      /\ Tree(Active, Resting) /\ n \notin Resting
      /\ LeftHalf(y) \notin Active
  <2>1. /\ n \in Nodes /\ Split(n) /\ Tree(Active, Resting) /\ n \notin Resting /\ y \in Active /\ y \in Nodes
        /\ LeftHalf(y) \notin Active
    BY DEF Ctl, Shape, FrameOK, TypeOK, Resting
  <2>. QED BY <2>1, Halves, NodeFacts, WorkersAssumption, NothingRight DEF Nodes, In, Ctl
<1>1. /\ Active' = (Active \ {y}) \cup {z} /\ \A u \in Active : u # n /\ u # y => Keeps(u)
      /\ frames'[n].at = "rest" /\ frames'[n].ser = TRUE
      /\ frames'[z].at = "call" /\ frames'[z].acc = frames[y].acc /\ frames'[z].ser = FALSE
  BY <1>0 DEF Resumes, Sets, IsNew
<1>2. \A m \in Active' : \A c \in Locations : Owns(m, c)' =>
                \/ m \in Active /\ m # n /\ m # z /\ Owns(m, c)
                \/ m = n /\ Owns(y, c)
                \/ /\ m = z
                   /\ Owns(n, c) \/ (Owns(y, c) /\ kind = "reduce" /\ c = Acc(frames[y].acc))
  BY OwnsSerialized DEF Ctl
<1>3. \A v \in Workers : runs'[v] = IF v = w THEN z ELSE runs[v]
  BY DEF TypeOK
<1>4. ASSUME NEW m \in Active, m # y PROVE In(z, m) <=> In(y, m)
  <2>1. In(n, m) => In(y, m) /\ In(z, m)
    BY <1>0, Halves, NodeFacts DEF In, TypeOK
  <2>2. In(z, m) => m = z \/ In(n, m)
    BY <1>0, AroundHalf
  <2>3. In(y, m) => m = y \/ In(n, m)
    BY <1>0, AroundHalf
  <2>. QED BY <1>0, <1>4, <2>1, <2>2, <2>3
<1>5. ASSUME NEW m \in Active, m # y PROVE Busy(m)' = Busy(m)
  BY <1>0, <1>3, <1>4, <1>5 DEF Busy
<1>6. w \in Busy(n) /\ Busy(n) = {w} /\ Whole(n) /\ Busy(y) = {w} /\ Whole(y)
  <2>1. Whole(n) /\ w \in Busy(n)
    BY <1>0 DEF Ctl, Forks, Busy
  <2>2. Busy(n) = {w}
    BY <2>1, BusyOneHolds DEF BusyOne
  <2>3. Busy(y) = {w} /\ Whole(y)
    BY <1>0, LoneBusy DEF Sep
  <2>. QED BY <2>1, <2>2, <2>3
<1>7. Busy(z)' = {w}
  <2>1. \A v \in Workers : v # w /\ runs[v] # Nobody => ~In(runs[v], z)
    <3>1. \A v \in Workers : v # w /\ runs[v] # Nobody => runs[v] \in Active
      BY DEF Ctl, Running
    <3>. QED BY <1>0, <3>1, NoneInHalf
  <2>. QED BY <1>0, <1>3, <2>1 DEF Busy
<1>8. \A k \in Active : Sep(k) => k \in Active' /\ Sep(k)'
  BY <1>1 DEF Sep, Keeps
<1>9. SUFFICES ASSUME NEW m \in Active', NEW c \in Locations, Owns(m, c)' PROVE Good(m, c)'
  BY DEF Memory
<1>10. CASE m # n /\ m # z
  <2>1. m \in Active /\ Owns(m, c) /\ Good(m, c) /\ m # n /\ m # y
    BY <1>0, <1>1, <1>2, <1>9, <1>10 DEF Memory
  <2>2. Busy(m)' = Busy(m) /\ (Whole(m)' => Whole(m)) /\ Keeps(m) /\ frames'[m].rh = frames[m].rh
    BY <1>1, <1>5, <1>8, <1>9, <2>1 DEF Whole, Handlers
  <2>3. Pinned(m, c)' => Pinned(m, c)
    BY <2>2 DEF Pinned, Keeps
  <2>. QED BY <2>1, <2>2, <2>3 DEF Good
<1>11. CASE m = n \/ m = z
  <2>1. Busy(m)' = {w}
    BY <1>0, <1>5, <1>6, <1>7, <1>11
  <2>2. \A k \in {n, y} : Owns(k, c) => cell[c].dirty \subseteq {w} /\ SeesNewest(cell, w, c)
    BY <1>0, <1>6 DEF Memory, Good
  <2>3. Owns(n, c) \/ Owns(y, c)
    BY <1>2, <1>9, <1>11
  <2>4. cell'[c].dirty \subseteq {w} /\ SeesNewest(cell', w, c)
    BY <2>2, <2>3
  <2>5. ASSUME Pinned(m, c)' PROVE cell'[c].dirty \subseteq {frames'[m].rh}
    <3>1. m = z
      BY <1>1, <1>11, <2>5 DEF Pinned
    <3>2. ~(kind = "reduce" /\ c = Acc(frames[y].acc))
      BY <1>1, <2>5, <3>1 DEF Pinned
    <3>3. Owns(n, c)
      BY <1>0, <1>2, <1>9, <3>1, <3>2
    <3>. QED BY <3>1, <3>3 DEF Memory, Good, Pinned
  <2>. QED BY <2>1, <2>4, <2>5 DEF Good
<1>. QED BY <1>10, <1>11

--------------------------------------------------------------------------------
(* The invariant during a pass.                                               *)
Pass == Ctl /\ Accs /\ OneHolder /\ Memory

(* The type of the next state.                                                *)
LEMMA TypeNext ==
    ASSUME Ctl', kind' \in {"serial", "loop", "invoke", "reduce"},
           runs' \in [Workers -> Nodes \cup {Nobody}], wsq' \in [Workers -> Seq(Nodes)],
           frames' \in [Active' -> Frames], dead' \subseteq Nodes,
           cell' \in [Locations -> Cells], stale' \in BOOLEAN
    PROVE  TypeOK'
<1>1. Active' \subseteq Nodes
  BY DEF Ctl, Shape, Tree
<1>. QED BY <1>1 DEF TypeOK

(* The elements of a range.                                                   *)
LEMMA DataFacts ==
    ASSUME NEW f \in Nat, NEW l \in Nat, l <= Items, NEW c \in Data(f, l)
    PROVE  c \in Locations /\ c[1] = "data" /\ c[2] \in Nat /\ f <= c[2] /\ c[2] < l
<1>1. PICK i \in f .. (l - 1) : c = <<"data", i>>
  BY DEF Data
<1>2. i \in 0 .. (Items - 1)
  BY WorkersAssumption
<1>. QED BY <1>1, <1>2 DEF Locations, Data

(* A call without a child owns the elements of its range.                     *)
LEMMA OwnsData ==
    ASSUME TypeOK, NEW n \in Active, LeftHalf(n) \notin Active, frames[n].at # "rest",
           NEW c \in Data(n[1], n[2])
    PROVE  c \in Locations /\ Owns(n, c)
<1>1. c \in Locations /\ c[1] = "data" /\ c[2] \in Nat /\ n[1] <= c[2] /\ c[2] < n[2]
  BY DataFacts, NodeFacts DEF TypeOK
<1>. QED BY <1>1 DEF Owns, Covers, CoversIn, Resting

(* The holder of an accumulator owns it.                                      *)
LEMMA OwnsAcc ==
    ASSUME TypeOK, Shape, Accs, NEW n \in Active, NEW a \in 0 .. (Items - 1), Holds(n, a)
    PROVE  Acc(a) \in Locations /\ Owns(n, Acc(a))
<1>1. Live(a)
  BY HeldIsLive
<1>. QED BY <1>1 DEF Locations, Acc, Owns

(* The middle of a call is the number of an accumulator.                      *)
LEMMA MidFacts ==
    ASSUME TypeOK, NEW n \in Active, Split(n)
    PROVE  mid(n) \in 0 .. (Items - 1) /\ mid(n) \in Nat /\ Acc(mid(n)) \in Locations /\ n[2] \in Nat /\ n[2] <= Items
<1>1. n \in Nodes
  BY DEF TypeOK
<1>2. mid(n) \in 0 .. (Items - 1) /\ mid(n) \in Nat /\ n[2] \in Nat /\ n[2] <= Items
  BY <1>1, Halves, NodeFacts
<1>. QED BY <1>2 DEF Locations

(* The cells that a call uses after the join.                                 *)
JoinCells(n) ==
    CASE kind = "invoke" -> Data(n[1], n[2])
      [] kind = "reduce" /\ ~frames[n].ser -> Data(mid(n), n[2]) \cup {Acc(frames[n].acc), Acc(mid(n))}
      [] OTHER -> {}

(* AfterJoin in terms of JoinCells.                                          *)
LEMMA AfterJoinFacts ==
    ASSUME NEW w, NEW n, NEW cs, AfterJoin(w, n, cs)
    PROVE  /\ stale' = (stale \/ MissesNewest(cs, w, JoinCells(n)))
           /\ cell' = written(cs, w, JoinCells(n))
BY Zenon DEF AfterJoin, JoinCells

(* A call at its join, with no child left, owns what it uses next.            *)
LEMMA OwnsJoin ==
    ASSUME TypeOK, Ctl, Accs, NEW n \in Active, frames[n].at = "join", LeftHalf(n) \notin Active,
           NEW c \in JoinCells(n)
    PROVE  c \in Locations /\ Owns(n, c)
<1>0. n \in Nodes /\ Split(n) /\ frames[n] \in Frames
  BY DEF TypeOK, Ctl, Shape, FrameOK
<1>1. CASE kind = "invoke"
  <2>1. c \in Data(n[1], n[2])
    BY <1>1 DEF JoinCells
  <2>. QED BY <2>1, OwnsData
<1>2. CASE kind = "reduce" /\ ~frames[n].ser
  <2>1. c \in Data(mid(n), n[2]) \cup {Acc(frames[n].acc), Acc(mid(n))}
    BY <1>2 DEF JoinCells
  <2>2. CASE c \in Data(mid(n), n[2])
    <3>1. c \in Locations /\ c[1] = "data" /\ c[2] \in Nat /\ mid(n) <= c[2] /\ c[2] < n[2]
      BY <1>0, <2>2, DataFacts, MidFacts
    <3>2. n[1] <= c[2]
      BY <1>0, <3>1, Halves, NodeFacts
    <3>. QED BY <3>1, <3>2 DEF Owns, Covers, CoversIn, Resting
  <2>3. CASE c = Acc(frames[n].acc)
    <3>1. Holds(n, frames[n].acc) /\ frames[n].acc \in 0 .. (Items - 1)
      BY <1>0, <1>2 DEF Holds, Sep, Frames
    <3>. QED BY <2>3, <3>1, OwnsAcc DEF Ctl
  <2>4. CASE c = Acc(mid(n))
    <3>1. Holds(n, mid(n)) /\ mid(n) \in 0 .. (Items - 1)
      BY <1>0, <1>2, MidFacts DEF Holds
    <3>. QED BY <2>4, <3>1, OwnsAcc DEF Ctl
  <2>. QED BY <2>1, <2>2, <2>3, <2>4
<1>3. CASE ~(kind = "invoke") /\ ~(kind = "reduce" /\ ~frames[n].ser)
  BY <1>3 DEF JoinCells
<1>. QED BY <1>1, <1>2, <1>3

(* What a waiting call n uses when its child y ends.                          *)
LEMMA OwnsResumed ==
    ASSUME TypeOK, Ctl, Accs, NEW n \in Active, frames[n].at = "wait", NEW y, y = LeftHalf(n),
           frames[y].at = "return", NEW c \in JoinCells(n)
    PROVE  c \in Locations /\ (Owns(y, c) \/ Owns(n, c))
<1>0. /\ n \in Nodes /\ Split(n) /\ frames[n] \in Frames /\ y \in Active /\ LeftHalf(y) \notin Active
      /\ ~frames[n].ser /\ frames[y].acc = frames[n].acc /\ y[1] = n[1] /\ y[2] = mid(n) /\ n[1] \in Nat
  <2>1. n \in Nodes /\ Split(n) /\ frames[n] \in Frames /\ y \in Active /\ ~frames[n].ser
    BY DEF TypeOK, Ctl, Shape, FrameOK
  <2>2. LeftHalf(y) \notin Active /\ frames[y].acc = frames[n].acc
    BY <2>1 DEF Ctl, Shape, FrameOK, Accs, AccOK
  <2>. QED BY <2>1, <2>2, Halves, NodeFacts
<1>1. ASSUME c \in Locations, c[1] = "data", c[2] \in Nat, n[1] <= c[2], c[2] < n[2]
      PROVE  Owns(y, c) \/ Owns(n, c)
  <2>1. CASE c[2] < mid(n)
    BY <1>0, <1>1, <2>1 DEF Owns, Covers, CoversIn, Resting
  <2>2. CASE ~(c[2] < mid(n))
    BY <1>0, <1>1, <2>2 DEF Owns, Covers, CoversIn, Resting
  <2>. QED BY <2>1, <2>2
<1>2. CASE kind = "invoke"
  <2>1. c \in Data(n[1], n[2])
    BY <1>2 DEF JoinCells
  <2>2. c \in Locations /\ c[1] = "data" /\ c[2] \in Nat /\ n[1] <= c[2] /\ c[2] < n[2]
    BY <1>0, <2>1, DataFacts, MidFacts
  <2>. QED BY <1>1, <2>2
<1>3. CASE kind = "reduce"
  <2>1. c \in Data(mid(n), n[2]) \cup {Acc(frames[n].acc), Acc(mid(n))}
    BY <1>0, <1>3 DEF JoinCells
  <2>2. CASE c \in Data(mid(n), n[2])
    <3>1. c \in Locations /\ c[1] = "data" /\ c[2] \in Nat /\ mid(n) <= c[2] /\ c[2] < n[2]
      BY <1>0, <2>2, DataFacts, MidFacts
    <3>2. n[1] <= c[2]
      BY <1>0, <3>1, Halves, NodeFacts
    <3>. QED BY <1>1, <3>1, <3>2
  <2>3. CASE c = Acc(frames[n].acc)
    <3>1. Holds(y, frames[n].acc) /\ frames[n].acc \in 0 .. (Items - 1)
      BY <1>0, <1>3 DEF Holds, Frames
    <3>. QED BY <1>0, <2>3, <3>1, OwnsAcc DEF Ctl
  <2>4. CASE c = Acc(mid(n))
    <3>1. Holds(n, mid(n)) /\ mid(n) \in 0 .. (Items - 1)
      BY <1>0, <1>3, MidFacts DEF Holds
    <3>. QED BY <2>4, <3>1, OwnsAcc DEF Ctl
  <2>. QED BY <2>1, <2>2, <2>3, <2>4
<1>4. CASE kind # "invoke" /\ kind # "reduce"
  BY <1>4 DEF JoinCells
<1>. QED BY <1>2, <1>3, <1>4

(* The worker in a whole call sees what the call owns.                        *)
LEMMA SeesOwn ==
    ASSUME Memory, NEW n \in Active, Whole(n), NEW w \in Busy(n), NEW C,
           \A c \in C : c \in Locations /\ Owns(n, c)
    PROVE  ~MissesNewest(cell, w, C)
BY DEF MissesNewest, Memory, Good

(* A worker that has written back and dropped its copies sees the newest      *)
(* value of what is dirty nowhere else.                                       *)
LEMMA SeesAfterFence ==
    ASSUME NEW w \in Workers, NEW W, w \in W, NEW cs, Faded(cs, w, W, TRUE), NEW C,
           \A c \in C : c \in Locations /\ cell[c].dirty \subseteq W
    PROVE  ~MissesNewest(cs, w, C)
<1>1. \A c \in C : Fades(cell[c], cs[c], w, W, TRUE)
  BY DEF Faded
<1>2. \A c \in C : cs[c].dirty = {} /\ w \notin cs[c].old
  BY <1>1 DEF Fades
<1>. QED BY <1>2 DEF MissesNewest, SeesNewest

(* A release handler names a worker or nobody.                                *)
LEMMA LazyFacts ==
    ASSUME NEW cs, NEW w \in Workers
    PROVE  release_lazy(cs, w) \in Workers \cup {Nobody}
BY DEF release_lazy

--------------------------------------------------------------------------------
(* The actions of a pass keep the invariant, and never miss newer data.       *)
Kept == TypeOK' /\ Pass' /\ ~stale'

(* MemReturning without a fence.                                              *)
LEMMA MemReturningPlain ==
    ASSUME TypeOK, Pass, TypeOK', Ctl', kind' = kind,
           NEW w \in Workers, NEW n \in Active, n = runs[w], runs' = runs,
           Moves(n, "return"), frames[n].at \in {"call", "join"}, LeftHalf(n) \notin Active, ~Sep(n),
           NEW C, Access(w, {}, C, FALSE), Handlers({n}, {}), \A c \in C : Owns(n, c)
    PROVE  Memory'
<1>1. PICK W : W = {}
  OBVIOUS
<1>2. PICK drop \in BOOLEAN : drop = FALSE
  OBVIOUS
<1>3. Access(w, W, C, drop) /\ Handlers({n}, W) /\ (drop => w \in W) /\ (Sep(n) => drop)
  BY <1>1, <1>2
<1>4. Ctl /\ Accs /\ OneHolder /\ Memory
  BY DEF Pass
<1>. QED BY <1>3, <1>4, MemReturning

(* Leaf                                                                       *)
LEMMA LeafKeeps ==
    ASSUME TypeOK, Pass, ~stale, NEW w \in Workers, Leaf(w)
    PROVE  Kept
<1> DEFINE n == runs[w]
           C == Data(n[1], n[2]) \cup (IF kind = "reduce" THEN {Acc(frames[n].acc)} ELSE {})
<1>0. At(w, "call") /\ UNCHANGED <<kind, runs, wsq, dead>>
  BY DEF Leaf
<1>1. /\ n \in Active /\ n \in Nodes /\ n # Nobody /\ frames[n].at = "call" /\ FrameOK(n)
      /\ LeftHalf(n) \notin Active /\ frames[n] \in Frames /\ ~frames[n].ser /\ ~Sep(n)
  BY <1>0, AtFacts DEF Pass, FrameOK, TypeOK, Sep
<1>2. Moves(n, "return") /\ Handlers({n}, {}) /\ frames' \in [Active' -> Frames]
  BY <1>1, HonouredFacts, MovesFrames DEF Leaf, Places
<1>3. Ctl'
  BY <1>0, <1>1, <1>2, CtlReturning DEF Pass
<1>4. stale' = (stale \/ MissesNewest(cell, w, C)) /\ cell' = written(cell, w, C)
  BY DEF Leaf
<1>5. \A c \in C : c \in Locations /\ Owns(n, c)
  <2>1. \A c \in Data(n[1], n[2]) : c \in Locations /\ Owns(n, c)
    BY <1>1, OwnsData
  <2>2. kind = "reduce" => Acc(frames[n].acc) \in Locations /\ Owns(n, Acc(frames[n].acc))
    <3>1. frames[n].acc \in 0 .. (Items - 1)
      BY <1>1 DEF Frames
    <3>2. kind = "reduce" => Holds(n, frames[n].acc)
      BY <1>1 DEF Holds
    <3>. QED BY <1>1, <3>1, <3>2, OwnsAcc DEF Pass, Ctl
  <2>. QED BY <2>1, <2>2
<1> HIDE DEF n, C
<1>6. Access(w, {}, C, FALSE) /\ cell' \in [Locations -> Cells]
  BY <1>4, FadedNot, AccessWritten
<1>7. Busy(n) = {w} /\ Whole(n)
  BY <1>1, LoneBusy DEF n, Pass
<1>8. ~stale'
  <2>1. w \in Busy(n)
    BY <1>7
  <2>. QED BY <1>1, <1>4, <1>5, <1>7, <2>1, SeesOwn DEF Pass
<1>9. TypeOK'
  <2>1. /\ kind' \in {"serial", "loop", "invoke", "reduce"}
        /\ runs' \in [Workers -> Nodes \cup {Nobody}] /\ wsq' \in [Workers -> Seq(Nodes)]
        /\ dead' \subseteq Nodes
    BY <1>0 DEF TypeOK
  <2>2. stale' \in BOOLEAN
    BY <1>4
  <2>. QED BY <1>2, <1>3, <1>6, <2>1, <2>2, TypeNext
<1>10. Accs'
  BY <1>1, <1>2, AccsMoves DEF Pass, Ctl
<1>11. OneHolder'
  BY <1>0, <1>1, <1>2, <1>3, OwnsMoves DEF Pass, Ctl
<1>12. Memory'
  <2>1. \A c \in C : Owns(n, c)
    BY <1>5
  <2>2. n = runs[w]
    BY DEF n
  <2>. QED BY <1>0, <1>1, <1>2, <1>3, <1>6, <1>9, <2>1, <2>2, MemReturningPlain
<1>. QED BY <1>3, <1>8, <1>9, <1>10, <1>11, <1>12 DEF Kept, Pass

(* JoinSerialized                                                             *)
LEMMA JoinSerializedKeeps ==
    ASSUME TypeOK, Pass, ~stale, NEW w \in Workers, JoinSerialized(w)
    PROVE  Kept
<1> DEFINE n == runs[w]
           C == JoinCells(n)
<1>0. At(w, "join") /\ frames[n].ser /\ UNCHANGED <<kind, runs, wsq, dead>> /\ AfterJoin(w, n, cell)
  BY DEF JoinSerialized
<1>1. /\ n \in Active /\ n \in Nodes /\ n # Nobody /\ frames[n].at = "join" /\ FrameOK(n)
      /\ LeftHalf(n) \notin Active /\ ~Sep(n)
  BY <1>0, AtFacts DEF Pass, FrameOK, TypeOK, Sep
<1>2. Moves(n, "return") /\ Handlers({n}, {}) /\ frames' \in [Active' -> Frames]
  <2>1. frames' = [frames EXCEPT ![n].at = "return", ![n].rh = Nobody]
    BY DEF JoinSerialized, Returning
  <2>. QED BY <1>1, <2>1, HonouredFacts, MovesFrames DEF Places
<1>3. Ctl'
  BY <1>0, <1>1, <1>2, CtlReturning DEF Pass
<1>4. stale' = (stale \/ MissesNewest(cell, w, C)) /\ cell' = written(cell, w, C)
  BY <1>0, AfterJoinFacts
<1>5. \A c \in C : c \in Locations /\ Owns(n, c)
  BY <1>1, OwnsJoin DEF Pass
<1> HIDE DEF n, C
<1>6. Access(w, {}, C, FALSE) /\ cell' \in [Locations -> Cells]
  BY <1>4, FadedNot, AccessWritten
<1>7. Busy(n) = {w} /\ Whole(n)
  BY <1>1, LoneBusy DEF n, Pass
<1>8. ~stale'
  <2>1. w \in Busy(n)
    BY <1>7
  <2>. QED BY <1>1, <1>4, <1>5, <1>7, <2>1, SeesOwn DEF Pass
<1>9. TypeOK'
  <2>1. /\ kind' \in {"serial", "loop", "invoke", "reduce"}
        /\ runs' \in [Workers -> Nodes \cup {Nobody}] /\ wsq' \in [Workers -> Seq(Nodes)]
        /\ dead' \subseteq Nodes
    BY <1>0 DEF TypeOK
  <2>2. stale' \in BOOLEAN
    BY <1>4
  <2>. QED BY <1>2, <1>3, <1>6, <2>1, <2>2, TypeNext
<1>10. Accs'
  BY <1>1, <1>2, AccsMoves DEF Pass, Ctl
<1>11. OneHolder'
  BY <1>0, <1>1, <1>2, <1>3, OwnsMoves DEF Pass, Ctl
<1>12. Memory'
  <2>1. \A c \in C : Owns(n, c)
    BY <1>5
  <2>2. n = runs[w]
    BY DEF n
  <2>. QED BY <1>0, <1>1, <1>2, <1>3, <1>6, <1>9, <2>1, <2>2, MemReturningPlain
<1>. QED BY <1>3, <1>8, <1>9, <1>10, <1>11, <1>12 DEF Kept, Pass

(* A set of handlers includes a smaller one.                                  *)
LEMMA HandlersMore ==
    ASSUME NEW S, NEW V, NEW W, V \subseteq W, Handlers(S, V)
    PROVE  Handlers(S, W)
BY DEF Handlers

(* MemReturning with the fences of a join.                                    *)
LEMMA MemReturningFenced ==
    ASSUME TypeOK, Pass, TypeOK', Ctl', kind' = kind,
           NEW w \in Workers, NEW n \in Active, n = runs[w], runs' = runs,
           Moves(n, "return"), frames[n].at \in {"call", "join"}, LeftHalf(n) \notin Active,
           NEW C, Access(w, {w, Nobody}, C, TRUE), Handlers({n}, {w}), \A c \in C : Owns(n, c)
    PROVE  Memory'
<1>1. PICK W : W = {w, Nobody}
  OBVIOUS
<1>2. PICK drop \in BOOLEAN : drop = TRUE
  OBVIOUS
<1>3. Access(w, W, C, drop) /\ Handlers({n}, W) /\ (drop => w \in W) /\ (Sep(n) => drop)
  <2>1. {w} \subseteq W
    BY <1>1
  <2>2. Handlers({n}, W)
    BY <2>1, HandlersMore
  <2>3. Access(w, W, C, drop)
    BY <1>1, <1>2
  <2>. QED BY <1>2, <2>1, <2>2, <2>3
<1>4. Ctl /\ Accs /\ OneHolder /\ Memory
  BY DEF Pass
<1>. QED BY <1>3, <1>4, MemReturning

(* JoinEnded                                                                  *)
LEMMA JoinEndedKeeps ==
    ASSUME TypeOK, Pass, ~stale, NEW w \in Workers, JoinEnded(w)
    PROVE  Kept
<1> DEFINE n == runs[w]
           C == JoinCells(n)
           cs == acquired(released(cell, {w}), w, Nobody)
<1>0. /\ At(w, "join") /\ ~frames[n].ser /\ LeftHalf(n) \in dead /\ dead' = dead \ {LeftHalf(n)}
      /\ UNCHANGED <<kind, runs, wsq>> /\ AfterJoin(w, n, cs)
  BY DEF JoinEnded, acquire_joined, release_joining
<1>1. /\ n \in Active /\ n \in Nodes /\ n # Nobody /\ frames[n].at = "join" /\ FrameOK(n)
      /\ LeftHalf(n) \notin Active /\ Sep(n)
  BY <1>0, AtFacts DEF Pass, FrameOK, TypeOK, Sep, Ctl, Deaths
<1>2. Moves(n, "return") /\ Handlers({n}, {w}) /\ frames' \in [Active' -> Frames]
  <2>1. frames' = [honoured(frames, {w}) EXCEPT ![n].at = "return", ![n].rh = Nobody]
    BY DEF JoinEnded, Returning
  <2>. QED BY <1>1, <2>1, HonouredFacts, MovesFrames DEF Places
<1>3. Ctl'
  BY <1>0, <1>1, <1>2, CtlReturning DEF Pass
<1>4. stale' = (stale \/ MissesNewest(cs, w, C)) /\ cell' = written(cs, w, C)
  BY <1>0, AfterJoinFacts
<1>5. \A c \in C : c \in Locations /\ Owns(n, c)
  BY <1>1, OwnsJoin DEF Pass
<1>6. PICK W : W = {w, Nobody}
  OBVIOUS
<1>7. PICK drop \in BOOLEAN : drop = TRUE
  OBVIOUS
<1>8. Faded(cs, w, W, TRUE)
  BY <1>6, FadedJoined
<1> HIDE DEF n, C, cs
<1>9. Access(w, W, C, drop) /\ cell' \in [Locations -> Cells]
  BY <1>4, <1>7, <1>8, AccessWritten
<1>10. Busy(n) = {w}
  BY <1>1, LoneBusy DEF n, Pass
<1>11. ~stale'
  <2>1. \A c \in C : c \in Locations /\ cell[c].dirty \subseteq W
    BY <1>1, <1>5, <1>6, <1>10 DEF Pass, Memory, Good
  <2>2. w \in W
    BY <1>6
  <2>. QED BY <1>4, <1>8, <2>1, <2>2, SeesAfterFence
<1>12. TypeOK'
  <2>1. /\ kind' \in {"serial", "loop", "invoke", "reduce"}
        /\ runs' \in [Workers -> Nodes \cup {Nobody}] /\ wsq' \in [Workers -> Seq(Nodes)]
        /\ dead' \subseteq Nodes
    BY <1>0 DEF TypeOK
  <2>2. stale' \in BOOLEAN
    BY <1>4
  <2>. QED BY <1>2, <1>3, <1>9, <2>1, <2>2, TypeNext
<1>13. Accs'
  BY <1>1, <1>2, AccsMoves DEF Pass, Ctl
<1>14. OneHolder'
  BY <1>0, <1>1, <1>2, <1>3, OwnsMoves DEF Pass, Ctl
<1>15. Memory'
  <2>1. \A c \in C : Owns(n, c)
    BY <1>5
  <2>2. n = runs[w]
    BY DEF n
  <2>3. Access(w, {w, Nobody}, C, TRUE)
    BY <1>6, <1>7, <1>9
  <2>. QED BY <1>0, <1>1, <1>2, <1>3, <1>12, <2>1, <2>2, <2>3, MemReturningFenced
<1>. QED BY <1>3, <1>11, <1>12, <1>13, <1>14, <1>15 DEF Kept, Pass

(* JoinWait                                                                   *)
LEMMA JoinWaitKeeps ==
    ASSUME TypeOK, Pass, ~stale, NEW w \in Workers, JoinWait(w)
    PROVE  Kept
<1> DEFINE n == runs[w]
<1>0. /\ At(w, "join") /\ ~frames[n].ser /\ LeftHalf(n) \notin dead
      /\ UNCHANGED <<kind, wsq, dead, stale>> /\ runs' = [runs EXCEPT ![w] = Nobody]
      /\ cell' = released(cell, {w})
  BY DEF JoinWait, release_joining
<1>1. /\ n \in Active /\ n \in Nodes /\ n # Nobody /\ frames[n].at = "join" /\ FrameOK(n) /\ Sep(n)
  BY <1>0, AtFacts DEF Pass, Sep
<1>2. Moves(n, "wait") /\ Handlers({n}, {w}) /\ frames' \in [Active' -> Frames]
  <2>1. frames' = [honoured(frames, {w}) EXCEPT ![n].at = "wait"]
    BY DEF JoinWait
  <2>. QED BY <1>1, <2>1, HonouredFacts, MovesFrames DEF Places
<1>3. Ctl'
  BY <1>0, <1>1, <1>2, CtlWaiting DEF Pass
<1>4. Access(w, {w}, {}, FALSE) /\ cell' \in [Locations -> Cells]
  BY <1>0, FadedReleased, AccessNothing
<1>5. TypeOK'
  <2>1. /\ kind' \in {"serial", "loop", "invoke", "reduce"}
        /\ runs' \in [Workers -> Nodes \cup {Nobody}] /\ wsq' \in [Workers -> Seq(Nodes)]
        /\ dead' \subseteq Nodes /\ stale' \in BOOLEAN
    BY <1>0 DEF TypeOK
  <2>. QED BY <1>2, <1>3, <1>4, <2>1, TypeNext
<1>6. Accs'
  BY <1>1, <1>2, AccsMoves DEF Pass, Ctl
<1>7. OneHolder'
  BY <1>0, <1>1, <1>2, <1>3, OwnsMoves DEF Pass, Ctl
<1>8. Memory'
  BY <1>0, <1>1, <1>2, <1>3, <1>4, <1>5, MemWaiting DEF Pass
<1>. QED BY <1>0, <1>3, <1>5, <1>6, <1>7, <1>8 DEF Kept, Pass

--------------------------------------------------------------------------------
(* The caller of a call at its end.                                           *)
LEMMA CallerFacts ==
    ASSUME TypeOK, Ctl, NEW n \in Active, n # Root, NEW up, up = frames[n].up
    PROVE  /\ up \in Active /\ up \in Nodes /\ up # n /\ Split(up)
           /\ IsThread(n) => n = LeftHalf(up)
           /\ ~IsThread(n) => n = RightHalf(up) /\ frames[up].at = "rest"
<1>1. up \in Active /\ Split(up) /\ (n = LeftHalf(up) \/ (n = RightHalf(up) /\ frames[up].at = "rest"))
  BY DEF Ctl, Shape, FrameOK
<1>2. up \in Nodes /\ n \in Nodes
  BY <1>1 DEF TypeOK
<1>3. up # n
  BY <1>1, <1>2, Halves, NodeFacts
<1>. QED BY <1>1, <1>2, <1>3 DEF IsThread

(* MemReturned without a fence.                                               *)
LEMMA MemReturnedPlain ==
    ASSUME TypeOK, Pass, TypeOK', Ctl', kind' = kind,
           NEW w \in Workers, NEW n \in Active, NEW up, ReturnsTo(w, n, up, "join"),
           Access(w, {}, {}, FALSE), Handlers({up}, {})
    PROVE  Memory'
<1>1. PICK W : W = {}
  OBVIOUS
<1>2. PICK drop \in BOOLEAN : drop = FALSE
  OBVIOUS
<1>3. PICK a : a = "join"
  OBVIOUS
<1>4. PICK C : C = {}
  OBVIOUS
<1>5. Access(w, W, C, drop)
  BY <1>1, <1>2, <1>4
<1>6. Handlers({up}, W) /\ (drop => w \in W) /\ (a = "return" => drop) /\ \A c \in C : Owns(n, c) \/ Owns(up, c)
  BY <1>1, <1>2, <1>3, <1>4
<1>7. ReturnsTo(w, n, up, a)
  BY <1>3
<1>8. Ctl /\ Accs /\ OneHolder /\ Memory
  BY DEF Pass
<1>. QED BY <1>5, <1>6, <1>7, <1>8, MemReturned

(* MemReturned with the fences of a join.                                     *)
LEMMA MemReturnedFenced ==
    ASSUME TypeOK, Pass, TypeOK', Ctl', kind' = kind,
           NEW w \in Workers, NEW n \in Active, NEW up, ReturnsTo(w, n, up, "return"),
           NEW C, Access(w, {w, Nobody}, C, TRUE), Handlers({up}, {w}),
           \A c \in C : Owns(n, c) \/ Owns(up, c)
    PROVE  Memory'
<1>1. PICK W : W = {w, Nobody}
  OBVIOUS
<1>2. PICK drop \in BOOLEAN : drop = TRUE
  OBVIOUS
<1>3. PICK a : a = "return"
  OBVIOUS
<1>4. Access(w, W, C, drop)
  BY <1>1, <1>2
<1>5. {w} \subseteq W
  BY <1>1
<1>6. Handlers({up}, W)
  BY <1>5, HandlersMore
<1>7. (drop => w \in W) /\ (a = "return" => drop)
  BY <1>2, <1>5
<1>8. ReturnsTo(w, n, up, a)
  BY <1>3
<1>9. Ctl /\ Accs /\ OneHolder /\ Memory
  BY DEF Pass
<1>. QED BY <1>4, <1>6, <1>7, <1>8, <1>9, MemReturned

(* ReturnCall                                                                 *)
LEMMA ReturnCallKeeps ==
    ASSUME TypeOK, Pass, ~stale, NEW w \in Workers, ReturnCall(w)
    PROVE  Kept
<1> DEFINE n == runs[w]
           up == frames[n].up
<1>0. /\ At(w, "return") /\ n # Root /\ ~IsThread(n) /\ runs' = [runs EXCEPT ![w] = up]
      /\ frames' = [WithoutFrame(frames, n) EXCEPT ![up].at = "join"]
      /\ UNCHANGED <<kind, wsq, dead, cell, stale>>
  BY DEF ReturnCall
<1>1. n \in Active /\ frames[n].at = "return" /\ Ctl
  BY <1>0, AtFacts DEF Pass
<1>2. n = runs[w] /\ up = frames[n].up
  OBVIOUS
<1> HIDE DEF n, up
<1>3. up \in Active /\ up \in Nodes /\ up # n /\ n = RightHalf(up) /\ frames[up].at = "rest"
  BY <1>0, <1>1, <1>2, CallerFacts
<1>4. Ends(n, up, "join") /\ Handlers({up}, {}) /\ frames' \in [Active' -> Frames]
  BY <1>0, <1>1, <1>3, HonouredFacts, EndsFrames DEF Places
<1>5. EndsWell(n, up, "join")
  BY <1>3 DEF EndsWell
<1>6. AtEnd(w, n, up)
  BY <1>0, <1>1, <1>2 DEF AtEnd
<1>7. Ctl'
  <2>1. RightEnd(w, n, up)
    BY <1>3, <1>6 DEF RightEnd
  <2>. QED BY <1>0, <1>1, <1>4, <2>1, CtlReturned
<1>8. Access(w, {}, {}, FALSE) /\ cell' \in [Locations -> Cells]
  BY <1>0, FadedNot, AccessNothing
<1>9. TypeOK'
  <2>1. /\ kind' \in {"serial", "loop", "invoke", "reduce"}
        /\ runs' \in [Workers -> Nodes \cup {Nobody}] /\ wsq' \in [Workers -> Seq(Nodes)]
        /\ dead' \subseteq Nodes /\ stale' \in BOOLEAN
    BY <1>0, <1>3 DEF TypeOK
  <2>. QED BY <1>4, <1>7, <1>8, <2>1, TypeNext
<1>10. "join" \in Places /\ Shape /\ Shape'
  BY <1>1, <1>7 DEF Places, Ctl
<1>11. Accs'
  BY <1>0, <1>1, <1>2, <1>4, <1>5, <1>10, AccsEnds DEF Pass
<1>12. OneHolder'
  BY <1>0, <1>1, <1>4, <1>5, <1>10, <1>6, OwnsEnds DEF Pass
<1>13. Memory'
  <2>1. ReturnsTo(w, n, up, "join")
    BY <1>0, <1>4, <1>5, <1>6 DEF ReturnsTo
  <2>. QED BY <1>0, <1>1, <1>4, <1>7, <1>8, <1>9, <2>1, MemReturnedPlain
<1>. QED BY <1>0, <1>7, <1>9, <1>11, <1>12, <1>13 DEF Kept, Pass

(* DieApart                                                                   *)
LEMMA DieApartKeeps ==
    ASSUME TypeOK, Pass, ~stale, NEW w \in Workers, DieApart(w)
    PROVE  Kept
<1> DEFINE n == runs[w]
           up == frames[n].up
<1>0. /\ At(w, "return") /\ IsThread(n) /\ wsq[w] = <<>> /\ frames[up].at # "wait"
      /\ frames' = WithoutFrame(honoured(frames, {w}), n)
      /\ cell' = released(cell, {w}) /\ dead' = dead \cup {n} /\ runs' = [runs EXCEPT ![w] = Nobody]
      /\ UNCHANGED <<kind, wsq, stale>>
  BY DEF DieApart, Dies, drift_die
<1>1. n \in Active /\ n \in Nodes /\ frames[n].at = "return" /\ Ctl /\ n # Root
  BY <1>0, AtFacts DEF Pass, IsThread
<1>2. n = runs[w] /\ up = frames[n].up
  OBVIOUS
<1> HIDE DEF n, up
<1>3. up \in Active /\ up \in Nodes /\ up # n /\ n = LeftHalf(up)
  BY <1>0, <1>1, <1>2, CallerFacts
<1>4. ThreadEnd(w, n, up)
  <2>1. AtEnd(w, n, up)
    BY <1>1, <1>2 DEF AtEnd
  <2>. QED BY <1>3, <2>1 DEF ThreadEnd
<1>5. Sep(up)
  BY <1>0, <1>1, <1>4, ThreadApart
<1>6. PICK a \in Places : a = frames[up].at
  BY <1>3 DEF TypeOK, Frames
<1>7. Ends(n, up, a) /\ Handlers({up}, {w}) /\ frames' \in [Active' -> Frames]
  BY <1>0, <1>1, <1>3, <1>6, HonouredFacts, EndsFrames
<1>8. EndsWell(n, up, a)
  BY <1>0, <1>3, <1>5, <1>6 DEF EndsWell, Sep
<1>9. Ends(n, up, frames[up].at)
  BY <1>6, <1>7
<1>10. Ctl'
  BY <1>0, <1>1, <1>9, <1>4, CtlDied
<1>11. Access(w, {w}, {}, FALSE) /\ cell' \in [Locations -> Cells]
  BY <1>0, FadedReleased, AccessNothing
<1>12. TypeOK'
  <2>1. /\ kind' \in {"serial", "loop", "invoke", "reduce"}
        /\ runs' \in [Workers -> Nodes \cup {Nobody}] /\ wsq' \in [Workers -> Seq(Nodes)]
        /\ dead' \subseteq Nodes /\ stale' \in BOOLEAN
    BY <1>0, <1>1 DEF TypeOK
  <2>. QED BY <1>7, <1>10, <1>11, <2>1, TypeNext
<1>13. Shape /\ Shape'
  BY <1>1, <1>10 DEF Ctl
<1>14. Accs'
  BY <1>0, <1>1, <1>2, <1>7, <1>8, <1>13, AccsEnds DEF Pass
<1>15. OneHolder'
  BY <1>0, <1>1, <1>7, <1>8, <1>13, <1>4, OwnsEnds DEF Pass, ThreadEnd
<1>16. Memory'
  BY <1>0, <1>1, <1>7, <1>9, <1>10, <1>11, <1>12, <1>4, MemDied DEF Pass
<1>. QED BY <1>0, <1>10, <1>12, <1>14, <1>15, <1>16 DEF Kept, Pass

(* Only the child is busy inside a call that waits.                           *)
LEMMA WaitingBusy ==
    ASSUME TypeOK, Ctl, NEW w \in Workers, NEW n \in Active, NEW up \in Active,
           ThreadEnd(w, n, up), frames[up].at = "wait"
    PROVE  Busy(n) = {w} /\ Busy(up) = {w}
<1>1. LeftHalf(n) \notin Active /\ frames[n].at # "rest" /\ n = runs[w]
  BY DEF Ctl, Shape, FrameOK, ThreadEnd, AtEnd
<1>2. Busy(n) = {w} /\ \A m \in Active : In(m, n) => m = n
  BY <1>1, LoneBusy
<1>3. up \in Nodes /\ Split(up) /\ n \in Nodes
  BY DEF TypeOK, Ctl, Shape, FrameOK
<1>4. ASSUME NEW m \in Active, In(m, up) PROVE m = up \/ m = n
  <2>1. Related(m, up, Active, Resting) /\ m \in Nodes /\ up \notin Resting
    BY DEF Ctl, Shape, Tree, TypeOK, Resting
  <2>2. CASE Apart(m, up)
    BY <1>3, <1>4, <2>1, <2>2, NodeFacts DEF Apart, In
  <2>3. CASE Below(m, up, Active, Resting)
    BY <1>2, <2>1, <2>3 DEF Below, ThreadEnd
  <2>4. CASE Below(up, m, Active, Resting)
    BY <1>3, <1>4, <2>1, <2>4, NodeFacts, Halves DEF Below, In, Ctl, Shape, Tree, Resting
  <2>. QED BY <2>1, <2>2, <2>3, <2>4 DEF Related
<1>5. ASSUME NEW v \in Busy(up) PROVE v = w
  <2>1. v \in Workers /\ runs[v] # Nobody /\ runs[v] \in Active /\ In(runs[v], up)
        /\ frames[runs[v]].at \in {"call", "return", "join"}
    BY DEF Busy, Ctl, Running
  <2>2. runs[v] = n
    BY <1>4, <2>1
  <2>. QED BY <1>1, <2>1, <2>2 DEF Ctl, Running
<1>6. w \in Busy(up)
  <2>1. In(n, up)
    BY <1>3, Halves, NodeFacts DEF In, ThreadEnd
  <2>. QED BY <1>1, <1>2, <2>1 DEF Busy
<1>. QED BY <1>2, <1>5, <1>6

(* DieResuming                                                                *)
LEMMA DieResumingKeeps ==
    ASSUME TypeOK, Pass, ~stale, NEW w \in Workers, DieResuming(w)
    PROVE  Kept
<1> DEFINE n == runs[w]
           up == frames[n].up
           cs == acquired(released(cell, {w}), w, Nobody)
           C == JoinCells(up)
<1>0. /\ At(w, "return") /\ IsThread(n) /\ wsq[w] = <<>> /\ frames[up].at = "wait"
      /\ frames' = [WithoutFrame(honoured(frames, {w}), n) EXCEPT ![up].at = "return", ![up].rh = Nobody]
      /\ AfterJoin(w, up, cs) /\ runs' = [runs EXCEPT ![w] = up]
      /\ UNCHANGED <<kind, wsq, dead>>
  BY DEF DieResuming, Dies, drift_die, Returning, acquire_joined
<1>1. n \in Active /\ n \in Nodes /\ frames[n].at = "return" /\ Ctl /\ n # Root
  BY <1>0, AtFacts DEF Pass, IsThread
<1>2. n = runs[w] /\ up = frames[n].up
  OBVIOUS
<1>3. stale' = (stale \/ MissesNewest(cs, w, C)) /\ cell' = written(cs, w, C)
  BY <1>0, AfterJoinFacts
<1>4. Faded(cs, w, {w, Nobody}, TRUE)
  BY FadedJoined
<1> HIDE DEF n, up, cs
<1>5. up \in Active /\ up \in Nodes /\ up # n /\ n = LeftHalf(up)
  BY <1>0, <1>1, <1>2, CallerFacts
<1>6. ThreadEnd(w, n, up)
  <2>1. AtEnd(w, n, up)
    BY <1>1, <1>2 DEF AtEnd
  <2>. QED BY <1>5, <2>1 DEF ThreadEnd
<1>7. Ends(n, up, "return") /\ Handlers({up}, {w}) /\ frames' \in [Active' -> Frames]
  BY <1>0, <1>1, <1>5, HonouredFacts, EndsFrames DEF Places
<1>8. EndsWell(n, up, "return")
  BY <1>0, <1>5 DEF EndsWell
<1>9. Ctl'
  BY <1>0, <1>1, <1>7, <1>6, CtlResumed
<1>10. \A c \in C : c \in Locations /\ (Owns(n, c) \/ Owns(up, c))
  BY <1>0, <1>1, <1>5, OwnsResumed DEF Pass
<1> HIDE DEF C
<1>11. Access(w, {w, Nobody}, C, TRUE) /\ cell' \in [Locations -> Cells]
  BY <1>3, <1>4, AccessWritten
<1>12. ~stale'
  <2>1. Busy(n) = {w} /\ Busy(up) = {w}
    BY <1>0, <1>1, <1>5, <1>6, WaitingBusy
  <2>2. \A c \in C : c \in Locations /\ cell[c].dirty \subseteq {w, Nobody}
    BY <1>1, <1>5, <1>10, <2>1 DEF Pass, Memory, Good
  <2>. QED BY <1>3, <1>4, <2>2, SeesAfterFence
<1>13. TypeOK'
  <2>1. /\ kind' \in {"serial", "loop", "invoke", "reduce"}
        /\ runs' \in [Workers -> Nodes \cup {Nobody}] /\ wsq' \in [Workers -> Seq(Nodes)]
        /\ dead' \subseteq Nodes
    BY <1>0, <1>5 DEF TypeOK
  <2>2. stale' \in BOOLEAN
    BY <1>3
  <2>. QED BY <1>7, <1>9, <1>11, <2>1, <2>2, TypeNext
<1>14. "return" \in Places /\ Shape /\ Shape'
  BY <1>1, <1>9 DEF Places, Ctl
<1>15. Accs'
  BY <1>0, <1>1, <1>2, <1>7, <1>8, <1>14, AccsEnds DEF Pass
<1>16. OneHolder'
  BY <1>0, <1>1, <1>7, <1>8, <1>14, <1>6, OwnsEnds DEF Pass, ThreadEnd
<1>17. Memory'
  <2>1. \A c \in C : Owns(n, c) \/ Owns(up, c)
    BY <1>10
  <2>2. ReturnsTo(w, n, up, "return")
    BY <1>0, <1>1, <1>7, <1>8, <1>6 DEF ReturnsTo, ThreadEnd
  <2>. QED BY <1>0, <1>1, <1>7, <1>9, <1>11, <1>13, <2>1, <2>2, MemReturnedFenced
<1>. QED BY <1>9, <1>12, <1>13, <1>15, <1>16, <1>17 DEF Kept, Pass

--------------------------------------------------------------------------------
(* ForkCall                                                                   *)
LEMMA ForkCallKeeps ==
    ASSUME TypeOK, Pass, ~stale, NEW w \in Workers, ForkCall(w)
    PROVE  Kept
<1> DEFINE n == runs[w]
           C == IF kind = "invoke" THEN Data(n[1], n[2]) ELSE {}
           rh == IF kind = "invoke" THEN release_lazy(cell', w) ELSE frames[n].rh
<1>0. /\ At(w, "call") /\ Split(n) /\ UNCHANGED <<kind, dead>>
      /\ stale' = (stale \/ MissesNewest(cell, w, C)) /\ cell' = written(cell, w, C)
      /\ frames' = WithFrame([frames EXCEPT ![n].at = "forked", ![n].rh = rh],
                             LeftHalf(n), Frame(rh, frames[n].acc, n))
      /\ wsq' = [wsq EXCEPT ![w] = Append(@, n)]
      /\ runs' = [runs EXCEPT ![w] = LeftHalf(n)]
  BY DEF ForkCall, Split
<1>1. /\ n \in Active /\ n \in Nodes /\ frames[n].at = "call" /\ LeftHalf(n) \notin Active
      /\ ~frames[n].ser /\ ~Sep(n) /\ Ctl /\ frames[n] \in Frames
  BY <1>0, AtFacts DEF Pass, FrameOK, TypeOK, Sep
<1>2. LeftHalf(n) \in Nodes
  BY <1>0, <1>1, Halves
<1>3. rh \in Workers \cup {Nobody}
  BY <1>1, LazyFacts DEF Frames
<1>4. n = runs[w] /\ rh = (IF kind = "invoke" THEN release_lazy(cell', w) ELSE frames[n].rh)
      /\ (kind # "invoke" => C = {})
  OBVIOUS
<1>5. \A c \in C : c \in Locations /\ Owns(n, c)
  BY <1>1, OwnsData
<1> HIDE DEF n, C, rh
<1>6. /\ Forking(n) /\ Handlers({n}, {}) /\ frames' \in [Active' -> Frames]
      /\ frames'[n].rh = rh /\ frames'[LeftHalf(n)].rh = rh
  BY <1>0, <1>1, <1>2, <1>3, ForkFrames
<1>7. Ctl'
  BY <1>0, <1>1, <1>4, <1>6, CtlForking
<1>8. Access(w, {}, C, FALSE) /\ cell' \in [Locations -> Cells]
  BY <1>0, FadedNot, AccessWritten
<1>9. ~stale'
  <2>1. Busy(n) = {w} /\ Whole(n)
    BY <1>1, <1>4, LoneBusy
  <2>2. w \in Busy(n)
    BY <2>1
  <2>. QED BY <1>0, <1>1, <1>5, <2>1, <2>2, SeesOwn DEF Pass
<1>10. TypeOK'
  <2>1. /\ kind' \in {"serial", "loop", "invoke", "reduce"}
        /\ runs' \in [Workers -> Nodes \cup {Nobody}] /\ dead' \subseteq Nodes
    BY <1>0, <1>2 DEF TypeOK
  <2>2. wsq' \in [Workers -> Seq(Nodes)]
    BY <1>0, <1>1 DEF TypeOK
  <2>3. stale' \in BOOLEAN
    BY <1>0
  <2>. QED BY <1>6, <1>7, <1>8, <2>1, <2>2, <2>3, TypeNext
<1>11. Shape /\ Shape'
  BY <1>1, <1>7 DEF Ctl
<1>12. Accs'
  BY <1>0, <1>1, <1>6, <1>11, AccsForking DEF Pass
<1>13. OneHolder'
  BY <1>0, <1>1, <1>6, <1>11, OwnsForking DEF Pass
<1>14. Memory'
  <2>1. \A c \in C : Owns(n, c)
    BY <1>5
  <2>2. Ctl /\ Accs /\ OneHolder /\ Memory
    BY DEF Pass
  <2>3. kind' = kind /\ runs' = [runs EXCEPT ![w] = LeftHalf(n)] /\ Split(n)
    BY <1>0
  <2>. QED BY <1>1, <1>4, <1>6, <1>7, <1>8, <1>10, <2>1, <2>2, <2>3, MemForking
<1>. QED BY <1>7, <1>9, <1>10, <1>12, <1>13, <1>14 DEF Kept, Pass

(* DieSerialized                                                              *)
LEMMA DieSerializedKeeps ==
    ASSUME TypeOK, Pass, ~stale, NEW w \in Workers, DieSerialized(w)
    PROVE  Kept
<1> DEFINE y == runs[w]
           n == Last(wsq[w])
           acc == frames[y].acc
           rh == frames[n].rh
<1>0. /\ At(w, "return") /\ IsThread(y) /\ wsq[w] # <<>>
      /\ frames' = CallRest(WithoutFrame(frames, y), n, TRUE, rh, acc)
      /\ runs' = [runs EXCEPT ![w] = RightHalf(n)] /\ wsq' = [wsq EXCEPT ![w] = Front(@)]
      /\ UNCHANGED <<kind, dead, cell, stale>>
  BY DEF DieSerialized, Dies
<1>1. y \in Active /\ y \in Nodes /\ frames[y].at = "return" /\ Ctl /\ y # Root /\ frames[y] \in Frames
  BY <1>0, AtFacts DEF Pass, IsThread, TypeOK
<1>2. n = frames[y].up /\ y = LeftHalf(frames[y].up)
  BY <1>0, <1>1, NewestIsParent DEF IsThread, Ctl
<1>3. n \in Active /\ n \in Nodes /\ y # n /\ y = LeftHalf(n) /\ Split(n)
  <2>1. frames[y].up \in Active /\ frames[y].up \in Nodes /\ frames[y].up # y /\ Split(frames[y].up)
    BY <1>1, CallerFacts
  <2>. QED BY <1>2, <2>1
<1>4. frames[n].at = "forked" /\ Front(wsq[w]) \in Seq(Nodes)
  <2>1. wsq[w] \in Seq(Nodes)
    BY DEF TypeOK
  <2>2. PICK k \in Nat : /\ Len(wsq[w]) = k + 1 /\ Last(wsq[w]) = wsq[w][k + 1]
                         /\ Front(wsq[w]) \in Seq(Nodes)
    BY <1>0, <2>1, FrontFacts
  <2>3. k + 1 \in 1 .. Len(wsq[w])
    BY <2>2
  <2>. QED BY <1>1, <2>2, <2>3, QueuedBusy DEF Ctl
<1>5. RightHalf(n) \in Nodes /\ RightHalf(n) \notin Active
  <2>1. RightHalf(n) \in Nodes
    BY <1>3, Halves
  <2>2. In(RightHalf(n), RightHalf(n))
    BY <2>1, NodeFacts DEF In
  <2>3. frames[n].at # "rest"
    BY <1>4
  <2>. QED BY <1>1, <1>3, <2>1, <2>2, <2>3, NothingRight DEF Ctl
<1>6. rh \in Workers \cup {Nobody} /\ acc \in 0 .. (Items - 1)
  BY <1>1, <1>3 DEF Frames, TypeOK
<1>7. WithoutFrame(frames, y) = [u \in Active \ {y} |-> frames[u]]
  BY DEF WithoutFrame, Active
<1>8. runs[w] = y /\ acc = frames[y].acc /\ rh = frames[n].rh /\ n = Last(wsq[w])
  OBVIOUS
<1> HIDE DEF n, y, rh, acc
<1>9. /\ Resumes(n, {y}, TRUE, acc) /\ Handlers({n}, {}) /\ frames' \in [Active' -> Frames]
      /\ frames'[RightHalf(n)].rh = rh
  <2>1. Like(frames, {})
    BY HonouredFacts
  <2>2. Leaves(WithoutFrame(frames, y), frames, {y})
    BY <1>7 DEF Leaves, TypeOK
  <2>3. RestsFrom(n, {y}, TRUE, rh, acc, frames, {}, WithoutFrame(frames, y))
    BY <1>0, <1>3, <1>5, <1>6, <2>1, <2>2 DEF RestsFrom
  <2>. QED BY <1>3, <2>3, RestFrames, Zenon
<1>10. /\ runs[w] = LeftHalf(n) /\ frames[LeftHalf(n)].at = "return" /\ LeftHalf(n) = y
       /\ Resumes(n, {LeftHalf(n)}, TRUE, frames[LeftHalf(n)].acc)
  BY <1>1, <1>3, <1>8, <1>9
<1>11. Ctl'
  BY <1>0, <1>1, <1>3, <1>4, <1>8, <1>10, CtlSerialized
<1>12. TypeOK'
  <2>1. /\ kind' \in {"serial", "loop", "invoke", "reduce"}
        /\ runs' \in [Workers -> Nodes \cup {Nobody}] /\ dead' \subseteq Nodes
        /\ cell' \in [Locations -> Cells] /\ stale' \in BOOLEAN
    BY <1>0, <1>5 DEF TypeOK
  <2>2. wsq' \in [Workers -> Seq(Nodes)]
    BY <1>0, <1>4 DEF TypeOK
  <2>. QED BY <1>9, <1>11, <2>1, <2>2, TypeNext
<1>13. Shape /\ Shape'
  BY <1>1, <1>11 DEF Ctl
<1>14. Accs'
  BY <1>3, <1>4, <1>10, <1>13, AccsResumes DEF Pass
<1>15. OneHolder'
  BY <1>0, <1>3, <1>4, <1>10, <1>13, OwnsSerialized DEF Pass
<1>16. Memory'
  <2>1. frames'[RightHalf(n)].rh = frames[n].rh
    BY <1>8, <1>9
  <2>2. Ctl /\ Accs /\ OneHolder /\ Memory
    BY DEF Pass
  <2>3. kind' = kind /\ cell' = cell /\ runs' = [runs EXCEPT ![w] = RightHalf(n)]
    BY <1>0
  <2>. QED BY <1>3, <1>4, <1>9, <1>10, <1>11, <1>12, <2>1, <2>2, <2>3, MemSerialized
<1>. QED BY <1>0, <1>11, <1>12, <1>14, <1>15, <1>16 DEF Kept, Pass

--------------------------------------------------------------------------------
(* A call in a queue owns the accumulator that a thief would make.            *)
LEMMA OwnsMade ==
    ASSUME TypeOK, Shape, NEW n \in Active, frames[n].at = "forked", Split(n)
    PROVE  Acc(mid(n)) \in Locations /\ Owns(n, Acc(mid(n)))
<1>1. Acc(mid(n)) \in Locations /\ mid(n) \in Nat
  BY MidFacts
<1>2. ~Live(mid(n))
  BY LiveOf DEF Sep
<1>3. n[1] <= mid(n) /\ mid(n) < n[2] /\ n \notin Resting
  BY Halves, NodeFacts DEF TypeOK, Resting
<1>. QED BY <1>1, <1>2, <1>3 DEF Owns, Acc, Covers, CoversIn

(* StealFrom                                                                  *)
LEMMA StealFromKeeps ==
    ASSUME TypeOK, Pass, ~stale, NEW w \in Workers, NEW v \in Workers, v # w, StealFrom(w, v)
    PROVE  Kept
<1> DEFINE n == Head(wsq[v])
           r == frames[n].rh
           cs == acquired(cell, w, r)
           C == IF kind = "reduce" THEN {Acc(mid(n))} ELSE {}
           rh == IF kind = "reduce" THEN release_lazy(cell', w) ELSE Nobody
<1>0. /\ runs[w] = Nobody /\ wsq[v] # <<>> /\ UNCHANGED <<kind, dead>>
      /\ stale' = (stale \/ Overtaken(cs, w, C)) /\ cell' = written(cs, w, C)
      /\ frames' = CallRest(honoured(frames, {w, r}), n, FALSE, rh, mid(n))
      /\ runs' = [runs EXCEPT ![w] = RightHalf(n)] /\ wsq' = [wsq EXCEPT ![v] = Tail(@)]
  BY DEF StealFrom, drift_fork
<1>1. n \in Active /\ frames[n].at = "forked" /\ Tail(wsq[v]) \in Seq(Nodes)
  <2>1. wsq[v] \in Seq(Nodes)
    BY DEF TypeOK
  <2>2. PICK k \in Nat : Len(wsq[v]) = k + 1 /\ Head(wsq[v]) = wsq[v][1] /\ Tail(wsq[v]) \in Seq(Nodes)
    BY <1>0, <2>1, TailFacts
  <2>3. 1 \in 1 .. Len(wsq[v])
    BY <2>2
  <2>. QED BY <2>2, <2>3, QueuedBusy DEF Pass, Ctl
<1>2. Ctl /\ Accs /\ OneHolder /\ Memory /\ Shape
  BY DEF Pass, Ctl
<1>3. n \in Nodes /\ Split(n) /\ mid(n) \in 0 .. (Items - 1) /\ r \in Workers \cup {Nobody}
  <2>1. n \in Nodes /\ Split(n) /\ frames[n] \in Frames
    BY <1>1, <1>2 DEF TypeOK, Shape, FrameOK
  <2>. QED BY <1>1, <2>1, MidFacts DEF Frames
<1>4. RightHalf(n) \in Nodes /\ RightHalf(n) \notin Active
  <2>1. RightHalf(n) \in Nodes
    BY <1>3, Halves
  <2>2. In(RightHalf(n), RightHalf(n))
    BY <2>1, NodeFacts DEF In
  <2>3. frames[n].at # "rest"
    BY <1>1
  <2>. QED BY <1>1, <1>2, <1>3, <2>1, <2>2, <2>3, NothingRight
<1>5. rh \in Workers \cup {Nobody}
  BY LazyFacts
<1>6. Faded(cs, w, {w, r}, TRUE)
  BY FadedAcquired
<1>7. Acc(mid(n)) \in Locations /\ Owns(n, Acc(mid(n)))
  BY <1>1, <1>2, <1>3, OwnsMade
<1>8. ~stale'
  <2>1. cell[Acc(mid(n))].dirty \subseteq {r}
    BY <1>1, <1>2, <1>7 DEF Memory, Good, Pinned
  <2>2. Fades(cell[Acc(mid(n))], cs[Acc(mid(n))], w, {w, r}, TRUE)
    BY <1>6, <1>7 DEF Faded
  <2>3. cs[Acc(mid(n))].dirty = {}
    BY <2>1, <2>2 DEF Fades
  <2> HIDE DEF cs
  <2>4. ~Overtaken(cs, w, C)
    BY <2>3 DEF Overtaken
  <2>. QED BY <1>0, <2>4
<1>9. C = (IF kind = "reduce" THEN {Acc(mid(n))} ELSE {}) /\ n = Head(wsq[v]) /\ r = frames[n].rh
  OBVIOUS
<1> HIDE DEF n, r, cs, C, rh
<1>10. /\ Resumes(n, {}, FALSE, mid(n)) /\ Handlers({n}, {w, r}) /\ frames' \in [Active' -> Frames]
  <2>1. Like(honoured(frames, {w, r}), {w, r})
    BY HonouredFacts
  <2>2. Leaves(honoured(frames, {w, r}), honoured(frames, {w, r}), {})
    BY <2>1 DEF Leaves, Like
  <2>3. RestsFrom(n, {}, FALSE, rh, mid(n), honoured(frames, {w, r}), {w, r}, honoured(frames, {w, r}))
    BY <1>0, <1>3, <1>4, <1>5, <2>1, <2>2 DEF RestsFrom
  <2>. QED BY <1>1, <2>3, RestFrames, Zenon
<1>11. Ctl'
  BY <1>0, <1>1, <1>2, <1>9, <1>10, CtlStolen
<1>12. Access(w, {w, r}, C, TRUE) /\ cell' \in [Locations -> Cells]
  BY <1>0, <1>6, AccessWritten
<1>13. TypeOK'
  <2>1. /\ kind' \in {"serial", "loop", "invoke", "reduce"}
        /\ runs' \in [Workers -> Nodes \cup {Nobody}] /\ dead' \subseteq Nodes
    BY <1>0, <1>4 DEF TypeOK
  <2>2. wsq' \in [Workers -> Seq(Nodes)]
    BY <1>0, <1>1 DEF TypeOK
  <2>3. stale' \in BOOLEAN
    BY <1>0
  <2>. QED BY <1>10, <1>11, <1>12, <2>1, <2>2, <2>3, TypeNext
<1>14. Shape'
  BY <1>11 DEF Ctl
<1>15. Accs'
  BY <1>1, <1>2, <1>10, <1>14, AccsResumes
<1>16. OneHolder'
  BY <1>0, <1>1, <1>2, <1>10, <1>14, OwnsStolen
<1>17. Memory'
  <2>1. PICK W : W = {w, r}
    OBVIOUS
  <2>2. W = {w, frames[n].rh} /\ Access(w, W, C, TRUE) /\ Handlers({n}, W)
    BY <1>9, <1>10, <1>12, <2>1
  <2>3. kind' = kind /\ runs[w] = Nobody /\ runs' = [runs EXCEPT ![w] = RightHalf(n)]
    BY <1>0
  <2>. QED BY <1>1, <1>2, <1>7, <1>9, <1>10, <1>11, <1>13, <2>2, <2>3, MemStolen
<1>. QED BY <1>8, <1>11, <1>13, <1>15, <1>16, <1>17 DEF Kept, Pass

(* WriteBack, during a pass                                                   *)
LEMMA WriteBackKeeps ==
    ASSUME TypeOK, Pass, ~stale, NEW w \in Workers, WriteBack(w)
    PROVE  Kept
<1>0. /\ cell' = released(cell, {w}) /\ frames' = honoured(frames, {w})
      /\ UNCHANGED <<kind, runs, wsq, dead, stale>>
  BY DEF WriteBack
<1>1. Like(frames', {w})
  BY <1>0, HonouredFacts
<1>2. Active' = Active /\ (\A u \in Active : Keeps(u)) /\ frames' \in [Active' -> Frames]
  BY <1>1 DEF Like, Keeps, Active
<1>3. Handlers({}, {w})
  BY <1>1 DEF Like, Handlers
<1>4. Resting' = Resting /\ (\A u \in Active : Sep(u)' <=> Sep(u)) /\ SepShrinks
  BY <1>2 DEF Resting, Sep, Keeps, SepShrinks
<1>5. Ctl /\ Accs /\ OneHolder /\ Memory /\ Shape
  BY DEF Pass, Ctl
<1>6. Shape'
  <2>1. ASSUME NEW n \in Active PROVE FrameOK(n)'
    <3>1. FrameOK(n)
      BY <1>5 DEF Shape
    <3>2. frames[n].at = "rest" => RightHalf(n) \in Active
      BY <1>5 DEF Shape, Tree, Resting
    <3>. QED BY <1>2, <3>1, <3>2 DEF FrameOK, Keeps
  <2>. QED BY <1>2, <1>4, <1>5, <2>1 DEF Shape
<1>7. Running'
  BY <1>0, <1>2, <1>5 DEF Ctl, Running, Keeps
<1>8. Queues'
  <2>1. ASSUME NEW v \in Workers PROVE \A i \in 1 .. Len(wsq'[v]) : EntryOK(v, i)'
    BY <1>0, <1>2, <1>5, EntriesKept DEF Ctl, Keeps
  <2>. QED BY <2>1 DEF Queues
<1>9. Forks'
  BY <1>0, <1>2, <1>4, <1>5, ForksKept DEF Ctl, Keeps
<1>10. Deaths'
  BY <1>0, <1>2, <1>4, <1>5 DEF Ctl, Deaths
<1>11. Ctl'
  BY <1>6, <1>7, <1>8, <1>9, <1>10 DEF Ctl
<1>12. Access(w, {w}, {}, FALSE) /\ cell' \in [Locations -> Cells]
  BY <1>0, FadedReleased, AccessNothing
<1>13. TypeOK'
  <2>1. /\ kind' \in {"serial", "loop", "invoke", "reduce"}
        /\ runs' \in [Workers -> Nodes \cup {Nobody}] /\ wsq' \in [Workers -> Seq(Nodes)]
        /\ dead' \subseteq Nodes /\ stale' \in BOOLEAN
    BY <1>0 DEF TypeOK
  <2>. QED BY <1>2, <1>11, <1>12, <2>1, TypeNext
<1>14. Accs'
  <2>1. ASSUME NEW n \in Active PROVE AccOK(n)'
    <3>1. AccOK(n)
      BY <1>5 DEF Accs
    <3>2. Rooted(n)'
      BY <1>2, <1>4, <3>1 DEF AccOK, Rooted, Keeps
    <3>3. frames[n].at = "rest" => RightHalf(n) \in Active
      BY <1>5 DEF Shape, Tree, Resting
    <3>. QED BY <1>2, <3>1, <3>2, <3>3 DEF AccOK, Keeps
  <2>. QED BY <1>2, <2>1 DEF Accs
<1>15. \A m \in Active : \A a : Holds(m, a)' <=> Holds(m, a)
  BY <1>0, <1>2, <1>4 DEF Holds, Keeps
<1>16. OneHolder'
  BY <1>2, <1>5, <1>15 DEF OneHolder
<1>17. ASSUME NEW m \in Active, NEW c \in Locations, Owns(m, c)' PROVE Good(m, c)'
  <2>1. Live(c[2])' <=> Live(c[2])
    BY <1>0, <1>2, <1>4 DEF Live
  <2>2. Covers(m, c[2])' <=> Covers(m, c[2])
    BY <1>2, <1>4 DEF Covers
  <2>3. Owns(m, c)
    BY <1>15, <1>17, <2>1, <2>2 DEF Owns
  <2>4. Good(m, c)
    BY <1>5, <2>3 DEF Memory
  <2>5. Busy(m)' = Busy(m)
    BY <1>0 DEF Busy
  <2>6. Whole(m)' <=> Whole(m)
    BY <1>2, <1>4 DEF Whole
  <2>7. Pinned(m, c)' => Pinned(m, c)
    BY <1>0, <1>2 DEF Pinned, Keeps
  <2>8. frames'[m].rh = frames[m].rh \/ frames[m].rh \in {w}
    BY <1>2, <1>3 DEF Handlers
  <2>. QED BY <1>12, <2>4, <2>5, <2>6, <2>7, <2>8, GoodReleased
<1>18. Memory'
  BY <1>2, <1>17 DEF Memory
<1>. QED BY <1>0, <1>11, <1>13, <1>14, <1>16, <1>18 DEF Kept, Pass

--------------------------------------------------------------------------------
(* Between the passes there is the root thread only, and all that is dirty is *)
(* dirty at its worker, which sees the newest data everywhere.                *)
Sole(cs, w) == \A c \in Locations : cs[c].dirty \subseteq {w} /\ SeesNewest(cs, w, c)

Alone ==
    /\ Active = {} /\ dead = {} /\ \A v \in Workers : wsq[v] = <<>>
    /\ \A v \in Workers : runs[v] \in {Nobody, Root}
    /\ \A u, v \in Workers : runs[u] = Root /\ runs[v] = Root => u = v
    /\ \A v \in Workers : runs[v] = Root => Sole(cell, v)

Inv == TypeOK /\ ~stale /\ (IF kind = "serial" THEN Alone ELSE Pass)

(* The root call is a range, and without frames there are no calls.           *)
LEMMA RootFacts ==
    /\ Root \in Nodes /\ Root # Nobody /\ LeftHalf(Root) # Root /\ 0 \in 0 .. (Items - 1)
    /\ \A n \in Nodes : In(n, Root)
    /\ DOMAIN NoFrames = {} /\ NoFrames \in [{} -> Frames]
<1>1. Root \in Nodes /\ Items \in Nat /\ Items > 0 /\ 0 \in 0 .. (Items - 1)
  BY WorkersAssumption DEF Root, Nodes
<1>2. Root # Nobody
  BY <1>1, WorkersAssumption DEF Nodes
<1>3. LeftHalf(Root) # Root
  BY <1>1, Halves, NodeFacts
<1>4. \A n \in Nodes : In(n, Root)
  BY <1>1, NodeFacts DEF In, Root
<1>. QED BY <1>1, <1>2, <1>3, <1>4 DEF NoFrames

(* The worker of a serial part writes some cells.                             *)
LEMMA SoleWritten ==
    ASSUME NEW cs \in [Locations -> Cells], NEW w \in Workers, Sole(cs, w), NEW C
    PROVE  /\ written(cs, w, C) \in [Locations -> Cells] /\ Sole(written(cs, w, C), w)
           /\ ~MissesNewest(cs, w, C \cap Locations) /\ ~Overtaken(cs, w, C \cap Locations)
<1> DEFINE ds == written(cs, w, C)
<1>1. ASSUME NEW c \in Locations
      PROVE  ds[c] \in Cells /\ ds[c].dirty \subseteq {w} /\ SeesNewest(ds, w, c)
  <2>1. cs[c] \in Cells /\ cs[c].dirty \subseteq {w} /\ SeesNewest(cs, w, c)
    BY DEF Sole
  <2>2. CASE c \in C
    <3>1. ds[c] = [fresh |-> {w}, dirty |-> {w}, old |-> (cs[c].fresh \cup cs[c].old) \ {w}]
      BY <2>2 DEF written
    <3>. QED BY <2>1, <3>1 DEF Cells, SeesNewest
  <2>3. CASE c \notin C
    <3>1. ds[c] = cs[c]
      BY <2>3 DEF written
    <3> HIDE DEF ds
    <3>. QED BY <2>1, <3>1 DEF SeesNewest
  <2>. QED BY <2>2, <2>3
<1>2. ds = [c \in Locations |-> ds[c]]
  BY DEF written
<1>3. ~MissesNewest(cs, w, C \cap Locations) /\ ~Overtaken(cs, w, C \cap Locations)
  BY DEF Sole, MissesNewest, Overtaken
<1> HIDE DEF ds
<1>4. ds \in [Locations -> Cells] /\ Sole(ds, w)
  BY <1>1, <1>2 DEF Sole
<1>. QED BY <1>3, <1>4 DEF ds

(* The type of the next state in a serial part.                               *)
LEMMA TypeAlone ==
    ASSUME TypeOK, kind' = "serial", wsq' = wsq, dead' = dead, frames' = NoFrames,
           runs' \in [Workers -> Nodes \cup {Nobody}], cell' \in [Locations -> Cells], stale' \in BOOLEAN
    PROVE  TypeOK' /\ Active' = {}
<1>1. Active' = {} /\ frames' \in [Active' -> Frames]
  BY RootFacts DEF Active
<1>. QED BY <1>1 DEF TypeOK

(* In a serial part the frames are gone.                                      *)
LEMMA NoFramesLeft ==
    ASSUME TypeOK, Active = {}
    PROVE  frames = NoFrames
<1>1. frames \in [{} -> Frames] /\ DOMAIN frames = {}
  BY DEF TypeOK, Active
<1>2. frames = [n \in {} |-> frames[n]]
  BY <1>1
<1>3. [n \in {} |-> frames[n]] = NoFrames
  BY DEF NoFrames
<1>. QED BY <1>2, <1>3

(* The initial state.                                                         *)
LEMMA InitInv == FjInit => Inv
<1> SUFFICES ASSUME FjInit PROVE Inv
  OBVIOUS
<1>1. PICK w \in Workers : runs = [u \in Workers |-> IF u = w THEN Root ELSE Nobody]
  BY DEF FjInit
<1>2. Active = {} /\ frames \in [Active -> Frames]
  BY RootFacts DEF FjInit, Active
<1>3. cell \in [Locations -> Cells] /\ \A c \in Locations : cell[c].dirty = {} /\ cell[c].old = {}
  BY DEF FjInit, NoCopies, Cells
<1>4. wsq \in [Workers -> Seq(Nodes)] /\ \A v \in Workers : wsq[v] = <<>>
  BY DEF FjInit
<1>5. runs \in [Workers -> Nodes \cup {Nobody}]
  BY <1>1, RootFacts
<1>6. TypeOK
  BY <1>2, <1>3, <1>4, <1>5 DEF FjInit, TypeOK
<1>7. \A v \in Workers : Sole(cell, v)
  BY <1>3 DEF Sole, SeesNewest
<1>8. Alone
  BY <1>1, <1>2, <1>4, <1>7, RootFacts DEF FjInit, Alone
<1>. QED BY <1>6, <1>8 DEF Inv, FjInit

(* migrate_to                                                                 *)
LEMMA MigrateKeeps ==
    ASSUME Inv, NEW w \in Workers, NEW v \in Workers, migrate_to(w, v)
    PROVE  Inv'
<1>0. /\ kind = "serial" /\ runs[w] = Root /\ v # w
      /\ cell' = acquired(released(cell, {w}), v, Nobody)
      /\ runs' = [runs EXCEPT ![w] = Nobody, ![v] = Root]
      /\ UNCHANGED <<kind, wsq, frames, dead, stale>>
  BY DEF migrate_to, Serial
<1>1. Alone /\ TypeOK /\ ~stale
  BY <1>0 DEF Inv
<1>2. frames = NoFrames
  BY <1>1, NoFramesLeft DEF Alone
<1>3. runs' \in [Workers -> Nodes \cup {Nobody}] /\ \A u \in Workers : runs'[u] = IF u = v THEN Root ELSE Nobody
  BY <1>0, <1>1, RootFacts DEF TypeOK, Alone
<1>4. cell' \in [Locations -> Cells] /\ \A c \in Locations : cell'[c].dirty = {} /\ v \notin cell'[c].old
  <2> DEFINE cs == released(cell, {w})
  <2>0. cell \in [Locations -> Cells]
    BY <1>1 DEF TypeOK
  <2>1. cs \in [Locations -> Cells] /\ \A c \in Locations : cs[c].dirty = cell[c].dirty \ {w}
    BY <2>0, ReleasedFacts
  <2>2. \A c \in Locations : cell[c].dirty \subseteq {w}
    BY <1>0, <1>1 DEF Alone, Sole
  <2>3. cell' = acquired(cs, v, Nobody)
    BY <1>0
  <2> HIDE DEF cs
  <2>. QED BY <2>1, <2>2, <2>3, AcquiredFacts
<1>5. Sole(cell', v)
  BY <1>4 DEF Sole, SeesNewest
<1>6. TypeOK' /\ Active' = {}
  BY <1>0, <1>1, <1>2, <1>3, <1>4, TypeAlone DEF TypeOK
<1>7. Alone'
  BY <1>0, <1>1, <1>3, <1>5, <1>6, RootFacts DEF Alone
<1>. QED BY <1>0, <1>1, <1>6, <1>7 DEF Inv

(* coll_exec                                                                  *)
LEMMA CollExecKeeps ==
    ASSUME Inv, NEW w \in Workers, NEW own \in Distributions, coll_exec(w, own)
    PROVE  Inv'
<1>0. /\ kind = "serial" /\ runs[w] = Root
      /\ stale' = (stale \/ MissesSomewhere(released(cell, {w}), own))
      /\ cell' = acquired(everywhere(own), w, Nobody)
      /\ UNCHANGED <<kind, runs, wsq, frames, dead>>
  BY DEF coll_exec, Serial
<1>1. Alone /\ TypeOK /\ ~stale
  BY <1>0 DEF Inv
<1>2. frames = NoFrames
  BY <1>1, NoFramesLeft DEF Alone
<1>3. own \in [Data(0, Items) -> Workers]
  BY DEF Distributions
<1>4. everywhere(own) \in [Locations -> Cells] /\ \A c \in Locations : everywhere(own)[c].dirty = {} /\ everywhere(own)[c].old = {}
  BY <1>3 DEF everywhere, Cells
<1>5. cell' \in [Locations -> Cells] /\ \A c \in Locations : cell'[c].dirty = {} /\ w \notin cell'[c].old
  BY <1>0, <1>4, AcquiredFacts
<1>6. Sole(cell', w)
  BY <1>5 DEF Sole, SeesNewest
<1>7. ~stale' /\ stale' \in BOOLEAN
  <2>1. \A c \in Data(0, Items) : c \in Locations
    BY DEF Locations
  <2>2. \A c \in Locations : released(cell, {w})[c].dirty = {}
    BY <1>0, <1>1, ReleasedFacts DEF TypeOK, Alone, Sole
  <2>3. ~MissesSomewhere(released(cell, {w}), own)
    BY <2>1, <2>2 DEF MissesSomewhere
  <2>. QED BY <1>0, <1>1, <2>3
<1>8. TypeOK' /\ Active' = {}
  BY <1>0, <1>1, <1>2, <1>5, <1>7, TypeAlone DEF TypeOK
<1>9. Alone'
  BY <1>0, <1>1, <1>6, <1>8 DEF Alone
<1>. QED BY <1>0, <1>7, <1>8, <1>9 DEF Inv

(* root_exec                                                                  *)
LEMMA RootExecKeeps ==
    ASSUME Inv, NEW w \in Workers, NEW v \in Workers, NEW own \in Distributions, root_exec(w, v, own)
    PROVE  Inv'
<1>0. /\ kind = "serial"
      /\ stale' = (stale \/ MissesSomewhere(released(cell, Workers), own))
      /\ cell' = NoCopies /\ runs' = [u \in Workers |-> IF u = v THEN Root ELSE Nobody]
      /\ UNCHANGED <<kind, wsq, frames, dead>>
  BY DEF root_exec, Serial
<1>1. Alone /\ TypeOK /\ ~stale
  BY <1>0 DEF Inv
<1>2. frames = NoFrames
  BY <1>1, NoFramesLeft DEF Alone
<1>3. cell' \in [Locations -> Cells] /\ \A c \in Locations : cell'[c].dirty = {} /\ cell'[c].old = {}
  BY <1>0 DEF NoCopies, Cells
<1>4. Sole(cell', v)
  BY <1>3 DEF Sole, SeesNewest
<1>5. ~stale' /\ stale' \in BOOLEAN
  <2>1. \A c \in Data(0, Items) : c \in Locations
    BY DEF Locations
  <2>2. \A c \in Locations : cell[c].dirty \subseteq Workers
    BY <1>1 DEF TypeOK, Cells
  <2>3. \A c \in Locations : released(cell, Workers)[c].dirty = {}
    BY <1>1, <2>2, ReleasedFacts DEF TypeOK
  <2>4. ~MissesSomewhere(released(cell, Workers), own)
    BY <2>1, <2>3 DEF MissesSomewhere
  <2>. QED BY <1>0, <1>1, <2>4
<1>6. runs' \in [Workers -> Nodes \cup {Nobody}] /\ \A u \in Workers : runs'[u] = IF u = v THEN Root ELSE Nobody
  BY <1>0, RootFacts
<1>7. TypeOK' /\ Active' = {}
  BY <1>0, <1>1, <1>2, <1>3, <1>5, <1>6, TypeAlone DEF TypeOK
<1>8. Alone'
  BY <1>0, <1>1, <1>4, <1>6, <1>7, RootFacts DEF Alone
<1>. QED BY <1>0, <1>5, <1>7, <1>8 DEF Inv

(* WriteBack, in a serial part                                                *)
LEMMA WriteBackAlone ==
    ASSUME TypeOK, Alone, ~stale, kind = "serial", NEW w \in Workers, WriteBack(w)
    PROVE  Inv'
<1>0. /\ cell' = released(cell, {w}) /\ frames' = honoured(frames, {w})
      /\ UNCHANGED <<kind, runs, wsq, dead, stale>>
  BY DEF WriteBack
<1>1. Like(frames', {w})
  BY <1>0, HonouredFacts
<1>2. Active' = {} /\ frames' \in [Active' -> Frames]
  BY <1>1 DEF Like, Active, Alone
<1>3. /\ cell' \in [Locations -> Cells]
      /\ \A c \in Locations : cell'[c].fresh = cell[c].fresh /\ cell'[c].old = cell[c].old /\ cell'[c].dirty = cell[c].dirty \ {w}
  BY <1>0, ReleasedFacts DEF TypeOK
<1>4. \A v \in Workers : Sole(cell, v) => Sole(cell', v)
  BY <1>3 DEF Sole, SeesNewest
<1>5. TypeOK'
  BY <1>0, <1>2, <1>3 DEF TypeOK
<1>6. Alone'
  BY <1>0, <1>2, <1>4 DEF Alone
<1>. QED BY <1>0, <1>5, <1>6 DEF Inv

--------------------------------------------------------------------------------
(* The cells of the serial parts.                                             *)
LEMMA SerialCells ==
    Data(0, Items) \subseteq Locations /\ Acc(0) \in Locations
BY RootFacts DEF Locations

(* The control and the accumulators at the start of a pass.                   *)
LEMMA BeginCtl ==
    ASSUME TypeOK, Alone, NEW w \in Workers, runs[w] = Root, UNCHANGED <<runs, wsq, dead>>,
           Active' = {Root}, frames'[Root].at = "call", ~frames'[Root].ser, frames'[Root].acc = 0
    PROVE  Ctl' /\ Accs' /\ OneHolder' /\ Busy(Root)' = {w}
<1>1. Resting' = {} /\ ~Sep(Root)' /\ LeftHalf(Root) \notin Active'
  BY RootFacts DEF Resting, Sep
<1>2. Shape'
  <2>1. Tree(Active', Resting')
    BY <1>1, RootFacts DEF Tree, Related
  <2>2. FrameOK(Root)'
    BY <1>1 DEF FrameOK
  <2>. QED BY <2>1, <2>2 DEF Shape
<1>3. \A v \in Workers : runs'[v] = IF v = w THEN Root ELSE Nobody
  BY RootFacts DEF Alone
<1>4. Running'
  BY <1>3, RootFacts DEF Running
<1>5. Queues' /\ Forks'
  <2>1. \A v \in Workers : Len(wsq'[v]) = 0
    BY DEF Alone
  <2>2. Queues'
    BY <2>1 DEF Queues
  <2>3. Forks'
    BY DEF Forks
  <2>. QED BY <2>2, <2>3
<1>6. Deaths'
  BY <1>1 DEF Deaths, Alone
<1>7. Accs'
  BY <1>1 DEF Accs, AccOK, Rooted
<1>8. OneHolder'
  BY DEF OneHolder
<1>9. Busy(Root)' = {w}
  BY <1>3, RootFacts DEF Busy
<1>. QED BY <1>2, <1>4, <1>5, <1>6, <1>7, <1>8, <1>9 DEF Ctl

(* Begin                                                                      *)
LEMMA BeginKeeps ==
    ASSUME Inv, NEW w \in Workers, NEW k \in {"loop", "invoke", "reduce"}, Begin(w, k)
    PROVE  Inv'
<1> DEFINE D == Data(0, Items)
           used == written(cell, w, D)
           C == IF k = "reduce" THEN {Acc(0)} ELSE {}
           rh == IF k = "invoke" THEN Nobody ELSE release_lazy(cell', w)
<1>0. /\ kind = "serial" /\ runs[w] = Root /\ kind' = k /\ UNCHANGED <<runs, wsq, dead>>
      /\ stale' = (stale \/ MissesNewest(cell, w, D) \/ Overtaken(used, w, C))
      /\ cell' = written(used, w, C)
      /\ frames' = WithFrame(NoFrames, Root, Frame(rh, 0, Root))
  BY DEF Begin, Serial
<1>1. Alone /\ TypeOK /\ ~stale /\ cell \in [Locations -> Cells] /\ Sole(cell, w)
  BY <1>0 DEF Inv, Alone, TypeOK
<1>2. D \cap Locations = D /\ C \cap Locations = C
  BY SerialCells
<1>3. rh \in Workers \cup {Nobody} /\ (k # "invoke" => rh = release_lazy(cell', w))
  BY LazyFacts
<1> HIDE DEF D, C, rh
<1>4. used \in [Locations -> Cells] /\ Sole(used, w) /\ ~MissesNewest(cell, w, D)
  BY <1>1, <1>2, SoleWritten
<1> HIDE DEF used
<1>5. cell' \in [Locations -> Cells] /\ Sole(cell', w) /\ ~Overtaken(used, w, C)
  BY <1>0, <1>2, <1>4, SoleWritten
<1>6. ~stale' /\ stale' \in BOOLEAN
  BY <1>0, <1>1, <1>4, <1>5
<1>7. /\ Active' = {Root} /\ frames' \in [Active' -> Frames]
      /\ frames'[Root].at = "call" /\ ~frames'[Root].ser /\ frames'[Root].acc = 0 /\ frames'[Root].rh = rh
  <2> DEFINE x == Frame(rh, 0, Root)
  <2>1. x \in Frames /\ x.at = "call" /\ ~x.ser /\ x.acc = 0 /\ x.rh = rh
    BY <1>3, RootFacts DEF Frame, Frames, Places
  <2> HIDE DEF x
  <2>2. frames' = [u \in {Root} |-> x]
    BY <1>0, RootFacts DEF WithFrame, x
  <2>. QED BY <2>1, <2>2 DEF Active
<1>8. Ctl' /\ Accs' /\ OneHolder' /\ Busy(Root)' = {w}
  BY <1>0, <1>1, <1>7, BeginCtl
<1>9. TypeOK'
  <2>1. kind' \in {"serial", "loop", "invoke", "reduce"}
    BY <1>0
  <2>2. runs' \in [Workers -> Nodes \cup {Nobody}] /\ wsq' \in [Workers -> Seq(Nodes)] /\ dead' \subseteq Nodes
    BY <1>0, <1>1 DEF TypeOK
  <2>. QED BY <1>5, <1>6, <1>7, <1>8, <2>1, <2>2, TypeNext
<1>10. ASSUME NEW c \in Locations PROVE Good(Root, c)'
  <2>1. cell'[c].dirty \subseteq {w} /\ SeesNewest(cell', w, c)
    BY <1>5 DEF Sole
  <2>2. Pinned(Root, c)' => cell'[c].dirty \subseteq {frames'[Root].rh}
    <3>1. SUFFICES ASSUME k # "invoke" PROVE cell'[c].dirty \subseteq {rh}
      BY <1>0, <1>7 DEF Pinned
    <3>2. cell'[c].dirty # {} => rh = w
      BY <1>3, <2>1, <3>1 DEF release_lazy, HasDirty
    <3>. QED BY <2>1, <3>2
  <2>. QED BY <1>8, <2>1, <2>2 DEF Good
<1>11. Memory'
  BY <1>7, <1>10 DEF Memory
<1>. QED BY <1>0, <1>6, <1>8, <1>9, <1>11 DEF Inv, Pass

(* At its end the root call owns everything.                                  *)
LEMMA RootOwns ==
    ASSUME TypeOK, Pass, NEW w \in Workers, runs[w] = Root, frames[Root].at = "return"
    PROVE  /\ Active = {Root} /\ Sole(cell, w) /\ dead = {} /\ \A v \in Workers : wsq[v] = <<>>
           /\ \A v \in Workers : runs[v] = IF v = w THEN Root ELSE Nobody
<1>0. Ctl /\ Accs /\ OneHolder /\ Memory /\ Shape
  BY DEF Pass, Ctl
<1>1. Root \in Active /\ LeftHalf(Root) \notin Active /\ frames[Root].at # "rest" /\ ~Sep(Root)
  BY <1>0 DEF Shape, FrameOK, Sep
<1>2. Busy(Root) = {w} /\ Whole(Root) /\ \A m \in Active : In(m, Root) => m = Root
  BY <1>0, <1>1, LoneBusy
<1>3. Active = {Root}
  BY <1>1, <1>2, RootFacts DEF TypeOK
<1>4. \A v \in Workers : runs[v] = IF v = w THEN Root ELSE Nobody
  BY <1>0, <1>3, RootFacts DEF Ctl, Running, TypeOK
<1>5. \A v \in Workers : wsq[v] = <<>>
  <2>1. SUFFICES ASSUME NEW v \in Workers, wsq[v] # <<>> PROVE FALSE
    OBVIOUS
  <2>2. wsq[v] \in Seq(Nodes)
    BY DEF TypeOK
  <2>3. 1 \in 1 .. Len(wsq[v])
    BY <2>1, <2>2
  <2>4. wsq[v][1] \in Active /\ frames[wsq[v][1]].at = "forked"
    BY <1>0, <2>3, QueuedBusy DEF Ctl
  <2>. QED BY <1>3, <2>4
<1>6. dead = {}
  BY <1>0, <1>1, <1>3 DEF Ctl, Deaths
<1>7. frames[Root].acc = 0
  BY <1>0, <1>1, <1>3 DEF Accs, AccOK, Rooted
<1>8. \A a : Live(a) => kind = "reduce" /\ a = 0
  BY <1>1, <1>3 DEF Live
<1>9. ASSUME NEW c \in Locations PROVE Owns(Root, c)
  <2>1. c[2] \in 0 .. (Items - 1)
    BY DEF Locations, Data, Acc
  <2>2. Covers(Root, c[2])
    BY <1>1, <2>1, WorkersAssumption DEF Covers, CoversIn, Root, Resting
  <2>3. Live(c[2]) => Holds(Root, c[2])
    BY <1>7, <1>8 DEF Holds
  <2>. QED BY <2>2, <2>3 DEF Owns
<1>10. \A c \in Locations : Good(Root, c)
  BY <1>0, <1>1, <1>9 DEF Memory
<1>11. Sole(cell, w)
  BY <1>2, <1>10 DEF Sole, Good
<1>. QED BY <1>3, <1>4, <1>5, <1>6, <1>11

(* Finish                                                                     *)
LEMMA FinishKeeps ==
    ASSUME TypeOK, Pass, ~stale, NEW w \in Workers, Finish(w)
    PROVE  Inv'
<1> DEFINE C == Data(0, Items) \cup (IF kind = "reduce" THEN {Acc(0)} ELSE {})
<1>0. /\ At(w, "return") /\ runs[w] = Root /\ kind' = "serial" /\ UNCHANGED <<runs, wsq, dead>>
      /\ stale' = (stale \/ MissesNewest(cell, w, C))
      /\ cell' = written(cell, w, C) /\ frames' = NoFrames
  BY DEF Finish
<1>1. /\ Sole(cell, w) /\ dead = {} /\ \A v \in Workers : wsq[v] = <<>>
      /\ \A v \in Workers : runs[v] = IF v = w THEN Root ELSE Nobody
  <2>1. frames[Root].at = "return"
    BY <1>0 DEF At
  <2>. QED BY <1>0, <2>1, RootOwns
<1>2. C \cap Locations = C /\ cell \in [Locations -> Cells]
  BY SerialCells DEF TypeOK
<1> HIDE DEF C
<1>3. cell' \in [Locations -> Cells] /\ Sole(cell', w) /\ ~MissesNewest(cell, w, C)
  BY <1>0, <1>1, <1>2, SoleWritten
<1>4. ~stale' /\ stale' \in BOOLEAN
  BY <1>0, <1>3
<1>5. TypeOK' /\ Active' = {}
  <2>1. runs' \in [Workers -> Nodes \cup {Nobody}]
    BY <1>0 DEF TypeOK
  <2>. QED BY <1>0, <1>3, <1>4, <2>1, TypeAlone
<1>6. Alone'
  BY <1>0, <1>1, <1>3, <1>5, RootFacts DEF Alone
<1>. QED BY <1>0, <1>4, <1>5, <1>6 DEF Inv

(* A step of a pass keeps the invariant.                                      *)
LEMMA KeptInv ==
    ASSUME Kept, kind' = kind, kind # "serial"
    PROVE  Inv'
BY DEF Kept, Inv

(* Every step keeps the invariant.                                            *)
LEMMA NextInv == Inv /\ [FjNext]_fjVars => Inv'
<1>1. SUFFICES ASSUME Inv, [FjNext]_fjVars PROVE Inv'
  OBVIOUS
<1>2. CASE UNCHANGED fjVars
  <2>1. Inv <=> Inv'
    BY <1>2 DEF fjVars, Inv, TypeOK, Alone, Pass, Ctl, Shape, Running, Queues, Forks, Deaths, Accs, OneHolder, Memory,
                Active, Resting, Sep, Whole, Busy, FrameOK, Follower, EntryOK, AccOK, Rooted, Covers, Live, Holds, Owns,
                Pinned, Good
  <2>. QED BY <1>1, <2>1
<1>3. CASE FjNext
  <2>1. PICK w \in Workers : Step(w)
    BY <1>3 DEF FjNext
  <2>2. TypeOK /\ ~stale /\ (kind # "serial" => Pass) /\ (kind = "serial" => Alone)
    BY <1>1 DEF Inv
  <2>3. CASE Leaf(w)
    BY <2>2, <2>3, LeafKeeps, KeptInv DEF Leaf, At
  <2>4. CASE ForkCall(w)
    BY <2>2, <2>4, ForkCallKeeps, KeptInv DEF ForkCall, At
  <2>5. CASE ReturnCall(w)
    BY <2>2, <2>5, ReturnCallKeeps, KeptInv DEF ReturnCall, At
  <2>6. CASE JoinSerialized(w)
    BY <2>2, <2>6, JoinSerializedKeeps, KeptInv DEF JoinSerialized, At
  <2>7. CASE JoinEnded(w)
    BY <2>2, <2>7, JoinEndedKeeps, KeptInv DEF JoinEnded, At
  <2>8. CASE JoinWait(w)
    BY <2>2, <2>8, JoinWaitKeeps, KeptInv DEF JoinWait, At
  <2>9. CASE DieSerialized(w)
    BY <2>2, <2>9, DieSerializedKeeps, KeptInv DEF DieSerialized, Dies, At
  <2>10. CASE DieApart(w)
    BY <2>2, <2>10, DieApartKeeps, KeptInv DEF DieApart, Dies, At
  <2>11. CASE DieResuming(w)
    BY <2>2, <2>11, DieResumingKeeps, KeptInv DEF DieResuming, Dies, At
  <2>12. CASE Finish(w)
    BY <2>2, <2>12, FinishKeeps DEF Finish, At
  <2>13. CASE WriteBack(w)
    <3>1. CASE kind = "serial"
      BY <2>2, <2>13, <3>1, WriteBackAlone
    <3>2. CASE kind # "serial"
      BY <2>2, <2>13, <3>2, WriteBackKeeps, KeptInv DEF WriteBack
    <3>. QED BY <3>1, <3>2
  <2>14. ASSUME NEW v \in Workers \ {w}, StealFrom(w, v) PROVE Inv'
    <3>1. wsq[v] # <<>> /\ kind' = kind /\ v # w
      BY <2>14 DEF StealFrom
    <3>2. kind # "serial"
      BY <2>2, <3>1 DEF Alone
    <3>. QED BY <2>2, <2>14, <3>1, <3>2, StealFromKeeps, KeptInv
  <2>15. ASSUME NEW v \in Workers \ {w}, migrate_to(w, v) PROVE Inv'
    BY <1>1, <2>15, MigrateKeeps
  <2>16. ASSUME NEW k \in {"loop", "invoke", "reduce"}, Begin(w, k) PROVE Inv'
    BY <1>1, <2>16, BeginKeeps
  <2>17. ASSUME NEW own \in Distributions, coll_exec(w, own) PROVE Inv'
    BY <1>1, <2>17, CollExecKeeps
  <2>18. ASSUME NEW own \in Distributions, NEW v \in Workers, root_exec(w, v, own) PROVE Inv'
    BY <1>1, <2>18, RootExecKeeps
  <2>. QED BY <2>1, <2>3, <2>4, <2>5, <2>6, <2>7, <2>8, <2>9, <2>10, <2>11, <2>12, <2>13,
              <2>14, <2>15, <2>16, <2>17, <2>18 DEF Step
<1>. QED BY <1>1, <1>2, <1>3

--------------------------------------------------------------------------------
(* The theorems.                                                              *)

(* The invariant holds.                                                       *)
LEMMA InvHolds == FjSpec => []Inv
BY InitInv, NextInv, PTL DEF FjSpec

(* Whatever the patterns do, on any number of workers and elements: the calls *)
(* and the queues hold ranges, the frames name a caller, a handler that is a  *)
(* worker or nobody, and an accumulator that exists, and only workers have    *)
(* copies of the cells.                                                       *)
THEOREM ForkJoinTypes == FjSpec => []TypeOK
<1>1. Inv => TypeOK
  BY DEF Inv
<1>. QED BY <1>1, InvHolds, PTL

(* Every access of parallel_loop_generic(), parallel_invoke(),                *)
(* parallel_reduce_generic(), coll_exec() and root_exec() sees the newest     *)
(* write, and no write is undone, for any number of workers and elements and  *)
(* any order of steals: the fences at a steal, at the end of a separated      *)
(* thread and at its join are enough, and those the patterns leave out on the *)
(* serialized path are not needed.                                            *)
THEOREM ForkJoinReads == FjSpec => []ReadsLatest
<1>1. Inv => ReadsLatest
  BY DEF Inv, ReadsLatest
<1>. QED BY <1>1, InvHolds, PTL

(* When a pass has ended, nothing of it is left: no call, no continuation in  *)
(* a queue, no thread that nobody joined, and one worker at most is not idle. *)
NothingLeft ==
    kind = "serial" =>
        /\ Active = {} /\ dead = {} /\ \A v \in Workers : wsq[v] = <<>>
        /\ \A u, v \in Workers : runs[u] # Nobody /\ runs[v] # Nobody => u = v

(* NothingLeft holds: every fork of a pass is joined before the pass returns. *)
THEOREM ForkJoinNothingLeft == FjSpec => []NothingLeft
<1>1. Inv => NothingLeft
  BY DEF Inv, Alone, NothingLeft
<1>. QED BY <1>1, InvHolds, PTL

(* The continuation that a thread finds as the newest in its worker's queue   *)
(* when it ends is that of its own parent.                                    *)
PopsParent == \A w \in Workers : Dies(w) /\ wsq[w] # <<>> => Last(wsq[w]) = frames[runs[w]].up

(* PopsParent holds: what on_die pops is what the thread's fork pushed,       *)
(* however many continuations were stolen from the queue in between.          *)
THEOREM ForkJoinPopsParent == FjSpec => []PopsParent
<1>1. ASSUME Inv PROVE PopsParent
  <2>1. SUFFICES ASSUME NEW w \in Workers, Dies(w), wsq[w] # <<>>
                 PROVE  Last(wsq[w]) = frames[runs[w]].up
    BY DEF PopsParent
  <2>2. At(w, "return") /\ IsThread(runs[w])
    BY <2>1 DEF Dies
  <2>3. TypeOK /\ Ctl
    BY <1>1, <2>2 DEF Inv, Pass, At
  <2>4. runs[w] \in Active
    BY <2>2, <2>3, AtFacts
  <2>. QED BY <2>1, <2>2, <2>3, <2>4, NewestIsParent DEF IsThread, Ctl
<1>2. Inv => PopsParent
  BY <1>1
<1>. QED BY <1>2, InvHolds, PTL

(* In a pass a cell has one owner at most, among the calls under way, and     *)
(* what is not written back is at workers that execute calls inside the       *)
(* owner.                                                                     *)
Exclusive ==
    kind # "serial" =>
        \A c \in Locations : \A n \in Active : Owns(n, c) =>
            cell[c].dirty \subseteq Busy(n) /\ \A m \in Active : Owns(m, c) => m = n

(* Exclusive holds: calls that run at the same time never use the same cell,  *)
(* although no lock protects it.                                              *)
THEOREM ForkJoinExclusive == FjSpec => []Exclusive
<1>1. ASSUME Inv PROVE Exclusive
  <2>1. SUFFICES ASSUME kind # "serial", NEW c \in Locations, NEW n \in Active, Owns(n, c)
                 PROVE  cell[c].dirty \subseteq Busy(n) /\ \A m \in Active : Owns(m, c) => m = n
    BY DEF Exclusive
  <2>2. TypeOK /\ Shape /\ OneHolder /\ Memory
    BY <1>1, <2>1 DEF Inv, Pass, Ctl
  <2>3. cell[c].dirty \subseteq Busy(n)
    BY <2>1, <2>2 DEF Memory, Good
  <2>. QED BY <2>1, <2>2, <2>3, OneOwner
<1>2. Inv => Exclusive
  BY <1>1
<1>. QED BY <1>2, InvHolds, PTL

================================================================================
