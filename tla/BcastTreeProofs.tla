----------------------------- MODULE BcastTreeProofs -----------------------------
(***************************************************************************)
(* The tree of BcastTree is a tree, for every number of ranks: a rank is   *)
(* the target of at most one rank, every rank but 0 is the target of one,  *)
(* which is below it, and rank 0 is the target of none.                    *)
(*                                                                         *)
(* A target q = a + h of rank a, where the stride 2h divides a, is an odd  *)
(* multiple of h.  Of two powers of two the smaller, doubled, divides the  *)
(* larger; so q cannot be an odd multiple of two different ones.           *)
(***************************************************************************)
EXTENDS BcastTree, WellFoundedInduction, TLAPS

(* A nonempty set of natural numbers has a least element.                  *)
LEMMA SmallestElement ==
    ASSUME NEW S \in SUBSET Nat, S # {}
    PROVE  \E x \in S : \A y \in S : x <= y
<1> DEFINE R == OpToRel(<, Nat)
<1>1. IsWellFoundedOn(R, Nat)
  BY NatLessThanWellFounded, Zenon
<1>2. \A x, y \in Nat : x < y => <<x, y>> \in R
  BY DEF OpToRel
<1> HIDE DEF R
<1>3. PICK x \in S : \A y \in S : <<y, x>> \notin R
  BY <1>1, WFMin
<1>4. \A y \in S : ~(y < x)
  BY <1>2, <1>3
<1>5. \A y \in S : x <= y
  BY <1>4
<1>6. QED
  BY <1>5

--------------------------------------------------------------------------------
(* Divisibility, as the code tests it with %.                              *)
LEMMA DivisorQuotient ==
    ASSUME NEW a \in Nat, NEW i \in Nat \ {0}, a % i = 0
    PROVE  a = i * (a \div i) /\ a \div i \in Nat
OBVIOUS

(* i divides its multiples.                                                *)
LEMMA DividesMultiple ==
    ASSUME NEW k \in Nat, NEW i \in Nat \ {0}
    PROVE  (i * k) % i = 0
OBVIOUS

(* Divisibility is transitive.                                             *)
LEMMA DividesTransitive ==
    ASSUME NEW a \in Nat \ {0}, NEW b \in Nat \ {0}, NEW c \in Nat,
           b % a = 0, c % b = 0
    PROVE  c % a = 0
<1> DEFINE x == b \div a
           y == c \div b
<1>1. x \in Nat /\ y \in Nat /\ b = a * x /\ c = b * y
  BY DivisorQuotient
<1> HIDE DEF x, y
<1>2. c = a * (x * y) /\ x * y \in Nat
  BY <1>1
<1>3. QED
  BY <1>2, DividesMultiple

(* A divisor of a positive number is not larger than it.                   *)
LEMMA DivisorNotLarger ==
    ASSUME NEW a \in Nat \ {0}, NEW b \in Nat \ {0}, b % a = 0
    PROVE  a <= b
<1> DEFINE x == b \div a
<1>1. x \in Nat /\ b = a * x
  BY DivisorQuotient
<1> HIDE DEF x
<1>2. x >= 1
  BY <1>1
<1>3. QED
  BY <1>1, <1>2

--------------------------------------------------------------------------------
Pow2 == {p \in Nat : IsPow2(p)}

(* Half of a power of two that is not 1 is a power of two.                 *)
LEMMA Pow2Half ==
    ASSUME NEW p \in Pow2, p # 1
    PROVE  p \div 2 \in Pow2 /\ p \div 2 \in Nat \ {0} /\ p = 2 * (p \div 2)
<1>1. p \in Nat /\ p > 1
  BY DEF Pow2, IsPow2
<1>2. p % p = 0
  BY <1>1, DividesMultiple
<1>3. p % 2 = 0
  BY <1>1, <1>2 DEF Pow2, IsPow2
<1> DEFINE g == p \div 2
<1>4. g \in Nat \ {0} /\ p = 2 * g
  BY <1>1, <1>3
<1> HIDE DEF g
<1>5. p % g = 0
  <2>1. p = g * 2
    BY <1>4
  <2>2. QED
    BY <1>4, <2>1, DividesMultiple
<1>6. ASSUME NEW d \in 2..g, g % d = 0
      PROVE  d % 2 = 0
  <2>1. d \in Nat \ {0}
    BY <1>4
  <2>2. p % d = 0
    BY <1>1, <1>4, <1>5, <1>6, <2>1, DividesTransitive
  <2>3. QED
    BY <2>2, <1>4, <1>1 DEF Pow2, IsPow2
<1>7. g \in Pow2
  BY <1>4, <1>6 DEF Pow2, IsPow2
<1>8. QED
  BY <1>4, <1>7 DEF g

(* Of two powers of two the smaller, doubled, divides the larger: the      *)
(* least counterexample p could be halved.                                 *)
LEMMA Pow2Divides == \A p, h \in Pow2 : h < p => p % (2 * h) = 0
<1> DEFINE Bad == {p \in Pow2 : \E h \in Pow2 : h < p /\ p % (2 * h) # 0}
<1> SUFFICES ASSUME Bad # {} PROVE FALSE
  OBVIOUS
<1>1. Pow2 \subseteq Nat \ {0}
  BY DEF Pow2, IsPow2
<1>2. Bad \in SUBSET Nat
  BY <1>1
<1>3. PICK p \in Bad : \A y \in Bad : p <= y
  BY <1>2, SmallestElement
<1>4. PICK h \in Pow2 : h < p /\ p % (2 * h) # 0
  BY <1>3
<1>5. p \in Pow2 /\ p # 1
  BY <1>1, <1>3, <1>4
<1> DEFINE g == p \div 2
<1>6. g \in Pow2 /\ p = 2 * g /\ g \in Nat \ {0} /\ p \in Nat /\ h \in Nat \ {0}
  BY <1>1, <1>4, <1>5, Pow2Half
<1> HIDE DEF g
<1>7. g < p /\ g \notin Bad /\ h \notin Bad
  BY <1>3, <1>4, <1>6
<1>8. CASE h = g
  <2>1. p = (2 * h) * 1
    BY <1>6, <1>8
  <2>2. QED
    BY <2>1, <1>4, <1>6, DividesMultiple
<1>9. CASE h < g
  <2>1. g % (2 * h) = 0
    BY <1>7, <1>9, <1>4, <1>6
  <2>2. p = g * 2
    BY <1>6
  <2>3. p % g = 0
    BY <1>6, <2>2, DividesMultiple
  <2>4. 2 * h \in Nat \ {0}
    BY <1>6
  <2>5. QED
    BY <2>1, <2>3, <2>4, <1>4, <1>6, DividesTransitive
<1>10. CASE g < h
  <2>1. h % p = 0
    BY <1>7, <1>10, <1>4, <1>6
  <2>2. p <= h
    BY <2>1, <1>6, DivisorNotLarger
  <2>3. QED
    BY <2>2, <1>4, <1>6
<1>11. QED
  BY <1>8, <1>9, <1>10, <1>6

(* Ranks a and b whose distances h < g from q are powers of two and whose  *)
(* strides divide them do not exist: q would be an odd and an even         *)
(* multiple of h.                                                          *)
LEMMA DistancesAgree ==
    ASSUME NEW a \in Nat, NEW b \in Nat, NEW h \in Pow2, NEW g \in Pow2,
           a % (2 * h) = 0, b % (2 * g) = 0, a + h = b + g, h < g
    PROVE  FALSE
<1>1. h \in Nat \ {0} /\ g \in Nat \ {0}
  BY DEF Pow2, IsPow2
<1>2. 2 * h \in Nat \ {0} /\ 2 * g \in Nat \ {0}
  BY <1>1
<1>3. g % (2 * h) = 0
  BY Pow2Divides
<1> DEFINE x == a \div (2 * h)
           y == b \div (2 * g)
           z == g \div (2 * h)
<1>4. x \in Nat /\ y \in Nat /\ z \in Nat
        /\ a = (2 * h) * x /\ b = (2 * g) * y /\ g = (2 * h) * z
  BY <1>1, <1>2, <1>3, DivisorQuotient
<1> HIDE DEF x, y, z
<1>5. b = (2 * h) * ((2 * z) * y)
  BY <1>1, <1>4
<1> DEFINE w == (2 * z) * y + z
<1>6. w \in Nat /\ b + g = (2 * h) * w
  BY <1>1, <1>4, <1>5
<1> HIDE DEF w
<1>7. h * (2 * x + 1) = h * (2 * w)
  BY <1>1, <1>4, <1>6
<1>8. 2 * x + 1 = 2 * w
  BY <1>1, <1>4, <1>6, <1>7
<1>9. QED
  BY <1>4, <1>6, <1>8

--------------------------------------------------------------------------------
(* What a target is: the rank at a distance that is a power of two.        *)
LEMMA TargetDistance ==
    ASSUME NEW n \in Nat, NEW a \in Nat, NEW q \in BcastTargets(a, n)
    PROVE  q < n /\ \E h \in Pow2 : q = a + h /\ a % (2 * h) = 0
<1>1. PICK i \in Strides(n) : q = a + i \div 2 /\ a % i = 0 /\ a + i \div 2 < n
  BY DEF BcastTargets
<1>2. i \in Pow2 /\ i # 1
  BY <1>1 DEF Strides, Pow2, IsPow2
<1>3. i \div 2 \in Pow2 /\ i = 2 * (i \div 2)
  BY <1>2, Pow2Half
<1>4. QED
  BY <1>1, <1>3

(* Messages go up: no rank sends to itself, and nobody sends to rank 0.    *)
LEMMA TargetAbove ==
    ASSUME NEW n \in Nat, NEW a \in Nat, NEW q \in BcastTargets(a, n)
    PROVE  q \in Nat /\ a < q /\ q < n
<1>1. PICK h \in Pow2 : q = a + h
  BY TargetDistance
<1>2. h \in Nat \ {0}
  BY DEF Pow2, IsPow2
<1>3. QED
  BY <1>1, <1>2, TargetDistance

(* Every rank is the target of at most one rank, for every number of       *)
(* ranks: nobody is told twice along the loops of execute_coll_task() and  *)
(* should_exit_sched_loop().                                               *)
THEOREM OneParent ==
    ASSUME NEW n \in Nat, NEW a \in Nat, NEW b \in Nat,
           NEW q \in BcastTargets(a, n), q \in BcastTargets(b, n)
    PROVE  a = b
<1>1. PICK h \in Pow2 : q = a + h /\ a % (2 * h) = 0
  BY TargetDistance
<1>2. PICK g \in Pow2 : q = b + g /\ b % (2 * g) = 0
  BY TargetDistance
<1>3. h \in Nat /\ g \in Nat
  BY DEF Pow2
<1>4. ~(h < g) /\ ~(g < h)
  BY <1>1, <1>2, DistancesAgree
<1>5. QED
  BY <1>1, <1>2, <1>3, <1>4

--------------------------------------------------------------------------------
(* A nonempty set of numbers below n has a greatest element.               *)
LEMMA GreatestElement ==
    ASSUME NEW n \in Nat, NEW S \in SUBSET (0..n), S # {}
    PROVE  \E x \in S : \A y \in S : y <= x
<1> DEFINE T == {m \in 0..n : n - m \in S}
<1>1. PICK z \in S : TRUE
  OBVIOUS
<1>2. n - z \in T
  BY <1>1
<1>3. T \in SUBSET Nat
  OBVIOUS
<1>4. T # {}
  <2> HIDE DEF T
  <2>1. QED
    BY <1>2
<1>5. PICK m \in T : \A y \in T : m <= y
  <2> HIDE DEF T
  <2>1. QED
    BY <1>3, <1>4, SmallestElement
<1>6. ASSUME NEW y \in S
      PROVE  y <= n - m
  <2>1. y \in 0..n /\ n - (n - y) = y /\ n - y \in 0..n
    OBVIOUS
  <2>2. n - y \in T
    BY <2>1
  <2>3. m <= n - y /\ m \in 0..n
    BY <1>5, <2>2
  <2>4. QED
    BY <2>1, <2>3
<1>7. QED
  BY <1>5, <1>6

(* A number is even or odd.                                                *)
LEMMA Parity ==
    ASSUME NEW k \in Nat
    PROVE  \E j \in Nat : k = 2 * j \/ k = 2 * j + 1
<1>1. CASE k % 2 = 0
  <2>1. k = 2 * (k \div 2) /\ k \div 2 \in Nat
    BY <1>1
  <2>2. QED
    BY <2>1
<1>2. CASE k % 2 = 1
  <2>1. k = 2 * (k \div 2) + 1 /\ k \div 2 \in Nat
    BY <1>2
  <2>2. QED
    BY <2>1
<1>3. QED
  BY <1>1, <1>2

(* An odd d that divides 2h divides h.                                     *)
LEMMA OddDivisor ==
    ASSUME NEW h \in Nat \ {0}, NEW d \in Nat \ {0}, (2 * h) % d = 0, d % 2 # 0
    PROVE  h % d = 0
<1> DEFINE k == (2 * h) \div d
<1>1. k \in Nat /\ 2 * h = d * k
  BY DivisorQuotient
<1> HIDE DEF k
<1>2. PICK j \in Nat : k = 2 * j \/ k = 2 * j + 1
  BY <1>1, Parity
<1>3. PICK e \in Nat : d = 2 * e \/ d = 2 * e + 1
  BY Parity
<1>4. d = 2 * e + 1
  BY <1>3
<1>5. CASE k = 2 * j
  <2>1. 2 * h = 2 * (d * j)
    BY <1>1, <1>5
  <2>2. h = d * j
    BY <2>1
  <2>3. QED
    BY <2>2, DividesMultiple
<1>6. CASE k = 2 * j + 1
  <2>1. 2 * h = 2 * (e * (2 * j + 1) + j) + 1
    BY <1>1, <1>4, <1>6
  <2> DEFINE w == e * (2 * j + 1) + j
  <2>2. w \in Nat /\ 2 * h = 2 * w + 1
    BY <2>1
  <2> HIDE DEF w
  <2>3. QED
    BY <2>2
<1>7. QED
  BY <1>2, <1>5, <1>6

(* Twice a power of two is a power of two.                                 *)
LEMMA Pow2Double ==
    ASSUME NEW h \in Pow2
    PROVE  2 * h \in Pow2
<1>1. h \in Nat \ {0}
  BY DEF Pow2, IsPow2
<1>2. ASSUME NEW d \in 2..(2 * h), (2 * h) % d = 0, d % 2 # 0
      PROVE  FALSE
  <2>1. d \in Nat \ {0}
    BY <1>1
  <2>2. h % d = 0
    BY <1>1, <1>2, <2>1, OddDivisor
  <2>3. d <= h
    BY <1>1, <2>1, <2>2, DivisorNotLarger
  <2>4. QED
    BY <1>1, <1>2, <2>2, <2>3 DEF Pow2, IsPow2
<1>3. QED
  BY <1>1, <1>2 DEF Pow2, IsPow2

(* 1 is a power of two.                                                    *)
LEMMA OneIsPow2 == 1 \in Pow2
BY DEF Pow2, IsPow2

(* next_pow2(n) is a power of two and not below n.                         *)
LEMMA NextPow2 ==
    ASSUME NEW n \in Nat \ {0}
    PROVE  next_pow2(n) \in Pow2 /\ n <= next_pow2(n)
<1> DEFINE S == {p \in n..(2 * n) : IsPow2(p)}
<1>1. S # {}
  <2>1. CASE n = 1
    BY <2>1, OneIsPow2 DEF Pow2
  <2>2. CASE n > 1
    <3> DEFINE B == {p \in 0..(n - 1) : IsPow2(p)}
    <3>1. B \in SUBSET (0..(n - 1)) /\ n - 1 \in Nat /\ 1 \in B
      BY <2>2, OneIsPow2 DEF Pow2
    <3>2. PICK p \in B : \A y \in B : y <= p
      BY <3>1, GreatestElement
    <3>3. p \in Pow2 /\ p \in Nat \ {0} /\ p < n
      BY <3>2 DEF Pow2, IsPow2
    <3>4. 2 * p \in Pow2
      BY <3>3, Pow2Double
    <3>5. 2 * p \notin B
      BY <3>2, <3>3
    <3>6. 2 * p \in n..(2 * n)
      BY <3>3, <3>4, <3>5 DEF Pow2
    <3>7. QED
      BY <3>4, <3>6 DEF Pow2
  <2>3. QED
    BY <2>1, <2>2
<1>2. S \in SUBSET Nat
  OBVIOUS
<1>3. PICK p \in S : \A y \in S : p <= y
  BY <1>1, <1>2, SmallestElement
<1>4. p \in n..(2 * n) /\ IsPow2(p) /\ \A q \in n..(p - 1) : ~IsPow2(q)
  BY <1>3
<1>5. /\ next_pow2(n) \in n..(2 * n) /\ IsPow2(next_pow2(n))
  BY <1>4 DEF next_pow2
<1>6. QED
  BY <1>5 DEF Pow2

(* Every rank but 0 is told by a rank below it, so that, going from rank   *)
(* to parent, one comes to rank 0: the loops leave nobody out.             *)
THEOREM EveryoneTold ==
    ASSUME NEW n \in Nat \ {0}, NEW q \in 1..(n - 1)
    PROVE  \E a \in 0..(q - 1) : q \in BcastTargets(a, n)
<1> DEFINE D == {h \in 0..q : h \in Pow2 /\ q % h = 0}
<1>1. q \in Nat \ {0} /\ q < n
  OBVIOUS
<1>2. 1 \in D
  <2>1. q = 1 * q
    BY <1>1
  <2>2. q % 1 = 0
    BY <1>1, <2>1, DividesMultiple
  <2>3. QED
    BY <1>1, <2>2, OneIsPow2
<1>3. PICK h \in D : \A y \in D : y <= h
  BY <1>1, <1>2, GreatestElement
<1>4. h \in Pow2 /\ h \in Nat \ {0} /\ h <= q /\ q % h = 0
  BY <1>3 DEF Pow2, IsPow2
<1> DEFINE k == q \div h
<1>5. k \in Nat /\ q = h * k
  BY <1>1, <1>4, DivisorQuotient
<1> HIDE DEF k
<1>6. PICK j \in Nat : k = 2 * j \/ k = 2 * j + 1
  BY <1>5, Parity
<1>7. k # 2 * j
  <2> SUFFICES ASSUME k = 2 * j PROVE FALSE
    OBVIOUS
  <2>1. q = (2 * h) * j /\ 2 * h \in Nat \ {0}
    BY <1>4, <1>5
  <2>2. q % (2 * h) = 0
    BY <2>1, DividesMultiple
  <2>3. 2 * h <= q
    BY <1>1, <2>1, <2>2, DivisorNotLarger
  <2>4. 2 * h \in D
    BY <1>1, <1>4, <2>1, <2>2, <2>3, Pow2Double
  <2>5. QED
    BY <1>3, <1>4, <2>4
<1> DEFINE a == q - h
           i == 2 * h
<1>8. a \in 0..(q - 1) /\ i \in Nat \ {0}
  BY <1>1, <1>4
<1>9. a = i * j
  BY <1>4, <1>5, <1>6, <1>7
<1>10. a % i = 0
  BY <1>8, <1>9, DividesMultiple
<1>11. i \div 2 = h
  BY <1>4
<1>12. i \in Strides(n)
  <2>1. i \in Pow2
    BY <1>4, Pow2Double
  <2>2. next_pow2(n) \in Pow2 /\ n <= next_pow2(n) /\ next_pow2(n) \in Nat \ {0}
    BY NextPow2 DEF Pow2, IsPow2
  <2>3. h < next_pow2(n)
    BY <1>1, <1>4, <2>2
  <2>4. next_pow2(n) % i = 0
    BY <1>4, <2>2, <2>3, Pow2Divides
  <2>5. i <= next_pow2(n)
    BY <1>8, <2>2, <2>4, DivisorNotLarger
  <2>6. QED
    BY <1>4, <2>1, <2>2, <2>5 DEF Strides, Pow2
<1>13. q = a + i \div 2 /\ a + i \div 2 < n
  BY <1>1, <1>4, <1>11
<1> HIDE DEF a, i
<1>14. q \in BcastTargets(a, n)
  BY <1>10, <1>12, <1>13 DEF BcastTargets
<1>15. QED
  BY <1>8, <1>14

================================================================================
