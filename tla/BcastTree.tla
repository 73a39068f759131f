-------------------------------- MODULE BcastTree --------------------------------
(***************************************************************************)
(* The binary tree along which the scheduler hands exit requests and       *)
(* collective tasks from rank to rank.  Every rank computes by itself, in  *)
(* a loop over halving strides, to which ranks it has to pass a message    *)
(* on; nobody else tells it.  As the strides halve, so do the distances:   *)
(* the loop meets its targets from the highest to the lowest.              *)
(***************************************************************************)
EXTENDS Integers

(* is_pow2(), for p > 0: no odd number but 1 divides p.                    *)
IsPow2(p) == p > 0 /\ \A d \in 2..p : p % d = 0 => d % 2 = 0

(* next_pow2(): the smallest power of two that is not below n, for n > 0.  *)
next_pow2(n) == CHOOSE p \in n..(2 * n) : IsPow2(p) /\ \A q \in n..(p - 1) : ~IsPow2(q)

(* The values of the loop variable.                                        *)
Strides(n) == {i \in 2..next_pow2(n) : IsPow2(i)}

(* Mutant: the rank at the end of the range is left out.                   *)
BcastTargets_OffByOne(rank, n) ==
    {rank + i \div 2 : i \in {j \in Strides(n) : rank % j = 0 /\ rank + j \div 2 < n - 1}}

(* The ranks that rank passes the message on to.  Ranks are counted from   *)
(* the one the message starts at.                                          *)
BcastTargets(rank, n) ==
    {rank + i \div 2 : i \in {j \in Strides(n) : rank % j = 0 /\ rank + j \div 2 < n}}

================================================================================
