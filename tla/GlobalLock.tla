------------------------------- MODULE GlobalLock -------------------------------
(***************************************************************************)
(* ityr::common::global_lock: a distributed lock made of one integer word  *)
(* in an MPI window.  Every action below is one atomic MPI operation on    *)
(* the word (compare-and-swap, fetch-and-add, get), so that the model      *)
(* interleaves the ranks exactly where the network does.                   *)
(*                                                                         *)
(* One lock word is modelled: the words of different target ranks and      *)
(* different indices share nothing.                                        *)
(***************************************************************************)
EXTENDS Integers, FiniteSets

CONSTANTS Ranks, NoRank

ASSUME RanksAssumption == NoRank \notin Ranks

VARIABLES word,  \* the lock word lock_win_ holds for (target_rank, idx)
          pc     \* where each rank is in its call

vars == <<word, pc>>

(***************************************************************************)
(* "idle"  not using the lock                                              *)
(* "spin"  in the loop of lock()                                           *)
(* "prio"  in the loop of priolock(), its fetch-and-add done               *)
(* "held"  between a successful call and unlock()                          *)
(***************************************************************************)
Locations == {"idle", "spin", "prio", "held"}

TypeOK ==
    /\ word \in Nat
    /\ pc \in [Ranks -> Locations]

Init ==
    /\ word = 0
    /\ pc = [r \in Ranks |-> "idle"]

(* Mutant: the compare-and-swap is a plain store.                          *)
CasOk_Store(r) ==
    /\ word' = 1
    /\ pc' = [pc EXCEPT ![r] = "held"]

(* trylock(): compare-and-swap 0 -> 1; it fails without any effect.        *)
CasOk(r) ==
    /\ word = 0
    /\ word' = 1
    /\ pc' = [pc EXCEPT ![r] = "held"]

trylock(r) ==
    /\ pc[r] = "idle"
    /\ CasOk(r)

(* lock(): trylock() until it succeeds.                                    *)
lockCall(r) ==
    /\ pc[r] = "idle"
    /\ pc' = [pc EXCEPT ![r] = "spin"]
    /\ UNCHANGED word

lockSpin(r) ==
    /\ pc[r] = "spin"
    /\ CasOk(r)

(* priolock(): fetch-and-add of 1.  "Only one process can call this        *)
(* priority lock at the same time" is its precondition.                    *)
priolock(r) ==
    /\ pc[r] = "idle"
    /\ \A q \in Ranks : pc[q] # "prio"
    /\ word' = word + 1
    /\ pc' = [pc EXCEPT ![r] = IF word = 0 THEN "held" ELSE "prio"]

(* Mutant: the loop ends on any value.                                     *)
priolockSpin_AnyValue(r) ==
    /\ pc[r] = "prio"
    /\ pc' = [pc EXCEPT ![r] = "held"]
    /\ UNCHANGED word

(* The loop of priolock() ends when it reads 1 from the word.              *)
priolockSpin(r) ==
    /\ pc[r] = "prio"
    /\ word = 1
    /\ pc' = [pc EXCEPT ![r] = "held"]
    /\ UNCHANGED word

(* Mutant: unlock() stores 0 and wipes out the priority request.           *)
unlock_StoresZero(r) ==
    /\ pc[r] = "held"
    /\ word' = 0
    /\ pc' = [pc EXCEPT ![r] = "idle"]

unlock(r) ==
    /\ pc[r] = "held"
    /\ word' = word - 1
    /\ pc' = [pc EXCEPT ![r] = "idle"]

Next ==
    \E r \in Ranks : \/ trylock(r) \/ lockCall(r) \/ lockSpin(r)
                     \/ priolock(r) \/ priolockSpin(r) \/ unlock(r)

(***************************************************************************)
(* A rank inside a call keeps issuing its next MPI operation, and a holder *)
(* eventually unlocks; nothing makes an idle rank call the lock.           *)
(***************************************************************************)
Fairness ==
    \A r \in Ranks : WF_vars(lockSpin(r)) /\ WF_vars(priolockSpin(r)) /\ WF_vars(unlock(r))

Spec == Init /\ [][Next]_vars

FairSpec == Spec /\ Fairness

--------------------------------------------------------------------------------
Holders == {r \in Ranks : pc[r] = "held"}
Waiters == {r \in Ranks : pc[r] = "prio"}

(* The critical section of the lock word is never entered by two ranks,    *)
(* whichever mix of lock(), trylock() and priolock() they use.             *)
MutualExclusion ==
    \A p, q \in Ranks : pc[p] = "held" /\ pc[q] = "held" => p = q

(* The assertions of trylock(): the compare-and-swap finds 0, 1 or 2,      *)
(* although priolock() adds to the word without looking at it and          *)
(* unlock() subtracts from it.                                             *)
WordInRange == word \in 0..2

(* The word counts the ranks that are in or promised the lock.  This is    *)
(* what makes "the word is 1" mean "the previous holder has left" in the   *)
(* loop of priolock().                                                     *)
WordCounts ==
    word = Cardinality(Holders) + Cardinality(Waiters)

(* priolock() has priority: from its fetch-and-add on, no other rank       *)
(* enters before the caller does.                                          *)
NoOvertaking ==
    [][\A p, q \in Ranks :
          pc[p] = "prio" /\ q # p /\ pc[q] # "held" => pc'[q] # "held"]_vars

(* A priority caller gets the lock, however often others try: the one      *)
(* holder it may wait for leaves, and nobody else can slip in.             *)
PriolockReturns ==
    \A r \in Ranks : pc[r] = "prio" ~> pc[r] = "held"

(* The lock word implements the priority mutex its users rely on.          *)
TheHolder == IF Holders = {} THEN NoRank ELSE CHOOSE r \in Ranks : pc[r] = "held"
TheWaiter == IF Waiters = {} THEN NoRank ELSE CHOOSE r \in Ranks : pc[r] = "prio"

Mutex == INSTANCE PrioMutex WITH holder <- TheHolder, waiter <- TheWaiter

ImplementsPrioMutex == Mutex!MutexSpec

================================================================================
