---------------------------- MODULE GlobalLockProofs ----------------------------
(***************************************************************************)
(* The lock word is a priority mutex for any number of ranks.              *)
(***************************************************************************)
EXTENDS GlobalLock, FiniteSetTheorems, TLAPS

SomeHeld == \E r \in Ranks : pc[r] = "held"
SomePrio == \E r \in Ranks : pc[r] = "prio"

(* One rank at most holds the lock, one at most waits with priority, and   *)
(* the word adds the two up.                                               *)
LockInv ==
    /\ TypeOK
    /\ MutualExclusion
    /\ \A p, q \in Ranks : pc[p] = "prio" /\ pc[q] = "prio" => p = q
    /\ word = (IF SomeHeld THEN 1 ELSE 0) + (IF SomePrio THEN 1 ELSE 0)

(* The invariant holds initially.                                          *)
LEMMA InitLockInv == Init => LockInv
BY DEF Init, LockInv, TypeOK, MutualExclusion, SomeHeld, SomePrio, Locations

(* Every operation on the word preserves it.                               *)
LEMMA NextLockInv == LockInv /\ [Next]_vars => LockInv'
<1> SUFFICES ASSUME LockInv, [Next]_vars PROVE LockInv'
  OBVIOUS
<1> USE DEF LockInv, TypeOK, Locations, MutualExclusion, SomeHeld, SomePrio
<1>1. ASSUME NEW r \in Ranks, trylock(r) PROVE LockInv'
  BY <1>1 DEF trylock, CasOk
<1>2. ASSUME NEW r \in Ranks, lockCall(r) PROVE LockInv'
  BY <1>2 DEF lockCall
<1>3. ASSUME NEW r \in Ranks, lockSpin(r) PROVE LockInv'
  BY <1>3 DEF lockSpin, CasOk
<1>4. ASSUME NEW r \in Ranks, priolock(r) PROVE LockInv'
  BY <1>4 DEF priolock
<1>5. ASSUME NEW r \in Ranks, priolockSpin(r) PROVE LockInv'
  BY <1>5 DEF priolockSpin
<1>6. ASSUME NEW r \in Ranks, unlock(r) PROVE LockInv'
  BY <1>6 DEF unlock
<1>7. CASE UNCHANGED vars
  BY <1>7 DEF vars
<1>. QED BY <1>1, <1>2, <1>3, <1>4, <1>5, <1>6, <1>7 DEF Next

(* The inductive invariant of the lock.                                    *)
LEMMA Inductive == Spec => []LockInv
BY InitLockInv, NextLockInv, PTL DEF Spec

--------------------------------------------------------------------------------
(* The lock's state stays in its type.                                     *)
THEOREM TypeCorrect == Spec => []TypeOK
BY Inductive, PTL DEF LockInv

(* No two ranks are in the critical section, whichever calls they used.    *)
THEOREM Exclusion == Spec => []MutualExclusion
BY Inductive, PTL DEF LockInv

(* The assertions of trylock() hold for any number of ranks.               *)
THEOREM WordStaysInRange == Spec => []WordInRange
<1>1. LockInv => WordInRange
  BY DEF LockInv, WordInRange
<1>. QED BY Inductive, <1>1, PTL

(* The word is the number of ranks in or promised the critical section.    *)
THEOREM WordIsACount == Spec => []WordCounts
<1>1. LockInv => WordCounts
  <2> SUFFICES ASSUME LockInv PROVE WordCounts
    OBVIOUS
  <2>1. Cardinality(Holders) = IF SomeHeld THEN 1 ELSE 0
    <3>1. CASE SomeHeld
      <4>1. PICK r \in Ranks : pc[r] = "held" BY <3>1 DEF SomeHeld
      <4>2. Holders = {r} BY <4>1 DEF Holders, LockInv, MutualExclusion
      <4>. QED BY <3>1, <4>2, FS_Singleton
    <3>2. CASE ~SomeHeld
      <4>1. Holders = {} BY <3>2 DEF Holders, SomeHeld
      <4>. QED BY <3>2, <4>1, FS_EmptySet
    <3>. QED BY <3>1, <3>2
  <2>2. Cardinality(Waiters) = IF SomePrio THEN 1 ELSE 0
    <3>1. CASE SomePrio
      <4>1. PICK r \in Ranks : pc[r] = "prio" BY <3>1 DEF SomePrio
      <4>2. Waiters = {r} BY <4>1 DEF Waiters, LockInv
      <4>. QED BY <3>1, <4>2, FS_Singleton
    <3>2. CASE ~SomePrio
      <4>1. Waiters = {} BY <3>2 DEF Waiters, SomePrio
      <4>. QED BY <3>2, <4>1, FS_EmptySet
    <3>. QED BY <3>1, <3>2
  <2>. QED BY <2>1, <2>2 DEF LockInv, WordCounts
<1>. QED BY Inductive, <1>1, PTL

(* From the fetch-and-add of priolock() on, nobody enters before its       *)
(* caller.                                                                 *)
THEOREM PriorityIsKept == Spec => NoOvertaking
<1>1. LockInv /\ [Next]_vars =>
        [\A p, q \in Ranks :
            pc[p] = "prio" /\ q # p /\ pc[q] # "held" => pc'[q] # "held"]_vars
  <2> SUFFICES ASSUME LockInv, Next, NEW p \in Ranks, NEW q \in Ranks,
                      pc[p] = "prio", q # p, pc[q] # "held"
               PROVE  pc'[q] # "held"
    OBVIOUS
  <2>1. word # 0 BY DEF LockInv, SomeHeld, SomePrio
  <2>2. pc[q] # "prio" BY DEF LockInv
  <2>3. PICK r \in Ranks : \/ trylock(r) \/ lockCall(r) \/ lockSpin(r)
                           \/ priolock(r) \/ priolockSpin(r) \/ unlock(r)
    BY DEF Next
  <2>. QED
    BY <2>1, <2>2, <2>3 DEF LockInv, TypeOK, trylock, lockCall, lockSpin, CasOk, priolock,
                            priolockSpin, unlock
<1>. QED BY Inductive, <1>1, PTL DEF Spec, NoOvertaking

--------------------------------------------------------------------------------
(* What the refinement mapping evaluates to.                               *)
LEMMA HolderIs ==
    ASSUME LockInv, NEW r \in Ranks, pc[r] = "held" PROVE TheHolder = r
<1>1. \A q \in Ranks : pc[q] = "held" => q = r BY DEF LockInv, MutualExclusion
<1>2. Holders # {} BY DEF Holders
<1>. QED BY <1>1, <1>2 DEF TheHolder

(* Likewise for the rank in priolock().                                    *)
LEMMA WaiterIs ==
    ASSUME LockInv, NEW r \in Ranks, pc[r] = "prio" PROVE TheWaiter = r
<1>1. \A q \in Ranks : pc[q] = "prio" => q = r BY DEF LockInv
<1>2. Waiters # {} BY DEF Waiters
<1>. QED BY <1>1, <1>2 DEF TheWaiter

(* With nobody inside there is no holder, with nobody waiting no waiter.   *)
LEMMA NobodyIs ==
    /\ ~SomeHeld => TheHolder = NoRank
    /\ ~SomePrio => TheWaiter = NoRank
BY DEF SomeHeld, SomePrio, TheHolder, TheWaiter, Holders, Waiters

(* A rank stays the holder (waiter) as long as it is the only one.         *)
LEMMA MappingFrame ==
    ASSUME LockInv, LockInv'
    PROVE  /\ (\A q \in Ranks : pc[q] = "held" <=> pc'[q] = "held") => TheHolder' = TheHolder
           /\ (\A q \in Ranks : pc[q] = "prio" <=> pc'[q] = "prio") => TheWaiter' = TheWaiter
<1>1. ASSUME \A q \in Ranks : pc[q] = "held" <=> pc'[q] = "held"
      PROVE  TheHolder' = TheHolder
  <2>1. CASE SomeHeld
    <3>1. PICK r \in Ranks : pc[r] = "held" BY <2>1 DEF SomeHeld
    <3>2. TheHolder = r BY <3>1, HolderIs
    <3>3. \A q \in Ranks : pc'[q] = "held" => q = r
      BY <1>1, <3>1 DEF LockInv, MutualExclusion
    <3>4. Holders' # {} BY <1>1, <3>1 DEF Holders
    <3>5. TheHolder' = r BY <1>1, <3>1, <3>3, <3>4 DEF TheHolder
    <3>. QED BY <3>2, <3>5
  <2>2. CASE ~SomeHeld
    <3>1. Holders = {} /\ Holders' = {} BY <1>1, <2>2 DEF SomeHeld, Holders
    <3>. QED BY <3>1 DEF TheHolder
  <2>. QED BY <2>1, <2>2
<1>2. ASSUME \A q \in Ranks : pc[q] = "prio" <=> pc'[q] = "prio"
      PROVE  TheWaiter' = TheWaiter
  <2>1. CASE SomePrio
    <3>1. PICK r \in Ranks : pc[r] = "prio" BY <2>1 DEF SomePrio
    <3>2. TheWaiter = r BY <3>1, WaiterIs
    <3>3. \A q \in Ranks : pc'[q] = "prio" => q = r BY <1>2, <3>1 DEF LockInv
    <3>4. Waiters' # {} BY <1>2, <3>1 DEF Waiters
    <3>5. TheWaiter' = r BY <1>2, <3>1, <3>3, <3>4 DEF TheWaiter
    <3>. QED BY <3>2, <3>5
  <2>2. CASE ~SomePrio
    <3>1. Waiters = {} /\ Waiters' = {} BY <1>2, <2>2 DEF SomePrio, Waiters
    <3>. QED BY <3>1 DEF TheWaiter
  <2>. QED BY <2>1, <2>2
<1>. QED BY <1>1, <1>2

(* The same facts about the state after a step.                            *)
LEMMA HolderBecomes ==
    ASSUME LockInv', NEW r \in Ranks, pc'[r] = "held" PROVE TheHolder' = r
<1>1. \A q \in Ranks : pc'[q] = "held" => q = r BY DEF LockInv, MutualExclusion
<1>2. Holders' # {} BY DEF Holders
<1>. QED BY <1>1, <1>2 DEF TheHolder

(* A rank that starts to wait with priority becomes the waiter.            *)
LEMMA WaiterBecomes ==
    ASSUME LockInv', NEW r \in Ranks, pc'[r] = "prio" PROVE TheWaiter' = r
<1>1. \A q \in Ranks : pc'[q] = "prio" => q = r BY DEF LockInv
<1>2. Waiters' # {} BY DEF Waiters
<1>. QED BY <1>1, <1>2 DEF TheWaiter

(* After the last one has left there is no holder, or no waiter.           *)
LEMMA NobodyBecomes ==
    /\ ~SomeHeld' => TheHolder' = NoRank
    /\ ~SomePrio' => TheWaiter' = NoRank
BY DEF SomeHeld, SomePrio, TheHolder, TheWaiter, Holders, Waiters

(* Every MPI operation on the word is a step of the priority mutex, or     *)
(* leaves it as it is.                                                     *)
LEMMA StepSimulation ==
    ASSUME LockInv, LockInv', Next
    PROVE  Mutex!MutexNext \/ UNCHANGED Mutex!mutexVars
<1> USE DEF Mutex!mutexVars
<1>1. ASSUME NEW r \in Ranks, pc[r] \in {"idle", "spin"}, CasOk(r)
      PROVE  Mutex!MutexNext
  <2>1. ~SomeHeld /\ ~SomePrio BY <1>1 DEF CasOk, LockInv
  <2>2. TheHolder = NoRank /\ TheWaiter = NoRank BY <2>1, NobodyIs
  <2>3. pc'[r] = "held" /\ \A q \in Ranks : pc[q] = "prio" <=> pc'[q] = "prio"
    BY <1>1 DEF CasOk, LockInv, TypeOK
  <2>4. TheHolder' = r /\ TheWaiter' = TheWaiter
    BY <2>3, HolderBecomes, MappingFrame
  <2>5. Mutex!Acquire(r) BY <2>2, <2>4 DEF Mutex!Acquire
  <2>. QED BY <2>5 DEF Mutex!MutexNext
<1>2. ASSUME NEW r \in Ranks, lockCall(r) PROVE UNCHANGED Mutex!mutexVars
  <2>1. \A q \in Ranks : /\ pc[q] = "held" <=> pc'[q] = "held"
                         /\ pc[q] = "prio" <=> pc'[q] = "prio"
    BY <1>2 DEF lockCall, LockInv, TypeOK
  <2>. QED BY <2>1, MappingFrame
<1>3. ASSUME NEW r \in Ranks, priolock(r) PROVE Mutex!MutexNext
  <2>1. ~SomePrio BY <1>3 DEF priolock, SomePrio
  <2>2. TheWaiter = NoRank BY <2>1, NobodyIs
  <2>3. CASE word = 0
    <3>1. ~SomeHeld BY <2>3 DEF LockInv
    <3>2. TheHolder = NoRank BY <3>1, NobodyIs
    <3>3. pc'[r] = "held" /\ \A q \in Ranks : pc[q] = "prio" <=> pc'[q] = "prio"
      BY <1>3, <2>3 DEF priolock, LockInv, TypeOK
    <3>4. TheHolder' = r /\ TheWaiter' = TheWaiter
      BY <3>3, HolderBecomes, MappingFrame
    <3>5. Mutex!PrioAcquire(r) BY <2>2, <3>2, <3>4 DEF Mutex!PrioAcquire
    <3>. QED BY <3>5 DEF Mutex!MutexNext
  <2>4. CASE word # 0
    <3>1. SomeHeld BY <2>1, <2>4 DEF LockInv
    <3>2. PICK h \in Ranks : pc[h] = "held" BY <3>1 DEF SomeHeld
    <3>3. TheHolder = h BY <3>2, HolderIs
    <3>4. TheHolder # NoRank BY <3>3, RanksAssumption
    <3>5. pc'[r] = "prio" /\ \A q \in Ranks : pc[q] = "held" <=> pc'[q] = "held"
      BY <1>3, <2>4 DEF priolock, LockInv, TypeOK
    <3>6. TheWaiter' = r /\ TheHolder' = TheHolder
      BY <3>5, WaiterBecomes, MappingFrame
    <3>7. Mutex!PrioRequest(r) BY <2>2, <3>4, <3>6 DEF Mutex!PrioRequest
    <3>. QED BY <3>7 DEF Mutex!MutexNext
  <2>. QED BY <2>3, <2>4
<1>4. ASSUME NEW r \in Ranks, priolockSpin(r) PROVE Mutex!MutexNext
  <2>1. SomePrio /\ ~SomeHeld BY <1>4 DEF priolockSpin, LockInv, SomePrio
  <2>2. TheHolder = NoRank BY <2>1, NobodyIs
  <2>3. TheWaiter = r BY <1>4, WaiterIs DEF priolockSpin
  <2>4. pc'[r] = "held" /\ ~SomePrio'
    BY <1>4 DEF priolockSpin, LockInv, TypeOK, SomePrio
  <2>5. TheHolder' = r /\ TheWaiter' = NoRank
    BY <2>4, HolderBecomes, NobodyBecomes
  <2>6. Mutex!PrioGrant(r) BY <2>2, <2>3, <2>5 DEF Mutex!PrioGrant
  <2>. QED BY <2>6 DEF Mutex!MutexNext
<1>5. ASSUME NEW r \in Ranks, unlock(r) PROVE Mutex!MutexNext
  <2>1. TheHolder = r BY <1>5, HolderIs DEF unlock
  <2>2. ~SomeHeld' /\ \A q \in Ranks : pc[q] = "prio" <=> pc'[q] = "prio"
    BY <1>5 DEF unlock, LockInv, TypeOK, MutualExclusion, SomeHeld
  <2>3. TheHolder' = NoRank /\ TheWaiter' = TheWaiter
    BY <2>2, NobodyBecomes, MappingFrame
  <2>4. Mutex!Release(r) BY <2>1, <2>3 DEF Mutex!Release
  <2>. QED BY <2>4 DEF Mutex!MutexNext
<1>. QED BY <1>1, <1>2, <1>3, <1>4, <1>5 DEF Next, trylock, lockSpin

(* The counter word implements the priority mutex that WsQueue builds on.  *)
THEOREM LockImplementsMutex == Spec => ImplementsPrioMutex
<1>1. Init => Mutex!MutexInit
  <2> SUFFICES ASSUME Init PROVE Mutex!MutexInit
    OBVIOUS
  <2>1. ~SomeHeld /\ ~SomePrio BY DEF Init, SomeHeld, SomePrio
  <2>. QED BY <2>1, NobodyIs DEF Mutex!MutexInit
<1>2. LockInv /\ LockInv' /\ [Next]_vars => [Mutex!MutexNext]_(Mutex!mutexVars)
  <2> SUFFICES ASSUME LockInv, LockInv', [Next]_vars
               PROVE  [Mutex!MutexNext]_(Mutex!mutexVars)
    OBVIOUS
  <2>1. CASE Next BY <2>1, StepSimulation
  <2>2. CASE UNCHANGED vars
    BY <2>2, MappingFrame DEF vars, Mutex!mutexVars
  <2>. QED BY <2>1, <2>2
<1>. QED BY Inductive, <1>1, <1>2, PTL DEF Spec, ImplementsPrioMutex, Mutex!MutexSpec

================================================================================
