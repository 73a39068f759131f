------------------------------ MODULE WsQueueProofs ------------------------------
(***************************************************************************)
(* The work-stealing queue neither loses nor duplicates an entry, for any  *)
(* capacity, any number of thieves and any set of entries.                 *)
(***************************************************************************)
EXTENDS WsQueue, Sequences, TLAPS

(* Where a thief holds the lock, and where the owner does.                 *)
CsLocs == StealLocs \cup {"steal", "unlock", "pass", "passfail", "put", "putbase"}
OwnerCs == {"cs", "unlock", "full"}

LockInv ==
    /\ \A th \in Thieves : pc[th] \in CsLocs <=> holder = th
    /\ opc \in OwnerCs <=> holder = Owner
    /\ opc = "wait" <=> waiter = Owner

(* The owner's place in the code and what it knows there.                  *)
OwnerInv ==
    /\ opc \in {"idle", "write", "store", "pop", "base", "take", "restore"} <=> op = "none"
    /\ oe # NoEntry <=> opc \in {"write", "store"} \/ op = "push"
    /\ op = "empty" => opc = "unlock"
    /\ opc = "full" => op = "push"
    /\ op = "room" => EnablePass
    /\ opc \in {"write", "store"} \/ (opc = "unlock" /\ op = "push") => top < N
    /\ opc \in {"lock", "wait", "cs", "full"} /\ op = "push" => top = N
    /\ opc \in {"lock", "wait", "cs"} /\ op = "room" => top < N
    /\ opc = "store" => entries[top] = oe

(* The slots in use, and what the owner's decisions rely on.               *)
SlotsInv ==
    /\ 0 <= EffBase /\ EffBase <= EffTop /\ EffTop <= N
    /\ opc = "take" => EffBase <= top
    /\ opc = "full" => EffBase = 0
    /\ op = "empty" => EffBase = EffTop
    /\ local_empty => /\ EffBase = EffTop /\ ~EnablePass
                      /\ opc \notin {"pop", "base", "take", "restore"}

(* What a thief knows about base and about the slot it works on.           *)
ThiefOK(th) ==
    /\ pc[th] \in StealLocs => tb[th] = base - 1
    /\ pc[th] \in {"get", "got"} => tb[th] < EffTop /\ (opc = "take" => tb[th] < top)
    /\ pc[th] = "got" => te[th] = entries[tb[th]]
    /\ pc[th] \in {"put", "putbase"} => tb[th] = base /\ base > 0
    /\ pc[th] = "putbase" => entries[tb[th] - 1] = te[th]
    /\ pc[th] \in PassLocs => te[th] \in Entry /\ EnablePass

ThiefInv == \A th \in Thieves : ThiefOK(th)

IInv == TypeOK /\ LockInv /\ OwnerInv /\ SlotsInv /\ ThiefInv /\ ExactlyOnce

--------------------------------------------------------------------------------
(* The owner is not a thief, and no rank is NoRank.                        *)
LEMMA RankFacts ==
    /\ Owner \notin Thieves /\ NoRank \notin Thieves /\ Owner # NoRank
    /\ \A th \in Thieves : th \in Ranks /\ th # Owner /\ th # NoRank
BY NoRankAssumption, WsQueueAssumption DEF Thieves

(* The invariant holds initially.                                          *)
LEMMA InitIInv == Init => IInv
<1> SUFFICES ASSUME Init PROVE IInv
  OBVIOUS
<1> USE WsQueueAssumption DEF Init, MutexInit
<1>1. initial_pos \in 0..N BY DEF initial_pos
<1>2. TypeOK
  <2>1. entries \in [0..(N - 1) -> Entry \cup {NoEntry}] OBVIOUS
  <2>2. pc \in [Thieves -> ThiefLocs] /\ te \in [Thieves -> Entry \cup {NoEntry}]
    BY DEF ThiefLocs
  <2>3. tb \in [Thieves -> 0..N] OBVIOUS
  <2>4. top \in -1..N /\ base \in 0..(N + 1) BY <1>1
  <2>. QED BY <2>1, <2>2, <2>3, <2>4 DEF TypeOK, OwnerLocs, OwnerOps
<1>3. LockInv BY RankFacts DEF LockInv, CsLocs, StealLocs, OwnerCs
<1>4. ~Stealing BY DEF Stealing, StealLocs
<1>5. EffBase = initial_pos /\ EffTop = initial_pos BY <1>4 DEF EffBase, EffTop
<1>6. OwnerInv BY DEF OwnerInv
<1>7. SlotsInv BY <1>1, <1>5 DEF SlotsInv
<1>8. ThiefInv BY DEF ThiefInv, ThiefOK, StealLocs, PassLocs
<1>9. ExactlyOnce
  <2>1. Slots = {} BY <1>1, <1>5 DEF Slots
  <2>. QED BY <2>1 DEF ExactlyOnce, NothingLost, NothingDuplicated, InQueue, Pushing,
                       Passing, PassLocs
<1>. QED BY <1>2, <1>3, <1>6, <1>7, <1>8, <1>9 DEF IInv

(* Mutual exclusion between the owner's and the thieves' critical          *)
(* sections follows from the lock alone.                                   *)
LEMMA OwnerKeepsLock ==
    ASSUME TypeOK, LockInv, OwnerInv, OwnerCalls \/ OwnerSteps PROVE LockInv'
<1> USE RankFacts DEF LockInv, OwnerCs, mutexVars, queueVars, thiefVars
<1>1. CASE OwnerLock
  BY <1>1 DEF OwnerLock, PrioAcquire, PrioRequest, CsLocs
<1>2. CASE OwnerGranted
  BY <1>2 DEF OwnerGranted, PrioGrant
<1>3. CASE OwnerUnlock
  BY <1>3 DEF OwnerUnlock, Release
<1>4. CASE PushMove \/ PopMove
  BY <1>4 DEF PushMove, PopMove, move_entries
<1>5. CASE PopLocked \/ EachWalk
  BY <1>5 DEF PopLocked, EachWalk
<1>6. CASE \E e \in Entry : PushCall(e)
  BY <1>6 DEF PushCall
<1>7. CASE PopCall \/ EachCall
  BY <1>7 DEF PopCall, EachCall
<1>8. CASE PushWrite \/ PushStore
  BY <1>8 DEF PushWrite, PushStore
<1>9. CASE PopLooksEmpty \/ PopDecrement \/ PopReadBase \/ PopTake \/ PopRestore
  BY <1>9 DEF PopLooksEmpty, PopDecrement, PopReadBase, PopTake, PopRestore
<1>. QED BY <1>1, <1>2, <1>3, <1>4, <1>5, <1>6, <1>7, <1>8, <1>9 DEF OwnerCalls, OwnerSteps

(* The same for the other ranks.                                           *)
LEMMA ThiefKeepsLock ==
    ASSUME TypeOK, LockInv, NEW th \in Thieves, ThiefCalls(th) \/ ThiefSteps(th) PROVE LockInv'
<1> USE RankFacts DEF LockInv, CsLocs, StealLocs, mutexVars, ownerVars, GoTo, TypeOK
<1>1. CASE StealLock(th) \/ PassLock(th)
  BY <1>1 DEF StealLock, PassLock, Acquire, OwnerCs
<1>2. CASE StealKeep(th) \/ ThiefUnlock(th) \/ PassFail(th)
  BY <1>2 DEF StealKeep, ThiefUnlock, PassFail, Release, OwnerCs
<1>3. CASE StealFaa(th) \/ StealReadTop(th) \/ StealGet(th) \/ StealUndo(th) \/ abort_steal(th)
  BY <1>3 DEF StealFaa, StealReadTop, StealGet, StealUndo, abort_steal
<1>4. CASE PassReadBase(th) \/ PassPutEntry(th) \/ PassPutBase(th)
  BY <1>4 DEF PassReadBase, PassPutEntry, PassPutBase
<1>5. CASE \E e \in Entry : PassCall(th, e)
  BY <1>5 DEF PassCall
<1>. QED BY <1>1, <1>2, <1>3, <1>4, <1>5 DEF ThiefCalls, ThiefSteps

(* Only the lock's holder can be in the middle of a steal.                 *)
LEMMA StealingIs ==
    ASSUME LockInv
    PROVE  /\ holder \notin Thieves => ~Stealing
           /\ \A th \in Thieves : holder = th => (Stealing <=> pc[th] \in StealLocs)
BY DEF LockInv, Stealing, CsLocs

(* The same after a step.                                                  *)
LEMMA StealingBecomes ==
    ASSUME LockInv'
    PROVE  /\ holder' \notin Thieves => ~Stealing'
           /\ \A th \in Thieves : holder' = th => (Stealing' <=> pc'[th] \in StealLocs)
BY DEF LockInv, Stealing, CsLocs

(* The ends of the queue are integers.                                     *)
LEMMA EndsType == TypeOK => EffBase \in Int /\ EffTop \in Int
BY WsQueueAssumption DEF TypeOK, EffBase, EffTop

(* A step that moves no entry into, out of or inside the queue.            *)
LEMMA ExactlyOnceFrame ==
    ASSUME ExactlyOnce, UNCHANGED out, UNCHANGED oe,
           EffBase' = EffBase, EffTop' = EffTop,
           \A i \in Slots : entries'[i] = entries[i],
           \A th \in Thieves : /\ pc'[th] \in PassLocs <=> pc[th] \in PassLocs
                               /\ pc[th] \in PassLocs => te'[th] = te[th]
    PROVE  ExactlyOnce'
<1>1. Slots' = Slots BY DEF Slots
<1>2. \A e : InQueue(e)' <=> InQueue(e) BY <1>1 DEF InQueue
<1>3. \A e : \A th \in Thieves : Passing(th, e)' <=> Passing(th, e) BY DEF Passing
<1>4. NothingLost' BY <1>2, <1>3 DEF ExactlyOnce, NothingLost, Pushing
<1>5. NothingDuplicated' BY <1>1, <1>2, <1>3 DEF ExactlyOnce, NothingDuplicated, Pushing
<1>. QED BY <1>4, <1>5 DEF ExactlyOnce

(* While one thief holds the lock, the others are outside.                 *)
LEMMA OthersOutside ==
    ASSUME TypeOK, LockInv, NEW th \in Thieves, holder = th,
           NEW q \in Thieves, q # th
    PROVE  pc[q] \in {"idle", "passlock"}
BY DEF TypeOK, LockInv, CsLocs, ThiefLocs

(* A thief's step that leaves the slots, and top, as they are keeps what   *)
(* the owner relies on.                                                    *)
LEMMA OwnerFrame ==
    ASSUME OwnerInv, SlotsInv, UNCHANGED ownerVars, UNCHANGED <<top, local_empty>>,
           opc = "store" => entries'[top] = entries[top],
           EffBase' = EffBase
    PROVE  OwnerInv' /\ SlotsInv' /\ EffTop' = EffTop
<1>1. EffTop' = EffTop BY DEF EffTop, ownerVars
<1>2. OwnerInv' BY DEF OwnerInv, ownerVars
<1>3. SlotsInv' BY <1>1 DEF SlotsInv, ownerVars
<1>. QED BY <1>1, <1>2, <1>3

(* Stealing preserves the invariant.                                       *)
LEMMA StealIInv ==
    ASSUME IInv, NEW th \in Thieves,
           \/ StealLock(th) \/ StealFaa(th) \/ StealReadTop(th) \/ StealGet(th)
           \/ StealUndo(th) \/ abort_steal(th) \/ ThiefUnlock(th)
    PROVE  IInv'
<1> USE RankFacts DEF IInv, GoTo
<1>1. LockInv' BY ThiefKeepsLock DEF ThiefCalls, ThiefSteps
<1>2. EffBase' = EffBase /\ UNCHANGED <<entries, out, ownerVars, top, local_empty>>
  <2>1. CASE StealLock(th)
    BY <1>1, <2>1, StealingIs, StealingBecomes
       DEF StealLock, Acquire, EffBase, TypeOK, StealLocs, queueVars
  <2>2. CASE StealFaa(th)
    BY <1>1, <2>2, StealingIs, StealingBecomes
       DEF StealFaa, EffBase, TypeOK, LockInv, CsLocs, StealLocs, mutexVars
  <2>3. CASE StealReadTop(th)
    BY <1>1, <2>3, StealingIs, StealingBecomes
       DEF StealReadTop, EffBase, TypeOK, LockInv, CsLocs, StealLocs, mutexVars, queueVars
  <2>4. CASE StealGet(th)
    BY <1>1, <2>4, StealingIs, StealingBecomes
       DEF StealGet, EffBase, TypeOK, LockInv, CsLocs, StealLocs, mutexVars, queueVars
  <2>5. CASE StealUndo(th)
    BY <1>1, <2>5, StealingIs, StealingBecomes
       DEF StealUndo, EffBase, TypeOK, LockInv, CsLocs, StealLocs, mutexVars
  <2>6. CASE abort_steal(th)
    BY <1>1, <2>6, StealingIs, StealingBecomes
       DEF abort_steal, EffBase, TypeOK, LockInv, CsLocs, StealLocs, mutexVars
  <2>7. CASE ThiefUnlock(th)
    BY <1>1, <2>7, StealingIs, StealingBecomes
       DEF ThiefUnlock, Release, EffBase, TypeOK, LockInv, CsLocs, StealLocs, queueVars
  <2>. QED BY <2>1, <2>2, <2>3, <2>4, <2>5, <2>6, <2>7
<1>3. OwnerInv' /\ SlotsInv' /\ EffTop' = EffTop BY <1>2, OwnerFrame
<1>4. \A q \in Thieves : /\ pc'[q] \in PassLocs <=> pc[q] \in PassLocs
                         /\ pc[q] \in PassLocs => te'[q] = te[q]
  BY DEF StealLock, StealFaa, StealReadTop, StealGet, StealUndo, abort_steal, ThiefUnlock,
         TypeOK, PassLocs
<1>5. ExactlyOnce' BY <1>2, <1>3, <1>4, ExactlyOnceFrame DEF ownerVars
<1>6. TypeOK'
  <2> USE DEF TypeOK, ThiefLocs, StealLocs, mutexVars, queueVars, ownerVars
  <2>1. CASE StealLock(th) BY <2>1 DEF StealLock, Acquire
  <2>2. CASE StealFaa(th)
    <3>1. EffBase = base
      BY <2>2, StealingIs DEF StealFaa, LockInv, CsLocs, EffBase
    <3>2. base \in 0..N BY <3>1, WsQueueAssumption DEF SlotsInv, EffTop
    <3>3. base' \in 0..(N + 1) BY <2>2, <3>2, WsQueueAssumption DEF StealFaa
    <3>4. tb' \in [Thieves -> 0..N] BY <2>2, <3>2 DEF StealFaa
    <3>5. pc' \in [Thieves -> ThiefLocs] BY <2>2 DEF StealFaa
    <3>. QED BY <2>2, <3>3, <3>4, <3>5 DEF StealFaa
  <2>3. CASE StealReadTop(th) BY <2>3 DEF StealReadTop
  <2>4. CASE StealGet(th)
    <3>1. tb[th] < EffTop /\ EffTop <= N
      BY <2>4 DEF StealGet, ThiefInv, ThiefOK, SlotsInv
    <3>2. tb[th] \in 0..(N - 1)
      BY <3>1, EndsType, WsQueueAssumption
    <3>3. entries[tb[th]] \in Entry \cup {NoEntry}
      BY <3>2
    <3>. QED BY <2>4, <3>3 DEF StealGet
  <2>5. CASE StealUndo(th) \/ abort_steal(th)
    <3>1. tb[th] = base - 1 BY <2>5 DEF StealUndo, abort_steal, ThiefInv, ThiefOK
    <3>2. base' \in 0..(N + 1)
      BY <2>5, <3>1, WsQueueAssumption DEF StealUndo, abort_steal
    <3>3. tb' \in [Thieves -> 0..N]
      BY <2>5, WsQueueAssumption DEF StealUndo, abort_steal
    <3>. QED BY <2>5, <3>2, <3>3 DEF StealUndo, abort_steal
  <2>6. CASE ThiefUnlock(th) BY <2>6 DEF ThiefUnlock, Release
  <2>. QED BY <2>1, <2>2, <2>3, <2>4, <2>5, <2>6
<1>7. ThiefInv'
  <2> SUFFICES ASSUME NEW q \in Thieves PROVE ThiefOK(q)'
    BY DEF ThiefInv
  <2>1. ThiefOK(q) BY DEF ThiefInv
  <2>2. CASE StealLock(th)
    BY <1>3, <2>1, <2>2 DEF StealLock, ThiefOK, TypeOK, StealLocs, PassLocs, queueVars, ownerVars
  <2>3. CASE q = th /\ ~StealLock(th)
    BY <1>2, <1>3, <2>1, <2>3
       DEF StealFaa, StealReadTop, StealGet, StealUndo, abort_steal, ThiefUnlock, ThiefOK, TypeOK,
           StealLocs, PassLocs, queueVars, ownerVars, EffTop
  <2>4. CASE q # th /\ ~StealLock(th)
    <3>1. holder = th
      BY <2>4 DEF StealFaa, StealReadTop, StealGet, StealUndo, abort_steal, ThiefUnlock,
                  LockInv, CsLocs, StealLocs
    <3>2. pc'[q] = pc[q] /\ te'[q] = te[q] /\ pc[q] \in {"idle", "passlock"}
      BY <2>4, <3>1, OthersOutside
         DEF StealFaa, StealReadTop, StealGet, StealUndo, abort_steal, ThiefUnlock, TypeOK
    <3>. QED BY <2>1, <3>2 DEF ThiefOK, StealLocs, PassLocs
  <2>. QED BY <2>2, <2>3, <2>4
<1>. QED BY <1>1, <1>3, <1>5, <1>6, <1>7

(* The end of a successful steal: the entry at the base leaves the queue.  *)
LEMMA KeepIInv == ASSUME IInv, NEW th \in Thieves, StealKeep(th) PROVE IInv'
<1> USE RankFacts DEF IInv, StealKeep, GoTo
<1>1. LockInv' BY ThiefKeepsLock DEF ThiefSteps
<1>2. holder = th /\ holder' = NoRank BY DEF Release
<1>3. EffBase = base - 1 /\ EffBase' = base
  BY <1>1, <1>2, StealingIs, StealingBecomes DEF EffBase, StealLocs, queueVars
<1>4. EffTop' = EffTop BY DEF EffTop, ownerVars, queueVars
<1>5. tb[th] = EffBase /\ te[th] = entries[EffBase] /\ EffBase < EffTop
      /\ (opc = "take" => EffBase < top)
  BY <1>3 DEF ThiefInv, ThiefOK, StealLocs
<1>6. EffBase \in Int /\ EffTop \in Int /\ base \in Int /\ top \in Int
  BY EndsType, WsQueueAssumption DEF TypeOK
<1>7. Slots' = Slots \ {EffBase} /\ EffBase \in Slots
  BY <1>3, <1>4, <1>5, <1>6 DEF Slots
<1>8. te[th] \in Entry BY <1>5, <1>7 DEF ExactlyOnce, NothingDuplicated
<1>9. TypeOK'
  <2>1. tb' \in [Thieves -> 0..N] /\ te' \in [Thieves -> Entry \cup {NoEntry}]
    BY WsQueueAssumption DEF TypeOK
  <2>. QED BY <1>8, <2>1 DEF TypeOK, ThiefLocs, Release, queueVars, ownerVars
<1>10. OwnerInv' BY DEF OwnerInv, queueVars, ownerVars
<1>11. SlotsInv'
  <2>1. op # "empty" /\ ~local_empty /\ opc # "full"
    BY <1>2, <1>5, <1>6 DEF SlotsInv, OwnerInv, LockInv, OwnerCs
  <2>. QED
    BY <1>3, <1>4, <1>5, <1>6, <2>1 DEF SlotsInv, queueVars, ownerVars
<1>12. ThiefInv'
  <2> SUFFICES ASSUME NEW q \in Thieves PROVE ThiefOK(q)'
    BY DEF ThiefInv
  <2>1. ThiefOK(q) BY DEF ThiefInv
  <2>2. pc'[q] \in {"idle", "passlock"} /\ (q # th => pc'[q] = pc[q] /\ te'[q] = te[q])
    BY <1>2, OthersOutside DEF TypeOK
  <2>. QED BY <2>1, <2>2 DEF ThiefOK, StealLocs, PassLocs, TypeOK
<1>13. ExactlyOnce'
  <2>1. \A e : InQueue(e)' <=> InQueue(e) /\ e # te[th]
    BY <1>5, <1>7 DEF InQueue, queueVars, ExactlyOnce, NothingDuplicated
  <2>2. \A e : \A q \in Thieves : Passing(q, e)' <=> Passing(q, e)
    BY DEF Passing, PassLocs, TypeOK
  <2>3. NothingLost' BY <2>1, <2>2 DEF ExactlyOnce, NothingLost, Pushing, ownerVars
  <2>4. InQueue(te[th]) BY <1>5, <1>7 DEF InQueue
  <2>5. NothingDuplicated'
    BY <1>7, <1>8, <2>1, <2>2, <2>4
       DEF ExactlyOnce, NothingDuplicated, Pushing, ownerVars, queueVars
  <2>. QED BY <2>3, <2>5 DEF ExactlyOnce
<1>. QED BY <1>1, <1>9, <1>10, <1>11, <1>12, <1>13

(* Taking an entry to pass it.                                             *)
LEMMA PassCallIInv ==
    ASSUME IInv, NEW th \in Thieves, NEW e \in Entry, PassCall(th, e) PROVE IInv'
<1> USE RankFacts DEF IInv, PassCall, GoTo, mutexVars, queueVars, ownerVars
<1>1. LockInv' BY ThiefKeepsLock DEF ThiefCalls
<1>2. pc'[th] = "passlock" /\ te'[th] = e
      /\ \A q \in Thieves \ {th} : pc'[q] = pc[q] /\ te'[q] = te[q]
  BY DEF TypeOK
<1>3. Stealing' <=> Stealing BY <1>2 DEF Stealing, StealLocs
<1>4. EffBase' = EffBase /\ EffTop' = EffTop BY <1>3 DEF EffBase, EffTop
<1>5. TypeOK' BY DEF TypeOK, ThiefLocs
<1>6. OwnerInv' BY DEF OwnerInv
<1>7. SlotsInv' BY <1>4 DEF SlotsInv
<1>8. ThiefInv'
  <2> SUFFICES ASSUME NEW q \in Thieves PROVE ThiefOK(q)'
    BY DEF ThiefInv
  <2>1. ThiefOK(q) BY DEF ThiefInv
  <2>2. CASE q = th BY <1>2, <2>2 DEF ThiefOK, StealLocs, PassLocs
  <2>3. CASE q # th BY <1>2, <1>4, <2>1, <2>3 DEF ThiefOK
  <2>. QED BY <2>2, <2>3
<1>9. ExactlyOnce'
  <2>1. Slots' = Slots BY <1>4 DEF Slots
  <2>2. \A x : InQueue(x)' <=> InQueue(x) BY <2>1 DEF InQueue
  <2>3. \A x : \A q \in Thieves :
          Passing(q, x)' <=> Passing(q, x) \/ (q = th /\ x = e)
    BY <1>2 DEF Passing, PassLocs
  <2>4. NothingLost' BY <2>2, <2>3 DEF ExactlyOnce, NothingLost, Pushing
  <2>5. NothingDuplicated'
    BY <2>1, <2>2, <2>3 DEF ExactlyOnce, NothingDuplicated, Pushing
  <2>. QED BY <2>4, <2>5 DEF ExactlyOnce
<1>. QED BY <1>1, <1>5, <1>6, <1>7, <1>8, <1>9

(* The steps of pass() before the entry becomes part of the queue.         *)
LEMMA PassIInv ==
    ASSUME IInv, NEW th \in Thieves,
           PassLock(th) \/ PassReadBase(th) \/ PassFail(th) \/ PassPutEntry(th)
    PROVE  IInv'
<1> USE RankFacts DEF IInv, GoTo
<1>1. LockInv' BY ThiefKeepsLock DEF ThiefSteps
<1>2. UNCHANGED <<top, base, local_empty, out, ownerVars, te>>
  BY DEF PassLock, PassReadBase, PassFail, PassPutEntry, queueVars
<1>3. ~Stealing /\ ~Stealing'
  <2>1. CASE PassLock(th)
    BY <1>1, <2>1, StealingIs, StealingBecomes DEF PassLock, Acquire, TypeOK, StealLocs
  <2>2. CASE PassFail(th)
    BY <1>1, <2>2, StealingIs, StealingBecomes DEF PassFail, Release, TypeOK, StealLocs
  <2>3. CASE PassReadBase(th) \/ PassPutEntry(th)
    <3>1. holder = th /\ holder' = th
      BY <2>3 DEF PassReadBase, PassPutEntry, LockInv, CsLocs, mutexVars
    <3>. QED
      BY <1>1, <2>3, <3>1, StealingIs, StealingBecomes
         DEF PassReadBase, PassPutEntry, TypeOK, StealLocs
  <2>. QED BY <2>1, <2>2, <2>3
<1>4. EffBase = base /\ EffBase' = base /\ EffTop' = EffTop
  BY <1>2, <1>3 DEF EffBase, EffTop, ownerVars
<1>5. base \in 0..N /\ top \in Int /\ EffTop \in Int
  BY <1>4, EndsType, WsQueueAssumption DEF SlotsInv, TypeOK
<1>6. ASSUME PassPutEntry(th)
      PROVE  /\ tb[th] = base /\ base > 0
             /\ entries' = [entries EXCEPT ![base - 1] = te[th]]
  BY <1>6 DEF PassPutEntry, ThiefInv, ThiefOK
<1>7. \A i \in base..(N - 1) : entries'[i] = entries[i]
  <2>1. CASE PassPutEntry(th)
    <3> SUFFICES ASSUME NEW i \in base..(N - 1) PROVE entries'[i] = entries[i]
      OBVIOUS
    <3>1. i \in 0..(N - 1) /\ i # base - 1 BY <1>5, WsQueueAssumption
    <3>. QED BY <1>6, <2>1, <3>1 DEF TypeOK
  <2>2. CASE ~PassPutEntry(th)
    BY <2>2 DEF PassLock, PassReadBase, PassFail, queueVars
  <2>. QED BY <2>1, <2>2
<1>8. opc = "store" => entries'[top] = entries[top]
  <2>1. opc = "store" => base <= top /\ top < N BY <1>4 DEF SlotsInv, EffTop, OwnerInv
  <2>. QED BY <1>5, <1>7, <2>1, WsQueueAssumption
<1>9. OwnerInv' /\ SlotsInv' BY <1>2, <1>4, <1>8, OwnerFrame
<1>10. \A q \in Thieves : pc'[q] \in PassLocs <=> pc[q] \in PassLocs
  BY DEF PassLock, PassReadBase, PassFail, PassPutEntry, TypeOK, PassLocs
<1>11. ExactlyOnce'
  <2>1. \A i \in Slots : entries'[i] = entries[i]
    BY <1>4, <1>5, <1>7, WsQueueAssumption DEF Slots, SlotsInv
  <2>. QED BY <1>2, <1>4, <1>10, <2>1, ExactlyOnceFrame DEF ownerVars
<1>12. TypeOK'
  <2>1. pc' \in [Thieves -> ThiefLocs]
    BY DEF PassLock, PassReadBase, PassFail, PassPutEntry, TypeOK, ThiefLocs
  <2>2. tb' \in [Thieves -> 0..N]
    BY <1>5 DEF PassLock, PassReadBase, PassFail, PassPutEntry, TypeOK
  <2>3. holder' \in Ranks \cup {NoRank} /\ waiter' = waiter
    BY DEF PassLock, PassReadBase, PassFail, PassPutEntry, Acquire, Release, TypeOK, mutexVars
  <2>4. entries' \in [0..(N - 1) -> Entry \cup {NoEntry}]
    <3>1. CASE PassPutEntry(th) BY <1>6, <3>1 DEF TypeOK
    <3>2. CASE ~PassPutEntry(th)
      BY <3>2 DEF PassLock, PassReadBase, PassFail, queueVars, TypeOK
    <3>. QED BY <3>1, <3>2
  <2>. QED BY <1>2, <2>1, <2>2, <2>3, <2>4 DEF TypeOK, ownerVars
<1>13. ThiefInv'
  <2> SUFFICES ASSUME NEW q \in Thieves PROVE ThiefOK(q)'
    BY DEF ThiefInv
  <2>1. ThiefOK(q) BY DEF ThiefInv
  <2>2. CASE q = th
    <3>1. CASE PassLock(th) \/ PassFail(th)
      BY <1>2, <2>1, <2>2, <3>1 DEF PassLock, PassFail, ThiefOK, TypeOK, StealLocs, PassLocs
    <3>2. CASE PassReadBase(th)
      <4>1. tb'[th] = base /\ pc'[th] = IF base = 0 THEN "passfail" ELSE "put"
        BY <3>2 DEF PassReadBase, TypeOK
      <4>2. base = 0 \/ base > 0 BY <1>5
      <4>. QED
        BY <1>2, <2>1, <2>2, <3>2, <4>1, <4>2 DEF PassReadBase, ThiefOK, StealLocs, PassLocs
    <3>3. CASE PassPutEntry(th)
      <4>1. pc'[th] = "putbase" /\ tb' = tb BY <3>3 DEF PassPutEntry, TypeOK
      <4>2. base - 1 \in 0..(N - 1) BY <1>5, <1>6, <3>3, WsQueueAssumption
      <4>3. entries'[base - 1] = te[th] BY <1>6, <3>3, <4>2 DEF TypeOK
      <4>. QED
        BY <1>2, <1>6, <2>1, <2>2, <3>3, <4>1, <4>3
           DEF PassPutEntry, ThiefOK, StealLocs, PassLocs
    <3>. QED BY <3>1, <3>2, <3>3
  <2>3. CASE q # th
    <3>1. holder = th \/ holder' = th
      BY DEF PassLock, Acquire, PassReadBase, PassFail, PassPutEntry, LockInv, CsLocs
    <3>2. pc'[q] = pc[q] BY <2>3 DEF PassLock, PassReadBase, PassFail, PassPutEntry, TypeOK
    <3>3. pc[q] \in {"idle", "passlock"}
      BY <1>1, <2>3, <3>1, <3>2 DEF LockInv, CsLocs, TypeOK, ThiefLocs
    <3>. QED BY <1>2, <2>1, <3>2, <3>3 DEF ThiefOK, StealLocs, PassLocs
  <2>. QED BY <2>2, <2>3
<1>. QED BY <1>1, <1>9, <1>11, <1>12, <1>13

(* The last store of pass(): the entry becomes the one at the base.        *)
LEMMA PassPutBaseIInv ==
    ASSUME IInv, NEW th \in Thieves, PassPutBase(th) PROVE IInv'
<1> USE RankFacts DEF IInv, PassPutBase, GoTo
<1>1. LockInv' BY ThiefKeepsLock DEF ThiefSteps
<1>2. holder = th /\ holder' = th BY DEF LockInv, CsLocs, mutexVars
<1>3. ~Stealing /\ ~Stealing'
  BY <1>1, <1>2, StealingIs, StealingBecomes DEF TypeOK, StealLocs
<1>4. /\ tb[th] = base /\ base > 0 /\ base' = base - 1
      /\ entries[base - 1] = te[th] /\ te[th] \in Entry
      /\ entries' = entries /\ EnablePass
  BY DEF ThiefInv, ThiefOK, PassLocs
<1>5. EffBase = base /\ EffBase' = base - 1 /\ EffTop' = EffTop
  BY <1>3, <1>4 DEF EffBase, EffTop, ownerVars
<1>6. base \in 0..N /\ top \in Int /\ EffTop \in Int /\ base <= EffTop
  BY <1>5, EndsType, WsQueueAssumption DEF SlotsInv, TypeOK
<1>7. TypeOK'
  <2>1. base' \in 0..(N + 1) BY <1>4, <1>6, WsQueueAssumption
  <2>2. tb' \in [Thieves -> 0..N] /\ te' \in [Thieves -> Entry \cup {NoEntry}]
    BY WsQueueAssumption DEF TypeOK
  <2>. QED BY <2>1, <2>2 DEF TypeOK, ThiefLocs, mutexVars, ownerVars
<1>8. OwnerInv' BY DEF OwnerInv, ownerVars
<1>9. SlotsInv'
  <2>1. op # "empty" /\ ~local_empty /\ opc # "full"
    BY <1>2, <1>4 DEF SlotsInv, OwnerInv, LockInv, OwnerCs
  <2>. QED BY <1>4, <1>5, <1>6, <2>1 DEF SlotsInv, ownerVars
<1>10. ThiefInv'
  <2> SUFFICES ASSUME NEW q \in Thieves PROVE ThiefOK(q)'
    BY DEF ThiefInv
  <2>1. ThiefOK(q) BY DEF ThiefInv
  <2>2. /\ pc'[q] \in {"idle", "passlock", "unlock"}
        /\ q = th => pc'[q] = "unlock"
        /\ q # th => pc'[q] = pc[q] /\ te'[q] = te[q]
    BY <1>2, OthersOutside DEF TypeOK
  <2>. QED BY <2>1, <2>2 DEF ThiefOK, StealLocs, PassLocs
<1>11. ExactlyOnce'
  <2>1. Slots' = Slots \cup {base - 1} /\ base - 1 \notin Slots
    BY <1>5, <1>6 DEF Slots
  <2>2. \A x : InQueue(x)' <=> InQueue(x) \/ x = te[th]
    BY <1>4, <2>1 DEF InQueue
  <2>3. \A x : \A q \in Thieves : Passing(q, x)' <=> Passing(q, x) /\ q # th
    BY DEF Passing, PassLocs, TypeOK
  <2>4. Passing(th, te[th]) BY DEF Passing, PassLocs
  <2>5. NothingLost'
    BY <2>2, <2>3, <2>4 DEF ExactlyOnce, NothingLost, Pushing, Passing, ownerVars
  <2>6. ~InQueue(te[th]) /\ te[th] \notin out /\ ~Pushing(te[th])
        /\ \A q \in Thieves : q # th => ~Passing(q, te[th])
    BY <1>4, <2>4 DEF ExactlyOnce, NothingDuplicated
  <2>7. NothingDuplicated'
    <3>1. \A i \in Slots : entries[i] # te[th] BY <2>6 DEF InQueue
    <3>2. \A i, j \in Slots' : entries[i] = entries[j] => i = j
      BY <1>4, <2>1, <3>1 DEF ExactlyOnce, NothingDuplicated
    <3>3. \A i \in Slots' : entries[i] \in Entry
      BY <1>4, <2>1 DEF ExactlyOnce, NothingDuplicated
    <3>. QED
      BY <1>4, <2>2, <2>3, <2>6, <3>2, <3>3
         DEF ExactlyOnce, NothingDuplicated, Pushing, ownerVars
  <2>. QED BY <2>5, <2>7 DEF ExactlyOnce
<1>. QED BY <1>1, <1>7, <1>8, <1>9, <1>10, <1>11

(* Every step of a rank other than the owner preserves the invariant.      *)
LEMMA ThiefIInv ==
    ASSUME IInv, NEW th \in Thieves, ThiefCalls(th) \/ ThiefSteps(th) PROVE IInv'
BY StealIInv, KeepIInv, PassCallIInv, PassIInv, PassPutBaseIInv DEF ThiefCalls, ThiefSteps

--------------------------------------------------------------------------------
(* A step of the owner that leaves base and the entries alone keeps what   *)
(* the thieves rely on, provided that it does not shrink the queue.        *)
LEMMA ThiefFrame ==
    ASSUME TypeOK, ThiefInv, UNCHANGED <<base, thiefVars>>,
           EffTop' = EffTop, opc' # "take",
           \A th \in Thieves : /\ pc[th] = "got" => entries'[tb[th]] = entries[tb[th]]
                               /\ pc[th] = "putbase" => entries'[tb[th] - 1] = entries[tb[th] - 1]
    PROVE  ThiefInv'
BY DEF ThiefInv, ThiefOK, thiefVars

(* The owner's steps around the lock, and the calls it starts.             *)
LEMMA OwnerLockIInv ==
    ASSUME IInv,
           OwnerLock \/ OwnerGranted \/ OwnerUnlock \/ PopCall \/ EachCall \/ PopLooksEmpty
    PROVE  IInv'
<1> USE RankFacts DEF IInv
<1>1. LockInv' BY OwnerKeepsLock DEF OwnerCalls, OwnerSteps
<1>2. UNCHANGED <<queueVars, out, oe, thiefVars>>
  BY DEF OwnerLock, OwnerGranted, OwnerUnlock, PopCall, EachCall, PopLooksEmpty
<1>3. EffBase' = EffBase BY <1>2 DEF EffBase, Stealing, queueVars, thiefVars
<1>4. EffTop = top /\ EffTop' = top
  BY <1>2 DEF OwnerLock, OwnerGranted, OwnerUnlock, PopCall, EachCall, PopLooksEmpty,
              EffTop, queueVars
<1>5. opc' \in OwnerLocs /\ op' \in OwnerOps /\ opc' # "take"
  BY DEF OwnerLock, OwnerGranted, OwnerUnlock, PopCall, EachCall, PopLooksEmpty,
         OwnerLocs, OwnerOps, TypeOK
<1>6. holder' \in Ranks \cup {NoRank} /\ waiter' \in {Owner, NoRank}
  BY WsQueueAssumption
     DEF OwnerLock, OwnerGranted, OwnerUnlock, PopCall, EachCall, PopLooksEmpty,
         PrioAcquire, PrioRequest, PrioGrant, Release, mutexVars, TypeOK
<1>7. TypeOK' BY <1>2, <1>5, <1>6 DEF TypeOK, queueVars, thiefVars
<1>8. ThiefInv' BY <1>2, <1>3, <1>4, <1>5, ThiefFrame DEF queueVars, thiefVars
<1>9. ExactlyOnce'
  BY <1>2, <1>3, <1>4, ExactlyOnceFrame DEF queueVars, thiefVars
<1>10. OwnerInv' /\ SlotsInv'
  <2> USE <1>2, <1>3, <1>4 DEF OwnerInv, SlotsInv, queueVars
  <2>1. CASE OwnerLock BY <2>1 DEF OwnerLock
  <2>2. CASE OwnerGranted BY <2>2 DEF OwnerGranted
  <2>3. CASE OwnerUnlock
    <3>1. op = "room" => ~local_empty BY DEF SlotsInv
    <3>. QED BY <2>3, <3>1 DEF OwnerUnlock
  <2>4. CASE PopCall
    <3>1. TooCloseToZero => top < N
      BY WsQueueAssumption DEF TooCloseToZero, Margin, TypeOK
    <3>. QED BY <2>4, <3>1 DEF PopCall
  <2>5. CASE EachCall BY <2>5 DEF EachCall
  <2>6. CASE PopLooksEmpty BY <2>6 DEF PopLooksEmpty
  <2>. QED BY <2>1, <2>2, <2>3, <2>4, <2>5, <2>6
<1>. QED BY <1>1, <1>7, <1>8, <1>9, <1>10

(* push() takes its entry.                                                 *)
LEMMA PushCallIInv == ASSUME IInv, NEW e \in Entry, PushCall(e) PROVE IInv'
<1> USE RankFacts DEF IInv, PushCall, queueVars, mutexVars
<1>1. LockInv' BY OwnerKeepsLock DEF OwnerCalls
<1>2. EffBase' = EffBase /\ EffTop = top /\ EffTop' = top
  BY DEF EffBase, EffTop, Stealing, thiefVars
<1>3. oe = NoEntry BY DEF OwnerInv
<1>4. TypeOK' BY DEF TypeOK, OwnerLocs, OwnerOps, thiefVars
<1>5. OwnerInv'
  <2>1. top # N => top < N BY WsQueueAssumption DEF TypeOK
  <2>. QED BY <2>1, WsQueueAssumption DEF OwnerInv
<1>6. SlotsInv' BY <1>2 DEF SlotsInv, OwnerInv
<1>7. ThiefInv' BY <1>2, ThiefFrame
<1>8. ExactlyOnce'
  <2>1. Slots' = Slots BY <1>2 DEF Slots
  <2>2. \A x : InQueue(x)' <=> InQueue(x) BY <2>1 DEF InQueue
  <2>3. \A x : \A q \in Thieves : Passing(q, x)' <=> Passing(q, x)
    BY DEF Passing, thiefVars
  <2>4. NoEntry \notin Entry BY WsQueueAssumption
  <2>5. NothingLost' BY <1>3, <2>2, <2>3, <2>4 DEF ExactlyOnce, NothingLost, Pushing
  <2>6. NothingDuplicated'
    BY <1>3, <2>1, <2>2, <2>3, <2>4 DEF ExactlyOnce, NothingDuplicated, Pushing
  <2>. QED BY <2>5, <2>6 DEF ExactlyOnce
<1>. QED BY <1>1, <1>4, <1>5, <1>6, <1>7, <1>8

(* push() writes its entry above the top: no slot in use is touched.       *)
LEMMA PushWriteIInv == ASSUME IInv, PushWrite PROVE IInv'
<1> USE RankFacts DEF IInv, PushWrite, mutexVars
<1>1. LockInv' BY OwnerKeepsLock DEF OwnerSteps
<1>2. EffBase' = EffBase /\ EffTop = top /\ EffTop' = top
  BY DEF EffBase, EffTop, Stealing, thiefVars
<1>3. top \in 0..(N - 1) /\ EffBase \in Int /\ EffBase <= top
  BY <1>2, EndsType, WsQueueAssumption DEF SlotsInv, OwnerInv, TypeOK
<1>4. \A i \in 0..(N - 1) : entries'[i] = IF i = top THEN oe ELSE entries[i]
  BY DEF TypeOK
<1>5. TypeOK' BY <1>3 DEF TypeOK, OwnerLocs, thiefVars
<1>6. OwnerInv' BY <1>3, <1>4 DEF OwnerInv
<1>7. SlotsInv' BY <1>2 DEF SlotsInv
<1>8. ThiefInv'
  <2>1. ASSUME NEW th \in Thieves, pc[th] = "got" PROVE entries'[tb[th]] = entries[tb[th]]
    <3>1. tb[th] \in 0..N /\ tb[th] < top
      BY <1>2, <2>1 DEF ThiefInv, ThiefOK, TypeOK
    <3>2. tb[th] \in 0..(N - 1) /\ tb[th] # top BY <1>3, <3>1, WsQueueAssumption
    <3>. QED BY <1>4, <3>2
  <2>2. ASSUME NEW th \in Thieves, pc[th] = "putbase"
        PROVE  entries'[tb[th] - 1] = entries[tb[th] - 1]
    <3>1. holder = th BY <2>2 DEF LockInv, CsLocs
    <3>2. EffBase = base BY <2>2, <3>1, StealingIs DEF EffBase, StealLocs
    <3>3. tb[th] = base /\ base > 0 BY <2>2 DEF ThiefInv, ThiefOK
    <3>4. tb[th] - 1 \in 0..(N - 1) /\ tb[th] - 1 # top
      BY <1>3, <3>2, <3>3, WsQueueAssumption DEF TypeOK
    <3>. QED BY <1>4, <3>4
  <2>. QED BY <1>2, <2>1, <2>2, ThiefFrame
<1>9. ExactlyOnce'
  <2>1. \A i \in Slots : i \in 0..(N - 1) /\ i # top
    BY <1>2, <1>3, WsQueueAssumption DEF Slots, SlotsInv
  <2>2. \A i \in Slots : entries'[i] = entries[i] BY <1>4, <2>1
  <2>. QED BY <1>2, <2>2, ExactlyOnceFrame DEF thiefVars
<1>. QED BY <1>1, <1>5, <1>6, <1>7, <1>8, <1>9

(* push() advances top: its entry is in the queue.                         *)
LEMMA PushStoreIInv == ASSUME IInv, PushStore PROVE IInv'
<1> USE RankFacts DEF IInv, PushStore, mutexVars
<1>1. LockInv' BY OwnerKeepsLock DEF OwnerSteps
<1>2. EffBase' = EffBase /\ EffTop = top /\ EffTop' = top + 1
  BY DEF EffBase, EffTop, Stealing, thiefVars
<1>3. top \in 0..(N - 1) /\ EffBase \in Int /\ EffBase <= top
  BY <1>2, EndsType, WsQueueAssumption DEF SlotsInv, OwnerInv, TypeOK
<1>4. oe \in Entry /\ entries[top] = oe BY DEF OwnerInv, TypeOK
<1>5. TypeOK'
  <2>1. local_empty' \in BOOLEAN BY Zenon
  <2>2. top' \in -1..N BY <1>3, WsQueueAssumption
  <2>. QED BY <2>1, <2>2 DEF TypeOK, OwnerLocs, thiefVars
<1>6. OwnerInv' BY DEF OwnerInv
<1>7. SlotsInv'
  <2>1. ~local_empty' BY DEF SlotsInv
  <2>2. top + 1 <= N BY <1>3, WsQueueAssumption
  <2>. QED BY <1>2, <1>3, <2>1, <2>2 DEF SlotsInv, OwnerInv
<1>8. ThiefInv'
  <2> SUFFICES ASSUME NEW q \in Thieves PROVE ThiefOK(q)'
    BY DEF ThiefInv
  <2>1. ThiefOK(q) BY DEF ThiefInv
  <2>2. tb[q] \in Int BY WsQueueAssumption DEF TypeOK
  <2>. QED BY <1>2, <1>3, <2>1, <2>2 DEF ThiefOK, thiefVars
<1>9. ExactlyOnce'
  <2>1. Slots' = Slots \cup {top} /\ top \notin Slots
    BY <1>2, <1>3 DEF Slots
  <2>2. \A x : InQueue(x)' <=> InQueue(x) \/ x = oe
    BY <1>4, <2>1 DEF InQueue
  <2>3. \A x : \A q \in Thieves : Passing(q, x)' <=> Passing(q, x)
    BY DEF Passing, thiefVars
  <2>4. NothingLost' BY <2>2, <2>3 DEF ExactlyOnce, NothingLost, Pushing
  <2>5. ~InQueue(oe) /\ oe \notin out /\ \A q \in Thieves : ~Passing(q, oe)
    BY <1>4 DEF ExactlyOnce, NothingDuplicated, Pushing
  <2>6. NothingDuplicated'
    <3>1. \A i \in Slots : entries[i] # oe BY <2>5 DEF InQueue
    <3>2. \A i, j \in Slots' : entries[i] = entries[j] => i = j
      BY <1>4, <2>1, <3>1 DEF ExactlyOnce, NothingDuplicated
    <3>3. \A i \in Slots' : entries[i] \in Entry
      BY <1>4, <2>1 DEF ExactlyOnce, NothingDuplicated
    <3>4. \A x \in Entry : x # NoEntry BY WsQueueAssumption
    <3>. QED
      BY <2>2, <2>3, <2>5, <3>2, <3>3, <3>4 DEF ExactlyOnce, NothingDuplicated, Pushing
  <2>. QED BY <2>4, <2>6 DEF ExactlyOnce
<1>. QED BY <1>1, <1>5, <1>6, <1>7, <1>8, <1>9

(* pop() before its decision: the queue is what it was.                    *)
LEMMA PopTryIInv ==
    ASSUME IInv, PopDecrement \/ PopReadBase \/ PopRestore PROVE IInv'
<1> USE RankFacts DEF IInv
<1>1. LockInv' BY OwnerKeepsLock DEF OwnerSteps
<1>2. UNCHANGED <<mutexVars, base, entries, local_empty, out, oe, thiefVars>>
  BY DEF PopDecrement, PopReadBase, PopRestore, queueVars
<1>3. EffBase' = EffBase BY <1>2 DEF EffBase, Stealing, thiefVars
<1>4. top \in Int /\ base \in Int /\ EffBase \in Int /\ EffTop \in Int
  BY EndsType, WsQueueAssumption DEF TypeOK
<1>5. EffTop' = EffTop
  BY <1>4 DEF PopDecrement, PopReadBase, PopRestore, EffTop, queueVars
<1>6. EffBase <= base BY <1>4 DEF EffBase
<1>7. TypeOK'
  <2>1. top' \in -1..N
    <3>1. CASE PopDecrement
      BY <1>4, <3>1, WsQueueAssumption DEF PopDecrement, SlotsInv, EffTop, TypeOK
    <3>2. CASE PopReadBase BY <3>2 DEF PopReadBase, TypeOK, queueVars
    <3>3. CASE PopRestore
      BY <1>4, <3>3, WsQueueAssumption DEF PopRestore, SlotsInv, EffTop, TypeOK
    <3>. QED BY <3>1, <3>2, <3>3
  <2>2. opc' \in OwnerLocs /\ op' \in OwnerOps
    BY DEF PopDecrement, PopReadBase, PopRestore, OwnerLocs, OwnerOps, TypeOK
  <2>. QED BY <1>2, <2>1, <2>2 DEF TypeOK, thiefVars, mutexVars
<1>8. OwnerInv'
  BY <1>2, WsQueueAssumption DEF PopDecrement, PopReadBase, PopRestore, OwnerInv
<1>9. SlotsInv'
  <2>1. ~local_empty /\ op' # "empty" /\ opc' # "full"
    BY DEF PopDecrement, PopReadBase, PopRestore, SlotsInv, OwnerInv
  <2>2. opc' = "take" => EffBase <= top /\ top' = top
    BY <1>4, <1>6 DEF PopDecrement, PopReadBase, PopRestore, queueVars
  <2>. QED BY <1>2, <1>3, <1>5, <2>1, <2>2 DEF SlotsInv
<1>10. ThiefInv'
  <2> SUFFICES ASSUME NEW q \in Thieves PROVE ThiefOK(q)'
    BY DEF ThiefInv
  <2>1. ThiefOK(q) BY DEF ThiefInv
  <2>2. opc' = "take" => base <= top /\ top' = top
    BY DEF PopDecrement, PopReadBase, PopRestore, queueVars
  <2>3. pc[q] \in {"get", "got"} /\ opc' = "take" => tb[q] < top'
    BY <1>4, <2>1, <2>2 DEF ThiefOK, StealLocs
  <2>. QED BY <1>2, <1>5, <2>1, <2>3 DEF ThiefOK, thiefVars
<1>11. ExactlyOnce' BY <1>2, <1>3, <1>5, ExactlyOnceFrame DEF thiefVars
<1>. QED BY <1>1, <1>7, <1>8, <1>9, <1>10, <1>11

(* The entry at the top leaves the queue and is in the owner's hands.      *)
LEMMA ExactlyOnceTake ==
    ASSUME TypeOK, ExactlyOnce, UNCHANGED <<oe, thiefVars, entries>>,
           NEW last \in Slots, Slots' = Slots \ {last},
           out' = out \cup {entries[last]}
    PROVE  ExactlyOnce'
<1>1. entries[last] \in Entry BY DEF ExactlyOnce, NothingDuplicated
<1>2. \A x : InQueue(x)' <=> InQueue(x) /\ x # entries[last]
  BY DEF InQueue, ExactlyOnce, NothingDuplicated
<1>3. InQueue(entries[last]) BY DEF InQueue
<1>4. \A x : \A q \in Thieves : Passing(q, x)' <=> Passing(q, x)
  BY DEF Passing, thiefVars
<1>5. NothingLost' BY <1>2, <1>4 DEF ExactlyOnce, NothingLost, Pushing
<1>6. NothingDuplicated'
  BY <1>1, <1>2, <1>3, <1>4 DEF ExactlyOnce, NothingDuplicated, Pushing
<1>. QED BY <1>5, <1>6 DEF ExactlyOnce

(* pop() takes without the lock.                                           *)
LEMMA PopTakeIInv == ASSUME IInv, PopTake PROVE IInv'
<1> USE RankFacts DEF IInv, PopTake, queueVars, mutexVars
<1>1. LockInv' BY OwnerKeepsLock DEF OwnerSteps
<1>2. EffBase' = EffBase /\ EffTop = top + 1 /\ EffTop' = top
  BY DEF EffBase, EffTop, Stealing, thiefVars
<1>3. top \in Int /\ EffBase \in Int /\ EffBase <= top
  BY EndsType, WsQueueAssumption DEF SlotsInv, TypeOK
<1>4. top \in Slots /\ Slots' = Slots \ {top} BY <1>2, <1>3 DEF Slots
<1>5. entries[top] \in Entry BY <1>4 DEF ExactlyOnce, NothingDuplicated
<1>6. TypeOK' BY <1>5 DEF TypeOK, OwnerLocs, thiefVars
<1>7. OwnerInv' BY DEF OwnerInv
<1>8. SlotsInv'
  <2>1. ~local_empty /\ op # "empty" BY DEF SlotsInv, OwnerInv
  <2>2. top <= N BY <1>2, <1>3, WsQueueAssumption DEF SlotsInv
  <2>. QED BY <1>2, <1>3, <2>1, <2>2 DEF SlotsInv
<1>9. ThiefInv'
  <2> SUFFICES ASSUME NEW q \in Thieves PROVE ThiefOK(q)'
    BY DEF ThiefInv
  <2>1. ThiefOK(q) BY DEF ThiefInv
  <2>. QED BY <1>2, <2>1 DEF ThiefOK, thiefVars
<1>10. ExactlyOnce' BY <1>4, ExactlyOnceTake
<1>. QED BY <1>1, <1>6, <1>7, <1>8, <1>9, <1>10

(* While the owner holds the lock, no thief is in the middle of anything.  *)
LEMMA OwnerAlone ==
    ASSUME TypeOK, LockInv, opc \in OwnerCs
    PROVE  /\ \A th \in Thieves : pc[th] \in {"idle", "passlock"}
           /\ EffBase = base /\ holder = Owner
<1>1. holder = Owner BY DEF LockInv
<1>2. \A th \in Thieves : pc[th] \in {"idle", "passlock"}
  BY <1>1, RankFacts DEF TypeOK, LockInv, CsLocs, ThiefLocs
<1>3. EffBase = base BY <1>1, RankFacts, StealingIs DEF EffBase
<1>. QED BY <1>1, <1>2, <1>3

(* What an owner's step under the lock cannot disturb.                     *)
LEMMA OwnerAloneFrame ==
    ASSUME TypeOK, LockInv, ThiefInv, opc \in OwnerCs,
           opc' \in OwnerCs, UNCHANGED <<mutexVars, thiefVars>>
    PROVE  /\ ThiefInv'
           /\ EffBase' = base' /\ EffTop = top /\ EffTop' = top'
<1>1. \A th \in Thieves : pc[th] \in {"idle", "passlock"} BY OwnerAlone
<1>2. ThiefInv'
  BY <1>1 DEF ThiefInv, ThiefOK, thiefVars, StealLocs, PassLocs
<1>3. ~Stealing' BY <1>1 DEF Stealing, StealLocs, thiefVars
<1>. QED BY <1>2, <1>3 DEF EffBase, EffTop, OwnerCs

(* for_each_entry().                                                       *)
LEMMA EachWalkIInv == ASSUME IInv, EachWalk PROVE IInv'
<1> USE RankFacts DEF IInv, EachWalk
<1>1. LockInv' BY OwnerKeepsLock DEF OwnerSteps
<1>2. EffBase = base BY OwnerAlone DEF OwnerCs
<1>3. ThiefInv' /\ EffBase' = base /\ EffTop = top /\ EffTop' = top
  BY OwnerAloneFrame DEF OwnerCs
<1>4. TypeOK'
  <2>1. local_empty' \in BOOLEAN BY Zenon
  <2>. QED BY <2>1 DEF TypeOK, OwnerLocs, thiefVars, mutexVars
<1>5. OwnerInv' BY DEF OwnerInv
<1>6. SlotsInv'
  <2>1. base \in Int /\ top \in Int BY WsQueueAssumption DEF TypeOK
  <2>2. local_empty' => base = top /\ ~EnablePass
    <3>1. CASE local_empty BY <1>2, <1>3, <3>1 DEF SlotsInv
    <3>2. CASE ~EnablePass /\ top <= base BY <1>2, <1>3, <2>1, <3>2 DEF SlotsInv
    <3>. QED BY <3>1, <3>2
  <2>. QED BY <1>2, <1>3, <2>2 DEF SlotsInv
<1>7. ExactlyOnce' BY <1>2, <1>3, ExactlyOnceFrame DEF thiefVars
<1>. QED BY <1>1, <1>3, <1>4, <1>5, <1>6, <1>7

(* The decision of pop() under the lock.                                   *)
LEMMA PopLockedIInv == ASSUME IInv, PopLocked PROVE IInv'
<1> USE RankFacts DEF IInv
<1>1. LockInv' BY OwnerKeepsLock DEF OwnerSteps
<1>2. opc = "cs" /\ op = "pop" /\ opc' = "unlock" /\ UNCHANGED <<mutexVars, oe, thiefVars>>
      /\ UNCHANGED entries
  BY DEF PopLocked, ResetQueue
<1>3. EffBase = base BY <1>2, OwnerAlone DEF OwnerCs
<1>4. ThiefInv' /\ EffBase' = base' /\ EffTop = top /\ EffTop' = top'
  BY <1>2, OwnerAloneFrame DEF OwnerCs
<1>5. base \in 0..N /\ top \in 0..N /\ base <= top
  BY <1>3, <1>4, WsQueueAssumption DEF SlotsInv, TypeOK
<1>6. initial_pos \in 0..N BY WsQueueAssumption DEF initial_pos
<1>7. oe = NoEntry BY <1>2 DEF OwnerInv
<1>8. CASE base < top - 1
  <2>1. top' = top - 1 /\ base' = base /\ op' = op /\ local_empty' = local_empty
        /\ out' = out \cup {entries[top - 1]}
    BY <1>5, <1>8 DEF PopLocked
  <2>2. top - 1 \in Slots /\ Slots' = Slots \ {top - 1}
    BY <1>3, <1>4, <1>5, <1>8, <2>1 DEF Slots
  <2>3. entries[top - 1] \in Entry BY <2>2 DEF ExactlyOnce, NothingDuplicated
  <2>4. top' \in -1..N BY <1>5, <2>1, WsQueueAssumption
  <2>5. TypeOK' BY <1>2, <2>1, <2>3, <2>4 DEF TypeOK, OwnerLocs, thiefVars, mutexVars
  <2>6. OwnerInv' BY <1>2, <1>7, <2>1 DEF OwnerInv
  <2>7. ~local_empty BY <1>3, <1>4, <1>5, <1>8 DEF SlotsInv
  <2>8. SlotsInv'
    BY <1>2, <1>4, <1>5, <1>8, <2>1, <2>7, WsQueueAssumption DEF SlotsInv
  <2>9. ExactlyOnce' BY <1>2, <2>1, <2>2, ExactlyOnceTake
  <2>. QED BY <1>1, <1>4, <2>5, <2>6, <2>8, <2>9
<1>9. CASE base = top - 1
  <2>1. ResetQueue /\ op' = op /\ out' = out \cup {entries[top - 1]}
    BY <1>5, <1>9 DEF PopLocked
  <2>2. top - 1 \in Slots /\ Slots = {top - 1} /\ Slots' = {}
    BY <1>3, <1>4, <1>5, <1>6, <1>9, <2>1 DEF Slots, ResetQueue
  <2>3. entries[top - 1] \in Entry BY <2>2 DEF ExactlyOnce, NothingDuplicated
  <2>4. local_empty' \in BOOLEAN BY <2>1, Zenon DEF ResetQueue
  <2>5. top' \in -1..N /\ base' \in 0..(N + 1)
    BY <1>6, <2>1, WsQueueAssumption DEF ResetQueue
  <2>6. TypeOK' BY <1>2, <2>1, <2>3, <2>4, <2>5 DEF TypeOK, OwnerLocs, thiefVars, mutexVars
  <2>7. OwnerInv' BY <1>2, <1>7, <2>1 DEF OwnerInv
  <2>8. local_empty' => ~EnablePass BY <2>1 DEF ResetQueue, SlotsInv
  <2>9. SlotsInv'
    BY <1>2, <1>4, <1>6, <2>1, <2>8, WsQueueAssumption DEF SlotsInv, ResetQueue
  <2>10. ExactlyOnce' BY <1>2, <2>1, <2>2, ExactlyOnceTake
  <2>. QED BY <1>1, <1>4, <2>6, <2>7, <2>9, <2>10
<1>10. CASE base > top - 1
  <2>1. ResetQueue /\ op' = "empty" /\ out' = out
    BY <1>5, <1>10 DEF PopLocked
  <2>2. Slots = {} /\ Slots' = {}
    BY <1>3, <1>4, <1>5, <1>6, <1>10, <2>1 DEF Slots, ResetQueue
  <2>3. local_empty' \in BOOLEAN BY <2>1, Zenon DEF ResetQueue
  <2>4. top' \in -1..N /\ base' \in 0..(N + 1)
    BY <1>6, <2>1, WsQueueAssumption DEF ResetQueue
  <2>5. TypeOK' BY <1>2, <2>1, <2>3, <2>4 DEF TypeOK, OwnerLocs, OwnerOps, thiefVars, mutexVars
  <2>6. OwnerInv' BY <1>2, <1>7, <2>1 DEF OwnerInv
  <2>7. local_empty' => ~EnablePass BY <2>1 DEF ResetQueue, SlotsInv
  <2>8. SlotsInv'
    BY <1>2, <1>4, <1>6, <2>1, <2>7, WsQueueAssumption DEF SlotsInv, ResetQueue
  <2>9. ExactlyOnce'
    <3>1. \A x : ~InQueue(x) /\ ~InQueue(x)' BY <2>2 DEF InQueue
    <3>2. \A x : \A q \in Thieves : Passing(q, x)' <=> Passing(q, x)
      BY <1>2 DEF Passing, thiefVars
    <3>3. NothingLost' BY <1>2, <2>1, <3>1, <3>2 DEF ExactlyOnce, NothingLost, Pushing
    <3>4. NothingDuplicated'
      BY <1>2, <2>1, <2>2, <3>1, <3>2 DEF ExactlyOnce, NothingDuplicated, Pushing
    <3>. QED BY <3>3, <3>4 DEF ExactlyOnce
  <2>. QED BY <1>1, <1>4, <2>5, <2>6, <2>8, <2>9
<1>. QED BY <1>5, <1>8, <1>9, <1>10

(* move_entries(): the entries keep their order and nothing else changes.  *)
LEMMA MoveIInv ==
    ASSUME IInv, NEW offset \in Int, opc = "cs", op \in {"push", "room"},
           move_entries(offset), UNCHANGED <<mutexVars, out, op, oe, thiefVars>>, LockInv',
           op = "push" => offset <= 0 /\ base + offset >= 0 /\ (offset = 0 => base = 0),
           op = "room" => offset > 0 /\ top + offset <= N
    PROVE  IInv'
<1> USE RankFacts DEF IInv
<1>1. EffBase = base BY OwnerAlone DEF OwnerCs
<1>2. opc' \in {"unlock", "full"} BY DEF move_entries
<1>3. ThiefInv' /\ EffBase' = base' /\ EffTop = top /\ EffTop' = top'
  BY <1>2, OwnerAloneFrame DEF OwnerCs
<1>4. base \in 0..N /\ top \in 0..N /\ base <= top
  BY <1>1, <1>3, WsQueueAssumption DEF SlotsInv, TypeOK
<1>5. CASE offset = 0 \/ base + offset < 0 \/ N < top + offset
  <2>1. opc' = "full" /\ UNCHANGED queueVars
    BY <1>5, <1>4, WsQueueAssumption DEF move_entries
  <2>2. op = "push" /\ base = 0 /\ top = N
    BY <1>4, <1>5, WsQueueAssumption DEF OwnerInv
  <2>3. TypeOK' BY <2>1 DEF TypeOK, OwnerLocs, queueVars, thiefVars, mutexVars
  <2>4. OwnerInv' BY <2>1, <2>2 DEF OwnerInv, queueVars
  <2>5. SlotsInv' BY <1>1, <1>3, <2>1, <2>2 DEF SlotsInv, queueVars
  <2>6. ExactlyOnce'
    BY <1>1, <1>3, <2>1, ExactlyOnceFrame DEF queueVars, thiefVars
  <2>. QED BY <1>3, <2>3, <2>4, <2>5, <2>6
<1>6. CASE ~(offset = 0 \/ base + offset < 0 \/ N < top + offset)
  <2>1. /\ top' = top + offset /\ base' = base + offset
        /\ opc' = "unlock" /\ UNCHANGED local_empty
        /\ entries' = [i \in 0..(N - 1) |->
                         IF i - offset \in base..(top - 1) THEN entries[i - offset]
                                                           ELSE entries[i]]
    BY <1>6 DEF move_entries
  <2>2. base' \in 0..N /\ top' \in 0..N /\ base' <= top' /\ (op = "push" => top' < N)
    BY <1>4, <1>6, <2>1, WsQueueAssumption DEF OwnerInv
  <2>3. \A i \in Slots' : i \in 0..(N - 1) /\ i - offset \in Slots
                          /\ entries'[i] = entries[i - offset]
    BY <1>1, <1>3, <1>4, <2>1, <2>2, WsQueueAssumption DEF Slots
  <2>4. \A i \in Slots : i + offset \in Slots' /\ entries'[i + offset] = entries[i]
    <3> SUFFICES ASSUME NEW i \in Slots
                 PROVE  i + offset \in Slots' /\ entries'[i + offset] = entries[i]
      OBVIOUS
    <3>1. i \in Int /\ i + offset \in Slots' /\ (i + offset) - offset = i
      BY <1>1, <1>3, <1>4, <2>1 DEF Slots
    <3>. QED BY <2>3, <3>1
  <2>5. entries' \in [0..(N - 1) -> Entry \cup {NoEntry}]
    <3> SUFFICES ASSUME NEW i \in 0..(N - 1) PROVE entries'[i] \in Entry \cup {NoEntry}
      BY <2>1
    <3>1. CASE i - offset \in base..(top - 1)
      <4>1. i - offset \in 0..(N - 1) BY <1>4, <3>1, WsQueueAssumption
      <4>. QED BY <2>1, <3>1, <4>1 DEF TypeOK
    <3>2. CASE i - offset \notin base..(top - 1) BY <2>1, <3>2 DEF TypeOK
    <3>. QED BY <3>1, <3>2
  <2>6. TypeOK'
    <3>1. top' \in -1..N /\ base' \in 0..(N + 1) BY <2>2, WsQueueAssumption
    <3>. QED BY <2>1, <2>5, <3>1 DEF TypeOK, OwnerLocs, thiefVars, mutexVars
  <2>7. OwnerInv' BY <2>1, <2>2 DEF OwnerInv
  <2>8. SlotsInv'
    BY <1>1, <1>3, <1>4, <2>1, <2>2 DEF SlotsInv, OwnerInv
  <2>9. ExactlyOnce'
    <3>1. \A x : InQueue(x)' <=> InQueue(x) BY <2>3, <2>4 DEF InQueue
    <3>2. \A x : \A q \in Thieves : Passing(q, x)' <=> Passing(q, x)
      BY DEF Passing, thiefVars
    <3>3. NothingLost' BY <3>1, <3>2 DEF ExactlyOnce, NothingLost, Pushing
    <3>4. \A i \in Slots' : entries'[i] \in Entry
      BY <2>3 DEF ExactlyOnce, NothingDuplicated
    <3>5. \A i, j \in Slots' : entries'[i] = entries'[j] => i = j
      <4> SUFFICES ASSUME NEW i \in Slots', NEW j \in Slots', entries'[i] = entries'[j]
                   PROVE  i = j
        OBVIOUS
      <4>1. i - offset = j - offset BY <2>3 DEF ExactlyOnce, NothingDuplicated
      <4>. QED BY <2>3, <4>1, WsQueueAssumption
    <3>6. NothingDuplicated'
      BY <3>1, <3>2, <3>4, <3>5 DEF ExactlyOnce, NothingDuplicated, Pushing
    <3>. QED BY <3>3, <3>6 DEF ExactlyOnce
  <2>. QED BY <1>3, <2>6, <2>7, <2>8, <2>9
<1>. QED BY <1>5, <1>6

(* The two callers of move_entries() pass offsets that fit.                *)
LEMMA MovesIInv == ASSUME IInv, PushMove \/ PopMove PROVE IInv'
<1> USE RankFacts DEF IInv
<1>1. LockInv' BY OwnerKeepsLock DEF OwnerSteps
<1>2. EffBase = base /\ EffTop = top
  BY OwnerAlone DEF PushMove, PopMove, OwnerCs, EffTop
<1>3. base \in 0..N /\ top \in 0..N /\ base <= top
  BY <1>2, WsQueueAssumption DEF SlotsInv, TypeOK
<1>4. CASE PushMove
  <2> DEFINE offset == -((base + 1) \div 2)
  <2>1. offset \in Int /\ offset <= 0 /\ base + offset >= 0 /\ (offset = 0 => base = 0)
    BY <1>3, WsQueueAssumption
  <2>2. /\ opc = "cs" /\ op = "push" /\ move_entries(offset)
        /\ UNCHANGED <<mutexVars, out, op, oe, thiefVars>>
    BY <1>4 DEF PushMove
  <2> HIDE DEF offset
  <2>. QED BY <1>1, <2>1, <2>2, MoveIInv
<1>5. CASE PopMove
  <2> DEFINE offset == (N - top + 1) \div 2
  <2>1. top < N BY <1>5 DEF PopMove, OwnerInv
  <2>2. offset \in Int /\ offset > 0 /\ top + offset <= N
    BY <1>3, <2>1, WsQueueAssumption
  <2>3. /\ opc = "cs" /\ op = "room" /\ move_entries(offset)
        /\ UNCHANGED <<mutexVars, out, op, oe, thiefVars>>
    BY <1>5 DEF PopMove
  <2> HIDE DEF offset
  <2>. QED BY <1>1, <2>2, <2>3, MoveIInv
<1>. QED BY <1>4, <1>5

(* Every step of the queue preserves the invariant.                        *)
LEMMA NextIInv == IInv /\ [Next]_vars => IInv'
<1> SUFFICES ASSUME IInv, [Next]_vars PROVE IInv'
  OBVIOUS
<1>1. CASE OwnerCalls
  BY <1>1, OwnerLockIInv, PushCallIInv DEF OwnerCalls
<1>2. CASE OwnerSteps
  BY <1>2, OwnerLockIInv, PushWriteIInv, PushStoreIInv, PopTryIInv, PopTakeIInv,
     PopLockedIInv, EachWalkIInv, MovesIInv DEF OwnerSteps
<1>3. CASE \E th \in Thieves : ThiefCalls(th) \/ ThiefSteps(th)
  BY <1>3, ThiefIInv
<1>4. CASE UNCHANGED vars
  <2> USE <1>4 DEF vars, mutexVars, queueVars, ownerVars, thiefVars
  <2>1. EffBase' = EffBase /\ EffTop' = EffTop BY DEF EffBase, EffTop, Stealing
  <2>2. TypeOK' /\ LockInv' /\ OwnerInv' BY DEF IInv, TypeOK, LockInv, OwnerInv
  <2>3. SlotsInv' BY <2>1 DEF IInv, SlotsInv
  <2>4. ThiefInv' BY <2>1 DEF IInv, ThiefInv, ThiefOK
  <2>5. ExactlyOnce' BY <2>1, ExactlyOnceFrame DEF IInv
  <2>. QED BY <2>2, <2>3, <2>4, <2>5 DEF IInv
<1>. QED BY <1>1, <1>2, <1>3, <1>4 DEF Next

(* The inductive invariant of the queue.                                   *)
LEMMA Inductive == Spec => []IInv
BY InitIInv, NextIInv, PTL DEF Spec

--------------------------------------------------------------------------------
(* The variables of the queue stay in their types; in particular top and   *)
(* base never leave the array by more than one.                            *)
THEOREM TypeCorrect == Spec => []TypeOK
BY Inductive, PTL DEF IInv

(* No entry is lost or duplicated by any interleaving of push, pop, steal, *)
(* aborted steal and pass.                                                 *)
THEOREM EntriesExactlyOnce == Spec => []ExactlyOnce
BY Inductive, PTL DEF IInv

(* The assertion in move_entries() never fails.                            *)
THEOREM MoveCheckHolds == Spec => []MoveCheck
<1>1. IInv => MoveCheck
  <2> SUFFICES ASSUME IInv, opc = "cs" PROVE base <= top
    BY DEF MoveCheck
  <2>1. EffBase = base BY OwnerAlone DEF IInv, OwnerCs
  <2>. QED BY <2>1 DEF IInv, SlotsInv, EffTop
<1>. QED BY Inductive, <1>1, PTL

(* The full exception is thrown only when the array really is full.        *)
THEOREM FullOnlyWhenFull == Spec => []FullMeansFull
<1>1. IInv => FullMeansFull
  BY DEF IInv, FullMeansFull, SlotsInv, OwnerInv, EffTop
<1>. QED BY Inductive, <1>1, PTL

(* pop() reports emptiness only of an empty queue.                         *)
THEOREM EmptyOnlyWhenEmpty == Spec => []PopEmptyIsEmpty
<1>1. IInv => PopEmptyIsEmpty
  <2> SUFFICES ASSUME IInv, op = "empty" PROVE Slots = {}
    BY DEF PopEmptyIsEmpty
  <2>1. EffBase = EffTop BY DEF IInv, SlotsInv
  <2>2. EffTop \in Int BY EndsType DEF IInv
  <2>. QED BY <2>1, <2>2 DEF Slots
<1>. QED BY Inductive, <1>1, PTL

(* The cached emptiness of a queue without pass() is never stale.          *)
THEOREM LocalEmptyIsSound == Spec => []LocalEmptySound
<1>1. IInv => LocalEmptySound
  <2> SUFFICES ASSUME IInv, local_empty PROVE Slots = {}
    BY DEF LocalEmptySound
  <2>1. EffBase = EffTop BY DEF IInv, SlotsInv
  <2>2. EffTop \in Int BY EndsType DEF IInv
  <2>. QED BY <2>1, <2>2 DEF Slots
<1>. QED BY Inductive, <1>1, PTL

--------------------------------------------------------------------------------
(***************************************************************************)
(* The queue implements the atomic deque.  The entries in the queue, from  *)
(* EffBase to EffTop, decide the abstract state: by ExactlyOnce, the other *)
(* entries are the ones in the hands of workers.                           *)
(***************************************************************************)
(* The abstract sequence.                                                  *)
ItemsShape ==
    /\ Items \in Seq(Entry) /\ Len(Items) = EffTop - EffBase
    /\ EffBase \in Int /\ EffTop \in Int /\ EffBase <= EffTop
    /\ EffTop - EffBase \in 0..N
    /\ \A i \in 1..(EffTop - EffBase) : Items[i] = entries[EffBase + i - 1]
    /\ \A i, j \in 1..(EffTop - EffBase) : Items[i] = Items[j] => i = j

(* The slots in use hold distinct entries.                                 *)
LEMMA ItemsAre == IInv => ItemsShape
<1> SUFFICES ASSUME IInv PROVE ItemsShape
  OBVIOUS
<1>1. EffBase \in Int /\ EffTop \in Int /\ EffBase <= EffTop /\ EffTop - EffBase \in 0..N
  BY EndsType, WsQueueAssumption DEF IInv, SlotsInv
<1> DEFINE n == EffTop - EffBase
<1>2. n \in Nat BY <1>1
<1>3. \A i \in 1..n : EffBase + i - 1 \in Slots BY <1>1 DEF Slots
<1>4. \A i \in 1..n : entries[EffBase + i - 1] \in Entry
  BY <1>3 DEF IInv, ExactlyOnce, NothingDuplicated
<1>5. \A i \in 1..n : Items[i] = entries[EffBase + i - 1] BY DEF Items
<1>6. Items \in [1..n -> Entry] BY <1>4 DEF Items
<1>7. \A i, j \in 1..n : Items[i] = Items[j] => i = j
  <2> SUFFICES ASSUME NEW i \in 1..n, NEW j \in 1..n, Items[i] = Items[j] PROVE i = j
    OBVIOUS
  <2>1. EffBase + i - 1 = EffBase + j - 1
    BY <1>3, <1>5 DEF IInv, ExactlyOnce, NothingDuplicated
  <2>. QED BY <1>1, <2>1
<1>8. Items \in Seq(Entry) /\ Len(Items) = n
  <2> HIDE DEF n
  <2>. QED BY <1>2, <1>6
<1>. QED BY <1>1, <1>5, <1>7, <1>8 DEF ItemsShape

(* An entry is in the hands of a worker if and only if it is not in the    *)
(* queue.                                                                  *)
OwnedShape == Owned = {e \in Entry : \A i \in 1..(EffTop - EffBase) : Items[i] # e}

(* This is ExactlyOnce, seen from the abstract deque.                      *)
LEMMA OwnedAre == IInv => OwnedShape
<1> SUFFICES ASSUME IInv PROVE OwnedShape
  OBVIOUS
<1> USE ItemsAre DEF ItemsShape
<1>1. ASSUME NEW e \in Entry
      PROVE  InQueue(e) <=> \E i \in 1..(EffTop - EffBase) : Items[i] = e
  <2>1. ASSUME NEW i \in Slots PROVE i - EffBase + 1 \in 1..(EffTop - EffBase)
                                     /\ Items[i - EffBase + 1] = entries[i]
    <3>1. i - EffBase + 1 \in 1..(EffTop - EffBase) /\ EffBase + (i - EffBase + 1) - 1 = i
      BY DEF Slots
    <3>. QED BY <3>1
  <2>2. \A i \in 1..(EffTop - EffBase) : EffBase + i - 1 \in Slots
    BY DEF Slots
  <2>3. InQueue(e) => \E i \in 1..(EffTop - EffBase) : Items[i] = e
    BY <2>1, Zenon DEF InQueue
  <2>4. ASSUME NEW i \in 1..(EffTop - EffBase), Items[i] = e PROVE InQueue(e)
    BY <2>2, <2>4 DEF InQueue
  <2>. QED BY <2>3, <2>4
<1>2. \A e \in Entry : e \in Owned <=> ~InQueue(e)
  BY DEF Owned, IInv, ExactlyOnce, NothingLost, NothingDuplicated
<1>. QED BY <1>1, <1>2 DEF Owned, OwnedShape

(* Both hold before and after every step.                                  *)
LEMMA ItemsBecome == IInv' => ItemsShape'
BY ItemsAre, PTL

(* The entries in the hands of workers after a step.                       *)
LEMMA OwnedBecome == IInv' => OwnedShape'
BY OwnedAre, PTL

(* A step that leaves the entries in the queue, wherever they lie in the   *)
(* array, does nothing to the deque.                                       *)
LEMMA StepStutters ==
    ASSUME IInv, IInv', EffTop' - EffBase' = EffTop - EffBase,
           \A i \in 1..(EffTop - EffBase) : entries'[EffBase' + i - 1] = entries[EffBase + i - 1]
    PROVE  UNCHANGED Deque!dequeVars
<1>1. Items' = Items BY DEF Items
<1>2. Owned' = Owned BY <1>1, OwnedAre, OwnedBecome DEF OwnedShape
<1>. QED BY <1>1, <1>2 DEF Deque!dequeVars

(* The entry at the top leaves.                                            *)
LEMMA StepPops ==
    ASSUME IInv, IInv', EffBase < EffTop, EffTop' - EffBase' = EffTop - EffBase - 1,
           \A i \in 1..(EffTop - EffBase - 1) : entries'[EffBase' + i - 1] = entries[EffBase + i - 1]
    PROVE  Deque!PopTop
<1> DEFINE n == EffTop - EffBase
<1>1. /\ Items \in Seq(Entry) /\ Len(Items) = n /\ n \in Nat \ {0}
      /\ Items' \in Seq(Entry) /\ Len(Items') = n - 1
  BY ItemsAre, ItemsBecome DEF ItemsShape
<1>2. \A i \in 1..(n - 1) : Items'[i] = Items[i]
  <2> SUFFICES ASSUME NEW i \in 1..(n - 1) PROVE Items'[i] = Items[i]
    OBVIOUS
  <2>1. i \in 1..(EffTop' - EffBase') /\ i \in 1..(EffTop - EffBase)
    BY ItemsAre DEF ItemsShape
  <2>. QED BY <2>1, ItemsAre, ItemsBecome DEF ItemsShape
<1>3. \A i \in 1..(n - 1) : Items[i] # Items[n]
  BY <1>1, ItemsAre DEF ItemsShape
<1>4. Owned' = {e \in Entry : \A i \in 1..(n - 1) : Items'[i] # e}
  BY OwnedBecome DEF OwnedShape
<1>5. Owned = {e \in Entry : \A i \in 1..n : Items[i] # e}
  BY OwnedAre DEF OwnedShape
<1> HIDE DEF n
<1>6. Items' = SubSeq(Items, 1, n - 1)
  BY <1>1, <1>2
<1>7. Owned' = Owned \cup {Items[n]}
  <2>1. Items[n] \in Entry BY <1>1
  <2>2. \A i \in 1..n : i = n \/ i \in 1..(n - 1) BY <1>1
  <2>3. n \in 1..n /\ \A i \in 1..(n - 1) : i \in 1..n BY <1>1
  <2>. QED BY <1>2, <1>3, <1>4, <1>5, <2>1, <2>2, <2>3
<1>. QED BY <1>1, <1>6, <1>7 DEF Deque!PopTop

(* The entry at the base leaves.                                           *)
LEMMA StepSteals ==
    ASSUME IInv, IInv', EffBase < EffTop, EffBase' = EffBase + 1, EffTop' = EffTop,
           entries' = entries
    PROVE  Deque!StealBase
<1> DEFINE n == EffTop - EffBase
<1>1. /\ Items \in Seq(Entry) /\ Len(Items) = n /\ n \in Nat \ {0}
      /\ Items' \in Seq(Entry) /\ Len(Items') = n - 1
  BY ItemsAre, ItemsBecome DEF ItemsShape
<1>2. \A i \in 1..(n - 1) : Items'[i] = Items[i + 1]
  <2> SUFFICES ASSUME NEW i \in 1..(n - 1) PROVE Items'[i] = Items[i + 1]
    OBVIOUS
  <2>0. EffBase \in Int /\ EffTop \in Int BY ItemsAre DEF ItemsShape
  <2>1. i \in 1..(EffTop' - EffBase') /\ i + 1 \in 1..n /\ EffBase' + i - 1 = EffBase + (i + 1) - 1
    BY <2>0
  <2>2. Items'[i] = entries[EffBase' + i - 1] BY <2>1, ItemsBecome DEF ItemsShape
  <2>3. Items[i + 1] = entries[EffBase + (i + 1) - 1] BY <2>1, ItemsAre DEF ItemsShape
  <2>. QED BY <2>1, <2>2, <2>3
<1>3. \A i \in 2..n : Items[i] # Items[1]
  BY <1>1, ItemsAre DEF ItemsShape
<1>4. Owned' = {e \in Entry : \A i \in 1..(n - 1) : Items'[i] # e}
  <2>1. EffTop' - EffBase' = n - 1 BY ItemsAre DEF ItemsShape
  <2>. QED BY <2>1, OwnedBecome DEF OwnedShape
<1>5. Owned = {e \in Entry : \A i \in 1..n : Items[i] # e}
  BY OwnedAre DEF OwnedShape
<1> HIDE DEF n
<1>6. Items' = Tail(Items)
  BY <1>1, <1>2
<1>7. Owned' = Owned \cup {Items[1]}
  <2>1. Items[1] \in Entry BY <1>1
  <2>2. \A e : (\A i \in 1..(n - 1) : Items[i + 1] # e) <=> (\A i \in 2..n : Items[i] # e)
    <3> SUFFICES ASSUME NEW e
                 PROVE  (\A i \in 1..(n - 1) : Items[i + 1] # e) <=> (\A i \in 2..n : Items[i] # e)
      OBVIOUS
    <3>1. \A i \in 2..n : i - 1 \in 1..(n - 1) /\ (i - 1) + 1 = i BY <1>1
    <3>2. \A i \in 1..(n - 1) : i + 1 \in 2..n BY <1>1
    <3>. QED BY <3>1, <3>2
  <2>3. \A i \in 1..n : i = 1 \/ i \in 2..n BY <1>1
  <2>4. 1 \in 1..n /\ \A i \in 2..n : i \in 1..n BY <1>1
  <2>5. \A e \in Entry : e \in Owned' <=> \A i \in 2..n : Items[i] # e
    BY <1>2, <1>4, <2>2
  <2>. QED BY <1>3, <1>4, <1>5, <2>1, <2>3, <2>4, <2>5
<1>8. Head(Items) = Items[1] BY <1>1
<1>. QED BY <1>1, <1>6, <1>7, <1>8 DEF Deque!StealBase

(* An entry comes in at the top.                                           *)
LEMMA StepPushes ==
    ASSUME IInv, IInv', EffBase' = EffBase, EffTop' = EffTop + 1,
           \A i \in Slots : entries'[i] = entries[i]
    PROVE  Deque!PushTop
<1> DEFINE n == EffTop - EffBase
           e == Items'[n + 1]
<1>1. /\ Items \in Seq(Entry) /\ Len(Items) = n /\ n \in Nat /\ n < N
      /\ Items' \in Seq(Entry) /\ Len(Items') = n + 1
  BY ItemsAre, ItemsBecome, WsQueueAssumption DEF ItemsShape
<1>2. \A i \in 1..n : Items'[i] = Items[i]
  <2> SUFFICES ASSUME NEW i \in 1..n PROVE Items'[i] = Items[i]
    OBVIOUS
  <2>1. i \in 1..(EffTop' - EffBase') /\ EffBase + i - 1 \in Slots
    BY ItemsAre DEF Slots, ItemsShape
  <2>. QED BY <2>1, ItemsAre, ItemsBecome DEF ItemsShape
<1>3. \A i \in 1..n : Items'[i] # e
  BY <1>1, ItemsBecome DEF ItemsShape
<1>4. Owned' = {x \in Entry : \A i \in 1..(n + 1) : Items'[i] # x}
  <2>1. EffTop' - EffBase' = n + 1 BY ItemsAre DEF ItemsShape
  <2>. QED BY <2>1, OwnedBecome DEF OwnedShape
<1>5. Owned = {x \in Entry : \A i \in 1..n : Items[i] # x}
  BY OwnedAre DEF OwnedShape
<1> HIDE DEF n
<1>6. Items' = Append(Items, e)
  BY <1>1, <1>2
<1>7. e \in Entry BY <1>1
<1>8. e \in Owned BY <1>2, <1>3, <1>5, <1>7
<1>9. Owned' = Owned \ {e}
  <2>1. \A i \in 1..(n + 1) : i = n + 1 \/ i \in 1..n BY <1>1
  <2>2. n + 1 \in 1..(n + 1) /\ \A i \in 1..n : i \in 1..(n + 1) BY <1>1
  <2>. QED BY <1>2, <1>4, <1>5, <2>1, <2>2
<1> HIDE DEF e
<1>. QED BY <1>1, <1>6, <1>8, <1>9 DEF Deque!PushTop

(* An entry comes in at the base.                                          *)
LEMMA StepPasses ==
    ASSUME IInv, IInv', EffBase' = EffBase - 1, EffTop' = EffTop, entries' = entries
    PROVE  Deque!PassBase
<1> DEFINE n == EffTop - EffBase
           e == Items'[1]
<1>1. /\ Items \in Seq(Entry) /\ Len(Items) = n /\ n \in Nat /\ n < N
      /\ Items' \in Seq(Entry) /\ Len(Items') = n + 1
  BY ItemsAre, ItemsBecome, WsQueueAssumption DEF ItemsShape
<1>2. \A i \in 1..n : Items'[i + 1] = Items[i]
  <2> SUFFICES ASSUME NEW i \in 1..n PROVE Items'[i + 1] = Items[i]
    OBVIOUS
  <2>0. EffBase \in Int /\ EffTop \in Int BY ItemsAre DEF ItemsShape
  <2>1. i + 1 \in 1..(EffTop' - EffBase') /\ EffBase' + (i + 1) - 1 = EffBase + i - 1
    BY <2>0
  <2>2. Items'[i + 1] = entries'[EffBase' + (i + 1) - 1] BY <2>1, ItemsBecome DEF ItemsShape
  <2>3. Items[i] = entries[EffBase + i - 1] BY ItemsAre DEF ItemsShape
  <2>. QED BY <2>1, <2>2, <2>3
<1>3. \A i \in 2..(n + 1) : Items'[i] # e
  BY <1>1, ItemsBecome DEF ItemsShape
<1>4. Owned' = {x \in Entry : \A i \in 1..(n + 1) : Items'[i] # x}
  <2>1. EffTop' - EffBase' = n + 1 BY ItemsAre DEF ItemsShape
  <2>. QED BY <2>1, OwnedBecome DEF OwnedShape
<1>5. Owned = {x \in Entry : \A i \in 1..n : Items[i] # x}
  BY OwnedAre DEF OwnedShape
<1> HIDE DEF n
<1>6. Items' = <<e>> \o Items
  BY <1>1, <1>2
<1>7. e \in Entry BY <1>1
<1>8. \A i \in 2..(n + 1) : i - 1 \in 1..n /\ Items'[i] = Items[i - 1]
  <2> SUFFICES ASSUME NEW i \in 2..(n + 1) PROVE i - 1 \in 1..n /\ Items'[i] = Items[i - 1]
    OBVIOUS
  <2>1. i - 1 \in 1..n /\ (i - 1) + 1 = i BY <1>1
  <2>2. Items'[(i - 1) + 1] = Items[i - 1] BY <1>2, <2>1
  <2>. QED BY <2>1, <2>2
<1>9. \A i \in 1..n : i + 1 \in 2..(n + 1) BY <1>1
<1>10. e \in Owned BY <1>2, <1>3, <1>5, <1>7, <1>9
<1>11. Owned' = Owned \ {e}
  <2>1. \A i \in 1..(n + 1) : i = 1 \/ i \in 2..(n + 1) BY <1>1
  <2>2. 1 \in 1..(n + 1) /\ \A i \in 2..(n + 1) : i \in 1..(n + 1) BY <1>1
  <2>. QED BY <1>2, <1>4, <1>5, <1>8, <1>9, <2>1, <2>2
<1> HIDE DEF e
<1>. QED BY <1>1, <1>6, <1>10, <1>11 DEF Deque!PassBase

(* The steps that only prepare or undo something: none of the entries in   *)
(* the queue changes.                                                      *)
LEMMA ThiefStutters ==
    ASSUME IInv, IInv', NEW th \in Thieves,
           \/ StealLock(th) \/ StealFaa(th) \/ StealReadTop(th) \/ StealGet(th)
           \/ StealUndo(th) \/ abort_steal(th) \/ ThiefUnlock(th)
           \/ (\E e \in Entry : PassCall(th, e))
           \/ PassLock(th) \/ PassReadBase(th) \/ PassFail(th) \/ PassPutEntry(th)
    PROVE  UNCHANGED Deque!dequeVars
<1> USE RankFacts DEF IInv, GoTo
<1>1. EffTop' = EffTop
  BY DEF StealLock, StealFaa, StealReadTop, StealGet, StealUndo, abort_steal, ThiefUnlock,
         PassCall, PassLock, PassReadBase, PassFail, PassPutEntry, EffTop, queueVars, ownerVars
<1>2. EffBase' = EffBase
  <2> USE StealingIs, StealingBecomes DEF EffBase, TypeOK, LockInv, CsLocs, StealLocs
  <2>1. CASE StealLock(th) \/ PassLock(th)
    BY <2>1 DEF StealLock, PassLock, Acquire, queueVars
  <2>2. CASE StealFaa(th)
    BY <2>2 DEF StealFaa, mutexVars
  <2>3. CASE StealReadTop(th) \/ StealGet(th)
    BY <2>3 DEF StealReadTop, StealGet, mutexVars, queueVars
  <2>4. CASE StealUndo(th) \/ abort_steal(th)
    BY <2>4 DEF StealUndo, abort_steal, mutexVars
  <2>5. CASE ThiefUnlock(th) \/ PassFail(th)
    BY <2>5 DEF ThiefUnlock, PassFail, Release, queueVars
  <2>6. CASE PassReadBase(th) \/ PassPutEntry(th)
    <3>1. CASE PassReadBase(th)
      BY <3>1 DEF PassReadBase, mutexVars, queueVars
    <3>2. CASE PassPutEntry(th)
      BY <3>2 DEF PassPutEntry, mutexVars, queueVars
    <3>. QED BY <2>6, <3>1, <3>2
  <2>7. CASE \E e \in Entry : PassCall(th, e)
    <3>1. \A q \in Thieves : pc'[q] \in StealLocs <=> pc[q] \in StealLocs
      BY <2>7 DEF PassCall
    <3>2. Stealing' <=> Stealing
      BY <3>1 DEF Stealing
    <3>3. base' = base
      BY <2>7 DEF PassCall, queueVars
    <3>. QED BY <3>2, <3>3 DEF EffBase
  <2>. QED BY <2>1, <2>2, <2>3, <2>4, <2>5, <2>6, <2>7
<1>3. \A i \in Slots : entries'[i] = entries[i]
  <2>1. CASE PassPutEntry(th)
    <3>1. tb[th] = base /\ ~Stealing
      BY <2>1, StealingIs DEF PassPutEntry, ThiefInv, ThiefOK, LockInv, CsLocs, StealLocs
    <3>2. tb[th] - 1 \notin Slots
      BY <3>1, EndsType DEF Slots, EffBase
    <3>. QED BY <2>1, <3>2 DEF PassPutEntry, TypeOK
  <2>2. CASE ~PassPutEntry(th)
    BY <2>2 DEF StealLock, StealFaa, StealReadTop, StealGet, StealUndo, abort_steal, ThiefUnlock,
         PassCall, PassLock, PassReadBase, PassFail, queueVars
  <2>. QED BY <2>1, <2>2
<1>4. \A i \in 1..(EffTop - EffBase) : EffBase + i - 1 \in Slots
  BY EndsType DEF Slots
<1>. QED BY <1>1, <1>2, <1>3, <1>4, StepStutters

(* The same for the owner, who may also move all entries in the array.     *)
LEMMA OwnerStutters ==
    ASSUME IInv, IInv',
           \/ OwnerLock \/ OwnerGranted \/ OwnerUnlock \/ PopCall \/ EachCall
           \/ (\E e \in Entry : PushCall(e)) \/ PushWrite \/ PopLooksEmpty
           \/ PopDecrement \/ PopReadBase \/ PopRestore \/ EachWalk
    PROVE  UNCHANGED Deque!dequeVars
<1> USE RankFacts DEF IInv
<1>1. UNCHANGED <<base, thiefVars>>
  BY DEF OwnerLock, OwnerGranted, OwnerUnlock, PopCall, EachCall, PushCall, PushWrite,
         PopLooksEmpty, PopDecrement, PopReadBase, PopRestore, EachWalk, queueVars
<1>2. EffBase' = EffBase
  BY <1>1 DEF EffBase, Stealing, thiefVars
<1>3. EffTop' = EffTop
  <2>1. CASE PopDecrement \/ PopReadBase \/ PopRestore
    <3>1. top \in Int
      BY WsQueueAssumption DEF TypeOK
    <3>. QED BY <2>1, <3>1 DEF PopDecrement, PopReadBase, PopRestore, EffTop, queueVars
  <2>2. CASE OwnerLock \/ OwnerGranted \/ OwnerUnlock \/ PopCall \/ EachCall \/ PopLooksEmpty
    BY <2>2 DEF OwnerLock, OwnerGranted, OwnerUnlock, PopCall, EachCall, PopLooksEmpty,
                EffTop, queueVars
  <2>3. CASE (\E e \in Entry : PushCall(e)) \/ PushWrite \/ EachWalk
    BY <2>3 DEF PushCall, PushWrite, EachWalk, EffTop, queueVars
  <2>. QED BY <2>1, <2>2, <2>3
<1>4. \A i \in Slots : entries'[i] = entries[i]
  <2>1. CASE PushWrite
    <3>1. top \notin Slots
      BY <2>1, EndsType DEF PushWrite, Slots, EffTop
    <3>. QED BY <2>1, <3>1 DEF PushWrite, TypeOK
  <2>2. CASE ~PushWrite
    BY <2>2 DEF OwnerLock, OwnerGranted, OwnerUnlock, PopCall, EachCall, PushCall,
         PopLooksEmpty, PopDecrement, PopReadBase, PopRestore, EachWalk, queueVars
  <2>. QED BY <2>1, <2>2
<1>5. \A i \in 1..(EffTop - EffBase) : EffBase + i - 1 \in Slots
  BY EndsType DEF Slots
<1>. QED BY <1>2, <1>3, <1>4, <1>5, StepStutters

(* move_entries() does nothing to the deque, although every entry changes  *)
(* its place.                                                              *)
LEMMA MoveStutters ==
    ASSUME IInv, IInv', PushMove \/ PopMove
    PROVE  UNCHANGED Deque!dequeVars
<1> USE DEF IInv
<1>1. PICK offset \in Int : move_entries(offset)
  <2>1. base \in Int /\ top \in Int /\ N \in Int
    BY WsQueueAssumption DEF TypeOK
  <2>2. -((base + 1) \div 2) \in Int /\ (N - top + 1) \div 2 \in Int
    BY <2>1
  <2>. QED BY <2>2 DEF PushMove, PopMove
<1>2. opc = "cs" /\ opc' \in {"unlock", "full"} /\ UNCHANGED <<mutexVars, thiefVars>>
  BY DEF PushMove, PopMove, move_entries
<1>3. EffBase = base /\ EffBase' = base' /\ EffTop = top /\ EffTop' = top'
  BY <1>2, OwnerAlone, OwnerAloneFrame DEF OwnerCs
<1>4. base \in 0..N /\ top \in 0..N /\ base <= top
  BY <1>3, WsQueueAssumption DEF SlotsInv, TypeOK
<1>5. CASE UNCHANGED queueVars
  BY <1>3, <1>5, StepStutters DEF queueVars
<1>6. CASE ~UNCHANGED queueVars
  <2>1. /\ top' = top + offset /\ base' = base + offset
        /\ base + offset >= 0 /\ top + offset <= N
        /\ entries' = [i \in 0..(N - 1) |->
                         IF i - offset \in base..(top - 1) THEN entries[i - offset]
                                                           ELSE entries[i]]
    BY <1>1, <1>6 DEF move_entries
  <2>2. ASSUME NEW i \in 1..(top - base)
        PROVE  entries'[base' + i - 1] = entries[base + i - 1]
    <3> DEFINE j == base' + i - 1
    <3>1. j \in 0..(N - 1) /\ j - offset \in base..(top - 1) /\ j - offset = base + i - 1
      BY <1>4, <2>1, WsQueueAssumption
    <3>2. entries'[j] = entries[j - offset]
      BY <2>1, <3>1
    <3>. QED BY <3>1, <3>2
  <2>3. top' - base' = top - base
    BY <1>4, <2>1
  <2>. QED BY <1>3, <2>2, <2>3, StepStutters
<1>. QED BY <1>5, <1>6

(* The steps with which an operation takes effect.                         *)
LEMMA TakesEffect ==
    ASSUME IInv, IInv'
    PROVE  /\ PushStore => Deque!PushTop
           /\ PopTake => Deque!PopTop
           /\ PopLocked => Deque!PopTop \/ UNCHANGED Deque!dequeVars
           /\ \A th \in Thieves : StealKeep(th) => Deque!StealBase
           /\ \A th \in Thieves : PassPutBase(th) => Deque!PassBase
<1> USE RankFacts DEF IInv
<1>1. EffBase \in Int /\ EffTop \in Int /\ EffBase <= EffTop /\ base \in Int /\ top \in Int
  BY EndsType, WsQueueAssumption DEF SlotsInv, TypeOK
<1>2. ASSUME PushStore PROVE Deque!PushTop
  <2>1. EffBase' = EffBase /\ EffTop' = EffTop + 1 /\ entries' = entries
    BY <1>2 DEF PushStore, EffBase, EffTop, Stealing, thiefVars
  <2>. QED BY <2>1, StepPushes
<1>3. ASSUME PopTake PROVE Deque!PopTop
  <2>1. EffBase' = EffBase /\ EffTop = top + 1 /\ EffTop' = top /\ entries' = entries
        /\ EffBase <= top
    BY <1>3 DEF PopTake, EffBase, EffTop, Stealing, thiefVars, queueVars, SlotsInv
  <2>2. EffBase < EffTop /\ EffTop' - EffBase' = EffTop - EffBase - 1
    BY <1>1, <2>1
  <2>. QED BY <2>1, <2>2, StepPops
<1>4. ASSUME PopLocked PROVE Deque!PopTop \/ UNCHANGED Deque!dequeVars
  <2>1. opc = "cs" /\ opc' = "unlock" /\ UNCHANGED <<mutexVars, thiefVars, entries>>
    BY <1>4 DEF PopLocked, ResetQueue
  <2>2. EffBase = base /\ EffBase' = base' /\ EffTop = top /\ EffTop' = top'
    BY <2>1, OwnerAlone, OwnerAloneFrame DEF OwnerCs
  <2>3. initial_pos \in Int
    BY WsQueueAssumption DEF initial_pos
  <2>4. CASE base < top - 1
    <3>1. top' = top - 1 /\ base' = base
      BY <1>1, <1>4, <2>4 DEF PopLocked
    <3>2. EffBase < EffTop /\ EffTop' - EffBase' = EffTop - EffBase - 1
      BY <1>1, <2>2, <2>4, <3>1
    <3>. QED BY <2>1, <2>2, <3>1, <3>2, StepPops
  <2>5. CASE base = top - 1
    <3>1. top' = initial_pos /\ base' = initial_pos
      BY <1>1, <1>4, <2>5 DEF PopLocked, ResetQueue
    <3>2. EffBase < EffTop /\ EffTop' - EffBase' = EffTop - EffBase - 1
            /\ EffTop - EffBase - 1 = 0
      BY <1>1, <2>2, <2>3, <2>5, <3>1
    <3>3. 1..(EffTop - EffBase - 1) = {}
      BY <3>2
    <3>. QED BY <3>2, <3>3, StepPops
  <2>6. CASE base > top - 1
    <3>1. top' = initial_pos /\ base' = initial_pos
      BY <1>1, <1>4, <2>6 DEF PopLocked, ResetQueue
    <3>2. EffTop' - EffBase' = EffTop - EffBase /\ EffTop - EffBase = 0
      BY <1>1, <2>2, <2>3, <2>6, <3>1
    <3>3. 1..(EffTop - EffBase) = {}
      BY <3>2
    <3>. QED BY <3>2, <3>3, StepStutters
  <2>. QED BY <1>1, <2>4, <2>5, <2>6
<1>5. ASSUME NEW th \in Thieves, StealKeep(th) PROVE Deque!StealBase
  <2>1. holder = th /\ holder' = NoRank
    BY <1>5 DEF StealKeep, Release
  <2>2. EffBase = base - 1 /\ EffBase' = base /\ EffTop' = EffTop /\ entries' = entries
    BY <1>5, <2>1, StealingIs, StealingBecomes
       DEF StealKeep, EffBase, EffTop, StealLocs, queueVars, ownerVars
  <2>3. EffBase < EffTop
    BY <1>5, <2>2 DEF StealKeep, ThiefInv, ThiefOK, StealLocs
  <2>4. EffBase' = EffBase + 1
    BY <1>1, <2>2
  <2>. QED BY <2>2, <2>3, <2>4, StepSteals
<1>6. ASSUME NEW th \in Thieves, PassPutBase(th) PROVE Deque!PassBase
  <2>1. holder = th /\ holder' = th
    BY <1>6 DEF PassPutBase, LockInv, CsLocs, mutexVars
  <2>2. ~Stealing /\ ~Stealing'
    BY <1>6, <2>1, StealingIs, StealingBecomes DEF PassPutBase, GoTo, TypeOK, StealLocs
  <2>3. base' = base - 1
    BY <1>6 DEF PassPutBase, ThiefInv, ThiefOK
  <2>4. EffBase' = EffBase - 1 /\ EffTop' = EffTop /\ entries' = entries
    BY <1>6, <2>2, <2>3 DEF PassPutBase, EffBase, EffTop, ownerVars
  <2>. QED BY <2>4, StepPasses
<1>. QED BY <1>2, <1>3, <1>4, <1>5, <1>6

(* Every step of the queue is a step of the deque or leaves it alone.      *)
LEMMA NextImplements ==
    IInv /\ IInv' /\ [Next]_vars => [Deque!DequeNext]_(Deque!dequeVars)
<1> SUFFICES ASSUME IInv, IInv', [Next]_vars
             PROVE  Deque!DequeNext \/ UNCHANGED Deque!dequeVars
  OBVIOUS
<1>1. CASE UNCHANGED vars
  <2>1. EffBase' = EffBase /\ EffTop' = EffTop /\ entries' = entries
    BY <1>1 DEF vars, queueVars, ownerVars, thiefVars, EffBase, EffTop, Stealing
  <2>. QED BY <2>1, StepStutters
<1>2. CASE OwnerCalls \/ OwnerSteps
  BY <1>2, OwnerStutters, MoveStutters, TakesEffect DEF OwnerCalls, OwnerSteps, Deque!DequeNext
<1>3. ASSUME NEW th \in Thieves, ThiefCalls(th) \/ ThiefSteps(th)
      PROVE  Deque!DequeNext \/ UNCHANGED Deque!dequeVars
  BY <1>3, ThiefStutters, TakesEffect DEF ThiefCalls, ThiefSteps, Deque!DequeNext
<1>. QED BY <1>1, <1>2, <1>3 DEF Next

(* The queue starts as an empty deque.                                     *)
LEMMA InitImplements == Init => Deque!DequeInit
<1> SUFFICES ASSUME Init PROVE Items = <<>> /\ Owned = Entry
  BY DEF Deque!DequeInit
<1>1. EffBase = initial_pos /\ EffTop = initial_pos /\ initial_pos \in Int
  BY WsQueueAssumption DEF Init, EffBase, EffTop, Stealing, StealLocs, initial_pos
<1>2. EffTop - EffBase = 0
  BY <1>1
<1>3. Items = <<>>
  BY <1>2 DEF Items
<1>4. Owned = Entry
  BY DEF Owned, Init
<1>. QED BY <1>3, <1>4

(* The work-stealing queue, with its lock-free push() and pop(), steals,   *)
(* aborted steals and passes, implements the atomic deque that the models  *)
(* of the schedulers use, for any capacity, set of entries and number of   *)
(* thieves: each operation takes effect in one step.                       *)
THEOREM QueueImplementsDeque == Spec => ImplementsDeque
<1>1. Spec => []IInv
  BY Inductive
<1>2. IInv /\ IInv' /\ [Next]_vars => [Deque!DequeNext]_(Deque!dequeVars)
  BY NextImplements
<1>. QED BY InitImplements, <1>1, <1>2, PTL DEF Spec, ImplementsDeque, Deque!DequeSpec

================================================================================
