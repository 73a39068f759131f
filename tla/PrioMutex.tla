------------------------------- MODULE PrioMutex -------------------------------
(***************************************************************************)
(* What the users of ityr::common::global_lock rely on: a mutex that is    *)
(* taken by polling (lock(), trylock()), and that one rank at a time may   *)
(* ask for with priority (priolock()).  Once a rank waits with priority,   *)
(* the lock is handed to it and to nobody else.                            *)
(*                                                                         *)
(* GlobalLock implements this specification with a counter word; the       *)
(* work-stealing queue (WsQueue) is built on it.                           *)
(***************************************************************************)

CONSTANTS Ranks,    \* the ranks that share the lock
          NoRank    \* no rank at all

ASSUME NoRankAssumption == NoRank \notin Ranks

VARIABLES holder,   \* the rank inside the critical section, or NoRank
          waiter    \* the rank waiting in priolock(), or NoRank

mutexVars == <<holder, waiter>>

MutexInit == holder = NoRank /\ waiter = NoRank

(* trylock() that succeeds, and the last iteration of lock().  A failing   *)
(* attempt changes nothing: callers either give up or try again.           *)
Acquire(r) ==
    /\ holder = NoRank /\ waiter = NoRank
    /\ holder' = r
    /\ UNCHANGED waiter

(* priolock() when the lock is free.                                       *)
PrioAcquire(r) ==
    /\ holder = NoRank /\ waiter = NoRank
    /\ holder' = r
    /\ UNCHANGED waiter

(* priolock() while the lock is held: the caller is next.                  *)
PrioRequest(r) ==
    /\ holder # NoRank /\ waiter = NoRank
    /\ waiter' = r
    /\ UNCHANGED holder

(* The waiting rank enters once the holder has left.                       *)
PrioGrant(r) ==
    /\ holder = NoRank /\ waiter = r
    /\ holder' = r /\ waiter' = NoRank

Release(r) ==
    /\ holder = r
    /\ holder' = NoRank
    /\ UNCHANGED waiter

MutexNext ==
    \E r \in Ranks : \/ Acquire(r) \/ PrioAcquire(r) \/ PrioRequest(r)
                     \/ PrioGrant(r) \/ Release(r)

MutexSpec == MutexInit /\ [][MutexNext]_mutexVars

================================================================================
