-------------------------------- MODULE WsQueue --------------------------------
(***************************************************************************)
(* ityr::ito::wsqueue: the deque of ready tasks of one worker.  Its owner  *)
(* pushes and pops at the top with plain loads and stores; other ranks     *)
(* steal from and pass to the base with MPI one-sided operations, under    *)
(* the queue's global_lock.  The owner takes that lock only when it        *)
(* suspects that the queue is empty, when it has to move the entries       *)
(* inside the array, and when it walks over them.                          *)
(*                                                                         *)
(* One queue (rank, idx) is modelled; different queues share nothing.      *)
(* Every read or write of top and base that another rank can interleave    *)
(* with is a step of its own.  What the owner does while it holds the lock *)
(* is one step, because all other writers need the lock.  The owner's      *)
(* local variable t always mirrors top, which only the owner writes.       *)
(***************************************************************************)
EXTENDS PrioMutex, Integers, FiniteSets

CONSTANTS N,           \* n_entries_
          MarginDiv,   \* pop() keeps base and top N \div MarginDiv away from the ends (10)
          EnablePass,  \* template parameter EnablePass
          Owner,       \* the rank that owns the queue
          Entry,       \* tasks and suspended threads
          NoEntry

ASSUME WsQueueAssumption ==
    /\ N \in Nat \ {0} /\ MarginDiv \in Nat \ {0}
    /\ EnablePass \in BOOLEAN
    /\ Owner \in Ranks
    /\ NoEntry \notin Entry

Thieves == Ranks \ {Owner}

VARIABLES top, base,     \* queue_state
          entries,       \* the array, indices 0..N-1
          local_empty,   \* local_empty_[idx], a cache the owner keeps
          out,           \* entries that are in the hands of some worker
          opc, op, oe,   \* owner: place in the code, call it is in, entry it pushes
          pc, tb, te     \* other ranks: place in the code, local b, entry

queueVars == <<top, base, entries, local_empty>>
ownerVars == <<opc, op, oe>>
thiefVars == <<pc, tb, te>>
vars == <<mutexVars, queueVars, out, ownerVars, thiefVars>>

initial_pos == IF EnablePass THEN N \div 2 ELSE 0
Margin == N \div MarginDiv

OwnerLocs == {"idle", "lock", "wait", "cs", "unlock", "full",
              "write", "store", "pop", "base", "take", "restore"}
OwnerOps == {"none", "push", "room", "pop", "empty", "each"}
StealLocs == {"top", "get", "got", "undo"}
ThiefLocs == {"idle", "steal", "unlock", "passlock", "pass", "passfail", "put", "putbase"}
                \cup StealLocs

TypeOK ==
    /\ holder \in Ranks \cup {NoRank} /\ waiter \in {Owner, NoRank}
    /\ top \in -1..N /\ base \in 0..(N + 1)
    /\ entries \in [0..(N - 1) -> Entry \cup {NoEntry}]
    /\ local_empty \in BOOLEAN
    /\ out \in SUBSET Entry
    /\ opc \in OwnerLocs /\ op \in OwnerOps /\ oe \in Entry \cup {NoEntry}
    /\ pc \in [Thieves -> ThiefLocs]
    /\ tb \in [Thieves -> 0..N]
    /\ te \in [Thieves -> Entry \cup {NoEntry}]

Init ==
    /\ MutexInit
    /\ top = initial_pos /\ base = initial_pos
    /\ entries = [i \in 0..(N - 1) |-> NoEntry]
    /\ local_empty = FALSE
    /\ out = Entry
    /\ opc = "idle" /\ op = "none" /\ oe = NoEntry
    /\ pc = [th \in Thieves |-> "idle"]
    /\ tb = [th \in Thieves |-> 0]
    /\ te = [th \in Thieves |-> NoEntry]

--------------------------------------------------------------------------------
(***************************************************************************)
(* The owner's use of the lock.                                            *)
(***************************************************************************)
(* Mutant: lock() in the place of priolock().                              *)
OwnerLock_NoPriority ==
    /\ opc = "lock"
    /\ Acquire(Owner)
    /\ opc' = "cs"
    /\ UNCHANGED <<queueVars, out, op, oe, thiefVars>>

OwnerLock ==
    /\ opc = "lock"
    /\ \/ PrioAcquire(Owner) /\ opc' = "cs"
       \/ PrioRequest(Owner) /\ opc' = "wait"
    /\ UNCHANGED <<queueVars, out, op, oe, thiefVars>>

OwnerGranted ==
    /\ opc = "wait"
    /\ PrioGrant(Owner)
    /\ opc' = "cs"
    /\ UNCHANGED <<queueVars, out, op, oe, thiefVars>>

(* unlock(): push() goes on to write its entry, pop() goes on after making *)
(* room, and the other critical sections end their call.                   *)
OwnerUnlock ==
    /\ opc = "unlock"
    /\ Release(Owner)
    /\ opc' = IF op = "push" THEN "write" ELSE IF op = "room" THEN "pop" ELSE "idle"
    /\ op' = "none"
    /\ UNCHANGED <<queueVars, out, oe, thiefVars>>

(***************************************************************************)
(* move_entries(offset).  The exception leaves the function, and its       *)
(* caller, with the lock still held: the owner does not go on.             *)
(***************************************************************************)
move_entries(offset) ==
    \/ /\ offset = 0 \/ base + offset < 0 \/ N < top + offset
       /\ opc' = "full"
       /\ UNCHANGED queueVars
    \/ /\ offset # 0 /\ base + offset >= 0 /\ top + offset <= N
       /\ entries' = [i \in 0..(N - 1) |->
                        IF i - offset \in base..(top - 1) THEN entries[i - offset]
                                                          ELSE entries[i]]
       /\ top' = top + offset /\ base' = base + offset
       /\ opc' = "unlock"
       /\ UNCHANGED local_empty

(***************************************************************************)
(* push(entry)                                                             *)
(***************************************************************************)
PushCall(e) ==
    /\ opc = "idle"
    /\ e \in out
    /\ out' = out \ {e}
    /\ oe' = e
    /\ \/ top = N /\ opc' = "lock" /\ op' = "push"
       \/ top # N /\ opc' = "write" /\ UNCHANGED op
    /\ UNCHANGED <<mutexVars, queueVars, thiefVars>>

(* Mutant: half the distance to index 0 is rounded down.                   *)
PushMove_RoundsDown ==
    /\ opc = "cs" /\ op = "push"
    /\ move_entries(-(base \div 2))
    /\ UNCHANGED <<mutexVars, out, op, oe, thiefVars>>

(* The array is used up at the top: shift the entries halfway to index 0.  *)
PushMove ==
    /\ opc = "cs" /\ op = "push"
    /\ move_entries(-((base + 1) \div 2))
    /\ UNCHANGED <<mutexVars, out, op, oe, thiefVars>>

PushWrite ==
    /\ opc = "write"
    /\ entries' = [entries EXCEPT ![top] = oe]
    /\ opc' = "store"
    /\ UNCHANGED <<mutexVars, top, base, local_empty, out, op, oe, thiefVars>>

(* Mutant: push() leaves local_empty_ alone.                               *)
PushStore_KeepsLocalEmpty ==
    /\ opc = "store"
    /\ top' = top + 1
    /\ oe' = NoEntry
    /\ opc' = "idle"
    /\ UNCHANGED <<mutexVars, base, entries, local_empty, out, op, thiefVars>>

PushStore ==
    /\ opc = "store"
    /\ top' = top + 1
    /\ local_empty' = (EnablePass /\ local_empty)
    /\ oe' = NoEntry
    /\ opc' = "idle"
    /\ UNCHANGED <<mutexVars, base, entries, out, op, thiefVars>>

(***************************************************************************)
(* pop(), for both values of EnsureEmpty                                   *)
(***************************************************************************)
TooCloseToZero == base < Margin /\ N - top > Margin

(* With EnablePass the call may first have to make room for pass(); with-  *)
(* out it, the call returns at once if local_empty_ is set, which changes  *)
(* nothing.                                                                *)
PopCall ==
    /\ opc = "idle"
    /\ \/ EnablePass /\ TooCloseToZero /\ opc' = "lock" /\ op' = "room"
       \/ EnablePass /\ ~TooCloseToZero /\ opc' = "pop" /\ UNCHANGED op
       \/ ~EnablePass /\ ~local_empty /\ opc' = "pop" /\ UNCHANGED op
    /\ UNCHANGED <<mutexVars, queueVars, out, oe, thiefVars>>

PopMove ==
    /\ opc = "cs" /\ op = "room"
    /\ move_entries((N - top + 1) \div 2)
    /\ UNCHANGED <<mutexVars, out, op, oe, thiefVars>>

(* pop<false>(): return empty-handed if the queue looks empty.             *)
PopLooksEmpty ==
    /\ opc = "pop"
    /\ top <= base
    /\ opc' = "idle"
    /\ UNCHANGED <<mutexVars, queueVars, out, op, oe, thiefVars>>

PopDecrement ==
    /\ opc = "pop"
    /\ top' = top - 1
    /\ opc' = "base"
    /\ UNCHANGED <<mutexVars, base, entries, local_empty, out, op, oe, thiefVars>>

(* Mutant: an entry that a thief has just claimed is taken as well.        *)
PopReadBase_OffByOne ==
    /\ opc = "base"
    /\ opc' = IF base <= top + 1 THEN "take" ELSE "restore"
    /\ UNCHANGED <<mutexVars, queueVars, out, op, oe, thiefVars>>

PopReadBase ==
    /\ opc = "base"
    /\ opc' = IF base <= top THEN "take" ELSE "restore"
    /\ UNCHANGED <<mutexVars, queueVars, out, op, oe, thiefVars>>

PopTake ==
    /\ opc = "take"
    /\ out' = out \cup {entries[top]}
    /\ opc' = "idle"
    /\ UNCHANGED <<mutexVars, queueVars, op, oe, thiefVars>>

(* Mutant: the decision is taken without the lock.                         *)
PopRestore_NoLock ==
    /\ opc = "restore"
    /\ top' = top + 1
    /\ opc' = "cs" /\ op' = "pop"
    /\ UNCHANGED <<mutexVars, base, entries, local_empty, out, oe, thiefVars>>

PopRestore ==
    /\ opc = "restore"
    /\ top' = top + 1
    /\ opc' = "lock" /\ op' = "pop"
    /\ UNCHANGED <<mutexVars, base, entries, local_empty, out, oe, thiefVars>>

(* The decision under the lock, with t = top - 1.  The last two branches   *)
(* reset the queue; op = "empty" is a pop() about to return nullopt.       *)
ResetQueue ==
    /\ top' = initial_pos /\ base' = initial_pos
    /\ local_empty' = (~EnablePass \/ local_empty)
    /\ UNCHANGED entries

PopLocked ==
    /\ opc = "cs" /\ op = "pop"
    /\ \/ /\ base < top - 1
          /\ out' = out \cup {entries[top - 1]}
          /\ top' = top - 1
          /\ UNCHANGED <<base, entries, local_empty, op>>
       \/ /\ base = top - 1
          /\ out' = out \cup {entries[top - 1]}
          /\ ResetQueue
          /\ UNCHANGED op
       \/ /\ base > top - 1
          /\ ResetQueue
          /\ op' = "empty"
          /\ UNCHANGED out
    /\ opc' = "unlock"
    /\ UNCHANGED <<mutexVars, oe, thiefVars>>

(***************************************************************************)
(* for_each_entry(): walk over the entries under the lock.  The callback   *)
(* edits entries in place; which entry a slot holds does not change.       *)
(***************************************************************************)
EachCall ==
    /\ opc = "idle"
    /\ EnablePass \/ ~local_empty
    /\ opc' = "lock" /\ op' = "each"
    /\ UNCHANGED <<mutexVars, queueVars, out, oe, thiefVars>>

EachWalk ==
    /\ opc = "cs" /\ op = "each"
    /\ local_empty' = (local_empty \/ (~EnablePass /\ top <= base))
    /\ opc' = "unlock"
    /\ UNCHANGED <<mutexVars, top, base, entries, out, op, oe, thiefVars>>

--------------------------------------------------------------------------------
(***************************************************************************)
(* Stealing: trylock() or lock(), then steal_nolock(), then unlock().  The *)
(* look at empty() that comes first is a hint and guards nothing.  Between *)
(* the steal and the unlock the caller copies the entry's stack, and it    *)
(* may call abort_steal() instead of keeping the entry.                    *)
(***************************************************************************)
GoTo(th, loc) == pc' = [pc EXCEPT ![th] = loc]

StealLock(th) ==
    /\ pc[th] = "idle"
    /\ Acquire(th)
    /\ GoTo(th, "steal")
    /\ UNCHANGED <<queueVars, out, ownerVars, tb, te>>

StealFaa(th) ==
    /\ pc[th] = "steal"
    /\ tb' = [tb EXCEPT ![th] = base]
    /\ base' = base + 1
    /\ GoTo(th, "top")
    /\ UNCHANGED <<mutexVars, top, entries, local_empty, out, ownerVars, te>>

(* Mutant: a thief that finds base = top takes the slot all the same.      *)
StealReadTop_OffByOne(th) ==
    /\ pc[th] = "top"
    /\ GoTo(th, IF tb[th] <= top THEN "get" ELSE "undo")
    /\ UNCHANGED <<mutexVars, queueVars, out, ownerVars, tb, te>>

StealReadTop(th) ==
    /\ pc[th] = "top"
    /\ GoTo(th, IF tb[th] < top THEN "get" ELSE "undo")
    /\ UNCHANGED <<mutexVars, queueVars, out, ownerVars, tb, te>>

StealGet(th) ==
    /\ pc[th] = "get"
    /\ te' = [te EXCEPT ![th] = entries[tb[th]]]
    /\ GoTo(th, "got")
    /\ UNCHANGED <<mutexVars, queueVars, out, ownerVars, tb>>

(* The queue was empty: undo the increment of base.                        *)
StealUndo(th) ==
    /\ pc[th] = "undo"
    /\ base' = base - 1
    /\ tb' = [tb EXCEPT ![th] = 0]
    /\ GoTo(th, "unlock")
    /\ UNCHANGED <<mutexVars, top, entries, local_empty, out, ownerVars, te>>

abort_steal(th) ==
    /\ pc[th] = "got"
    /\ base' = base - 1
    /\ tb' = [tb EXCEPT ![th] = 0]
    /\ te' = [te EXCEPT ![th] = NoEntry]
    /\ GoTo(th, "unlock")
    /\ UNCHANGED <<mutexVars, top, entries, local_empty, out, ownerVars>>

(* unlock() with the entry in hand: the steal is final.                    *)
StealKeep(th) ==
    /\ pc[th] = "got"
    /\ Release(th)
    /\ out' = out \cup {te[th]}
    /\ tb' = [tb EXCEPT ![th] = 0]
    /\ te' = [te EXCEPT ![th] = NoEntry]
    /\ GoTo(th, "idle")
    /\ UNCHANGED <<queueVars, ownerVars>>

ThiefUnlock(th) ==
    /\ pc[th] = "unlock"
    /\ Release(th)
    /\ GoTo(th, "idle")
    /\ UNCHANGED <<queueVars, out, ownerVars, tb, te>>

(***************************************************************************)
(* pass(entry): trypass() until it succeeds.  It fails while base is 0.    *)
(***************************************************************************)
PassCall(th, e) ==
    /\ EnablePass
    /\ pc[th] = "idle"
    /\ e \in out
    /\ out' = out \ {e}
    /\ te' = [te EXCEPT ![th] = e]
    /\ GoTo(th, "passlock")
    /\ UNCHANGED <<mutexVars, queueVars, ownerVars, tb>>

PassLock(th) ==
    /\ pc[th] = "passlock"
    /\ Acquire(th)
    /\ GoTo(th, "pass")
    /\ UNCHANGED <<queueVars, out, ownerVars, tb, te>>

PassReadBase(th) ==
    /\ pc[th] = "pass"
    /\ tb' = [tb EXCEPT ![th] = base]
    /\ GoTo(th, IF base = 0 THEN "passfail" ELSE "put")
    /\ UNCHANGED <<mutexVars, queueVars, out, ownerVars, te>>

PassFail(th) ==
    /\ pc[th] = "passfail"
    /\ Release(th)
    /\ GoTo(th, "passlock")
    /\ UNCHANGED <<queueVars, out, ownerVars, tb, te>>

PassPutEntry(th) ==
    /\ pc[th] = "put"
    /\ entries' = [entries EXCEPT ![tb[th] - 1] = te[th]]
    /\ GoTo(th, "putbase")
    /\ UNCHANGED <<mutexVars, top, base, local_empty, out, ownerVars, tb, te>>

PassPutBase(th) ==
    /\ pc[th] = "putbase"
    /\ base' = tb[th] - 1
    /\ tb' = [tb EXCEPT ![th] = 0]
    /\ te' = [te EXCEPT ![th] = NoEntry]
    /\ GoTo(th, "unlock")
    /\ UNCHANGED <<mutexVars, top, entries, local_empty, out, ownerVars>>

--------------------------------------------------------------------------------
OwnerCalls == PopCall \/ EachCall \/ \E e \in Entry : PushCall(e)

OwnerSteps ==
    \/ OwnerLock \/ OwnerGranted \/ OwnerUnlock
    \/ PushMove \/ PushWrite \/ PushStore
    \/ PopMove \/ PopLooksEmpty \/ PopDecrement \/ PopReadBase
    \/ PopTake \/ PopRestore \/ PopLocked
    \/ EachWalk

ThiefCalls(th) == StealLock(th) \/ \E e \in Entry : PassCall(th, e)

ThiefSteps(th) ==
    \/ StealFaa(th) \/ StealReadTop(th) \/ StealGet(th) \/ StealUndo(th)
    \/ abort_steal(th) \/ StealKeep(th) \/ ThiefUnlock(th)
    \/ PassLock(th) \/ PassReadBase(th) \/ PassFail(th)
    \/ PassPutEntry(th) \/ PassPutBase(th)

Next ==
    \/ OwnerCalls \/ OwnerSteps
    \/ \E th \in Thieves : ThiefCalls(th) \/ ThiefSteps(th)

Spec == Init /\ [][Next]_vars

(* Every rank that is inside a call keeps executing it.  No rank is        *)
(* obliged to make a call.                                                 *)
FairSpec ==
    /\ Spec
    /\ WF_vars(OwnerSteps)
    /\ \A th \in Thieves : WF_vars(ThiefSteps(th))

--------------------------------------------------------------------------------
(***************************************************************************)
(* The entries that are in the queue.  A thief between its fetch-and-add   *)
(* and its decision has moved base although the entry is still there, and  *)
(* the owner between its decrement and its decision has moved top.         *)
(***************************************************************************)
Stealing == \E th \in Thieves : pc[th] \in StealLocs
EffBase == IF Stealing THEN base - 1 ELSE base
EffTop == IF opc \in {"base", "take", "restore"} THEN top + 1 ELSE top
Slots == EffBase..(EffTop - 1)

PassLocs == {"passlock", "pass", "passfail", "put", "putbase"}
InQueue(e) == \E i \in Slots : entries[i] = e
Pushing(e) == oe = e
Passing(th, e) == pc[th] \in PassLocs /\ te[th] = e

NothingLost ==
    \A e \in Entry :
        e \in out \/ Pushing(e) \/ InQueue(e) \/ \E th \in Thieves : Passing(th, e)

NothingDuplicated ==
    /\ \A i \in Slots : entries[i] \in Entry
    /\ \A i, j \in Slots : entries[i] = entries[j] => i = j
    /\ \A e \in Entry :
          /\ e \in out => ~Pushing(e) /\ ~InQueue(e)
          /\ Pushing(e) => ~InQueue(e)
          /\ \A th \in Thieves :
                Passing(th, e) => /\ e \notin out /\ ~Pushing(e) /\ ~InQueue(e)
                                  /\ \A t2 \in Thieves : Passing(t2, e) => t2 = th

(* No entry is lost and none is duplicated, whatever the owner's lock-free *)
(* push() and pop() do while steals, aborted steals and passes go on: each *)
(* entry is in exactly one slot of the queue, in the hands of a worker, or *)
(* on its way into the queue.                                              *)
ExactlyOnce == NothingLost /\ NothingDuplicated

(* ITYR_CHECK(b <= t) of move_entries().                                   *)
MoveCheck == opc = "cs" /\ op \in {"push", "room"} => base <= top

(* wsqueue_full_exception is thrown only when all N slots are in use.      *)
FullMeansFull == opc = "full" => EffBase = 0 /\ EffTop = N

(* pop() that ensures emptiness returns nullopt only if the queue holds no *)
(* entry, and in particular none that a thief may still give back.         *)
PopEmptyIsEmpty == opc = "unlock" /\ op = "empty" => Slots = {}

(* The owner's cached local_empty_ is never stale: while it is set, no     *)
(* entry is in the queue, so that skipping the lock misses nothing.        *)
LocalEmptySound == local_empty => Slots = {}

(* Every call of the owner returns (or throws), although it waits for the  *)
(* lock that thieves compete for.                                          *)
OwnerReturns == opc \notin {"idle", "full"} ~> opc \in {"idle", "full"}

(* The entries from base to top, and the ones in the hands of workers.     *)
Items == [i \in 1..(EffTop - EffBase) |-> entries[EffBase + i - 1]]
Owned == {e \in Entry : e \in out \/ Pushing(e) \/ \E th \in Thieves : Passing(th, e)}

(* The queue is an atomic deque.                                           *)
Deque == INSTANCE WorkDeque WITH Capacity <- N, items <- Items, owned <- Owned

ImplementsDeque == Deque!DequeSpec

================================================================================
