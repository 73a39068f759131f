----------------------------- MODULE ReleaseManager -----------------------------
(***************************************************************************)
(* ityr::ori::release_manager and the part of cache_manager that drives    *)
(* it: lazy release.  A rank does not write its dirty data back when a     *)
(* thread leaves it, but hands out a release handler (rank, epoch).  The   *)
(* rank that goes on with the thread waits until that rank's epoch has     *)
(* reached the handler's, asking for it with a compare-and-swap on the     *)
(* remote requested_epoch; the remote rank notices in poll().              *)
(*                                                                         *)
(* Data is abstracted to how many of a rank's writes have got where:       *)
(* written (checked in), begun (put_nb issued), home (flushed).  So        *)
(* begun = written says that dirty_cache_blocks_ is empty.  MaxWrites[r]   *)
(* bounds the writes of rank r and with them its epochs; MaxHandlers       *)
(* bounds the different handlers that are created.                         *)
(***************************************************************************)
EXTENDS Integers, FiniteSets

CONSTANTS Ranks, MaxWrites, MaxHandlers

ASSUME ReleaseAssumption == MaxWrites \in [Ranks -> Nat]

VARIABLES current_epoch, requested_epoch,  \* rma_data of each rank
          remote_epochs,                   \* remote_epochs_ of each rank
          has_dirty,                       \* has_dirty_cache_
          written, begun, home,            \* progress of a rank's writes
          handlers,                        \* release handlers handed out
          pc, op, rh, expected             \* place, call, handler, CAS operand

epochVars == <<current_epoch, requested_epoch, remote_epochs>>
dataVars == <<has_dirty, written, begun, home>>
callVars == <<pc, op, rh, expected>>
vars == <<epochVars, dataVars, handlers, callVars>>

(***************************************************************************)
(* A release handler.  The code's target_rank and required_epoch, and, for *)
(* the properties only, who created it after how many writes.  A dummy     *)
(* handler has required_epoch 0, which is all the code looks at.           *)
(***************************************************************************)
Handler == [target_rank : Ranks, required_epoch : Nat, by : Ranks, upto : Nat]

(* What rh[r] holds when r is in no acquire(rh).                           *)
NoHandler(r) == [target_rank |-> r, required_epoch |-> 0, by |-> r, upto |-> 0]

Locations == {"idle", "begin", "flush", "epoch", "check",
              "ensure", "request", "wait", "invalidate"}
Operations == {"none", "release", "complete", "poll", "acquire"}

Typed ==
    /\ current_epoch \in [Ranks -> Nat] /\ requested_epoch \in [Ranks -> Nat]
    /\ remote_epochs \in [Ranks -> [Ranks -> Nat]]
    /\ has_dirty \in [Ranks -> BOOLEAN]
    /\ written \in [Ranks -> Nat]
    /\ begun \in [Ranks -> Nat] /\ home \in [Ranks -> Nat]
    /\ handlers \subseteq Handler
    /\ pc \in [Ranks -> Locations] /\ op \in [Ranks -> Operations]
    /\ rh \in [Ranks -> Handler]
    /\ expected \in [Ranks -> Nat]

(* Every variable has its type, and the writes of a rank get home in order *)
(* of put and flush, never ahead of them.                                  *)
TypeOK ==
    /\ Typed
    /\ \A r \in Ranks : home[r] <= begun[r] /\ begun[r] <= written[r]

Init ==
    /\ current_epoch = [r \in Ranks |-> 1]
    /\ requested_epoch = [r \in Ranks |-> 1]
    /\ remote_epochs = [r \in Ranks |-> [q \in Ranks |-> 1]]
    /\ has_dirty = [r \in Ranks |-> FALSE]
    /\ written = [r \in Ranks |-> 0]
    /\ begun = [r \in Ranks |-> 0]
    /\ home = [r \in Ranks |-> 0]
    /\ handlers = {}
    /\ pc = [r \in Ranks |-> "idle"]
    /\ op = [r \in Ranks |-> "none"]
    /\ rh = [r \in Ranks |-> NoHandler(r)]
    /\ expected = [r \in Ranks |-> 0]

GoTo(r, loc) == pc' = [pc EXCEPT ![r] = loc]
Call(r, name, loc) == GoTo(r, loc) /\ op' = [op EXCEPT ![r] = name]

--------------------------------------------------------------------------------
(* writeback_begin(): start to put all dirty blocks.  If one of them is    *)
(* being written back already, the puts that have begun are flushed first. *)
writeback_begin(r) ==
    /\ \/ UNCHANGED home
       \/ home' = [home EXCEPT ![r] = begun[r]]
    /\ begun' = [begun EXCEPT ![r] = written'[r]]

(* Running code checks dirty data in.  Which block it is in, and so        *)
(* whether max_dirty_cache_blocks_ is reached, is left open.               *)
add_dirty_region(r) ==
    /\ pc[r] = "idle"
    /\ written[r] < MaxWrites[r]
    /\ written' = [written EXCEPT ![r] = @ + 1]
    /\ has_dirty' = [has_dirty EXCEPT ![r] = TRUE]
    /\ \/ UNCHANGED <<begun, home>>
       \/ writeback_begin(r)
    /\ UNCHANGED <<epochVars, handlers, callVars>>

(***************************************************************************)
(* ensure_all_cache_clean(): writeback_begin(), then writeback_complete(), *)
(* which flushes and, if no dirty block is pending, advances the epoch.    *)
(***************************************************************************)
CleanBegin(r) ==
    /\ pc[r] = "begin"
    /\ UNCHANGED written
    /\ writeback_begin(r)
    /\ GoTo(r, "flush")
    /\ UNCHANGED <<epochVars, has_dirty, handlers, op, rh, expected>>

CompleteFlush(r) ==
    /\ pc[r] = "flush"
    /\ home' = [home EXCEPT ![r] = begun[r]]
    /\ GoTo(r, "epoch")
    /\ UNCHANGED <<epochVars, has_dirty, written, begun, handlers, op, rh, expected>>

release_needed(r, h) == h.target_rank # r /\ h.required_epoch > 0

AfterClean(r) ==
    IF op[r] = "poll" THEN "check"
    ELSE IF op[r] # "acquire" THEN "idle"
    ELSE IF release_needed(r, rh[r]) THEN "ensure" ELSE "invalidate"

AllBegun(r) == begun[r] = written[r]

increment_epoch(r) ==
    current_epoch' = [current_epoch EXCEPT ![r] = @ + 1]

CompleteEpoch(r) ==
    /\ pc[r] = "epoch"
    /\ \/ /\ AllBegun(r) /\ has_dirty[r]
          /\ has_dirty' = [has_dirty EXCEPT ![r] = FALSE]
          /\ increment_epoch(r)
       \/ /\ ~(AllBegun(r) /\ has_dirty[r])
          /\ UNCHANGED <<has_dirty, current_epoch>>
    /\ GoTo(r, AfterClean(r))
    /\ op' = [op EXCEPT ![r] = IF AfterClean(r) = "idle" THEN "none" ELSE @]
    /\ UNCHANGED <<requested_epoch, remote_epochs, written, begun, home, handlers, rh, expected>>

(* discard_dirty() on a block that is being written back: only complete    *)
(* what has begun.                                                         *)
DiscardCall(r) ==
    /\ pc[r] = "idle"
    /\ home[r] < begun[r]
    /\ Call(r, "complete", "flush")
    /\ UNCHANGED <<epochVars, dataVars, handlers, rh, expected>>

release(r) ==
    /\ pc[r] = "idle"
    /\ has_dirty[r]
    /\ Call(r, "release", "begin")
    /\ UNCHANGED <<epochVars, dataVars, handlers, rh, expected>>

(* Mutant: a handler for the next epoch is given out by a clean rank too.  *)
release_lazy_NoDummy(r) ==
    /\ pc[r] = "idle"
    /\ Cardinality(handlers) < MaxHandlers
    /\ handlers' = handlers \cup
         {[target_rank |-> r, required_epoch |-> current_epoch[r] + 1,
           by |-> r, upto |-> written[r]]}
    /\ UNCHANGED <<epochVars, dataVars, callVars>>

(***************************************************************************)
(* release_lazy(): a handler for the next epoch, or a dummy if clean.      *)
(***************************************************************************)
release_lazy(r) ==
    /\ pc[r] = "idle"
    /\ Cardinality(handlers) < MaxHandlers
    /\ handlers' = handlers \cup
         {[target_rank |-> r,
           required_epoch |-> IF has_dirty[r] THEN current_epoch[r] + 1 ELSE 0,
           by |-> r, upto |-> written[r]]}
    /\ UNCHANGED <<epochVars, dataVars, callVars>>

(***************************************************************************)
(* poll(): serve a request, if there is one.                               *)
(***************************************************************************)
release_requested(r) == requested_epoch[r] > current_epoch[r]

poll(r) ==
    /\ pc[r] = "idle"
    /\ release_requested(r)
    /\ Call(r, "poll", "begin")
    /\ UNCHANGED <<epochVars, dataVars, handlers, rh, expected>>

PollReturn(r) ==
    /\ pc[r] = "check"
    /\ Call(r, "none", "idle")
    /\ UNCHANGED <<epochVars, dataVars, handlers, rh, expected>>

(***************************************************************************)
(* acquire(rh): clean, ensure_released(rh), invalidate.                    *)
(***************************************************************************)
(* Mutants: acquire(rh) completes what has begun and begins nothing; it    *)
(* waits for the other rank before it cleans its own cache.                *)
acquire_CompleteOnly(r, h) ==
    /\ pc[r] = "idle"
    /\ h \in handlers
    /\ Call(r, "acquire", "flush")
    /\ rh' = [rh EXCEPT ![r] = h]
    /\ UNCHANGED <<epochVars, dataVars, handlers, expected>>

acquire_WaitsFirst(r, h) ==
    /\ pc[r] = "idle"
    /\ h \in handlers
    /\ Call(r, "acquire", IF release_needed(r, h) THEN "ensure" ELSE "begin")
    /\ rh' = [rh EXCEPT ![r] = h]
    /\ UNCHANGED <<epochVars, dataVars, handlers, expected>>

acquire(r, h) ==
    /\ pc[r] = "idle"
    /\ h \in handlers
    /\ Call(r, "acquire", "begin")
    /\ rh' = [rh EXCEPT ![r] = h]
    /\ UNCHANGED <<epochVars, dataVars, handlers, expected>>

(* Mutant: the epoch that was current when the handler was made will do.   *)
Satisfied_OffByOne(r) == remote_epochs[r][rh[r].target_rank] + 1 >= rh[r].required_epoch

Satisfied(r) == remote_epochs[r][rh[r].target_rank] >= rh[r].required_epoch

ensure_released(r) ==
    /\ pc[r] = "ensure"
    /\ \/ Satisfied(r) /\ GoTo(r, "invalidate") /\ UNCHANGED expected
       \/ /\ ~Satisfied(r)
          /\ GoTo(r, "request")
          /\ expected' = [expected EXCEPT ![r] = remote_epochs[r][rh[r].target_rank]]
    /\ UNCHANGED <<epochVars, dataVars, handlers, op, rh>>

(* One iteration of the compare-and-swap loop of request_release().        *)
request_release(r) ==
    LET target == rh[r].target_rank IN
    /\ pc[r] = "request"
    /\ \/ /\ expected[r] >= rh[r].required_epoch
          /\ GoTo(r, "wait")
          /\ UNCHANGED <<requested_epoch, expected>>
       \/ /\ expected[r] < rh[r].required_epoch
          /\ requested_epoch[target] = expected[r]
          /\ requested_epoch' = [requested_epoch EXCEPT ![target] = rh[r].required_epoch]
          /\ GoTo(r, "wait")
          /\ UNCHANGED expected
       \/ /\ expected[r] < rh[r].required_epoch
          /\ requested_epoch[target] # expected[r]
          /\ expected' = [expected EXCEPT ![r] = requested_epoch[target]]
          /\ UNCHANGED <<requested_epoch, pc>>
    /\ UNCHANGED <<current_epoch, remote_epochs, dataVars, handlers, op, rh>>

get_remote_epoch(r) ==
    LET epoch == current_epoch[rh[r].target_rank] IN
    /\ pc[r] = "wait"
    /\ remote_epochs' = [remote_epochs EXCEPT ![r][rh[r].target_rank] = epoch]
    /\ GoTo(r, IF epoch < rh[r].required_epoch THEN "wait" ELSE "invalidate")
    /\ UNCHANGED <<current_epoch, requested_epoch, dataVars, handlers, op, rh, expected>>

AcquireReturn(r) ==
    /\ pc[r] = "invalidate"
    /\ Call(r, "none", "idle")
    /\ rh' = [rh EXCEPT ![r] = NoHandler(r)]
    /\ expected' = [expected EXCEPT ![r] = 0]
    /\ UNCHANGED <<epochVars, dataVars, handlers>>

--------------------------------------------------------------------------------
Steps(r) ==
    \/ CleanBegin(r) \/ CompleteFlush(r) \/ CompleteEpoch(r) \/ PollReturn(r)
    \/ ensure_released(r) \/ request_release(r) \/ get_remote_epoch(r) \/ AcquireReturn(r)

Calls(r) ==
    \/ add_dirty_region(r) \/ DiscardCall(r)
    \/ release(r) \/ release_lazy(r) \/ poll(r)
    \/ \E h \in handlers : acquire(r, h)

Next == \E r \in Ranks : Calls(r) \/ Steps(r)

Spec == Init /\ [][Next]_vars

(* Calls run to their end, and every worker keeps polling: the scheduler   *)
(* loop calls poll() in each iteration and running tasks at every join.    *)
FairSpec == Spec /\ \A r \in Ranks : WF_vars(Steps(r)) /\ WF_vars(poll(r))

--------------------------------------------------------------------------------
(* A rank can always honour the handlers it has given out by becoming      *)
(* clean once: no handler asks for an epoch that cleaning does not reach.  *)
Honourable(h) ==
    h.required_epoch <= current_epoch[h.by] + (IF has_dirty[h.by] THEN 1 ELSE 0)

HandlersHonourable == \A h \in handlers : Honourable(h)

(* ITYR_CHECK(!rm_.release_requested()) at the end of poll(), although     *)
(* other ranks may raise the request while the data is written back.       *)
PollServed == \A r \in Ranks : pc[r] = "check" => ~release_requested(r)

(* ITYR_CHECK(!has_dirty_cache_) of ensure_all_cache_clean(); it is also   *)
(* why two ranks that wait for each other cannot block each other: a rank  *)
(* that waits has nothing left to write back.                              *)
CleanWhileWaiting ==
    \A r \in Ranks : pc[r] \in {"check", "ensure", "request", "wait", "invalidate"}
                        => ~has_dirty[r] /\ home[r] = written[r]

(* When acquire(rh) returns, everything its creator had written when it    *)
(* created the handler is in home memory, also if the handler was a dummy, *)
(* and although the epochs compared are cached and stale.                  *)
AcquireSeesRelease ==
    \A r \in Ranks : pc[r] = "invalidate" => home[rh[r].by] >= rh[r].upto

(* The requested epoch of a rank only grows, although requesters compute   *)
(* it from stale values and race with each other.                          *)
RequestsGrow ==
    [][\A r \in Ranks : requested_epoch'[r] >= requested_epoch[r]]_vars

(* Every acquire(rh) returns.                                              *)
AcquireReturns == \A r \in Ranks : pc[r] = "ensure" ~> pc[r] = "idle"

================================================================================
