-------------------------- MODULE ReleaseManagerProofs --------------------------
(***************************************************************************)
(* Lazy release is safe for every number of ranks, writes and handlers.    *)
(***************************************************************************)
EXTENDS ReleaseManager, TLAPS

Waiting == {"ensure", "request", "wait", "invalidate"}

(* Which call a rank is in, where its place in the code does not tell.     *)
CallInv ==
    \A r \in Ranks :
        /\ pc[r] = "check" => op[r] = "poll"
        /\ pc[r] \in Waiting => op[r] = "acquire"
        /\ pc[r] = "begin" => op[r] # "complete"
        /\ pc[r] # "idle" /\ op[r] = "acquire" => rh[r] \in handlers

(* How far the writes of a rank have got.                                  *)
WritesInv ==
    \A r \in Ranks :
        /\ home[r] <= begun[r] /\ begun[r] <= written[r]
        /\ ~has_dirty[r] => home[r] = written[r]
        /\ pc[r] \in {"flush", "epoch"} /\ op[r] # "complete" => begun[r] = written[r]
        /\ pc[r] = "epoch" => home[r] = begun[r]
        /\ pc[r] \in Waiting \cup {"check"} => ~has_dirty[r]

(* What a handler stands for: once the epoch is reached, and at once for a *)
(* dummy, the creator's writes are in home memory.                         *)
HandlerInv ==
    \A h \in handlers :
        /\ h.target_rank = h.by
        /\ h.upto <= written[h.by]
        /\ Honourable(h)
        /\ current_epoch[h.by] >= h.required_epoch => home[h.by] >= h.upto

(* Epochs that other ranks ask for or remember.                            *)
EpochInv ==
    /\ \A r \in Ranks :
          requested_epoch[r] <= current_epoch[r] + (IF has_dirty[r] THEN 1 ELSE 0)
    /\ \A r, q \in Ranks : remote_epochs[r][q] <= current_epoch[q]

IInv ==
    /\ Typed /\ CallInv /\ WritesInv /\ HandlerInv /\ EpochInv
    /\ AcquireSeesRelease

--------------------------------------------------------------------------------
(* The inductive invariant holds initially.                                *)
LEMMA InitIInv == Init => IInv
BY DEF Init, IInv, Typed, CallInv, WritesInv, HandlerInv, EpochInv, AcquireSeesRelease,
       Handler, NoHandler, Locations, Operations, Waiting

(* Calls preserve it.                                                      *)
LEMMA CallsIInv == ASSUME IInv, NEW r \in Ranks, Calls(r) PROVE IInv'
<1> USE ReleaseAssumption DEF IInv, epochVars, dataVars, callVars, GoTo, Call
<1>1. CASE add_dirty_region(r)
  <2>1. Typed' BY <1>1 DEF add_dirty_region, writeback_begin, Typed
  <2>2. CallInv' BY <1>1 DEF add_dirty_region, CallInv, Typed, Waiting
  <2>3. WritesInv' BY <1>1 DEF add_dirty_region, writeback_begin, WritesInv, Typed, Waiting
  <2>4. \A q \in Ranks : home'[q] >= home[q] /\ written'[q] >= written[q]
    BY <1>1 DEF add_dirty_region, writeback_begin, WritesInv, Typed
  <2>5. HandlerInv'
    BY <1>1, <2>1, <2>4 DEF add_dirty_region, HandlerInv, Honourable, Typed, Handler
  <2>6. EpochInv' BY <1>1 DEF add_dirty_region, EpochInv, Typed
  <2>7. AcquireSeesRelease'
    BY <1>1, <2>1, <2>4 DEF add_dirty_region, AcquireSeesRelease, Typed, Handler
  <2>. QED BY <2>1, <2>2, <2>3, <2>5, <2>6, <2>7
<1>2. CASE DiscardCall(r)
  BY <1>2 DEF DiscardCall, Typed, CallInv, WritesInv, HandlerInv, EpochInv,
              AcquireSeesRelease, Honourable, Locations, Operations, Waiting
<1>3. CASE release(r)
  BY <1>3 DEF release, Typed, CallInv, WritesInv, HandlerInv, EpochInv,
              AcquireSeesRelease, Honourable, Locations, Operations, Waiting
<1>4. CASE release_lazy(r)
  <2>1. Typed' BY <1>4 DEF release_lazy, Typed, Handler
  <2>2. CallInv' BY <1>4 DEF release_lazy, CallInv
  <2>3. WritesInv' BY <1>4 DEF release_lazy, WritesInv
  <2>4. HandlerInv'
    BY <1>4 DEF release_lazy, HandlerInv, Honourable, WritesInv, Typed, Handler
  <2>5. EpochInv' BY <1>4 DEF release_lazy, EpochInv
  <2>6. AcquireSeesRelease' BY <1>4 DEF release_lazy, AcquireSeesRelease
  <2>. QED BY <2>1, <2>2, <2>3, <2>4, <2>5, <2>6
<1>5. CASE poll(r)
  BY <1>5 DEF poll, Typed, CallInv, WritesInv, HandlerInv, EpochInv,
              AcquireSeesRelease, Honourable, Locations, Operations, Waiting
<1>6. ASSUME NEW h \in handlers, acquire(r, h) PROVE IInv'
  BY <1>6 DEF acquire, Typed, CallInv, WritesInv, HandlerInv, EpochInv,
              AcquireSeesRelease, Honourable, Locations, Operations, Waiting
<1>. QED BY <1>1, <1>2, <1>3, <1>4, <1>5, <1>6 DEF Calls

(* So do the steps inside a call.                                          *)
LEMMA StepsIInv == ASSUME IInv, NEW r \in Ranks, Steps(r) PROVE IInv'
<1> USE DEF IInv, epochVars, dataVars, callVars, GoTo, Call
<1>1. CASE CleanBegin(r)
  <2>1. Typed' BY <1>1 DEF CleanBegin, writeback_begin, Typed, Locations
  <2>2. CallInv' BY <1>1 DEF CleanBegin, CallInv, Typed, Waiting
  <2>3. WritesInv'
    BY <1>1 DEF CleanBegin, writeback_begin, CallInv, WritesInv, Typed, Waiting
  <2>4. \A q \in Ranks : home'[q] >= home[q]
    BY <1>1 DEF CleanBegin, writeback_begin, WritesInv, Typed
  <2>5. HandlerInv'
    BY <1>1, <2>1, <2>4 DEF CleanBegin, HandlerInv, Honourable, Typed, Handler
  <2>6. EpochInv' BY <1>1 DEF CleanBegin, EpochInv
  <2>7. AcquireSeesRelease'
    BY <1>1, <2>1, <2>4 DEF CleanBegin, AcquireSeesRelease, Typed, Handler
  <2>. QED BY <2>1, <2>2, <2>3, <2>5, <2>6, <2>7
<1>2. CASE CompleteFlush(r)
  <2>1. Typed' BY <1>2 DEF CompleteFlush, Typed, Locations
  <2>2. CallInv' BY <1>2 DEF CompleteFlush, CallInv, Typed, Waiting
  <2>3. WritesInv'
    <3>1. home'[r] = begun[r] /\ pc'[r] = "epoch" BY <1>2 DEF CompleteFlush, Typed
    <3>2. \A q \in Ranks \ {r} : home'[q] = home[q] /\ pc'[q] = pc[q]
      BY <1>2 DEF CompleteFlush, Typed
    <3>3. begun[r] \in Nat /\ written[r] \in Nat /\ home[r] \in Nat BY DEF Typed
    <3>4. ~has_dirty[r] => begun[r] = written[r] BY <3>3 DEF WritesInv
    <3>. QED BY <1>2, <3>1, <3>2, <3>3, <3>4 DEF CompleteFlush, WritesInv, Waiting
  <2>4. \A q \in Ranks : home'[q] >= home[q]
    BY <1>2 DEF CompleteFlush, WritesInv, Typed
  <2>5. HandlerInv'
    BY <1>2, <2>1, <2>4 DEF CompleteFlush, HandlerInv, Honourable, Typed, Handler
  <2>6. EpochInv' BY <1>2 DEF CompleteFlush, EpochInv
  <2>7. AcquireSeesRelease'
    BY <1>2, <2>1, <2>4 DEF CompleteFlush, AcquireSeesRelease, Typed, Handler
  <2>. QED BY <2>1, <2>2, <2>3, <2>5, <2>6, <2>7
<1>3. CASE CompleteEpoch(r)
  <2> USE DEF CompleteEpoch, AfterClean, AllBegun, increment_epoch
  <2>1. Typed'
    <3>1. AfterClean(r) \in Locations /\ op'[r] \in Operations
      BY <1>3 DEF Typed, Locations, Operations
    <3>2. pc' \in [Ranks -> Locations] /\ op' \in [Ranks -> Operations]
      BY <1>3, <3>1 DEF Typed, Operations
    <3>3. current_epoch' \in [Ranks -> Nat]
      BY <1>3 DEF Typed
    <3>4. has_dirty' = has_dirty \/ has_dirty' = [has_dirty EXCEPT ![r] = FALSE]
      BY <1>3
    <3>5. has_dirty' \in [Ranks -> BOOLEAN]
      BY <3>4, Zenon DEF Typed
    <3>. QED BY <1>3, <3>2, <3>3, <3>5 DEF Typed
  <2>2. CallInv' BY <1>3 DEF CallInv, Typed, Waiting
  <2>3. WritesInv'
    <3>1. op[r] # "complete" => home[r] = written[r] /\ AllBegun(r)
      BY <1>3 DEF WritesInv, Typed
    <3>2. AllBegun(r) => ~has_dirty'[r]
      <4>1. CASE has_dirty[r] BY <1>3, <4>1 DEF Typed
      <4>2. CASE ~has_dirty[r] BY <1>3, <4>2
      <4>. QED BY <4>1, <4>2
    <3>. QED BY <1>3, <3>1, <3>2 DEF WritesInv, Typed, Waiting
  <2>4. HandlerInv'
    BY <1>3, <2>1 DEF HandlerInv, Honourable, WritesInv, Typed, Handler
  <2>5. EpochInv'
    <3>1. current_epoch'[r] + (IF has_dirty'[r] THEN 1 ELSE 0)
            = current_epoch[r] + (IF has_dirty[r] THEN 1 ELSE 0)
      BY <1>3 DEF Typed
    <3>2. \A q \in Ranks \ {r} : current_epoch'[q] = current_epoch[q]
                                  /\ has_dirty'[q] = has_dirty[q]
      BY <1>3 DEF Typed
    <3>3. \A q \in Ranks : current_epoch'[q] >= current_epoch[q]
      BY <1>3 DEF Typed
    <3>. QED BY <1>3, <2>1, <3>1, <3>2, <3>3 DEF EpochInv, Typed
  <2>6. AcquireSeesRelease'
    <3> SUFFICES ASSUME NEW q \in Ranks, pc'[q] = "invalidate"
                 PROVE  home[rh[q].by] >= rh[q].upto
      BY <1>3 DEF AcquireSeesRelease
    <3>1. CASE q # r BY <1>3, <3>1 DEF AcquireSeesRelease, Typed
    <3>2. CASE q = r
      <4>1. op[r] = "acquire" /\ ~release_needed(r, rh[r])
        BY <1>3, <3>2 DEF Typed, Locations
      <4>2. rh[r] \in handlers BY <1>3, <4>1 DEF CallInv
      <4>3. CASE rh[r].target_rank = r
        <5>1. rh[r].by = r /\ rh[r].upto <= written[r]
          BY <4>2, <4>3 DEF HandlerInv
        <5>2. home[r] = written[r]
          BY <1>3, <4>1 DEF WritesInv, Typed
        <5>. QED BY <3>2, <5>1, <5>2 DEF Typed, Handler
      <4>4. CASE ~(rh[r].required_epoch > 0)
        <5>1. rh[r].by \in Ranks /\ rh[r].required_epoch \in Nat
          BY <4>2 DEF Typed, Handler
        <5>2. current_epoch[rh[r].by] >= rh[r].required_epoch
          BY <4>4, <5>1 DEF Typed
        <5>. QED BY <3>2, <4>2, <5>2 DEF HandlerInv
      <4>. QED BY <4>1, <4>3, <4>4 DEF release_needed
    <3>. QED BY <3>1, <3>2
  <2>. QED BY <2>1, <2>2, <2>3, <2>4, <2>5, <2>6
<1>4. CASE PollReturn(r)
  BY <1>4 DEF PollReturn, Typed, CallInv, WritesInv, HandlerInv, EpochInv,
              AcquireSeesRelease, Honourable, Locations, Operations, Waiting
<1>5. ASSUME pc[r] \in Waiting
      PROVE  rh[r] \in handlers /\ rh[r] \in Handler /\ rh[r].target_rank = rh[r].by
  BY <1>5 DEF CallInv, HandlerInv, Typed, Waiting
<1>6. CASE ensure_released(r)
  <2> USE DEF ensure_released, Satisfied
  <2>1. Typed'
    <3>1. rh[r].target_rank \in Ranks BY <1>5, <1>6 DEF Waiting, Handler
    <3>2. remote_epochs[r][rh[r].target_rank] \in Nat BY <3>1 DEF Typed
    <3>. QED BY <1>6, <3>2 DEF Typed, Locations
  <2>2. CallInv' BY <1>6 DEF CallInv, Typed, Waiting
  <2>3. WritesInv' BY <1>6 DEF WritesInv, Typed, Waiting
  <2>4. HandlerInv' BY <1>6 DEF HandlerInv, Honourable
  <2>5. EpochInv' BY <1>6 DEF EpochInv
  <2>6. AcquireSeesRelease'
    <3>1. Satisfied(r) => current_epoch[rh[r].by] >= rh[r].required_epoch
      BY <1>5, <1>6 DEF EpochInv, Typed, Handler, Waiting
    <3>2. Satisfied(r) => home[rh[r].by] >= rh[r].upto
      BY <1>5, <1>6, <3>1 DEF HandlerInv, Waiting
    <3>. QED BY <1>6, <3>2 DEF AcquireSeesRelease, Typed
  <2>. QED BY <2>1, <2>2, <2>3, <2>4, <2>5, <2>6
<1>7. CASE request_release(r)
  <2> USE DEF request_release
  <2>1. Typed' BY <1>5, <1>7 DEF Typed, Locations, Waiting, Handler
  <2>2. CallInv' BY <1>7 DEF CallInv, Typed, Waiting
  <2>3. WritesInv' BY <1>7 DEF WritesInv, Typed, Waiting
  <2>4. HandlerInv' BY <1>7 DEF HandlerInv, Honourable
  <2>5. EpochInv'
    <3>1. Honourable(rh[r]) BY <1>5, <1>7 DEF HandlerInv, Waiting
    <3>. QED BY <1>5, <1>7, <3>1 DEF EpochInv, Typed, Handler, Honourable, Waiting
  <2>6. AcquireSeesRelease' BY <1>7 DEF AcquireSeesRelease, Typed
  <2>. QED BY <2>1, <2>2, <2>3, <2>4, <2>5, <2>6
<1>8. CASE get_remote_epoch(r)
  <2> USE DEF get_remote_epoch
  <2>1. Typed'
    <3>1. rh[r].target_rank \in Ranks BY <1>5, <1>8 DEF Waiting, Handler
    <3>2. current_epoch[rh[r].target_rank] \in Nat BY <3>1 DEF Typed
    <3>3. remote_epochs' \in [Ranks -> [Ranks -> Nat]] BY <1>8, <3>1, <3>2 DEF Typed
    <3>. QED BY <1>8, <3>3 DEF Typed, Locations
  <2>2. CallInv' BY <1>8 DEF CallInv, Typed, Waiting
  <2>3. WritesInv' BY <1>8 DEF WritesInv, Typed, Waiting
  <2>4. HandlerInv' BY <1>8 DEF HandlerInv, Honourable
  <2>5. EpochInv' BY <1>5, <1>8 DEF EpochInv, Typed, Handler, Waiting
  <2>6. AcquireSeesRelease'
    <3>1. pc'[r] = "invalidate" => current_epoch[rh[r].by] >= rh[r].required_epoch
      BY <1>5, <1>8 DEF Typed, Handler, Waiting
    <3>2. pc'[r] = "invalidate" => home[rh[r].by] >= rh[r].upto
      BY <1>5, <1>8, <3>1 DEF HandlerInv, Waiting
    <3>. QED BY <1>8, <3>2 DEF AcquireSeesRelease, Typed
  <2>. QED BY <2>1, <2>2, <2>3, <2>4, <2>5, <2>6
<1>9. CASE AcquireReturn(r)
  <2>1. Typed' BY <1>9 DEF AcquireReturn, Typed, Locations, Operations, NoHandler, Handler
  <2>. QED
    BY <1>9, <2>1 DEF AcquireReturn, Typed, CallInv, WritesInv, HandlerInv, EpochInv,
                AcquireSeesRelease, Honourable, Waiting
<1>. QED BY <1>1, <1>2, <1>3, <1>4, <1>6, <1>7, <1>8, <1>9 DEF Steps

(* The inductive invariant of lazy release.                                *)
LEMMA Inductive == Spec => []IInv
<1>1. IInv /\ [Next]_vars => IInv'
  <2> SUFFICES ASSUME IInv, [Next]_vars PROVE IInv'
    OBVIOUS
  <2>1. CASE Next BY <2>1, CallsIInv, StepsIInv DEF Next
  <2>2. CASE UNCHANGED vars
    BY <2>2 DEF vars, epochVars, dataVars, callVars, IInv, Typed, CallInv, WritesInv,
                HandlerInv, EpochInv, AcquireSeesRelease, Honourable
  <2>. QED BY <2>1, <2>2
<1>. QED BY InitIInv, <1>1, PTL DEF Spec

--------------------------------------------------------------------------------
(* The variables of the release manager stay in their types, and no write  *)
(* is taken to be home, or to be on its way, before it is.                 *)
THEOREM TypeCorrect == Spec => []TypeOK
<1>1. IInv => TypeOK
  BY DEF IInv, WritesInv, TypeOK
<1>. QED BY Inductive, <1>1, PTL

(* No handler ever asks for an epoch beyond the one that writing back the  *)
(* creator's dirty data reaches, so that one poll() serves any request.    *)
THEOREM HandlersAreHonourable == Spec => []HandlersHonourable
<1>1. IInv => HandlersHonourable
  BY DEF IInv, HandlerInv, HandlersHonourable
<1>. QED BY Inductive, <1>1, PTL

(* The assertion at the end of poll() never fails.                         *)
THEOREM PollIsServed == Spec => []PollServed
<1>1. IInv => PollServed
  BY DEF IInv, EpochInv, WritesInv, PollServed, release_requested, Typed, Waiting
<1>. QED BY Inductive, <1>1, PTL

(* A rank that waits for another one has written everything back.          *)
THEOREM WaitersAreClean == Spec => []CleanWhileWaiting
<1>1. IInv => CleanWhileWaiting
  BY DEF IInv, WritesInv, CleanWhileWaiting, Waiting
<1>. QED BY Inductive, <1>1, PTL

(* acquire(rh) returns only after the writes that precede rh are home.     *)
THEOREM AcquireIsSound == Spec => []AcquireSeesRelease
<1>1. IInv => AcquireSeesRelease BY DEF IInv
<1>. QED BY Inductive, <1>1, PTL

(* Requested epochs never shrink.                                          *)
THEOREM RequestsOnlyGrow == Spec => RequestsGrow
<1>1. IInv /\ [Next]_vars => [\A r \in Ranks : requested_epoch'[r] >= requested_epoch[r]]_vars
  <2> SUFFICES ASSUME IInv, Next, NEW q \in Ranks
               PROVE  requested_epoch'[q] >= requested_epoch[q]
    OBVIOUS
  <2>1. PICK r \in Ranks : Calls(r) \/ Steps(r) BY DEF Next
  <2>2. CASE request_release(r)
    BY <2>2 DEF request_release, IInv, Typed, Handler
  <2>3. CASE ~request_release(r)
    <3>1. UNCHANGED requested_epoch
      BY <2>1, <2>3 DEF Calls, Steps, add_dirty_region, DiscardCall, release, release_lazy,
           poll, acquire, CleanBegin, CompleteFlush, CompleteEpoch, PollReturn,
           ensure_released, get_remote_epoch, AcquireReturn, epochVars
    <3>. QED BY <3>1 DEF IInv, Typed
  <2>. QED BY <2>2, <2>3
<1>. QED BY Inductive, <1>1, PTL DEF Spec, RequestsGrow

================================================================================
