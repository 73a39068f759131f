-------------------------------- MODULE CollExec --------------------------------
(***************************************************************************)
(* coll_exec() of the schedulers: the worker that runs the root thread     *)
(* makes all ranks execute a task together.  The task is handed on along   *)
(* the tree of BcastTree, each rank copying it from the rank that told it. *)
(* A broadcast and two barriers keep the ranks together.                   *)
(*                                                                         *)
(* While a rank is "busy" it runs other threads; it comes back to its      *)
(* scheduling loop in the end.  A barrier is left when all ranks have      *)
(* entered it, by each rank in its own time; the broadcast, at which every *)
(* rank waits for the master, orders less than the barrier that follows    *)
(* it at once, and is part of it here.  MaxCalls bounds the calls.         *)
(***************************************************************************)
EXTENDS BcastTree, FiniteSetsExt

CONSTANTS NRanks, MaxCalls, NoRank

Ranks == 0..(NRanks - 1)

ASSUME CollExecAssumption == NRanks \in Nat \ {0} /\ MaxCalls \in Nat /\ NoRank \notin Ranks

VARIABLES pc,        \* place of a rank in the code
          mailbox,   \* coll_task_mailbox_: who sent the task, for which master
          from, master,  \* of a rank: the sender and the master of its task
          task,      \* does a rank hold a copy of the task in allocated memory
          fwd,       \* ranks a rank has still to pass the task on to
          entered,   \* how many barriers a rank has entered
          executed,  \* how many tasks a rank has executed
          calls,     \* calls of coll_exec() so far
          holder     \* the rank that runs the root thread

vars == <<pc, mailbox, from, master, task, fwd, entered, executed, calls, holder>>

Locations == {"root", "busy", "sched", "copy", "forward", "ready", "in", "execute",
              "done", "out", "free"}

TypeOK ==
    /\ pc \in [Ranks -> Locations]
    /\ mailbox \in [Ranks -> [sender : Ranks, master : Ranks] \cup {NoRank}]
    /\ from \in [Ranks -> Ranks \cup {NoRank}] /\ master \in [Ranks -> Ranks \cup {NoRank}]
    /\ task \in [Ranks -> BOOLEAN]
    /\ fwd \in [Ranks -> SUBSET Ranks]
    /\ entered \in [Ranks -> 0..(2 * MaxCalls)]
    /\ executed \in [Ranks -> 0..MaxCalls]
    /\ calls \in 0..MaxCalls /\ holder \in Ranks

Init ==
    /\ pc = [r \in Ranks |-> IF r = 0 THEN "root" ELSE "sched"]
    /\ mailbox = [r \in Ranks |-> NoRank]
    /\ from = [r \in Ranks |-> NoRank]
    /\ master = [r \in Ranks |-> NoRank]
    /\ task = [r \in Ranks |-> FALSE]
    /\ fwd = [r \in Ranks |-> {}]
    /\ entered = [r \in Ranks |-> 0]
    /\ executed = [r \in Ranks |-> 0]
    /\ calls = 0 /\ holder = 0

GoTo(r, loc) == pc' = [pc EXCEPT ![r] = loc]

(* What the workers do between collective tasks: run threads, and move the *)
(* root thread to another worker.                                          *)
RunThread(r) ==
    /\ pc[r] = "sched" /\ mailbox[r] = NoRank
    /\ GoTo(r, "busy")
    /\ UNCHANGED <<mailbox, from, master, task, fwd, entered, executed, calls, holder>>

ThreadEnds(r) ==
    /\ pc[r] = "busy"
    /\ GoTo(r, "sched")
    /\ UNCHANGED <<mailbox, from, master, task, fwd, entered, executed, calls, holder>>

RootMoves(r, q) ==
    /\ pc[r] = "root" /\ pc[q] = "sched" /\ mailbox[q] = NoRank
    /\ pc' = [pc EXCEPT ![r] = "sched", ![q] = "root"]
    /\ holder' = q
    /\ UNCHANGED <<mailbox, from, master, task, fwd, entered, executed, calls>>

(* Mutant: ranks are not counted from the master.                          *)
Shifted_NoShift(r, m) == r

(* execute_coll_task(): ranks are counted from the master m.               *)
Shifted(r, m) == (r + NRanks - m) % NRanks

Unshifted(s, m) == (s + m) % NRanks

Tree == [s \in Ranks |-> BcastTargets(s, NRanks)]

(* coll_exec(), on the rank that becomes the master.                       *)
coll_exec(r) ==
    /\ pc[r] = "root"
    /\ calls < MaxCalls
    /\ calls' = calls + 1
    /\ task' = [task EXCEPT ![r] = TRUE]
    /\ master' = [master EXCEPT ![r] = r]
    /\ fwd' = [fwd EXCEPT ![r] = Tree[Shifted(r, r)]]
    /\ GoTo(r, "forward")
    /\ UNCHANGED <<mailbox, from, entered, executed, holder>>

(* execute_coll_task_if_arrived()                                          *)
MailboxPop(r) ==
    /\ pc[r] = "sched" /\ mailbox[r] # NoRank
    /\ mailbox' = [mailbox EXCEPT ![r] = NoRank]
    /\ from' = [from EXCEPT ![r] = mailbox[r].sender]
    /\ master' = [master EXCEPT ![r] = mailbox[r].master]
    /\ GoTo(r, "copy")
    /\ UNCHANGED <<task, fwd, entered, executed, calls, holder>>

CopyTask(r) ==
    /\ pc[r] = "copy"
    /\ task' = [task EXCEPT ![r] = TRUE]
    /\ fwd' = [fwd EXCEPT ![r] = Tree[Shifted(r, master[r])]]
    /\ GoTo(r, "forward")
    /\ UNCHANGED <<mailbox, from, master, entered, executed, calls, holder>>

ForwardTask(r) ==
    /\ pc[r] = "forward"
    /\ \/ /\ fwd[r] # {}
          /\ fwd' = [fwd EXCEPT ![r] = @ \ {Max(@)}]
          /\ mailbox' = [mailbox EXCEPT ![Unshifted(Max(fwd[r]), master[r])] =
                            [sender |-> r, master |-> master[r]]]
          /\ UNCHANGED pc
       \/ /\ fwd[r] = {}
          /\ GoTo(r, "ready")
          /\ UNCHANGED <<mailbox, fwd>>
    /\ UNCHANGED <<from, master, task, entered, executed, calls, holder>>

EnterBarrier(r) ==
    /\ \/ pc[r] = "ready" /\ GoTo(r, "in")
       \/ pc[r] = "done" /\ GoTo(r, "out")
    /\ entered' = [entered EXCEPT ![r] = @ + 1]
    /\ UNCHANGED <<mailbox, from, master, task, fwd, executed, calls, holder>>

(* Mutant: the barriers are left out.                                      *)
LeaveBarrier_NoWait(r) ==
    /\ \/ pc[r] = "in" /\ GoTo(r, "execute")
       \/ pc[r] = "out" /\ GoTo(r, "free")
    /\ UNCHANGED <<mailbox, from, master, task, fwd, entered, executed, calls, holder>>

LeaveBarrier(r) ==
    /\ \A q \in Ranks : entered[q] >= entered[r]
    /\ \/ pc[r] = "in" /\ GoTo(r, "execute")
       \/ pc[r] = "out" /\ GoTo(r, "free")
    /\ UNCHANGED <<mailbox, from, master, task, fwd, entered, executed, calls, holder>>

Execute(r) ==
    /\ pc[r] = "execute"
    /\ executed' = [executed EXCEPT ![r] = @ + 1]
    /\ GoTo(r, "done")
    /\ UNCHANGED <<mailbox, from, master, task, fwd, entered, calls, holder>>

(* Free the task, and go on with the root thread or the scheduling loop.   *)
FreeTask(r) ==
    /\ pc[r] = "free"
    /\ task' = [task EXCEPT ![r] = FALSE]
    /\ from' = [from EXCEPT ![r] = NoRank]
    /\ master' = [master EXCEPT ![r] = NoRank]
    /\ GoTo(r, IF master[r] = r THEN "root" ELSE "sched")
    /\ UNCHANGED <<mailbox, fwd, entered, executed, calls, holder>>

--------------------------------------------------------------------------------
Steps(r) ==
    \/ ThreadEnds(r) \/ MailboxPop(r) \/ CopyTask(r) \/ ForwardTask(r)
    \/ EnterBarrier(r) \/ LeaveBarrier(r) \/ Execute(r) \/ FreeTask(r)

Next ==
    \E r \in Ranks : \/ Steps(r) \/ RunThread(r) \/ coll_exec(r)
                     \/ \E q \in Ranks : RootMoves(r, q)

Spec == Init /\ [][Next]_vars

(* Workers run on, and threads return to the scheduling loop.              *)
FairSpec == Spec /\ \A r \in Ranks : WF_vars(Steps(r))

--------------------------------------------------------------------------------
(* When a rank copies the task from the rank that told it, that copy is    *)
(* still allocated: nobody frees its copy before all have theirs.          *)
TaskAlive == \A r \in Ranks : pc[r] = "copy" => task[from[r]]

(* All ranks execute the same sequence of collective tasks: a rank that    *)
(* executes one has executed exactly the ones before it, and no two ranks  *)
(* are more than the current task apart.                                   *)
ExecuteTogether ==
    \A r \in Ranks :
        /\ pc[r] = "execute" => executed[r] = calls - 1 /\ master[r] = holder
        /\ calls - executed[r] \in {0, 1}

(* Every collective task is executed by all ranks, and its caller returns. *)
CollExecReturns ==
    \A r \in Ranks : pc[r] = "forward" ~> (pc[r] \in {"root", "sched"} /\ executed[r] = calls)

================================================================================
