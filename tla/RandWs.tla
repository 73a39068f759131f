--------------------------------- MODULE RandWs ---------------------------------
(***************************************************************************)
(* ityr::ito::scheduler_randws: fork-join threads on random work stealing. *)
(*                                                                         *)
(* fork() runs the new thread at once and leaves the continuation of the   *)
(* parent in the worker's queue.  A thread that ends pops the queue: an    *)
(* entry there means that its parent was not stolen, and the call simply   *)
(* returns into the parent's frame.  Otherwise the parent goes on          *)
(* elsewhere, and the thread and the join() of its parent meet in the      *)
(* thread_state: whoever is second at the fetch-and-add of resume_flag     *)
(* goes on with the parent.                                                *)
(*                                                                         *)
(* All stacks are at the same addresses on all ranks, so that a frame can  *)
(* be resumed on any rank but only at its own address.  level[t] stands    *)
(* for that address: a thread's frames lie above those of its ancestors.   *)
(*                                                                         *)
(* The queue is the atomic deque that WsQueue is shown to implement; its   *)
(* lock is kept, because a thief copies the stack while it holds it.  The  *)
(* program that runs is any program whose threads join the threads they    *)
(* fork; at most Cardinality(Threads) threads exist at a time, MaxForks    *)
(* bounds the forks and MaxMoves the migrations of a root thread.          *)
(***************************************************************************)
EXTENDS BcastTree, FiniteSets, SequencesExt

CONSTANTS NRanks, Threads, NoThread, NoRank, MaxForks, MaxMoves

Ranks == 0..(NRanks - 1)

ASSUME RandWsAssumption ==
    /\ NRanks \in Nat \ {0} /\ NoThread \notin Threads /\ NoRank \notin Ranks
    /\ MaxForks \in Nat /\ MaxMoves \in Nat

VARIABLES
    pc, run,                     \* of a rank: place in the code, thread it works for
    loot,                        \* of a rank: victim whose stack it copies
    queue, qlock,                \* wsq_ and who holds its lock for stealing
    parent, level,               \* of a thread: who forked it, place of its frames
    handler,                     \* thread_handler: "none", "forked", "serialized"
    ts, resume_flag, suspended, retval,     \* thread_state
    evac,                        \* threads that have an evacuation buffer
    joining,                     \* the child whose join() a thread is in
    migration, exit_request,     \* mailboxes
    fwd,                         \* ranks a rank has still to pass the exit request on to
    master, root, forks, moves

threadVars == <<parent, level, handler>>
stateVars == <<ts, resume_flag, suspended, retval>>
queueVars == <<queue, qlock>>
mailVars == <<migration, exit_request, fwd>>
budgetVars == <<forks, moves>>
vars == <<pc, run, loot, queueVars, threadVars, stateVars, evac, joining,
          mailVars, master, root, budgetVars>>

Idle == {"spmd", "sched", "forward", "result", "barrier"}
Locations == Idle \cup
             {"thread", "copy", "pop", "put", "diefaa", "get", "resume",
              "check", "evac", "joinfaa", "retval", "rootput", "exitput", "moveput"}

TypeOK ==
    /\ pc \in [Ranks -> Locations]
    /\ run \in [Ranks -> Threads \cup {NoThread}]
    /\ \A r \in Ranks : run[r] = NoThread <=> pc[r] \in Idle
    /\ loot \in [Ranks -> Ranks \cup {NoRank}]
    /\ queue \in [Ranks -> Seq(Threads)]
    /\ qlock \in [Ranks -> Ranks \cup {NoRank}]
    /\ parent \in [Threads -> Threads \cup {NoThread}]
    /\ level \in [Threads -> Nat]
    /\ handler \in [Threads -> {"none", "forked", "serialized"}]
    /\ ts \in [Threads -> {"free", "allocated"}]
    /\ resume_flag \in [Threads -> 0..2]
    /\ suspended \in [Threads -> Threads \cup {NoThread}]
    /\ retval \in [Threads -> BOOLEAN]
    /\ evac \in SUBSET Threads
    /\ joining \in [Threads -> Threads \cup {NoThread}]
    /\ migration \in [Ranks -> Threads \cup {NoThread}]
    /\ exit_request \in [Ranks -> BOOLEAN]
    /\ fwd \in [Ranks -> SUBSET Ranks]
    /\ master \in Ranks /\ root \in Threads \cup {NoThread}
    /\ forks \in 0..MaxForks /\ moves \in 0..MaxMoves

Init ==
    /\ pc = [r \in Ranks |-> "spmd"]
    /\ run = [r \in Ranks |-> NoThread]
    /\ loot = [r \in Ranks |-> NoRank]
    /\ queue = [r \in Ranks |-> <<>>]
    /\ qlock = [r \in Ranks |-> NoRank]
    /\ parent = [t \in Threads |-> NoThread]
    /\ level = [t \in Threads |-> 0]
    /\ handler = [t \in Threads |-> "none"]
    /\ ts = [t \in Threads |-> "free"]
    /\ resume_flag = [t \in Threads |-> 0]
    /\ suspended = [t \in Threads |-> NoThread]
    /\ retval = [t \in Threads |-> FALSE]
    /\ evac = {}
    /\ joining = [t \in Threads |-> NoThread]
    /\ migration = [r \in Ranks |-> NoThread]
    /\ exit_request = [r \in Ranks |-> FALSE]
    /\ fwd = [r \in Ranks |-> {}]
    /\ master = 0 /\ root = NoThread
    /\ forks = 0 /\ moves = 0

GoTo(r, loc) == pc' = [pc EXCEPT ![r] = loc]
Enter(r, loc, t) == GoTo(r, loc) /\ run' = [run EXCEPT ![r] = t]

(* resume_sched(): the worker is back in its scheduling loop.              *)
resume_sched(r) == Enter(r, "sched", NoThread)

(* A fresh thread_state in the thread_state_allocator_.                    *)
NewThreadState(t) ==
    /\ ts' = [ts EXCEPT ![t] = "allocated"]
    /\ resume_flag' = [resume_flag EXCEPT ![t] = 0]
    /\ suspended' = [suspended EXCEPT ![t] = NoThread]
    /\ retval' = [retval EXCEPT ![t] = FALSE]

(* Memory that is freed has no contents.                                   *)
FreeThreadState(t) ==
    /\ ts' = [ts EXCEPT ![t] = "free"]
    /\ resume_flag' = [resume_flag EXCEPT ![t] = 0]
    /\ suspended' = [suspended EXCEPT ![t] = NoThread]
    /\ retval' = [retval EXCEPT ![t] = FALSE]

(* The thread_handler of t goes out of scope with the end of join().       *)
Forget(t) ==
    /\ handler' = [handler EXCEPT ![t] = "none"]
    /\ parent' = [parent EXCEPT ![t] = NoThread]
    /\ level' = [level EXCEPT ![t] = 0]

Unused(t) == handler[t] = "none" /\ t # root

(* Names of threads do not matter: a new one takes a fixed free name.      *)
FreshNames ==
    LET free == {t \in Threads : Unused(t)}
    IN IF free = {} THEN {} ELSE {CHOOSE t \in free : TRUE}

Children(t) == {c \in Threads : parent[c] = t /\ handler[c] # "none"}

--------------------------------------------------------------------------------
(***************************************************************************)
(* worker::root_exec(), called by all ranks: one of them starts the root   *)
(* thread, the others enter the scheduling loop.                           *)
(***************************************************************************)
root_exec(m, t) ==
    /\ \A r \in Ranks : pc[r] = "spmd"
    /\ Unused(t)
    /\ forks' = 0 /\ moves' = 0
    /\ master' = m /\ root' = t
    /\ NewThreadState(t)
    /\ parent' = [parent EXCEPT ![t] = NoThread]
    /\ level' = [level EXCEPT ![t] = 0]
    /\ pc' = [r \in Ranks |-> IF r = m THEN "thread" ELSE "sched"]
    /\ run' = [run EXCEPT ![m] = t]
    /\ UNCHANGED <<loot, queueVars, handler, evac, joining, mailVars>>

(***************************************************************************)
(* fork(): push the continuation of the parent and run the child.          *)
(***************************************************************************)
fork(r, c) ==
    LET t == run[r] IN
    /\ pc[r] = "thread"
    /\ forks < MaxForks /\ Unused(c)
    /\ forks' = forks + 1
    /\ NewThreadState(c)
    /\ handler' = [handler EXCEPT ![c] = "forked"]
    /\ parent' = [parent EXCEPT ![c] = t]
    /\ level' = [level EXCEPT ![c] = level[t] + 1]
    /\ queue' = [queue EXCEPT ![r] = Append(@, t)]
    /\ Enter(r, "thread", c)
    /\ UNCHANGED <<loot, qlock, evac, joining, mailVars, master, root, moves>>

(* The function of the thread returns, and on_die() begins.                *)
Return(r) ==
    /\ pc[r] = "thread"
    /\ Children(run[r]) = {}
    /\ GoTo(r, IF run[r] = root THEN "rootput" ELSE "pop")
    /\ UNCHANGED <<run, loot, queueVars, threadVars, stateVars, evac, joining,
                   mailVars, master, root, budgetVars>>

(***************************************************************************)
(* on_die(): pop().  If there is an entry, whichever it is, the thread is  *)
(* serialized: its state is freed and the call returns to the parent's     *)
(* frame.  To find the queue empty, pop() needs the lock.                  *)
(***************************************************************************)
Serialize(r) ==
    LET t == run[r] IN
    /\ pc[r] = "pop"
    /\ queue[r] # <<>>
    /\ queue' = [queue EXCEPT ![r] = Front(@)]
    /\ FreeThreadState(t)
    /\ handler' = [handler EXCEPT ![t] = "serialized"]
    /\ Enter(r, "thread", parent[t])
    /\ UNCHANGED <<loot, qlock, parent, level, evac, joining, mailVars, master, root, budgetVars>>

(* Mutants: pop() does not take the lock to see that the queue is empty;   *)
(* the thread goes to the join race before it has put its result.          *)
PopEmpty_NoLock(r) ==
    /\ pc[r] = "pop"
    /\ queue[r] = <<>>
    /\ GoTo(r, "put")
    /\ UNCHANGED <<run, loot, queueVars, threadVars, stateVars, evac, joining,
                   mailVars, master, root, budgetVars>>

PopEmpty_RaceFirst(r) ==
    /\ pc[r] = "pop"
    /\ queue[r] = <<>> /\ qlock[r] = NoRank
    /\ GoTo(r, "diefaa")
    /\ UNCHANGED <<run, loot, queueVars, threadVars, stateVars, evac, joining,
                   mailVars, master, root, budgetVars>>

PopEmpty(r) ==
    /\ pc[r] = "pop"
    /\ queue[r] = <<>> /\ qlock[r] = NoRank
    /\ GoTo(r, "put")
    /\ UNCHANGED <<run, loot, queueVars, threadVars, stateVars, evac, joining,
                   mailVars, master, root, budgetVars>>

put_retval_remote(r) ==
    /\ pc[r] = "put"
    /\ retval' = [retval EXCEPT ![run[r]] = TRUE]
    /\ GoTo(r, "diefaa")
    /\ UNCHANGED <<run, loot, queueVars, threadVars, ts, resume_flag, suspended, evac,
                   joining, mailVars, master, root, budgetVars>>

(* The join race, seen from the thread that ended.                         *)
DieRace(r) ==
    LET t == run[r] IN
    /\ pc[r] = "diefaa"
    /\ resume_flag' = [resume_flag EXCEPT ![t] = @ + 1]
    /\ \/ resume_flag[t] = 0 /\ resume_sched(r)
       \/ resume_flag[t] # 0 /\ Enter(r, "get", t)
    /\ UNCHANGED <<loot, queueVars, threadVars, ts, suspended, retval, evac, joining,
                   mailVars, master, root, budgetVars>>

DieGetSuspended(r) ==
    /\ pc[r] = "get"
    /\ Enter(r, "resume", suspended[run[r]])
    /\ UNCHANGED <<loot, queueVars, threadVars, stateVars, evac, joining,
                   mailVars, master, root, budgetVars>>

(* resume(ss): fetch the frames, free the buffer, jump to the context.  It *)
(* was suspended in join() or, the root thread, in migrate_to().           *)
ResumeSuspended(r) ==
    LET t == run[r] IN
    /\ pc[r] = "resume"
    /\ evac' = evac \ {t}
    /\ GoTo(r, IF joining[t] # NoThread THEN "retval" ELSE "thread")
    /\ UNCHANGED <<run, loot, queueVars, threadVars, stateVars, joining,
                   mailVars, master, root, budgetVars>>

(***************************************************************************)
(* join()                                                                  *)
(***************************************************************************)
JoinSerialized(r, c) ==
    /\ pc[r] = "thread"
    /\ c \in Children(run[r]) /\ handler[c] = "serialized"
    /\ Forget(c)
    /\ UNCHANGED <<pc, run, loot, queueVars, stateVars, evac, joining,
                   mailVars, master, root, budgetVars>>

JoinCall(r, c) ==
    /\ pc[r] = "thread"
    /\ c \in Children(run[r]) /\ handler[c] = "forked"
    /\ joining' = [joining EXCEPT ![run[r]] = c]
    /\ GoTo(r, "check")
    /\ UNCHANGED <<run, loot, queueVars, threadVars, stateVars, evac,
                   mailVars, master, root, budgetVars>>

JoinCheck(r) ==
    /\ pc[r] = "check"
    /\ GoTo(r, IF resume_flag[joining[run[r]]] >= 1 THEN "retval" ELSE "evac")
    /\ UNCHANGED <<run, loot, queueVars, threadVars, stateVars, evac, joining,
                   mailVars, master, root, budgetVars>>

(* evacuate() the frames and tell the child where they are.                *)
JoinSuspend(r) ==
    LET t == run[r] IN
    /\ pc[r] = "evac"
    /\ evac' = evac \cup {t}
    /\ suspended' = [suspended EXCEPT ![joining[t]] = t]
    /\ GoTo(r, "joinfaa")
    /\ UNCHANGED <<run, loot, queueVars, threadVars, ts, resume_flag, retval, joining,
                   mailVars, master, root, budgetVars>>

(* Mutant: the joining thread does not look at who won the race.           *)
JoinRace_Sleeps(r) ==
    /\ pc[r] = "joinfaa"
    /\ resume_flag' = [resume_flag EXCEPT ![joining[run[r]]] = @ + 1]
    /\ resume_sched(r)
    /\ UNCHANGED <<loot, queueVars, threadVars, ts, suspended, retval, evac, joining,
                   mailVars, master, root, budgetVars>>

(* The join race, seen from the joining thread.                            *)
JoinRace(r) ==
    LET t == run[r]
        c == joining[t] IN
    /\ pc[r] = "joinfaa"
    /\ resume_flag' = [resume_flag EXCEPT ![c] = @ + 1]
    /\ \/ resume_flag[c] = 0 /\ resume_sched(r) /\ UNCHANGED evac
       \/ /\ resume_flag[c] # 0
          /\ evac' = evac \ {t}
          /\ Enter(r, "retval", t)
    /\ UNCHANGED <<loot, queueVars, threadVars, ts, suspended, retval, joining,
                   mailVars, master, root, budgetVars>>

(* Read the result, free the thread_state and return.                      *)
JoinReturn(r) ==
    LET t == run[r]
        c == joining[t] IN
    /\ pc[r] = "retval"
    /\ FreeThreadState(c) /\ Forget(c)
    /\ joining' = [joining EXCEPT ![t] = NoThread]
    /\ GoTo(r, "thread")
    /\ UNCHANGED <<run, loot, queueVars, evac, mailVars, master, root, budgetVars>>

(* Mutant: the thief takes the newest entry.                               *)
StealTake_Top(r, v) ==
    /\ pc[r] = "sched" /\ ~exit_request[r] /\ migration[r] = NoThread
    /\ v # r /\ queue[v] # <<>> /\ qlock[v] = NoRank
    /\ qlock' = [qlock EXCEPT ![v] = r]
    /\ loot' = [loot EXCEPT ![r] = v]
    /\ queue' = [queue EXCEPT ![v] = Front(@)]
    /\ Enter(r, "copy", Last(queue[v]))
    /\ UNCHANGED <<threadVars, stateVars, evac, joining, mailVars, master, root, budgetVars>>

(***************************************************************************)
(* steal(): an attempt that finds the queue empty or locked changes        *)
(* nothing, and the scheduling loop goes on.                               *)
(***************************************************************************)
StealTake(r, v) ==
    /\ pc[r] = "sched" /\ ~exit_request[r] /\ migration[r] = NoThread
    /\ v # r /\ queue[v] # <<>> /\ qlock[v] = NoRank
    /\ qlock' = [qlock EXCEPT ![v] = r]
    /\ loot' = [loot EXCEPT ![r] = v]
    /\ queue' = [queue EXCEPT ![v] = Tail(@)]
    /\ Enter(r, "copy", Head(queue[v]))
    /\ UNCHANGED <<threadVars, stateVars, evac, joining, mailVars, master, root, budgetVars>>

StealFails(r, v) ==
    /\ pc[r] = "sched" /\ ~exit_request[r] /\ migration[r] = NoThread
    /\ v # r /\ (queue[v] = <<>> \/ qlock[v] # NoRank)
    /\ UNCHANGED vars

(* The frames are copied: unlock and resume the continuation of fork().    *)
StealResume(r) ==
    /\ pc[r] = "copy"
    /\ qlock' = [qlock EXCEPT ![loot[r]] = NoRank]
    /\ loot' = [loot EXCEPT ![r] = NoRank]
    /\ GoTo(r, "thread")
    /\ UNCHANGED <<run, queue, threadVars, stateVars, evac, joining,
                   mailVars, master, root, budgetVars>>

(***************************************************************************)
(* migrate_to(), for the root thread only.                                 *)
(***************************************************************************)
migrate_to(r) ==
    /\ pc[r] = "thread" /\ run[r] = root /\ Ranks # {r}
    /\ moves < MaxMoves
    /\ moves' = moves + 1
    /\ evac' = evac \cup {root}
    /\ GoTo(r, "moveput")
    /\ UNCHANGED <<run, loot, queueVars, threadVars, stateVars, joining,
                   mailVars, master, root, forks>>

MigratePut(r, q) ==
    /\ pc[r] = "moveput" /\ q # r
    /\ migration' = [migration EXCEPT ![q] = run[r]]
    /\ resume_sched(r)
    /\ UNCHANGED <<loot, queueVars, threadVars, stateVars, evac, joining,
                   exit_request, fwd, master, root, budgetVars>>

execute_migrated_task(r) ==
    /\ pc[r] = "sched" /\ ~exit_request[r]
    /\ migration[r] # NoThread
    /\ migration' = [migration EXCEPT ![r] = NoThread]
    /\ Enter(r, "resume", migration[r])
    /\ UNCHANGED <<loot, queueVars, threadVars, stateVars, evac, joining,
                   exit_request, fwd, master, root, budgetVars>>

(***************************************************************************)
(* on_root_die() and the way out of the scheduling loops.                  *)
(***************************************************************************)
RootPut(r) ==
    /\ pc[r] = "rootput"
    /\ retval' = [retval EXCEPT ![root] = TRUE]
    /\ resume_flag' = [resume_flag EXCEPT ![root] = 1]
    /\ GoTo(r, "exitput")
    /\ UNCHANGED <<run, loot, queueVars, threadVars, ts, suspended, evac, joining,
                   mailVars, master, root, budgetVars>>

RootRequestExit(r) ==
    /\ pc[r] = "exitput"
    /\ exit_request' = [exit_request EXCEPT ![0] = TRUE]
    /\ resume_sched(r)
    /\ UNCHANGED <<loot, queueVars, threadVars, stateVars, evac, joining,
                   migration, fwd, master, root, budgetVars>>

(* The ranks each rank passes the exit request on to.                      *)
Tree == [r \in Ranks |-> BcastTargets(r, NRanks)]

should_exit_sched_loop(r) ==
    /\ pc[r] = "sched" /\ exit_request[r]
    /\ exit_request' = [exit_request EXCEPT ![r] = FALSE]
    /\ fwd' = [fwd EXCEPT ![r] = Tree[r]]
    /\ GoTo(r, "forward")
    /\ UNCHANGED <<run, loot, queueVars, threadVars, stateVars, evac, joining,
                   migration, master, root, budgetVars>>

ForwardExit(r) ==
    /\ pc[r] = "forward"
    /\ \/ /\ fwd[r] # {}
          /\ fwd' = [fwd EXCEPT ![r] = @ \ {Max(@)}]
          /\ exit_request' = [exit_request EXCEPT ![Max(fwd[r])] = TRUE]
          /\ UNCHANGED pc
       \/ /\ fwd[r] = {}
          /\ GoTo(r, IF r = master THEN "result" ELSE "barrier")
          /\ UNCHANGED <<exit_request, fwd>>
    /\ UNCHANGED <<run, loot, queueVars, threadVars, stateVars, evac, joining,
                   migration, master, root, budgetVars>>

(* The rest of root_exec(): take the result and free the thread_state.     *)
RootResult(r) ==
    /\ pc[r] = "result"
    /\ FreeThreadState(root)
    /\ root' = NoThread
    /\ GoTo(r, "barrier")
    /\ UNCHANGED <<run, loot, queueVars, threadVars, evac, joining, mailVars, master,
                   budgetVars>>

(* mpi_barrier() at the end of worker::root_exec().                        *)
Barrier ==
    /\ \A r \in Ranks : pc[r] = "barrier"
    /\ pc' = [r \in Ranks |-> "spmd"]
    /\ UNCHANGED <<run, loot, queueVars, threadVars, stateVars, evac, joining,
                   mailVars, master, root, budgetVars>>

--------------------------------------------------------------------------------
(* What a worker does until it is in its scheduling loop without a task,   *)
(* and what it then does when something arrives in a mailbox.              *)
Steps(r) ==
    \/ Return(r) \/ Serialize(r) \/ PopEmpty(r) \/ put_retval_remote(r) \/ DieRace(r)
    \/ DieGetSuspended(r) \/ ResumeSuspended(r)
    \/ JoinCheck(r) \/ JoinSuspend(r) \/ JoinRace(r) \/ JoinReturn(r)
    \/ \E c \in Threads : JoinSerialized(r, c) \/ JoinCall(r, c)
    \/ StealResume(r)
    \/ \E q \in Ranks : MigratePut(r, q)
    \/ execute_migrated_task(r)
    \/ RootPut(r) \/ RootRequestExit(r)
    \/ should_exit_sched_loop(r) \/ ForwardExit(r) \/ RootResult(r)

Decisions(r) ==
    \/ \E c \in FreshNames : fork(r, c)
    \/ \E v \in Ranks : StealTake(r, v) \/ StealFails(r, v)
    \/ migrate_to(r)

Start == \E m \in Ranks, t \in FreshNames : root_exec(m, t)

Next ==
    \/ \E r \in Ranks : Steps(r) \/ Decisions(r)
    \/ Start \/ Barrier

Spec == Init /\ [][Next]_vars

(* Workers run on; no steal has to succeed and no thread has to fork.      *)
FairSpec == Spec /\ WF_vars(Barrier) /\ \A r \in Ranks : WF_vars(Steps(r))

--------------------------------------------------------------------------------
Executing == {"thread", "pop", "put", "diefaa", "get",
              "check", "evac", "joinfaa", "retval", "rootput", "exitput", "moveput"}

(* The child whose thread_state rank r is about to use, in on_die() or in  *)
(* join().                                                                 *)
UsesState(r, t) ==
    \/ pc[r] \in {"pop", "put", "diefaa", "get", "rootput"} /\ run[r] = t
    \/ pc[r] \in {"check", "evac", "joinfaa", "retval"} /\ joining[run[r]] = t
    \/ pc[r] = "result" /\ root = t

(* A thread_state is not used after it was freed, whoever comes first to   *)
(* the join race and whoever frees it; and what join() reads there is the  *)
(* result, put by a thread that ended before.                              *)
NoUseAfterFree ==
    /\ \A r \in Ranks, t \in Threads : UsesState(r, t) => ts[t] = "allocated"
    /\ \A r \in Ranks : pc[r] = "retval" => retval[joining[run[r]]]
    /\ \A r \in Ranks : pc[r] = "result" => retval[root]

(* The places where the continuation of a thread can be.                   *)
OnRanks(t) == {r \in Ranks : run[r] = t /\ pc[r] \in Executing \cup {"copy", "resume"}}
InQueues(t) == {e \in UNION {{r} \X DOMAIN queue[r] : r \in Ranks} : queue[e[1]][e[2]] = t}
Mailed(t) == {r \in Ranks : migration[r] = t}

(* A thread that waits in join() for a child that will resume it: the      *)
(* child has not been to the join race, or it is about to read suspended.  *)
Waits(t) ==
    LET c == joining[t] IN
    /\ t \in evac /\ c # NoThread
    /\ ts[c] = "allocated" /\ suspended[c] = t
    /\ OnRanks(c) # {} \/ InQueues(c) # {} \/ (c \in evac /\ joining[c] # NoThread)
    /\ \/ resume_flag[c] = 1
       \/ resume_flag[c] = 2 /\ \E r \in OnRanks(c) : pc[r] = "get"

Ended(t) == handler[t] = "serialized" \/ (t = root /\ retval[t])
                \/ (handler[t] = "forked" /\ retval[t] /\ OnRanks(t) = {})

(* Every thread that was started and has not ended goes on in one place    *)
(* and one only: on a rank, in a queue, in a mailbox, or suspended with a  *)
(* child that is going to resume it.  No continuation is lost in the join  *)
(* race, and none is resumed twice.                                        *)
OneContinuation ==
    \A t \in Threads :
        LET places == Cardinality(OnRanks(t)) + Cardinality(InQueues(t))
                        + Cardinality(Mailed(t))
        IN  /\ places <= 1
            /\ (handler[t] # "none" \/ t = root) /\ ~Ended(t) => (places = 1 <=> ~Waits(t))

(* on_die() takes any entry that pop() returns for the continuation of its *)
(* parent, without looking at it; and it is.                               *)
PoppedIsParent ==
    \A r \in Ranks : pc[r] = "pop" /\ queue[r] # <<>> => Last(queue[r]) = parent[run[r]]

(* Frames stay intact: on every rank the thread that runs is above the     *)
(* queued continuations, which lie in order, and while a thief copies a    *)
(* frame, its victim does not go below it, although pop() may have found   *)
(* nothing left in its queue.                                              *)
FramesIntact ==
    /\ \A r \in Ranks : \A i, j \in 1..Len(queue[r]) :
          i < j => level[queue[r][i]] < level[queue[r][j]]
    /\ \A r \in Ranks : queue[r] # <<>> => /\ pc[r] \in Executing
                                           /\ level[run[r]] > level[Last(queue[r])]
    /\ \A r \in Ranks : pc[r] = "copy" =>
          /\ pc[loot[r]] \in Executing
          /\ level[run[loot[r]]] > level[run[r]]

(* root_exec() returns on every rank, without the help of a single steal:  *)
(* no thread waits for ever in join(), and the exit request reaches every  *)
(* rank.                                                                   *)
RootExecReturns == (\E r \in Ranks : pc[r] # "spmd") ~> (\A r \in Ranks : pc[r] = "spmd")

================================================================================
