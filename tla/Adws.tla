---------------------------------- MODULE Adws ----------------------------------
(***************************************************************************)
(* ityr::ito::scheduler_adws: almost deterministic work stealing.          *)
(*                                                                         *)
(* Every thread has a distribution range, a piece of the line [0, NRanks)  *)
(* on which each rank owns a unit interval.  fork() divides the range by   *)
(* the work hints, and the new thread goes to the owner of its part: by    *)
(* the one-slot mailbox if the part spans ranks (a cross-worker task), by  *)
(* the migration queue otherwise.  A task group of a cross-worker thread   *)
(* is a node of the distribution tree, of which each rank keeps the path   *)
(* it is under.  When one part of a group is done the group is dominant,   *)
(* and ranks in its range may steal what belongs to it.                    *)
(*                                                                         *)
(* The line is cut into K points per rank; eps is one point.  The queues   *)
(* are the atomic deques that WsQueue is shown to implement, and the race  *)
(* of join() with the end of a thread, which RandWs models access by       *)
(* access, is one step.  The program is any program that forks and joins   *)
(* in task groups: MaxForks and MaxGroups bound it, MaxRoots the calls of  *)
(* root_exec().  path[t] is history: the groups thread t is under.         *)
(***************************************************************************)
EXTENDS BcastTree, FiniteSets, SequencesExt

CONSTANTS NRanks, K, MaxDepth, MinSize, MaxVersion, Hints,
          Threads, NoThread, Root, MaxForks, MaxGroups, MaxRoots

Ranks == 0..(NRanks - 1)
Depths == 0..(MaxDepth - 1)

ASSUME AdwsAssumption ==
    /\ NRanks \in Nat \ {0} /\ K \in Nat \ {0} /\ MaxDepth \in Nat \ {0}
    /\ MinSize \in Nat /\ MaxVersion > 2 * NRanks
    /\ \A h \in Hints : h.rest \in Nat /\ h.new \in Nat /\ h.rest + h.new > 0
    /\ Root \in Threads /\ NoThread \notin Threads

--------------------------------------------------------------------------------
(* class dist_range, as a pair of points.                                  *)
begin_rank(dr) == dr[1] \div K
end_rank(dr) == dr[2] \div K
owner(dr) == begin_rank(dr)
is_at_end_boundary(dr) == dr[2] % K = 0
move_to_end_boundary(dr) == <<dr[1], K * end_rank(dr)>>
is_cross_worker(dr) == begin_rank(dr) # end_rank(dr)
make_non_cross_worker(dr) == <<dr[1], dr[1]>>
is_sufficiently_small(dr) == dr[2] - dr[1] < MinSize

divide(dr, h) ==
    LET cut == dr[1] + ((dr[2] - dr[1]) * h.rest) \div (h.rest + h.new)
        at == IF cut = dr[2] THEN IF cut - 1 < dr[1] THEN dr[1] ELSE cut - 1 ELSE cut
    IN  [rest |-> <<dr[1], at>>, new |-> <<at, dr[2]>>]

(* class flipper: the set of the bits that are 1.                          *)
flip(f, d) == IF d \in f THEN f \ {d} ELSE f \cup {d}
match(f, g, until) == f \cap (0..until) = g \cap (0..until)

NoRef == [owner |-> -1, depth |-> -1]
NoNode == [parent |-> NoRef, dr |-> <<0, 0>>, ver |-> {}, version |-> 0]
NoMsg == [kind |-> "none", t |-> NoThread, ref |-> NoRef, from |-> -1]

VARIABLES
    pc, run,                    \* of a rank: place in the code, thread it works for
    cont,                       \* of a rank: where on_task_die() was called
    out,                        \* of a rank: messages it is about to put
    scan,                       \* of a rank: depth get_topmost_dominant() is at
    use_primary, prim, mig,     \* use_primary_wsq_, primary_wsq_, migration_wsq_
    migration, exit_request,    \* mailboxes
    node, flag, versions, bottom,   \* dist_tree, dtree_local_bottom_ref_
    th,                         \* of a thread: thread_local_storage and its parent
    handler, resume_flag,       \* thread_handler and thread_state
    path, forks, groups, roots

treeVars == <<node, flag, versions, bottom>>
queueVars == <<use_primary, prim, mig>>
mailVars == <<migration, exit_request, out>>
joinVars == <<handler, resume_flag>>
budgetVars == <<forks, groups, roots>>
vars == <<pc, run, cont, scan, treeVars, queueVars, mailVars, th, joinVars, path, budgetVars>>

(* The thread_local_storage of a thread that starts.                       *)
NewThread(parent, dr, ref, ver, workfirst) ==
    [parent |-> parent, dr |-> dr, ref |-> ref, ver |-> ver, undistributed |-> TRUE,
     tgs |-> <<>>, workfirst |-> workfirst, at |-> "thread", joins |-> NoThread]

Init ==
    /\ pc = [r \in Ranks |-> "spmd"] /\ run = [r \in Ranks |-> NoThread]
    /\ cont = [r \in Ranks |-> "none"] /\ out = [r \in Ranks |-> <<>>]
    /\ scan = [r \in Ranks |-> 0]
    /\ use_primary = [r \in Ranks |-> TRUE]
    /\ prim = [r \in Ranks |-> [d \in Depths |-> <<>>]] /\ mig = prim
    /\ migration = [r \in Ranks |-> NoMsg] /\ exit_request = [r \in Ranks |-> FALSE]
    /\ node = [r \in Ranks |-> [d \in Depths |-> NoNode]]
    /\ flag = [r \in Ranks |-> [d \in Depths |-> 0]]
    /\ versions = [r \in Ranks |-> [d \in Depths |-> r + 1]]
    /\ bottom = [r \in Ranks |-> NoRef]
    /\ th = [t \in Threads |-> NewThread(NoThread, <<0, 0>>, NoRef, {}, FALSE)]
    /\ handler = [t \in Threads |-> "none"] /\ resume_flag = [t \in Threads |-> 0]
    /\ path = [t \in Threads |-> <<>>]
    /\ forks = 0 /\ groups = 0 /\ roots = 0

GoTo(r, loc) == pc' = [pc EXCEPT ![r] = loc]
Enter(r, loc, t) == GoTo(r, loc) /\ run' = [run EXCEPT ![r] = t]

Tls(r) == th[run[r]]
Depth(r) == Tls(r).ref.depth
Children(t) == {c \in Threads : th[c].parent = t /\ handler[c] # "none"}

(* Continuations that lie on the stack of the rank are copied away.        *)
Evacuated(q) == [i \in DOMAIN q |-> IF q[i].kind = "stack" THEN [q[i] EXCEPT !.kind = "evac"]
                                                          ELSE q[i]]

(* Mutant: only the queue of the thread's own depth is looked at.          *)
evacuate_all_OwnDepth(r) ==
    IF use_primary[r]
    THEN prim' = [prim EXCEPT ![r] = [d \in Depths |-> IF d = Depth(r) THEN Evacuated(@[d]) ELSE @[d]]]
         /\ UNCHANGED mig
    ELSE mig' = [mig EXCEPT ![r] = [d \in Depths |-> IF d = Depth(r) THEN Evacuated(@[d]) ELSE @[d]]]
         /\ UNCHANGED prim

evacuate_all(r) ==
    IF use_primary[r]
    THEN prim' = [prim EXCEPT ![r] = [d \in Depths |-> IF d <= Depth(r) THEN Evacuated(@[d]) ELSE @[d]]]
         /\ UNCHANGED mig
    ELSE mig' = [mig EXCEPT ![r] = [d \in Depths |-> IF d = Depth(r) THEN Evacuated(@[d]) ELSE @[d]]]
         /\ UNCHANGED prim

(* resume_sched(): back in the loop, which sets use_primary_wsq_ again.    *)
resume_sched(r) == Enter(r, "sched", NoThread) /\ use_primary' = [use_primary EXCEPT ![r] = TRUE]

(* Put entry e on top of the queue in use.                                 *)
Push(r, e, depth) ==
    IF use_primary[r] THEN prim' = [prim EXCEPT ![r][depth] = Append(@, e)] /\ UNCHANGED mig
                      ELSE mig' = [mig EXCEPT ![r][depth] = Append(@, e)] /\ UNCHANGED prim

--------------------------------------------------------------------------------
(* root_exec(), called by all ranks with rank 0 as the master.             *)
root_exec ==
    /\ roots < MaxRoots /\ \A r \in Ranks : pc[r] = "spmd"
    /\ roots' = roots + 1
    /\ pc' = [r \in Ranks |-> IF r = 0 THEN "thread" ELSE "sched"]
    /\ run' = [run EXCEPT ![0] = Root]
    /\ th' = [th EXCEPT ![Root] = NewThread(NoThread, <<0, NRanks * K>>, NoRef, {}, FALSE)]
    /\ resume_flag' = [resume_flag EXCEPT ![Root] = 0]
    /\ path' = [path EXCEPT ![Root] = <<>>]
    /\ UNCHANGED <<cont, scan, treeVars, queueVars, mailVars, handler, forks, groups>>

(* dist_tree::append(): versions of different ranks and times differ,      *)
(* until the counter of the rank has reached its end.                      *)
append(r, parent, dr, ver) ==
    LET d == parent.depth + 1
        v == (IF versions[r][d] >= MaxVersion - NRanks THEN r + 1 ELSE versions[r][d]) + NRanks
    IN  /\ versions' = [versions EXCEPT ![r][d] = v]
        /\ node' = [node EXCEPT ![r][d] = [parent |-> parent, dr |-> dr, ver |-> ver, version |-> v]]

task_group_begin(r) ==
    LET t == run[r]
        tls == th[t]
        owns == is_cross_worker(tls.dr) /\ tls.ref.depth + 1 < MaxDepth
        ref == [owner |-> r, depth |-> tls.ref.depth + 1]
    IN
    /\ pc[r] = "thread" /\ groups < MaxGroups
    /\ groups' = groups + 1
    /\ th' = [th EXCEPT ![t] = [@ EXCEPT
                  !.tgs = Append(@, [dr |-> tls.dr, owns |-> owns]),
                  !.ref = IF owns THEN ref ELSE @,
                  !.undistributed = @ \/ is_cross_worker(tls.dr)]]
    /\ IF owns THEN /\ append(r, tls.ref, tls.dr, tls.ver)
                    /\ bottom' = [bottom EXCEPT ![r] = ref]
                    /\ path' = [path EXCEPT ![t] = Append(@, node'[r][ref.depth])]
               ELSE UNCHANGED <<node, versions, bottom, path>>
    /\ UNCHANGED <<pc, run, cont, scan, flag, queueVars, mailVars, joinVars, forks, roots>>

(* The thread_state that the allocator returns: any that is free.          *)
Unused(t) == handler[t] = "none" /\ t # Root
FreeThread == CHOOSE t \in Threads : Unused(t)

(* fork(): divide the range.  The new thread runs at once if its part      *)
(* begins here, with the continuation in the queue; otherwise it is sent   *)
(* to the rank where its part begins.                                      *)
fork(r, h) ==
    LET t == run[r]
        c == FreeThread
        tls == th[t]
        cross == is_cross_worker(tls.dr)
        whole == IF is_sufficiently_small(tls.dr) THEN move_to_end_boundary(tls.dr) ELSE tls.dr
        part == IF cross THEN divide(whole, h) ELSE [rest |-> tls.dr, new |-> tls.dr]
        target == IF cross THEN owner(part.new) ELSE r
        here == target = r
    IN
    /\ pc[r] = "thread" /\ tls.tgs # <<>>
    /\ forks < MaxForks /\ \E x \in Threads : Unused(x)
    /\ ~cross => h = CHOOSE x \in Hints : TRUE
    /\ forks' = forks + 1
    /\ handler' = [handler EXCEPT ![c] = "forked"]
    /\ resume_flag' = [resume_flag EXCEPT ![c] = 0]
    /\ path' = [path EXCEPT ![c] = path[t]]
    /\ th' = [th EXCEPT ![t].dr = part.rest, ![t].at = "thread",
                        ![c] = NewThread(t, part.new, tls.ref, tls.ver, here)]
    /\ \/ /\ here
          /\ Push(r, [t |-> t, kind |-> "stack", ver |-> tls.ver], tls.ref.depth)
          /\ Enter(r, "thread", c)
          /\ UNCHANGED <<out, cont>>
       \/ /\ ~here /\ is_cross_worker(part.new)
          /\ out' = [out EXCEPT ![r] = <<[to |-> target, msg |-> [NoMsg EXCEPT !.kind = "new", !.t = c]]>>]
          /\ GoTo(r, "put") /\ cont' = [cont EXCEPT ![r] = "thread"]
          /\ UNCHANGED <<run, prim, mig>>
       \/ /\ ~here /\ ~is_cross_worker(part.new)
          /\ mig' = [mig EXCEPT ![target][tls.ref.depth] = <<[t |-> c, kind |-> "new", ver |-> tls.ver]>> \o @]
          /\ UNCHANGED <<pc, run, cont, prim, out>>
    /\ UNCHANGED <<scan, treeVars, use_primary, migration, exit_request, groups, roots>>

(* oneslot_mailbox::put() of the next message.  After the last one, fork() *)
(* goes on, migrate_to() leaves for the scheduling loop, and on_task_die() *)
(* waits.                                                                  *)
PutMail(r) ==
    LET m == Head(out[r])
        last == Len(out[r]) = 1
    IN
    /\ pc[r] = "put"
    /\ migration' = [migration EXCEPT ![m.to] = m.msg]
    /\ out' = [out EXCEPT ![r] = Tail(@)]
    /\ \/ last /\ cont[r] = "migrate" /\ evacuate_all(r) /\ resume_sched(r)
       \/ /\ ~(last /\ cont[r] = "migrate")
          /\ GoTo(r, IF ~last THEN "put" ELSE IF cont[r] = "thread" THEN "thread" ELSE "wait")
          /\ UNCHANGED <<run, queueVars>>
    /\ cont' = [cont EXCEPT ![r] = IF last /\ @ \in {"migrate", "thread"} THEN "none" ELSE @]
    /\ UNCHANGED <<scan, treeVars, exit_request, th, joinVars, path, budgetVars>>

(***************************************************************************)
(* on_task_die(), at the end of a thread, of a task group and at a join(). *)
(* The group becomes dominant.  Ranks inside the range that got no task    *)
(* are sent a dummy task that tells them the tree.                         *)
(***************************************************************************)
set_dominant(r, ref, sign) ==
    LET value == sign * node[r][ref.depth].version
    IN  flag' = [flag EXCEPT ![r][ref.depth] = value, ![ref.owner][ref.depth] = value]

Dummies(r) ==
    LET dr == Tls(r).dr
        dummy == [NoMsg EXCEPT !.kind = "dummy", !.ref = Tls(r).ref, !.from = r]
    IN  IF Tls(r).undistributed /\ begin_rank(dr) + 1 < end_rank(dr)
        THEN [i \in 1..(end_rank(dr) - begin_rank(dr) - 1) |-> [to |-> begin_rank(dr) + i, msg |-> dummy]]
        ELSE <<>>

(* The call does nothing for a thread whose range is within one rank.      *)
CallTaskDie(r, caller) ==
    IF is_cross_worker(Tls(r).dr) THEN GoTo(r, "taskdie") /\ cont' = [cont EXCEPT ![r] = caller]
                                  ELSE GoTo(r, caller) /\ UNCHANGED cont
NoLongerCross(t) == th' = [th EXCEPT ![t].dr = make_non_cross_worker(@)]
TaskDieReturns(r) == GoTo(r, cont[r]) /\ cont' = [cont EXCEPT ![r] = "none"]

on_task_die(r) ==
    /\ pc[r] = "taskdie"
    /\ set_dominant(r, Tls(r).ref, 1)
    /\ out' = [out EXCEPT ![r] = Dummies(r)]
    /\ \/ Dummies(r) # <<>> /\ GoTo(r, "put") /\ UNCHANGED <<cont, th>>
       \/ Dummies(r) = <<>> /\ TaskDieReturns(r) /\ NoLongerCross(run[r])
    /\ UNCHANGED <<run, scan, node, versions, bottom, queueVars, migration, exit_request,
                   joinVars, path, budgetVars>>

(* Mutant: nobody waits.                                                   *)
DummiesFreed_Any(r) == TRUE

DummiesFreed(r) == \A q \in Ranks : ~(migration[q].kind = "dummy" /\ migration[q].from = r)

(* Until the dummy tasks are freed, which their receivers do before they   *)
(* run them.                                                               *)
WaitDummies(r) ==
    /\ pc[r] = "wait"
    /\ DummiesFreed(r)
    /\ TaskDieReturns(r)
    /\ NoLongerCross(run[r])
    /\ UNCHANGED <<run, scan, treeVars, queueVars, mailVars, joinVars, path, budgetVars>>

(***************************************************************************)
(* task_group_end(): back to the owner of the group's range, then up one   *)
(* node of the tree.                                                       *)
(***************************************************************************)
task_group_end(r) ==
    /\ pc[r] = "thread" /\ Tls(r).tgs # <<>> /\ Children(run[r]) = {}
    /\ CallTaskDie(r, "tgend")
    /\ UNCHANGED <<run, scan, treeVars, queueVars, mailVars, th, joinVars, path, budgetVars>>

(* Mutant: the thread stays where it is.                                   *)
MustMigrate_Never(r, dr) == FALSE

MustMigrate(r, dr) == is_cross_worker(dr) /\ owner(dr) # r

TgEndMigrate(r) ==
    LET t == run[r]
        dr == Last(th[t].tgs).dr
    IN
    /\ pc[r] = "tgend"
    /\ th' = [th EXCEPT ![t].dr = dr, ![t].at = "tgfin"]
    /\ \/ /\ MustMigrate(r, dr)
          /\ out' = [out EXCEPT ![r] = <<[to |-> owner(dr), msg |-> [NoMsg EXCEPT !.kind = "evac", !.t = t]]>>]
          /\ GoTo(r, "put") /\ cont' = [cont EXCEPT ![r] = "migrate"]
       \/ /\ ~MustMigrate(r, dr)
          /\ GoTo(r, "tgfin")
          /\ UNCHANGED <<cont, out>>
    /\ UNCHANGED <<run, scan, treeVars, queueVars, migration, exit_request, joinVars, path, budgetVars>>

TgEndFinish(r) ==
    LET t == run[r]
        tls == th[t]
        cross == is_cross_worker(tls.dr)
        owns == Last(tls.tgs).owns
        up == node[r][tls.ref.depth].parent
    IN
    /\ pc[r] = "tgfin"
    /\ IF cross /\ owns THEN /\ set_dominant(r, tls.ref, -1)
                             /\ bottom' = [bottom EXCEPT ![r] = up]
                             /\ path' = [path EXCEPT ![t] = Front(@)]
                        ELSE UNCHANGED <<flag, bottom, path>>
    /\ th' = [th EXCEPT ![t] = [@ EXCEPT !.tgs = Front(@), !.at = "thread",
                  !.ref = IF cross /\ owns THEN up ELSE @,
                  !.ver = IF cross /\ owns THEN flip(@, up.depth + 1) ELSE @,
                  !.undistributed = @ /\ ~cross]]
    /\ GoTo(r, "thread")
    /\ UNCHANGED <<run, cont, scan, node, versions, queueVars, mailVars, joinVars, budgetVars>>

(***************************************************************************)
(* The end of a thread: on_die_workfirst() and on_die_drifted().           *)
(***************************************************************************)
Return(r) ==
    /\ pc[r] = "thread" /\ run[r] # Root /\ Tls(r).tgs = <<>>
    /\ CallTaskDie(r, "die")
    /\ UNCHANGED <<run, scan, treeVars, queueVars, mailVars, th, joinVars, path, budgetVars>>

OwnQueue(r) == (IF use_primary[r] THEN prim ELSE mig)[r][Depth(r)]

(* What pop() finds on top is a frame below the thread: its parent.        *)
ParentOnStack(r) == Tls(r).workfirst /\ OwnQueue(r) # <<>> /\ Last(OwnQueue(r)).kind = "stack"

(* The thread's local storage goes with its frame.                         *)
Ends(t) ==
    /\ th' = [th EXCEPT ![t] = [NewThread(th[t].parent, <<0, 0>>, NoRef, {}, FALSE) EXCEPT !.at = "ended"]]
    /\ path' = [path EXCEPT ![t] = <<>>]

Serialize(r) ==
    LET t == run[r] IN
    /\ pc[r] = "die" /\ ParentOnStack(r)
    /\ IF use_primary[r] THEN prim' = [prim EXCEPT ![r][Depth(r)] = Front(@)] /\ UNCHANGED mig
                         ELSE mig' = [mig EXCEPT ![r][Depth(r)] = Front(@)] /\ UNCHANGED prim
    /\ handler' = [handler EXCEPT ![t] = "serialized"]
    /\ Ends(t)
    /\ Enter(r, "thread", Last(OwnQueue(r)).t)
    /\ UNCHANGED <<cont, scan, treeVars, use_primary, mailVars, resume_flag, budgetVars>>

on_die_drifted(r) ==
    LET t == run[r] IN
    /\ pc[r] = "die" /\ ~ParentOnStack(r)
    /\ resume_flag' = [resume_flag EXCEPT ![t] = @ + 1]
    /\ Ends(t)
    /\ \/ resume_flag[t] = 0 /\ evacuate_all(r) /\ resume_sched(r)
       \/ resume_flag[t] # 0 /\ Enter(r, "joined", th[t].parent) /\ UNCHANGED queueVars
    /\ UNCHANGED <<cont, scan, treeVars, mailVars, handler, budgetVars>>

(***************************************************************************)
(* join()                                                                  *)
(***************************************************************************)
join(r, c) ==
    /\ pc[r] = "thread" /\ c \in Children(run[r])
    /\ \/ /\ handler[c] = "serialized"
          /\ handler' = [handler EXCEPT ![c] = "none"]
          /\ UNCHANGED <<pc, cont, th>>
       \/ /\ handler[c] = "forked"
          /\ th' = [th EXCEPT ![run[r]].joins = c]
          /\ CallTaskDie(r, "join")
          /\ UNCHANGED handler
    /\ UNCHANGED <<run, scan, treeVars, queueVars, mailVars, resume_flag, path, budgetVars>>

(* Mutant: the joining thread sleeps, whoever was first.                   *)
JoinRace_Sleeps(r) ==
    LET t == run[r] IN
    /\ pc[r] = "join"
    /\ resume_flag' = [resume_flag EXCEPT ![th[t].joins] = @ + 1]
    /\ th' = [th EXCEPT ![t].at = "joined"]
    /\ evacuate_all(r) /\ resume_sched(r)
    /\ UNCHANGED <<cont, scan, treeVars, mailVars, handler, path, budgetVars>>

JoinRace(r) ==
    LET t == run[r]
        c == th[t].joins
    IN
    /\ pc[r] = "join"
    /\ \/ /\ resume_flag[c] = 0
          /\ resume_flag' = [resume_flag EXCEPT ![c] = 1]
          /\ th' = [th EXCEPT ![t].at = "joined"]
          /\ evacuate_all(r) /\ resume_sched(r)
       \/ /\ resume_flag[c] # 0
          /\ GoTo(r, "joined")
          /\ UNCHANGED <<run, resume_flag, th, queueVars>>
    /\ UNCHANGED <<cont, scan, treeVars, mailVars, handler, path, budgetVars>>

JoinReturn(r) ==
    LET t == run[r] IN
    /\ pc[r] = "joined"
    /\ handler' = [handler EXCEPT ![th[t].joins] = "none"]
    /\ resume_flag' = [resume_flag EXCEPT ![th[t].joins] = 0]
    /\ th' = [th EXCEPT ![t].joins = NoThread, ![t].at = "thread"]
    /\ GoTo(r, "thread")
    /\ UNCHANGED <<run, cont, scan, treeVars, queueVars, mailVars, path, budgetVars>>

(* poll(): a thread makes way for a cross-worker task that has arrived.    *)
poll(r) ==
    LET t == run[r]
        e == [t |-> t, kind |-> "evac", ver |-> th[t].ver]
        all == [d \in Depths |-> IF use_primary[r] /\ d <= Depth(r) THEN Evacuated(prim[r][d]) ELSE prim[r][d]]
    IN
    /\ pc[r] = "thread" /\ migration[r] # NoMsg
    /\ IF use_primary[r]
       THEN prim' = [prim EXCEPT ![r] = [all EXCEPT ![Depth(r)] = Append(@, e)]] /\ UNCHANGED mig
       ELSE mig' = [mig EXCEPT ![r][Depth(r)] = Append(Evacuated(@), e)] /\ UNCHANGED prim
    /\ th' = [th EXCEPT ![t].at = "thread"]
    /\ resume_sched(r)
    /\ UNCHANGED <<cont, scan, treeVars, mailVars, joinVars, path, budgetVars>>

(***************************************************************************)
(* The scheduling loop.  It looks into the mailboxes, the primary queues   *)
(* from the deepest, the migration queues from the shallowest, and steals. *)
(***************************************************************************)
(* Mutant: the queue of depth 0 is left out.                               *)
NonEmpty_FromOne(queues) == {d \in Depths \ {0} : queues[d] # <<>>}

NonEmpty(queues) == {d \in Depths : queues[d] # <<>>}

Looks(r) == pc[r] = "sched" /\ ~exit_request[r]

(* Go on with a task: a new one starts, on a rank that learns the tree     *)
(* first if the task is a cross-worker task.                               *)
Continue(r, t, kind) ==
    Enter(r, CASE kind = "new" -> IF is_cross_worker(th[t].dr) THEN "start" ELSE "thread"
               [] kind = "evac" -> th[t].at
               [] kind = "stack" -> "thread", t)

PopMailbox(r) ==
    LET m == migration[r] IN
    /\ Looks(r) /\ m # NoMsg
    /\ migration' = [migration EXCEPT ![r] = NoMsg]
    /\ \/ /\ m.kind = "dummy"
          /\ bottom' = [bottom EXCEPT ![r] = m.ref]
          /\ GoTo(r, "copy") /\ UNCHANGED run
       \/ m.kind # "dummy" /\ Continue(r, m.t, m.kind) /\ UNCHANGED bottom
    /\ UNCHANGED <<cont, scan, node, flag, versions, queueVars, exit_request, out, th, joinVars,
                   path, budgetVars>>

(* Mutant: only the node of the group itself is copied.                    *)
copy_parents_OneNode(r, ref) ==
    /\ flag' = [flag EXCEPT ![r][ref.depth] = 0]
    /\ node' = [node EXCEPT ![r][ref.depth] = node[ref.owner][ref.depth]]

(* dist_tree::copy_parents(), by a dummy task or a new cross-worker task.  *)
copy_parents(r, ref) ==
    /\ flag' = [flag EXCEPT ![r] = [d \in Depths |-> IF d <= ref.depth THEN 0 ELSE @[d]]]
    /\ node' = [node EXCEPT ![r] = [d \in Depths |-> IF d <= ref.depth THEN node[ref.owner][d] ELSE @[d]]]

CopyParents(r) ==
    /\ pc[r] \in {"copy", "start"}
    /\ LET ref == IF pc[r] = "copy" THEN bottom[r] ELSE Tls(r).ref IN
       copy_parents(r, ref) /\ bottom' = [bottom EXCEPT ![r] = ref]
    /\ GoTo(r, IF pc[r] = "copy" THEN "sched" ELSE "thread")
    /\ UNCHANGED <<run, cont, scan, versions, queueVars, mailVars, th, joinVars, path, budgetVars>>

pop_from_primary_queues(r) ==
    LET d == Max(NonEmpty(prim[r]))
        e == Last(prim[r][d])
    IN
    /\ Looks(r) /\ migration[r] = NoMsg /\ NonEmpty(prim[r]) # {}
    /\ prim' = [prim EXCEPT ![r][d] = Front(@)]
    /\ Continue(r, e.t, e.kind)
    /\ UNCHANGED <<cont, scan, treeVars, use_primary, mig, mailVars, th, joinVars, path, budgetVars>>

pop_from_migration_queues(r) ==
    LET d == Min(NonEmpty(mig[r]))
        e == Last(mig[r][d])
    IN
    /\ Looks(r) /\ migration[r] = NoMsg /\ NonEmpty(prim[r]) = {} /\ NonEmpty(mig[r]) # {}
    /\ mig' = [mig EXCEPT ![r][d] = Front(@)]
    /\ use_primary' = [use_primary EXCEPT ![r] = FALSE]
    /\ Continue(r, e.t, e.kind)
    /\ UNCHANGED <<cont, scan, treeVars, prim, mailVars, th, joinVars, path, budgetVars>>

(* steal() begins when there is nothing else, if a tree is known.          *)
Steals(r) ==
    /\ Looks(r) /\ migration[r] = NoMsg /\ NonEmpty(prim[r]) = {} /\ NonEmpty(mig[r]) = {}
    /\ bottom[r].depth >= 0

NodeOwner(r, d) == IF d = bottom[r].depth THEN bottom[r].owner ELSE node[r][d + 1].parent.owner
Asks(r, d) == NodeOwner(r, d) # r /\ flag[r][d] # -node[r][d].version

(* get_topmost_dominant() at one depth: unless the rank knows, it asks a   *)
(* random rank q of the range whether the node is dominant, or tells it.   *)
get_topmost_dominant(r, q) ==
    LET d == scan[r]
        n == node[r][d]
        tells == q # NodeOwner(r, d) /\ flag[r][d] = n.version
        seen == flag[q][d]
        learns == seen = -n.version \/ (~tells /\ seen = n.version)
    IN
    /\ pc[r] = "scan" \/ Steals(r)
    /\ \/ /\ ~Asks(r, d) /\ q = r
          /\ UNCHANGED flag
       \/ /\ Asks(r, d) /\ q # r /\ q \in NodeOwner(r, d)..(end_rank(n.dr) - 1)
          /\ flag' = [flag EXCEPT ![r][d] = IF learns THEN seen ELSE @,
                                  ![q][d] = IF tells /\ @ = 0 THEN n.version ELSE @]
    /\ \/ flag'[r][d] = n.version /\ GoTo(r, "steal") /\ UNCHANGED scan
       \/ flag'[r][d] # n.version /\ d < bottom[r].depth
             /\ GoTo(r, "scan") /\ scan' = [scan EXCEPT ![r] = d + 1]
       \/ flag'[r][d] # n.version /\ d = bottom[r].depth /\ GoTo(r, "sched")
             /\ scan' = [scan EXCEPT ![r] = 0]
    /\ UNCHANGED <<run, cont, node, versions, bottom, queueVars, mailVars, th, joinVars, path, budgetVars>>

(* The last rank that takes part in a dominant group of range dr.          *)
LastRank(dr) == IF is_at_end_boundary(dr) THEN end_rank(dr) - 1 ELSE end_rank(dr)

(* Depths at which the oldest entry belongs to the group of node n.        *)
Stealable(queues, n, d) ==
    {x \in d..(MaxDepth - 1) : queues[x] # <<>> /\ match(Head(queues[x]).ver, n.ver, d)}

(* Take the oldest entry of the queue of depth d.                          *)
steal_from_migration_queues(r, q, d) ==
    /\ mig' = [mig EXCEPT ![q][d] = Tail(@)]
    /\ LET e == Head(mig[q][d]) IN Continue(r, e.t, e.kind)
    /\ UNCHANGED prim

steal_from_primary_queues(r, q, d) ==
    /\ prim' = [prim EXCEPT ![q][d] = Tail(@)]
    /\ LET e == Head(prim[q][d]) IN Continue(r, e.t, e.kind)
    /\ UNCHANGED mig

(* An attempt at rank q.  Its migration queues hold tasks of the group     *)
(* unless the group begins there, its primary queues unless it is the last *)
(* rank and only in part.  The migration queues are tried from the deepest *)
(* and then the primary queues from the shallowest, but trylock() may fail *)
(* at any of them and the search goes on, so any of them may be the one,   *)
(* or none.                                                                *)
StealFrom(r, q) ==
    LET d == scan[r]
        n == node[r][d]
        first == begin_rank(n.dr)
        last == LastRank(n.dr)
        ms == IF q = first THEN {} ELSE Stealable(mig[q], n, d)
        ps == IF q = last /\ ~is_at_end_boundary(n.dr) THEN {} ELSE Stealable(prim[q], n, d)
    IN
    /\ pc[r] = "steal"
    /\ first # last => q # r /\ q \in first..last
    /\ \/ first # last /\ \E x \in ms : steal_from_migration_queues(r, q, x)
       \/ first # last /\ \E x \in ps : steal_from_primary_queues(r, q, x)
       \/ GoTo(r, "sched") /\ UNCHANGED <<run, prim, mig>>
    /\ scan' = [scan EXCEPT ![r] = 0]
    /\ UNCHANGED <<cont, treeVars, use_primary, mailVars, th, joinVars, path, budgetVars>>

(***************************************************************************)
(* on_root_die() and the way out, as in RandWs.                            *)
(***************************************************************************)
on_root_die(r) ==
    /\ pc[r] = "thread" /\ run[r] = Root /\ th[Root].tgs = <<>>
    /\ resume_flag' = [resume_flag EXCEPT ![Root] = 1]
    /\ Ends(Root)
    /\ exit_request' = [exit_request EXCEPT ![0] = TRUE]
    /\ resume_sched(r)
    /\ UNCHANGED <<cont, scan, treeVars, prim, mig, migration, out, handler, budgetVars>>

ExitTargets == [r \in Ranks |-> BcastTargets(r, NRanks)]

should_exit_sched_loop(r) ==
    /\ pc[r] = "sched" /\ exit_request[r]
    /\ exit_request' = [q \in Ranks |-> (exit_request[q] /\ q # r) \/ q \in ExitTargets[r]]
    /\ bottom' = [bottom EXCEPT ![r] = NoRef]
    /\ GoTo(r, "barrier")
    /\ UNCHANGED <<run, cont, scan, node, flag, versions, queueVars, migration, out, th, joinVars,
                   path, budgetVars>>

Barrier ==
    /\ \A r \in Ranks : pc[r] = "barrier"
    /\ pc' = [r \in Ranks |-> "spmd"]
    /\ UNCHANGED <<run, cont, scan, treeVars, queueVars, mailVars, th, joinVars, path, budgetVars>>

--------------------------------------------------------------------------------
Steps(r) ==
    \/ PutMail(r) \/ on_task_die(r) \/ WaitDummies(r) \/ task_group_end(r) \/ TgEndMigrate(r)
    \/ TgEndFinish(r) \/ Return(r) \/ Serialize(r) \/ on_die_drifted(r)
    \/ \E c \in Threads : join(r, c)
    \/ JoinRace(r) \/ JoinReturn(r) \/ PopMailbox(r) \/ CopyParents(r)
    \/ pop_from_primary_queues(r) \/ pop_from_migration_queues(r)
    \/ \E q \in Ranks : (pc[r] = "scan" /\ get_topmost_dominant(r, q)) \/ StealFrom(r, q)
    \/ on_root_die(r) \/ should_exit_sched_loop(r)

Next ==
    \/ root_exec \/ Barrier
    \/ \E r \in Ranks :
          \/ Steps(r) \/ task_group_begin(r) \/ poll(r)
          \/ \E q \in Ranks : get_topmost_dominant(r, q)
          \/ \E h \in Hints : fork(r, h)

Spec == Init /\ [][Next]_vars

(* Workers run on; a thread has to finish but not to fork, and no steal    *)
(* has to be tried.                                                        *)
FairSpec == Spec /\ WF_vars(Barrier) /\ \A r \in Ranks : WF_vars(Steps(r))

--------------------------------------------------------------------------------
(* The ITYR_CHECK of oneslot_mailbox::put(): whenever a task, a dummy or a *)
(* continuation is put into the mailbox of a rank, what came before it has *)
(* been taken.                                                             *)
MailboxFree ==
    \A r \in Ranks : pc[r] = "put" => migration[Head(out[r]).to] = NoMsg

Live(t) == th[t].at # "ended" /\ (handler[t] # "none" \/ (t = Root /\ roots > 0))

(* The threads rank r has: the one it runs, those in its mailbox and its   *)
(* queues, and those it is about to send away.                             *)
Threadly(entries) == [i \in DOMAIN entries |-> entries[i].t]
Held(r) ==
    (IF run[r] = NoThread \/ (pc[r] = "put" /\ cont[r] = "migrate") THEN <<>> ELSE <<run[r]>>)
    \o (IF migration[r].t = NoThread THEN <<>> ELSE <<migration[r].t>>)
    \o [i \in DOMAIN out[r] |-> out[r][i].msg.t]
    \o FlattenSeq([d \in 1..MaxDepth |-> Threadly(prim[r][d - 1]) \o Threadly(mig[r][d - 1])])

(* A thread that has not ended is on one rank, in one queue or in one      *)
(* mailbox, or it waits in join() for a child that has not ended and will  *)
(* resume it; and a thread that ended is nowhere.                          *)
OneContinuation ==
    LET held == SelectSeq(FlattenSeq([i \in 1..NRanks |-> Held(i - 1)]), LAMBDA t : t # NoThread)
    IN  /\ Cardinality(ToSet(held)) = Len(held)
        /\ \A t \in Threads :
              /\ t \in ToSet(held) => Live(t)
              /\ Live(t) /\ t \notin ToSet(held) =>
                    LET c == th[t].joins IN c # NoThread /\ Live(c) /\ resume_flag[c] = 1

InLoop == {"sched", "scan", "steal", "copy", "start", "barrier", "spmd"}

(* The threads whose continuations lie on the stack of rank r.             *)
Frames(r) ==
    {e.t : e \in {x \in UNION {ToSet(prim[r][d]) \cup ToSet(mig[r][d]) : d \in Depths} : x.kind = "stack"}}

RECURSIVE Ancestors(_)
Ancestors(t) == IF t = NoThread THEN {} ELSE {th[t].parent} \cup Ancestors(th[t].parent)

(* Frames on the stack: a rank in its scheduling loop, whose tasks start   *)
(* at the bottom of the stack, has no continuation on it; the only ones a  *)
(* rank has in any of its queues are of ancestors of the thread it runs,   *)
(* which are below that thread; and the one that a thread that ends finds  *)
(* on top of its queue is its parent (the ITYR_CHECKs of the frame_base).  *)
FramesIntact ==
    \A r \in Ranks :
        /\ Frames(r) \subseteq IF pc[r] \in InLoop THEN {} ELSE Ancestors(run[r])
        /\ pc[r] = "die" /\ ParentOnStack(r) => Last(OwnQueue(r)).t = Tls(r).parent

(* A thread whose range spans ranks runs on the rank where it begins, and  *)
(* the node of its group that it has at hand there is the group's own.     *)
CrossWorkerHome ==
    \A r \in Ranks : run[r] # NoThread /\ is_cross_worker(Tls(r).dr) /\ pc[r] # "put" =>
        /\ r = owner(Tls(r).dr)
        /\ pc[r] # "start" /\ Depth(r) >= 0 =>
              node[r][Depth(r)] = Last(path[run[r]])

(* The ITYR_CHECKs of get_topmost_dominant() and get_local_node(), and     *)
(* what steal() means to check: the path of nodes a rank follows is one of *)
(* the tree, and a rank steals only in a group whose range it is in.       *)
TreeConsistent ==
    \A r \in Ranks :
        /\ pc[r] = "scan" \/ Steals(r) => LET n == node[r][scan[r]] IN
              /\ n.parent.depth = scan[r] - 1 /\ n.version # 0
              /\ Asks(r, scan[r]) => NodeOwner(r, scan[r]) = begin_rank(n.dr)
        /\ pc[r] = "steal" => r \in begin_rank(node[r][scan[r]].dr)..LastRank(node[r][scan[r]].dr)
        /\ pc[r] = "tgfin" /\ is_cross_worker(Tls(r).dr) /\ Last(Tls(r).tgs).owns => Tls(r).ref.owner = r

(* root_exec() returns on every rank: no task is left in a queue nobody    *)
(* looks into, and nobody waits for a dummy task for ever.                 *)
RootExecReturns == (\E r \in Ranks : pc[r] # "spmd") ~> (\A r \in Ranks : pc[r] = "spmd")

================================================================================
