----------------------------- MODULE CollExecProofs -----------------------------
(***************************************************************************)
(* coll_exec() keeps the ranks together, for every number of ranks and of  *)
(* calls: a rank copies its task from a rank that still has it, and all    *)
(* ranks execute the same sequence of tasks.                               *)
(*                                                                         *)
(* The invariant follows a call: every rank has entered none, one or both  *)
(* of its two barriers, and the ranks that are still to be told, along the *)
(* tree, have not been told yet.  This is where it matters that a rank has *)
(* one parent in the tree, for every number of ranks (BcastTreeProofs).    *)
(***************************************************************************)
EXTENDS CollExec, BcastTreeProofs

(* Places of a rank outside of the current task: it works for the last     *)
(* task or for none.                                                       *)
Outside == {"sched", "busy", "out", "free"}

(* Places between the start of a task and the end of its work.             *)
Inside == {"copy", "forward", "ready", "in", "execute", "done"}

(* How many tasks and barriers are behind a rank, by its place.            *)
Counts ==
    \A r \in Ranks :
        /\ pc[r] \in Outside \cup {"root"} =>
              entered[r] = 2 * executed[r] /\ executed[r] \in {calls - 1, calls}
        /\ pc[r] \in {"copy", "forward", "ready"} =>
              entered[r] = 2 * executed[r] /\ executed[r] = calls - 1
        /\ pc[r] \in {"in", "execute"} =>
              entered[r] = 2 * executed[r] + 1 /\ executed[r] = calls - 1
        /\ pc[r] = "done" => entered[r] = 2 * executed[r] - 1 /\ executed[r] = calls

(* What a rank knows of the others behind a barrier.                       *)
Barriers ==
    \A r, q \in Ranks :
        /\ pc[r] = "execute" \/ executed[r] = calls => entered[q] >= 2 * calls - 1
        /\ pc[r] \in {"root", "sched", "busy", "free"} => entered[q] >= entered[r]

(* The root thread is on one rank, which is the master of the task.        *)
OneRoot ==
    /\ pc[holder] \in {"root", "out", "free"} \cup (Inside \ {"copy"})
    /\ pc[holder] \in {"root", "out", "free"} => executed[holder] = calls
    /\ \A r \in Ranks :
          /\ pc[r] = "root" => r = holder
          /\ pc[r] \in Inside => master[r] = holder
          /\ pc[r] \in Inside \cup {"out", "free"} => (master[r] = r <=> r = holder)

(* A rank that others copy the task from.                                  *)
Holds(s) == s \in Ranks /\ task[s] /\ pc[s] \in {"forward", "ready", "in"}

(* A rank that has been told does not work for the task yet, and the rank  *)
(* that told it holds the task.                                            *)
Mail ==
    \A r \in Ranks :
        /\ mailbox[r] # NoRank =>
              /\ pc[r] \in Outside /\ executed[r] = calls - 1
              /\ mailbox[r].master = holder /\ Holds(mailbox[r].sender)
        /\ pc[r] = "copy" => Holds(from[r])
        /\ pc[r] \in {"forward", "ready", "in"} => task[r]

(* A rank that has not been told of the current task.                      *)
Fresh(r) == pc[r] \in Outside /\ executed[r] = calls - 1 /\ mailbox[r] = NoRank

(* The ranks, counted from the master, that a rank is still to tell.       *)
Pending(r) ==
    IF pc[r] = "forward" THEN fwd[r]
    ELSE IF pc[r] \in Outside \cup {"copy"} /\ executed[r] = calls - 1
    THEN Tree[Shifted(r, holder)] ELSE {}

ToBeTold ==
    \A r \in Ranks :
        /\ Pending(r) \subseteq Tree[Shifted(r, holder)]
        /\ \A s \in Pending(r) : Fresh(Unshifted(s, holder))

IInv == TypeOK /\ Counts /\ Barriers /\ OneRoot /\ Mail /\ ToBeTold

--------------------------------------------------------------------------------
(* The remainder of a number below 2n.                                     *)
LEMMA ModOnce ==
    ASSUME NEW n \in Nat \ {0}, NEW x \in 0..(2 * n - 1)
    PROVE  x % n = IF x < n THEN x ELSE x - n
<1>1. CASE x < n
  BY <1>1
<1>2. CASE x >= n
  <2>1. x - n \in 0..(n - 1) /\ x = n * 1 + (x - n)
    BY <1>2
  <2>2. QED
    BY <1>2, <2>1
<1>3. QED
  BY <1>1, <1>2

(* Counting ranks from the master and back.                                *)
LEMMA ShiftType ==
    ASSUME NEW r \in Ranks, NEW m \in Ranks
    PROVE  Shifted(r, m) \in Ranks /\ Unshifted(r, m) \in Ranks
BY CollExecAssumption, ModOnce DEF Ranks, Shifted, Unshifted

(* The master is the first.                                                *)
LEMMA ShiftMaster == \A m \in Ranks : Shifted(m, m) = 0
BY CollExecAssumption, ModOnce DEF Ranks, Shifted

(* Shifted and Unshifted are inverse.                                      *)
LEMMA ShiftInverse ==
    ASSUME NEW r \in Ranks, NEW m \in Ranks
    PROVE  Unshifted(Shifted(r, m), m) = r /\ Shifted(Unshifted(r, m), m) = r
BY CollExecAssumption, ModOnce DEF Ranks, Shifted, Unshifted

(* The targets of a rank are ranks, and the master is not among them.      *)
LEMMA TargetRanks ==
    ASSUME NEW a \in Ranks, NEW s \in Tree[a], NEW m \in Ranks
    PROVE  s \in Ranks /\ Unshifted(s, m) \in Ranks \ {m}
<1>1. s \in BcastTargets(a, NRanks) /\ a \in Nat /\ NRanks \in Nat
  BY CollExecAssumption DEF Tree, Ranks
<1>2. s \in Nat /\ a < s /\ s < NRanks
  BY <1>1, TargetAbove
<1>3. s \in Ranks /\ s # 0
  BY <1>1, <1>2, CollExecAssumption DEF Ranks
<1>4. QED
  BY <1>3, ShiftType, ShiftInverse, ShiftMaster

(* Two ranks that have the same target are the same.                       *)
LEMMA TargetParent ==
    ASSUME NEW r \in Ranks, NEW p \in Ranks, NEW m \in Ranks,
           NEW s \in Tree[Shifted(r, m)], NEW t \in Tree[Shifted(p, m)],
           Unshifted(s, m) = Unshifted(t, m)
    PROVE  r = p /\ s = t
<1>1. s \in Ranks /\ t \in Ranks
  BY ShiftType, TargetRanks
<1>2. s = t
  BY <1>1, ShiftInverse
<1> DEFINE a == Shifted(r, m)
           b == Shifted(p, m)
<1>3. a \in Ranks /\ b \in Ranks /\ s \in Tree[a] /\ s \in Tree[b]
  BY <1>2, ShiftType
<1> HIDE DEF a, b
<1>4. s \in BcastTargets(a, NRanks) /\ s \in BcastTargets(b, NRanks)
  BY <1>3 DEF Tree
<1>5. a \in Nat /\ b \in Nat /\ NRanks \in Nat
  BY <1>3, CollExecAssumption DEF Ranks
<1>6. a = b
  BY <1>4, <1>5, OneParent
<1>7. QED
  BY <1>2, <1>6, ShiftInverse DEF a, b

(* The ranks still to be told have a highest one.                          *)
LEMMA MaxOfRanks ==
    ASSUME NEW S \in SUBSET Ranks, S # {}
    PROVE  Max(S) \in S
<1>1. NRanks - 1 \in Nat /\ S \in SUBSET (0..(NRanks - 1))
  BY CollExecAssumption DEF Ranks
<1>2. \E x \in S : \A y \in S : y <= x
  BY <1>1, GreatestElement
<1>3. \E x \in S : \A y \in S : x >= y
  BY <1>1, <1>2
<1>4. QED
  BY <1>3 DEF Max

(* Tree is a function on the ranks to sets of ranks.                       *)
LEMMA TreeType == \A a \in Ranks : Tree[a] \in SUBSET Ranks
<1> SUFFICES ASSUME NEW a \in Ranks, NEW s \in Tree[a]
             PROVE  s \in Ranks
  OBVIOUS
<1>1. 0 \in Ranks
  BY CollExecAssumption DEF Ranks
<1>2. QED
  BY <1>1, TargetRanks

--------------------------------------------------------------------------------
(* The invariant holds at the start: no call, no message.                  *)
LEMMA InitIInv == Init => IInv
<1> SUFFICES ASSUME Init PROVE IInv
  OBVIOUS
<1> USE CollExecAssumption
<1>1. 0 \in Ranks
  BY DEF Ranks
<1>2. TypeOK
  BY <1>1 DEF Init, TypeOK, Locations
<1>3. Counts
  BY DEF Init, Counts, Outside
<1>4. Barriers
  BY DEF Init, Barriers
<1>5. OneRoot
  BY <1>1 DEF Init, OneRoot, Inside
<1>6. Mail
  BY DEF Init, Mail, Outside
<1>7. ToBeTold
  <2>1. \A r \in Ranks : Pending(r) = {}
    BY DEF Init, Pending, Outside
  <2>2. QED
    BY <2>1 DEF ToBeTold
<1>8. QED
  BY <1>2, <1>3, <1>4, <1>5, <1>6, <1>7 DEF IInv

(* ToBeTold is kept by steps after which nobody has more to tell and all   *)
(* the ranks that were fresh still are.                                    *)
LEMMA ToBeToldKept ==
    ASSUME IInv, holder' = holder,
           \A p \in Ranks : Pending(p)' \subseteq Pending(p),
           \A q \in Ranks : Fresh(q) => Fresh(q)'
    PROVE  ToBeTold'
<1> SUFFICES ASSUME NEW p \in Ranks, NEW s \in Pending(p)'
             PROVE  s \in Tree[Shifted(p, holder)] /\ Fresh(Unshifted(s, holder))'
  BY DEF ToBeTold, Shifted, Unshifted
<1>1. s \in Pending(p) /\ holder \in Ranks
  BY DEF IInv, TypeOK
<1>2. s \in Tree[Shifted(p, holder)] /\ Fresh(Unshifted(s, holder))
  BY <1>1 DEF IInv, ToBeTold
<1>3. Unshifted(s, holder) \in Ranks
  BY <1>1, <1>2, ShiftType, TargetRanks
<1>4. QED
  BY <1>2, <1>3

(* Workers that run threads do not touch the state of a task.              *)
LEMMA RunThreadIInv ==
    ASSUME IInv, NEW r \in Ranks, RunThread(r) \/ ThreadEnds(r)
    PROVE  IInv'
<1> USE CollExecAssumption DEF IInv, RunThread, ThreadEnds, GoTo
<1>1. TypeOK'
  BY DEF TypeOK, Locations
<1>2. Counts'
  BY DEF Counts, TypeOK, Outside
<1>3. Barriers'
  BY DEF Barriers, TypeOK
<1>4. OneRoot'
  BY DEF OneRoot, TypeOK, Inside
<1>5. Mail'
  BY DEF Mail, TypeOK, Outside, Holds
<1>6. ToBeTold'
  <2>1. \A p \in Ranks : (pc'[p] = "forward" <=> pc[p] = "forward")
           /\ (pc'[p] \in Outside <=> pc[p] \in Outside) /\ (pc'[p] = "copy" <=> pc[p] = "copy")
    BY DEF TypeOK, Outside
  <2>2. \A p \in Ranks : Pending(p)' \subseteq Pending(p)
    BY <2>1 DEF Pending, Shifted
  <2>3. \A q \in Ranks : Fresh(q) => Fresh(q)'
    BY <2>1 DEF Fresh
  <2>4. QED
    BY <2>2, <2>3, ToBeToldKept
<1>7. QED
  BY <1>1, <1>2, <1>3, <1>4, <1>5, <1>6

(* While the root thread runs, nobody is in a task: all have entered both  *)
(* barriers of all calls, and no message is under way.                     *)
LEMMA RootQuiet ==
    ASSUME IInv, NEW r \in Ranks, pc[r] = "root"
    PROVE  /\ r = holder /\ executed[r] = calls
           /\ \A q \in Ranks : /\ entered[q] = 2 * calls /\ executed[q] = calls
                               /\ pc[q] \in Outside \cup {"root"}
                               /\ mailbox[q] = NoRank /\ Pending(q) = {}
<1>1. r = holder /\ executed[r] = calls /\ entered[r] = 2 * calls
  BY DEF IInv, OneRoot, Counts
<1>2. ASSUME NEW q \in Ranks
      PROVE  entered[q] = 2 * calls /\ executed[q] = calls /\ pc[q] \in Outside \cup {"root"}
  <2>1. entered[q] >= 2 * calls
    BY <1>1 DEF IInv, Barriers
  <2>2. calls \in Nat /\ entered[q] \in Nat /\ executed[q] \in Nat /\ pc[q] \in Locations
    BY CollExecAssumption DEF IInv, TypeOK
  <2>3. pc[q] \in Outside \cup {"root"}
    BY <2>1, <2>2 DEF IInv, Counts, Locations, Outside
  <2>4. QED
    BY <2>1, <2>2, <2>3 DEF IInv, Counts
<1>3. ASSUME NEW q \in Ranks
      PROVE  mailbox[q] = NoRank /\ Pending(q) = {}
  <2>1. executed[q] # calls - 1 /\ pc[q] # "forward"
    BY <1>2, CollExecAssumption DEF IInv, TypeOK, Outside
  <2>2. QED
    BY <2>1 DEF IInv, Mail, Pending
<1>4. QED
  BY <1>1, <1>2, <1>3

(* The root thread moves to a rank that is in its scheduling loop.         *)
LEMMA RootMovesIInv ==
    ASSUME IInv, NEW r \in Ranks, NEW q \in Ranks, RootMoves(r, q)
    PROVE  IInv'
<1> USE CollExecAssumption DEF IInv, RootMoves
<1>1. r = holder /\ q # r /\ \A p \in Ranks :
         /\ entered[p] = 2 * calls /\ executed[p] = calls
         /\ pc[p] \in Outside \cup {"root"} /\ mailbox[p] = NoRank
  BY RootQuiet
<1>2. TypeOK'
  BY DEF TypeOK, Locations
<1>3. \A p \in Ranks : pc'[p] \in Outside \cup {"root"}
  BY <1>1 DEF TypeOK, Outside
<1>4. Counts'
  BY <1>1, <1>3 DEF Counts, TypeOK, Outside
<1>5. Barriers'
  BY <1>1 DEF Barriers, TypeOK
<1>6. OneRoot'
  <2>1. \A p \in Ranks : pc'[p] = "root" => p = q
    BY <1>1 DEF OneRoot, TypeOK
  <2>2. \A p \in Ranks : pc'[p] \in {"out", "free"} => p # q /\ p # r /\ pc[p] = pc'[p]
    BY <1>1 DEF TypeOK
  <2>3. QED
    BY <1>1, <1>3, <2>1, <2>2 DEF OneRoot, TypeOK, Inside, Outside
<1>7. Mail'
  BY <1>1, <1>3 DEF Mail, Outside
<1>8. ToBeTold'
  <2>1. \A p \in Ranks : executed'[p] # calls' - 1 /\ pc'[p] # "forward"
    BY <1>1, <1>3 DEF TypeOK, Outside
  <2>2. \A p \in Ranks : Pending(p)' = {}
    BY <2>1 DEF Pending
  <2>3. QED
    BY <2>2 DEF ToBeTold
<1>9. QED
  BY <1>2, <1>4, <1>5, <1>6, <1>7, <1>8

(* A call: all the others are fresh, and all are to be told.               *)
LEMMA CollExecIInv ==
    ASSUME IInv, NEW r \in Ranks, coll_exec(r)
    PROVE  IInv'
<1> USE CollExecAssumption DEF IInv, coll_exec, GoTo
<1>1. r = holder /\ \A p \in Ranks :
         /\ entered[p] = 2 * calls /\ executed[p] = calls
         /\ pc[p] \in Outside \cup {"root"} /\ mailbox[p] = NoRank
  BY RootQuiet
<1>2. Shifted(r, r) \in Ranks /\ Tree[Shifted(r, r)] \in SUBSET Ranks
  BY ShiftType, TreeType
<1>3. TypeOK'
  BY <1>2 DEF TypeOK, Locations
<1>4. \A p \in Ranks : IF p = r THEN pc'[p] = "forward" ELSE pc'[p] = pc[p] /\ pc[p] \in Outside
  BY <1>1 DEF TypeOK, Outside, OneRoot
<1>5. Counts'
  BY <1>1, <1>4 DEF Counts, TypeOK, Outside
<1>6. Barriers'
  BY <1>1, <1>4 DEF Barriers, TypeOK, Outside
<1>7. OneRoot'
  BY <1>1, <1>4 DEF OneRoot, TypeOK, Inside, Outside
<1>8. Mail'
  BY <1>1, <1>4 DEF Mail, TypeOK, Outside
<1>9. ToBeTold'
  <2>1. \A p \in Ranks : Pending(p)' \subseteq Tree[Shifted(p, r)]
    BY <1>1, <1>4 DEF Pending, TypeOK, Outside, Shifted
  <2>2. \A p \in Ranks \ {r} : Fresh(p)'
    BY <1>1, <1>4 DEF Fresh, TypeOK
  <2>3. \A p \in Ranks : \A s \in Pending(p)' : Fresh(Unshifted(s, r))'
    BY <2>1, <2>2, ShiftType, TargetRanks
  <2>4. QED
    BY <1>1, <2>1, <2>3 DEF ToBeTold, Shifted, Unshifted
<1>10. QED
  BY <1>3, <1>5, <1>6, <1>7, <1>8, <1>9

(* A rank takes the message; the rank that told it still holds the task.   *)
LEMMA MailboxPopIInv ==
    ASSUME IInv, NEW r \in Ranks, MailboxPop(r)
    PROVE  IInv'
<1> USE CollExecAssumption DEF IInv, MailboxPop, GoTo
<1>1. /\ mailbox[r] \in [sender : Ranks, master : Ranks]
      /\ executed[r] = calls - 1 /\ mailbox[r].master = holder /\ Holds(mailbox[r].sender)
      /\ r # holder
  BY DEF TypeOK, Mail, OneRoot, Inside
<1>2. TypeOK'
  BY <1>1 DEF TypeOK, Locations
<1>3. Counts'
  BY <1>1 DEF Counts, TypeOK, Outside
<1>4. Barriers'
  BY DEF Barriers, TypeOK
<1>5. OneRoot'
  BY <1>1 DEF OneRoot, TypeOK, Inside
<1>6. Mail'
  <2>1. \A s : Holds(s) => Holds(s)'
    BY DEF Holds, TypeOK
  <2>2. QED
    BY <1>1, <2>1 DEF Mail, TypeOK, Outside
<1>7. ToBeTold'
  <2>1. \A p \in Ranks : Pending(p)' \subseteq Pending(p)
    BY <1>1 DEF Pending, TypeOK, Outside, Shifted
  <2>2. \A q \in Ranks : Fresh(q) => Fresh(q)'
    BY DEF Fresh, TypeOK
  <2>3. QED
    BY <2>1, <2>2, ToBeToldKept
<1>8. QED
  BY <1>2, <1>3, <1>4, <1>5, <1>6, <1>7

(* A rank has its copy and is to tell all its targets.                     *)
LEMMA CopyTaskIInv ==
    ASSUME IInv, NEW r \in Ranks, CopyTask(r)
    PROVE  IInv'
<1> USE CollExecAssumption DEF IInv, CopyTask, GoTo
<1>1. master[r] = holder /\ r # holder /\ executed[r] = calls - 1
  BY DEF OneRoot, Inside, Counts
<1>2. Shifted(r, holder) \in Ranks /\ Tree[Shifted(r, holder)] \in SUBSET Ranks
  BY ShiftType, TreeType DEF TypeOK
<1>3. TypeOK'
  BY <1>1, <1>2 DEF TypeOK, Locations
<1>4. Counts'
  BY DEF Counts, TypeOK, Outside
<1>5. Barriers'
  BY DEF Barriers, TypeOK
<1>6. OneRoot'
  BY <1>1 DEF OneRoot, TypeOK, Inside
<1>7. Mail'
  <2>1. \A s : Holds(s) => Holds(s)'
    BY DEF Holds, TypeOK
  <2>2. QED
    BY <2>1 DEF Mail, TypeOK, Outside
<1>8. ToBeTold'
  <2>1. \A p \in Ranks : Pending(p)' \subseteq Pending(p)
    BY <1>1 DEF Pending, TypeOK, Outside, Shifted
  <2>2. \A q \in Ranks : Fresh(q) => Fresh(q)'
    BY DEF Fresh, TypeOK, Outside
  <2>3. QED
    BY <2>1, <2>2, ToBeToldKept
<1>9. QED
  BY <1>3, <1>4, <1>5, <1>6, <1>7, <1>8

(* A rank tells its next target, which nobody else has told or will tell.  *)
LEMMA TellIInv ==
    ASSUME IInv, NEW r \in Ranks, ForwardTask(r), fwd[r] # {}
    PROVE  IInv'
<1> USE CollExecAssumption DEF IInv
<1> DEFINE t == Max(fwd[r])
           q == Unshifted(t, holder)
<1>1. pc[r] = "forward" /\ holder \in Ranks /\ master[r] = holder
  BY DEF ForwardTask, OneRoot, Inside, TypeOK
<1>2. t \in fwd[r]
  BY MaxOfRanks DEF TypeOK
<1>3. t \in Tree[Shifted(r, holder)] /\ Fresh(q)
  BY <1>1, <1>2 DEF ToBeTold, Pending
<1>4. q \in Ranks /\ q # r
  BY <1>1, <1>3, ShiftType, TargetRanks DEF Fresh, Outside
<1>5. /\ mailbox' = [mailbox EXCEPT ![q] = [sender |-> r, master |-> holder]]
      /\ fwd' = [fwd EXCEPT ![r] = @ \ {t}]
      /\ UNCHANGED <<pc, from, master, task, entered, executed, calls, holder>>
  BY <1>1 DEF ForwardTask
<1> HIDE DEF q, t
<1>6. TypeOK'
  BY <1>1, <1>4, <1>5 DEF TypeOK
<1>7. Counts' /\ Barriers' /\ OneRoot'
  BY <1>5 DEF Counts, Barriers, OneRoot
<1>8. Mail'
  <2>1. \A s : Holds(s) => Holds(s)'
    BY <1>5 DEF Holds
  <2>2. Holds(r)
    BY <1>1 DEF Holds, Mail
  <2>3. \A p \in Ranks : mailbox'[p] = IF p = q THEN [sender |-> r, master |-> holder]
                                              ELSE mailbox[p]
    BY <1>5 DEF TypeOK
  <2>4. QED
    BY <1>3, <1>5, <2>1, <2>2, <2>3 DEF Mail, Fresh
<1>9. ToBeTold'
  <2> SUFFICES ASSUME NEW p \in Ranks, NEW s \in Pending(p)'
               PROVE  s \in Tree[Shifted(p, holder)] /\ Fresh(Unshifted(s, holder))'
    BY <1>5 DEF ToBeTold, Shifted, Unshifted
  <2>1. s \in Pending(p) /\ ~(p = r /\ s = t)
    BY <1>1, <1>5 DEF Pending, TypeOK, Shifted
  <2>2. s \in Tree[Shifted(p, holder)] /\ Fresh(Unshifted(s, holder))
    BY <2>1 DEF ToBeTold
  <2>3. Unshifted(s, holder) # q
    BY <1>1, <1>3, <2>1, <2>2, TargetParent DEF q
  <2>4. Unshifted(s, holder) \in Ranks
    BY <1>1, <2>2, ShiftType, TargetRanks
  <2>5. QED
    BY <1>5, <2>2, <2>3, <2>4 DEF Fresh, TypeOK
<1>10. QED
  BY <1>6, <1>7, <1>8, <1>9

(* A rank has told all its targets.                                        *)
LEMMA ToldAllIInv ==
    ASSUME IInv, NEW r \in Ranks, ForwardTask(r), fwd[r] = {}
    PROVE  IInv'
<1> USE CollExecAssumption DEF IInv
<1>1. /\ pc[r] = "forward" /\ pc' = [pc EXCEPT ![r] = "ready"]
      /\ UNCHANGED <<mailbox, fwd, from, master, task, entered, executed, calls, holder>>
  BY DEF ForwardTask, GoTo
<1>2. TypeOK'
  BY <1>1 DEF TypeOK, Locations
<1>3. Counts'
  BY <1>1 DEF Counts, TypeOK, Outside
<1>4. Barriers'
  BY <1>1 DEF Barriers, TypeOK
<1>5. OneRoot'
  BY <1>1 DEF OneRoot, TypeOK, Inside
<1>6. Mail'
  <2>1. \A s : Holds(s) => Holds(s)'
    BY <1>1 DEF Holds, TypeOK
  <2>2. QED
    BY <1>1, <2>1 DEF Mail, TypeOK, Outside
<1>7. ToBeTold'
  <2>1. \A p \in Ranks : Pending(p)' \subseteq Pending(p)
    BY <1>1 DEF Pending, TypeOK, Outside, Shifted
  <2>2. \A q \in Ranks : Fresh(q) => Fresh(q)'
    BY <1>1 DEF Fresh, TypeOK, Outside
  <2>3. QED
    BY <1>1, <2>1, <2>2, ToBeToldKept
<1>8. QED
  BY <1>2, <1>3, <1>4, <1>5, <1>6, <1>7

(* A rank enters a barrier.                                                *)
LEMMA EnterBarrierIInv ==
    ASSUME IInv, NEW r \in Ranks, EnterBarrier(r)
    PROVE  IInv'
<1> USE CollExecAssumption DEF IInv, EnterBarrier, GoTo
<1>1. /\ pc[r] \in {"ready", "done"} /\ executed[r] \in Nat /\ entered[r] \in Nat
      /\ executed[r] <= MaxCalls /\ calls \in Nat /\ calls <= MaxCalls
      /\ pc[r] = "ready" => entered[r] = 2 * executed[r] /\ executed[r] = calls - 1
      /\ pc[r] = "done" => entered[r] = 2 * executed[r] - 1 /\ executed[r] = calls
  BY DEF TypeOK, Counts
<1>2. entered[r] + 1 \in 0..(2 * MaxCalls)
  BY <1>1
<1>3. TypeOK'
  BY <1>2 DEF TypeOK, Locations
<1>4. Counts'
  BY <1>1 DEF Counts, TypeOK, Outside
<1>5. Barriers'
  <2>1. \A q \in Ranks : entered[q] \in Int /\ entered'[q] \in Int /\ entered'[q] >= entered[q]
                          /\ (q # r => entered'[q] = entered[q])
    BY DEF TypeOK
  <2>2. calls \in Int /\ 2 * calls - 1 \in Int /\ UNCHANGED <<executed, calls>>
    BY DEF TypeOK
  <2>3. \A p \in Ranks : pc'[p] = "execute" => pc[p] = "execute"
    BY DEF TypeOK
  <2>4. \A p \in Ranks : pc'[p] \in {"root", "sched", "busy", "free"} => p # r /\ pc[p] = pc'[p]
    BY DEF TypeOK
  <2>5. \A p, q \in Ranks : pc'[p] = "execute" \/ executed'[p] = calls'
                               => entered'[q] >= 2 * calls' - 1
    BY <2>1, <2>2, <2>3 DEF Barriers
  <2>6. \A p, q \in Ranks : pc'[p] \in {"root", "sched", "busy", "free"}
                               => entered'[q] >= entered'[p]
    BY <2>1, <2>4 DEF Barriers
  <2>7. QED
    BY <2>5, <2>6 DEF Barriers
<1>6. OneRoot'
  BY <1>1 DEF OneRoot, TypeOK, Inside
<1>7. Mail'
  <2>1. \A s : Holds(s) => Holds(s)'
    BY DEF Holds, TypeOK
  <2>2. QED
    BY <2>1 DEF Mail, TypeOK, Outside
<1>8. ToBeTold'
  <2>1. \A p \in Ranks : Pending(p)' \subseteq Pending(p)
    BY <1>1 DEF Pending, TypeOK, Outside, Shifted
  <2>2. \A q \in Ranks : Fresh(q) => Fresh(q)'
    BY DEF Fresh, TypeOK, Outside
  <2>3. QED
    BY <2>1, <2>2, ToBeToldKept
<1>9. QED
  BY <1>3, <1>4, <1>5, <1>6, <1>7, <1>8

(* A rank leaves a barrier: nobody has a message or copies the task while  *)
(* a rank that holds it leaves the first.                                  *)
LEMMA LeaveBarrierIInv ==
    ASSUME IInv, NEW r \in Ranks, LeaveBarrier(r)
    PROVE  IInv'
<1> USE CollExecAssumption DEF IInv, LeaveBarrier, GoTo
<1>1. TypeOK'
  BY DEF TypeOK, Locations
<1>2. Counts'
  BY DEF Counts, TypeOK, Outside
<1>3. Barriers'
  BY DEF Barriers, Counts, TypeOK, Outside
<1>4. OneRoot'
  BY DEF OneRoot, TypeOK, Inside
<1>5. Mail'
  <2>1. CASE pc[r] = "out"
    <3>1. \A s : Holds(s) => Holds(s)'
      BY <2>1 DEF Holds, TypeOK
    <3>2. QED
      BY <2>1, <3>1 DEF Mail, TypeOK, Outside
  <2>2. CASE pc[r] = "in"
    <3>1. \A q \in Ranks : entered[q] >= 2 * calls - 1
      BY <2>2 DEF Counts, TypeOK
    <3>2. ASSUME NEW q \in Ranks
          PROVE  pc[q] # "copy" /\ mailbox[q] = NoRank
      <4>1. calls \in Int /\ entered[q] # 2 * calls - 2
        BY <3>1 DEF TypeOK
      <4>2. pc[q] # "copy"
        BY <4>1 DEF Counts, TypeOK
      <4>3. ~(pc[q] \in Outside /\ executed[q] = calls - 1)
        BY <4>1 DEF Counts, TypeOK
      <4>4. QED
        BY <4>2, <4>3 DEF Mail
    <3>3. QED
      BY <2>2, <3>2 DEF Mail, TypeOK
  <2>3. QED
    BY <2>1, <2>2
<1>6. ToBeTold'
  <2>1. \A p \in Ranks : Pending(p)' \subseteq Pending(p)
    BY DEF Pending, TypeOK, Outside, Shifted
  <2>2. \A q \in Ranks : Fresh(q) => Fresh(q)'
    BY DEF Fresh, TypeOK, Outside
  <2>3. QED
    BY <2>1, <2>2, ToBeToldKept
<1>7. QED
  BY <1>1, <1>2, <1>3, <1>4, <1>5, <1>6

(* A rank executes the task.                                               *)
LEMMA ExecuteIInv ==
    ASSUME IInv, NEW r \in Ranks, Execute(r)
    PROVE  IInv'
<1> USE CollExecAssumption DEF IInv, Execute, GoTo
<1>1. executed[r] = calls - 1 /\ calls \in Nat /\ calls <= MaxCalls /\ executed'[r] = calls
  BY DEF Counts, TypeOK
<1>2. TypeOK'
  BY <1>1 DEF TypeOK, Locations
<1>3. Counts'
  BY <1>1 DEF Counts, TypeOK, Outside
<1>4. Barriers'
  <2>1. \A p \in Ranks : p # r => executed'[p] = executed[p] /\ pc'[p] = pc[p]
    BY DEF TypeOK
  <2>2. pc'[r] = "done"
    BY DEF TypeOK
  <2>3. QED
    BY <2>1, <2>2 DEF Barriers
<1>5. OneRoot'
  BY DEF OneRoot, TypeOK, Inside
<1>6. Mail'
  <2>1. \A s : Holds(s) => Holds(s)'
    BY DEF Holds, TypeOK
  <2>2. QED
    BY <2>1 DEF Mail, TypeOK, Outside
<1>7. ToBeTold'
  <2>1. \A p \in Ranks : Pending(p)' \subseteq Pending(p)
    BY DEF Pending, TypeOK, Outside, Shifted
  <2>2. \A q \in Ranks : Fresh(q) => Fresh(q)'
    BY DEF Fresh, TypeOK, Outside
  <2>3. QED
    BY <2>1, <2>2, ToBeToldKept
<1>8. QED
  BY <1>2, <1>3, <1>4, <1>5, <1>6, <1>7

(* A rank is through with the task.  By then it may have been told of the  *)
(* next one.                                                               *)
LEMMA FreeTaskIInv ==
    ASSUME IInv, NEW r \in Ranks, FreeTask(r)
    PROVE  IInv'
<1> USE CollExecAssumption DEF IInv, FreeTask, GoTo
<1>1. /\ pc'[r] = IF r = holder THEN "root" ELSE "sched"
      /\ r = holder => executed[r] = calls
  BY DEF OneRoot, TypeOK
<1>2. TypeOK'
  BY DEF TypeOK, Locations
<1>3. Counts'
  BY DEF Counts, TypeOK, Outside
<1>4. Barriers'
  BY DEF Barriers, TypeOK
<1>5. OneRoot'
  BY <1>1 DEF OneRoot, TypeOK, Inside
<1>6. Mail'
  <2>1. \A s : Holds(s) => Holds(s)'
    BY DEF Holds, TypeOK
  <2>2. mailbox[r] # NoRank => r # holder
    <3> SUFFICES ASSUME mailbox[r] # NoRank, r = holder PROVE FALSE
      OBVIOUS
    <3>1. executed[r] = calls - 1 /\ executed[r] = calls /\ calls \in Int
      BY DEF Mail, OneRoot, TypeOK
    <3>2. QED
      BY <3>1
  <2>3. QED
    BY <1>1, <2>1, <2>2 DEF Mail, TypeOK, Outside
<1>7. ToBeTold'
  <2>1. \A p \in Ranks : Pending(p)' \subseteq Pending(p)
    BY <1>1 DEF Pending, TypeOK, Outside, Shifted
  <2>2. \A q \in Ranks : Fresh(q) => Fresh(q)'
    <3>1. executed[r] = calls - 1 => r # holder
      BY <1>1 DEF TypeOK, OneRoot
    <3>2. QED
      BY <1>1, <3>1 DEF Fresh, TypeOK, Outside
  <2>3. QED
    BY <2>1, <2>2, ToBeToldKept
<1>8. QED
  BY <1>2, <1>3, <1>4, <1>5, <1>6, <1>7

--------------------------------------------------------------------------------
(* The invariant is inductive.                                             *)
LEMMA NextIInv == IInv /\ [Next]_vars => IInv'
<1> SUFFICES ASSUME IInv, [Next]_vars PROVE IInv'
  OBVIOUS
<1>1. CASE UNCHANGED vars
  BY <1>1 DEF vars, IInv, TypeOK, Counts, Barriers, OneRoot, Mail, Holds, ToBeTold, Pending,
              Fresh, Shifted, Unshifted
<1>2. ASSUME NEW r \in Ranks, RunThread(r) \/ ThreadEnds(r) PROVE IInv'
  BY <1>2, RunThreadIInv
<1>3. ASSUME NEW r \in Ranks, NEW q \in Ranks, RootMoves(r, q) PROVE IInv'
  BY <1>3, RootMovesIInv
<1>4. ASSUME NEW r \in Ranks, coll_exec(r) PROVE IInv'
  BY <1>4, CollExecIInv
<1>5. ASSUME NEW r \in Ranks, MailboxPop(r) PROVE IInv'
  BY <1>5, MailboxPopIInv
<1>6. ASSUME NEW r \in Ranks, CopyTask(r) PROVE IInv'
  BY <1>6, CopyTaskIInv
<1>7. ASSUME NEW r \in Ranks, ForwardTask(r) PROVE IInv'
  BY <1>7, TellIInv, ToldAllIInv
<1>8. ASSUME NEW r \in Ranks, EnterBarrier(r) PROVE IInv'
  BY <1>8, EnterBarrierIInv
<1>9. ASSUME NEW r \in Ranks, LeaveBarrier(r) PROVE IInv'
  BY <1>9, LeaveBarrierIInv
<1>10. ASSUME NEW r \in Ranks, Execute(r) PROVE IInv'
  BY <1>10, ExecuteIInv
<1>11. ASSUME NEW r \in Ranks, FreeTask(r) PROVE IInv'
  BY <1>11, FreeTaskIInv
<1>12. QED
  BY <1>1, <1>2, <1>3, <1>4, <1>5, <1>6, <1>7, <1>8, <1>9, <1>10, <1>11 DEF Next, Steps

(* The inductive invariant holds throughout.                               *)
THEOREM InductiveInvariant == Spec => []IInv
<1>1. QED
  BY InitIInv, NextIInv, PTL DEF Spec

(* Types hold, for every number of ranks and calls: no counter of barriers *)
(* or executed tasks runs over its bound.                                  *)
THEOREM TypeCorrect == Spec => []TypeOK
<1>1. IInv => TypeOK
  BY DEF IInv
<1>2. QED
  BY <1>1, InductiveInvariant, PTL

(* A rank copies the task from memory that is still allocated, for every   *)
(* number of ranks: the first barrier keeps everybody's copy alive until   *)
(* all have theirs.                                                        *)
THEOREM TaskAliveHolds == Spec => []TaskAlive
<1>1. IInv => TaskAlive
  BY DEF IInv, Mail, Holds, TaskAlive
<1>2. QED
  BY <1>1, InductiveInvariant, PTL

(* All ranks execute the same sequence of tasks, for every number of       *)
(* ranks: the tree tells nobody twice, and the barriers keep the ranks     *)
(* within one task of each other.                                          *)
THEOREM ExecuteTogetherHolds == Spec => []ExecuteTogether
<1>1. IInv => ExecuteTogether
  <2> SUFFICES ASSUME IInv, NEW r \in Ranks
               PROVE  /\ pc[r] = "execute" => executed[r] = calls - 1 /\ master[r] = holder
                      /\ calls - executed[r] \in {0, 1}
    BY DEF ExecuteTogether
  <2>1. calls \in Int /\ pc[r] \in Locations
    BY DEF IInv, TypeOK
  <2>2. executed[r] \in {calls - 1, calls}
    BY <2>1 DEF IInv, Counts, Locations, Outside
  <2>3. pc[r] = "execute" => executed[r] = calls - 1 /\ master[r] = holder
    BY DEF IInv, Counts, OneRoot, Inside
  <2>4. QED
    BY <2>1, <2>2, <2>3
<1>2. QED
  BY <1>1, InductiveInvariant, PTL

================================================================================
