------------------------------ MODULE RandWsProofs ------------------------------
(***************************************************************************)
(* The random work-stealing scheduler keeps its threads and their frames,  *)
(* for any number of ranks, threads, forks and migrations: no continuation *)
(* is lost or resumed twice, no thread_state is used after it was freed,   *)
(* and a stack is resumed only where its frames are intact.                *)
(*                                                                         *)
(* The invariant has five parts: the family of the threads, the one place  *)
(* of each thread, the two sides of the join race, the chain of ancestors  *)
(* in every queue, and the exit of the scheduling loops.                   *)
(***************************************************************************)
EXTENDS RandWs, BcastTreeProofs, FiniteSetTheorems, SequenceTheorems

(* The thread is known to its parent's handler, or it is the root thread,  *)
(* and has a thread_state.                                                 *)
Started(t) == handler[t] = "forked" \/ t = root

(* The thread has an end to a rank, a queue or a mailbox.                  *)
Running(t) == \E r \in Ranks : run[r] = t
Queued(t) == \E r \in Ranks : \E i \in 1..Len(queue[r]) : queue[r][i] = t
Moving(t) == \E r \in Ranks : migration[r] = t

(***************************************************************************)
(* The family: a thread has a parent as long as its handler lives, and the *)
(* parent has not ended.                                                   *)
(***************************************************************************)
Family ==
    \A t \in Threads :
        /\ handler[t] = "none" => parent[t] = NoThread
        /\ handler[t] # "none" =>
              /\ t # root /\ parent[t] \in Threads
              /\ Started(parent[t]) /\ ~retval[parent[t]]
              /\ level[t] = level[parent[t]] + 1
        /\ t = root => level[t] = 0
        /\ ts[t] = "allocated" <=> Started(t)
        /\ ts[t] = "free" => ~retval[t]
        /\ t \in evac => Started(t) /\ ~retval[t]
        /\ joining[t] # NoThread =>
              Started(t) /\ handler[joining[t]] = "forked" /\ parent[joining[t]] = t

Childless(t) == \A c \in Threads : parent[c] # t

(***************************************************************************)
(* The place of a thread, and what its place in the code tells of it.      *)
(***************************************************************************)
Apart ==
    /\ \A r, q \in Ranks : run[r] = run[q] /\ run[r] # NoThread => r = q
    /\ \A r, q \in Ranks : migration[r] = migration[q] /\ migration[r] # NoThread => r = q
    /\ \A r, q \in Ranks : \A i \in 1..Len(queue[r]), j \in 1..Len(queue[q]) :
          queue[r][i] = queue[q][j] => r = q /\ i = j

Runs(r) ==
    LET t == run[r] IN
    /\ pc[r] \notin Idle => Started(t)
    /\ pc[r] \in {"thread", "copy"} => t \notin evac /\ joining[t] = NoThread /\ ~retval[t]
    /\ pc[r] \in {"pop", "put"} =>
          t \notin evac /\ joining[t] = NoThread /\ ~retval[t] /\ t # root /\ Childless(t)
    /\ pc[r] \in {"diefaa", "get"} => joining[t] = NoThread /\ retval[t] /\ t # root
    /\ pc[r] \in {"check", "evac", "retval"} =>
          t \notin evac /\ joining[t] # NoThread /\ ~retval[t]
    /\ pc[r] = "joinfaa" => t \in evac /\ joining[t] # NoThread
    /\ pc[r] = "resume" => t \in evac /\ (joining[t] # NoThread \/ t = root)
    /\ pc[r] = "moveput" => t \in evac /\ joining[t] = NoThread /\ t = root
    /\ pc[r] = "rootput" =>
          t \notin evac /\ joining[t] = NoThread /\ ~retval[t] /\ t = root /\ Childless(t)
    /\ pc[r] = "exitput" => joining[t] = NoThread /\ retval[t] /\ t = root

Places ==
    /\ \A r \in Ranks : Runs(r)
    /\ \A t \in Threads : Queued(t) =>
          /\ Started(t) /\ ~Running(t)
          /\ t \notin evac /\ joining[t] = NoThread /\ ~retval[t]
    /\ \A t \in Threads : Moving(t) =>
          t = root /\ t \in evac /\ joining[t] = NoThread /\ ~Running(t)
    /\ \A t \in Threads : Started(t) /\ ~retval[t] =>
          Running(t) \/ Queued(t) \/ Moving(t) \/ (t \in evac /\ joining[t] # NoThread)

(***************************************************************************)
(* The join race for a forked thread.  Passed(c): c has been to the        *)
(* fetch-and-add.  The parent has been there when it is suspended, or goes *)
(* on with a child that has ended.                                         *)
(***************************************************************************)
Passed(c) == retval[c] /\ \A r \in Ranks : run[r] = c => pc[r] = "get"
Flag(c) == IF Passed(c) THEN 1 ELSE 0

Race(c) ==
    LET p == parent[c] IN
    /\ joining[p] # c => suspended[c] = NoThread /\ resume_flag[c] = Flag(c)
    /\ joining[p] = c => \A r \in Ranks : run[r] = p =>
          /\ pc[r] \in {"check", "evac"} => suspended[c] = NoThread /\ resume_flag[c] = Flag(c)
          /\ pc[r] = "joinfaa" => suspended[c] = p /\ resume_flag[c] = Flag(c)
          /\ pc[r] \in {"retval", "resume"} => retval[c] /\ ~Running(c)
    /\ joining[p] = c /\ ~Running(p) =>
          /\ p \in evac /\ suspended[c] = p /\ resume_flag[c] = 1 + Flag(c)
          /\ Passed(c) => Running(c)

Races ==
    /\ \A c \in Threads : handler[c] = "forked" => Race(c)
    /\ \A r \in Ranks : pc[r] = "get" =>
          joining[parent[run[r]]] = run[r] /\ ~Running(parent[run[r]])

(***************************************************************************)
(* The chain of ancestors in a queue.  A worker whose queue is not empty,  *)
(* or from whose queue a thief is copying, runs a thread that has not been *)
(* stolen since it was forked: all its children were serialized.           *)
(***************************************************************************)
Above(r, i) == IF i = Len(queue[r]) THEN run[r] ELSE queue[r][i + 1]

Settled(t, n) ==
    \A c \in Threads : parent[c] = t => handler[c] = "serialized" \/ c = n

Chain(r) ==
    /\ queue[r] # <<>> \/ qlock[r] # NoRank =>
          pc[r] \in {"thread", "pop"} /\ Settled(run[r], NoThread)
    /\ \A i \in 1..Len(queue[r]) :
          /\ parent[Above(r, i)] = queue[r][i]
          /\ i > 1 \/ qlock[r] # NoRank => Settled(queue[r][i], Above(r, i))
          /\ level[queue[r][i]] < level[run[r]]
    /\ \A i, j \in 1..Len(queue[r]) : i < j => level[queue[r][i]] < level[queue[r][j]]

Copy(r) ==
    /\ loot[r] # NoRank <=> pc[r] = "copy"
    /\ pc[r] = "copy" =>
          /\ qlock[loot[r]] = r
          /\ level[run[r]] < level[run[loot[r]]] /\ run[loot[r]] # NoThread
          /\ \A i \in 1..Len(queue[loot[r]]) : level[run[r]] < level[queue[loot[r]][i]]
    /\ qlock[r] # NoRank => loot[qlock[r]] = r

Chains == \A r \in Ranks : Chain(r) /\ Copy(r)

(***************************************************************************)
(* The exit: it starts when the root thread has ended, and every rank is   *)
(* told once.                                                              *)
(***************************************************************************)
Out(r) == pc[r] \in {"forward", "result", "barrier"}

Exit ==
    /\ root = NoThread <=> pc[master] \in {"barrier", "spmd"}
    /\ \A r \in Ranks :
          /\ pc[r] = "spmd" => \A q \in Ranks : pc[q] = "spmd"
          /\ pc[r] = "result" => r = master
          /\ Out(r) \/ exit_request[r] =>
                /\ root = NoThread \/ retval[root]
                /\ \A q \in Ranks : pc[q] # "exitput"
                /\ \A q \in Ranks : r \in Tree[q] => Out(q) /\ r \notin fwd[q]
          /\ exit_request[r] => pc[r] = "sched"
          /\ fwd[r] # {} => pc[r] = "forward"
          /\ fwd[r] \subseteq Tree[r]

IInv == TypeOK /\ Family /\ Apart /\ Places /\ Races /\ Chains /\ Exit

--------------------------------------------------------------------------------
(* A worker that is not idle works for a thread.                           *)
LEMMA RunFacts ==
    ASSUME TypeOK, NEW r \in Ranks
    PROVE  /\ run[r] # NoThread <=> pc[r] \notin Idle
           /\ run[r] # NoThread <=> run[r] \in Threads
BY RandWsAssumption DEF TypeOK

(* Threads that run, when one worker turns to another thread.              *)
LEMMA RunMove ==
    ASSUME TypeOK, Apart, NEW r \in Ranks, NEW x, run' = [run EXCEPT ![r] = x]
    PROVE  \A t \in Threads : Running(t)' <=> (t = x \/ (Running(t) /\ t # run[r]))
<1> SUFFICES ASSUME NEW t \in Threads
             PROVE  Running(t)' <=> (t = x \/ (Running(t) /\ t # run[r]))
  OBVIOUS
<1>1. t # NoThread
  BY RandWsAssumption
<1>. QED BY <1>1, RandWsAssumption DEF TypeOK, Apart, Running

(* The running threads, as long as no worker turns to another.             *)
LEMMA RunStays ==
    ASSUME UNCHANGED run PROVE \A t \in Threads : Running(t)' <=> Running(t)
BY DEF Running

(* The queued threads, as long as no step touches the queues.              *)
LEMMA QueueStays ==
    ASSUME UNCHANGED queue PROVE \A t \in Threads : Queued(t)' <=> Queued(t)
BY DEF Queued

(* The migrating threads, as long as no step touches the mailboxes.        *)
LEMMA MailStays ==
    ASSUME UNCHANGED migration PROVE \A t \in Threads : Moving(t)' <=> Moving(t)
BY DEF Moving

(* The chains stay when the queues do, and only a worker outside of the    *)
(* chains turns to another thread or another place.                        *)
LEMMA ChainsFrame ==
    ASSUME TypeOK, Chains, UNCHANGED <<loot, queue, qlock, handler, parent, level>>,
           NEW r \in Ranks,
           \A q \in Ranks \ {r} : pc'[q] = pc[q] /\ run'[q] = run[q],
           \/ run'[r] = run[r] /\ pc[r] \in {"thread", "pop"} /\ pc'[r] \in {"thread", "pop"}
           \/ queue[r] = <<>> /\ qlock[r] = NoRank,
           pc[r] # "copy" /\ pc'[r] # "copy"
    PROVE  Chains'
<1> SUFFICES ASSUME NEW q \in Ranks PROVE Chain(q)' /\ Copy(q)'
  BY DEF Chains
<1> USE RandWsAssumption
<1>1. Chain(q) /\ Copy(q) /\ Chain(r) /\ Copy(r)
  BY DEF Chains
<1>2. queue[q] \in Seq(Threads)
  BY DEF TypeOK
<1>3. Chain(q)'
  <2>1. CASE q # r
    BY <1>1, <2>1 DEF Chain, Settled, Above
  <2>2. CASE q = r /\ queue[r] = <<>> /\ qlock[r] = NoRank
    BY <2>2 DEF Chain
  <2>3. CASE q = r /\ run'[r] = run[r] /\ pc[r] \in {"thread", "pop"} /\ pc'[r] \in {"thread", "pop"}
    BY <1>1, <2>3 DEF Chain, Settled, Above
  <2>. QED BY <2>1, <2>2, <2>3
<1>4. Copy(q)'
  <2>1. (pc[q] = "copy")' <=> pc[q] = "copy"
    OBVIOUS
  <2>2. (loot[q] # NoRank)' <=> (pc[q] = "copy")'
    BY <1>1, <2>1 DEF Copy
  <2>3. qlock'[q] # NoRank => loot'[qlock'[q]] = q
    BY <1>1 DEF Copy
  <2>4. ASSUME pc[q] = "copy"
        PROVE  run'[q] = run[q] /\ loot[q] \in Ranks /\ run'[loot[q]] = run[loot[q]]
    BY <1>1, <2>4 DEF Copy, TypeOK
  <2>. QED BY <1>1, <2>1, <2>2, <2>3, <2>4 DEF Copy
<1>. QED BY <1>3, <1>4

(* The chains stay when a thread outside of them is forgotten.             *)
LEMMA ChainsForget ==
    ASSUME TypeOK, Chains, UNCHANGED <<run, loot, queue, qlock>>,
           NEW c \in Threads, ~Running(c), ~Queued(c), Forget(c),
           NEW r \in Ranks,
           \A q \in Ranks \ {r} : pc'[q] = pc[q],
           pc[r] = "thread" \/ (queue[r] = <<>> /\ qlock[r] = NoRank),
           pc'[r] = "thread" /\ pc[r] # "copy"
    PROVE  Chains'
<1> SUFFICES ASSUME NEW q \in Ranks PROVE Chain(q)' /\ Copy(q)'
  BY DEF Chains
<1> USE RandWsAssumption
<1>1. Chain(q) /\ Copy(q)
  BY DEF Chains
<1>2. queue[q] \in Seq(Threads) /\ \A i \in 1..Len(queue[q]) : queue[q][i] \in Threads
  BY DEF TypeOK
<1>3. \A x \in Threads : Running(x) \/ Queued(x) => level'[x] = level[x] /\ parent'[x] = parent[x]
  BY DEF Forget, TypeOK
<1>4. \A p : \A i \in 1..Len(queue[q]) : queue[q][i] = p => Queued(p)
  BY DEF Queued
<1>5. \A o \in Ranks : Running(run[o])
  BY DEF Running
<1>6. \A x \in Threads : \A n : Settled(x, n) => Settled(x, n)'
  BY DEF Settled, Forget, TypeOK
<1>7. Chain(q)'
  <2>1. CASE queue[q] = <<>> /\ qlock[q] = NoRank
    BY <2>1 DEF Chain
  <2>2. CASE ~(queue[q] = <<>> /\ qlock[q] = NoRank)
    <3>1. pc[q] \in {"thread", "pop"} /\ pc'[q] \in {"thread", "pop"} /\ run[q] \in Threads
      <4>1. pc[q] \in {"thread", "pop"}
        BY <1>1, <2>2 DEF Chain
      <4>2. pc'[q] \in {"thread", "pop"}
        <5>1. CASE q = r
          BY <5>1
        <5>2. CASE q # r
          BY <4>1, <5>2
        <5>. QED BY <5>1, <5>2
      <4>3. run[q] \in Threads
        BY <4>1 DEF TypeOK, Idle
      <4>. QED BY <4>1, <4>2, <4>3
    <3>2. Settled(run[q], NoThread)'
      BY <1>1, <1>6, <2>2, <3>1 DEF Chain
    <3>3. ASSUME NEW i \in 1..Len(queue[q])
          PROVE  /\ parent'[Above(q, i)'] = queue[q][i]
                 /\ i > 1 \/ qlock[q] # NoRank => Settled(queue[q][i], Above(q, i))'
                 /\ level'[queue[q][i]] < level'[run[q]]
      <4>1. Above(q, i)' = Above(q, i) /\ Above(q, i) \in Threads
        BY <1>2, <3>1 DEF Above
      <4>2. Running(Above(q, i)) \/ Queued(Above(q, i))
        <5>1. CASE i = Len(queue[q])
          BY <1>5, <5>1 DEF Above
        <5>2. CASE i # Len(queue[q])
          <6>1. i + 1 \in 1..Len(queue[q])
            BY <1>2, <5>2
          <6>. QED BY <1>4, <5>2, <6>1 DEF Above
        <5>. QED BY <5>1, <5>2
      <4>3. i > 1 \/ qlock[q] # NoRank => Settled(queue[q][i], Above(q, i))'
        <5>1. PICK n \in Threads : n = Above(q, i)
          BY <4>1
        <5>2. PICK x \in Threads : x = queue[q][i]
          BY <1>2
        <5>3. i > 1 \/ qlock[q] # NoRank => Settled(x, n)'
          BY <1>1, <1>6, <5>1, <5>2 DEF Chain
        <5>. QED BY <4>1, <5>1, <5>2, <5>3 DEF Settled
      <4>. QED BY <1>1, <1>2, <1>3, <1>4, <1>5, <3>1, <4>1, <4>2, <4>3 DEF Chain
    <3>4. ASSUME NEW i \in 1..Len(queue[q]), NEW j \in 1..Len(queue[q]), i < j
          PROVE  level'[queue[q][i]] < level'[queue[q][j]]
      BY <1>1, <1>2, <1>3, <1>4, <3>4 DEF Chain
    <3>. QED BY <3>1, <3>2, <3>3, <3>4 DEF Chain
  <2>. QED BY <2>1, <2>2
<1>8. Copy(q)'
  <2>1. (pc[q] = "copy")' <=> pc[q] = "copy"
    OBVIOUS
  <2>2. qlock'[q] # NoRank => loot'[qlock'[q]] = q
    BY <1>1 DEF Copy
  <2>3. ASSUME pc[q] = "copy"
        PROVE  /\ level'[run[q]] < level'[run[loot[q]]]
               /\ \A i \in 1..Len(queue[loot[q]]) : level'[run[q]] < level'[queue[loot[q]][i]]
    <3>1. loot[q] \in Ranks /\ run[q] \in Threads /\ run[loot[q]] \in Threads
      <4>1. loot[q] \in Ranks /\ run[q] \in Threads
        BY <1>1, <2>3, RunFacts DEF Copy, TypeOK, Idle
      <4>. QED BY <1>1, <2>3, <4>1, RunFacts DEF Copy
    <3>2. \A i \in 1..Len(queue[loot[q]]) : queue[loot[q]][i] \in Threads /\ Queued(queue[loot[q]][i])
      BY SMTT(30), <3>1 DEF TypeOK, Queued
    <3>. QED BY <1>1, <1>3, <1>5, <2>3, <3>1, <3>2 DEF Copy
  <2>. QED BY <1>1, <2>1, <2>2, <2>3 DEF Copy
<1>. QED BY <1>7, <1>8

(* The races stay when a worker moves on outside of them.                  *)
LEMMA RacesFrame ==
    ASSUME TypeOK, Races,
           UNCHANGED <<run, handler, parent, joining, resume_flag, suspended, retval>>,
           NEW r \in Ranks,
           \A q \in Ranks \ {r} : pc'[q] = pc[q],
           {pc[r], pc'[r]} \cap {"check", "evac", "joinfaa", "retval", "resume", "get"} = {},
           evac \subseteq evac'
    PROVE  Races'
<1>1. \A t : Running(t)' <=> Running(t)
  BY DEF Running
<1>2. \A t : Passed(t)' <=> Passed(t)
  BY DEF Passed
<1>3. \A t : Flag(t)' = Flag(t)
  BY <1>2 DEF Flag
<1>4. ASSUME NEW c \in Threads, handler'[c] = "forked" PROVE Race(c)'
  <2>1. Race(c)
    BY <1>4 DEF Races
  <2>. QED BY <1>1, <1>2, <1>3, <2>1 DEF Race
<1>5. ASSUME NEW q \in Ranks, pc'[q] = "get"
      PROVE  (joining[parent[run[q]]] = run[q] /\ ~Running(parent[run[q]]))'
  BY <1>1, <1>5 DEF Races
<1>. QED BY <1>4, <1>5 DEF Races

(* Nothing is below the frames of a worker outside of fork() and pop().    *)
LEMMA Bare ==
    ASSUME IInv, NEW r \in Ranks, pc[r] \notin {"thread", "pop"}
    PROVE  queue[r] = <<>> /\ qlock[r] = NoRank
BY DEF IInv, Chains, Chain

(* Nothing is below the root thread.                                       *)
LEMMA RootAlone ==
    ASSUME IInv, NEW r \in Ranks, run[r] = root, root # NoThread
    PROVE  queue[r] = <<>> /\ qlock[r] = NoRank
<1> USE RandWsAssumption DEF IInv
<1>1. root \in Threads /\ parent[root] = NoThread /\ level[root] = 0
  BY DEF TypeOK, Family
<1>2. Chain(r) /\ queue[r] \in Seq(Threads)
  BY DEF Chains, TypeOK
<1>3. ASSUME queue[r] # <<>> PROVE FALSE
  <2>1. Len(queue[r]) \in 1..Len(queue[r]) /\ queue[r][Len(queue[r])] \in Threads
    BY <1>2, <1>3, EmptySeq
  <2>2. parent[run[r]] = queue[r][Len(queue[r])]
    BY <1>2, <2>1 DEF Chain, Above
  <2>. QED BY <1>1, <2>1, <2>2
<1>4. ASSUME qlock[r] # NoRank PROVE FALSE
  <2>1. PICK q \in Ranks : qlock[r] = q
    BY <1>4 DEF TypeOK
  <2>2. loot[q] = r /\ pc[q] = "copy" /\ Copy(q)
    BY <2>1, <1>4 DEF Chains, Copy
  <2>3. level[run[q]] < 0
    BY <1>1, <2>2 DEF Copy
  <2>4. level[run[q]] \in Nat
    BY <2>2, RunFacts DEF TypeOK, Idle
  <2>. QED BY <2>3, <2>4
<1>. QED BY <1>3, <1>4

(* What is known of the thread a worker works for.                         *)
LEMMA RunsThread ==
    ASSUME IInv, NEW r \in Ranks, pc[r] \notin Idle
    PROVE  run[r] \in Threads /\ Running(run[r]) /\ Started(run[r]) /\ Runs(r)
BY RunFacts DEF IInv, Running, Places, Runs

(* What is known of a forked thread.                                       *)
LEMMA ForkedThread ==
    ASSUME IInv, NEW c \in Threads, handler[c] = "forked"
    PROVE  /\ Race(c) /\ c # root
           /\ parent[c] \in Threads /\ parent[c] # c /\ Started(parent[c]) /\ ~retval[parent[c]]
BY DEF IInv, Family, TypeOK, Races

(* What is known of a thread that is about to resume its parent.           *)
LEMMA GetThread ==
    ASSUME IInv, NEW r \in Ranks, pc[r] = "get"
    PROVE  /\ run[r] \in Threads /\ handler[run[r]] = "forked" /\ parent[run[r]] \in Threads
           /\ joining[parent[run[r]]] = run[r] /\ ~Running(parent[run[r]])
<1>1. run[r] \in Threads /\ Started(run[r]) /\ Runs(r)
  BY RunsThread DEF Idle
<1>2. handler[run[r]] = "forked"
  BY <1>1 DEF Runs, Started
<1>. QED BY <1>1, <1>2, ForkedThread DEF IInv, Races

(* A thread is on the same side of its fetch-and-add.                      *)
LEMMA PassedKept ==
    ASSUME NEW x, retval'[x] = retval[x],
           \A q \in Ranks : run'[q] = x <=> run[q] = x,
           \A q \in Ranks : run[q] = x => (pc'[q] = "get" <=> pc[q] = "get")
    PROVE  Passed(x)' <=> Passed(x)
BY DEF Passed

(* The race for a child stays when nothing happens to either side.         *)
LEMMA RaceKept ==
    ASSUME NEW c \in Threads, Race(c), parent[c] \in Threads,
           parent'[c] = parent[c], joining'[parent[c]] = joining[parent[c]],
           suspended'[c] = suspended[c], resume_flag'[c] = resume_flag[c],
           retval[c] => retval'[c],
           Passed(c)' <=> Passed(c), Running(c)' <=> Running(c),
           Running(parent[c])' <=> Running(parent[c]),
           parent[c] \in evac => parent[c] \in evac',
           \A q \in Ranks : run'[q] = parent[c] => run[q] = parent[c] /\ pc'[q] = pc[q]
    PROVE  Race(c)'
<1>1. Flag(c)' = Flag(c)
  BY DEF Flag
<1>. QED BY <1>1 DEF Race

--------------------------------------------------------------------------------
(* Every action keeps the invariant.  A thread ends.                       *)
LEMMA ReturnIInv == ASSUME IInv, NEW r \in Ranks, Return(r) PROVE IInv'
<1> USE RandWsAssumption DEF IInv, Return, GoTo, queueVars, threadVars, stateVars, mailVars, budgetVars
<1>1. TypeOK'
  BY DEF TypeOK, Locations, Idle
<1>2. Family'
  BY DEF TypeOK, Family, Started
<1>3. Apart'
  BY DEF TypeOK, Apart
<1>4. Places'
  BY RunStays, QueueStays, MailStays, RunFacts
     DEF Places, Runs, TypeOK, Family, Started, Childless, Children, Idle
<1>5. Races'
  BY RacesFrame DEF TypeOK
<1>6. Chains'
  <2>1. CASE run[r] = root
    <3>1. queue[r] = <<>> /\ qlock[r] = NoRank
      BY <2>1, RootAlone, RunFacts DEF Idle
    <3>. QED BY <3>1, ChainsFrame DEF TypeOK
  <2>2. CASE run[r] # root
    BY <2>2, ChainsFrame DEF TypeOK
  <2>. QED BY <2>1, <2>2
<1>7. Exit'
  BY DEF Exit, Out, TypeOK, Tree
<1>. QED BY <1>1, <1>2, <1>3, <1>4, <1>5, <1>6, <1>7

(* pop() finds nothing under the lock.                                     *)
LEMMA PopEmptyIInv ==
    ASSUME IInv, NEW r \in Ranks, PopEmpty(r) PROVE IInv'
<1> USE RandWsAssumption DEF IInv, PopEmpty, GoTo,
               queueVars, threadVars, stateVars, mailVars, budgetVars
<1>1. TypeOK'
  BY DEF TypeOK, Locations, Idle
<1>2. Family'
  BY DEF TypeOK, Family, Started
<1>3. Apart'
  BY DEF TypeOK, Apart
<1>4. Places'
  BY RunStays, QueueStays, MailStays, RunFacts
     DEF Places, Runs, TypeOK, Family, Started, Childless, Idle
<1>5. Races'
  BY RacesFrame DEF TypeOK
<1>6. Chains'
  BY ChainsFrame DEF TypeOK
<1>7. Exit'
  BY DEF Exit, Out, TypeOK, Tree
<1>. QED BY <1>1, <1>2, <1>3, <1>4, <1>5, <1>6, <1>7

(* The thread that ended puts its result.                                  *)
LEMMA put_retval_remoteIInv ==
    ASSUME IInv, NEW r \in Ranks, put_retval_remote(r) PROVE IInv'
<1> USE RandWsAssumption DEF IInv, put_retval_remote, GoTo,
               queueVars, threadVars, stateVars, mailVars, budgetVars
<1>1. TypeOK'
  BY DEF TypeOK, Locations, Idle
<1>2. Family'
  BY RunFacts DEF TypeOK, Family, Started, Places, Runs, Childless, Idle
<1>3. Apart'
  BY DEF TypeOK, Apart
<1>4. Places'
  <2>1. run[r] \in Threads /\ Running(run[r])
    BY RunFacts DEF Running, Idle
  <2>2. ASSUME NEW q \in Ranks PROVE Runs(q)'
    <3>1. Runs(q)
      BY DEF Places
    <3>2. CASE q = r
      BY <3>1, <3>2, <2>1 DEF Runs, TypeOK, Started, Childless, Idle, Family
    <3>3. CASE q # r
      <4>1. run'[q] = run[q] /\ pc'[q] = pc[q] /\ (run[q] # NoThread => run[q] # run[r])
        BY <3>3, <2>1 DEF Apart, TypeOK
      <4>. QED BY <3>1, <4>1, RunFacts DEF Runs, TypeOK, Started, Childless, Idle, Family
    <3>. QED BY <3>2, <3>3
  <2>3. ASSUME NEW t \in Threads, Queued(t)'
        PROVE  (Started(t) /\ ~Running(t) /\ t \notin evac /\ joining[t] = NoThread /\ ~retval[t])'
    BY <2>1, <2>3, RunStays, QueueStays DEF Places, TypeOK, Started
  <2>4. ASSUME NEW t \in Threads, Moving(t)'
        PROVE  (t = root /\ t \in evac /\ joining[t] = NoThread /\ ~Running(t))'
    BY <2>1, <2>4, RunStays, MailStays DEF Places, TypeOK, Started
  <2>5. ASSUME NEW t \in Threads, (Started(t) /\ ~retval[t])'
        PROVE  (Running(t) \/ Queued(t) \/ Moving(t) \/ (t \in evac /\ joining[t] # NoThread))'
    BY <2>1, <2>5, RunStays, QueueStays, MailStays DEF Places, TypeOK, Started, Runs, Idle
  <2>. QED BY <2>2, <2>3, <2>4, <2>5 DEF Places
<1>5. Races'
  <2>1. \A t \in Threads : Passed(t)' <=> Passed(t)
    BY RunFacts DEF Passed, TypeOK, Places, Runs, Idle
  <2>2. \A t \in Threads : Flag(t)' = Flag(t)
    BY <2>1 DEF Flag
  <2>3. ASSUME NEW c \in Threads, handler'[c] = "forked" PROVE Race(c)'
    <3>1. Race(c) /\ parent[c] \in Threads
      BY <2>3 DEF Races, Family
    <3>. QED BY <2>1, <2>2, <3>1, RunStays DEF Race, TypeOK
  <2>4. ASSUME NEW q \in Ranks, pc'[q] = "get"
        PROVE  (joining[parent[run[q]]] = run[q] /\ ~Running(parent[run[q]]))'
    <3>1. q # r /\ pc[q] = "get" /\ run[q] \in Threads /\ parent[run[q]] \in Threads
      BY <2>4, RunFacts DEF TypeOK, Idle, Places, Runs, Family, Started
    <3>. QED BY <3>1, RunStays DEF Races
  <2>. QED BY <2>3, <2>4 DEF Races
<1>6. Chains'
  BY Bare, ChainsFrame DEF TypeOK
<1>7. Exit'
  BY DEF Exit, Out, TypeOK, Tree
<1>. QED BY <1>1, <1>2, <1>3, <1>4, <1>5, <1>6, <1>7

(* The thread that ended is first in the race.                             *)
LEMMA DieFirstIInv ==
    ASSUME IInv, NEW r \in Ranks, DieRace(r), resume_flag[run[r]] = 0
    PROVE  IInv'
<1> USE RandWsAssumption DEF IInv, queueVars, threadVars, stateVars, mailVars,
            budgetVars
<1>t. PICK t \in Threads : run[r] = t
  BY RunsThread DEF DieRace, Idle
<1>0. /\ pc[r] = "diefaa" /\ pc' = [pc EXCEPT ![r] = "sched"]
      /\ run' = [run EXCEPT ![r] = NoThread]
      /\ resume_flag' = [resume_flag EXCEPT ![t] = 1]
      /\ UNCHANGED <<loot, queueVars, threadVars, ts, suspended, retval, evac, joining,
                     mailVars, master, root, budgetVars>>
  BY <1>t DEF DieRace, resume_sched, Enter, GoTo
<1> USE <1>t, <1>0
<1>a. t \in Threads /\ Running(t) /\ Started(t) /\ Runs(r)
  BY RunsThread DEF Idle
<1>b. retval[t] /\ handler[t] = "forked"
  BY <1>a DEF Runs, Started
<1>c. \A x \in Threads : Running(x)' <=> (Running(x) /\ x # t)
  BY RunMove
<1>d. \A q \in Ranks : q # r => run[q] # t
  BY <1>a DEF Apart
<1>1. TypeOK'
  BY <1>a DEF TypeOK, Locations, Idle
<1>2. Family'
  BY DEF TypeOK, Family, Started
<1>3. Apart'
  BY DEF TypeOK, Apart
<1>4. Places'
  <2>1. run[r] \in Threads /\ Running(run[r])
    BY RunFacts DEF Running, Idle
  <2>2. ASSUME NEW q \in Ranks PROVE Runs(q)'
    <3>1. Runs(q)
      BY DEF Places
    <3>2. CASE q = r
      BY <3>1, <3>2, <2>1 DEF Runs, TypeOK, Started, Childless, Idle, Family
    <3>3. CASE q # r
      <4>1. run'[q] = run[q] /\ pc'[q] = pc[q] /\ (run[q] # NoThread => run[q] # run[r])
        BY <3>3, <2>1 DEF Apart, TypeOK
      <4>. QED BY <3>1, <4>1, RunFacts DEF Runs, TypeOK, Started, Childless, Idle, Family
    <3>. QED BY <3>2, <3>3
  <2>3. ASSUME NEW x \in Threads, Queued(x)'
        PROVE  (Started(x) /\ ~Running(x) /\ x \notin evac /\ joining[x] = NoThread /\ ~retval[x])'
    BY <2>1, <2>3, <1>c, QueueStays DEF Places, TypeOK, Started
  <2>4. ASSUME NEW x \in Threads, Moving(x)'
        PROVE  (x = root /\ x \in evac /\ joining[x] = NoThread /\ ~Running(x))'
    BY <2>1, <2>4, <1>c, MailStays DEF Places, TypeOK, Started
  <2>5. ASSUME NEW x \in Threads, (Started(x) /\ ~retval[x])'
        PROVE  (Running(x) \/ Queued(x) \/ Moving(x) \/ (x \in evac /\ joining[x] # NoThread))'
    BY <2>1, <2>5, <1>c, QueueStays, MailStays DEF Places, TypeOK, Started, Runs, Idle
  <2>. QED BY <2>2, <2>3, <2>4, <2>5 DEF Places
<1>5. Races'
  <2>1. \A x \in Threads : Passed(x)' <=> (x = t \/ Passed(x))
    BY <1>a, <1>b, <1>d DEF Passed, TypeOK
  <2>2. ~Passed(t) /\ Flag(t) = 0
    BY <1>a DEF Flag, Passed
  <2>3. Passed(t)' /\ Flag(t)' = 1
    BY <1>a, <2>1 DEF Flag
  <2>8. ASSUME NEW c \in Threads, handler'[c] = "forked" PROVE Race(c)'
    <3>1. Race(c) /\ parent[c] \in Threads /\ parent[c] # c /\ parent[c] # t
      BY <1>b, <2>8, ForkedThread
    <3>2. CASE c = t
      BY <1>a, <1>c, <2>2, <2>3, <3>1, <3>2 DEF Race, TypeOK
    <3>3. CASE c # t
      BY <1>a, <1>c, <2>1, <3>1, <3>3, RaceKept DEF TypeOK
    <3>. QED BY <3>2, <3>3
  <2>9. ASSUME NEW q \in Ranks, pc'[q] = "get"
        PROVE  (joining[parent[run[q]]] = run[q] /\ ~Running(parent[run[q]]))'
    <3>1. pc[q] = "get" /\ q # r
      BY <2>9 DEF TypeOK
    <3>. QED BY <1>c, <3>1, GetThread DEF TypeOK
  <2>. QED BY <2>8, <2>9 DEF Races
<1>6. Chains'
  BY Bare, ChainsFrame DEF TypeOK
<1>7. Exit'
  BY DEF Exit, Out, TypeOK, Tree
<1>. QED BY <1>1, <1>2, <1>3, <1>4, <1>5, <1>6, <1>7

(* The thread that ended is second and goes on with its parent.            *)
LEMMA DieSecondIInv ==
    ASSUME IInv, NEW r \in Ranks, DieRace(r), resume_flag[run[r]] # 0
    PROVE  IInv'
<1> USE RandWsAssumption DEF IInv, queueVars, threadVars, stateVars, mailVars,
            budgetVars
<1>t. PICK t \in Threads : run[r] = t
  BY RunsThread DEF DieRace, Idle
<1>0. /\ pc[r] = "diefaa" /\ pc' = [pc EXCEPT ![r] = "get"]
      /\ run' = [run EXCEPT ![r] = t]
      /\ resume_flag' = [resume_flag EXCEPT ![t] = @ + 1]
      /\ UNCHANGED <<loot, queueVars, threadVars, ts, suspended, retval, evac, joining,
                     mailVars, master, root, budgetVars>>
  BY <1>t DEF DieRace, Enter, GoTo
<1> USE <1>t, <1>0
<1>a. t \in Threads /\ Running(t) /\ Started(t) /\ Runs(r)
  BY RunsThread DEF Idle
<1>b. retval[t] /\ handler[t] = "forked"
  BY <1>a DEF Runs, Started
<1>c. run' = run
  BY DEF TypeOK
<1>d. \A x \in Threads : Running(x)' <=> Running(x)
  BY <1>c, RunStays
<1>e. \A q \in Ranks : q # r => run[q] # t
  BY <1>a DEF Apart
<1>f. ~Passed(t) /\ Flag(t) = 0 /\ resume_flag[t] \in 0..2
  BY <1>a DEF Flag, Passed, TypeOK
<1>g. Race(t) /\ parent[t] \in Threads /\ parent[t] # t
  BY <1>a, <1>b, ForkedThread
<1>h. joining[parent[t]] = t /\ ~Running(parent[t]) /\ resume_flag[t] = 1
  <2>1. joining[parent[t]] = t
    BY <1>f, <1>g DEF Race
  <2>2. ASSUME NEW q \in Ranks, run[q] = parent[t] PROVE FALSE
    <3>1. Runs(q) /\ pc[q] \in Locations /\ pc[q] \notin Idle
      BY <1>g, <2>2, RunFacts DEF Places, TypeOK
    <3>2. pc[q] \in {"check", "evac", "joinfaa", "retval", "resume"}
      BY <1>a, <1>b, <1>g, <2>1, <2>2, <3>1, ForkedThread DEF Runs, Locations
    <3>. QED BY <1>a, <1>f, <1>g, <2>1, <2>2, <3>2 DEF Race
  <2>3. ~Running(parent[t])
    BY <2>2 DEF Running
  <2>. QED BY <1>f, <1>g, <2>1, <2>3 DEF Race
<1>1. TypeOK'
  BY <1>a, <1>h DEF TypeOK, Locations, Idle
<1>2. Family'
  BY DEF TypeOK, Family, Started
<1>3. Apart'
  BY DEF TypeOK, Apart
<1>4. Places'
  <2>1. run[r] \in Threads /\ Running(run[r])
    BY RunFacts DEF Running, Idle
  <2>2. ASSUME NEW q \in Ranks PROVE Runs(q)'
    <3>1. Runs(q)
      BY DEF Places
    <3>2. CASE q = r
      BY <3>1, <3>2, <2>1 DEF Runs, TypeOK, Started, Childless, Idle, Family
    <3>3. CASE q # r
      <4>1. run'[q] = run[q] /\ pc'[q] = pc[q] /\ (run[q] # NoThread => run[q] # run[r])
        BY <3>3, <2>1 DEF Apart, TypeOK
      <4>. QED BY <3>1, <4>1, RunFacts DEF Runs, TypeOK, Started, Childless, Idle, Family
    <3>. QED BY <3>2, <3>3
  <2>3. ASSUME NEW x \in Threads, Queued(x)'
        PROVE  (Started(x) /\ ~Running(x) /\ x \notin evac /\ joining[x] = NoThread /\ ~retval[x])'
    BY <2>1, <2>3, <1>d, QueueStays DEF Places, TypeOK, Started
  <2>4. ASSUME NEW x \in Threads, Moving(x)'
        PROVE  (x = root /\ x \in evac /\ joining[x] = NoThread /\ ~Running(x))'
    BY <2>1, <2>4, <1>d, MailStays DEF Places, TypeOK, Started
  <2>5. ASSUME NEW x \in Threads, (Started(x) /\ ~retval[x])'
        PROVE  (Running(x) \/ Queued(x) \/ Moving(x) \/ (x \in evac /\ joining[x] # NoThread))'
    BY <2>1, <2>5, <1>d, QueueStays, MailStays DEF Places, TypeOK, Started, Runs, Idle
  <2>. QED BY <2>2, <2>3, <2>4, <2>5 DEF Places
<1>5. Races'
  <2>1. \A x \in Threads : Passed(x)' <=> (x = t \/ Passed(x))
    <3>1. Passed(t)'
      BY <1>a, <1>b, <1>c, <1>e DEF Passed, TypeOK
    <3>2. ASSUME NEW x \in Threads \ {t} PROVE Passed(x)' <=> Passed(x)
      <4>1. \A q \in Ranks : run[q] = x => pc'[q] = pc[q]
        BY DEF TypeOK
      <4>. QED BY <1>c, <4>1, PassedKept
    <3>. QED BY <3>1, <3>2
  <2>2. Flag(t)' = 1
    BY <1>a, <2>1 DEF Flag
  <2>8. ASSUME NEW c \in Threads, handler'[c] = "forked" PROVE Race(c)'
    <3>1. Race(c) /\ parent[c] \in Threads /\ parent[c] # c /\ parent[c] # t
      BY <1>b, <2>8, ForkedThread
    <3>2. CASE c = t
      BY <1>a, <1>c, <1>d, <1>f, <1>h, <2>2, <3>1, <3>2 DEF Race, TypeOK, Running
    <3>3. CASE c # t
      BY <1>a, <1>c, <1>d, <2>1, <3>1, <3>3, RaceKept DEF TypeOK
    <3>. QED BY <3>2, <3>3
  <2>9. ASSUME NEW q \in Ranks, pc'[q] = "get"
        PROVE  (joining[parent[run[q]]] = run[q] /\ ~Running(parent[run[q]]))'
    <3>1. CASE q = r
      BY <1>c, <1>d, <1>g, <1>h, <3>1 DEF TypeOK
    <3>2. CASE q # r
      BY <1>c, <1>d, <2>9, <3>2, GetThread DEF TypeOK
    <3>. QED BY <3>1, <3>2
  <2>. QED BY <2>8, <2>9 DEF Races
<1>6. Chains'
  BY Bare, ChainsFrame DEF TypeOK
<1>7. Exit'
  BY DEF Exit, Out, TypeOK, Tree
<1>. QED BY <1>1, <1>2, <1>3, <1>4, <1>5, <1>6, <1>7

(* It takes the suspended parent from the thread_state.                    *)
LEMMA DieGetSuspendedIInv ==
    ASSUME IInv, NEW r \in Ranks, DieGetSuspended(r)
    PROVE  IInv'
<1> USE RandWsAssumption DEF IInv, queueVars, threadVars, stateVars, mailVars,
            budgetVars
<1>t. PICK t \in Threads : run[r] = t
  BY RunsThread DEF DieGetSuspended, Idle
<1> USE <1>t
<1>a. pc[r] = "get" /\ Running(t) /\ Started(t) /\ Runs(r)
  BY RunsThread DEF DieGetSuspended, Idle
<1>b. retval[t] /\ handler[t] = "forked" /\ Race(t)
  BY <1>a, ForkedThread DEF Runs, Started
<1>p. PICK p \in Threads : /\ parent[t] = p /\ p # t /\ joining[p] = t /\ ~Running(p)
                          /\ p \in evac /\ suspended[t] = p /\ Started(p) /\ ~retval[p]
  BY <1>a, <1>b, GetThread, ForkedThread DEF Race
<1> USE <1>p
<1>0. /\ pc[r] = "get" /\ pc' = [pc EXCEPT ![r] = "resume"] /\ run' = [run EXCEPT ![r] = p]
      /\ UNCHANGED <<loot, queueVars, threadVars, stateVars, evac, joining,
                     mailVars, master, root, budgetVars>>
  BY <1>a DEF DieGetSuspended, Enter, GoTo
<1> USE <1>0
<1>c. \A x \in Threads : Running(x)' <=> (x = p \/ (Running(x) /\ x # t))
  BY RunMove
<1>d. \A q \in Ranks : q # r => run[q] # t
  BY <1>a DEF Apart, TypeOK
<1>e. \A q \in Ranks : run[q] # p
  BY DEF Running
<1>f. \A x \in Threads : joining[x] = t => x = p
  BY DEF Family
<1>1. TypeOK'
  BY <1>a DEF TypeOK, Locations, Idle
<1>2. Family'
  BY DEF TypeOK, Family, Started
<1>3. Apart'
  BY <1>e DEF TypeOK, Apart
<1>4. Places'
  <2>1. t \in Threads /\ Running(t)
    BY <1>a
  <2>2. ASSUME NEW q \in Ranks PROVE Runs(q)'
    <3>1. Runs(q)
      BY DEF Places
    <3>2. CASE q = r
      BY <3>1, <3>2, <2>1 DEF Runs, TypeOK, Started, Childless, Idle, Family
    <3>3. CASE q # r
      <4>1. run'[q] = run[q] /\ pc'[q] = pc[q] /\ (run[q] # NoThread => run[q] # t)
        BY <3>3, <2>1 DEF Apart, TypeOK
      <4>. QED BY <3>1, <4>1, RunFacts DEF Runs, TypeOK, Started, Childless, Idle, Family
    <3>. QED BY <3>2, <3>3
  <2>3. ASSUME NEW x \in Threads, Queued(x)'
        PROVE  (Started(x) /\ ~Running(x) /\ x \notin evac /\ joining[x] = NoThread /\ ~retval[x])'
    BY <2>1, <2>3, <1>c, QueueStays DEF Places, TypeOK, Started
  <2>4. ASSUME NEW x \in Threads, Moving(x)'
        PROVE  (x = root /\ x \in evac /\ joining[x] = NoThread /\ ~Running(x))'
    BY <2>1, <2>4, <1>c, MailStays DEF Places, TypeOK, Started
  <2>5. ASSUME NEW x \in Threads, (Started(x) /\ ~retval[x])'
        PROVE  (Running(x) \/ Queued(x) \/ Moving(x) \/ (x \in evac /\ joining[x] # NoThread))'
    BY <1>b, <2>1, <2>5, <1>c, QueueStays, MailStays DEF Places, TypeOK, Started, Runs, Idle
  <2>. QED BY <2>2, <2>3, <2>4, <2>5 DEF Places
<1>5. Races'
  <2>1. ASSUME NEW x \in Threads, x # t, x # p PROVE Passed(x)' <=> Passed(x)
    <3>1. \A q \in Ranks : (run'[q] = x <=> run[q] = x) /\ (run[q] = x => pc'[q] = pc[q])
      BY <2>1 DEF TypeOK
    <3>. QED BY <3>1, PassedKept
  <2>2. ~Passed(p) /\ ~Passed(p)' /\ Flag(p)' = Flag(p)
    BY DEF Passed, Flag
  <2>8. ASSUME NEW c \in Threads, handler'[c] = "forked" PROVE Race(c)'
    <3>1. Race(c) /\ parent[c] \in Threads /\ parent[c] # c /\ parent[c] # t
      BY <1>b, <2>8, ForkedThread
    <3>2. CASE c = t
      BY <1>a, <1>b, <1>c, <1>d, <1>e, <3>1, <3>2 DEF Race, TypeOK
    <3>3. CASE c = p
      BY <1>c, <2>2, <3>1, <3>3, RaceKept DEF Race, TypeOK
    <3>4. CASE parent[c] = p /\ c # t
      <4>1. Flag(c)' = Flag(c)
        BY <2>1, <3>1, <3>4 DEF Flag
      <4>. QED BY <3>1, <3>4, <4>1 DEF Race
    <3>5. CASE c # t /\ c # p /\ parent[c] # p
      BY <1>c, <2>1, <3>1, <3>5, RaceKept DEF TypeOK
    <3>. QED BY <3>2, <3>3, <3>4, <3>5
  <2>9. ASSUME NEW q \in Ranks, pc'[q] = "get"
        PROVE  (joining[parent[run[q]]] = run[q] /\ ~Running(parent[run[q]]))'
    <3>1. pc[q] = "get" /\ q # r
      BY <2>9 DEF TypeOK
    <3>. QED BY <1>c, <1>d, <3>1, GetThread DEF TypeOK
  <2>. QED BY <2>8, <2>9 DEF Races
<1>6. Chains'
  BY Bare, ChainsFrame DEF TypeOK
<1>7. Exit'
  BY DEF Exit, Out, TypeOK, Tree
<1>. QED BY <1>1, <1>2, <1>3, <1>4, <1>5, <1>6, <1>7

(* resume() fetches the frames of a suspended thread.                      *)
LEMMA ResumeSuspendedIInv ==
    ASSUME IInv, NEW r \in Ranks, ResumeSuspended(r)
    PROVE  IInv'
<1> USE RandWsAssumption DEF IInv, queueVars, threadVars, stateVars, mailVars,
            budgetVars
<1>t. PICK t \in Threads : run[r] = t
  BY RunsThread DEF ResumeSuspended, Idle
<1> USE <1>t
<1>a. pc[r] = "resume" /\ Running(t) /\ Started(t) /\ Runs(r) /\ t \in evac /\ ~retval[t]
  BY RunsThread DEF ResumeSuspended, Idle, Runs, Family
<1>0. /\ pc[r] = "resume" /\ pc' = [pc EXCEPT ![r] = IF joining[t] # NoThread THEN "retval" ELSE "thread"]
      /\ evac' = evac \ {t}
      /\ UNCHANGED <<run, loot, queueVars, threadVars, stateVars, joining,
                     mailVars, master, root, budgetVars>>
  BY DEF ResumeSuspended, GoTo
<1> USE <1>0
<1>c. \A x \in Threads : Running(x)' <=> Running(x)
  BY RunStays
<1>1. TypeOK'
  BY <1>a DEF TypeOK, Locations, Idle
<1>2. Family'
  BY DEF TypeOK, Family, Started
<1>3. Apart'
  BY DEF TypeOK, Apart
<1>4. Places'
  <2>1. t \in Threads /\ Running(t)
    BY <1>a
  <2>2. ASSUME NEW q \in Ranks PROVE Runs(q)'
    <3>1. Runs(q)
      BY DEF Places
    <3>2. CASE q = r
      BY <3>1, <3>2, <2>1, <1>a DEF Runs, TypeOK, Started, Childless, Idle, Family
    <3>3. CASE q # r
      <4>1. run'[q] = run[q] /\ pc'[q] = pc[q] /\ (run[q] # NoThread => run[q] # t)
        BY <3>3, <2>1 DEF Apart, TypeOK
      <4>. QED BY <3>1, <4>1, RunFacts DEF Runs, TypeOK, Started, Childless, Idle, Family
    <3>. QED BY <3>2, <3>3
  <2>3. ASSUME NEW x \in Threads, Queued(x)'
        PROVE  (Started(x) /\ ~Running(x) /\ x \notin evac /\ joining[x] = NoThread /\ ~retval[x])'
    BY <2>1, <2>3, <1>c, QueueStays DEF Places, TypeOK, Started
  <2>4. ASSUME NEW x \in Threads, Moving(x)'
        PROVE  (x = root /\ x \in evac /\ joining[x] = NoThread /\ ~Running(x))'
    BY <2>1, <2>4, <1>c, MailStays DEF Places, TypeOK, Started
  <2>5. ASSUME NEW x \in Threads, (Started(x) /\ ~retval[x])'
        PROVE  (Running(x) \/ Queued(x) \/ Moving(x) \/ (x \in evac /\ joining[x] # NoThread))'
    BY <2>1, <2>5, <1>c, QueueStays, MailStays DEF Places, TypeOK, Started, Runs, Idle
  <2>. QED BY <2>2, <2>3, <2>4, <2>5 DEF Places
<1>5. Races'
  <2>1. ASSUME NEW x \in Threads PROVE Passed(x)' <=> Passed(x)
    <3>1. \A q \in Ranks : (run'[q] = x <=> run[q] = x) /\ (pc'[q] = "get" <=> pc[q] = "get")
      BY <1>a DEF TypeOK
    <3>. QED BY <3>1, PassedKept
  <2>8. ASSUME NEW c \in Threads, handler'[c] = "forked" PROVE Race(c)'
    <3>1. Race(c) /\ parent[c] \in Threads
      BY <2>8, ForkedThread
    <3>2. CASE parent[c] = t
      <4>1. Flag(c)' = Flag(c)
        BY <2>1 DEF Flag
      <4>2. \A q \in Ranks : run[q] = t => q = r
        BY <1>a DEF Apart, TypeOK
      <4>. QED BY <1>a, <1>c, <3>1, <3>2, <4>1, <4>2 DEF Race, TypeOK
    <3>3. CASE parent[c] # t
      BY <1>c, <2>1, <3>1, <3>3, RaceKept DEF TypeOK
    <3>. QED BY <3>2, <3>3
  <2>9. ASSUME NEW q \in Ranks, pc'[q] = "get"
        PROVE  (joining[parent[run[q]]] = run[q] /\ ~Running(parent[run[q]]))'
    <3>1. pc[q] = "get" /\ q # r
      BY <2>9 DEF TypeOK
    <3>. QED BY <1>c, <3>1, GetThread DEF TypeOK
  <2>. QED BY <2>8, <2>9 DEF Races
<1>6. Chains'
  BY Bare, ChainsFrame DEF TypeOK
<1>7. Exit'
  BY DEF Exit, Out, TypeOK, Tree
<1>. QED BY <1>1, <1>2, <1>3, <1>4, <1>5, <1>6, <1>7

(* join() is called for a child that was not serialized.                   *)
LEMMA JoinCallIInv ==
    ASSUME IInv, NEW r \in Ranks, NEW c \in Threads, JoinCall(r, c)
    PROVE  IInv'
<1> USE RandWsAssumption DEF IInv, queueVars, threadVars, stateVars, mailVars,
            budgetVars
<1>t. PICK t \in Threads : run[r] = t
  BY RunsThread DEF JoinCall, Idle
<1> USE <1>t
<1>a. pc[r] = "thread" /\ Running(t) /\ Started(t) /\ Runs(r)
  BY RunsThread DEF JoinCall, Idle
<1>b. handler[c] = "forked" /\ parent[c] = t /\ Race(c) /\ joining[t] = NoThread /\ c # NoThread
  BY <1>a, ForkedThread DEF JoinCall, Children, Runs
<1>0. /\ pc[r] = "thread"
      /\ pc' = [pc EXCEPT ![r] = "check"] /\ joining' = [joining EXCEPT ![t] = c]
      /\ UNCHANGED <<run, loot, queueVars, threadVars, stateVars, evac,
                     mailVars, master, root, budgetVars>>
  BY <1>a DEF JoinCall, GoTo
<1> USE <1>0
<1>d. \A q \in Ranks : q # r => run[q] # t
  BY <1>a DEF Apart, TypeOK
<1>c. \A x \in Threads : Running(x)' <=> Running(x)
  BY RunStays
<1>e. queue[r] = <<>> /\ qlock[r] = NoRank
  BY <1>b DEF Chains, Chain, Settled
<1>1. TypeOK'
  BY <1>a DEF TypeOK, Locations, Idle
<1>2. Family'
  BY <1>a, <1>b DEF TypeOK, Family, Started
<1>3. Apart'
  BY DEF TypeOK, Apart
<1>4. Places'
  <2>1. t \in Threads /\ Running(t)
    BY <1>a
  <2>2. ASSUME NEW q \in Ranks PROVE Runs(q)'
    <3>1. Runs(q)
      BY DEF Places
    <3>2. CASE q = r
      BY <3>1, <3>2, <2>1, <1>a, <1>b DEF Runs, TypeOK, Started, Childless, Idle, Family
    <3>3. CASE q # r
      <4>1. run'[q] = run[q] /\ pc'[q] = pc[q] /\ (run[q] # NoThread => run[q] # t)
        BY <3>3, <2>1 DEF Apart, TypeOK
      <4>. QED BY <3>1, <4>1, RunFacts DEF Runs, TypeOK, Started, Childless, Idle, Family
    <3>. QED BY <3>2, <3>3
  <2>3. ASSUME NEW x \in Threads, Queued(x)'
        PROVE  (Started(x) /\ ~Running(x) /\ x \notin evac /\ joining[x] = NoThread /\ ~retval[x])'
    BY <1>b, <2>1, <2>3, <1>c, QueueStays DEF Places, TypeOK, Started
  <2>4. ASSUME NEW x \in Threads, Moving(x)'
        PROVE  (x = root /\ x \in evac /\ joining[x] = NoThread /\ ~Running(x))'
    BY <1>b, <2>1, <2>4, <1>c, MailStays DEF Places, TypeOK, Started
  <2>5. ASSUME NEW x \in Threads, (Started(x) /\ ~retval[x])'
        PROVE  (Running(x) \/ Queued(x) \/ Moving(x) \/ (x \in evac /\ joining[x] # NoThread))'
    BY <2>1, <2>5, <1>c, QueueStays, MailStays DEF Places, TypeOK, Started, Runs, Idle
  <2>. QED BY <2>2, <2>3, <2>4, <2>5 DEF Places
<1>5. Races'
  <2>1. ASSUME NEW x \in Threads PROVE Passed(x)' <=> Passed(x)
    <3>1. \A q \in Ranks : (run'[q] = x <=> run[q] = x) /\ (pc'[q] = "get" <=> pc[q] = "get")
      BY DEF TypeOK
    <3>. QED BY <3>1, PassedKept
  <2>2. \A x \in Threads : Flag(x)' = Flag(x)
    BY <2>1 DEF Flag
  <2>8. ASSUME NEW x \in Threads, handler'[x] = "forked" PROVE Race(x)'
    <3>1. Race(x) /\ parent[x] \in Threads
      BY <2>8, ForkedThread
    <3>2. CASE x = c
      BY <1>a, <1>b, <1>c, <1>d, <2>2, <3>1, <3>2 DEF Race, TypeOK
    <3>3. CASE x # c /\ parent[x] = t
      BY <1>b, <2>2, <3>1, <3>3 DEF Race, TypeOK
    <3>4. CASE parent[x] # t
      BY <1>c, <2>1, <3>1, <3>4, RaceKept DEF TypeOK
    <3>. QED BY <1>b, <3>2, <3>3, <3>4
  <2>9. ASSUME NEW q \in Ranks, pc'[q] = "get"
        PROVE  (joining[parent[run[q]]] = run[q] /\ ~Running(parent[run[q]]))'
    <3>1. pc[q] = "get" /\ q # r
      BY <2>9 DEF TypeOK
    <3>2. parent[run[q]] # t
      BY <1>a, <3>1, GetThread
    <3>. QED BY <1>c, <3>1, <3>2, GetThread DEF TypeOK
  <2>. QED BY <2>8, <2>9 DEF Races
<1>6. Chains'
  BY <1>e, ChainsFrame DEF TypeOK
<1>7. Exit'
  BY DEF Exit, Out, TypeOK, Tree
<1>. QED BY <1>1, <1>2, <1>3, <1>4, <1>5, <1>6, <1>7

(* join() looks whether the child has ended.                               *)
LEMMA JoinCheckIInv ==
    ASSUME IInv, NEW r \in Ranks, JoinCheck(r)
    PROVE  IInv'
<1> USE RandWsAssumption DEF IInv, queueVars, threadVars, stateVars, mailVars,
            budgetVars
<1>t. PICK t \in Threads : run[r] = t
  BY RunsThread DEF JoinCheck, Idle
<1> USE <1>t
<1>a. pc[r] = "check" /\ Running(t) /\ Started(t) /\ Runs(r)
  BY RunsThread DEF JoinCheck, Idle
<1>c1. PICK c \in Threads : /\ joining[t] = c /\ handler[c] = "forked" /\ parent[c] = t
                           /\ Race(c) /\ c # t
  <2>1. joining[t] # NoThread
    BY <1>a DEF Runs
  <2>2. joining[t] \in Threads /\ handler[joining[t]] = "forked" /\ parent[joining[t]] = t
    BY <2>1 DEF Family, TypeOK
  <2>. QED BY <2>2, ForkedThread
<1> USE <1>c1
<1>0. /\ pc[r] = "check"
      /\ pc' = [pc EXCEPT ![r] = IF resume_flag[c] >= 1 THEN "retval" ELSE "evac"]
      /\ UNCHANGED <<run, loot, queueVars, threadVars, stateVars, evac, joining,
                     mailVars, master, root, budgetVars>>
  BY <1>a DEF JoinCheck, GoTo
<1> USE <1>0
<1>d. \A q \in Ranks : q # r => run[q] # t
  BY <1>a DEF Apart, TypeOK
<1>c. \A x \in Threads : Running(x)' <=> Running(x)
  BY RunStays
<1>e. resume_flag[c] >= 1 => retval[c] /\ ~Running(c)
  <2>1. resume_flag[c] = Flag(c)
    BY <1>a DEF Race
  <2>2. resume_flag[c] >= 1 => Passed(c)
    BY <2>1 DEF Flag
  <2>3. ASSUME NEW q \in Ranks, run[q] = c PROVE pc[q] # "get"
    BY <1>a, <2>3, GetThread
  <2>. QED BY <2>2, <2>3 DEF Passed, Running
<1>1. TypeOK'
  BY <1>a DEF TypeOK, Locations, Idle
<1>2. Family'
  BY DEF TypeOK, Family, Started
<1>3. Apart'
  BY DEF TypeOK, Apart
<1>4. Places'
  <2>1. t \in Threads /\ Running(t)
    BY <1>a
  <2>2. ASSUME NEW q \in Ranks PROVE Runs(q)'
    <3>1. Runs(q)
      BY DEF Places
    <3>2. CASE q = r
      BY <3>1, <3>2, <2>1, <1>a DEF Runs, TypeOK, Started, Childless, Idle, Family
    <3>3. CASE q # r
      <4>1. run'[q] = run[q] /\ pc'[q] = pc[q] /\ (run[q] # NoThread => run[q] # t)
        BY <3>3, <2>1 DEF Apart, TypeOK
      <4>. QED BY <3>1, <4>1, RunFacts DEF Runs, TypeOK, Started, Childless, Idle, Family
    <3>. QED BY <3>2, <3>3
  <2>3. ASSUME NEW x \in Threads, Queued(x)'
        PROVE  (Started(x) /\ ~Running(x) /\ x \notin evac /\ joining[x] = NoThread /\ ~retval[x])'
    BY <2>1, <2>3, <1>c, QueueStays DEF Places, TypeOK, Started
  <2>4. ASSUME NEW x \in Threads, Moving(x)'
        PROVE  (x = root /\ x \in evac /\ joining[x] = NoThread /\ ~Running(x))'
    BY <2>1, <2>4, <1>c, MailStays DEF Places, TypeOK, Started
  <2>5. ASSUME NEW x \in Threads, (Started(x) /\ ~retval[x])'
        PROVE  (Running(x) \/ Queued(x) \/ Moving(x) \/ (x \in evac /\ joining[x] # NoThread))'
    BY <2>1, <2>5, <1>c, QueueStays, MailStays DEF Places, TypeOK, Started, Runs, Idle
  <2>. QED BY <2>2, <2>3, <2>4, <2>5 DEF Places
<1>5. Races'
  <2>1. ASSUME NEW x \in Threads PROVE Passed(x)' <=> Passed(x)
    <3>1. \A q \in Ranks : (run'[q] = x <=> run[q] = x) /\ (pc'[q] = "get" <=> pc[q] = "get")
      BY DEF TypeOK
    <3>. QED BY <3>1, PassedKept
  <2>2. \A x \in Threads : Flag(x)' = Flag(x)
    BY <2>1 DEF Flag
  <2>8. ASSUME NEW x \in Threads, handler'[x] = "forked" PROVE Race(x)'
    <3>1. Race(x) /\ parent[x] \in Threads
      BY <2>8, ForkedThread
    <3>2. CASE x = c
      BY <1>a, <1>c, <1>d, <1>e, <2>2, <3>1, <3>2 DEF Race, TypeOK
    <3>3. CASE x # c /\ parent[x] = t
      BY <2>2, <3>1, <3>3 DEF Race, TypeOK
    <3>4. CASE parent[x] # t
      BY <1>c, <2>1, <3>1, <3>4, RaceKept DEF TypeOK
    <3>. QED BY <3>2, <3>3, <3>4
  <2>9. ASSUME NEW q \in Ranks, pc'[q] = "get"
        PROVE  (joining[parent[run[q]]] = run[q] /\ ~Running(parent[run[q]]))'
    <3>1. pc[q] = "get" /\ q # r
      BY <2>9 DEF TypeOK
    <3>2. parent[run[q]] # t
      BY <1>a, <3>1, GetThread
    <3>. QED BY <1>c, <3>1, <3>2, GetThread DEF TypeOK
  <2>. QED BY <2>8, <2>9 DEF Races
<1>6. Chains'
  BY Bare, ChainsFrame DEF TypeOK
<1>7. Exit'
  BY DEF Exit, Out, TypeOK, Tree
<1>. QED BY <1>1, <1>2, <1>3, <1>4, <1>5, <1>6, <1>7

(* join() evacuates the frames.                                            *)
LEMMA JoinSuspendIInv ==
    ASSUME IInv, NEW r \in Ranks, JoinSuspend(r)
    PROVE  IInv'
<1> USE RandWsAssumption DEF IInv, queueVars, threadVars, stateVars, mailVars,
            budgetVars
<1>t. PICK t \in Threads : run[r] = t
  BY RunsThread DEF JoinSuspend, Idle
<1> USE <1>t
<1>a. pc[r] = "evac" /\ Running(t) /\ Started(t) /\ Runs(r)
  BY RunsThread DEF JoinSuspend, Idle
<1>c1. PICK c \in Threads : /\ joining[t] = c /\ handler[c] = "forked" /\ parent[c] = t
                           /\ Race(c) /\ c # t
  <2>1. joining[t] # NoThread
    BY <1>a DEF Runs
  <2>2. joining[t] \in Threads /\ handler[joining[t]] = "forked" /\ parent[joining[t]] = t
    BY <2>1 DEF Family, TypeOK
  <2>. QED BY <2>2, ForkedThread
<1> USE <1>c1
<1>0. /\ pc[r] = "evac"
      /\ pc' = [pc EXCEPT ![r] = "joinfaa"] /\ evac' = evac \cup {t}
      /\ suspended' = [suspended EXCEPT ![c] = t]
      /\ UNCHANGED <<run, loot, queueVars, threadVars, ts, resume_flag, retval, joining,
                     mailVars, master, root, budgetVars>>
  BY <1>a DEF JoinSuspend, GoTo
<1> USE <1>0
<1>d. \A q \in Ranks : q # r => run[q] # t
  BY <1>a DEF Apart, TypeOK
<1>c. \A x \in Threads : Running(x)' <=> Running(x)
  BY RunStays
<1>1. TypeOK'
  BY <1>a DEF TypeOK, Locations, Idle
<1>2. Family'
  BY <1>a DEF TypeOK, Family, Started, Runs
<1>3. Apart'
  BY DEF TypeOK, Apart
<1>4. Places'
  <2>1. t \in Threads /\ Running(t)
    BY <1>a
  <2>2. ASSUME NEW q \in Ranks PROVE Runs(q)'
    <3>1. Runs(q)
      BY DEF Places
    <3>2. CASE q = r
      BY <3>1, <3>2, <2>1, <1>a DEF Runs, TypeOK, Started, Childless, Idle, Family
    <3>3. CASE q # r
      <4>1. run'[q] = run[q] /\ pc'[q] = pc[q] /\ (run[q] # NoThread => run[q] # t)
        BY <3>3, <2>1 DEF Apart, TypeOK
      <4>. QED BY <3>1, <4>1, RunFacts DEF Runs, TypeOK, Started, Childless, Idle, Family
    <3>. QED BY <3>2, <3>3
  <2>3. ASSUME NEW x \in Threads, Queued(x)'
        PROVE  (Started(x) /\ ~Running(x) /\ x \notin evac /\ joining[x] = NoThread /\ ~retval[x])'
    BY <2>1, <2>3, <1>c, QueueStays DEF Places, TypeOK, Started
  <2>4. ASSUME NEW x \in Threads, Moving(x)'
        PROVE  (x = root /\ x \in evac /\ joining[x] = NoThread /\ ~Running(x))'
    BY <2>1, <2>4, <1>c, MailStays DEF Places, TypeOK, Started
  <2>5. ASSUME NEW x \in Threads, (Started(x) /\ ~retval[x])'
        PROVE  (Running(x) \/ Queued(x) \/ Moving(x) \/ (x \in evac /\ joining[x] # NoThread))'
    BY <2>1, <2>5, <1>c, QueueStays, MailStays DEF Places, TypeOK, Started, Runs, Idle
  <2>. QED BY <2>2, <2>3, <2>4, <2>5 DEF Places
<1>5. Races'
  <2>1. ASSUME NEW x \in Threads PROVE Passed(x)' <=> Passed(x)
    <3>1. \A q \in Ranks : (run'[q] = x <=> run[q] = x) /\ (pc'[q] = "get" <=> pc[q] = "get")
      BY DEF TypeOK
    <3>. QED BY <3>1, PassedKept
  <2>2. \A x \in Threads : Flag(x)' = Flag(x)
    BY <2>1 DEF Flag
  <2>8. ASSUME NEW x \in Threads, handler'[x] = "forked" PROVE Race(x)'
    <3>1. Race(x) /\ parent[x] \in Threads
      BY <2>8, ForkedThread
    <3>2. CASE x = c
      BY <1>a, <1>c, <1>d, <2>2, <3>1, <3>2 DEF Race, TypeOK
    <3>3. CASE x # c /\ parent[x] = t
      BY <1>a, <1>c, <2>2, <3>1, <3>3 DEF Race, TypeOK
    <3>4. CASE parent[x] # t
      BY <1>c, <2>1, <3>1, <3>4, RaceKept DEF TypeOK
    <3>. QED BY <3>2, <3>3, <3>4
  <2>9. ASSUME NEW q \in Ranks, pc'[q] = "get"
        PROVE  (joining[parent[run[q]]] = run[q] /\ ~Running(parent[run[q]]))'
    <3>1. pc[q] = "get" /\ q # r
      BY <2>9 DEF TypeOK
    <3>2. parent[run[q]] # t
      BY <1>a, <3>1, GetThread
    <3>. QED BY <1>c, <3>1, <3>2, GetThread DEF TypeOK
  <2>. QED BY <2>8, <2>9 DEF Races
<1>6. Chains'
  BY Bare, ChainsFrame DEF TypeOK
<1>7. Exit'
  BY DEF Exit, Out, TypeOK, Tree
<1>. QED BY <1>1, <1>2, <1>3, <1>4, <1>5, <1>6, <1>7

(* The joining thread is first in the race and is suspended.               *)
LEMMA JoinFirstIInv ==
    ASSUME IInv, NEW r \in Ranks, JoinRace(r),
           resume_flag[joining[run[r]]] = 0
    PROVE  IInv'
<1> USE RandWsAssumption DEF IInv, queueVars, threadVars, stateVars, mailVars,
            budgetVars
<1>t. PICK t \in Threads : run[r] = t
  BY RunsThread DEF JoinRace, Idle
<1> USE <1>t
<1>a. pc[r] = "joinfaa" /\ Running(t) /\ Started(t) /\ Runs(r)
  BY RunsThread DEF JoinRace, Idle
<1>c1. PICK c \in Threads : /\ joining[t] = c /\ handler[c] = "forked" /\ parent[c] = t
                           /\ Race(c) /\ c # t
  <2>1. joining[t] # NoThread
    BY <1>a DEF Runs
  <2>2. joining[t] \in Threads /\ handler[joining[t]] = "forked" /\ parent[joining[t]] = t
    BY <2>1 DEF Family, TypeOK
  <2>. QED BY <2>2, ForkedThread
<1> USE <1>c1
<1>0. /\ pc[r] = "joinfaa"
      /\ pc' = [pc EXCEPT ![r] = "sched"] /\ run' = [run EXCEPT ![r] = NoThread]
      /\ resume_flag' = [resume_flag EXCEPT ![c] = 1]
      /\ UNCHANGED <<loot, queueVars, threadVars, ts, suspended, retval, evac, joining,
                     mailVars, master, root, budgetVars>>
  BY <1>a DEF JoinRace, resume_sched, Enter, GoTo
<1> USE <1>0
<1>d. \A q \in Ranks : q # r => run[q] # t
  BY <1>a DEF Apart, TypeOK
<1>c. \A x \in Threads : Running(x)' <=> (Running(x) /\ x # t)
  BY RunMove
<1>e. ~retval[t] /\ t \in evac /\ ~Passed(t) /\ suspended[c] = t /\ Flag(c) = 0 /\ ~Passed(c)
  BY <1>a DEF Runs, Family, Race, Passed, Flag
<1>1. TypeOK'
  BY <1>a DEF TypeOK, Locations, Idle
<1>2. Family'
  BY DEF TypeOK, Family, Started
<1>3. Apart'
  BY DEF TypeOK, Apart
<1>4. Places'
  <2>1. t \in Threads /\ Running(t)
    BY <1>a
  <2>2. ASSUME NEW q \in Ranks PROVE Runs(q)'
    <3>1. Runs(q)
      BY DEF Places
    <3>2. CASE q = r
      BY <3>1, <3>2, <2>1, <1>a DEF Runs, TypeOK, Started, Childless, Idle, Family
    <3>3. CASE q # r
      <4>1. run'[q] = run[q] /\ pc'[q] = pc[q] /\ (run[q] # NoThread => run[q] # t)
        BY <3>3, <2>1 DEF Apart, TypeOK
      <4>. QED BY <3>1, <4>1, RunFacts DEF Runs, TypeOK, Started, Childless, Idle, Family
    <3>. QED BY <3>2, <3>3
  <2>3. ASSUME NEW x \in Threads, Queued(x)'
        PROVE  (Started(x) /\ ~Running(x) /\ x \notin evac /\ joining[x] = NoThread /\ ~retval[x])'
    BY <2>1, <2>3, <1>c, QueueStays DEF Places, TypeOK, Started
  <2>4. ASSUME NEW x \in Threads, Moving(x)'
        PROVE  (x = root /\ x \in evac /\ joining[x] = NoThread /\ ~Running(x))'
    BY <2>1, <2>4, <1>c, MailStays DEF Places, TypeOK, Started
  <2>5. ASSUME NEW x \in Threads, (Started(x) /\ ~retval[x])'
        PROVE  (Running(x) \/ Queued(x) \/ Moving(x) \/ (x \in evac /\ joining[x] # NoThread))'
    BY <2>1, <2>5, <1>e, <1>c, QueueStays, MailStays DEF Places, TypeOK, Started, Runs, Idle
  <2>. QED BY <2>2, <2>3, <2>4, <2>5 DEF Places
<1>5. Races'
  <2>1. ASSUME NEW x \in Threads, x # t PROVE Passed(x)' <=> Passed(x)
    <3>1. \A q \in Ranks : (run'[q] = x <=> run[q] = x) /\ (run[q] = x => pc'[q] = pc[q])
      BY <2>1 DEF TypeOK
    <3>. QED BY <3>1, PassedKept
  <2>2. \A x \in Threads : Flag(x)' = Flag(x)
    <3>1. ~Passed(t)'
      BY <1>e DEF Passed
    <3>. QED BY <1>e, <2>1, <3>1 DEF Flag
  <2>8. ASSUME NEW x \in Threads, handler'[x] = "forked" PROVE Race(x)'
    <3>1. Race(x) /\ parent[x] \in Threads /\ parent[x] # x
      BY <2>8, ForkedThread
    <3>2. CASE x = c
      BY <1>c, <1>d, <1>e, <2>1, <2>2, <3>1, <3>2 DEF Race, TypeOK
    <3>3. CASE x # c /\ parent[x] = t
      BY <2>2, <3>1, <3>3 DEF Race, TypeOK
    <3>4. CASE x = t
      <4>1. ~Passed(t)'
        BY <1>e DEF Passed
      <4>2. \A q \in Ranks : run'[q] = parent[x] => run[q] = parent[x] /\ pc'[q] = pc[q]
        BY <3>1, <3>4 DEF TypeOK
      <4>. QED BY <1>c, <1>e, <2>2, <3>1, <3>4, <4>1, <4>2 DEF Race, TypeOK
    <3>5. CASE x # c /\ parent[x] # t /\ x # t
      BY <1>c, <2>1, <3>1, <3>5, RaceKept DEF TypeOK
    <3>. QED BY <3>2, <3>3, <3>4, <3>5
  <2>9. ASSUME NEW q \in Ranks, pc'[q] = "get"
        PROVE  (joining[parent[run[q]]] = run[q] /\ ~Running(parent[run[q]]))'
    <3>1. pc[q] = "get" /\ q # r
      BY <2>9 DEF TypeOK
    <3>. QED BY <1>c, <3>1, GetThread DEF TypeOK
  <2>. QED BY <2>8, <2>9 DEF Races
<1>6. Chains'
  BY Bare, ChainsFrame DEF TypeOK
<1>7. Exit'
  BY DEF Exit, Out, TypeOK, Tree
<1>. QED BY <1>1, <1>2, <1>3, <1>4, <1>5, <1>6, <1>7

(* The joining thread is second and goes on.                               *)
LEMMA JoinSecondIInv ==
    ASSUME IInv, NEW r \in Ranks, JoinRace(r),
           resume_flag[joining[run[r]]] # 0
    PROVE  IInv'
<1> USE RandWsAssumption DEF IInv, queueVars, threadVars, stateVars, mailVars,
            budgetVars
<1>t. PICK t \in Threads : run[r] = t
  BY RunsThread DEF JoinRace, Idle
<1> USE <1>t
<1>a. pc[r] = "joinfaa" /\ Running(t) /\ Started(t) /\ Runs(r)
  BY RunsThread DEF JoinRace, Idle
<1>c1. PICK c \in Threads : /\ joining[t] = c /\ handler[c] = "forked" /\ parent[c] = t
                           /\ Race(c) /\ c # t
  <2>1. joining[t] # NoThread
    BY <1>a DEF Runs
  <2>2. joining[t] \in Threads /\ handler[joining[t]] = "forked" /\ parent[joining[t]] = t
    BY <2>1 DEF Family, TypeOK
  <2>. QED BY <2>2, ForkedThread
<1> USE <1>c1
<1>0. /\ pc[r] = "joinfaa"
      /\ pc' = [pc EXCEPT ![r] = "retval"] /\ run' = [run EXCEPT ![r] = t]
      /\ resume_flag' = [resume_flag EXCEPT ![c] = @ + 1] /\ evac' = evac \ {t}
      /\ UNCHANGED <<loot, queueVars, threadVars, ts, suspended, retval, joining,
                     mailVars, master, root, budgetVars>>
  BY <1>a DEF JoinRace, Enter, GoTo
<1> USE <1>0
<1>d. \A q \in Ranks : q # r => run[q] # t
  BY <1>a DEF Apart, TypeOK
<1>r. run' = run
  BY DEF TypeOK
<1>c. \A x \in Threads : Running(x)' <=> Running(x)
  BY <1>r, RunStays
<1>e. resume_flag[c] >= 1 => retval[c] /\ ~Running(c)
  <2>1. resume_flag[c] = Flag(c)
    BY <1>a DEF Race
  <2>2. resume_flag[c] >= 1 => Passed(c)
    BY <2>1 DEF Flag
  <2>3. ASSUME NEW q \in Ranks, run[q] = c PROVE pc[q] # "get"
    BY <1>a, <2>3, GetThread
  <2>. QED BY <2>2, <2>3 DEF Passed, Running
<1>f. resume_flag[c] = 1 /\ ~retval[t]
  <2>1. resume_flag[c] = Flag(c)
    BY <1>a DEF Race
  <2>. QED BY <1>a, <2>1 DEF Flag, Runs, Family
<1>1. TypeOK'
  BY <1>a, <1>f DEF TypeOK, Locations, Idle
<1>2. Family'
  BY DEF TypeOK, Family, Started
<1>3. Apart'
  BY DEF TypeOK, Apart
<1>4. Places'
  <2>1. t \in Threads /\ Running(t)
    BY <1>a
  <2>2. ASSUME NEW q \in Ranks PROVE Runs(q)'
    <3>1. Runs(q)
      BY DEF Places
    <3>2. CASE q = r
      BY <3>1, <3>2, <2>1, <1>a, <1>f DEF Runs, TypeOK, Started, Childless, Idle, Family
    <3>3. CASE q # r
      <4>1. run'[q] = run[q] /\ pc'[q] = pc[q] /\ (run[q] # NoThread => run[q] # t)
        BY <3>3, <2>1 DEF Apart, TypeOK
      <4>. QED BY <3>1, <4>1, RunFacts DEF Runs, TypeOK, Started, Childless, Idle, Family
    <3>. QED BY <3>2, <3>3
  <2>3. ASSUME NEW x \in Threads, Queued(x)'
        PROVE  (Started(x) /\ ~Running(x) /\ x \notin evac /\ joining[x] = NoThread /\ ~retval[x])'
    BY <2>1, <2>3, <1>c, QueueStays DEF Places, TypeOK, Started
  <2>4. ASSUME NEW x \in Threads, Moving(x)'
        PROVE  (x = root /\ x \in evac /\ joining[x] = NoThread /\ ~Running(x))'
    BY <2>1, <2>4, <1>c, MailStays DEF Places, TypeOK, Started
  <2>5. ASSUME NEW x \in Threads, (Started(x) /\ ~retval[x])'
        PROVE  (Running(x) \/ Queued(x) \/ Moving(x) \/ (x \in evac /\ joining[x] # NoThread))'
    BY <2>1, <2>5, <1>c, QueueStays, MailStays DEF Places, TypeOK, Started, Runs, Idle
  <2>. QED BY <2>2, <2>3, <2>4, <2>5 DEF Places
<1>5. Races'
  <2>1. ASSUME NEW x \in Threads PROVE Passed(x)' <=> Passed(x)
    <3>1. \A q \in Ranks : (run'[q] = x <=> run[q] = x) /\ (pc'[q] = "get" <=> pc[q] = "get")
      BY <1>r DEF TypeOK
    <3>. QED BY <3>1, PassedKept
  <2>2. \A x \in Threads : Flag(x)' = Flag(x)
    BY <2>1 DEF Flag
  <2>8. ASSUME NEW x \in Threads, handler'[x] = "forked" PROVE Race(x)'
    <3>1. Race(x) /\ parent[x] \in Threads
      BY <2>8, ForkedThread
    <3>2. CASE x = c
      BY <1>a, <1>c, <1>d, <1>e, <1>f, <1>r, <2>2, <3>1, <3>2 DEF Race, TypeOK
    <3>3. CASE x # c /\ parent[x] = t
      BY <1>a, <1>c, <1>r, <2>2, <3>1, <3>3 DEF Race, TypeOK
    <3>4. CASE parent[x] # t
      BY <1>c, <1>r, <2>1, <3>1, <3>4, RaceKept DEF TypeOK
    <3>. QED BY <3>2, <3>3, <3>4
  <2>9. ASSUME NEW q \in Ranks, pc'[q] = "get"
        PROVE  (joining[parent[run[q]]] = run[q] /\ ~Running(parent[run[q]]))'
    <3>1. pc[q] = "get" /\ q # r
      BY <2>9 DEF TypeOK
    <3>2. parent[run[q]] # t
      BY <1>a, <3>1, GetThread
    <3>. QED BY <1>c, <1>r, <3>1, <3>2, GetThread DEF TypeOK
  <2>. QED BY <2>8, <2>9 DEF Races
<1>6. Chains'
  BY Bare, ChainsFrame DEF TypeOK
<1>7. Exit'
  BY DEF Exit, Out, TypeOK, Tree
<1>. QED BY <1>1, <1>2, <1>3, <1>4, <1>5, <1>6, <1>7

(* join() takes the result and frees the thread_state.                     *)
LEMMA JoinReturnIInv ==
    ASSUME IInv, NEW r \in Ranks, JoinReturn(r)
    PROVE  IInv'
<1> USE RandWsAssumption DEF IInv, queueVars, threadVars, stateVars, mailVars,
            budgetVars
<1>t. PICK t \in Threads : run[r] = t
  BY RunsThread DEF JoinReturn, Idle
<1> USE <1>t
<1>a. pc[r] = "retval" /\ Running(t) /\ Started(t) /\ Runs(r)
  BY RunsThread DEF JoinReturn, Idle
<1>c1. PICK c \in Threads : /\ joining[t] = c /\ handler[c] = "forked" /\ parent[c] = t
                           /\ Race(c) /\ c # t
  <2>1. joining[t] # NoThread
    BY <1>a DEF Runs
  <2>2. joining[t] \in Threads /\ handler[joining[t]] = "forked" /\ parent[joining[t]] = t
    BY <2>1 DEF Family, TypeOK
  <2>. QED BY <2>2, ForkedThread
<1> USE <1>c1
<1>0. /\ pc[r] = "retval"
      /\ pc' = [pc EXCEPT ![r] = "thread"] /\ joining' = [joining EXCEPT ![t] = NoThread]
      /\ FreeThreadState(c) /\ Forget(c)
      /\ UNCHANGED <<run, loot, queueVars, evac, mailVars, master, root, budgetVars>>
  BY <1>a DEF JoinReturn, GoTo
<1> USE <1>0
<1>d. \A q \in Ranks : q # r => run[q] # t
  BY <1>a DEF Apart, TypeOK
<1>c. \A x \in Threads : Running(x)' <=> Running(x)
  BY RunStays
<1>e. retval[c] /\ ~Running(c) /\ c # root
  BY <1>a, ForkedThread DEF Race
<1>g. \A x \in Threads : parent[x] # c /\ (joining[x] = c => x = t)
  BY <1>e DEF Family, Started
<1>f. ~Queued(c) /\ ~Moving(c) /\ c \notin evac /\ joining[c] = NoThread
  BY <1>e, <1>g DEF Places, Family, TypeOK
<1>h. ~retval[t] /\ t \notin evac
  BY <1>a DEF Runs
<1>1. TypeOK'
  BY <1>a DEF TypeOK, Locations, Idle, FreeThreadState, Forget
<1>2. Family'
  BY <1>a, <1>e, <1>f, <1>g, <1>h DEF TypeOK, Family, Started, FreeThreadState, Forget
<1>3. Apart'
  BY DEF TypeOK, Apart
<1>4. Places'
  <2>1. t \in Threads /\ Running(t)
    BY <1>a
  <2>2. ASSUME NEW q \in Ranks PROVE Runs(q)'
    <3>1. Runs(q)
      BY DEF Places
    <3>2. CASE q = r
      BY <3>1, <3>2, <2>1, <1>a, <1>h
         DEF Runs, TypeOK, FreeThreadState, Forget, Started, Childless, Idle, Family
    <3>3. CASE q # r
      <4>1. run'[q] = run[q] /\ pc'[q] = pc[q] /\ (run[q] # NoThread => run[q] # t)
        BY <3>3, <2>1 DEF Apart, TypeOK, FreeThreadState, Forget
      <4>. QED BY <3>1, <4>1, RunFacts, <1>e, <1>f, <1>g, RunsThread
                  DEF Runs, TypeOK, FreeThreadState, Forget, Started, Childless, Idle, Family
    <3>. QED BY <3>2, <3>3
  <2>3. ASSUME NEW x \in Threads, Queued(x)'
        PROVE  (Started(x) /\ ~Running(x) /\ x \notin evac /\ joining[x] = NoThread /\ ~retval[x])'
    BY <1>e, <1>f, <1>g, <1>h, <2>1, <2>3, <1>c, QueueStays
       DEF Places, TypeOK, FreeThreadState, Forget, Started
  <2>4. ASSUME NEW x \in Threads, Moving(x)'
        PROVE  (x = root /\ x \in evac /\ joining[x] = NoThread /\ ~Running(x))'
    BY <1>e, <1>f, <1>g, <1>h, <2>1, <2>4, <1>c, MailStays
       DEF Places, TypeOK, FreeThreadState, Forget, Started
  <2>5. ASSUME NEW x \in Threads, (Started(x) /\ ~retval[x])'
        PROVE  (Running(x) \/ Queued(x) \/ Moving(x) \/ (x \in evac /\ joining[x] # NoThread))'
    BY <1>e, <1>f, <1>g, <1>h, <2>1, <2>5, <1>c, QueueStays, MailStays
       DEF Places, TypeOK, FreeThreadState, Forget, Started, Runs, Idle
  <2>. QED BY <2>2, <2>3, <2>4, <2>5 DEF Places
<1>5. Races'
  <2>1. ASSUME NEW x \in Threads, x # c PROVE Passed(x)' <=> Passed(x)
    <3>1. \A q \in Ranks : (run'[q] = x <=> run[q] = x) /\ (pc'[q] = "get" <=> pc[q] = "get")
      BY DEF TypeOK
    <3>2. retval'[x] = retval[x]
      BY <2>1 DEF FreeThreadState, TypeOK
    <3>. QED BY <3>1, <3>2, PassedKept
  <2>2. \A x \in Threads : x # c => Flag(x)' = Flag(x)
    BY <2>1 DEF Flag
  <2>8. ASSUME NEW x \in Threads, handler'[x] = "forked" PROVE Race(x)'
    <3>1. x # c /\ handler[x] = "forked" /\ parent'[x] = parent[x]
      BY <2>8 DEF Forget, TypeOK
    <3>2. Race(x) /\ parent[x] \in Threads /\ parent[x] # c
      BY <1>g, <3>1, ForkedThread
    <3>3. CASE parent[x] = t
      BY <2>2, <3>1, <3>2, <3>3 DEF Race, TypeOK, FreeThreadState
    <3>4. CASE parent[x] # t
      BY <1>c, <2>1, <3>1, <3>2, <3>4, RaceKept DEF TypeOK, FreeThreadState
    <3>. QED BY <3>3, <3>4
  <2>9. ASSUME NEW q \in Ranks, pc'[q] = "get"
        PROVE  (joining[parent[run[q]]] = run[q] /\ ~Running(parent[run[q]]))'
    <3>1. pc[q] = "get" /\ q # r
      BY <2>9 DEF TypeOK
    <3>2. run[q] # c /\ parent[run[q]] # t /\ run[q] \in Threads
      BY <1>a, <1>e, <3>1, GetThread DEF Running
    <3>. QED BY <1>c, <3>1, <3>2, GetThread DEF TypeOK, Forget
  <2>. QED BY <2>8, <2>9 DEF Races
<1>6. Chains'
  BY <1>e, <1>f, Bare, ChainsForget DEF TypeOK
<1>7. Exit'
  BY <1>e DEF Exit, Out, TypeOK, Tree, FreeThreadState
<1>. QED BY <1>1, <1>2, <1>3, <1>4, <1>5, <1>6, <1>7

(* join() of a child that was serialized.                                  *)
LEMMA JoinSerializedIInv ==
    ASSUME IInv, NEW r \in Ranks, NEW c \in Threads, JoinSerialized(r, c)
    PROVE  IInv'
<1> USE RandWsAssumption DEF IInv, queueVars, threadVars, stateVars, mailVars,
            budgetVars
<1>t. PICK t \in Threads : run[r] = t
  BY RunsThread DEF JoinSerialized, Idle
<1> USE <1>t
<1>a. pc[r] = "thread" /\ Running(t) /\ Started(t) /\ Runs(r)
  BY RunsThread DEF JoinSerialized, Idle
<1>b. handler[c] = "serialized" /\ parent[c] = t
  BY DEF JoinSerialized, Children
<1>0. /\ pc[r] = "thread"
      /\ Forget(c)
      /\ UNCHANGED <<pc, run, loot, queueVars, stateVars, evac, joining,
                     mailVars, master, root, budgetVars>>
  BY <1>a DEF JoinSerialized, GoTo
<1> USE <1>0
<1>d. \A q \in Ranks : q # r => run[q] # t
  BY <1>a DEF Apart, TypeOK
<1>c. \A x \in Threads : Running(x)' <=> Running(x)
  BY RunStays
<1>e. c # root /\ ~Started(c)
  BY <1>b DEF Family, Started
<1>g. \A x \in Threads : parent[x] # c /\ joining[x] # c
  BY <1>b, <1>e DEF Family, Started
<1>f. ~Running(c) /\ ~Queued(c) /\ ~Moving(c) /\ c \notin evac /\ joining[c] = NoThread
  <2>1. ASSUME NEW q \in Ranks, run[q] = c PROVE FALSE
    BY <1>e, <2>1, RunFacts, RunsThread
  <2>. QED BY <1>e, <2>1 DEF Places, Family, Running
<1>1. TypeOK'
  BY DEF TypeOK, Locations, Idle, Forget
<1>2. Family'
  BY <1>b, <1>e, <1>f, <1>g DEF TypeOK, Family, Started, Forget
<1>3. Apart'
  BY DEF TypeOK, Apart
<1>4. Places'
  <2>1. t \in Threads /\ Running(t)
    BY <1>a
  <2>2. ASSUME NEW q \in Ranks PROVE Runs(q)'
    <3>1. Runs(q)
      BY DEF Places
    <3>2. CASE q = r
      BY <3>1, <3>2, <2>1, <1>a, <1>f DEF Runs, TypeOK, Forget, Started, Childless, Idle, Family
    <3>3. CASE q # r
      <4>1. run'[q] = run[q] /\ pc'[q] = pc[q] /\ (run[q] # NoThread => run[q] # t)
        BY <3>3, <2>1 DEF Apart, TypeOK, Forget
      <4>. QED BY SMTT(30), <3>1, <4>1, RunFacts, <1>e, <1>f, <1>g, RunsThread
                  DEF Runs, TypeOK, Forget, Started, Childless, Idle, Family
    <3>. QED BY <3>2, <3>3
  <2>3. ASSUME NEW x \in Threads, Queued(x)'
        PROVE  (Started(x) /\ ~Running(x) /\ x \notin evac /\ joining[x] = NoThread /\ ~retval[x])'
    BY <1>e, <1>f, <1>g, <2>1, <2>3, <1>c, QueueStays DEF Places, TypeOK, Forget, Started
  <2>4. ASSUME NEW x \in Threads, Moving(x)'
        PROVE  (x = root /\ x \in evac /\ joining[x] = NoThread /\ ~Running(x))'
    BY <1>e, <1>f, <1>g, <2>1, <2>4, <1>c, MailStays DEF Places, TypeOK, Forget, Started
  <2>5. ASSUME NEW x \in Threads, (Started(x) /\ ~retval[x])'
        PROVE  (Running(x) \/ Queued(x) \/ Moving(x) \/ (x \in evac /\ joining[x] # NoThread))'
    BY <1>e, <1>f, <1>g, <2>1, <2>5, <1>c, QueueStays, MailStays
       DEF Places, TypeOK, Forget, Started, Runs, Idle
  <2>. QED BY <2>2, <2>3, <2>4, <2>5 DEF Places
<1>5. Races'
  <2>1. ASSUME NEW x \in Threads PROVE Passed(x)' <=> Passed(x)
    <3>1. \A q \in Ranks : (run'[q] = x <=> run[q] = x) /\ (pc'[q] = "get" <=> pc[q] = "get")
      BY DEF TypeOK
    <3>. QED BY <3>1, PassedKept
  <2>2. \A x \in Threads : Flag(x)' = Flag(x)
    BY <2>1 DEF Flag
  <2>8. ASSUME NEW x \in Threads, handler'[x] = "forked" PROVE Race(x)'
    <3>1. x # c /\ handler[x] = "forked" /\ parent'[x] = parent[x]
      BY <2>8 DEF Forget, TypeOK
    <3>2. Race(x) /\ parent[x] \in Threads
      BY <3>1, ForkedThread
    <3>. QED BY <1>c, <2>1, <3>1, <3>2, RaceKept DEF TypeOK
  <2>9. ASSUME NEW q \in Ranks, pc'[q] = "get"
        PROVE  (joining[parent[run[q]]] = run[q] /\ ~Running(parent[run[q]]))'
    <3>1. pc[q] = "get" /\ run[q] \in Threads /\ run[q] # c
      BY <1>f, <2>9, RunsThread DEF Running, Idle
    <3>. QED BY <1>c, <3>1, GetThread DEF TypeOK, Forget
  <2>. QED BY <2>8, <2>9 DEF Races
<1>6. Chains'
  BY <1>e, <1>f, ChainsForget DEF TypeOK
<1>7. Exit'
  BY DEF Exit, Out, TypeOK, Tree
<1>. QED BY <1>1, <1>2, <1>3, <1>4, <1>5, <1>6, <1>7

(* When the root thread has ended, all threads have.                       *)
LEMMA AllEnded ==
    ASSUME IInv, root = NoThread \/ retval[root]
    PROVE  /\ \A t \in Threads : handler[t] = "none" /\ parent[t] = NoThread
           /\ \A t \in Threads : Started(t) => t = root
<1> USE RandWsAssumption DEF IInv
<1> DEFINE Alive == {t \in Threads : handler[t] # "none"}
           Levels == {level[t] : t \in Alive}
<1>1. ASSUME Alive # {} PROVE FALSE
  <2>1. Levels \in SUBSET Nat /\ Levels # {}
    <3>1. \A t \in Alive : level[t] \in Nat
      BY DEF TypeOK
    <3>2. PICK t : t \in Alive
      BY <1>1
    <3>3. level[t] \in Levels
      BY <3>2
    <3>. QED BY <3>1, <3>3
  <2>2. PICK n \in Levels : \A m \in Levels : n <= m
    BY <2>1, SmallestElement
  <2>3. PICK t \in Alive : level[t] = n
    BY <2>2
  <2>4. parent[t] \in Threads /\ Started(parent[t]) /\ ~retval[parent[t]] /\ level[parent[t]] + 1 = n
    BY <2>3 DEF Family
  <2>5. handler[parent[t]] = "forked"
    BY <2>4 DEF Started
  <2>6. level[parent[t]] \in Levels /\ level[parent[t]] \in Nat
    BY <2>4, <2>5 DEF TypeOK
  <2>7. n <= level[parent[t]] /\ level[parent[t]] + 1 = n
    BY <2>2, <2>4, <2>6
  <2>. QED BY <2>6, <2>7
<1>2. \A t \in Threads : handler[t] = "none"
  BY <1>1
<1>. QED BY <1>2 DEF Family, Started

(* Then no worker has a task, but for the end of the root thread.          *)
LEMMA AllIdle ==
    ASSUME IInv, root = NoThread \/ retval[root], NEW r \in Ranks
    PROVE  pc[r] \in Idle \/ (pc[r] = "exitput" /\ run[r] = root)
<1>1. ASSUME pc[r] \notin Idle PROVE pc[r] = "exitput" /\ run[r] = root
  <2>1. run[r] \in Threads /\ Started(run[r]) /\ Runs(r)
    BY <1>1, RunsThread
  <2>2. run[r] = root /\ retval[root]
    BY <2>1, AllEnded, RandWsAssumption
  <2>3. root \notin evac /\ pc[r] \in Locations
    BY <2>1, <2>2 DEF IInv, Family, TypeOK
  <2>. QED BY <1>1, <2>1, <2>2, <2>3 DEF Runs, Locations
<1>. QED BY <1>1

(* The frames are copied, and the thief unlocks the queue.                 *)
LEMMA StealResumeIInv ==
    ASSUME IInv, NEW r \in Ranks, StealResume(r)
    PROVE  IInv'
<1> USE RandWsAssumption DEF IInv, queueVars, threadVars, stateVars, mailVars,
            budgetVars
<1>t. PICK t \in Threads : run[r] = t
  BY RunsThread DEF StealResume, Idle
<1> USE <1>t
<1>a. pc[r] = "copy" /\ Running(t) /\ Started(t) /\ Runs(r)
  BY RunsThread DEF StealResume, Idle
<1>v. PICK v \in Ranks : loot[r] = v /\ qlock[v] = r /\ v # r /\ r # NoRank
  <2>1. loot[r] # NoRank /\ qlock[loot[r]] = r /\ qlock[r] = NoRank
    BY <1>a, Bare DEF Chains, Copy
  <2>. QED BY <2>1 DEF TypeOK
<1> USE <1>v
<1>0. /\ pc[r] = "copy"
      /\ pc' = [pc EXCEPT ![r] = "thread"] /\ qlock' = [qlock EXCEPT ![v] = NoRank]
      /\ loot' = [loot EXCEPT ![r] = NoRank]
      /\ UNCHANGED <<run, queue, threadVars, stateVars, evac, joining,
                     mailVars, master, root, budgetVars>>
  BY <1>a DEF StealResume, GoTo
<1> USE <1>0
<1>d. \A q \in Ranks : q # r => run[q] # t
  BY <1>a DEF Apart, TypeOK
<1>c. \A x \in Threads : Running(x)' <=> Running(x)
  BY RunStays
<1>e. queue[r] = <<>> /\ qlock[r] = NoRank
  BY Bare
<1>1. TypeOK'
  BY DEF TypeOK, Locations, Idle
<1>2. Family'
  BY DEF TypeOK, Family, Started
<1>3. Apart'
  BY DEF TypeOK, Apart
<1>4. Places'
  BY RunStays, QueueStays, MailStays, RunFacts
     DEF Places, Runs, TypeOK, Family, Started, Childless, Idle
<1>5. Races'
  BY RacesFrame DEF TypeOK
<1>6. Chains'
  <2> SUFFICES ASSUME NEW q \in Ranks PROVE Chain(q)' /\ Copy(q)'
    BY DEF Chains
  <2>1. Chain(q) /\ Copy(q)
    BY DEF Chains
  <2>2. Chain(q)'
    <3>1. CASE q = r
      BY <1>e, <3>1 DEF Chain, TypeOK
    <3>2. CASE q # r
      <4>1. pc'[q] = pc[q] /\ queue'[q] = queue[q] /\ run'[q] = run[q]
            /\ (qlock'[q] # NoRank => qlock[q] # NoRank)
        BY <3>2 DEF TypeOK
      <4>2. \A x, n : Settled(x, n)' <=> Settled(x, n)
        BY DEF Settled
      <4>3. \A i \in 1..Len(queue[q]) : Above(q, i)' = Above(q, i)
        BY <4>1 DEF Above
      <4>. QED BY <2>1, <4>1, <4>2, <4>3 DEF Chain, Settled
    <3>. QED BY <3>1, <3>2
  <2>3. Copy(q)'
    <3>1. CASE q = r
      BY <1>e, <3>1 DEF Copy, TypeOK
    <3>2. CASE q # r
      <4>1. pc[q] = "copy" => loot[q] \in Ranks /\ loot[q] # v
        BY <2>1, <3>2 DEF Copy, TypeOK
      <4>2. qlock'[q] # NoRank => qlock'[q] \in Ranks /\ qlock'[q] # r /\ loot'[qlock'[q]] = q
        BY <2>1, <3>2 DEF Copy, TypeOK
      <4>. QED BY <2>1, <3>2, <4>1, <4>2 DEF Copy, TypeOK
    <3>. QED BY <3>1, <3>2
  <2>. QED BY <2>2, <2>3
<1>7. Exit'
  BY DEF Exit, Out, TypeOK, Tree
<1>. QED BY <1>1, <1>2, <1>3, <1>4, <1>5, <1>6, <1>7

(* The root thread leaves its worker.                                      *)
LEMMA migrate_toIInv ==
    ASSUME IInv, NEW r \in Ranks, migrate_to(r)
    PROVE  IInv'
<1> USE RandWsAssumption DEF IInv, queueVars, threadVars, stateVars, mailVars,
            budgetVars
<1>t. PICK t \in Threads : run[r] = t
  BY RunsThread DEF migrate_to, Idle
<1> USE <1>t
<1>a. pc[r] = "thread" /\ Running(t) /\ Started(t) /\ Runs(r)
  BY RunsThread DEF migrate_to, Idle
<1>b. t = root /\ ~retval[t]
  BY <1>a DEF migrate_to, Runs
<1> USE <1>b
<1>0. /\ pc[r] = "thread"
      /\ pc' = [pc EXCEPT ![r] = "moveput"] /\ evac' = evac \cup {t}
      /\ moves < MaxMoves /\ moves' = moves + 1
      /\ UNCHANGED <<run, loot, queueVars, threadVars, stateVars, joining,
                     mailVars, master, root, forks>>
  BY <1>a DEF migrate_to, GoTo
<1> USE <1>0
<1>d. \A q \in Ranks : q # r => run[q] # t
  BY <1>a DEF Apart, TypeOK
<1>c. \A x \in Threads : Running(x)' <=> Running(x)
  BY RunStays
<1>e. queue[r] = <<>> /\ qlock[r] = NoRank
  BY RootAlone
<1>1. TypeOK'
  BY DEF TypeOK, Locations, Idle
<1>2. Family'
  BY <1>a DEF TypeOK, Family, Started
<1>3. Apart'
  BY DEF TypeOK, Apart
<1>4. Places'
  <2>1. t \in Threads /\ Running(t)
    BY <1>a
  <2>2. ASSUME NEW q \in Ranks PROVE Runs(q)'
    <3>1. Runs(q)
      BY DEF Places
    <3>2. CASE q = r
      BY <3>1, <3>2, <2>1, <1>a DEF Runs, TypeOK, Started, Childless, Idle, Family
    <3>3. CASE q # r
      <4>1. run'[q] = run[q] /\ pc'[q] = pc[q] /\ (run[q] # NoThread => run[q] # t)
        BY <3>3, <2>1 DEF Apart, TypeOK
      <4>. QED BY <3>1, <4>1, RunFacts DEF Runs, TypeOK, Started, Childless, Idle, Family
    <3>. QED BY <3>2, <3>3
  <2>3. ASSUME NEW x \in Threads, Queued(x)'
        PROVE  (Started(x) /\ ~Running(x) /\ x \notin evac /\ joining[x] = NoThread /\ ~retval[x])'
    BY <2>1, <2>3, <1>c, QueueStays DEF Places, TypeOK, Started
  <2>4. ASSUME NEW x \in Threads, Moving(x)'
        PROVE  (x = root /\ x \in evac /\ joining[x] = NoThread /\ ~Running(x))'
    BY <2>1, <2>4, <1>c, MailStays DEF Places, TypeOK, Started
  <2>5. ASSUME NEW x \in Threads, (Started(x) /\ ~retval[x])'
        PROVE  (Running(x) \/ Queued(x) \/ Moving(x) \/ (x \in evac /\ joining[x] # NoThread))'
    BY <2>1, <2>5, <1>c, QueueStays, MailStays DEF Places, TypeOK, Started, Runs, Idle
  <2>. QED BY <2>2, <2>3, <2>4, <2>5 DEF Places
<1>5. Races'
  BY RacesFrame DEF TypeOK
<1>6. Chains'
  BY <1>e, ChainsFrame DEF TypeOK
<1>7. Exit'
  BY DEF Exit, Out, TypeOK, Tree
<1>. QED BY <1>1, <1>2, <1>3, <1>4, <1>5, <1>6, <1>7

(* It is put into the mailbox of another worker.                           *)
LEMMA MigratePutIInv ==
    ASSUME IInv, NEW r \in Ranks, NEW o \in Ranks, MigratePut(r, o)
    PROVE  IInv'
<1> USE RandWsAssumption DEF IInv, queueVars, threadVars, stateVars, mailVars,
            budgetVars
<1>t. PICK t \in Threads : run[r] = t
  BY RunsThread DEF MigratePut, Idle
<1> USE <1>t
<1>a. pc[r] = "moveput" /\ Running(t) /\ Started(t) /\ Runs(r)
  BY RunsThread DEF MigratePut, Idle
<1>b. t = root /\ t \in evac /\ joining[t] = NoThread /\ ~retval[t]
  BY <1>a DEF Runs, Family
<1>0. /\ pc[r] = "moveput"
      /\ pc' = [pc EXCEPT ![r] = "sched"] /\ run' = [run EXCEPT ![r] = NoThread]
      /\ migration' = [migration EXCEPT ![o] = t]
      /\ UNCHANGED <<loot, queueVars, threadVars, stateVars, evac, joining,
                     exit_request, fwd, master, root, budgetVars>>
  BY <1>a DEF MigratePut, resume_sched, Enter, GoTo
<1> USE <1>0
<1>d. \A q \in Ranks : q # r => run[q] # t
  BY <1>a DEF Apart, TypeOK
<1>c. \A x \in Threads : Running(x)' <=> (Running(x) /\ x # t)
  BY RunMove
<1>e. \A q \in Ranks : migration[q] = NoThread
  BY <1>a, <1>b DEF Places, Moving, TypeOK
<1>m. \A x \in Threads : Moving(x)' <=> x = t
  BY <1>e DEF Moving, TypeOK
<1>f. ~Passed(t)' /\ ~Passed(t)
  BY <1>b DEF Passed
<1>1. TypeOK'
  BY <1>a DEF TypeOK, Locations, Idle
<1>2. Family'
  BY DEF TypeOK, Family, Started
<1>3. Apart'
  BY <1>e DEF TypeOK, Apart
<1>4. Places'
  <2>1. t \in Threads /\ Running(t)
    BY <1>a
  <2>2. ASSUME NEW q \in Ranks PROVE Runs(q)'
    <3>1. Runs(q)
      BY DEF Places
    <3>2. CASE q = r
      BY <3>1, <3>2, <2>1, <1>a DEF Runs, TypeOK, Started, Childless, Idle, Family
    <3>3. CASE q # r
      <4>1. run'[q] = run[q] /\ pc'[q] = pc[q] /\ (run[q] # NoThread => run[q] # t)
        BY <3>3, <2>1 DEF Apart, TypeOK
      <4>. QED BY <3>1, <4>1, RunFacts DEF Runs, TypeOK, Started, Childless, Idle, Family
    <3>. QED BY <3>2, <3>3
  <2>3. ASSUME NEW x \in Threads, Queued(x)'
        PROVE  (Started(x) /\ ~Running(x) /\ x \notin evac /\ joining[x] = NoThread /\ ~retval[x])'
    BY <1>b, <2>1, <2>3, <1>c, QueueStays DEF Places, TypeOK, Started
  <2>4. ASSUME NEW x \in Threads, Moving(x)'
        PROVE  (x = root /\ x \in evac /\ joining[x] = NoThread /\ ~Running(x))'
    BY <1>b, <2>1, <2>4, <1>c, <1>m DEF Places, TypeOK, Started
  <2>5. ASSUME NEW x \in Threads, (Started(x) /\ ~retval[x])'
        PROVE  (Running(x) \/ Queued(x) \/ Moving(x) \/ (x \in evac /\ joining[x] # NoThread))'
    BY <1>b, <2>1, <2>5, <1>c, QueueStays, <1>m DEF Places, TypeOK, Started, Runs, Idle
  <2>. QED BY <2>2, <2>3, <2>4, <2>5 DEF Places
<1>5. Races'
  <2>1. ASSUME NEW x \in Threads PROVE Passed(x)' <=> Passed(x)
    <3>1. CASE x = t
      BY <1>f, <3>1
    <3>2. CASE x # t
      <4>1. \A q \in Ranks : (run'[q] = x <=> run[q] = x) /\ (run[q] = x => pc'[q] = pc[q])
        BY <3>2 DEF TypeOK
      <4>. QED BY <4>1, PassedKept
    <3>. QED BY <3>1, <3>2
  <2>8. ASSUME NEW c \in Threads, handler'[c] = "forked" PROVE Race(c)'
    <3>1. Race(c) /\ parent[c] \in Threads /\ c # t
      BY <1>b, <2>8, ForkedThread
    <3>2. CASE parent[c] = t
      <4>1. Flag(c)' = Flag(c)
        BY <2>1 DEF Flag
      <4>. QED BY <1>b, <3>1, <3>2, <4>1 DEF Race
    <3>3. CASE parent[c] # t
      BY <1>c, <2>1, <3>1, <3>3, RaceKept DEF TypeOK
    <3>. QED BY <3>2, <3>3
  <2>9. ASSUME NEW q \in Ranks, pc'[q] = "get"
        PROVE  (joining[parent[run[q]]] = run[q] /\ ~Running(parent[run[q]]))'
    <3>1. pc[q] = "get" /\ q # r
      BY <2>9 DEF TypeOK
    <3>. QED BY <1>c, <3>1, GetThread DEF TypeOK
  <2>. QED BY <2>8, <2>9 DEF Races
<1>6. Chains'
  BY Bare, ChainsFrame DEF TypeOK
<1>7. Exit'
  BY DEF Exit, Out, TypeOK, Tree
<1>. QED BY <1>1, <1>2, <1>3, <1>4, <1>5, <1>6, <1>7

(* The ranks below a rank in the tree are ranks, and not rank 0.           *)
LEMMA TreeAbove == \A q \in Ranks : Tree[q] \subseteq Ranks /\ \A x \in Tree[q] : x > q
<1> SUFFICES ASSUME NEW q \in Ranks, NEW x \in Tree[q] PROVE x \in Ranks /\ x > q
  OBVIOUS
<1>1. x \in BcastTargets(q, NRanks) /\ q \in Nat /\ NRanks \in Nat
  BY RandWsAssumption DEF Tree, Ranks
<1>2. x \in Nat /\ q < x /\ x < NRanks
  BY <1>1, TargetAbove
<1>. QED BY <1>1, <1>2, RandWsAssumption DEF Ranks

(* A rank has one parent in the tree.                                      *)
LEMMA TreeParent ==
    ASSUME NEW a \in Ranks, NEW b \in Ranks, NEW x \in Tree[a], x \in Tree[b] PROVE a = b
<1>1. x \in BcastTargets(a, NRanks) /\ x \in BcastTargets(b, NRanks)
  BY DEF Tree
<1>2. a \in Nat /\ b \in Nat /\ NRanks \in Nat
  BY RandWsAssumption DEF Ranks
<1>. QED BY <1>1, <1>2, OneParent

(* The ranks still to be told have a highest one.                          *)
LEMMA MaxOfRanks == ASSUME NEW S \in SUBSET Ranks, S # {} PROVE Max(S) \in S
<1>1. NRanks - 1 \in Nat /\ S \in SUBSET (0..(NRanks - 1))
  BY RandWsAssumption DEF Ranks
<1>2. \E x \in S : \A y \in S : y <= x
  BY <1>1, GreatestElement
<1>. QED BY <1>2 DEF Max

(* A worker finds the root thread in its mailbox.                          *)
LEMMA execute_migrated_taskIInv ==
    ASSUME IInv, NEW r \in Ranks, execute_migrated_task(r)
    PROVE  IInv'
<1> USE RandWsAssumption DEF IInv, queueVars, threadVars, stateVars, mailVars,
            budgetVars
<1>t. PICK t \in Threads : migration[r] = t
  BY DEF execute_migrated_task, TypeOK
<1> USE <1>t
<1>a. Moving(t) /\ t = root /\ t \in evac /\ joining[t] = NoThread /\ ~Running(t) /\ ~retval[t]
  BY DEF Moving, Places, Family
<1>0. /\ pc[r] = "sched" /\ ~exit_request[r]
      /\ pc' = [pc EXCEPT ![r] = "resume"] /\ run' = [run EXCEPT ![r] = t]
      /\ migration' = [migration EXCEPT ![r] = NoThread]
      /\ UNCHANGED <<loot, queueVars, threadVars, stateVars, evac, joining,
                     exit_request, fwd, master, root, budgetVars>>
  BY DEF execute_migrated_task, Enter, GoTo
<1> USE <1>0
<1>b. run[r] = NoThread
  BY RunFacts DEF Idle
<1>c. \A x \in Threads : Running(x)' <=> (x = t \/ Running(x))
  BY <1>b, RunMove
<1>m. \A x \in Threads : ~Moving(x)'
  BY <1>a DEF Moving, Places, Apart, TypeOK
<1>f. ~Passed(t)' /\ ~Passed(t)
  BY <1>a DEF Passed
<1>1. TypeOK'
  BY <1>a DEF TypeOK, Locations, Idle
<1>2. Family'
  BY DEF TypeOK, Family, Started
<1>3. Apart'
  BY <1>a DEF TypeOK, Apart, Running
<1>4. Places'
  <2>2. ASSUME NEW q \in Ranks PROVE Runs(q)'
    <3>1. Runs(q)
      BY DEF Places
    <3>2. CASE q = r
      BY <1>a, <3>2 DEF Runs, TypeOK, Started, Idle
    <3>3. CASE q # r
      BY <3>1, <3>3, RunFacts DEF Runs, TypeOK, Started, Childless, Idle
    <3>. QED BY <3>2, <3>3
  <2>3. ASSUME NEW x \in Threads, Queued(x)'
        PROVE  (Started(x) /\ ~Running(x) /\ x \notin evac /\ joining[x] = NoThread /\ ~retval[x])'
    BY <1>a, <1>c, <2>3, QueueStays DEF Places, Started
  <2>5. ASSUME NEW x \in Threads, (Started(x) /\ ~retval[x])'
        PROVE  (Running(x) \/ Queued(x) \/ Moving(x) \/ (x \in evac /\ joining[x] # NoThread))'
    BY <1>a, <1>c, <2>5, QueueStays DEF Places, Started
  <2>. QED BY <1>m, <2>2, <2>3, <2>5 DEF Places
<1>5. Races'
  <2>1. ASSUME NEW x \in Threads PROVE Passed(x)' <=> Passed(x)
    <3>1. CASE x = t
      BY <1>f, <3>1
    <3>2. CASE x # t
      <4>1. \A q \in Ranks : (run'[q] = x <=> run[q] = x) /\ (run[q] = x => pc'[q] = pc[q])
        BY <1>b, <3>2 DEF TypeOK
      <4>. QED BY <4>1, PassedKept
    <3>. QED BY <3>1, <3>2
  <2>8. ASSUME NEW c \in Threads, handler'[c] = "forked" PROVE Race(c)'
    <3>1. Race(c) /\ parent[c] \in Threads /\ c # t
      BY <1>a, <2>8, ForkedThread
    <3>2. CASE parent[c] = t
      <4>1. Flag(c)' = Flag(c)
        BY <2>1 DEF Flag
      <4>. QED BY <1>a, <3>1, <3>2, <4>1 DEF Race
    <3>3. CASE parent[c] # t
      BY <1>b, <1>c, <2>1, <3>1, <3>3, RaceKept DEF TypeOK
    <3>. QED BY <3>2, <3>3
  <2>9. ASSUME NEW q \in Ranks, pc'[q] = "get"
        PROVE  (joining[parent[run[q]]] = run[q] /\ ~Running(parent[run[q]]))'
    <3>1. pc[q] = "get" /\ q # r
      BY <2>9 DEF TypeOK
    <3>2. parent[run[q]] # t
      BY <1>a, <3>1, GetThread
    <3>. QED BY <1>c, <3>1, <3>2, GetThread DEF TypeOK
  <2>. QED BY <2>8, <2>9 DEF Races
<1>6. Chains'
  BY Bare, ChainsFrame DEF TypeOK
<1>7. Exit'
  BY DEF Exit, Out, TypeOK, Tree
<1>. QED BY <1>1, <1>2, <1>3, <1>4, <1>5, <1>6, <1>7

(* The root thread ends.                                                   *)
LEMMA RootPutIInv ==
    ASSUME IInv, NEW r \in Ranks, RootPut(r)
    PROVE  IInv'
<1> USE RandWsAssumption DEF IInv, queueVars, threadVars, stateVars, mailVars,
            budgetVars
<1>t. PICK t \in Threads : run[r] = t
  BY RunsThread DEF RootPut, Idle
<1> USE <1>t
<1>a. pc[r] = "rootput" /\ Running(t) /\ Started(t) /\ Runs(r)
  BY RunsThread DEF RootPut, Idle
<1>b. t = root /\ ~retval[t] /\ t \notin evac /\ joining[t] = NoThread /\ Childless(t)
  BY <1>a DEF Runs
<1>0. /\ pc[r] = "rootput"
      /\ pc' = [pc EXCEPT ![r] = "exitput"]
      /\ retval' = [retval EXCEPT ![t] = TRUE] /\ resume_flag' = [resume_flag EXCEPT ![t] = 1]
      /\ UNCHANGED <<run, loot, queueVars, threadVars, ts, suspended, evac, joining,
                     mailVars, master, root, budgetVars>>
  BY <1>a, <1>b DEF RootPut, GoTo
<1> USE <1>0
<1>d. \A q \in Ranks : q # r => run[q] # t
  BY <1>a DEF Apart, TypeOK
<1>c. \A x \in Threads : Running(x)' <=> Running(x)
  BY RunStays
<1>1. TypeOK'
  BY <1>a DEF TypeOK, Locations, Idle
<1>2. Family'
  BY <1>b, <1>a DEF TypeOK, Family, Started, Childless
<1>3. Apart'
  BY DEF TypeOK, Apart
<1>4. Places'
  <2>1. t \in Threads /\ Running(t)
    BY <1>a
  <2>2. ASSUME NEW q \in Ranks PROVE Runs(q)'
    <3>1. Runs(q)
      BY DEF Places
    <3>2. CASE q = r
      BY <3>1, <3>2, <2>1, <1>a, <1>b DEF Runs, TypeOK, Started, Childless, Idle, Family
    <3>3. CASE q # r
      <4>1. run'[q] = run[q] /\ pc'[q] = pc[q] /\ (run[q] # NoThread => run[q] # t)
        BY <3>3, <2>1 DEF Apart, TypeOK
      <4>. QED BY <3>1, <4>1, RunFacts DEF Runs, TypeOK, Started, Childless, Idle, Family
    <3>. QED BY <3>2, <3>3
  <2>3. ASSUME NEW x \in Threads, Queued(x)'
        PROVE  (Started(x) /\ ~Running(x) /\ x \notin evac /\ joining[x] = NoThread /\ ~retval[x])'
    BY <1>b, <2>1, <2>3, <1>c, QueueStays DEF Places, TypeOK, Started
  <2>4. ASSUME NEW x \in Threads, Moving(x)'
        PROVE  (x = root /\ x \in evac /\ joining[x] = NoThread /\ ~Running(x))'
    BY <1>b, <2>1, <2>4, <1>c, MailStays DEF Places, TypeOK, Started
  <2>5. ASSUME NEW x \in Threads, (Started(x) /\ ~retval[x])'
        PROVE  (Running(x) \/ Queued(x) \/ Moving(x) \/ (x \in evac /\ joining[x] # NoThread))'
    BY <1>b, <2>1, <2>5, <1>c, QueueStays, MailStays DEF Places, TypeOK, Started, Runs, Idle
  <2>. QED BY <2>2, <2>3, <2>4, <2>5 DEF Places
<1>5. Races'
  <2>1. ASSUME NEW x \in Threads, x # t PROVE Passed(x)' <=> Passed(x)
    <3>1. \A q \in Ranks : (run'[q] = x <=> run[q] = x) /\ (run[q] = x => pc'[q] = pc[q])
      BY <2>1 DEF TypeOK
    <3>. QED BY <2>1, <3>1, PassedKept DEF TypeOK
  <2>8. ASSUME NEW c \in Threads, handler'[c] = "forked" PROVE Race(c)'
    <3>1. Race(c) /\ parent[c] \in Threads /\ c # t /\ parent[c] # t
      BY <1>b, <2>8, ForkedThread DEF Childless
    <3>. QED BY <1>c, <2>1, <3>1, RaceKept DEF TypeOK
  <2>9. ASSUME NEW q \in Ranks, pc'[q] = "get"
        PROVE  (joining[parent[run[q]]] = run[q] /\ ~Running(parent[run[q]]))'
    <3>1. pc[q] = "get" /\ q # r
      BY <2>9 DEF TypeOK
    <3>. QED BY <1>c, <3>1, GetThread DEF TypeOK
  <2>. QED BY <2>8, <2>9 DEF Races
<1>6. Chains'
  BY Bare, ChainsFrame DEF TypeOK
<1>7. Exit'
  BY <1>b DEF Exit, Out, TypeOK, Tree
<1>. QED BY <1>1, <1>2, <1>3, <1>4, <1>5, <1>6, <1>7

(* It asks rank 0 to leave the scheduling loop.                            *)
LEMMA RootRequestExitIInv ==
    ASSUME IInv, NEW r \in Ranks, RootRequestExit(r)
    PROVE  IInv'
<1> USE RandWsAssumption DEF IInv, queueVars, threadVars, stateVars, mailVars,
            budgetVars
<1>t. PICK t \in Threads : run[r] = t
  BY RunsThread DEF RootRequestExit, Idle
<1> USE <1>t
<1>a. pc[r] = "exitput" /\ Running(t) /\ Started(t) /\ Runs(r)
  BY RunsThread DEF RootRequestExit, Idle
<1>b. t = root /\ retval[t]
  BY <1>a DEF Runs
<1>0. /\ pc[r] = "exitput"
      /\ pc' = [pc EXCEPT ![r] = "sched"] /\ run' = [run EXCEPT ![r] = NoThread]
      /\ exit_request' = [exit_request EXCEPT ![0] = TRUE]
      /\ UNCHANGED <<loot, queueVars, threadVars, stateVars, evac, joining,
                     migration, fwd, master, root, budgetVars>>
  BY <1>a DEF RootRequestExit, resume_sched, Enter, GoTo
<1> USE <1>0
<1>d. \A q \in Ranks : q # r => run[q] # t
  BY <1>a DEF Apart, TypeOK
<1>c. \A x \in Threads : Running(x)' <=> (Running(x) /\ x # t)
  BY RunMove
<1>e. 0 \in Ranks /\ \A q \in Ranks : pc'[q] = "sched" /\ (q # r => pc[q] = "sched") /\ ~Out(q)
  <2>1. 0 \in Ranks
    BY DEF Ranks
  <2>2. ASSUME NEW q \in Ranks, q # r PROVE pc[q] = "sched"
    <3>1. pc[q] \in Idle
      BY <1>b, <1>d, <2>2, AllIdle
    <3>. QED BY <2>2, <3>1 DEF Exit, Out, Idle
  <2>. QED BY <2>1, <2>2 DEF TypeOK, Out
<1>f. \A x \in Threads : handler[x] = "none"
  BY <1>b, AllEnded
<1>1. TypeOK'
  BY <1>a, <1>e DEF TypeOK, Locations, Idle
<1>2. Family'
  BY DEF TypeOK, Family, Started
<1>3. Apart'
  BY DEF TypeOK, Apart
<1>4. Places'
  <2>1. t \in Threads /\ Running(t)
    BY <1>a
  <2>2. ASSUME NEW q \in Ranks PROVE Runs(q)'
    <3>1. Runs(q)
      BY DEF Places
    <3>2. CASE q = r
      BY <3>1, <3>2, <2>1, <1>a DEF Runs, TypeOK, Started, Childless, Idle, Family
    <3>3. CASE q # r
      <4>1. run'[q] = run[q] /\ pc'[q] = pc[q] /\ (run[q] # NoThread => run[q] # t)
        BY <3>3, <2>1 DEF Apart, TypeOK
      <4>. QED BY <3>1, <4>1, RunFacts DEF Runs, TypeOK, Started, Childless, Idle, Family
    <3>. QED BY <3>2, <3>3
  <2>3. ASSUME NEW x \in Threads, Queued(x)'
        PROVE  (Started(x) /\ ~Running(x) /\ x \notin evac /\ joining[x] = NoThread /\ ~retval[x])'
    BY <1>b, <2>1, <2>3, <1>c, QueueStays DEF Places, TypeOK, Started
  <2>4. ASSUME NEW x \in Threads, Moving(x)'
        PROVE  (x = root /\ x \in evac /\ joining[x] = NoThread /\ ~Running(x))'
    BY <1>b, <2>1, <2>4, <1>c, MailStays DEF Places, TypeOK, Started
  <2>5. ASSUME NEW x \in Threads, (Started(x) /\ ~retval[x])'
        PROVE  (Running(x) \/ Queued(x) \/ Moving(x) \/ (x \in evac /\ joining[x] # NoThread))'
    BY <1>b, <2>1, <2>5, <1>c, QueueStays, MailStays DEF Places, TypeOK, Started, Runs, Idle
  <2>. QED BY <2>2, <2>3, <2>4, <2>5 DEF Places
<1>5. Races'
  BY <1>e, <1>f DEF Races
<1>6. Chains'
  BY Bare, ChainsFrame DEF TypeOK
<1>7. Exit'
  <2>1. \A q \in Ranks : 0 \notin Tree[q]
    BY TreeAbove DEF Ranks
  <2>2. \A q \in Ranks : ~exit_request[q] /\ fwd[q] = {}
    BY <1>e DEF Exit
  <2>. QED BY <1>b, <1>e, <2>1, <2>2 DEF Exit, Out, TypeOK, Tree
<1>. QED BY <1>1, <1>2, <1>3, <1>4, <1>5, <1>6, <1>7

(* A worker is asked to leave its scheduling loop.                         *)
LEMMA should_exit_sched_loopIInv ==
    ASSUME IInv, NEW r \in Ranks, should_exit_sched_loop(r)
    PROVE  IInv'
<1> USE RandWsAssumption DEF IInv, should_exit_sched_loop, GoTo, queueVars,
            threadVars, stateVars, mailVars, budgetVars
<1>1. TypeOK'
  BY TreeAbove DEF TypeOK, Locations, Idle
<1>2. Family'
  BY DEF TypeOK, Family, Started
<1>3. Apart'
  BY DEF TypeOK, Apart
<1>4. Places'
  BY RunStays, QueueStays, MailStays, RunFacts
     DEF Places, Runs, TypeOK, Family, Started, Childless, Idle
<1>5. Races'
  BY RacesFrame DEF TypeOK
<1>6. Chains'
  BY Bare, ChainsFrame DEF TypeOK
<1>7. Exit'
  <2>1. \A q \in Ranks : r \in Tree[q] => Out(q) /\ r \notin fwd[q]
    BY DEF Exit
  <2>2. \A q \in Ranks : q # r => pc'[q] = pc[q] /\ fwd'[q] = fwd[q] /\ exit_request'[q] = exit_request[q]
    BY DEF TypeOK
  <2>3. pc'[r] = "forward" /\ fwd'[r] = Tree[r] /\ Tree' = Tree /\ ~exit_request'[r] /\ r \notin Tree[r]
    BY TreeAbove DEF TypeOK, Tree, Ranks
  <2>4. root = NoThread \/ retval[root]
    BY DEF Exit
  <2>5. ASSUME NEW x \in Ranks, (Out(x) \/ exit_request[x])'
        PROVE  (\A q \in Ranks : x \in Tree[q] => Out(q) /\ x \notin fwd[q])'
    BY <2>1, <2>2, <2>3, <2>5 DEF Exit, Out
  <2>. QED BY <2>2, <2>3, <2>4, <2>5 DEF Exit, Out
<1>. QED BY <1>1, <1>2, <1>3, <1>4, <1>5, <1>6, <1>7

(* It tells the next rank below it in the tree.                            *)
LEMMA ForwardTellIInv ==
    ASSUME IInv, NEW r \in Ranks, ForwardExit(r), fwd[r] # {}
    PROVE  IInv'
<1> USE RandWsAssumption DEF IInv, queueVars, threadVars, stateVars, mailVars,
            budgetVars
<1>m. PICK m \in Ranks : m = Max(fwd[r]) /\ m \in fwd[r]
  BY MaxOfRanks DEF TypeOK
<1>0. /\ pc[r] = "forward" /\ fwd' = [fwd EXCEPT ![r] = @ \ {m}]
      /\ exit_request' = [exit_request EXCEPT ![m] = TRUE]
      /\ UNCHANGED <<pc, run, loot, queueVars, threadVars, stateVars, evac, joining,
                     migration, master, root, budgetVars>>
  BY <1>m DEF ForwardExit
<1> USE <1>m, <1>0
<1>1. TypeOK'
  BY DEF TypeOK, Locations, Idle
<1>2. Family'
  BY DEF TypeOK, Family, Started
<1>3. Apart'
  BY DEF TypeOK, Apart
<1>4. Places'
  BY RunStays, QueueStays, MailStays, RunFacts
     DEF Places, Runs, TypeOK, Family, Started, Childless, Idle
<1>5. Races'
  BY RacesFrame DEF TypeOK
<1>6. Chains'
  BY Bare, ChainsFrame DEF TypeOK
<1>7. Exit'
  <2>1. m \in Tree[r] /\ m # 0
    BY TreeAbove DEF Exit, Ranks
  <2>2. root = NoThread \/ retval[root]
    BY DEF Exit, Out
  <2>3. \A q \in Ranks : pc[q] # "exitput"
    BY DEF Exit, Out
  <2>4. pc[m] = "sched"
    <3>1. pc[m] \in Idle
      BY <2>2, <2>3, AllIdle
    <3>. QED BY <2>1, <3>1 DEF Exit, Out, Idle
  <2>5. \A q \in Ranks : m \in Tree[q] => Out(q)' /\ m \notin fwd'[q]
    BY <2>1, TreeParent DEF TypeOK, Out
  <2>6. Tree' = Tree
    BY DEF Tree
  <2>7. ASSUME NEW x \in Ranks PROVE fwd'[x] \subseteq fwd[x] /\ (x # m => exit_request'[x] = exit_request[x])
    BY DEF TypeOK
  <2>. QED BY <2>2, <2>3, <2>4, <2>5, <2>6, <2>7 DEF Exit, Out
<1>. QED BY <1>1, <1>2, <1>3, <1>4, <1>5, <1>6, <1>7

(* All are told: it leaves the scheduling loop.                            *)
LEMMA ForwardDoneIInv ==
    ASSUME IInv, NEW r \in Ranks, ForwardExit(r), fwd[r] = {}
    PROVE  IInv'
<1> USE RandWsAssumption DEF IInv, queueVars, threadVars, stateVars, mailVars,
            budgetVars
<1>0. /\ pc[r] = "forward" /\ pc' = [pc EXCEPT ![r] = IF r = master THEN "result" ELSE "barrier"]
      /\ UNCHANGED <<run, loot, queueVars, threadVars, stateVars, evac, joining,
                     mailVars, master, root, budgetVars>>
  BY DEF ForwardExit, GoTo
<1> USE <1>0
<1>1. TypeOK'
  BY DEF TypeOK, Locations, Idle
<1>2. Family'
  BY DEF TypeOK, Family, Started
<1>3. Apart'
  BY DEF TypeOK, Apart
<1>4. Places'
  BY RunStays, QueueStays, MailStays, RunFacts
     DEF Places, Runs, TypeOK, Family, Started, Childless, Idle
<1>5. Races'
  BY RacesFrame DEF TypeOK
<1>6. Chains'
  BY Bare, ChainsFrame DEF TypeOK
<1>7. Exit'
  BY DEF Exit, Out, TypeOK, Tree
<1>. QED BY <1>1, <1>2, <1>3, <1>4, <1>5, <1>6, <1>7

(* The master takes the result of the root thread.                         *)
LEMMA RootResultIInv ==
    ASSUME IInv, NEW r \in Ranks, RootResult(r)
    PROVE  IInv'
<1> USE RandWsAssumption DEF IInv, queueVars, threadVars, stateVars, mailVars,
            budgetVars
<1>b. r = master /\ pc[r] = "result" /\ root # NoThread /\ retval[root]
  BY DEF RootResult, Exit, Out
<1>t. PICK t \in Threads : root = t /\ retval[t]
  BY <1>b DEF TypeOK
<1>0. /\ pc[r] = "result" /\ r = master /\ pc' = [pc EXCEPT ![r] = "barrier"]
      /\ FreeThreadState(t) /\ root' = NoThread
      /\ UNCHANGED <<run, loot, queueVars, threadVars, evac, joining, mailVars, master,
                     budgetVars>>
  BY <1>b, <1>t DEF RootResult, GoTo
<1> USE <1>t, <1>0
<1>c. \A x \in Threads : handler[x] = "none" /\ parent[x] = NoThread /\ (x # t => ~Started(x))
  BY AllEnded
<1>d. \A q \in Ranks : pc[q] \in Idle
  BY AllIdle DEF Exit, Out
<1>e. \A q \in Ranks : run[q] = NoThread
  BY <1>d, RunFacts
<1>f. \A x \in Threads : x \notin evac /\ joining[x] = NoThread /\ ~Queued(x) /\ ~Moving(x)
  BY <1>c DEF Places, Family, Started, TypeOK
<1>1. TypeOK'
  BY DEF TypeOK, Locations, Idle, FreeThreadState
<1>2. Family'
  BY <1>c, <1>f DEF TypeOK, Family, Started, FreeThreadState
<1>3. Apart'
  BY DEF TypeOK, Apart
<1>4. Places'
  <2>1. \A q \in Ranks : pc'[q] \in Idle
    BY <1>d DEF TypeOK, Idle
  <2>2. \A x \in Threads : ~Queued(x)' /\ ~Moving(x)' /\ ~Started(x)'
    BY <1>c, <1>f, QueueStays, MailStays DEF Started
  <2>. QED BY <2>1, <2>2 DEF Places, Runs, Idle
<1>5. Races'
  <2>1. \A q \in Ranks : pc'[q] # "get"
    BY <1>d DEF TypeOK, Idle
  <2>2. \A x \in Threads : handler'[x] # "forked"
    BY <1>c
  <2>. QED BY <2>1, <2>2 DEF Races
<1>6. Chains'
  BY Bare, ChainsFrame, Zenon DEF TypeOK
<1>7. Exit'
  <2>1. \A q \in Ranks : pc[q] # "spmd" /\ pc[q] # "exitput" /\ (pc[q] = "result" => q = r)
    BY DEF Exit, Out
  <2>. QED BY <2>1 DEF Exit, Out, TypeOK, Tree
<1>. QED BY <1>1, <1>2, <1>3, <1>4, <1>5, <1>6, <1>7

(* All ranks leave root_exec().                                            *)
LEMMA BarrierIInv ==
    ASSUME IInv, Barrier
    PROVE  IInv'
<1> USE RandWsAssumption DEF IInv, queueVars, threadVars, stateVars, mailVars,
            budgetVars
<1>0. /\ pc \in [Ranks -> {"barrier"}] /\ pc' = [q \in Ranks |-> "spmd"]
      /\ UNCHANGED <<run, loot, queueVars, threadVars, stateVars, evac, joining,
                     mailVars, master, root, budgetVars>>
  BY DEF Barrier, TypeOK
<1> USE <1>0
<1>a. root = NoThread /\ \A q \in Ranks : ~exit_request[q] /\ fwd[q] = {} /\ queue[q] = <<>> /\ qlock[q] = NoRank
  BY Bare DEF Exit, TypeOK
<1>b. \A x \in Threads : handler[x] = "none"
  BY <1>a, AllEnded
<1>1. TypeOK'
  BY DEF TypeOK, Locations, Idle
<1>2. Family'
  BY DEF TypeOK, Family, Started
<1>3. Apart'
  BY DEF TypeOK, Apart
<1>4. Places'
  BY RunStays, QueueStays, MailStays, RunFacts
     DEF Places, Runs, TypeOK, Family, Started, Childless, Idle
<1>5. Races'
  BY <1>b DEF Races
<1>6. Chains'
  BY <1>a DEF Chains, Chain, Copy, TypeOK
<1>7. Exit'
  BY <1>a DEF Exit, Out, TypeOK, Tree
<1>. QED BY <1>1, <1>2, <1>3, <1>4, <1>5, <1>6, <1>7

(* The master starts the root thread, and the others their loops.          *)
LEMMA root_execIInv ==
    ASSUME IInv, NEW r \in Ranks, NEW t \in Threads, root_exec(r, t)
    PROVE  IInv'
<1> USE RandWsAssumption DEF IInv, queueVars, threadVars, stateVars, mailVars,
            budgetVars
<1>0. /\ pc \in [Ranks -> {"spmd"}] /\ pc' = [q \in Ranks |-> IF q = r THEN "thread" ELSE "sched"]
      /\ run' = [run EXCEPT ![r] = t] /\ master' = r /\ root' = t
      /\ NewThreadState(t) /\ parent' = [parent EXCEPT ![t] = NoThread]
      /\ level' = [level EXCEPT ![t] = 0] /\ forks' = 0 /\ moves' = 0
      /\ UNCHANGED <<loot, queueVars, handler, evac, joining, mailVars>>
  BY DEF root_exec, TypeOK
<1> USE <1>0
<1>a. root = NoThread /\ \A q \in Ranks : /\ ~exit_request[q] /\ fwd[q] = {}
                                        /\ queue[q] = <<>> /\ qlock[q] = NoRank
  BY Bare DEF Exit, TypeOK
<1>b. \A x \in Threads : handler[x] = "none" /\ parent[x] = NoThread /\ ~Started(x)
  BY <1>a, AllEnded
<1>c. \A q \in Ranks : run[q] = NoThread /\ migration[q] = NoThread
  <2>1. \A x \in Threads : ~Moving(x)
    BY <1>a, <1>b DEF Places
  <2>. QED BY <2>1, RunFacts DEF TypeOK, Idle, Moving
<1>d. \A x \in Threads : x \notin evac /\ joining[x] = NoThread /\ ~Queued(x) /\ ~Moving(x)
  BY <1>a, <1>b DEF Places, Family
<1>e. \A x \in Threads : Running(x)' <=> x = t
  BY <1>c DEF Running, TypeOK
<1>1. TypeOK'
  BY <1>c DEF TypeOK, Locations, Idle, NewThreadState
<1>2. Family'
  BY <1>b, <1>d DEF TypeOK, Family, Started, NewThreadState
<1>3. Apart'
  BY <1>c DEF TypeOK, Apart
<1>4. Places'
  <2>1. \A q \in Ranks : Runs(q)'
    BY <1>d DEF Runs, TypeOK, Started, NewThreadState, Idle
  <2>2. \A x \in Threads : ~Queued(x)' /\ ~Moving(x)' /\ (Started(x)' => Running(x)')
    BY <1>b, <1>d, <1>e, QueueStays, MailStays DEF Started
  <2>. QED BY <2>1, <2>2 DEF Places
<1>5. Races'
  BY <1>b DEF Races
<1>6. Chains'
  BY <1>a DEF Chains, Chain, Copy, TypeOK
<1>7. Exit'
  BY <1>a DEF Exit, Out, TypeOK, Tree
<1>. QED BY <1>1, <1>2, <1>3, <1>4, <1>5, <1>6, <1>7

(* A queue without its newest entry.                                       *)
LEMMA FrontFacts ==
    ASSUME NEW s \in Seq(Threads), s # <<>>
    PROVE  /\ Len(s) \in Nat \ {0} /\ Last(s) = s[Len(s)]
           /\ Front(s) \in Seq(Threads) /\ Len(Front(s)) = Len(s) - 1
           /\ \A i \in 1..(Len(s) - 1) : Front(s)[i] = s[i]
<1>1. Len(s) \in Nat \ {0}
  BY EmptySeq
<1>2. 1 \in Int /\ Len(s) - 1 \in Int /\ \A i \in 1..(Len(s) - 1) : s[i] \in Threads
  BY <1>1
<1>3. /\ Front(s) \in Seq(Threads)
      /\ Len(Front(s)) = IF 1 <= Len(s) - 1 THEN Len(s) - 1 - 1 + 1 ELSE 0
      /\ \A i \in 1..(Len(s) - 1 - 1 + 1) : Front(s)[i] = s[1 + i - 1]
  BY <1>2, SubSeqProperties DEF Front
<1> DEFINE n == Len(s)
<1> HIDE DEF n
<1>4. n \in Nat \ {0} /\ n = Len(s)
  BY <1>1 DEF n
<1>5. Len(Front(s)) = n - 1
  BY <1>3, <1>4
<1>6. ASSUME NEW i \in 1..(n - 1) PROVE Front(s)[i] = s[i]
  <2>1. i \in 1..(Len(s) - 1 - 1 + 1) /\ 1 + i - 1 = i
    BY <1>4
  <2>. QED BY <1>3, <2>1
<1>. QED BY <1>3, <1>4, <1>5, <1>6 DEF Last

(* An index below another one is not the last.                             *)
LEMMA IndexBelow ==
    ASSUME NEW n \in Nat, NEW i \in 1..(n + 1), NEW j \in 1..(n + 1), i < j
    PROVE  i \in 1..n /\ (j \in 1..n \/ j = n + 1)
OBVIOUS

(* As FrontFacts, for the queue without its oldest entry.                  *)
LEMMA TailFacts ==
    ASSUME NEW s \in Seq(Threads), s # <<>>
    PROVE  /\ Len(s) \in Nat \ {0} /\ Head(s) = s[1] /\ s[1] \in Threads
           /\ Tail(s) \in Seq(Threads) /\ Len(Tail(s)) = Len(s) - 1
           /\ \A i \in 1..(Len(s) - 1) : Tail(s)[i] = s[i + 1]
<1>1. Len(s) \in Nat \ {0}
  BY EmptySeq
<1>. QED BY <1>1, HeadTailProperties

(* The race stays when a continuation outside of join() moves.             *)
LEMMA RaceMoved ==
    ASSUME NEW c \in Threads, Race(c), parent[c] \in Threads,
           parent'[c] = parent[c], joining'[parent[c]] = joining[parent[c]],
           suspended'[c] = suspended[c], resume_flag'[c] = resume_flag[c],
           retval'[c] = retval[c], Passed(c)' <=> Passed(c),
           (Running(c)' <=> Running(c)) \/ ~retval[c],
           joining[parent[c]] = c =>
               /\ Running(parent[c])' <=> Running(parent[c])
               /\ parent[c] \in evac => parent[c] \in evac'
               /\ \A q \in Ranks : run'[q] = parent[c] => run[q] = parent[c] /\ pc'[q] = pc[q]
    PROVE  Race(c)'
<1>1. Flag(c)' = Flag(c)
  BY DEF Flag
<1>2. ~retval[c] => ~Passed(c)
  BY DEF Passed
<1>. QED BY <1>1, <1>2 DEF Race

(* The newest entry of a queue is the parent of the thread that runs.      *)
LEMMA NewestIsParent ==
    ASSUME IInv, NEW r \in Ranks, queue[r] # <<>>
    PROVE  Last(queue[r]) = parent[run[r]] /\ parent[run[r]] \in Threads
<1>1. queue[r] \in Seq(Threads)
  BY DEF IInv, TypeOK
<1>2. Len(queue[r]) \in 1..Len(queue[r]) /\ queue[r][Len(queue[r])] \in Threads
  BY <1>1, FrontFacts
<1>3. parent[run[r]] = queue[r][Len(queue[r])]
  BY <1>2 DEF IInv, Chains, Chain, Above
<1>. QED BY <1>2, <1>3 DEF Last

(* A thread that finds its parent in the queue is serialized.              *)
LEMMA SerializeIInv ==
    ASSUME IInv, NEW r \in Ranks, Serialize(r)
    PROVE  IInv'
<1> USE RandWsAssumption DEF IInv, queueVars, threadVars, stateVars, mailVars,
            budgetVars
<1>t. PICK t \in Threads : run[r] = t
  BY RunsThread DEF Serialize, Idle
<1> USE <1>t
<1>a. pc[r] = "pop" /\ Running(t) /\ Started(t) /\ Runs(r)
  BY RunsThread DEF Serialize, Idle
<1>s. PICK s \in Seq(Threads) : s = queue[r] /\ s # <<>>
  BY DEF Serialize, TypeOK
<1> USE <1>s
<1>n. PICK n \in Nat \ {0} : /\ n = Len(s) /\ Front(s) \in Seq(Threads) /\ Len(Front(s)) = n - 1
                            /\ \A i \in 1..(n - 1) : Front(s)[i] = s[i]
  BY FrontFacts
<1>l. PICK l \in Threads : parent[t] = l /\ l = s[n]
  BY <1>n, NewestIsParent, FrontFacts
<1> USE <1>l
<1>b. /\ t \notin evac /\ joining[t] = NoThread /\ ~retval[t] /\ t # root /\ Childless(t)
      /\ handler[t] = "forked"
  BY <1>a DEF Runs, Started
<1>e. /\ Queued(l) /\ ~Running(l) /\ Started(l) /\ l # t
      /\ l \notin evac /\ joining[l] = NoThread /\ ~retval[l]
  <2>1. Queued(l)
    BY <1>n DEF Queued
  <2>. QED BY <1>a, <2>1 DEF Places
<1>0. /\ pc[r] = "pop"
      /\ pc' = [pc EXCEPT ![r] = "thread"] /\ run' = [run EXCEPT ![r] = l]
      /\ queue' = [queue EXCEPT ![r] = Front(s)]
      /\ FreeThreadState(t) /\ handler' = [handler EXCEPT ![t] = "serialized"]
      /\ UNCHANGED <<loot, qlock, parent, level, evac, joining, mailVars, master, root,
                     budgetVars>>
  BY <1>a DEF Serialize, Enter, GoTo
<1> USE <1>0
<1>d. \A q \in Ranks : q # r => run[q] # t
  BY <1>a DEF Apart, TypeOK
<1>c. \A x \in Threads : Running(x)' <=> (x = l \/ (Running(x) /\ x # t))
  BY RunMove
<1>f. \A x \in Threads : Queued(x)' <=> (Queued(x) /\ x # l)
  <2>1. ASSUME NEW q \in Ranks, NEW i \in 1..Len(queue'[q])
        PROVE  i \in 1..Len(queue[q]) /\ queue'[q][i] = queue[q][i] /\ (q = r => i # n)
    <3>1. CASE q = r
      <4>1. queue'[q] = Front(s) /\ queue[q] = s /\ i \in 1..(n - 1)
        BY <1>n, <3>1 DEF TypeOK
      <4>. QED BY <1>n, <4>1
    <3>2. CASE q # r
      BY <3>2 DEF TypeOK
    <3>. QED BY <3>1, <3>2
  <2>2. ASSUME NEW q \in Ranks, NEW i \in 1..Len(queue[q]), ~(q = r /\ i = n)
        PROVE  i \in 1..Len(queue'[q]) /\ queue'[q][i] = queue[q][i]
    <3>1. CASE q = r
      <4>1. queue'[q] = Front(s) /\ queue[q] = s /\ i \in 1..(n - 1)
        BY <1>n, <2>2, <3>1 DEF TypeOK
      <4>. QED BY <1>n, <4>1
    <3>2. CASE q # r
      BY <3>2 DEF TypeOK
    <3>. QED BY <3>1, <3>2
  <2>3. \A q \in Ranks : \A i \in 1..Len(queue[q]) : queue[q][i] = l <=> q = r /\ i = n
    BY <1>n DEF Apart, TypeOK
  <2>4. ASSUME NEW x \in Threads, Queued(x)' PROVE Queued(x) /\ x # l
    BY <2>1, <2>3, <2>4 DEF Queued
  <2>5. ASSUME NEW x \in Threads, Queued(x), x # l PROVE Queued(x)'
    <3>1. PICK q \in Ranks : \E i \in 1..Len(queue[q]) : queue[q][i] = x
      BY <2>5 DEF Queued
    <3>2. PICK i \in 1..Len(queue[q]) : queue[q][i] = x
      BY <3>1
    <3>. QED BY <2>2, <2>3, <2>5, <3>2 DEF Queued
  <2>. QED BY <2>4, <2>5
<1>g. \A x \in Threads : parent[x] # t /\ joining[x] # t
  BY <1>b, <1>e DEF Childless, Family
<1>1. TypeOK'
  BY <1>n DEF TypeOK, Locations, Idle, FreeThreadState
<1>2. Family'
  BY <1>b, <1>e, <1>g DEF TypeOK, Family, Started, FreeThreadState
<1>3. Apart'
  <2>1. ASSUME NEW q \in Ranks, NEW i \in 1..Len(queue'[q])
        PROVE  i \in 1..Len(queue[q]) /\ queue'[q][i] = queue[q][i]
    <3>1. CASE q = r
      <4>1. queue'[q] = Front(s) /\ queue[q] = s /\ i \in 1..(n - 1)
        BY <1>n, <3>1 DEF TypeOK
      <4>. QED BY <1>n, <4>1
    <3>2. CASE q # r
      BY <3>2 DEF TypeOK
    <3>. QED BY <3>1, <3>2
  <2>2. \A q \in Ranks : run[q] # l
    BY <1>e DEF Running
  <2>. QED BY SMTT(30), <2>1, <2>2 DEF TypeOK, Apart
<1>4. Places'
  <2>1. t \in Threads /\ Running(t)
    BY <1>a
  <2>2. ASSUME NEW q \in Ranks PROVE Runs(q)'
    <3>1. Runs(q)
      BY DEF Places
    <3>2. CASE q = r
      BY <3>1, <3>2, <2>1, <1>a, <1>e
         DEF Runs, TypeOK, FreeThreadState, Started, Childless, Idle, Family
    <3>3. CASE q # r
      <4>1. run'[q] = run[q] /\ pc'[q] = pc[q] /\ (run[q] # NoThread => run[q] # t)
        BY <3>3, <2>1 DEF Apart, TypeOK, FreeThreadState
      <4>2. run[q] # NoThread => /\ handler'[run[q]] = handler[run[q]]
                                 /\ retval'[run[q]] = retval[run[q]] /\ joining'[run[q]] = joining[run[q]]
        BY <4>1, RunFacts DEF TypeOK, FreeThreadState
      <4>. QED BY <3>1, <4>1, <4>2, RunFacts DEF Runs, TypeOK, Started, Childless, Idle
    <3>. QED BY <3>2, <3>3
  <2>3. ASSUME NEW x \in Threads, Queued(x)'
        PROVE  (Started(x) /\ ~Running(x) /\ x \notin evac /\ joining[x] = NoThread /\ ~retval[x])'
    BY <1>b, <1>e, <1>g, <2>1, <2>3, <1>c, <1>f DEF Places, TypeOK, FreeThreadState, Started
  <2>4. ASSUME NEW x \in Threads, Moving(x)'
        PROVE  (x = root /\ x \in evac /\ joining[x] = NoThread /\ ~Running(x))'
    BY <1>b, <1>e, <1>g, <2>1, <2>4, <1>c, MailStays DEF Places, TypeOK, FreeThreadState, Started
  <2>5. ASSUME NEW x \in Threads, (Started(x) /\ ~retval[x])'
        PROVE  (Running(x) \/ Queued(x) \/ Moving(x) \/ (x \in evac /\ joining[x] # NoThread))'
    BY <1>b, <1>e, <1>g, <2>1, <2>5, <1>c, <1>f, MailStays
       DEF Places, TypeOK, FreeThreadState, Started, Runs, Idle
  <2>. QED BY <2>2, <2>3, <2>4, <2>5 DEF Places
<1>5. Races'
  <2>1. ASSUME NEW x \in Threads, x # t PROVE Passed(x)' <=> Passed(x)
    <3>1. retval'[x] = retval[x]
      BY <2>1 DEF FreeThreadState, TypeOK
    <3>2. CASE x = l
      BY <1>e, <3>1, <3>2 DEF Passed
    <3>3. CASE x # l
      <4>1. \A q \in Ranks : (run'[q] = x <=> run[q] = x) /\ (run[q] = x => pc'[q] = pc[q])
        BY <2>1, <3>3 DEF TypeOK
      <4>. QED BY <3>1, <4>1, PassedKept
    <3>. QED BY <3>2, <3>3
  <2>8. ASSUME NEW x \in Threads, handler'[x] = "forked" PROVE Race(x)'
    <3>1. x # t /\ handler[x] = "forked"
      BY <2>8 DEF TypeOK
    <3>2. Race(x) /\ parent[x] \in Threads /\ parent[x] # t
      BY <1>g, <3>1, ForkedThread
    <3>3. joining[parent[x]] = x => parent[x] # l
      BY <1>e
    <3>4. (Running(x)' <=> Running(x)) \/ ~retval[x]
      BY <1>c, <1>e, <3>1
    <3>. QED BY <1>c, <2>1, <3>1, <3>2, <3>3, <3>4, RaceMoved DEF TypeOK, FreeThreadState
  <2>9. ASSUME NEW q \in Ranks, pc'[q] = "get"
        PROVE  (joining[parent[run[q]]] = run[q] /\ ~Running(parent[run[q]]))'
    <3>1. pc[q] = "get" /\ q # r
      BY <2>9 DEF TypeOK
    <3>2. parent[run[q]] # l
      BY <1>e, <3>1, GetThread
    <3>. QED BY <1>c, <3>1, <3>2, GetThread DEF TypeOK
  <2>. QED BY <2>8, <2>9 DEF Races
<1>6. Chains'
  <2> SUFFICES ASSUME NEW q \in Ranks PROVE Chain(q)' /\ Copy(q)'
    BY DEF Chains
  <2>1. Chain(q) /\ Copy(q) /\ Chain(r)
    BY DEF Chains
  <2>2. \A x, y \in Threads : Settled(x, y) => Settled(x, y)'
    BY DEF Settled, TypeOK
  <2>3. Chain(q)'
    <3>1. CASE q # r
      <4>1. pc'[q] = pc[q] /\ run'[q] = run[q] /\ queue'[q] = queue[q]
        BY <3>1 DEF TypeOK
      <4>2. \A i \in 1..Len(queue[q]) : Above(q, i)' = Above(q, i)
        BY <4>1 DEF Above
      <4>3. \A x, y : Settled(x, y) => Settled(x, y)'
        BY DEF Settled, TypeOK
      <4>. QED BY <2>1, <4>1, <4>2, <4>3 DEF Chain, Settled
    <3>2. CASE q = r
      <4>1. pc'[r] = "thread" /\ run'[r] = l /\ queue'[r] = Front(s)
        BY DEF TypeOK
      <4>2. n > 1 \/ qlock[r] # NoRank => Settled(l, NoThread)'
        <5>1. Above(r, n) = t
          BY <1>n DEF Above
        <5>2. n > 1 \/ qlock[r] # NoRank => Settled(l, t)
          BY <1>n, <2>1, <5>1 DEF Chain
        <5>. QED BY <5>2 DEF Settled, TypeOK
      <4>3. ASSUME NEW i \in 1..(n - 1)
            PROVE  /\ Above(r, i)' = Above(r, i) /\ Above(r, i) \in Threads
                   /\ Front(s)[i] = s[i] /\ s[i] \in Threads /\ i \in 1..n
                   /\ level[s[i]] < level[l]
        <5>1. i # n /\ i + 1 \in 1..n /\ i \in 1..n /\ i < n
          BY <1>n
        <5>2. Above(r, i) = s[i + 1]
          BY <1>n, <5>1 DEF Above
        <5>3. Above(r, i)' = s[i + 1]
          <6>1. CASE i = n - 1
            BY <1>n, <4>1, <6>1 DEF Above
          <6>2. CASE i # n - 1
            <7>1. i + 1 \in 1..(n - 1)
              BY <1>n, <6>2
            <7>. QED BY <1>n, <4>1, <6>2, <7>1 DEF Above
          <6>. QED BY <6>1, <6>2
        <5>4. level[s[i]] < level[s[n]]
          BY <1>n, <2>1, <5>1 DEF Chain
        <5>. QED BY <1>n, <5>1, <5>2, <5>3, <5>4
      <4>4. ASSUME NEW i \in 1..(n - 1)
            PROVE  /\ parent'[Above(r, i)'] = Front(s)[i]
                   /\ i > 1 \/ qlock[r] # NoRank => Settled(queue[r][i], Above(r, i))'
                   /\ level'[Front(s)[i]] < level'[l]
        <5>1. PICK a \in Threads : a = Above(r, i) /\ a = Above(r, i)'
          BY <4>3
        <5>2. parent[a] = s[i] /\ (i > 1 \/ qlock[r] # NoRank => Settled(s[i], a))
          BY <1>n, <2>1, <4>3, <5>1 DEF Chain
        <5>3. i > 1 \/ qlock[r] # NoRank => Settled(s[i], a)'
          BY <2>2, <4>3, <5>2
        <5>. QED BY <4>1, <4>3, <5>1, <5>2, <5>3 DEF Settled
      <4>5. ASSUME NEW i \in 1..(n - 1), NEW j \in 1..(n - 1), i < j
            PROVE  level'[Front(s)[i]] < level'[Front(s)[j]]
        BY <1>n, <2>1, <4>3, <4>5 DEF Chain
      <4>6. Front(s) # <<>> => n > 1
        BY <1>n, EmptySeq
      <4>. QED BY <1>n, <3>2, <4>1, <4>2, <4>4, <4>5, <4>6 DEF Chain
    <3>. QED BY <3>1, <3>2
  <2>4. Copy(q)'
    <3>1. pc'[q] = "copy" <=> pc[q] = "copy"
      BY DEF TypeOK
    <3>2. ASSUME pc[q] = "copy"
          PROVE  /\ level[run[q]] < level[run'[loot[q]]] /\ run'[q] = run[q]
                 /\ run'[loot[q]] # NoThread
                 /\ \A i \in 1..Len(queue'[loot[q]]) : level[run[q]] < level[queue'[loot[q]][i]]
      <4>1. loot[q] \in Ranks /\ q # r
        BY <2>1, <3>2 DEF Copy, TypeOK
      <4>2. CASE loot[q] = r
        <5>1. run'[r] = l /\ run'[q] = run[q] /\ queue'[r] = Front(s)
          BY <4>1 DEF TypeOK
        <5>2. \A i \in 1..n : level[run[q]] < level[s[i]]
          BY <1>n, <2>1, <3>2, <4>2 DEF Copy
        <5>3. \A i \in 1..(n - 1) : i \in 1..n /\ Front(s)[i] = s[i]
          BY <1>n
        <5>4. level[run[q]] < level[l] /\ l # NoThread
          BY <1>n, <5>2
        <5>5. ASSUME NEW i \in 1..Len(Front(s)) PROVE level[run[q]] < level[Front(s)[i]]
          BY <1>n, <5>2, <5>3
        <5>. QED BY <4>2, <5>1, <5>4, <5>5, Zenon
      <4>3. CASE loot[q] # r
        BY <2>1, <3>2, <4>1, <4>3 DEF Copy, TypeOK
      <4>. QED BY <4>2, <4>3
    <3>. QED BY <2>1, <3>1, <3>2 DEF Copy
  <2>. QED BY <2>3, <2>4
<1>7. Exit'
  BY <1>b DEF Exit, Out, TypeOK, Tree, FreeThreadState
<1>. QED BY <1>1, <1>2, <1>3, <1>4, <1>5, <1>6, <1>7

(* A new name is not in use.                                               *)
LEMMA FreshNameUnused == ASSUME NEW c \in FreshNames PROVE c \in Threads /\ Unused(c)
<1> DEFINE free == {t \in Threads : Unused(t)}
<1> HIDE DEF free
<1>1. FreshNames = IF free = {} THEN {} ELSE {CHOOSE t \in free : TRUE}
  BY DEF FreshNames, free
<1>2. free # {} => (CHOOSE t \in free : TRUE) \in free
  OBVIOUS
<1>3. c \in free
  BY <1>1, <1>2
<1>. QED BY <1>3 DEF free

(* A thread forks, and its continuation goes to the queue.                 *)
LEMMA forkIInv ==
    ASSUME IInv, NEW r \in Ranks, NEW c \in Threads, fork(r, c)
    PROVE  IInv'
<1> USE RandWsAssumption DEF IInv, queueVars, threadVars, stateVars, mailVars,
            budgetVars
<1>t. PICK t \in Threads : run[r] = t
  BY RunsThread DEF fork, Idle
<1> USE <1>t
<1>a. pc[r] = "thread" /\ Running(t) /\ Started(t) /\ Runs(r)
  BY RunsThread DEF fork, Idle
<1>s. PICK s \in Seq(Threads) : s = queue[r]
  BY DEF TypeOK
<1> USE <1>s
<1>n. PICK n \in Nat : /\ n = Len(s) /\ Append(s, t) \in Seq(Threads) /\ Len(Append(s, t)) = n + 1
                     /\ \A i \in 1..n : Append(s, t)[i] = s[i] /\ s[i] \in Threads
                     /\ Append(s, t)[n + 1] = t
  <2>1. Len(s) \in Nat
    OBVIOUS
  <2>. QED BY <2>1, AppendProperties
<1>b. t \notin evac /\ joining[t] = NoThread /\ ~retval[t] /\ ~Queued(t) /\ ~Moving(t)
  BY <1>a DEF Runs, Places
<1>e. handler[c] = "none" /\ c # root /\ parent[c] = NoThread /\ ~Started(c) /\ c # t
  BY <1>a DEF fork, Unused, Family, Started
<1>g. \A x \in Threads : parent[x] # c /\ joining[x] # c
  BY <1>e DEF Family
<1>f. /\ ~Running(c) /\ ~Queued(c) /\ ~Moving(c) /\ c \notin evac /\ joining[c] = NoThread
  <2>1. ASSUME NEW q \in Ranks, run[q] = c PROVE FALSE
    BY <1>e, <2>1, RunFacts, RunsThread
  <2>. QED BY <1>e, <2>1 DEF Places, Family, Running
<1>0. /\ pc[r] = "thread"
      /\ pc' = [pc EXCEPT ![r] = "thread"] /\ run' = [run EXCEPT ![r] = c]
      /\ queue' = [queue EXCEPT ![r] = Append(s, t)]
      /\ NewThreadState(c) /\ handler' = [handler EXCEPT ![c] = "forked"]
      /\ parent' = [parent EXCEPT ![c] = t] /\ level' = [level EXCEPT ![c] = level[t] + 1]
      /\ forks < MaxForks /\ forks' = forks + 1
      /\ UNCHANGED <<loot, qlock, evac, joining, mailVars, master, root, moves>>
  BY <1>a DEF fork, Enter, GoTo
<1> USE <1>0
<1>d. \A q \in Ranks : q # r => run[q] # t
  BY <1>a DEF Apart, TypeOK
<1>c. \A x \in Threads : Running(x)' <=> (x = c \/ (Running(x) /\ x # t))
  BY RunMove
<1>k. /\ \A q \in Ranks \ {r} : queue'[q] = queue[q] /\ run'[q] = run[q] /\ pc'[q] = pc[q]
      /\ queue'[r] = Append(s, t) /\ run'[r] = c /\ pc'[r] = "thread"
  BY DEF TypeOK
<1>q. \A x \in Threads : Queued(x)' <=> (Queued(x) \/ x = t)
  <2>1. ASSUME NEW x \in Threads, Queued(x)' PROVE Queued(x) \/ x = t
    <3>1. PICK q \in Ranks : \E i \in 1..Len(queue'[q]) : queue'[q][i] = x
      BY <2>1 DEF Queued
    <3>2. PICK i \in 1..Len(queue'[q]) : queue'[q][i] = x
      BY <3>1
    <3>3. CASE q = r
      <4>1. i \in 1..n \/ i = n + 1
        BY <1>k, <1>n, <3>3
      <4>. QED BY <1>k, <1>n, <3>2, <3>3, <4>1 DEF Queued
    <3>4. CASE q # r
      BY <1>k, <3>2, <3>4 DEF Queued
    <3>. QED BY <3>3, <3>4
  <2>2. ASSUME NEW x \in Threads, Queued(x) PROVE Queued(x)'
    <3>1. PICK q \in Ranks : \E i \in 1..Len(queue[q]) : queue[q][i] = x
      BY <2>2 DEF Queued
    <3>2. PICK i \in 1..Len(queue[q]) : queue[q][i] = x
      BY <3>1
    <3>3. i \in 1..Len(queue'[q]) /\ queue'[q][i] = x
      BY <1>k, <1>n, <3>2
    <3>. QED BY <3>3 DEF Queued
  <2>3. Queued(t)'
    <3>1. n + 1 \in 1..Len(queue'[r]) /\ queue'[r][n + 1] = t
      BY <1>k, <1>n
    <3>. QED BY <3>1 DEF Queued
  <2>. QED BY <2>1, <2>2, <2>3
<1>1. TypeOK'
  BY <1>n, <1>e DEF TypeOK, Locations, Idle, NewThreadState
<1>2. Family'
  BY <1>a, <1>b, <1>e, <1>f, <1>g DEF TypeOK, Family, Started, NewThreadState
<1>3. Apart'
  <2>1. \A q \in Ranks : run[q] # c
    BY <1>f DEF Running
  <2>2. ASSUME NEW p \in Ranks, NEW q \in Ranks, NEW i \in 1..Len(queue'[p]), NEW j \in 1..Len(queue'[q]),
               queue'[p][i] = queue'[q][j]
        PROVE  p = q /\ i = j
    <3>1. ASSUME NEW o \in Ranks, NEW k \in 1..Len(queue'[o])
          PROVE  \/ k \in 1..Len(queue[o]) /\ queue'[o][k] = queue[o][k] /\ queue[o][k] # t
                 \/ o = r /\ k = n + 1 /\ queue'[o][k] = t
      <4>1. k \in 1..Len(queue[o]) => queue[o][k] # t
        BY <1>b DEF Queued
      <4>2. CASE o # r
        BY <1>k, <4>1, <4>2
      <4>3. CASE o = r
        <5>1. k \in 1..n \/ k = n + 1
          BY <1>k, <1>n, <4>3
        <5>. QED BY <1>k, <1>n, <4>1, <4>3, <5>1
      <4>. QED BY <4>2, <4>3
    <3>. QED BY <2>2, <3>1 DEF Apart
  <2>3. \A p, q \in Ranks : run'[p] = run'[q] /\ run'[p] # NoThread => p = q
    BY <2>1 DEF TypeOK, Apart
  <2>4. \A p, q \in Ranks : migration'[p] = migration'[q] /\ migration'[p] # NoThread => p = q
    BY DEF Apart
  <2>. QED BY <2>2, <2>3, <2>4 DEF Apart
<1>4. Places'
  <2>1. t \in Threads /\ Running(t)
    BY <1>a
  <2>2. ASSUME NEW q \in Ranks PROVE Runs(q)'
    <3>1. Runs(q)
      BY DEF Places
    <3>2. CASE q = r
      BY <3>1, <3>2, <2>1, <1>a, <1>f, <1>g
         DEF Runs, TypeOK, NewThreadState, Started, Childless, Idle, Family
    <3>3. CASE q # r
      <4>1. run'[q] = run[q] /\ pc'[q] = pc[q] /\ (run[q] # NoThread => run[q] # t)
        BY <3>3, <2>1 DEF Apart, TypeOK, NewThreadState
      <4>3. run[q] # c
        BY <1>f DEF Running
      <4>2. run[q] # NoThread => /\ handler'[run[q]] = handler[run[q]]
                                 /\ retval'[run[q]] = retval[run[q]] /\ joining'[run[q]] = joining[run[q]]
        BY <4>1, <4>3, RunFacts DEF TypeOK, NewThreadState
      <4>4. pc[q] \in {"pop", "put", "rootput"} => Childless(run[q])'
        BY <3>1, <4>1, RunFacts DEF Runs, Childless, TypeOK, Idle
      <4>. QED BY <3>1, <4>1, <4>2, <4>4, RunFacts DEF Runs, TypeOK, Started, Idle
    <3>. QED BY <3>2, <3>3
  <2>3. ASSUME NEW x \in Threads, Queued(x)'
        PROVE  (Started(x) /\ ~Running(x) /\ x \notin evac /\ joining[x] = NoThread /\ ~retval[x])'
    BY <1>a, <1>b, <1>e, <1>f, <2>1, <2>3, <1>c, <1>q DEF Places, TypeOK, NewThreadState, Started
  <2>4. ASSUME NEW x \in Threads, Moving(x)'
        PROVE  (x = root /\ x \in evac /\ joining[x] = NoThread /\ ~Running(x))'
    BY <1>a, <1>b, <1>e, <1>f, <2>1, <2>4, <1>c, MailStays
       DEF Places, TypeOK, NewThreadState, Started
  <2>5. ASSUME NEW x \in Threads, (Started(x) /\ ~retval[x])'
        PROVE  (Running(x) \/ Queued(x) \/ Moving(x) \/ (x \in evac /\ joining[x] # NoThread))'
    BY <1>a, <1>b, <1>e, <1>f, <2>1, <2>5, <1>c, <1>q, MailStays
       DEF Places, TypeOK, NewThreadState, Started, Runs, Idle
  <2>. QED BY <2>2, <2>3, <2>4, <2>5 DEF Places
<1>5. Races'
  <2>1. ASSUME NEW x \in Threads, x # c PROVE Passed(x)' <=> Passed(x)
    <3>1. retval'[x] = retval[x]
      BY <2>1 DEF NewThreadState, TypeOK
    <3>2. CASE x = t
      BY <1>b, <3>1, <3>2 DEF Passed
    <3>3. CASE x # t
      <4>1. \A q \in Ranks : (run'[q] = x <=> run[q] = x) /\ (run[q] = x => pc'[q] = pc[q])
        BY <2>1, <3>3 DEF TypeOK
      <4>. QED BY <3>1, <4>1, PassedKept
    <3>. QED BY <3>2, <3>3
  <2>8. ASSUME NEW x \in Threads, handler'[x] = "forked" PROVE Race(x)'
    <3>1. CASE x = c
      <4>1. parent'[c] = t /\ joining'[t] # c /\ suspended'[c] = NoThread /\ resume_flag'[c] = 0 /\ ~retval'[c]
        BY <1>b DEF NewThreadState, TypeOK
      <4>2. Flag(c)' = 0
        BY <4>1 DEF Flag, Passed
      <4>. QED BY <3>1, <4>1, <4>2 DEF Race
    <3>2. CASE x # c
      <4>1. handler[x] = "forked"
        BY <2>8, <3>2 DEF TypeOK
      <4>2. Race(x) /\ parent[x] \in Threads /\ parent[x] # c
        BY <1>g, <4>1, ForkedThread
      <4>3. joining[parent[x]] = x => parent[x] # t
        BY <1>b
      <4>4. (Running(x)' <=> Running(x)) \/ ~retval[x]
        BY <1>b, <1>c, <3>2
      <4>. QED BY <1>c, <2>1, <3>2, <4>1, <4>2, <4>3, <4>4, RaceMoved DEF TypeOK, NewThreadState
    <3>. QED BY <3>1, <3>2
  <2>9. ASSUME NEW q \in Ranks, pc'[q] = "get"
        PROVE  (joining[parent[run[q]]] = run[q] /\ ~Running(parent[run[q]]))'
    <3>1. pc[q] = "get" /\ q # r
      BY <2>9 DEF TypeOK
    <3>2. run[q] # c /\ parent[run[q]] # c
      BY <1>f, <1>g, <3>1, GetThread DEF Running
    <3>. QED BY <1>c, <3>1, <3>2, GetThread DEF TypeOK
  <2>. QED BY <2>8, <2>9 DEF Races
<1>6. Chains'
  <2> SUFFICES ASSUME NEW q \in Ranks PROVE Chain(q)' /\ Copy(q)'
    BY DEF Chains
  <2>1. Chain(q) /\ Copy(q) /\ Chain(r)
    BY DEF Chains
  <2>2. \A x \in Threads : \A y : x # t /\ Settled(x, y) => Settled(x, y)'
    BY DEF Settled, TypeOK
  <2>3. \A x \in Threads : x # c => level'[x] = level[x] /\ parent'[x] = parent[x]
    BY DEF TypeOK
  <2>4. \A o \in Ranks : \A i \in 1..Len(queue[o]) :
           queue[o][i] \in Threads /\ queue[o][i] # t /\ queue[o][i] # c
    BY <1>b, <1>f DEF Queued, TypeOK
  <2>5. \A o \in Ranks : run[o] # c
    BY <1>f DEF Running
  <2>6. Chain(q)'
    <3>1. CASE q # r
      <4>1. pc'[q] = pc[q] /\ run'[q] = run[q] /\ queue'[q] = queue[q] /\ run[q] # t
        BY <1>d, <1>k, <3>1
      <4>2. CASE queue[q] = <<>> /\ qlock[q] = NoRank
        BY <4>1, <4>2 DEF Chain
      <4>3. CASE ~(queue[q] = <<>> /\ qlock[q] = NoRank)
        <5>1. run[q] \in Threads /\ pc[q] \in {"thread", "pop"} /\ Settled(run[q], NoThread)
          BY <2>1, <4>3, RunFacts DEF Chain, Idle
        <5>2. Settled(run[q], NoThread)'
          <6>1. PICK z \in Threads : z = run[q] /\ z # t
            BY <4>1, <5>1
          <6>2. Settled(z, NoThread)'
            BY <2>2, <5>1, <6>1
          <6>. QED BY <4>1, <6>1, <6>2 DEF Settled
        <5>3. ASSUME NEW i \in 1..Len(queue[q])
              PROVE  /\ parent'[Above(q, i)'] = queue[q][i]
                     /\ i > 1 \/ qlock[q] # NoRank => Settled(queue[q][i], Above(q, i))'
                     /\ level'[queue[q][i]] < level'[run[q]]
          <6>1. PICK a \in Threads : a = Above(q, i) /\ a = Above(q, i)' /\ a # c
            BY SMTT(30), <2>4, <2>5, <4>1, <5>1 DEF Above, TypeOK
          <6>2. PICK z \in Threads : z = queue[q][i] /\ z # t /\ z # c
            BY <2>4
          <6>3. /\ parent[a] = z /\ level[z] < level[run[q]]
                /\ i > 1 \/ qlock[q] # NoRank => Settled(z, a)
            BY <2>1, <6>1, <6>2 DEF Chain
          <6>4. i > 1 \/ qlock[q] # NoRank => Settled(z, a)'
            BY <2>2, <6>2, <6>3
          <6>5. i > 1 \/ qlock[q] # NoRank => Settled(queue[q][i], Above(q, i))'
            BY <4>1, <6>1, <6>2, <6>4 DEF Settled
          <6>. QED BY <2>3, <2>5, <5>1, <6>1, <6>2, <6>3, <6>5
        <5>4. ASSUME NEW i \in 1..Len(queue[q]), NEW j \in 1..Len(queue[q]), i < j
              PROVE  level'[queue[q][i]] < level'[queue[q][j]]
          BY <2>1, <2>3, <2>4, <5>4 DEF Chain
        <5>. QED BY <4>1, <5>1, <5>2, <5>3, <5>4 DEF Chain
      <4>. QED BY <4>2, <4>3
    <3>2. CASE q = r
      <4>1. Settled(c, NoThread)'
        BY <1>g, <1>e DEF Settled, TypeOK
      <4>2. level'[c] = level[t] + 1 /\ parent'[c] = t /\ level'[t] = level[t] /\ level[t] \in Nat
        BY <1>e DEF TypeOK
      <4>3. n > 0 \/ qlock[r] # NoRank => Settled(t, c)'
        <5>1. n > 0 \/ qlock[r] # NoRank => Settled(t, NoThread)
          <6>1. n > 0 => s # <<>>
            BY <1>n, EmptySeq
          <6>. QED BY <2>1, <6>1 DEF Chain
        <5>. QED BY <5>1 DEF Settled, TypeOK
      <4>4. ASSUME NEW i \in 1..n
            PROVE  /\ parent'[Above(r, i)'] = s[i] /\ queue'[r][i] = s[i]
                   /\ i > 1 \/ qlock[r] # NoRank => Settled(queue[r][i], Above(r, i))'
                   /\ level'[s[i]] < level'[c] /\ level'[s[i]] < level'[t]
        <5>1. s[i] \in Threads /\ s[i] # t /\ s[i] # c /\ queue'[r][i] = s[i]
          BY <1>k, <1>n, <2>4
        <5>2. PICK a \in Threads : a = Above(r, i) /\ a = Above(r, i)' /\ a # c
          <6>1. CASE i = n
            <7>1. Above(r, i) = t
              BY <1>n, <6>1 DEF Above
            <7>2. Above(r, i)' = t
              BY <1>k, <1>n, <6>1 DEF Above
            <7>. QED BY <1>e, <7>1, <7>2
          <6>2. CASE i # n
            <7>1. i + 1 \in 1..n /\ i # n + 1
              BY <1>n, <6>2
            <7>2. Above(r, i) = s[i + 1]
              BY <1>n, <6>2, <7>1 DEF Above
            <7>3. Above(r, i)' = s[i + 1]
              BY <1>k, <1>n, <7>1 DEF Above
            <7>. QED BY <1>n, <2>4, <7>1, <7>2, <7>3
          <6>. QED BY <6>1, <6>2
        <5>3. parent[a] = s[i] /\ (i > 1 \/ qlock[r] # NoRank => Settled(s[i], a)) /\ level[s[i]] < level[t]
          BY <1>n, <2>1, <5>2 DEF Chain
        <5>4. i > 1 \/ qlock[r] # NoRank => Settled(s[i], a)'
          BY <2>2, <5>1, <5>3
        <5>5. i > 1 \/ qlock[r] # NoRank => Settled(queue[r][i], Above(r, i))'
          BY <5>1, <5>2, <5>4 DEF Settled
        <5>6. level[s[i]] \in Nat
          BY <5>1 DEF TypeOK
        <5>7. level'[s[i]] < level'[c] /\ level'[s[i]] < level'[t]
          BY <2>3, <4>2, <5>1, <5>3, <5>6
        <5>8. parent'[Above(r, i)'] = s[i]
          BY <2>3, <5>2, <5>3
        <5>. QED BY <5>1, <5>5, <5>7, <5>8
      <4>5. ASSUME NEW i \in 1..(n + 1), i = n + 1
            PROVE  /\ Above(r, i)' = c /\ queue'[r][i] = t
                   /\ i > 1 \/ qlock[r] # NoRank => Settled(queue[r][i], Above(r, i))'
        <5>1. Above(r, i)' = c /\ queue'[r][i] = t
          BY <1>k, <1>n, <4>5 DEF Above
        <5>2. i > 1 => n > 0
          BY <1>n, <4>5
        <5>. QED BY <4>3, <5>1, <5>2 DEF Settled
      <4>6. ASSUME NEW i \in 1..(n + 1)
            PROVE  /\ parent'[Above(r, i)'] = queue'[r][i]
                   /\ i > 1 \/ qlock[r] # NoRank => Settled(queue[r][i], Above(r, i))'
                   /\ level'[queue'[r][i]] < level'[c]
        <5>1. i \in 1..n \/ i = n + 1
          BY <1>n
        <5>2. CASE i \in 1..n
          BY <4>4, <5>2
        <5>3. CASE i = n + 1
          <6>1. level'[t] < level'[c]
            BY <4>2
          <6>. QED BY <4>2, <4>5, <5>3, <6>1
        <5>. QED BY <5>1, <5>2, <5>3
      <4>7. ASSUME NEW i \in 1..(n + 1), NEW j \in 1..(n + 1), i < j
            PROVE  level'[queue'[r][i]] < level'[queue'[r][j]]
        <5>1. i \in 1..n /\ (j \in 1..n \/ j = n + 1)
          BY <1>n, <4>7, IndexBelow, Zenon
        <5>2. CASE j \in 1..n
          <6>1. level[s[i]] < level[s[j]]
            BY <1>n, <2>1, <4>7, <5>1, <5>2 DEF Chain
          <6>. QED BY <1>n, <2>3, <2>4, <4>4, <5>1, <5>2, <6>1
        <5>3. CASE j = n + 1
          BY <4>4, <4>5, <5>1, <5>3
        <5>. QED BY <5>1, <5>2, <5>3
      <4>8. Len(queue'[r]) = n + 1 /\ pc'[r] \in {"thread", "pop"} /\ run'[r] = c
        BY <1>k, <1>n
      <4>9. Settled(run[r], NoThread)'
        BY <4>1, <4>8 DEF Settled
      <4>. QED BY <3>2, <4>6, <4>7, <4>8, <4>9 DEF Chain
    <3>. QED BY <3>1, <3>2
  <2>7. Copy(q)'
    <3>1. pc'[q] = "copy" <=> pc[q] = "copy"
      BY DEF TypeOK
    <3>2. ASSUME pc[q] = "copy"
          PROVE  /\ level'[run[q]] < level'[run'[loot[q]]] /\ run'[q] = run[q]
                 /\ run'[loot[q]] # NoThread
                 /\ \A i \in 1..Len(queue'[loot[q]]) : level'[run[q]] < level'[queue'[loot[q]][i]]
      <4>1. loot[q] \in Ranks /\ q # r /\ run[q] \in Threads /\ run[loot[q]] \in Threads /\ run'[q] = run[q]
        <5>1. loot[q] \in Ranks /\ q # r /\ run[q] \in Threads
          BY <2>1, <3>2, RunFacts DEF Copy, TypeOK, Idle
        <5>. QED BY <1>k, <2>1, <3>2, <5>1, RunFacts DEF Copy
      <4>2. CASE loot[q] = r
        <5>1. level[run[q]] < level[t] /\ \A i \in 1..n : level[run[q]] < level[s[i]]
          BY <1>n, <2>1, <3>2, <4>2 DEF Copy
        <5>2. level'[run[q]] = level[run[q]] /\ level[run[q]] \in Nat
          BY <2>3, <2>5, <4>1 DEF TypeOK
        <5>3. level'[c] = level[t] + 1 /\ level'[t] = level[t] /\ level[t] \in Nat
          BY <1>e DEF TypeOK
        <5>4. ASSUME NEW i \in 1..(n + 1) PROVE level[run[q]] < level'[queue'[r][i]]
          <6>1. i \in 1..n \/ i = n + 1
            BY <1>n
          <6>2. CASE i \in 1..n
            BY <1>k, <1>n, <2>3, <2>4, <5>1, <6>2
          <6>3. CASE i = n + 1
            BY <1>k, <1>n, <5>1, <5>3, <6>3
          <6>. QED BY <6>1, <6>2, <6>3
        <5>5. run'[r] = c /\ c # NoThread /\ Len(queue'[r]) = n + 1
          BY <1>k, <1>n
        <5>6. level'[run[q]] < level'[c]
          BY <5>1, <5>2, <5>3
        <5>7. ASSUME NEW i \in 1..Len(queue'[r]) PROVE level'[run[q]] < level'[queue'[r][i]]
          BY <5>2, <5>4, <5>5
        <5>. QED BY <4>1, <4>2, <5>5, <5>6, <5>7, Zenon
      <4>3. CASE loot[q] # r
        BY <1>k, <2>1, <2>3, <2>4, <2>5, <3>2, <4>1, <4>3 DEF Copy
      <4>. QED BY <4>2, <4>3
    <3>. QED BY <2>1, <3>1, <3>2 DEF Copy
  <2>. QED BY <2>6, <2>7
<1>7. Exit'
  BY <1>e DEF Exit, Out, TypeOK, Tree, NewThreadState
<1>. QED BY <1>1, <1>2, <1>3, <1>4, <1>5, <1>6, <1>7

(* A thief takes the oldest entry and holds the lock of the queue.         *)
LEMMA StealTakeIInv ==
    ASSUME IInv, NEW r \in Ranks, NEW v \in Ranks, StealTake(r, v)
    PROVE  IInv'
<1> USE RandWsAssumption DEF IInv, queueVars, threadVars, stateVars, mailVars,
            budgetVars
<1>s. PICK s \in Seq(Threads) : s = queue[v] /\ s # <<>>
  BY DEF StealTake, TypeOK
<1>n. PICK n \in Nat \ {0} : /\ n = Len(s) /\ Tail(s) \in Seq(Threads) /\ Len(Tail(s)) = n - 1
                            /\ \A i \in 1..(n - 1) : Tail(s)[i] = s[i + 1]
  BY <1>s, TailFacts
<1>h. PICK h \in Threads : h = Head(s) /\ h = s[1]
  BY <1>s, TailFacts
<1>0. /\ pc[r] = "sched" /\ ~exit_request[r] /\ v # r /\ qlock[v] = NoRank
      /\ pc' = [pc EXCEPT ![r] = "copy"] /\ run' = [run EXCEPT ![r] = h]
      /\ queue' = [queue EXCEPT ![v] = Tail(s)]
      /\ qlock' = [qlock EXCEPT ![v] = r] /\ loot' = [loot EXCEPT ![r] = v]
      /\ UNCHANGED <<threadVars, stateVars, evac, joining, mailVars, master, root, budgetVars>>
  BY <1>s, <1>h DEF StealTake, Enter, GoTo
<1> USE <1>0
<1>b. run[r] = NoThread /\ queue[r] = <<>> /\ qlock[r] = NoRank /\ loot[r] = NoRank /\ r # NoRank
  BY RunFacts, Bare DEF Idle, Chains, Copy
<1>e. /\ Queued(h) /\ ~Running(h) /\ Started(h)
      /\ h \notin evac /\ joining[h] = NoThread /\ ~retval[h]
  <2>1. Queued(h)
    BY <1>s, <1>n, <1>h DEF Queued
  <2>. QED BY <2>1 DEF Places
<1>c. \A x \in Threads : Running(x)' <=> (x = h \/ Running(x))
  BY <1>b, RunMove
<1>k. /\ \A q \in Ranks \ {v} : queue'[q] = queue[q] /\ qlock'[q] = qlock[q]
      /\ queue'[v] = Tail(s) /\ qlock'[v] = r
      /\ \A q \in Ranks \ {r} : run'[q] = run[q] /\ pc'[q] = pc[q] /\ loot'[q] = loot[q]
      /\ run'[r] = h /\ pc'[r] = "copy" /\ loot'[r] = v
  BY DEF TypeOK
<1>m. \A q \in Ranks : \A i \in 1..Len(queue[q]) : queue[q][i] = h <=> q = v /\ i = 1
  BY <1>s, <1>n, <1>h DEF Apart
<1>q. \A x \in Threads : Queued(x)' <=> (Queued(x) /\ x # h)
  <2>1. ASSUME NEW x \in Threads, Queued(x)' PROVE Queued(x) /\ x # h
    <3>1. PICK q \in Ranks : \E i \in 1..Len(queue'[q]) : queue'[q][i] = x
      BY <2>1 DEF Queued
    <3>2. PICK i \in 1..Len(queue'[q]) : queue'[q][i] = x
      BY <3>1
    <3>3. CASE q = v
      <4>0. i \in 1..(n - 1)
        BY <1>k, <1>n, <3>3
      <4>1. i + 1 \in 1..Len(queue[v]) /\ i + 1 # 1 /\ queue[v][i + 1] = x
        <5>1. i + 1 \in 1..n /\ i + 1 # 1 /\ Tail(s)[i] = s[i + 1]
          BY <1>n, <4>0
        <5>2. queue'[v][i] = Tail(s)[i] /\ n = Len(queue[v]) /\ queue[v] = s
          BY <1>k, <1>n, <1>s
        <5>. QED BY <3>2, <3>3, <5>1, <5>2
      <4>. QED BY <1>m, <4>1 DEF Queued
    <3>4. CASE q # v
      BY <1>k, <1>m, <3>2, <3>4 DEF Queued
    <3>. QED BY <3>3, <3>4
  <2>2. ASSUME NEW x \in Threads, Queued(x), x # h PROVE Queued(x)'
    <3>1. PICK q \in Ranks : \E i \in 1..Len(queue[q]) : queue[q][i] = x
      BY <2>2 DEF Queued
    <3>2. PICK i \in 1..Len(queue[q]) : queue[q][i] = x
      BY <3>1
    <3>3. CASE q = v
      <4>1. i - 1 \in 1..(n - 1) /\ i - 1 + 1 = i
        BY <1>h, <1>n, <1>s, <2>2, <3>2, <3>3
      <4>2. i - 1 \in 1..Len(queue'[v]) /\ queue'[v][i - 1] = x
        <5>1. i - 1 \in 1..Len(Tail(s)) /\ Tail(s)[i - 1] = s[i]
          BY <1>n, <4>1
        <5>. QED BY <1>k, <1>s, <3>2, <3>3, <5>1, Zenon
      <4>. QED BY <4>2 DEF Queued
    <3>4. CASE q # v
      BY <1>k, <3>2, <3>4 DEF Queued
    <3>. QED BY <3>3, <3>4
  <2>. QED BY <2>1, <2>2
<1>1. TypeOK'
  BY <1>n, <1>h, <1>b DEF TypeOK, Locations, Idle
<1>2. Family'
  BY DEF TypeOK, Family, Started
<1>3. Apart'
  <2>1. \A q \in Ranks : run[q] # h
    BY <1>e DEF Running
  <2>2. ASSUME NEW p \in Ranks, NEW q \in Ranks, NEW i \in 1..Len(queue'[p]), NEW j \in 1..Len(queue'[q]),
               queue'[p][i] = queue'[q][j]
        PROVE  p = q /\ i = j
    <3> DEFINE Old(o, k) == IF o = v THEN k + 1 ELSE k
    <3>1. ASSUME NEW o \in Ranks, NEW k \in 1..Len(queue'[o])
          PROVE  Old(o, k) \in 1..Len(queue[o]) /\ queue'[o][k] = queue[o][Old(o, k)] /\ k \in Int
      <4>1. CASE o # v
        BY <1>k, <4>1
      <4>2. CASE o = v
        <5>1. k \in 1..(n - 1)
          BY <1>k, <1>n, <4>2
        <5>2. k + 1 \in 1..n /\ Tail(s)[k] = s[k + 1]
          BY <1>n, <5>1
        <5>3. queue'[v][k] = Tail(s)[k] /\ n = Len(queue[v]) /\ queue[v] = s
          BY <1>k, <1>n, <1>s
        <5>. QED BY <4>2, <5>2, <5>3
      <4>. QED BY <4>1, <4>2
    <3> HIDE DEF Old
    <3>2. Old(p, i) \in 1..Len(queue[p]) /\ Old(q, j) \in 1..Len(queue[q]) /\ i \in Int /\ j \in Int
          /\ queue[p][Old(p, i)] = queue[q][Old(q, j)]
      BY <2>2, <3>1
    <3>3. p = q /\ Old(p, i) = Old(q, j)
      BY <3>2 DEF Apart
    <3>. QED BY <3>2, <3>3 DEF Old
  <2>3. \A p, q \in Ranks : run'[p] = run'[q] /\ run'[p] # NoThread => p = q
    BY <1>k, <2>1 DEF Apart
  <2>4. \A p, q \in Ranks : migration'[p] = migration'[q] /\ migration'[p] # NoThread => p = q
    BY DEF Apart
  <2>. QED BY <2>2, <2>3, <2>4 DEF Apart
<1>4. Places'
  <2>2. ASSUME NEW q \in Ranks PROVE Runs(q)'
    <3>1. Runs(q)
      BY DEF Places
    <3>2. CASE q = r
      BY <1>e, <1>k, <3>2 DEF Runs, Started, Idle
    <3>3. CASE q # r
      BY <1>k, <3>1, <3>3 DEF Runs, Started, Childless
    <3>. QED BY <3>2, <3>3
  <2>3. ASSUME NEW x \in Threads, Queued(x)'
        PROVE  (Started(x) /\ ~Running(x) /\ x \notin evac /\ joining[x] = NoThread /\ ~retval[x])'
    BY <1>c, <1>q, <2>3 DEF Places, Started
  <2>4. ASSUME NEW x \in Threads, Moving(x)'
        PROVE  (x = root /\ x \in evac /\ joining[x] = NoThread /\ ~Running(x))'
    BY <1>c, <1>e, <2>4, MailStays DEF Places, Started
  <2>5. ASSUME NEW x \in Threads, (Started(x) /\ ~retval[x])'
        PROVE  (Running(x) \/ Queued(x) \/ Moving(x) \/ (x \in evac /\ joining[x] # NoThread))'
    BY <1>c, <1>q, <2>5, MailStays DEF Places, Started
  <2>. QED BY <2>2, <2>3, <2>4, <2>5 DEF Places
<1>5. Races'
  <2>1. ASSUME NEW x \in Threads PROVE Passed(x)' <=> Passed(x)
    <3>2. CASE x = h
      BY <1>e, <3>2 DEF Passed
    <3>3. CASE x # h
      <4>1. \A q \in Ranks : (run'[q] = x <=> run[q] = x) /\ (run[q] = x => pc'[q] = pc[q])
        BY <1>b, <1>k, <3>3
      <4>. QED BY <4>1, PassedKept
    <3>. QED BY <3>2, <3>3
  <2>8. ASSUME NEW x \in Threads, handler'[x] = "forked" PROVE Race(x)'
    <3>2. Race(x) /\ parent[x] \in Threads
      BY <2>8, ForkedThread
    <3>3. joining[parent[x]] = x => parent[x] # h
      BY <1>e
    <3>4. (Running(x)' <=> Running(x)) \/ ~retval[x]
      BY <1>c, <1>e
    <3>5. \A q \in Ranks : run'[q] = parent[x] /\ parent[x] # h => run[q] = parent[x] /\ pc'[q] = pc[q]
      BY <1>k
    <3>. QED BY <1>c, <2>1, <3>2, <3>3, <3>4, <3>5, RaceMoved
  <2>9. ASSUME NEW q \in Ranks, pc'[q] = "get"
        PROVE  (joining[parent[run[q]]] = run[q] /\ ~Running(parent[run[q]]))'
    <3>1. pc[q] = "get" /\ q # r
      BY <1>k, <2>9
    <3>2. parent[run[q]] # h
      BY <1>e, <3>1, GetThread
    <3>. QED BY <1>c, <1>k, <3>1, <3>2, GetThread
  <2>. QED BY <2>8, <2>9 DEF Races
<1>6. Chains'
  <2> SUFFICES ASSUME NEW q \in Ranks PROVE Chain(q)' /\ Copy(q)'
    BY DEF Chains
  <2>1. Chain(q) /\ Copy(q) /\ Chain(v) /\ Copy(v)
    BY DEF Chains
  <2>2. \A x, y : Settled(x, y)' <=> Settled(x, y)
    BY DEF Settled
  <2>3. Chain(q)'
    <3>1. CASE q = r
      BY <1>b, <1>k, <3>1 DEF Chain
    <3>2. CASE q # r /\ q # v
      <4>1. \A i \in 1..Len(queue[q]) : Above(q, i)' = Above(q, i)
        BY <1>k, <3>2 DEF Above
      <4>. QED BY <1>k, <2>1, <3>2, <4>1 DEF Chain, Settled
    <3>3. CASE q = v
      <4>1. /\ pc'[v] \in {"thread", "pop"} /\ run'[v] = run[v] /\ Settled(run[v], NoThread)'
            /\ queue'[v] = Tail(s) /\ Len(Tail(s)) = n - 1
        <5>1. pc[v] \in {"thread", "pop"} /\ Settled(run[v], NoThread)
          BY <1>s, <2>1 DEF Chain
        <5>. QED BY <1>k, <1>n, <5>1 DEF Settled
      <4>2. ASSUME NEW i \in 1..(n - 1)
            PROVE  /\ Tail(s)[i] = s[i + 1] /\ i + 1 \in 1..n /\ i + 1 > 1
                   /\ Above(v, i)' = Above(v, i + 1)
        <5>1. i + 1 \in 1..n /\ i + 1 > 1 /\ Tail(s)[i] = s[i + 1]
          BY <1>n
        <5>2. CASE i = n - 1
          <6>1. Above(v, i)' = run[v]
            BY <4>1, <5>2 DEF Above
          <6>2. Above(v, i + 1) = run[v]
            BY <1>n, <1>s, <5>2 DEF Above
          <6>. QED BY <5>1, <6>1, <6>2
        <5>3. CASE i # n - 1
          <6>1. i + 1 \in 1..(n - 1) /\ i + 1 # n
            BY <1>n, <5>3
          <6>2. Above(v, i)' = s[i + 1 + 1]
            BY <1>n, <4>1, <5>3, <6>1 DEF Above
          <6>3. Above(v, i + 1) = s[i + 1 + 1]
            BY <1>n, <1>s, <6>1 DEF Above
          <6>. QED BY <5>1, <6>2, <6>3
        <5>. QED BY <5>2, <5>3
      <4>3. ASSUME NEW i \in 1..(n - 1)
            PROVE  /\ parent'[Above(v, i)'] = Tail(s)[i]
                   /\ Settled(queue[v][i], Above(v, i))'
                   /\ level'[Tail(s)[i]] < level'[run[v]]
        <5>1. PICK j \in 1..n : j = i + 1 /\ j > 1 /\ Tail(s)[i] = s[j] /\ Above(v, i)' = Above(v, j)
          BY <4>2
        <5>2. parent[Above(v, j)] = s[j] /\ Settled(s[j], Above(v, j)) /\ level[s[j]] < level[run[v]]
          BY <1>n, <1>s, <2>1, <5>1 DEF Chain
        <5>. QED BY <4>1, <5>1, <5>2 DEF Settled
      <4>4. ASSUME NEW i \in 1..(n - 1), NEW j \in 1..(n - 1), i < j
            PROVE  level'[Tail(s)[i]] < level'[Tail(s)[j]]
        <5>1. i + 1 \in 1..n /\ j + 1 \in 1..n /\ i + 1 < j + 1
          BY <1>n, <4>4
        <5>. QED BY <1>n, <1>s, <2>1, <5>1 DEF Chain
      <4>5. ASSUME NEW i \in 1..Len(queue'[v])
            PROVE  /\ parent'[Above(v, i)'] = queue'[v][i]
                   /\ Settled(queue[v][i], Above(v, i))'
                   /\ level'[queue'[v][i]] < level'[run'[v]]
        BY <4>1, <4>3
      <4>6. \A i, j \in 1..Len(queue'[v]) : i < j => level'[queue'[v][i]] < level'[queue'[v][j]]
        BY <4>1, <4>4
      <4>7. Chain(v)'
        BY <4>1, <4>5, <4>6 DEF Chain
      <4>. QED BY <3>3, <4>7
    <3>. QED BY <3>1, <3>2, <3>3
  <2>4. Copy(q)'
    <3>1. CASE q = r
      <4>1. level[h] < level[run[v]]
        BY <1>h, <1>n, <1>s, <2>1 DEF Chain
      <4>2. ASSUME NEW i \in 1..(n - 1) PROVE level[h] < level[Tail(s)[i]]
        <5>1. 1 \in 1..n /\ i + 1 \in 1..n /\ 1 < i + 1
          BY <1>n
        <5>. QED BY <1>h, <1>n, <1>s, <2>1, <5>1 DEF Chain
      <4>3. run[v] # NoThread
        BY <1>s, <2>1, RunFacts DEF Chain, Idle
      <4>4. ASSUME NEW i \in 1..Len(queue'[v]) PROVE level[h] < level[queue'[v][i]]
        BY <1>k, <1>n, <4>2
      <4>5. /\ pc'[r] = "copy" /\ loot'[r] = v /\ qlock'[v] = r /\ run'[r] = h /\ run'[v] = run[v]
            /\ qlock'[r] = NoRank /\ level' = level
        BY <1>b, <1>k
      <4>6. Copy(r)'
        BY <4>1, <4>3, <4>4, <4>5, RandWsAssumption DEF Copy
      <4>. QED BY <3>1, <4>6
    <3>2. CASE q # r
      <4>1. pc[q] = "copy" => loot[q] \in Ranks /\ loot[q] # v /\ loot[q] # r
        BY <1>b, <2>1, <3>2, RandWsAssumption DEF Copy, TypeOK
      <4>2. qlock'[q] # NoRank => loot'[qlock'[q]] = q
        <5>1. CASE q = v
          BY <1>k, <5>1
        <5>2. CASE q # v /\ qlock[q] # NoRank
          <6>1. qlock[q] \in Ranks /\ loot[qlock[q]] = q
            BY <2>1, <5>2 DEF Copy, TypeOK
          <6>2. qlock[q] # r
            BY <1>b, <6>1
          <6>. QED BY <1>k, <5>2, <6>1, <6>2
        <5>. QED BY <1>k, <5>1, <5>2
      <4>. QED BY <1>k, <2>1, <3>2, <4>1, <4>2 DEF Copy
    <3>. QED BY <3>1, <3>2
  <2>. QED BY <2>3, <2>4
<1>7. Exit'
  BY DEF Exit, Out, TypeOK, Tree
<1>. QED BY <1>1, <1>2, <1>3, <1>4, <1>5, <1>6, <1>7

--------------------------------------------------------------------------------
(* The invariant holds at the start.                                       *)
LEMMA InitIInv == Init => IInv
<1> SUFFICES ASSUME Init PROVE IInv
  OBVIOUS
<1> USE RandWsAssumption DEF Init, IInv
<1>0. 0 \in Ranks
  BY DEF Ranks
<1>1. TypeOK
  BY <1>0 DEF TypeOK, Locations, Idle
<1>2. Family
  BY DEF Family, Started
<1>3. Apart
  BY DEF Apart
<1>4. Places
  <2>1. \A t \in Threads : ~Queued(t) /\ ~Moving(t) /\ ~Started(t)
    BY DEF Queued, Moving, Started
  <2>. QED BY <2>1 DEF Places, Runs, Idle
<1>5. Races
  BY DEF Races
<1>6. Chains
  BY DEF Chains, Chain, Copy
<1>7. Exit
  BY <1>0 DEF Exit, Out
<1>. QED BY <1>1, <1>2, <1>3, <1>4, <1>5, <1>6, <1>7

(* Every step keeps the invariant.                                         *)
LEMMA NextIInv == IInv /\ [Next]_vars => IInv'
<1> SUFFICES ASSUME IInv, [Next]_vars PROVE IInv'
  OBVIOUS
<1>1. ASSUME NEW r \in Ranks, Steps(r) PROVE IInv'
  <2>1. CASE DieRace(r)
    BY <2>1, DieFirstIInv, DieSecondIInv
  <2>2. CASE JoinRace(r)
    BY <2>2, JoinFirstIInv, JoinSecondIInv
  <2>3. CASE ForwardExit(r)
    BY <2>3, ForwardTellIInv, ForwardDoneIInv
  <2>4. CASE \E c \in Threads : JoinSerialized(r, c) \/ JoinCall(r, c)
    BY <2>4, JoinSerializedIInv, JoinCallIInv
  <2>5. CASE \E q \in Ranks : MigratePut(r, q)
    BY <2>5, MigratePutIInv
  <2>6. CASE Return(r) \/ Serialize(r) \/ PopEmpty(r) \/ put_retval_remote(r) \/ StealResume(r)
    BY <2>6, ReturnIInv, SerializeIInv, PopEmptyIInv, put_retval_remoteIInv, StealResumeIInv
  <2>7. CASE \/ DieGetSuspended(r) \/ ResumeSuspended(r) \/ JoinCheck(r) \/ JoinSuspend(r)
             \/ JoinReturn(r)
    BY <2>7, DieGetSuspendedIInv, ResumeSuspendedIInv, JoinCheckIInv, JoinSuspendIInv, JoinReturnIInv
  <2>8. CASE \/ execute_migrated_task(r) \/ RootPut(r) \/ RootRequestExit(r)
             \/ should_exit_sched_loop(r) \/ RootResult(r)
    BY <2>8, execute_migrated_taskIInv, RootPutIInv, RootRequestExitIInv,
       should_exit_sched_loopIInv, RootResultIInv
  <2>. QED BY <1>1, <2>1, <2>2, <2>3, <2>4, <2>5, <2>6, <2>7, <2>8 DEF Steps
<1>2. CASE UNCHANGED vars
  <2> USE <1>2 DEF IInv, vars, queueVars, threadVars, stateVars, mailVars, budgetVars
  <2>1. TypeOK'
    BY DEF TypeOK
  <2>2. Family' /\ Apart'
    BY DEF Family, Apart, Started
  <2>3. Places'
    BY DEF Places, Runs, Started, Running, Queued, Moving, Childless
  <2>4. Races'
    <3>1. \A c : Race(c)' <=> Race(c)
      BY DEF Race, Flag, Passed, Running
    <3>. QED BY <3>1 DEF Races, Running
  <2>5. Chains'
    <3>1. \A r : (Chain(r)' <=> Chain(r)) /\ (Copy(r)' <=> Copy(r))
      BY DEF Chain, Copy, Above, Settled
    <3>. QED BY <3>1 DEF Chains
  <2>6. Exit'
    BY DEF Exit, Out, Tree
  <2>. QED BY <2>1, <2>2, <2>3, <2>4, <2>5, <2>6
<1>3. ASSUME NEW r \in Ranks, Decisions(r) PROVE IInv'
  <2>1. CASE \E c \in FreshNames : fork(r, c)
    BY <2>1, FreshNameUnused, forkIInv
  <2>2. CASE \E v \in Ranks : StealTake(r, v)
    BY <2>2, StealTakeIInv
  <2>3. CASE \E v \in Ranks : StealFails(r, v)
    BY <1>2, <2>3 DEF StealFails
  <2>4. CASE migrate_to(r)
    BY <2>4, migrate_toIInv
  <2>. QED BY <1>3, <2>1, <2>2, <2>3, <2>4 DEF Decisions
<1>4. CASE Start
  BY <1>4, FreshNameUnused, root_execIInv DEF Start
<1>5. CASE Barrier
  BY <1>5, BarrierIInv
<1>. QED BY <1>1, <1>2, <1>3, <1>4, <1>5 DEF Next

(* IInv is the inductive invariant of the scheduler.                       *)
THEOREM InductiveInvariant == Spec => []IInv
BY InitIInv, NextIInv, PTL DEF Spec

--------------------------------------------------------------------------------
(* The variables of the scheduler stay in their types; a worker has a      *)
(* thread to work for exactly in the places outside of its loop.           *)
THEOREM TypeCorrect == Spec => []TypeOK
BY InductiveInvariant, PTL DEF IInv

(* on_die() may take any entry that pop() returns for its parent.          *)
THEOREM PoppedIsParentHolds == Spec => []PoppedIsParent
<1>1. IInv => PoppedIsParent
  BY NewestIsParent DEF PoppedIsParent
<1>. QED BY <1>1, InductiveInvariant, PTL

(* The frames on a stack stay intact while they may be resumed: those of   *)
(* the queued continuations, in order, and those that a thief copies.      *)
THEOREM FramesIntactHolds == Spec => []FramesIntact
<1>1. IInv => FramesIntact
  <2> SUFFICES ASSUME IInv PROVE FramesIntact
    OBVIOUS
  <2> USE RandWsAssumption DEF IInv
  <2>1. ASSUME NEW r \in Ranks, NEW i \in 1..Len(queue[r]), NEW j \in 1..Len(queue[r]), i < j
        PROVE  level[queue[r][i]] < level[queue[r][j]]
    BY <2>1 DEF Chains, Chain
  <2>2. ASSUME NEW r \in Ranks, queue[r] # <<>>
        PROVE  pc[r] \in Executing /\ level[run[r]] > level[Last(queue[r])]
    <3>1. queue[r] \in Seq(Threads) /\ Chain(r)
      BY DEF TypeOK, Chains
    <3>2. /\ Len(queue[r]) \in 1..Len(queue[r]) /\ Last(queue[r]) = queue[r][Len(queue[r])]
          /\ queue[r][Len(queue[r])] \in Threads
      BY <2>2, <3>1, FrontFacts
    <3>3. pc[r] \in {"thread", "pop"} /\ level[queue[r][Len(queue[r])]] < level[run[r]]
      BY <2>2, <3>1, <3>2 DEF Chain
    <3>4. run[r] \in Threads
      BY <3>3, RunFacts DEF Idle
    <3>. QED BY <3>2, <3>3, <3>4 DEF Executing, TypeOK
  <2>3. ASSUME NEW r \in Ranks, pc[r] = "copy"
        PROVE  pc[loot[r]] \in Executing /\ level[run[loot[r]]] > level[run[r]]
    <3>1. Copy(r) /\ run[r] \in Threads
      BY <2>3, RunFacts DEF Chains, Idle
    <3>2. loot[r] \in Ranks /\ qlock[loot[r]] = r /\ r # NoRank
      BY <2>3, <3>1 DEF Copy, TypeOK
    <3>3. pc[loot[r]] \in {"thread", "pop"} /\ run[loot[r]] \in Threads
      BY <3>2, RunFacts DEF Chains, Chain, Idle
    <3>4. level[run[r]] < level[run[loot[r]]]
      BY <2>3, <3>1 DEF Copy
    <3>. QED BY <3>1, <3>3, <3>4 DEF Executing, TypeOK
  <2>. QED BY <2>1, <2>2, <2>3 DEF FramesIntact
<1>. QED BY <1>1, InductiveInvariant, PTL

(* No thread_state is used after it was freed, by any order of the join    *)
(* race, and join() and root_exec() read a result that was put.            *)
THEOREM NoUseAfterFreeHolds == Spec => []NoUseAfterFree
<1>1. IInv => NoUseAfterFree
  <2> SUFFICES ASSUME IInv PROVE NoUseAfterFree
    OBVIOUS
  <2>1. ASSUME NEW r \in Ranks, pc[r] = "result" PROVE root \in Threads /\ retval[root]
    BY <2>1 DEF IInv, Exit, Out, TypeOK
  <2>2. ASSUME NEW r \in Ranks, pc[r] \in {"check", "evac", "joinfaa", "retval"}
        PROVE  joining[run[r]] \in Threads /\ handler[joining[run[r]]] = "forked"
               /\ (pc[r] = "retval" => retval[joining[run[r]]])
    <3>1. run[r] \in Threads /\ Runs(r)
      BY <2>2, RunsThread DEF Idle
    <3>2. joining[run[r]] # NoThread
      BY <2>2, <3>1 DEF Runs
    <3>3. PICK c \in Threads : joining[run[r]] = c /\ handler[c] = "forked" /\ parent[c] = run[r]
      BY <3>1, <3>2 DEF IInv, Family, TypeOK
    <3>4. Race(c)
      BY <3>3, ForkedThread
    <3>. QED BY <3>1, <3>3, <3>4 DEF Race
  <2>3. ASSUME NEW r \in Ranks, NEW t \in Threads, UsesState(r, t) PROVE ts[t] = "allocated"
    <3>1. Started(t)
      <4>1. CASE pc[r] \in {"pop", "put", "diefaa", "get", "rootput"} /\ run[r] = t
        BY <4>1, RunsThread DEF Idle
      <4>2. CASE pc[r] \in {"check", "evac", "joinfaa", "retval"} /\ joining[run[r]] = t
        BY <2>2, <4>2 DEF Started
      <4>3. CASE pc[r] = "result" /\ root = t
        BY <4>3 DEF Started
      <4>. QED BY <2>3, <4>1, <4>2, <4>3 DEF UsesState
    <3>. QED BY <3>1 DEF IInv, Family
  <2>. QED BY <2>1, <2>2, <2>3 DEF NoUseAfterFree
<1>. QED BY <1>1, InductiveInvariant, PTL

(* The places that OneContinuation counts are the ones of the invariant.   *)
LEMMA PlacesCounted ==
    ASSUME IInv, NEW t \in Threads
    PROVE  /\ (OnRanks(t) = {} /\ ~Running(t)) \/ \E r : OnRanks(t) = {r} /\ Running(t)
           /\ (InQueues(t) = {} /\ ~Queued(t)) \/ \E e : InQueues(t) = {e} /\ Queued(t)
           /\ (Mailed(t) = {} /\ ~Moving(t)) \/ \E r : Mailed(t) = {r} /\ Moving(t)
<1> USE RandWsAssumption
<1> USE DEF IInv
<1>1. (OnRanks(t) = {} /\ ~Running(t)) \/ \E r : OnRanks(t) = {r} /\ Running(t)
  <2>1. OnRanks(t) = {r \in Ranks : run[r] = t}
    BY DEF OnRanks, TypeOK, Idle, Locations, Executing
  <2>2. CASE ~Running(t)
    BY <2>1, <2>2 DEF Running
  <2>3. CASE Running(t)
    <3>1. PICK r \in Ranks : run[r] = t
      BY <2>3 DEF Running
    <3>2. OnRanks(t) = {r}
      BY <2>1, <3>1 DEF Apart
    <3>. QED BY <2>3, <3>2
  <2>. QED BY <2>2, <2>3
<1>2. (InQueues(t) = {} /\ ~Queued(t)) \/ \E e : InQueues(t) = {e} /\ Queued(t)
  <2>1. \A r \in Ranks : DOMAIN queue[r] = 1..Len(queue[r])
    BY DEF TypeOK
  <2>2. \A e : e \in InQueues(t) <=>
           \E r \in Ranks : \E i \in 1..Len(queue[r]) : e = <<r, i>> /\ queue[r][i] = t
    BY <2>1 DEF InQueues
  <2>3. CASE ~Queued(t)
    BY <2>2, <2>3 DEF Queued
  <2>4. CASE Queued(t)
    <3>1. PICK r \in Ranks : \E i \in 1..Len(queue[r]) : queue[r][i] = t
      BY <2>4 DEF Queued
    <3>2. PICK i \in 1..Len(queue[r]) : queue[r][i] = t
      BY <3>1
    <3>3. ASSUME NEW q \in Ranks, NEW j \in 1..Len(queue[q]), queue[q][j] = t
          PROVE  q = r /\ j = i
      BY <3>2, <3>3 DEF Apart
    <3>4. InQueues(t) = {<<r, i>>}
      BY <2>2, <3>2, <3>3
    <3>. QED BY <2>4, <3>4
  <2>. QED BY <2>3, <2>4
<1>3. (Mailed(t) = {} /\ ~Moving(t)) \/ \E r : Mailed(t) = {r} /\ Moving(t)
  <2>1. CASE ~Moving(t)
    BY <2>1 DEF Moving, Mailed
  <2>2. CASE Moving(t)
    <3>1. PICK r \in Ranks : migration[r] = t
      BY <2>2 DEF Moving
    <3>2. Mailed(t) = {r}
      BY <3>1 DEF Apart, Mailed
    <3>. QED BY <2>2, <3>2
  <2>. QED BY <2>1, <2>2
<1>. QED BY <1>1, <1>2, <1>3

(* A thread that waits in join() is nowhere else.                          *)
LEMMA WaitingElsewhere ==
    ASSUME IInv, NEW t \in Threads, Waits(t)
    PROVE  ~Running(t) /\ ~Queued(t) /\ ~Moving(t)
<1> USE RandWsAssumption
<1> USE DEF IInv
<1>1. PICK c \in Threads : /\ joining[t] = c /\ t \in evac /\ c # NoThread
                           /\ handler[c] = "forked" /\ parent[c] = t
  BY DEF Waits, Family, TypeOK
<1>2. ~Queued(t) /\ ~Moving(t)
  BY <1>1 DEF Places
<1>3. ASSUME Running(t) PROVE FALSE
  <2>1. PICK r \in Ranks : run[r] = t
    BY <1>3 DEF Running
  <2>2. pc[r] \in {"joinfaa", "resume"} /\ Runs(r)
    <3>1. Runs(r) /\ pc[r] \in Locations /\ pc[r] \notin Idle /\ ~retval[t]
      BY <1>1, <2>1, RunFacts DEF Places, TypeOK, Family
    <3>. QED BY <1>1, <2>1, <3>1 DEF Runs, Locations
  <2>3. Race(c) /\ retval[c] \in BOOLEAN
    BY <1>1, ForkedThread DEF TypeOK
  <2>4. retval[c] /\ ~Running(c)
    <3>1. CASE pc[r] = "resume"
      BY <1>1, <2>1, <2>3, <3>1 DEF Race
    <3>2. CASE pc[r] = "joinfaa"
      <4>1. resume_flag[c] = Flag(c)
        BY <1>1, <2>1, <2>3, <3>2 DEF Race
      <4>2. resume_flag[c] = 1 \/ resume_flag[c] = 2
        BY <1>1 DEF Waits
      <4>3. Passed(c)
        BY <4>1, <4>2 DEF Flag
      <4>4. ~Running(c)
        <5>1. SUFFICES ASSUME NEW q \in Ranks, run[q] = c PROVE FALSE
          BY DEF Running
        <5>2. pc[q] = "get"
          BY <4>3, <5>1 DEF Passed
        <5>. QED BY <1>1, <1>3, <5>1, <5>2 DEF Races
      <4>. QED BY <4>3, <4>4 DEF Passed
    <3>. QED BY <2>2, <3>1, <3>2
  <2>5. ~Queued(c) /\ c \notin evac
    BY <2>4 DEF Places, Family
  <2>6. OnRanks(c) = {} /\ InQueues(c) = {}
    BY <2>4, <2>5, PlacesCounted
  <2>. QED BY <1>1, <2>5, <2>6 DEF Waits
<1>. QED BY <1>2, <1>3

(* A thread that is nowhere else waits in join().                          *)
LEMMA NowhereWaits ==
    ASSUME IInv, NEW t \in Threads, Started(t), ~retval[t],
           ~Running(t), ~Queued(t), ~Moving(t)
    PROVE  Waits(t)
<1> USE RandWsAssumption
<1> USE DEF IInv
<1>1. PICK c \in Threads : /\ joining[t] = c /\ t \in evac /\ c # NoThread
                           /\ handler[c] = "forked" /\ parent[c] = t /\ c # root
  BY DEF Places, Family, TypeOK
<1>2. Race(c) /\ ts[c] = "allocated"
  BY <1>1, ForkedThread DEF Family, Started
<1>3. suspended[c] = t /\ resume_flag[c] = 1 + Flag(c) /\ (Passed(c) => Running(c))
  BY <1>1, <1>2 DEF Race
<1>4. Running(c) => OnRanks(c) # {}
  BY PlacesCounted
<1>5. OnRanks(c) # {} \/ InQueues(c) # {} \/ (c \in evac /\ joining[c] # NoThread)
  <2>1. CASE Passed(c)
    BY <1>3, <1>4, <2>1
  <2>2. CASE ~Passed(c) /\ retval[c]
    BY <1>4, <2>2 DEF Passed, Running
  <2>3. CASE ~retval[c]
    <3>1. Running(c) \/ Queued(c) \/ (c \in evac /\ joining[c] # NoThread)
      BY <1>1, <2>3 DEF Places, Started
    <3>. QED BY <1>4, <3>1, PlacesCounted
  <2>. QED BY <2>1, <2>2, <2>3
<1>6. \/ resume_flag[c] = 1
      \/ resume_flag[c] = 2 /\ \E r \in OnRanks(c) : pc[r] = "get"
  <2>1. CASE Passed(c)
    <3>1. resume_flag[c] = 2
      BY <1>3, <2>1 DEF Flag
    <3>2. PICK r \in OnRanks(c) : TRUE
      BY <1>3, <1>4, <2>1
    <3>3. pc[r] = "get"
      BY <2>1, <3>2 DEF Passed, OnRanks
    <3>. QED BY <3>1, <3>2, <3>3
  <2>2. CASE ~Passed(c)
    BY <1>3, <2>2 DEF Flag
  <2>. QED BY <2>1, <2>2
<1>. QED BY <1>1, <1>2, <1>3, <1>5, <1>6 DEF Waits

(* Every thread that was started and has not ended goes on in exactly one  *)
(* place, or waits for a child that is going to resume it: the join race   *)
(* loses no continuation and resumes none twice.                           *)
THEOREM OneContinuationHolds == Spec => []OneContinuation
<1>1. IInv => OneContinuation
  <2> SUFFICES ASSUME IInv, NEW t \in Threads
               PROVE  LET places == Cardinality(OnRanks(t)) + Cardinality(InQueues(t))
                                      + Cardinality(Mailed(t))
                      IN  /\ places <= 1
                          /\ (handler[t] # "none" \/ t = root) /\ ~Ended(t) =>
                                (places = 1 <=> ~Waits(t))
    BY DEF OneContinuation
  <2> DEFINE n == Cardinality(OnRanks(t))
             m == Cardinality(InQueues(t))
             k == Cardinality(Mailed(t))
  <2>1. n = IF Running(t) THEN 1 ELSE 0
    <3>1. CASE OnRanks(t) = {} /\ ~Running(t)
      BY <3>1, FS_EmptySet
    <3>2. CASE \E x : OnRanks(t) = {x} /\ Running(t)
      BY <3>2, FS_Singleton
    <3>. QED BY <3>1, <3>2, PlacesCounted
  <2>2. m = IF Queued(t) THEN 1 ELSE 0
    <3>1. CASE InQueues(t) = {} /\ ~Queued(t)
      BY <3>1, FS_EmptySet
    <3>2. CASE \E x : InQueues(t) = {x} /\ Queued(t)
      BY <3>2, FS_Singleton
    <3>. QED BY <3>1, <3>2, PlacesCounted
  <2>3. k = IF Moving(t) THEN 1 ELSE 0
    <3>1. CASE Mailed(t) = {} /\ ~Moving(t)
      BY <3>1, FS_EmptySet
    <3>2. CASE \E x : Mailed(t) = {x} /\ Moving(t)
      BY <3>2, FS_Singleton
    <3>. QED BY <3>1, <3>2, PlacesCounted
  <2>4. /\ ~(Running(t) /\ Queued(t)) /\ ~(Running(t) /\ Moving(t))
        /\ ~(Queued(t) /\ Moving(t))
    BY DEF IInv, Places
  <2> HIDE DEF n, m, k
  <2>5. n + m + k = IF Running(t) \/ Queued(t) \/ Moving(t) THEN 1 ELSE 0
    BY <2>1, <2>2, <2>3, <2>4
  <2>6. ASSUME handler[t] # "none" \/ t = root, ~Ended(t)
        PROVE  (Running(t) \/ Queued(t) \/ Moving(t)) <=> ~Waits(t)
    <3>1. Started(t) /\ (retval[t] => Running(t))
      <4>1. OnRanks(t) # {} => Running(t)
        BY PlacesCounted
      <4>. QED BY <2>6, <4>1 DEF Ended, Started, IInv, TypeOK
    <3>. QED BY <3>1, WaitingElsewhere, NowhereWaits
  <2>. QED BY <2>5, <2>6 DEF n, m, k
<1>. QED BY <1>1, InductiveInvariant, PTL

================================================================================
