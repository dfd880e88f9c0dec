----------------------------- MODULE ProcTable -----------------------------
(***************************************************************************)
(* Processes and kernel threads (proc.c): fork, exit, wait, kill,          *)
(* kthread_create, kthread_exit and kthread_join, as they change the       *)
(* entries of ptable and own page directories.                             *)
(*                                                                         *)
(* A section under ptable.lock is one step; code outside the lock that     *)
(* another process can see half way is split.  RUNNABLE also stands for    *)
(* RUNNING (the hand-over between the two is the subject of Sched), so a   *)
(* process may step when it is RUNNABLE.  Open files and cwd are not part  *)
(* of this module.                                                         *)
(***************************************************************************)
EXTENDS Integers, FiniteSets

CONSTANTS NPROC,     \* entries of ptable
          MaxPid,    \* bound: allocproc stops once nextpid has passed it
          PgDir,     \* page directories kalloc can hand out
          NULL

ASSUME ProcTableAssumption ==
  /\ NPROC \in Nat \ {0} /\ MaxPid \in Nat \ {0}
  /\ NULL \notin 1..NPROC

Proc == 1..NPROC
initproc == 1

VARIABLES
  state, pid, parent, threadId, killed, chan,
  pgdir,              \* p->pgdir, NULL before the first use of the entry
  sleepingThreads,    \* p->sleepingThreads
  nextpid, nextThread,
  pages,              \* the page directories that are allocated
  pc, np, reg,        \* where a process is in its call; its locals np or p; i or a register
  waited,             \* history: the pids wait has returned
  asked               \* history: the pids kill was called with

entry == <<state, pid, parent, threadId, killed, chan, pgdir, sleepingThreads>>
vars == <<entry, nextpid, nextThread, pages, pc, np, reg, waited, asked>>

NoSleepers == [i \in Proc |-> NULL]

\* userinit has made the first process.
Init ==
  /\ state = [p \in Proc |-> IF p = initproc THEN "RUNNABLE" ELSE "UNUSED"]
  /\ pid = [p \in Proc |-> IF p = initproc THEN 1 ELSE 0]
  /\ parent = [p \in Proc |-> NULL]
  /\ threadId = [p \in Proc |-> 0]
  /\ killed = [p \in Proc |-> FALSE]
  /\ chan = [p \in Proc |-> NULL]
  /\ \E g \in PgDir : pages = {g} /\ pgdir = [p \in Proc |-> IF p = initproc THEN g ELSE NULL]
  /\ sleepingThreads = [p \in Proc |-> NoSleepers]
  /\ nextpid = 2 /\ nextThread = 0
  /\ pc = [p \in Proc |-> IF p = initproc THEN "user" ELSE "dead"]
  /\ np = [p \in Proc |-> 1] /\ reg = [p \in Proc |-> 0]
  /\ waited = {} /\ asked = {}

At(p, l)   == pc[p] = l /\ state[p] = "RUNNABLE"
Goto(p, l) == pc' = [pc EXCEPT ![p] = l]
\* A killed process makes no further call: trap makes it exit.
CanCall(p) == At(p, "user") /\ ~killed[p]

\* wakeup1(c), on a state function.
wakeup1(st, c) == [p \in Proc |-> IF st[p] = "SLEEPING" /\ chan[p] = c THEN "RUNNABLE" ELSE st[p]]

-----------------------------------------------------------------------------
(* fork and kthread_create. *)

\* Mutant: nextpid is not advanced.
allocprocSamePid(p, next) ==
  /\ CanCall(p) /\ nextpid <= MaxPid
  /\ \E q \in Proc :
       /\ state[q] = "UNUSED" /\ \A r \in 1..(q-1) : state[r] # "UNUSED"
       /\ state' = [state EXCEPT ![q] = "EMBRYO"]
       /\ pid' = [pid EXCEPT ![q] = nextpid]
       /\ np' = [np EXCEPT ![p] = q]
  /\ Goto(p, next)
  /\ UNCHANGED <<parent, threadId, killed, chan, pgdir, sleepingThreads, nextpid, nextThread, pages,
                 reg, waited, asked>>

\* allocproc under the lock: the first UNUSED entry becomes an EMBRYO.  What the
\* last owner left in killed, threadId and sleepingThreads stays.
allocproc(p, next) ==
  /\ CanCall(p) /\ nextpid <= MaxPid
  /\ \E q \in Proc :
       /\ state[q] = "UNUSED" /\ \A r \in 1..(q-1) : state[r] # "UNUSED"
       /\ state' = [state EXCEPT ![q] = "EMBRYO"]
       /\ pid' = [pid EXCEPT ![q] = nextpid]
       /\ np' = [np EXCEPT ![p] = q]
  /\ nextpid' = nextpid + 1
  /\ Goto(p, next)
  /\ UNCHANGED <<parent, threadId, killed, chan, pgdir, sleepingThreads, nextThread, pages,
                 reg, waited, asked>>

forkAlloc(p) == allocproc(p, "fork")

\* Copy the address space and publish the child, without a lock.
forkPublish(p) ==
  /\ At(p, "fork")
  /\ \E g \in PgDir \ pages :
       /\ pages' = pages \cup {g}
       /\ pgdir' = [pgdir EXCEPT ![np[p]] = g]
  /\ threadId' = [threadId EXCEPT ![np[p]] = -1]
  /\ parent' = [parent EXCEPT ![np[p]] = p]
  /\ state' = [state EXCEPT ![np[p]] = "RUNNABLE"]
  /\ pc' = [pc EXCEPT ![p] = "forkTail", ![np[p]] = "user"]
  /\ UNCHANGED <<pid, killed, chan, sleepingThreads, nextpid, nextThread, np, reg, waited, asked>>

\* After np is RUNNABLE: sleepingThreads is cleared.
forkTail(p) ==
  /\ At(p, "forkTail")
  /\ sleepingThreads' = [sleepingThreads EXCEPT ![np[p]] = NoSleepers]
  /\ np' = [np EXCEPT ![p] = 1]
  /\ Goto(p, "user")
  /\ UNCHANGED <<state, pid, parent, threadId, killed, chan, pgdir, nextpid, nextThread, pages,
                 reg, waited, asked>>

\* Mutant: the entry stays an EMBRYO for ever.
allocFailKeeps(p) ==
  /\ At(p, "fork") \/ At(p, "create")
  /\ np' = [np EXCEPT ![p] = 1]
  /\ Goto(p, "user")
  /\ UNCHANGED <<state, pid, parent, threadId, killed, chan, pgdir, sleepingThreads, nextpid,
                 nextThread, pages, reg, waited, asked>>

\* kalloc or copyuvm fails: the entry is UNUSED again and keeps its pid.  When it
\* is copyuvm, fork has set threadId and kthread_create has cleared sleepingThreads.
allocFail(p) ==
  /\ state' = [state EXCEPT ![np[p]] = "UNUSED"]
  /\ \/ (At(p, "fork") \/ At(p, "create")) /\ UNCHANGED <<threadId, sleepingThreads>>
     \/ /\ At(p, "fork")
        /\ threadId' = [threadId EXCEPT ![np[p]] = -1]
        /\ UNCHANGED sleepingThreads
     \/ /\ At(p, "create")
        /\ sleepingThreads' = [sleepingThreads EXCEPT ![np[p]] = NoSleepers]
        /\ UNCHANGED threadId
  /\ np' = [np EXCEPT ![p] = 1]
  /\ Goto(p, "user")
  /\ UNCHANGED <<pid, parent, killed, chan, pgdir, nextpid, nextThread, pages, reg, waited, asked>>

\* init.c makes no threads.
createAlloc(p) == p # initproc /\ allocproc(p, "create")

\* copyuvm's result only tells whether there is memory: it is overwritten by the
\* caller's pgdir and never freed.  nextThread++ is a load and a store.
createCopy(p) ==
  /\ At(p, "create")
  /\ sleepingThreads' = [sleepingThreads EXCEPT ![np[p]] = NoSleepers]
  /\ \E g \in PgDir \ pages : pages' = pages \cup {g}
  /\ reg' = [reg EXCEPT ![p] = nextThread]
  /\ Goto(p, "createTid")
  /\ UNCHANGED <<state, pid, parent, threadId, killed, chan, pgdir, nextpid, nextThread, np,
                 waited, asked>>

createPublish(p) ==
  /\ At(p, "createTid")
  /\ nextThread' = reg[p] + 1
  /\ threadId' = [threadId EXCEPT ![np[p]] = reg[p] + 1]
  /\ pid' = [pid EXCEPT ![np[p]] = pid[p]]
  /\ pgdir' = [pgdir EXCEPT ![np[p]] = pgdir[p]]
  /\ parent' = [parent EXCEPT ![np[p]] = parent[p]]
  /\ state' = [state EXCEPT ![np[p]] = "RUNNABLE"]
  /\ pc' = [pc EXCEPT ![p] = "user", ![np[p]] = "user"]
  /\ np' = [np EXCEPT ![p] = 1] /\ reg' = [reg EXCEPT ![p] = 0]
  /\ UNCHANGED <<killed, chan, sleepingThreads, nextpid, pages, waited, asked>>

-----------------------------------------------------------------------------
(* exit, which is kthread_exit. *)

\* wakeup1 on every joiner in the array.
wakeJoiners(p) ==
  [q \in Proc |-> IF /\ state[q] = "SLEEPING"
                     /\ \E i \in Proc : sleepingThreads[p][i] # NULL /\ chan[q] = sleepingThreads[p][i]
                  THEN "RUNNABLE" ELSE state[q]]

\* Mutant: threads that sleep are not counted.
LastThreadAwake(p) == {q \in Proc : pid[q] = pid[p] /\ state[q] \in {"RUNNABLE", "EMBRYO"}} = {p}

LastThread(p) == {q \in Proc : pid[q] = pid[p] /\ state[q] \notin {"ZOMBIE", "UNUSED"}} = {p}

\* A thread that is not the last one of its process.
kthread_exit(p) ==
  /\ At(p, "user") /\ p # initproc /\ ~LastThread(p)
  /\ state' = [wakeJoiners(p) EXCEPT ![p] = "ZOMBIE"]
  /\ Goto(p, "dead")
  /\ UNCHANGED <<pid, parent, threadId, killed, chan, pgdir, sleepingThreads, nextpid, nextThread,
                 pages, np, reg, waited, asked>>

\* The last one gives the entries of the others back and goes on to New_exit.
kthread_exitLast(p) ==
  /\ At(p, "user") /\ p # initproc /\ LastThread(p)
  /\ LET dead == {q \in Proc : state[q] = "ZOMBIE" /\ pid[q] = pid[p] /\ threadId[q] # threadId[p]}
     IN /\ state' = [q \in Proc |-> IF q \in dead THEN "UNUSED" ELSE wakeJoiners(p)[q]]
        /\ pid' = [q \in Proc |-> IF q \in dead THEN 0 ELSE pid[q]]
        /\ parent' = [q \in Proc |-> IF q \in dead THEN NULL ELSE parent[q]]
        /\ killed' = [q \in Proc |-> IF q \in dead THEN FALSE ELSE killed[q]]
  /\ Goto(p, "exit")
  /\ UNCHANGED <<threadId, chan, pgdir, sleepingThreads, nextpid, nextThread, pages, np, reg,
                 waited, asked>>

\* Mutant: the children of the exiting process keep their parent.
New_exitKeepsChildren(p) ==
  /\ At(p, "exit")
  /\ state' = [wakeup1(state, parent[p]) EXCEPT ![p] = "ZOMBIE"]
  /\ Goto(p, "dead")
  /\ UNCHANGED <<pid, parent, threadId, killed, chan, pgdir, sleepingThreads, nextpid, nextThread,
                 pages, np, reg, waited, asked>>

\* Mutant: the parent is not woken.
New_exitNoWakeup(p) ==
  /\ At(p, "exit")
  /\ parent' = [q \in Proc |-> IF parent[q] = p THEN initproc ELSE parent[q]]
  /\ state' = [state EXCEPT ![p] = "ZOMBIE"]
  /\ Goto(p, "dead")
  /\ UNCHANGED <<pid, threadId, killed, chan, pgdir, sleepingThreads, nextpid, nextThread,
                 pages, np, reg, waited, asked>>

New_exit(p) ==
  /\ At(p, "exit")
  /\ LET woken   == wakeup1(state, parent[p])
         orphans == {q \in Proc : parent[q] = p}
     IN /\ parent' = [q \in Proc |-> IF q \in orphans THEN initproc ELSE parent[q]]
        /\ state' = [(IF \E q \in orphans : woken[q] = "ZOMBIE" THEN wakeup1(woken, initproc) ELSE woken)
                       EXCEPT ![p] = "ZOMBIE"]
  /\ Goto(p, "dead")
  /\ UNCHANGED <<pid, threadId, killed, chan, pgdir, sleepingThreads, nextpid, nextThread,
                 pages, np, reg, waited, asked>>

-----------------------------------------------------------------------------
(* wait and kthread_join, which sleep on the caller with ptable.lock. *)

wait(p) ==
  /\ CanCall(p) /\ Goto(p, "wait")
  /\ UNCHANGED <<entry, nextpid, nextThread, pages, np, reg, waited, asked>>

Child(p, q) == parent[q] = p

\* Mutant: frees the entry but not the address space.
waitReapNoFreevm(p) ==
  /\ At(p, "wait")
  /\ \E q \in Proc :
       /\ Child(p, q) /\ state[q] = "ZOMBIE"
       /\ \A r \in 1..(q-1) : ~(Child(p, r) /\ state[r] = "ZOMBIE")
       /\ waited' = waited \cup {pid[q]}
       /\ state' = [state EXCEPT ![q] = "UNUSED"]
       /\ pid' = [pid EXCEPT ![q] = 0]
       /\ parent' = [parent EXCEPT ![q] = NULL]
       /\ killed' = [killed EXCEPT ![q] = FALSE]
  /\ Goto(p, "user")
  /\ UNCHANGED <<pages, threadId, chan, pgdir, sleepingThreads, nextpid, nextThread, np, reg, asked>>

\* The first ZOMBIE child is freed.
waitReap(p) ==
  /\ At(p, "wait")
  /\ \E q \in Proc :
       /\ Child(p, q) /\ state[q] = "ZOMBIE"
       /\ \A r \in 1..(q-1) : ~(Child(p, r) /\ state[r] = "ZOMBIE")
       /\ pages' = pages \ {pgdir[q]}                       \* freevm
       /\ waited' = waited \cup {pid[q]}
       /\ state' = [state EXCEPT ![q] = "UNUSED"]
       /\ pid' = [pid EXCEPT ![q] = 0]
       /\ parent' = [parent EXCEPT ![q] = NULL]
       /\ killed' = [killed EXCEPT ![q] = FALSE]
  /\ Goto(p, "user")
  /\ UNCHANGED <<threadId, chan, pgdir, sleepingThreads, nextpid, nextThread, np, reg, asked>>

NoZombieChild(p) == \A q \in Proc : Child(p, q) => state[q] # "ZOMBIE"

waitNone(p) ==
  /\ At(p, "wait") /\ NoZombieChild(p)
  /\ killed[p] \/ \A q \in Proc : ~Child(p, q)
  /\ Goto(p, "user")
  /\ UNCHANGED <<entry, nextpid, nextThread, pages, np, reg, waited, asked>>

waitSleep(p) ==
  /\ At(p, "wait") /\ NoZombieChild(p) /\ ~killed[p] /\ \E q \in Proc : Child(p, q)
  /\ chan' = [chan EXCEPT ![p] = p]
  /\ state' = [state EXCEPT ![p] = "SLEEPING"]
  /\ Goto(p, "waiting")
  /\ UNCHANGED <<pid, parent, threadId, killed, pgdir, sleepingThreads, nextpid, nextThread, pages,
                 np, reg, waited, asked>>

\* Back in sleep, still or again with ptable.lock: scan once more.
waitWoken(p) ==
  /\ At(p, "waiting")
  /\ chan' = [chan EXCEPT ![p] = NULL]
  /\ Goto(p, "wait")
  /\ UNCHANGED <<state, pid, parent, threadId, killed, pgdir, sleepingThreads, nextpid, nextThread,
                 pages, np, reg, waited, asked>>

\* kthread_join: the first entry with the id that is not a ZOMBIE.  (If there is
\* none the call only returns -1.)
kthread_join(p, t) ==
  /\ CanCall(p)
  /\ \E q \in Proc :
       /\ threadId[q] = t /\ state[q] # "ZOMBIE"
       /\ \A r \in 1..(q-1) : ~(threadId[r] = t /\ state[r] # "ZOMBIE")
       /\ \E i \in Proc :
            /\ sleepingThreads[q][i] = NULL /\ \A j \in 1..(i-1) : sleepingThreads[q][j] # NULL
            /\ sleepingThreads' = [sleepingThreads EXCEPT ![q][i] = p]
            /\ reg' = [reg EXCEPT ![p] = i]
       /\ np' = [np EXCEPT ![p] = q]
  /\ chan' = [chan EXCEPT ![p] = p]
  /\ state' = [state EXCEPT ![p] = "SLEEPING"]
  /\ Goto(p, "joining")
  /\ UNCHANGED <<pid, parent, threadId, killed, pgdir, nextpid, nextThread, pages, waited, asked>>

joinReturn(p) ==
  /\ At(p, "joining")
  /\ chan' = [chan EXCEPT ![p] = NULL]
  /\ sleepingThreads' = [sleepingThreads EXCEPT ![np[p]][reg[p]] = NULL]
  /\ np' = [np EXCEPT ![p] = 1] /\ reg' = [reg EXCEPT ![p] = 0]
  /\ Goto(p, "user")
  /\ UNCHANGED <<state, pid, parent, threadId, killed, pgdir, nextpid, nextThread, pages, waited, asked>>

\* kill(k) finds the first entry with that pid, UNUSED entries (pid 0) included.
\* Killing init makes the kernel panic in exit, and is left out.
kill(p, k) ==
  /\ CanCall(p) /\ k # pid[initproc]
  /\ \E q \in Proc :
       /\ pid[q] = k /\ \A r \in 1..(q-1) : pid[r] # k
       /\ killed' = [killed EXCEPT ![q] = TRUE]
       /\ state' = [state EXCEPT ![q] = IF @ = "SLEEPING" THEN "RUNNABLE" ELSE @]
  /\ asked' = asked \cup {k}
  /\ UNCHANGED <<pid, parent, threadId, chan, pgdir, sleepingThreads, nextpid, nextThread, pages,
                 pc, np, reg, waited>>

-----------------------------------------------------------------------------
ForkStep(p)   == forkAlloc(p) \/ forkPublish(p) \/ forkTail(p) \/ allocFail(p)
ExitStep(p)   == kthread_exit(p) \/ kthread_exitLast(p) \/ New_exit(p)
WaitStep(p)   == waitReap(p) \/ waitNone(p) \/ waitSleep(p) \/ waitWoken(p)
ThreadStep(p) == \/ createAlloc(p) \/ createCopy(p) \/ createPublish(p)
                 \/ \E t \in 1..MaxPid : kthread_join(p, t)
                 \/ joinReturn(p)
KillCall(p)   == \E k \in 0..MaxPid : kill(p, k)

\* Processes with a single thread each: kthread_exit always finds the last one.
ProcStep(p) == ForkStep(p) \/ kthread_exitLast(p) \/ New_exit(p) \/ wait(p) \/ WaitStep(p) \/ KillCall(p)
ProcNext == \E p \in Proc : ProcStep(p)
ProcSpec == Init /\ [][ProcNext]_vars

\* With kernel threads.
Next == \E p \in Proc : ForkStep(p) \/ ExitStep(p) \/ wait(p) \/ WaitStep(p) \/ ThreadStep(p) \/ KillCall(p)
Spec == Init /\ [][Next]_vars

\* A call that has started goes on.
Started(p) == forkPublish(p) \/ forkTail(p) \/ allocFail(p) \/ New_exit(p) \/ WaitStep(p)
FairProcSpec == ProcSpec /\ \A p \in Proc : WF_vars(Started(p))
-----------------------------------------------------------------------------
(* Properties. *)

InUse(p) == state[p] \in {"RUNNABLE", "SLEEPING", "ZOMBIE"}

TypeOK ==
  /\ state \in [Proc -> {"UNUSED", "EMBRYO", "SLEEPING", "RUNNABLE", "ZOMBIE"}]
  /\ pid \in [Proc -> 0..MaxPid] /\ nextpid \in 2..(MaxPid + 1)
  /\ parent \in [Proc -> Proc \cup {NULL}] /\ chan \in [Proc -> Proc \cup {NULL}]
  /\ threadId \in [Proc -> -1..MaxPid] /\ nextThread \in 0..MaxPid
  /\ killed \in [Proc -> BOOLEAN]
  /\ pgdir \in [Proc -> PgDir \cup {NULL}] /\ pages \subseteq PgDir
  /\ sleepingThreads \in [Proc -> [Proc -> Proc \cup {NULL}]]
  /\ np \in [Proc -> Proc] /\ reg \in [Proc -> 0..MaxPid]

\* "Pass abandoned children to init": the parent of every process that exists is
\* a process that has not exited, and can still wait for it.
ParentAlive ==
  \A p \in Proc : InUse(p) /\ p # initproc => parent[p] # NULL /\ state[parent[p]] \in {"RUNNABLE", "SLEEPING"}

\* Every process has an address space of its own, and nothing else is allocated.
SpacesOwned ==
  /\ \A p, q \in Proc : InUse(p) /\ InUse(q) /\ pgdir[p] = pgdir[q] => p = q
  /\ pages = {pgdir[p] : p \in {q \in Proc : InUse(q)}}

\* Every EMBRYO is being made by a process inside fork.
EmbryosMade == \A q \in Proc : state[q] = "EMBRYO" => \E p \in Proc : pc[p] = "fork" /\ np[p] = q

\* Every process has an address space of its own from fork until wait frees it,
\* and nothing else is allocated: freevm frees each once, and none is leaked.
\* Nor does a fork that fails half way leave an entry of the table taken.
AddressSpaces == SpacesOwned /\ EmbryosMade

\* No two processes have the same pid, entries that fork has given back included.
PidUnique == \A p, q \in Proc : pid[p] = pid[q] /\ pid[p] # 0 => p = q

\* A process asleep in wait with a ZOMBIE child is woken and reaps it, whoever
\* was the child's parent when it exited.
WaitReturns ==
  \A p \in Proc : (pc[p] = "waiting" /\ ~NoZombieChild(p)) ~> (pc[p] = "user")

\* Of the threads of a process one alone closes the files and reports to the
\* parent (New_exit), and it is the last: no thread of the process can run, or
\* come into being, between the count in kthread_exit and its New_exit.
SingleFinalExit ==
  \A p \in Proc : pc[p] = "exit" =>
    \A q \in Proc \ {p} : pid[q] = pid[p] => state[q] \in {"ZOMBIE", "UNUSED"}

\* "Wait for a child process to exit and return its pid": a pid that wait has
\* returned belongs to no process that still runs.
WaitedHasExited == \A p \in Proc : state[p] \in {"RUNNABLE", "SLEEPING"} => pid[p] \notin waited

\* "Kill the process with the given pid": a process that is killed has a pid that
\* kill was called with.
KilledWasAsked == \A p \in Proc : InUse(p) /\ killed[p] => pid[p] \in asked
=============================================================================
