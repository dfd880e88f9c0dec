------------------------------- MODULE Sched -------------------------------
(***************************************************************************)
(* Spin locks, interrupts and context switches: spinlock.c and the part of *)
(* proc.c every other kernel component stands on (scheduler, sched, yield, *)
(* sleep, wakeup, kill, and the points where allocproc, exit and wait      *)
(* change p->state).                                                       *)
(*                                                                         *)
(* A context is a kernel stack with a saved program counter: one per       *)
(* process, and the scheduler context of each cpu c, named c.  on[c] is    *)
(* the context that cpu c executes; swtch changes on[c] and nothing else,  *)
(* so a context resumes where its pc was left, possibly on another cpu.    *)
(*                                                                         *)
(* The monitor (lk, cond) stands for every lock-protected condition of the *)
(* kernel that is waited for with sleep(chan, lk): a pipe, the log, a      *)
(* buffer, the disk queue.  A consumer waits for cond and clears it, a     *)
(* producer (a system call or an interrupt handler) sets it and wakes.     *)
(***************************************************************************)
EXTENDS Integers, FiniteSets

CONSTANTS CPU,    \* the processors (struct cpu)
          NPROC,  \* slots of ptable.proc
          NULL    \* no cpu, no label

ASSUME SchedAssumption == /\ NPROC \in Nat \ {0}
                          /\ CPU \cap (1..NPROC) = {}
                          /\ NULL \notin CPU

Proc == 1..NPROC
Initproc == 1
Ctx == Proc \cup CPU

VARIABLES
  ptLock,  \* ptable.lock: the cpu that holds it, or NULL
  lk,      \* the lock of the monitor
  cond,    \* the condition the monitor protects
  on,      \* on[c]: the context cpu c executes
  pc,      \* pc[x]: where context x is, or will resume
  ret,     \* ret[x]: where x was interrupted, NULL outside a handler
  state,   \* p->state
  chan,    \* p->chan is the channel of the monitor
  killed,  \* p->killed
  slot,    \* slot[p]: the slot p's fork or the scheduler's scan is at
  ncli,    \* cpu->ncli
  intena,  \* cpu->intena
  IF_,     \* FL_IF of cpu's eflags: interrupts are enabled
  sint     \* sint[p]: the local variable intena of p's call of sched()

locks == <<ptLock, lk>>
cpus  == <<ncli, intena, IF_>>
procs == <<state, chan, killed>>
vars  == <<ptLock, lk, cond, on, pc, ret, state, chan, killed, slot,
           ncli, intena, IF_, sint>>

\* Labels at which a context holds ptable.lock, by what it does next.
SchedLabels  == {"ySched", "sSched", "xSched"}
ResumeLabels == {"yBack", "sBack", "forkret"}
PtLabels     == {"yHeld", "sRel", "sSet", "pScan", "kHeld", "xHeld", "aHeld",
                 "rHeld", "scan"} \cup SchedLabels \cup ResumeLabels
LkLabels     == {"cTest", "cRel", "sLock", "sRel", "pSet", "pWake", "pScan", "pRel"}
FreeLabels   == {"user", "cLock", "aInit", "yLock", "pLock", "iret", "idle", "dead"}
Labels       == PtLabels \cup LkLabels \cup FreeLabels

ASSUME NullAssumption == NULL \notin Labels

Init ==
  /\ ptLock = NULL /\ lk = NULL /\ cond = FALSE
  /\ on = [c \in CPU |-> c]
  /\ pc = [x \in Ctx |-> IF x \in CPU THEN "idle"
                         ELSE IF x = Initproc THEN "forkret" ELSE "dead"]
  /\ ret = [x \in Ctx |-> IF x = Initproc THEN "user" ELSE NULL]
  /\ state = [p \in Proc |-> IF p = Initproc THEN "RUNNABLE" ELSE "UNUSED"]
  /\ chan = [p \in Proc |-> FALSE]
  /\ killed = [p \in Proc |-> FALSE]
  /\ slot = [x \in Ctx |-> 1]
  /\ ncli = [c \in CPU |-> 0]
  /\ intena = [c \in CPU |-> FALSE]
  /\ IF_ = [c \in CPU |-> TRUE]
  /\ sint = [p \in Proc |-> FALSE]

-----------------------------------------------------------------------------
(* spinlock.c.  pushcli and popcli act on the cpu's three fields. *)

\* Mutant: pushcli counts but forgets cli().
pushcliNoCli(c) ==
  /\ ncli' = [ncli EXCEPT ![c] = @ + 1]
  /\ intena' = IF ncli[c] = 0 THEN [intena EXCEPT ![c] = IF_[c]] ELSE intena
  /\ UNCHANGED IF_

pushcli(c) ==
  /\ ncli' = [ncli EXCEPT ![c] = @ + 1]
  /\ intena' = IF ncli[c] = 0 THEN [intena EXCEPT ![c] = IF_[c]] ELSE intena
  /\ IF_' = [IF_ EXCEPT ![c] = FALSE]

\* popcli after cpu->intena has become e (e is the old value outside sched).
popcliWith(c, e) ==
  /\ ncli' = [ncli EXCEPT ![c] = @ - 1]
  /\ intena' = [intena EXCEPT ![c] = e]
  /\ IF_' = [IF_ EXCEPT ![c] = @ \/ (ncli[c] = 1 /\ e)]

popcli(c) == popcliWith(c, intena[c])

\* acquire: a cpu that spins takes no step until the xchg succeeds.
acquirePt(c) == ptLock = NULL /\ ptLock' = c /\ pushcli(c)
releasePt(c) == ptLock' = NULL /\ popcli(c)
acquireLk(c) == lk = NULL /\ lk' = c /\ pushcli(c)
\* Mutant: release that does not call popcli when it is nested.
releaseLkNested(c) == lk' = NULL /\ (IF ncli[c] = 1 THEN popcli(c) ELSE UNCHANGED cpus)

releaseLk(c) == lk' = NULL /\ popcli(c)

At(c, l)   == pc[on[c]] = l
Goto(c, l) == pc' = [pc EXCEPT ![on[c]] = l]
Me(c)      == on[c]              \* `proc' when it is a process
IsProc(c)  == on[c] \in Proc

-----------------------------------------------------------------------------
(* The scheduler: sti, acquire, one scan of the table, release, forever. *)

scheduler(c) ==
  /\ At(c, "idle")
  /\ ptLock = NULL /\ ptLock' = c
  /\ ncli' = [ncli EXCEPT ![c] = @ + 1]
  /\ intena' = [intena EXCEPT ![c] = TRUE]          \* pushcli after sti
  /\ IF_' = [IF_ EXCEPT ![c] = FALSE]
  /\ Goto(c, "scan")
  /\ UNCHANGED <<lk, cond, on, ret, procs, slot, sint>>

\* Mutant: the scan runs one slot past the end of the table.
schedulerSkipPastEnd(c) ==
  /\ At(c, "scan") /\ slot[c] <= NPROC + 1
  /\ slot[c] \in Proc => state[slot[c]] # "RUNNABLE"
  /\ slot' = [slot EXCEPT ![c] = @ + 1]
  /\ UNCHANGED <<locks, cond, on, pc, ret, procs, cpus, sint>>

schedulerSkip(c) ==
  /\ At(c, "scan") /\ slot[c] \in Proc /\ state[slot[c]] # "RUNNABLE"
  /\ slot' = [slot EXCEPT ![c] = @ + 1]
  /\ UNCHANGED <<locks, cond, on, pc, ret, procs, cpus, sint>>

\* Mutant: after every process the scan starts again at the first slot.
schedulerRunRestart(c) ==
  /\ At(c, "scan") /\ slot[c] \in Proc /\ state[slot[c]] = "RUNNABLE"
  /\ state' = [state EXCEPT ![slot[c]] = "RUNNING"]
  /\ on' = [on EXCEPT ![c] = slot[c]]
  /\ slot' = [slot EXCEPT ![c] = 1]
  /\ UNCHANGED <<locks, cond, pc, ret, chan, killed, cpus, sint>>

\* When the process comes back through sched, the scan goes on behind it.
schedulerRun(c) ==
  /\ At(c, "scan") /\ slot[c] \in Proc /\ state[slot[c]] = "RUNNABLE"
  /\ state' = [state EXCEPT ![slot[c]] = "RUNNING"]
  /\ on' = [on EXCEPT ![c] = slot[c]]
  /\ slot' = [slot EXCEPT ![c] = @ + 1]
  /\ UNCHANGED <<locks, cond, pc, ret, chan, killed, cpus, sint>>

schedulerEnd(c) ==
  /\ At(c, "scan") /\ slot[c] \notin Proc
  /\ ptLock' = NULL
  /\ ncli' = [ncli EXCEPT ![c] = @ - 1]
  /\ IF_' = [IF_ EXCEPT ![c] = TRUE]                \* popcli, then sti
  /\ slot' = [slot EXCEPT ![c] = 1]
  /\ Goto(c, "idle")
  /\ UNCHANGED <<lk, cond, on, ret, procs, intena, sint>>

\* sched: save intena, swtch to the scheduler context of this cpu.
sched(c) ==
  /\ pc[on[c]] \in SchedLabels
  /\ sint' = [sint EXCEPT ![Me(c)] = intena[c]]
  /\ on' = [on EXCEPT ![c] = c]
  /\ Goto(c, IF At(c, "ySched") THEN "yBack"
             ELSE IF At(c, "sSched") THEN "sBack" ELSE "dead")
  /\ UNCHANGED <<locks, cond, ret, procs, slot, cpus>>

\* Mutant: sched forgets cpu->intena = intena.
schedReturnNoRestore(c) ==
  /\ ptLock' = NULL /\ popcli(c)
  /\ sint' = [sint EXCEPT ![Me(c)] = FALSE]

\* The end of sched (cpu->intena = intena) and the release that follows it.
schedReturnRelease(c) ==
  /\ ptLock' = NULL /\ popcliWith(c, sint[Me(c)])
  /\ sint' = [sint EXCEPT ![Me(c)] = FALSE]

forkret(c) ==
  /\ At(c, "forkret") /\ releasePt(c) /\ Goto(c, "iret")
  /\ UNCHANGED <<lk, cond, on, ret, procs, slot, sint>>

-----------------------------------------------------------------------------
(* trap: a clock tick or a device interrupt, when interrupts are enabled.   *)
(* The handler runs with interrupts off until iret.                         *)

\* A clock tick forces the process to yield.  On cpu 0 the handler first does
\* what trapDevice does for &ticks: there a tick is trapDevice, then trapTimer.
trapTimer(c) ==
  /\ IF_[c] /\ ret[on[c]] = NULL /\ IsProc(c) /\ state[Me(c)] = "RUNNING"
  /\ ret' = [ret EXCEPT ![on[c]] = pc[on[c]]]
  /\ IF_' = [IF_ EXCEPT ![c] = FALSE]
  /\ Goto(c, "yLock")
  /\ UNCHANGED <<locks, cond, on, procs, slot, ncli, intena, sint>>

\* A device interrupt: the handler produces (ideintr, consoleintr, ticks).  The
\* device interrupts when it has something new: not before cond was consumed.
trapDevice(c) ==
  /\ IF_[c] /\ ret[on[c]] = NULL /\ ~cond
  /\ ret' = [ret EXCEPT ![on[c]] = pc[on[c]]]
  /\ IF_' = [IF_ EXCEPT ![c] = FALSE]
  /\ Goto(c, "pLock")
  /\ UNCHANGED <<locks, cond, on, procs, slot, ncli, intena, sint>>

trapLock(c) ==
  /\ At(c, "pLock") /\ acquireLk(c) /\ Goto(c, "pSet")
  /\ UNCHANGED <<ptLock, cond, on, ret, procs, slot, sint>>

\* Return to the interrupted code; iret restores the flags of the trap frame.
trapReturn(c) ==
  /\ At(c, "iret")
  /\ IF_' = [IF_ EXCEPT ![c] = TRUE]
  /\ Goto(c, ret[on[c]])
  /\ ret' = [ret EXCEPT ![on[c]] = NULL]
  /\ UNCHANGED <<locks, cond, on, procs, slot, ncli, intena, sint>>

\* A killed process does not return to user space: trap calls exit, with
\* interrupts still off.
trapExit(c) ==
  /\ At(c, "iret") /\ IsProc(c) /\ Me(c) # Initproc
  /\ ret[Me(c)] = "user" /\ killed[Me(c)]
  /\ acquirePt(c) /\ Goto(c, "xHeld")
  /\ ret' = [ret EXCEPT ![Me(c)] = NULL]
  /\ UNCHANGED <<lk, cond, on, procs, slot, sint>>

-----------------------------------------------------------------------------
yieldLock(c) ==
  /\ At(c, "yLock") /\ acquirePt(c) /\ Goto(c, "yHeld")
  /\ UNCHANGED <<lk, cond, on, ret, procs, slot, sint>>

\* Mutant: yield gives ptable.lock up before it has left its stack.
yieldStateUnlock(c) ==
  /\ At(c, "yHeld")
  /\ state' = [state EXCEPT ![Me(c)] = "RUNNABLE"]
  /\ releasePt(c) /\ Goto(c, "ySched")
  /\ UNCHANGED <<lk, cond, on, ret, chan, killed, slot, sint>>

yieldState(c) ==
  /\ At(c, "yHeld")
  /\ state' = [state EXCEPT ![Me(c)] = "RUNNABLE"]
  /\ Goto(c, "ySched")
  /\ UNCHANGED <<locks, cond, on, ret, chan, killed, slot, cpus, sint>>

yieldReturn(c) ==
  /\ At(c, "yBack") /\ schedReturnRelease(c) /\ Goto(c, "iret")
  /\ UNCHANGED <<lk, cond, on, ret, procs, slot>>

-----------------------------------------------------------------------------
(* A consumer: acquire(lk); while(!cond && !killed) sleep(chan, lk); take;  *)
(* release(lk) -- piperead, begin_trans, bget, ilock, iderw, sys_sleep.     *)

CanCall(c) == At(c, "user") /\ IsProc(c) /\ ~killed[Me(c)]

consume(c) ==
  /\ CanCall(c) /\ acquireLk(c) /\ Goto(c, "cTest")
  /\ UNCHANGED <<ptLock, cond, on, ret, procs, slot, sint>>

consumeTest(c) ==
  /\ At(c, "cTest")
  /\ \/ cond /\ cond' = FALSE /\ Goto(c, "cRel")
     \/ ~cond /\ killed[Me(c)] /\ Goto(c, "cRel") /\ UNCHANGED cond
     \/ ~cond /\ ~killed[Me(c)] /\ Goto(c, "sLock") /\ UNCHANGED cond
  /\ UNCHANGED <<locks, on, ret, procs, slot, cpus, sint>>

consumeEnd(c) ==
  /\ At(c, "cRel") /\ releaseLk(c) /\ Goto(c, "user")
  /\ UNCHANGED <<ptLock, cond, on, ret, procs, slot, sint>>

\* Mutant: sleep releases lk before it acquires ptable.lock.
sleepLockSwapped(c) ==
  /\ At(c, "sLock")
  /\ \/ lk = c /\ releaseLk(c) /\ UNCHANGED <<ptLock, pc>>
     \/ lk # c /\ acquirePt(c) /\ Goto(c, "sSet") /\ UNCHANGED lk
  /\ UNCHANGED <<cond, on, ret, procs, slot, sint>>

\* sleep(chan, lk) with lk # &ptable.lock.
sleepLock(c) ==
  /\ At(c, "sLock") /\ acquirePt(c) /\ Goto(c, "sRel")
  /\ UNCHANGED <<lk, cond, on, ret, procs, slot, sint>>

sleepRelease(c) ==
  /\ At(c, "sRel") /\ releaseLk(c) /\ Goto(c, "sSet")
  /\ UNCHANGED <<ptLock, cond, on, ret, procs, slot, sint>>

sleepState(c) ==
  /\ At(c, "sSet")
  /\ chan' = [chan EXCEPT ![Me(c)] = TRUE]
  /\ state' = [state EXCEPT ![Me(c)] = "SLEEPING"]
  /\ Goto(c, "sSched")
  /\ UNCHANGED <<locks, cond, on, ret, killed, slot, cpus, sint>>

sleepReturn(c) ==
  /\ At(c, "sBack")
  /\ chan' = [chan EXCEPT ![Me(c)] = FALSE]
  /\ schedReturnRelease(c) /\ Goto(c, "cLock")
  /\ UNCHANGED <<lk, cond, on, ret, state, killed, slot>>

sleepRelock(c) ==
  /\ At(c, "cLock") /\ acquireLk(c) /\ Goto(c, "cTest")
  /\ UNCHANGED <<ptLock, cond, on, ret, procs, slot, sint>>

-----------------------------------------------------------------------------
(* A producer: acquire(lk); cond = 1; wakeup(chan); release(lk). *)

produce(c) ==
  /\ CanCall(c) /\ acquireLk(c) /\ Goto(c, "pSet")
  /\ UNCHANGED <<ptLock, cond, on, ret, procs, slot, sint>>

produceSet(c) ==
  /\ At(c, "pSet") /\ cond' = TRUE /\ Goto(c, "pWake")
  /\ UNCHANGED <<locks, on, ret, procs, slot, cpus, sint>>

wakeupLock(c) ==
  /\ At(c, "pWake") /\ acquirePt(c) /\ Goto(c, "pScan")
  /\ UNCHANGED <<lk, cond, on, ret, procs, slot, sint>>

wakeup1(st) ==
  [p \in Proc |-> IF st[p] = "SLEEPING" /\ chan[p] THEN "RUNNABLE" ELSE st[p]]

wakeup(c) ==
  /\ At(c, "pScan") /\ state' = wakeup1(state) /\ releasePt(c) /\ Goto(c, "pRel")
  /\ UNCHANGED <<lk, cond, on, ret, chan, killed, slot, sint>>

produceEnd(c) ==
  /\ At(c, "pRel") /\ releaseLk(c)
  /\ Goto(c, IF ret[on[c]] = NULL THEN "user" ELSE "iret")
  /\ UNCHANGED <<ptLock, cond, on, ret, procs, slot, sint>>

-----------------------------------------------------------------------------
killLock(c) ==
  /\ CanCall(c) /\ acquirePt(c) /\ Goto(c, "kHeld")
  /\ UNCHANGED <<lk, cond, on, ret, procs, slot, sint>>

\* kill compares pids only, so kill(0) finds an UNUSED slot; a process that
\* kills init panics the kernel in exit, and is left out.
kill(c) ==
  /\ At(c, "kHeld")
  /\ \/ \E q \in Proc \ {Initproc} :
          /\ killed' = [killed EXCEPT ![q] = TRUE]
          /\ state' = [state EXCEPT ![q] = IF @ = "SLEEPING" THEN "RUNNABLE" ELSE @]
     \/ UNCHANGED <<killed, state>>
  /\ releasePt(c) /\ Goto(c, "user")
  /\ UNCHANGED <<lk, cond, on, ret, chan, slot, sint>>

\* allocproc: take an UNUSED slot under the lock, fill it in without.
forkLock(c) ==
  /\ CanCall(c) /\ acquirePt(c) /\ Goto(c, "aHeld")
  /\ UNCHANGED <<lk, cond, on, ret, procs, slot, sint>>

allocproc(c) ==
  /\ At(c, "aHeld")
  /\ \/ \E q \in Proc :
          /\ state[q] = "UNUSED" /\ \A r \in 1..(q-1) : state[r] # "UNUSED"
          /\ state' = [state EXCEPT ![q] = "EMBRYO"]
          /\ slot' = [slot EXCEPT ![Me(c)] = q]
          /\ Goto(c, "aInit")
     \/ /\ \A q \in Proc : state[q] # "UNUSED"
        /\ Goto(c, "user") /\ UNCHANGED <<state, slot>>
  /\ releasePt(c)
  /\ UNCHANGED <<lk, cond, on, ret, chan, killed, sint>>

\* The child's stack is built to start at forkret and to return to user space.
fork(c) ==
  /\ At(c, "aInit")
  /\ LET q == slot[Me(c)] IN
       /\ pc' = [pc EXCEPT ![q] = "forkret", ![Me(c)] = "user"]
       /\ ret' = [ret EXCEPT ![q] = "user"]
       /\ state' = [state EXCEPT ![q] = "RUNNABLE"]
  /\ slot' = [slot EXCEPT ![Me(c)] = 1]
  /\ UNCHANGED <<locks, cond, on, chan, killed, cpus, sint>>

forkFail(c) ==
  /\ At(c, "aInit")
  /\ state' = [state EXCEPT ![slot[Me(c)]] = "UNUSED"]
  /\ slot' = [slot EXCEPT ![Me(c)] = 1]
  /\ Goto(c, "user")
  /\ UNCHANGED <<locks, cond, on, ret, chan, killed, cpus, sint>>

exitLock(c) ==
  /\ At(c, "user") /\ IsProc(c) /\ Me(c) # Initproc
  /\ acquirePt(c) /\ Goto(c, "xHeld")
  /\ UNCHANGED <<lk, cond, on, ret, procs, slot, sint>>

\* Mutant: exit gives ptable.lock up before it has left its stack.
exitUnlock(c) ==
  /\ At(c, "xHeld")
  /\ state' = [state EXCEPT ![Me(c)] = "ZOMBIE"]
  /\ releasePt(c) /\ Goto(c, "xSched")
  /\ UNCHANGED <<lk, cond, on, ret, chan, killed, slot, sint>>

\* The parents and the channel of wait that exit also touches are in ProcTable.
exit(c) ==
  /\ At(c, "xHeld")
  /\ state' = [state EXCEPT ![Me(c)] = "ZOMBIE"]
  /\ Goto(c, "xSched")
  /\ UNCHANGED <<locks, cond, on, ret, chan, killed, slot, cpus, sint>>

waitLock(c) ==
  /\ CanCall(c) /\ acquirePt(c) /\ Goto(c, "rHeld")
  /\ UNCHANGED <<lk, cond, on, ret, procs, slot, sint>>

\* wait frees the stack of a zombie and gives its slot back.  Whose child it is,
\* and the sleep of a parent that finds none, are in ProcTable.
wait(c) ==
  /\ At(c, "rHeld")
  /\ \/ \E q \in Proc : /\ state[q] = "ZOMBIE"
                        /\ state' = [state EXCEPT ![q] = "UNUSED"]
                        /\ killed' = [killed EXCEPT ![q] = FALSE]
     \/ (\A q \in Proc : state[q] # "ZOMBIE") /\ UNCHANGED <<state, killed>>
  /\ releasePt(c) /\ Goto(c, "user")
  /\ UNCHANGED <<lk, cond, on, ret, chan, slot, sint>>

-----------------------------------------------------------------------------
\* What cpu c does once it has started: the kernel never stops half way.
KernelStep(c) ==
  \/ scheduler(c) \/ schedulerSkip(c) \/ schedulerRun(c) \/ schedulerEnd(c)
  \/ sched(c) \/ forkret(c) \/ trapLock(c) \/ trapReturn(c) \/ trapExit(c)
  \/ yieldLock(c) \/ yieldState(c) \/ yieldReturn(c)
  \/ consumeTest(c) \/ consumeEnd(c)
  \/ sleepLock(c) \/ sleepRelease(c) \/ sleepState(c) \/ sleepReturn(c)
  \/ sleepRelock(c)
  \/ produceSet(c) \/ wakeupLock(c) \/ wakeup(c) \/ produceEnd(c)
  \/ kill(c) \/ allocproc(c) \/ fork(c) \/ forkFail(c)
  \/ exit(c) \/ wait(c)

\* System calls a process may or may not make, and interrupts.
Call(c) == \/ consume(c) \/ produce(c) \/ killLock(c) \/ forkLock(c)
           \/ exitLock(c) \/ waitLock(c)

Next == \E c \in CPU : KernelStep(c) \/ Call(c) \/ trapTimer(c) \/ trapDevice(c)

\* A cpu keeps executing; a pending clock interrupt is delivered once
\* interrupts are on.
Fairness == \A c \in CPU : WF_vars(KernelStep(c)) /\ SF_vars(trapTimer(c))

Spec == Init /\ [][Next]_vars
FairSpec == Spec /\ Fairness
-----------------------------------------------------------------------------
(* Properties. *)

TypeOK ==
  /\ ptLock \in CPU \cup {NULL} /\ lk \in CPU \cup {NULL} /\ cond \in BOOLEAN
  /\ on \in [CPU -> Ctx] /\ pc \in [Ctx -> Labels]
  /\ ret \in [Ctx -> {"user", "cLock", "aInit", "idle", NULL}]
  /\ state \in [Proc -> {"UNUSED", "EMBRYO", "SLEEPING", "RUNNABLE", "RUNNING", "ZOMBIE"}]
  /\ chan \in [Proc -> BOOLEAN] /\ killed \in [Proc -> BOOLEAN]
  /\ slot \in [Ctx -> 1..(NPROC + 1)]
  /\ ncli \in [CPU -> Int] /\ intena \in [CPU -> BOOLEAN]
  /\ IF_ \in [CPU -> BOOLEAN] /\ sint \in [Proc -> BOOLEAN]

\* No two cpus execute on the same kernel stack.  yield, sleep and exit publish
\* the new p->state while still running on p's stack; only the hand-over of
\* ptable.lock through swtch keeps another scheduler from picking p up.
OneCpuPerStack == \A c, d \in CPU : on[c] = on[d] => c = d

\* The stack a cpu executes on is never free or being rebuilt: wait and
\* allocproc cannot reuse the slot of a process that has become a ZOMBIE but
\* has not left its stack yet.
StackLive == \A c \in CPU : IsProc(c) => state[Me(c)] \notin {"UNUSED", "EMBRYO"}

\* The guarantee in sleep's comment ("we won't miss any wakeup"): when the
\* condition holds and a process sleeps on it, some producer is still about to
\* scan the table.
NoLostWakeup ==
  (\E p \in Proc : state[p] = "SLEEPING" /\ chan[p] /\ cond)
     => \E c \in CPU : pc[on[c]] \in {"pWake", "pScan"}

\* cpu->ncli counts the spin locks the cpu holds, although a lock may be
\* acquired by one context and released by another after a swtch.
NcliCounts ==
  \A c \in CPU : ncli[c] = (IF ptLock = c THEN 1 ELSE 0) + (IF lk = c THEN 1 ELSE 0)

\* No call of acquire, release, popcli or sched meets its panic condition.
NoPanic ==
  \A c \in CPU : LET l == pc[on[c]] IN
    /\ l \in {"yLock", "sLock", "pWake"} => ptLock # c
    /\ l \in {"pLock", "cLock"} => lk # c
    /\ l \in PtLabels \ SchedLabels => ptLock = c /\ ~IF_[c] /\ ncli[c] > 0
    /\ l \in {"cRel", "sRel", "pRel"} => lk = c /\ ~IF_[c] /\ ncli[c] > 0
    /\ l \in SchedLabels =>
         ptLock = c /\ ncli[c] = 1 /\ state[Me(c)] # "RUNNING" /\ ~IF_[c]

\* Interrupts are enabled in system-call code outside critical sections and
\* disabled in handlers, whichever cpu resumed the context: sched restores the
\* context's own intena, which another context's pushcli has overwritten.
InterruptState ==
  \A c \in CPU : /\ pc[on[c]] \in {"user", "cLock", "aInit", "idle"} => IF_[c]
                 /\ pc[on[c]] \in {"yLock", "pLock"} => ~IF_[c]

\* Every RUNNABLE process is eventually run, by some cpu's scan of the table.
EventuallyRuns ==
  \A p \in Proc : state[p] = "RUNNABLE" ~> state[p] = "RUNNING"
=============================================================================
