---------------------------- MODULE SchedProofs -----------------------------
(***************************************************************************)
(* Theorems about Sched, for any number of cpus and process slots.  First  *)
(* the inductive invariant, the effects its actions have, and why a step   *)
(* with such an effect preserves the invariant: the actions that stay on   *)
(* their stack, then fork, the way out through sched and the switches      *)
(* between contexts.  Then what follows from it, and two more invariants   *)
(* on top of it (no wakeup is lost; interrupts are on or off where the code *)
(* expects it).                                                            *)
(***************************************************************************)
EXTENDS Sched, TLAPS

\* Zenon is the prover of what follows; the steps that need arithmetic,
\* records or sequences name SMT.
USE Zenon, ZenonT(30)

\* The two primed-free facts most steps need: the contexts, and that a cpu is
\* not a process.
LEMMA CtxFacts ==
  /\ Proc \subseteq Ctx /\ CPU \subseteq Ctx /\ CPU \cap Proc = {}
  /\ Ctx = Proc \cup CPU
  /\ Initproc \in Proc /\ Proc \subseteq Nat /\ 1 \in Proc
  /\ NULL \notin CPU /\ NULL \notin Labels
  /\ \A i \in Proc : i \in 1..(NPROC + 1) /\ i + 1 \in 1..(NPROC + 1)
BY SMT, SMTT(30), SchedAssumption, NullAssumption DEF Proc, Ctx, Initproc

\* pushcli and popcli keep the types of the three cpu fields.
LEMMA CliTypes ==
  ASSUME TypeOK, NEW c \in CPU
  PROVE  /\ pushcli(c) => /\ ncli' \in [CPU -> Int] /\ intena' \in [CPU -> BOOLEAN]
                          /\ IF_' \in [CPU -> BOOLEAN]
         /\ \A e \in BOOLEAN : popcliWith(c, e) =>
              /\ ncli' \in [CPU -> Int] /\ intena' \in [CPU -> BOOLEAN]
              /\ IF_' \in [CPU -> BOOLEAN]
         /\ intena[c] \in BOOLEAN /\ \A p \in Proc : sint[p] \in BOOLEAN
<1>1. ncli \in [CPU -> Int] /\ intena \in [CPU -> BOOLEAN] /\ IF_ \in [CPU -> BOOLEAN] /\ sint \in [Proc -> BOOLEAN]
  BY DEF TypeOK
<1>2. pushcli(c) => /\ ncli' \in [CPU -> Int] /\ intena' \in [CPU -> BOOLEAN]
                    /\ IF_' \in [CPU -> BOOLEAN]
  BY SMT, SMTT(30), <1>1 DEF pushcli
<1>3. ASSUME NEW e \in BOOLEAN, popcliWith(c, e)
      PROVE  /\ ncli' \in [CPU -> Int] /\ intena' \in [CPU -> BOOLEAN]
             /\ IF_' \in [CPU -> BOOLEAN]
  <2>1. ncli' \in [CPU -> Int]
    BY SMT, SMTT(30), <1>1, <1>3 DEF popcliWith
  <2>2. intena' \in [CPU -> BOOLEAN]
    BY <1>1, <1>3 DEF popcliWith
  <2>3. IF_' \in [CPU -> BOOLEAN]
    BY <1>1, <1>3 DEF popcliWith
  <2> QED BY <2>1, <2>2, <2>3
<1> QED BY <1>1, <1>2, <1>3

-----------------------------------------------------------------------------
(* Contexts and locks. *)

\* A process whose fork has taken a slot and not yet published or returned it.
Forking(p) == pc[p] = "aInit" \/ ret[p] = "aInit"

HandlerLabels == {"yLock", "yHeld", "ySched", "yBack", "pLock", "pSet", "pWake",
                  "pScan", "pRel", "iret", "forkret"}
StoredLabels == {"yLock", "yHeld", "ySched", "yBack", "pLock", "iret", "forkret"}
CpuLabels == {"scan", "idle", "pLock", "pSet", "pWake", "pScan", "pRel", "iret"}

\* Who holds which lock is written in the program counters.
LocksInv ==
  /\ \A c \in CPU : ptLock = c <=> pc[on[c]] \in PtLabels
  /\ \A c \in CPU : lk = c <=> pc[on[c]] \in LkLabels

\* Where a context can be when it executes, and when it does not.
StackInv ==
  /\ \A c \in CPU : on[c] \in Proc \cup {c} /\ pc[c] \in CpuLabels
  /\ \A c \in CPU : on[c] # c => pc[c] = "scan"
  /\ \A c, d \in CPU : on[c] = on[d] => c = d
  /\ \A p \in Proc : pc[p] \notin {"scan", "idle"}
  /\ \A p \in Proc : state[p] = "RUNNING" => \E c \in CPU : on[c] = p
  /\ \A c \in CPU : on[c] \in Proc =>
       /\ pc[on[c]] # "dead"
       /\ state[on[c]] = "RUNNING" \/ pc[on[c]] \in SchedLabels
       /\ pc[on[c]] = "ySched" => state[on[c]] = "RUNNABLE"
       /\ pc[on[c]] = "sSched" => state[on[c]] = "SLEEPING"
       /\ pc[on[c]] = "xSched" => state[on[c]] = "ZOMBIE"
  /\ \A p \in Proc : (\A c \in CPU : on[c] # p) =>
       /\ pc[p] \in ResumeLabels \cup {"dead"}
       /\ state[p] \in {"RUNNABLE", "SLEEPING"} => pc[p] \in ResumeLabels
       /\ state[p] = "ZOMBIE" => pc[p] = "dead"

\* A slot taken by fork belongs to one process, which alone writes it.
ForkInv ==
  /\ \A p \in Proc : state[p] \in {"UNUSED", "EMBRYO"} => pc[p] = "dead"
  /\ \A p \in Proc : Forking(p) => slot[p] \in Proc /\ state[slot[p]] = "EMBRYO"
  /\ \A p, q \in Proc : Forking(p) /\ Forking(q) /\ slot[p] = slot[q] => p = q

\* A return address is stored exactly while a handler runs.
RetInv ==
  /\ \A x \in Ctx : ret[x] # NULL => pc[x] \in HandlerLabels
  /\ \A x \in Ctx : pc[x] \in StoredLabels => ret[x] # NULL
  /\ \A c \in CPU : ret[c] # NULL => ret[c] = "idle"
  /\ \A c \in CPU : pc[c] \notin {"scan", "idle"} => ret[c] # NULL
  /\ \A p \in Proc : ret[p] # "idle"

\* Interrupts are off while a cpu holds a lock or enters a handler.
CliInv ==
  /\ \A c \in CPU : ncli[c] > 0 => ~IF_[c]
  /\ \A c \in CPU : pc[on[c]] \in {"yLock", "pLock"} => ~IF_[c]

\* Whatever cpu c does next.
Step(c) == KernelStep(c) \/ Call(c) \/ trapTimer(c) \/ trapDevice(c)

Inv == TypeOK /\ LocksInv /\ StackInv /\ ForkInv /\ RetInv /\ NcliCounts /\ CliInv

\* The slot a fork works on is not executing anywhere.
LEMMA ForkSlot ==
  ASSUME Inv, NEW c \in CPU, pc[on[c]] = "aInit"
  PROVE  /\ on[c] \in Proc /\ slot[on[c]] \in Proc /\ slot[on[c]] # on[c]
         /\ state[slot[on[c]]] = "EMBRYO" /\ pc[slot[on[c]]] = "dead"
         /\ ret[slot[on[c]]] = NULL /\ ret[on[c]] = NULL
         /\ \A d \in CPU : on[d] # slot[on[c]]
<1>1. on[c] \in Proc
  BY DEF Inv, StackInv, CpuLabels
<1>2. slot[on[c]] \in Proc /\ state[slot[on[c]]] = "EMBRYO"
  BY <1>1 DEF Inv, ForkInv, Forking
<1>3. pc[slot[on[c]]] = "dead"
  BY <1>2 DEF Inv, ForkInv
<1>4. \A d \in CPU : on[d] # slot[on[c]]
  BY SMT, SMTT(30), <1>2, <1>3 DEF Inv, StackInv
<1>5. \A p \in Proc : pc[p] \notin HandlerLabels => ret[p] = NULL
  BY CtxFacts DEF Inv, RetInv
<1>6. ret[slot[on[c]]] = NULL /\ ret[on[c]] = NULL
  BY <1>1, <1>2, <1>3, <1>5 DEF HandlerLabels
<1> QED BY <1>1, <1>2, <1>3, <1>4, <1>6

\* The process a cpu executes is RUNNING, except on its way out through sched.
LEMMA Executing ==
  ASSUME Inv, NEW c \in CPU
  PROVE  /\ on[c] \in Ctx
         /\ on[c] \in Proc \/ on[c] = c
         /\ pc[on[c]] \notin CpuLabels => on[c] \in Proc
         /\ on[c] \in Proc /\ pc[on[c]] \notin SchedLabels => state[on[c]] = "RUNNING"
         /\ pc[on[c]] \in {"scan", "idle"} => on[c] = c
<1>1. on[c] \in Proc \/ on[c] = c
  BY DEF Inv, StackInv
<1>2. pc[c] \in CpuLabels /\ \A p \in Proc : pc[p] \notin {"scan", "idle"}
  BY DEF Inv, StackInv
<1>3. on[c] \in Proc /\ pc[on[c]] \notin SchedLabels => state[on[c]] = "RUNNING"
  BY DEF Inv, StackInv
<1> QED BY <1>1, <1>2, <1>3, CtxFacts

\* An interrupt is taken only outside handlers and critical sections.
LEMMA Interruptible ==
  ASSUME Inv, NEW c \in CPU, IF_[c], ret[on[c]] = NULL
  PROVE  pc[on[c]] \in {"user", "cLock", "aInit"} \/ (pc[on[c]] = "idle" /\ on[c] = c)
<1>1. ptLock # c /\ lk # c
  BY SMT, SMTT(30) DEF Inv, TypeOK, NcliCounts, CliInv
<1>2. pc[on[c]] \notin PtLabels /\ pc[on[c]] \notin LkLabels
  BY <1>1 DEF Inv, LocksInv
<1>3. pc[on[c]] \notin {"yLock", "pLock"}
  BY DEF Inv, CliInv
<1>4. pc[on[c]] # "iret"
  BY Executing DEF Inv, RetInv, StoredLabels
<1>5. pc[on[c]] # "dead"
  BY CtxFacts DEF Inv, StackInv, CpuLabels
<1>6. pc[on[c]] \in Labels
  BY Executing DEF Inv, TypeOK
<1>7. pc[on[c]] \in {"user", "cLock", "aInit", "idle"}
  BY <1>2, <1>3, <1>4, <1>5, <1>6 DEF Labels, FreeLabels
<1> QED BY <1>7, Executing

\* The address a handler returns to.
LEMMA ReturnAddress ==
  ASSUME Inv, NEW c \in CPU, pc[on[c]] = "iret"
  PROVE  /\ ret[on[c]] \in {"user", "cLock", "aInit", "idle"}
         /\ ret[on[c]] = "idle" <=> on[c] = c
<1>1. ret[on[c]] # NULL
  BY Executing DEF Inv, RetInv, StoredLabels
<1>2. ret[on[c]] \in {"user", "cLock", "aInit", "idle", NULL}
  BY Executing DEF Inv, TypeOK
<1>3. on[c] = c => ret[on[c]] = "idle"
  BY <1>1 DEF Inv, RetInv
<1>4. on[c] \in Proc => ret[on[c]] # "idle"
  BY DEF Inv, RetInv
<1> QED BY <1>1, <1>2, <1>3, <1>4, Executing, CtxFacts

\* While cpu c holds ptable.lock and is not in sched, a process that is not
\* RUNNING executes nowhere: the one that changed its state has left its stack.
LEMMA NotExecuting ==
  ASSUME Inv, NEW c \in CPU, ptLock = c, pc[on[c]] \notin SchedLabels,
         NEW q \in Proc, state[q] # "RUNNING"
  PROVE  /\ \A d \in CPU : on[d] # q
         /\ state[q] \in {"RUNNABLE", "SLEEPING"} => pc[q] \in ResumeLabels
         /\ state[q] = "ZOMBIE" => pc[q] = "dead"
<1>1. ASSUME NEW d \in CPU, on[d] = q PROVE FALSE
  <2>1. pc[on[d]] \in SchedLabels
    BY <1>1 DEF Inv, StackInv
  <2>2. ptLock = d
    BY <2>1 DEF Inv, LocksInv, PtLabels
  <2> QED BY <2>1, <2>2
<1> QED BY <1>1 DEF Inv, StackInv

-----------------------------------------------------------------------------
(* The actions by what they do to the locks, the stacks and the table. *)

EnterPt(c) == \/ scheduler(c) \/ yieldLock(c) \/ sleepLock(c) \/ wakeupLock(c)
              \/ killLock(c) \/ forkLock(c) \/ exitLock(c) \/ waitLock(c)
LeavePt(c) == forkret(c) \/ yieldReturn(c) \/ sleepReturn(c)
UseLk(c)   == \/ trapLock(c) \/ consume(c) \/ sleepRelock(c) \/ produce(c)
              \/ consumeEnd(c) \/ sleepRelease(c) \/ produceEnd(c)
              \/ consumeTest(c) \/ produceSet(c)
ScanTable(c) == wakeup(c) \/ kill(c) \/ wait(c)
Trap(c)    == trapTimer(c) \/ trapDevice(c) \/ trapReturn(c) \/ trapExit(c)
Loop(c)    == schedulerSkip(c) \/ schedulerEnd(c)
Fork(c)    == allocproc(c) \/ fork(c) \/ forkFail(c)
Leave(c)   == yieldState(c) \/ sleepState(c) \/ exit(c)
Swtch(c)   == schedulerRun(c) \/ sched(c)

\* Every action is in one of the groups.
LEMMA StepGroups ==
  ASSUME NEW c \in CPU, Step(c)
  PROVE  \/ EnterPt(c) \/ LeavePt(c) \/ UseLk(c) \/ ScanTable(c) \/ Trap(c)
         \/ Loop(c) \/ Fork(c) \/ Leave(c) \/ Swtch(c)
BY DEF Step, KernelStep, Call, EnterPt, LeavePt, UseLk, ScanTable, Trap, Loop, Fork, Leave, Swtch

\* What the other cpus execute stays as it is.
OtherCpus(c) == \A d \in CPU \ {c} : on'[d] = on[d] /\ pc'[on[d]] = pc[on[d]]

\* How a step from label k to label l of cpu c uses the locks: it keeps them, or
\* it takes or gives up one, and pushcli or popcli goes with it.
KeepLocks(c, k, l) ==
  /\ ptLock' = ptLock /\ lk' = lk /\ ncli'[c] = ncli[c]
  /\ (l \in PtLabels <=> k \in PtLabels) /\ (l \in LkLabels <=> k \in LkLabels)
  /\ IF_'[c] => IF_[c] \/ (l \notin PtLabels /\ l \notin LkLabels)
TakePt(c, k, l) ==
  /\ ptLock = NULL /\ ptLock' = c /\ lk' = lk /\ ncli'[c] = ncli[c] + 1 /\ ~IF_'[c]
  /\ l \in PtLabels /\ (l \in LkLabels <=> k \in LkLabels)
GivePt(c, k, l) ==
  /\ ptLock' = NULL /\ lk' = lk /\ ncli'[c] = ncli[c] - 1
  /\ IF_'[c] => IF_[c] \/ ncli[c] = 1 \/ l \notin LkLabels
  /\ k \in PtLabels /\ l \notin PtLabels /\ (l \in LkLabels <=> k \in LkLabels)
TakeLk(c, k, l) ==
  /\ lk = NULL /\ lk' = c /\ ptLock' = ptLock /\ ncli'[c] = ncli[c] + 1 /\ ~IF_'[c]
  /\ l \in LkLabels /\ (l \in PtLabels <=> k \in PtLabels)
GiveLk(c, k, l) ==
  /\ lk' = NULL /\ ptLock' = ptLock /\ ncli'[c] = ncli[c] - 1
  /\ IF_'[c] => IF_[c] \/ ncli[c] = 1
  /\ k \in LkLabels /\ l \notin LkLabels /\ (l \in PtLabels <=> k \in PtLabels)
LockUse(c, k, l) ==
  \/ KeepLocks(c, k, l) \/ TakePt(c, k, l) \/ GivePt(c, k, l)
  \/ TakeLk(c, k, l) \/ GiveLk(c, k, l)

LockEffect(c) ==
  /\ \A d \in CPU \ {c} : ncli'[d] = ncli[d] /\ IF_'[d] = IF_[d]
  /\ pc'[on'[c]] \in {"yLock", "pLock"} => ~IF_'[c]
  /\ LockUse(c, pc[on[c]], pc'[on'[c]])

\* The locks, ncli and IF of every cpu fit where it is, after such a step.
LEMMA LockStep ==
  ASSUME Inv, NEW c \in CPU, LockEffect(c), OtherCpus(c)
  PROVE  LocksInv' /\ NcliCounts' /\ CliInv'
<1> DEFINE k == pc[on[c]]
<1> DEFINE l == pc'[on'[c]]
<1>1. /\ ptLock = c <=> k \in PtLabels
      /\ lk = c <=> k \in LkLabels
      /\ ncli[c] = (IF ptLock = c THEN 1 ELSE 0) + (IF lk = c THEN 1 ELSE 0)
      /\ ncli[c] > 0 => ~IF_[c]
  BY DEF Inv, LocksInv, NcliCounts, CliInv
<1>2. LockUse(c, k, l) /\ (l \in {"yLock", "pLock"} => ~IF_'[c])
  BY DEF LockEffect
<1>3. c # NULL
  BY CtxFacts
<1> HIDE DEF k, l
<1>4. /\ ptLock' = c <=> l \in PtLabels
      /\ lk' = c <=> l \in LkLabels
      /\ ncli'[c] = (IF ptLock' = c THEN 1 ELSE 0) + (IF lk' = c THEN 1 ELSE 0)
      /\ ncli'[c] > 0 => ~IF_'[c]
  <2>1. CASE KeepLocks(c, k, l)  BY SMT, SMTT(30), <1>1, <2>1 DEF KeepLocks
  <2>2. CASE TakePt(c, k, l)     BY SMT, SMTT(30), <1>1, <1>3, <2>2 DEF TakePt
  <2>3. CASE GivePt(c, k, l)     BY SMT, SMTT(30), <1>1, <1>3, <2>3 DEF GivePt
  <2>4. CASE TakeLk(c, k, l)     BY SMT, SMTT(30), <1>1, <1>3, <2>4 DEF TakeLk
  <2>5. CASE GiveLk(c, k, l)     BY SMT, SMTT(30), <1>1, <1>3, <2>5 DEF GiveLk
  <2> QED BY <1>2, <2>1, <2>2, <2>3, <2>4, <2>5 DEF LockUse
<1>5. ASSUME NEW d \in CPU, d # c
      PROVE  (ptLock' = d <=> ptLock = d) /\ (lk' = d <=> lk = d)
  <2>1. d # NULL
    BY CtxFacts
  <2> QED BY <1>1, <1>2, <1>5, <2>1
          DEF LockUse, KeepLocks, TakePt, GivePt, TakeLk, GiveLk
<1>6. \A d \in CPU \ {c} :
        /\ on'[d] = on[d] /\ pc'[on'[d]] = pc[on[d]]
        /\ ncli'[d] = ncli[d] /\ IF_'[d] = IF_[d]
  BY DEF OtherCpus, LockEffect
<1>7. LocksInv'
  BY <1>4, <1>5, <1>6 DEF Inv, LocksInv, l
<1>8. NcliCounts'
  BY <1>4, <1>5, <1>6 DEF Inv, NcliCounts
<1>9. CliInv'
  BY <1>2, <1>4, <1>6 DEF Inv, CliInv, l
<1> QED BY <1>7, <1>8, <1>9

\* A step that stays on its stack: only the executing context moves, to a label
\* that fits the context and the return address it now has.
Local(c) ==
  LET l == pc'[on[c]]  r == ret'[on[c]] IN
  /\ on' = on
  /\ \A x \in Ctx \ {on[c]} : pc'[x] = pc[x] /\ ret'[x] = ret[x]
  /\ l # "dead" /\ l \notin SchedLabels /\ pc[on[c]] \notin SchedLabels
  /\ on[c] = c => /\ l \in CpuLabels
                  /\ r # NULL => r = "idle"
                  /\ l \notin {"scan", "idle"} => r # NULL
  /\ on[c] \in Proc => l \notin {"scan", "idle"} /\ r # "idle"
  /\ r # NULL => l \in HandlerLabels
  /\ l \in StoredLabels => r # NULL

\* The state changes only of processes that execute nowhere.
StateKept ==
  /\ \A p \in Proc : state'[p] = "RUNNING" <=> state[p] = "RUNNING"
  /\ \A p \in Proc : state'[p] # state[p] =>
       /\ \A d \in CPU : on[d] # p
       /\ state'[p] \in {"RUNNABLE", "SLEEPING"} => pc[p] \in ResumeLabels
       /\ state'[p] \in {"UNUSED", "EMBRYO"} => pc[p] = "dead"
       /\ state'[p] # "ZOMBIE"

\* No fork begins, and the slots that forks have taken keep their state.
ForksKept ==
  /\ \A p \in Proc : Forking(p)' => Forking(p) /\ slot'[p] = slot[p]
  /\ \A p \in Proc : state[p] = "EMBRYO" => state'[p] = "EMBRYO"

\* A step that stays on its stack is invisible to the other cpus.
LEMMA LocalOthers ==
  ASSUME Inv, NEW c \in CPU, Local(c)
  PROVE  OtherCpus(c)
<1>1. \A d \in CPU \ {c} : on[d] # on[c] /\ on[d] \in Ctx
  BY DEF Inv, StackInv, TypeOK
<1> QED BY <1>1 DEF Local, OtherCpus

\* The return addresses fit the labels after a step that stays on its stack.
LEMMA LocalRet ==
  ASSUME Inv, NEW c \in CPU, Local(c)
  PROVE  RetInv'
<1> DEFINE l == pc'[on[c]]
<1> DEFINE r == ret'[on[c]]
<1>1. /\ on[c] = c => (r # NULL => r = "idle") /\ (l \notin {"scan", "idle"} => r # NULL)
      /\ on[c] \in Proc => r # "idle"
      /\ r # NULL => l \in HandlerLabels
      /\ l \in StoredLabels => r # NULL
  BY DEF Local
<1>2. \A x \in Ctx \ {on[c]} : pc'[x] = pc[x] /\ ret'[x] = ret[x]
  BY DEF Local
<1>3. on[c] \in Proc \/ on[c] = c
  BY Executing
<1>4. RetInv
  BY DEF Inv
<1>5. \A x \in Ctx : (ret'[x] # NULL => pc'[x] \in HandlerLabels) /\ (pc'[x] \in StoredLabels => ret'[x] # NULL)
  BY <1>1, <1>2, <1>4 DEF RetInv
<1>6. \A d \in CPU : (ret'[d] # NULL => ret'[d] = "idle") /\ (pc'[d] \notin {"scan", "idle"} => ret'[d] # NULL)
  <2> TAKE d \in CPU
  <2>1. CASE d = on[c]
    BY <1>1, <1>3, <2>1, CtxFacts
  <2>2. CASE d # on[c]
    BY <1>2, <1>4, <2>2, CtxFacts DEF RetInv
  <2> QED BY <2>1, <2>2
<1>7. \A p \in Proc : ret'[p] # "idle"
  BY <1>1, <1>2, <1>4, CtxFacts DEF RetInv
<1> QED BY <1>5, <1>6, <1>7 DEF RetInv

\* The stacks fit the states after a step that stays on its stack.
LEMMA LocalStack ==
  ASSUME Inv, NEW c \in CPU, Local(c), StateKept
  PROVE  StackInv'
<1> DEFINE l == pc'[on[c]]
<1>1. /\ on' = on /\ l # "dead" /\ l \notin SchedLabels /\ pc[on[c]] \notin SchedLabels
      /\ on[c] = c => l \in CpuLabels
      /\ on[c] \in Proc => l \notin {"scan", "idle"}
  BY DEF Local
<1>2. \A x \in Ctx \ {on[c]} : pc'[x] = pc[x]
  BY DEF Local
<1>3. on[c] \in Ctx /\ (on[c] \in Proc \/ on[c] = c) /\ StackInv
  BY Executing DEF Inv
<1>4. \A d \in CPU : on'[d] \in Proc \cup {d} /\ pc'[d] \in CpuLabels
  BY SMT, SMTT(30), <1>1, <1>2, <1>3, CtxFacts DEF StackInv
<1>5. \A d \in CPU : on'[d] # d => pc'[d] = "scan"
  BY SMT, SMTT(30), <1>1, <1>2, <1>3, CtxFacts DEF StackInv
<1>6. \A d, e \in CPU : on'[d] = on'[e] => d = e
  BY SMT, SMTT(30), <1>1, <1>3 DEF StackInv
<1>7. \A p \in Proc : pc'[p] \notin {"scan", "idle"}
  BY SMT, SMTT(30), <1>1, <1>2, <1>3, CtxFacts DEF StackInv
<1>8. \A p \in Proc : state'[p] = "RUNNING" => \E d \in CPU : on'[d] = p
  BY SMT, SMTT(30), <1>1, <1>3 DEF StackInv, StateKept
<1>9. ASSUME NEW d \in CPU, on[d] \in Proc
      PROVE  /\ pc'[on[d]] # "dead"
             /\ state'[on[d]] = "RUNNING" \/ pc'[on[d]] \in SchedLabels
             /\ pc'[on[d]] = "ySched" => state'[on[d]] = "RUNNABLE"
             /\ pc'[on[d]] = "sSched" => state'[on[d]] = "SLEEPING"
             /\ pc'[on[d]] = "xSched" => state'[on[d]] = "ZOMBIE"
  <2>1. state'[on[d]] = state[on[d]]
    BY <1>9 DEF StateKept
  <2>2. CASE d = c
    BY <2>1, <2>2, <1>1, <1>3, <1>9 DEF StackInv, SchedLabels
  <2>3. CASE d # c
    <3>1. on[d] # on[c]
      BY <2>3, <1>3 DEF StackInv
    <3> QED BY <3>1, <2>1, <1>9, <1>2, <1>3, CtxFacts DEF StackInv
  <2> QED BY <2>2, <2>3
<1>10. ASSUME NEW p \in Proc, \A d \in CPU : on[d] # p
       PROVE  /\ pc'[p] \in ResumeLabels \cup {"dead"}
              /\ state'[p] \in {"RUNNABLE", "SLEEPING"} => pc'[p] \in ResumeLabels
              /\ state'[p] = "ZOMBIE" => pc'[p] = "dead"
  <2>1. pc'[p] = pc[p]
    BY <1>10, <1>2, CtxFacts
  <2>2. \/ state'[p] = state[p]
        \/ /\ state'[p] # "ZOMBIE"
           /\ state'[p] \in {"RUNNABLE", "SLEEPING"} => pc[p] \in ResumeLabels
    BY DEF StateKept
  <2>3. /\ pc[p] \in ResumeLabels \cup {"dead"}
        /\ state[p] \in {"RUNNABLE", "SLEEPING"} => pc[p] \in ResumeLabels
        /\ state[p] = "ZOMBIE" => pc[p] = "dead"
    BY <1>10, <1>3 DEF StackInv
  <2> QED BY <2>1, <2>2, <2>3
<1> QED BY <1>1, <1>4, <1>5, <1>6, <1>7, <1>8, <1>9, <1>10 DEF StackInv

\* A process whose slot is free or being filled has no stack to resume.
LEMMA LocalDead ==
  ASSUME Inv, NEW c \in CPU, Local(c), StateKept
  PROVE  \A p \in Proc : state'[p] \in {"UNUSED", "EMBRYO"} => pc'[p] = "dead"
<1>1. on[c] \in Proc => state[on[c]] = "RUNNING"
  BY Executing DEF Local
<1>2. \A p \in Proc : state'[p] \in {"UNUSED", "EMBRYO"} => p # on[c] /\ pc[p] = "dead"
  BY <1>1 DEF StateKept, Inv, ForkInv
<1> QED BY <1>2, CtxFacts DEF Local

\* The slots of forks keep one writer after a step that stays on its stack.
LEMMA LocalFork ==
  ASSUME Inv, NEW c \in CPU, Local(c), StateKept, ForksKept
  PROVE  ForkInv'
<1>1. \A p \in Proc : Forking(p)' => slot'[p] \in Proc /\ state'[slot'[p]] = "EMBRYO"
  BY DEF ForksKept, Inv, ForkInv
<1>2. ASSUME NEW p \in Proc, NEW q \in Proc, Forking(p)', Forking(q)', slot'[p] = slot'[q]
      PROVE  p = q
  <2>1. Forking(p) /\ Forking(q) /\ slot[p] = slot[q]
    BY <1>2 DEF ForksKept
  <2> QED BY <2>1 DEF Inv, ForkInv
<1> QED BY <1>1, <1>2, LocalDead DEF ForkInv

\* What InvStep needs of a step that stays on its stack.
LEMMA LocalStep ==
  ASSUME Inv, NEW c \in CPU, Local(c), StateKept, ForksKept
  PROVE  OtherCpus(c) /\ StackInv' /\ ForkInv' /\ RetInv'
BY LocalOthers, LocalRet, LocalStack, LocalFork

-----------------------------------------------------------------------------
(* Every action that stays on its stack has one of these effects. *)

\* The types of what a step reads at the context that executes.
LEMMA Here ==
  ASSUME Inv, NEW c \in CPU
  PROVE  /\ on[c] \in Ctx /\ pc \in [Ctx -> Labels]
         /\ ret \in [Ctx -> {"user", "cLock", "aInit", "idle", NULL}]
         /\ ncli \in [CPU -> Int] /\ IF_ \in [CPU -> BOOLEAN]
         /\ on[c] = c => /\ pc[on[c]] \in CpuLabels
                         /\ ret[on[c]] # NULL => ret[on[c]] = "idle"
                         /\ pc[on[c]] \notin {"scan", "idle"} => ret[on[c]] # NULL
         /\ on[c] \in Proc => pc[on[c]] \notin {"scan", "idle"} /\ ret[on[c]] # "idle"
         /\ ret[on[c]] # NULL => pc[on[c]] \in HandlerLabels
         /\ pc[on[c]] \in StoredLabels => ret[on[c]] # NULL
<1>1. on[c] \in Ctx /\ pc \in [Ctx -> Labels]
  BY Executing DEF Inv, TypeOK
<1>2. /\ ret \in [Ctx -> {"user", "cLock", "aInit", "idle", NULL}]
      /\ ncli \in [CPU -> Int] /\ IF_ \in [CPU -> BOOLEAN]
  BY DEF Inv, TypeOK
<1>3. on[c] = c => pc[on[c]] \in CpuLabels
  BY DEF Inv, StackInv
<1>4. on[c] \in Proc => pc[on[c]] \notin {"scan", "idle"}
  BY DEF Inv, StackInv
<1>5. RetInv
  BY DEF Inv
<1> QED BY <1>1, <1>2, <1>3, <1>4, <1>5 DEF RetInv

\* The state and the forks are kept when nothing of them changes.
LEMMA TableKept ==
  ASSUME Inv, NEW c \in CPU, Local(c), state' = state, \A p \in Proc : slot'[p] = slot[p],
         ret' = ret, pc'[on[c]] # "aInit"
  PROVE  StateKept /\ ForksKept
<1>1. \A p \in Proc : Forking(p)' => Forking(p)
  BY CtxFacts DEF Local, Forking
<1> QED BY <1>1 DEF StateKept, ForksKept

\* acquire(&ptable.lock), wherever it is called.
LEMMA EnterPtStep ==
  ASSUME Inv, NEW c \in CPU, EnterPt(c)
  PROVE  Local(c) /\ LockEffect(c) /\ StateKept /\ ForksKept
<1>1. Local(c)
  <2>1. CASE scheduler(c) \/ yieldLock(c) \/ sleepLock(c) \/ wakeupLock(c)
    BY SMT, SMTT(30), <2>1, Here, CtxFacts
    DEF scheduler, yieldLock, sleepLock, wakeupLock, At, Goto, Me, Local,
        HandlerLabels, CpuLabels, StoredLabels, SchedLabels
  <2>2. CASE killLock(c) \/ forkLock(c)
    BY SMT, SMTT(30), <2>2, Here, CtxFacts
    DEF killLock, forkLock, At, Goto, Me, IsProc, CanCall, Local,
        HandlerLabels, CpuLabels, StoredLabels, SchedLabels
  <2>3. CASE exitLock(c) \/ waitLock(c)
    BY SMT, SMTT(30), <2>3, Here, CtxFacts
    DEF exitLock, waitLock, At, Goto, Me, IsProc, CanCall, Local,
        HandlerLabels, CpuLabels, StoredLabels, SchedLabels
  <2> QED BY <2>1, <2>2, <2>3 DEF EnterPt
<1>2. LockEffect(c)
  <2>1. /\ ptLock = NULL /\ ptLock' = c /\ lk' = lk /\ on' = on
        /\ ncli' = [ncli EXCEPT ![c] = @ + 1] /\ IF_' = [IF_ EXCEPT ![c] = FALSE]
    BY DEF EnterPt, scheduler, yieldLock, sleepLock, wakeupLock, killLock,
           forkLock, exitLock, waitLock, acquirePt, pushcli
  <2>2. LET k == pc[on[c]]  l == pc'[on[c]]
        IN  \/ k \in {"idle", "yLock", "user", "cLock"} /\ l \in {"scan", "yHeld", "kHeld", "aHeld", "xHeld", "rHeld"}
            \/ k = "sLock" /\ l = "sRel"
            \/ k = "pWake" /\ l = "pScan"
    BY Here
    DEF EnterPt, scheduler, yieldLock, sleepLock, wakeupLock, killLock,
        forkLock, exitLock, waitLock, At, Goto, CanCall
  <2>3. TakePt(c, pc[on[c]], pc'[on[c]])
    BY <2>1, <2>2, Here DEF TakePt, PtLabels, LkLabels, SchedLabels, ResumeLabels
  <2>4. pc'[on[c]] \notin {"yLock", "pLock"}
    BY <2>2
  <2> QED BY <2>1, <2>3, <2>4, Here DEF LockEffect, LockUse
<1>3. StateKept /\ ForksKept
  <2>1. CASE scheduler(c) \/ yieldLock(c) \/ sleepLock(c) \/ wakeupLock(c)
    BY <2>1, <1>1, Here, TableKept
    DEF scheduler, yieldLock, sleepLock, wakeupLock, At, Goto, Me,
        IsProc, CanCall, procs
  <2>2. CASE killLock(c) \/ forkLock(c) \/ exitLock(c) \/ waitLock(c)
    BY <2>2, <1>1, Here, TableKept
    DEF killLock, forkLock, exitLock, waitLock, At, Goto, Me,
        IsProc, CanCall, procs
  <2> QED BY <2>1, <2>2 DEF EnterPt
<1> QED BY <1>1, <1>2, <1>3

\* release(&ptable.lock) after sched has returned, and in forkret.
LEMMA LeavePtStep ==
  ASSUME Inv, NEW c \in CPU, LeavePt(c)
  PROVE  Local(c) /\ LockEffect(c) /\ StateKept /\ ForksKept
<1>1. Local(c)
  BY Here, CtxFacts
  DEF LeavePt, forkret, yieldReturn, sleepReturn, At, Goto, Me, Local,
      HandlerLabels, CpuLabels, StoredLabels, SchedLabels
<1>2. LockEffect(c)
  BY SMT, SMTT(30), Here
  DEF LeavePt, forkret, yieldReturn, sleepReturn, At, Goto, Me, releasePt,
      schedReturnRelease, popcli, popcliWith, LockEffect, LockUse, GivePt,
      PtLabels, LkLabels, SchedLabels, ResumeLabels
<1>3. StateKept /\ ForksKept
  BY <1>1, Here, TableKept
  DEF LeavePt, forkret, yieldReturn, sleepReturn, At, Goto, Me, procs
<1> QED BY <1>1, <1>2, <1>3

\* The consumer and the producer under lk.
LEMMA UseLkStep ==
  ASSUME Inv, NEW c \in CPU, UseLk(c)
  PROVE  Local(c) /\ LockEffect(c) /\ StateKept /\ ForksKept
<1>1. Local(c)
  <2>1. CASE trapLock(c) \/ consume(c) \/ sleepRelock(c) \/ produce(c)
    BY SMT, SMTT(30), <2>1, Here, CtxFacts
    DEF trapLock, consume, sleepRelock, produce, At, Goto, Me, IsProc, CanCall,
        Local, HandlerLabels, CpuLabels, StoredLabels, SchedLabels
  <2>2. CASE consumeEnd(c) \/ sleepRelease(c) \/ produceEnd(c)
    BY SMT, SMTT(30), <2>2, Here, CtxFacts
    DEF consumeEnd, sleepRelease, produceEnd, At, Goto, Me, Local,
        HandlerLabels, CpuLabels, StoredLabels, SchedLabels
  <2>3. CASE consumeTest(c) \/ produceSet(c)
    BY SMT, SMTT(30), <2>3, Here, CtxFacts
    DEF consumeTest, produceSet, At, Goto, Me, Local, HandlerLabels, CpuLabels,
        StoredLabels, SchedLabels
  <2> QED BY <2>1, <2>2, <2>3 DEF UseLk
<1>2. LockEffect(c)
  <2>1. CASE trapLock(c) \/ consume(c) \/ sleepRelock(c) \/ produce(c)
    <3>1. /\ lk = NULL /\ lk' = c /\ ptLock' = ptLock /\ on' = on
          /\ ncli' = [ncli EXCEPT ![c] = @ + 1] /\ IF_' = [IF_ EXCEPT ![c] = FALSE]
      BY <2>1 DEF trapLock, consume, sleepRelock, produce, acquireLk, pushcli
    <3>2. pc[on[c]] \in {"pLock", "user", "cLock"} /\ pc'[on[c]] \in {"pSet", "cTest"}
      BY <2>1, Here DEF trapLock, consume, sleepRelock, produce, At, Goto, CanCall
    <3>3. TakeLk(c, pc[on[c]], pc'[on[c]])
      BY <3>1, <3>2, Here DEF TakeLk, PtLabels, LkLabels, SchedLabels, ResumeLabels
    <3>4. pc'[on[c]] \notin {"yLock", "pLock"}
      BY <3>2
    <3> QED BY <3>1, <3>3, <3>4, Here DEF LockEffect, LockUse
  <2>2. CASE consumeEnd(c) \/ sleepRelease(c) \/ produceEnd(c)
    BY SMT, SMTT(30), <2>2, Here
    DEF consumeEnd, sleepRelease, produceEnd, At, Goto, Me, releaseLk, popcli,
        popcliWith, LockEffect, LockUse, GiveLk, PtLabels, LkLabels,
        SchedLabels, ResumeLabels
  <2>3. CASE consumeTest(c) \/ produceSet(c)
    BY <2>3, Here
    DEF consumeTest, produceSet, At, Goto, Me, locks, cpus, LockEffect,
        LockUse, KeepLocks, PtLabels, LkLabels, SchedLabels, ResumeLabels
  <2> QED BY <2>1, <2>2, <2>3 DEF UseLk
<1>3. StateKept /\ ForksKept
  BY <1>1, Here, TableKept
  DEF UseLk, trapLock, consume, sleepRelock, produce, consumeEnd,
      sleepRelease, produceEnd, consumeTest, produceSet, At, Goto, Me,
      IsProc, CanCall, procs
<1> QED BY <1>1, <1>2, <1>3

\* A scan of the table by the cpu that holds ptable.lock meets no process that
\* executes elsewhere, unless it is RUNNING.
LEMMA ScanKept ==
  ASSUME Inv, NEW c \in CPU, Local(c), ptLock = c, pc[on[c]] \notin SchedLabels,
         ret' = ret, slot' = slot, pc'[on[c]] # "aInit",
         \A p \in Proc : \/ state'[p] = state[p]
                         \/ state[p] = "SLEEPING" /\ state'[p] = "RUNNABLE"
                         \/ state[p] = "ZOMBIE" /\ state'[p] = "UNUSED"
  PROVE  StateKept /\ ForksKept
<1>1. \A p \in Proc : Forking(p)' => Forking(p)
  BY CtxFacts DEF Local, Forking
<1>2. \A p \in Proc : state[p] # "RUNNING" =>
        /\ \A d \in CPU : on[d] # p
        /\ state[p] = "SLEEPING" => pc[p] \in ResumeLabels
        /\ state[p] = "ZOMBIE" => pc[p] = "dead"
  BY NotExecuting
<1>3. StateKept
  BY <1>2 DEF StateKept
<1> QED BY <1>1, <1>3 DEF ForksKept

\* wakeup, kill and wait scan the table under ptable.lock.
LEMMA ScanTableStep ==
  ASSUME Inv, NEW c \in CPU, ScanTable(c)
  PROVE  Local(c) /\ LockEffect(c) /\ StateKept /\ ForksKept
<1>a. state \in [Proc -> {"UNUSED", "EMBRYO", "SLEEPING", "RUNNABLE", "RUNNING", "ZOMBIE"}]
  BY DEF Inv, TypeOK
<1>b. pc[on[c]] \in PtLabels => ptLock = c
  BY DEF Inv, LocksInv
<1>1. CASE wakeup(c)
  <2>1. Local(c)
    BY <1>1, Here, CtxFacts
    DEF wakeup, At, Goto, Local, HandlerLabels, CpuLabels, StoredLabels, SchedLabels
  <2>2. LockEffect(c)
    BY <1>1, Here
    DEF wakeup, At, Goto, releasePt, popcli, popcliWith, LockEffect, LockUse, GivePt,
        PtLabels, LkLabels, SchedLabels, ResumeLabels
  <2>3. /\ pc[on[c]] = "pScan" /\ ptLock = c /\ ret' = ret /\ slot' = slot
        /\ pc'[on[c]] = "pRel"
    BY <1>1, <1>b, Here DEF wakeup, At, Goto, PtLabels
  <2>4. \A p \in Proc : \/ state'[p] = state[p]
                        \/ state[p] = "SLEEPING" /\ state'[p] = "RUNNABLE"
    BY <1>1 DEF wakeup, wakeup1
  <2>5. StateKept /\ ForksKept
    BY <2>1, <2>3, <2>4, ScanKept DEF SchedLabels
  <2> QED BY <2>1, <2>2, <2>5
<1>2. CASE kill(c)
  <2>1. Local(c)
    BY <1>2, Here, CtxFacts
    DEF kill, At, Goto, Local, HandlerLabels, CpuLabels, StoredLabels, SchedLabels
  <2>2. LockEffect(c)
    BY <1>2, Here
    DEF kill, At, Goto, releasePt, popcli, popcliWith, LockEffect, LockUse, GivePt,
        PtLabels, LkLabels, SchedLabels, ResumeLabels
  <2>3. /\ pc[on[c]] = "kHeld" /\ ptLock = c /\ ret' = ret /\ slot' = slot
        /\ pc'[on[c]] = "user"
    BY <1>2, <1>b, Here DEF kill, At, Goto, PtLabels
  <2>4. \A p \in Proc : \/ state'[p] = state[p]
                        \/ state[p] = "SLEEPING" /\ state'[p] = "RUNNABLE"
    BY <1>2, <1>a DEF kill
  <2>5. StateKept /\ ForksKept
    BY <2>1, <2>3, <2>4, ScanKept DEF SchedLabels
  <2> QED BY <2>1, <2>2, <2>5
<1>3. CASE wait(c)
  <2>1. Local(c)
    BY <1>3, Here, CtxFacts
    DEF wait, At, Goto, Local, HandlerLabels, CpuLabels, StoredLabels, SchedLabels
  <2>2. LockEffect(c)
    BY <1>3, Here
    DEF wait, At, Goto, releasePt, popcli, popcliWith, LockEffect, LockUse, GivePt,
        PtLabels, LkLabels, SchedLabels, ResumeLabels
  <2>3. /\ pc[on[c]] = "rHeld" /\ ptLock = c /\ ret' = ret /\ slot' = slot
        /\ pc'[on[c]] = "user"
    BY <1>3, <1>b, Here DEF wait, At, Goto, PtLabels
  <2>4. \A p \in Proc : \/ state'[p] = state[p]
                        \/ state[p] = "ZOMBIE" /\ state'[p] = "UNUSED"
    BY <1>3, <1>a DEF wait
  <2>5. StateKept /\ ForksKept
    BY <2>1, <2>3, <2>4, ScanKept DEF SchedLabels
  <2> QED BY <2>1, <2>2, <2>5
<1> QED BY <1>1, <1>2, <1>3 DEF ScanTable

\* A handler that interrupts a fork keeps its address, and returns to it.
LEMMA TrapKept ==
  ASSUME Inv, NEW c \in CPU, Local(c), state' = state, slot' = slot,
         pc'[on[c]] = "aInit" \/ ret'[on[c]] = "aInit" => pc[on[c]] = "aInit" \/ ret[on[c]] = "aInit"
  PROVE  StateKept /\ ForksKept
<1>1. ASSUME NEW p \in Proc, Forking(p)' PROVE Forking(p)
  <2>1. CASE p = on[c]
    BY <1>1, <2>1 DEF Forking
  <2>2. CASE p # on[c]
    BY <1>1, <2>2, CtxFacts DEF Local, Forking
  <2> QED BY <2>1, <2>2
<1> QED BY <1>1 DEF StateKept, ForksKept

\* Entry to and return from a handler, and the exit of a killed process.
LEMMA TrapStep ==
  ASSUME Inv, NEW c \in CPU, Trap(c)
  PROVE  Local(c) /\ LockEffect(c) /\ StateKept /\ ForksKept
<1>a. NULL \notin {"user", "cLock", "aInit", "idle"}
  BY NullAssumption DEF Labels, FreeLabels
<1>b. on[c] \in Proc \/ on[c] = c
  BY Executing
<1>1. CASE trapTimer(c) \/ trapDevice(c)
  <2>1. /\ pc[on[c]] \in {"user", "cLock", "aInit", "idle"} /\ (pc[on[c]] = "idle" <=> on[c] = c)
        /\ ret[on[c]] = NULL /\ IF_[c]
    <3>1. IF_[c] /\ ret[on[c]] = NULL
      BY <1>1 DEF trapTimer, trapDevice
    <3>2. pc[on[c]] \in {"user", "cLock", "aInit"} \/ (pc[on[c]] = "idle" /\ on[c] = c)
      BY <3>1, Interruptible
    <3> QED BY <3>1, <3>2, <1>b, Here, CtxFacts DEF CpuLabels
  <2>2. /\ on' = on /\ state' = state /\ slot' = slot /\ ptLock' = ptLock /\ lk' = lk /\ ncli' = ncli
        /\ ret' = [ret EXCEPT ![on[c]] = pc[on[c]]] /\ IF_' = [IF_ EXCEPT ![c] = FALSE]
    BY <1>1 DEF trapTimer, trapDevice, locks, procs
  <2>3. PICK l \in {"yLock", "pLock"} : pc' = [pc EXCEPT ![on[c]] = l] /\ (l = "yLock" => on[c] \in Proc)
    BY <1>1 DEF trapTimer, trapDevice, Goto, IsProc
  <2>4. pc'[on[c]] = l /\ ret'[on[c]] = pc[on[c]]
    BY <2>2, <2>3, Here
  <2>5. Local(c)
    BY <2>1, <2>2, <2>3, <2>4, <1>a, <1>b, Here, CtxFacts
    DEF Local, HandlerLabels, CpuLabels, StoredLabels, SchedLabels
  <2>6. LockEffect(c)
    BY <2>1, <2>2, <2>4, Here
    DEF LockEffect, LockUse, KeepLocks, PtLabels, LkLabels, SchedLabels, ResumeLabels
  <2>7. StateKept /\ ForksKept
    BY <2>2, <2>4, <2>5, TrapKept
  <2> QED BY <2>5, <2>6, <2>7
<1>2. CASE trapReturn(c)
  <2>1. /\ ret[on[c]] \in {"user", "cLock", "aInit", "idle"} /\ (ret[on[c]] = "idle" <=> on[c] = c)
        /\ pc[on[c]] = "iret"
    BY <1>2, ReturnAddress DEF trapReturn, At
  <2>2. /\ on' = on /\ state' = state /\ slot' = slot /\ ptLock' = ptLock /\ lk' = lk /\ ncli' = ncli
        /\ pc' = [pc EXCEPT ![on[c]] = ret[on[c]]] /\ ret' = [ret EXCEPT ![on[c]] = NULL]
        /\ IF_' = [IF_ EXCEPT ![c] = TRUE]
    BY <1>2 DEF trapReturn, Goto, locks, procs
  <2>3. pc'[on[c]] = ret[on[c]] /\ ret'[on[c]] = NULL
    BY <2>2, Here
  <2>4. Local(c)
    BY <2>1, <2>2, <2>3, <1>a, <1>b, Here, CtxFacts
    DEF Local, HandlerLabels, CpuLabels, StoredLabels, SchedLabels
  <2>5. LockEffect(c)
    BY <2>1, <2>2, <2>3, Here
    DEF LockEffect, LockUse, KeepLocks, PtLabels, LkLabels, SchedLabels, ResumeLabels
  <2>6. StateKept /\ ForksKept
    BY <2>2, <2>3, <2>4, <1>a, TrapKept
  <2> QED BY <2>4, <2>5, <2>6
<1>3. CASE trapExit(c)
  <2>1. pc'[on[c]] = "xHeld" /\ ret'[on[c]] = NULL /\ state' = state /\ slot' = slot
    BY <1>3, Here DEF trapExit, Goto, Me, procs
  <2>2. Local(c)
    BY <1>3, <1>a, Here, CtxFacts
    DEF trapExit, At, Goto, Me, IsProc, procs, Local, HandlerLabels, CpuLabels, StoredLabels, SchedLabels
  <2>3. LockEffect(c)
    BY <1>3, Here
    DEF trapExit, At, Goto, acquirePt, pushcli, LockEffect, LockUse, TakePt,
        PtLabels, LkLabels, SchedLabels, ResumeLabels
  <2>4. StateKept /\ ForksKept
    BY <2>1, <2>2, <1>a, TrapKept
  <2> QED BY <2>2, <2>3, <2>4
<1> QED BY <1>1, <1>2, <1>3 DEF Trap

\* The scheduler's scan over slots it does not run.
LEMMA LoopStep ==
  ASSUME Inv, NEW c \in CPU, Loop(c)
  PROVE  Local(c) /\ LockEffect(c) /\ StateKept /\ ForksKept
<1>a. slot \in [Ctx -> 1..(NPROC + 1)]
  BY DEF Inv, TypeOK
<1>1. CASE schedulerSkip(c)
  <2>1. Local(c)
    BY <1>1, Here, CtxFacts
    DEF schedulerSkip, At, Local, HandlerLabels, CpuLabels, StoredLabels, SchedLabels
  <2>2. LockEffect(c)
    BY <1>1 DEF schedulerSkip, At, locks, cpus, LockEffect, LockUse, KeepLocks
  <2>3. \A p \in Proc : slot'[p] = slot[p]
    BY <1>1, <1>a, CtxFacts DEF schedulerSkip
  <2>4. StateKept /\ ForksKept
    BY <1>1, <2>1, <2>3, TableKept DEF schedulerSkip, At, procs
  <2> QED BY <2>1, <2>2, <2>4
<1>2. CASE schedulerEnd(c)
  <2>1. Local(c)
    BY <1>2, Here, CtxFacts
    DEF schedulerEnd, At, Goto, Local, HandlerLabels, CpuLabels, StoredLabels, SchedLabels
  <2>2. LockEffect(c)
    BY <1>2, Here
    DEF schedulerEnd, At, Goto, LockEffect, LockUse, GivePt, PtLabels, LkLabels,
        SchedLabels, ResumeLabels
  <2>3. \A p \in Proc : slot'[p] = slot[p]
    BY <1>2, <1>a, CtxFacts DEF schedulerEnd
  <2>4. StateKept /\ ForksKept
    BY <1>2, <2>1, <2>3, Here, TableKept DEF schedulerEnd, Goto, procs
  <2> QED BY <2>1, <2>2, <2>4
<1> QED BY <1>1, <1>2 DEF Loop

-----------------------------------------------------------------------------
(* fork, the way out through sched, and the switches between contexts. *)

\* allocproc takes a slot that no other fork has.
LEMMA AllocStep ==
  ASSUME Inv, NEW c \in CPU, allocproc(c)
  PROVE  OtherCpus(c) /\ LockEffect(c) /\ StackInv' /\ ForkInv' /\ RetInv'
<1>a. /\ state \in [Proc -> {"UNUSED", "EMBRYO", "SLEEPING", "RUNNABLE", "RUNNING", "ZOMBIE"}]
      /\ slot \in [Ctx -> 1..(NPROC + 1)] /\ ForkInv
  BY DEF Inv, TypeOK
<1>b. pc[on[c]] = "aHeld" /\ ptLock = c /\ on[c] \in Proc
  BY Here, Executing DEF allocproc, At, Inv, LocksInv, PtLabels, CpuLabels
<1>c. \A p \in Proc : state[p] = "UNUSED" => pc[p] = "dead" /\ \A d \in CPU : on[d] # p
  BY <1>b, NotExecuting DEF Inv, ForkInv, SchedLabels
<1>1. Local(c)
  BY SMT, SMTT(30), <1>b, Here, CtxFacts
  DEF allocproc, Goto, Local, HandlerLabels, CpuLabels, StoredLabels, SchedLabels
<1>2. LockEffect(c)
  BY SMT, SMTT(30), <1>b, Here
  DEF allocproc, Goto, releasePt, popcli, popcliWith, LockEffect, LockUse, GivePt,
      PtLabels, LkLabels, SchedLabels, ResumeLabels
<1>3. CASE state' = state /\ slot' = slot /\ pc' = [pc EXCEPT ![on[c]] = "user"]
  <2>1. StateKept /\ ForksKept
    BY <1>1, <1>3, Here, TableKept DEF allocproc
  <2> QED BY <1>1, <1>2, <2>1, LocalStep
<1>4. ASSUME NEW q \in Proc, state[q] = "UNUSED",
             state' = [state EXCEPT ![q] = "EMBRYO"],
             slot' = [slot EXCEPT ![on[c]] = q]
      PROVE  OtherCpus(c) /\ LockEffect(c) /\ StackInv' /\ ForkInv' /\ RetInv'
  <2>1. /\ \A p \in Proc : state'[p] = IF p = q THEN "EMBRYO" ELSE state[p]
        /\ \A p \in Proc : slot'[p] = IF p = on[c] THEN q ELSE slot[p]
    BY <1>4, <1>a, <1>b, CtxFacts
  <2>2. StateKept
    BY SMT, SMTT(30), <1>4, <1>c, <2>1 DEF StateKept
  <2>3. \A p \in Proc : p # on[c] /\ Forking(p)' => Forking(p)
    BY <1>1, CtxFacts DEF Local, Forking
  <2>4. \A p \in Proc : Forking(p)' =>
          \/ p = on[c] /\ slot'[p] = q
          \/ p # on[c] /\ Forking(p) /\ slot'[p] = slot[p] /\ slot[p] \in Proc /\ slot[p] # q
    BY SMT, SMTT(30), <1>4, <1>a, <2>1, <2>3 DEF ForkInv
  <2>5. \A p \in Proc : Forking(p)' => slot'[p] \in Proc /\ state'[slot'[p]] = "EMBRYO"
    BY SMT, SMTT(30), <1>a, <2>1, <2>4 DEF ForkInv
  <2>6. \A p, r \in Proc : Forking(p)' /\ Forking(r)' /\ slot'[p] = slot'[r] => p = r
    BY <1>a, <2>4 DEF ForkInv
  <2>7. ForkInv'
    BY <1>1, <2>2, <2>5, <2>6, LocalDead DEF ForkInv
  <2> QED BY <1>1, <1>2, <2>2, <2>7, LocalOthers, LocalRet, LocalStack
<1> QED BY <1>3, <1>4 DEF allocproc, Goto, Me

\* fork and its failure give up a slot that no other fork has.
LEMMA ForkEnd ==
  ASSUME Inv, NEW c \in CPU, pc[on[c]] = "aInit", pc'[on[c]] = "user", ret'[on[c]] = ret[on[c]],
         \A p \in Proc \ {on[c], slot[on[c]]} : pc'[p] = pc[p] /\ ret'[p] = ret[p],
         pc'[slot[on[c]]] # "aInit" /\ ret'[slot[on[c]]] # "aInit",
         \A p \in Proc \ {on[c]} : slot'[p] = slot[p],
         \A p \in Proc \ {slot[on[c]]} : state'[p] = state[p]
  PROVE  /\ \A p \in Proc : Forking(p)' => slot'[p] \in Proc /\ state'[slot'[p]] = "EMBRYO"
         /\ \A p, q \in Proc : Forking(p)' /\ Forking(q)' /\ slot'[p] = slot'[q] => p = q
<1>1. ForkInv /\ ret[on[c]] = NULL /\ on[c] \in Proc /\ NULL # "aInit"
  BY ForkSlot, NullAssumption DEF Inv, Labels, FreeLabels
<1>2. Forking(on[c])
  BY DEF Forking
<1>3. ASSUME NEW p \in Proc, Forking(p)'
      PROVE  p # on[c] /\ Forking(p) /\ slot'[p] = slot[p]
  <2>1. p # on[c] /\ p # slot[on[c]]
    BY <1>1, <1>3 DEF Forking
  <2> QED BY <1>3, <2>1 DEF Forking
<1>4. \A p \in Proc : Forking(p)' => slot[p] \in Proc /\ slot[p] # slot[on[c]] /\ state[slot[p]] = "EMBRYO"
  BY <1>1, <1>2, <1>3 DEF ForkInv
<1>5. \A p \in Proc : Forking(p)' => slot'[p] \in Proc /\ state'[slot'[p]] = "EMBRYO"
  BY SMT, SMTT(30), <1>3, <1>4
<1>6. ASSUME NEW p \in Proc, NEW q \in Proc, Forking(p)', Forking(q)', slot'[p] = slot'[q]
      PROVE  p = q
  <2>1. Forking(p) /\ Forking(q) /\ slot[p] = slot[q]
    BY <1>3, <1>6
  <2> QED BY <1>1, <2>1 DEF ForkInv
<1> QED BY <1>5, <1>6

\* fork gives its slot back when copyuvm fails.
LEMMA ForkFailStep ==
  ASSUME Inv, NEW c \in CPU, forkFail(c)
  PROVE  OtherCpus(c) /\ LockEffect(c) /\ StackInv' /\ ForkInv' /\ RetInv'
<1> DEFINE q == slot[on[c]]
<1>a. /\ pc[on[c]] = "aInit" /\ on[c] \in Proc /\ q \in Proc /\ q # on[c] /\ ret[q] = NULL
      /\ state[q] = "EMBRYO" /\ pc[q] = "dead" /\ \A d \in CPU : on[d] # q
  BY ForkSlot DEF forkFail, At
<1>b. /\ state \in [Proc -> {"UNUSED", "EMBRYO", "SLEEPING", "RUNNABLE", "RUNNING", "ZOMBIE"}]
      /\ slot \in [Ctx -> 1..(NPROC + 1)]
  BY DEF Inv, TypeOK
<1>1. Local(c)
  BY <1>a, Here, CtxFacts
  DEF forkFail, Goto, Local, HandlerLabels, CpuLabels, StoredLabels, SchedLabels
<1>2. LockEffect(c)
  BY <1>a, Here
  DEF forkFail, Goto, locks, cpus, LockEffect, LockUse, KeepLocks,
      PtLabels, LkLabels, SchedLabels, ResumeLabels
<1>3. /\ \A p \in Proc \ {on[c]} : slot'[p] = slot[p]
      /\ \A p \in Proc : state'[p] = IF p = q THEN "UNUSED" ELSE state[p]
      /\ pc'[on[c]] = "user" /\ ret' = ret
  BY <1>a, <1>b, Here, CtxFacts DEF forkFail, Me, Goto
<1>4. StateKept
  BY <1>a, <1>3 DEF StateKept
<1>5. /\ \A p \in Proc \ {on[c]} : pc'[p] = pc[p]
      /\ pc'[q] = "dead" /\ ret'[q] = NULL /\ NULL # "aInit"
  BY <1>1, <1>3, <1>a, CtxFacts, NullAssumption DEF Local, Labels, FreeLabels
<1>6. pc'[slot[on[c]]] # "aInit" /\ ret'[slot[on[c]]] # "aInit"
  BY <1>5
<1>7. /\ \A p \in Proc : Forking(p)' => slot'[p] \in Proc /\ state'[slot'[p]] = "EMBRYO"
      /\ \A p, r \in Proc : Forking(p)' /\ Forking(r)' /\ slot'[p] = slot'[r] => p = r
  BY <1>3, <1>5, <1>6, <1>a, ForkEnd
<1>8. ForkInv'
  BY <1>1, <1>4, <1>7, LocalDead DEF ForkInv
<1> QED BY <1>1, <1>2, <1>4, <1>8, LocalOthers, LocalRet, LocalStack

\* fork publishes a child whose stack starts at forkret.
LEMMA ForkStep ==
  ASSUME Inv, NEW c \in CPU, fork(c)
  PROVE  OtherCpus(c) /\ LockEffect(c) /\ StackInv' /\ ForkInv' /\ RetInv'
<1> DEFINE q == slot[on[c]]
<1>a. /\ pc[on[c]] = "aInit" /\ on[c] \in Proc /\ q \in Proc /\ q # on[c]
      /\ state[q] = "EMBRYO" /\ pc[q] = "dead" /\ \A d \in CPU : on[d] # q
      /\ ret[on[c]] = NULL
  BY ForkSlot DEF fork, At
<1>b. /\ state \in [Proc -> {"UNUSED", "EMBRYO", "SLEEPING", "RUNNABLE", "RUNNING", "ZOMBIE"}]
      /\ slot \in [Ctx -> 1..(NPROC + 1)] /\ StackInv /\ RetInv /\ ForkInv
  BY DEF Inv, TypeOK
<1>c. state[on[c]] = "RUNNING"
  BY <1>a, Executing DEF SchedLabels
<1>1. /\ on' = on /\ ptLock' = ptLock /\ lk' = lk /\ ncli' = ncli /\ IF_' = IF_
      /\ pc' = [pc EXCEPT ![q] = "forkret", ![on[c]] = "user"]
      /\ ret' = [ret EXCEPT ![q] = "user"]
      /\ state' = [state EXCEPT ![q] = "RUNNABLE"]
      /\ slot' = [slot EXCEPT ![on[c]] = 1]
  BY DEF fork, Me, locks, cpus
<1> HIDE DEF q
<1>2. /\ pc'[on[c]] = "user" /\ pc'[q] = "forkret"
      /\ ret'[on[c]] = NULL /\ ret'[q] = "user"
      /\ state'[q] = "RUNNABLE"
  BY <1>1, <1>a, <1>b, Here, CtxFacts
<1>3. /\ \A x \in Ctx \ {on[c], q} : pc'[x] = pc[x] /\ ret'[x] = ret[x]
      /\ \A p \in Proc \ {q} : state'[p] = state[p]
      /\ \A p \in Proc \ {on[c]} : slot'[p] = slot[p]
  BY <1>1, <1>b, Here, CtxFacts
<1>d. \A d \in CPU : pc'[d] = pc[d] /\ ret'[d] = ret[d]
  <2> TAKE d \in CPU
  <2>1. d \in Ctx /\ d # on[c] /\ d # q
    BY <1>a, CtxFacts
  <2> QED BY <1>3, <2>1
<1>e. on' = on
  BY <1>1
<1>4. LockEffect(c)
  BY <1>1, <1>2, <1>a
  DEF LockEffect, LockUse, KeepLocks, PtLabels, LkLabels, SchedLabels, ResumeLabels
<1>5. OtherCpus(c)
  <2>1. \A d \in CPU \ {c} : on[d] \in Ctx /\ on[d] # on[c]
    BY <1>b DEF StackInv, Inv, TypeOK
  <2> QED BY <1>e, <1>3, <1>a, <2>1 DEF OtherCpus
<1>6. RetInv'
  <2>1. NULL # "user"
    BY NullAssumption DEF Labels, FreeLabels
  <2>2. ASSUME NEW x \in Ctx
        PROVE  (ret'[x] # NULL => pc'[x] \in HandlerLabels) /\ (pc'[x] \in StoredLabels => ret'[x] # NULL)
    <3>1. CASE x = on[c] \/ x = q
      BY <1>2, <2>1, <3>1 DEF HandlerLabels, StoredLabels
    <3>2. CASE x # on[c] /\ x # q
      BY <1>3, <1>b, <3>2 DEF RetInv
    <3> QED BY <3>1, <3>2
  <2>3. ASSUME NEW p \in Proc PROVE ret'[p] # "idle"
    <3>1. CASE p = on[c] \/ p = q
      BY SMT, SMTT(30), <1>2, <1>a, <1>b, <3>1 DEF RetInv
    <3>2. CASE p # on[c] /\ p # q
      BY <1>3, <1>b, <3>2, CtxFacts DEF RetInv
    <3> QED BY <3>1, <3>2
  <2> QED BY <1>d, <1>b, <2>2, <2>3 DEF RetInv
<1>7. ForkInv'
  <2>1. \A p \in Proc \ {on[c], q} : pc'[p] = pc[p] /\ ret'[p] = ret[p]
    BY <1>3, CtxFacts
  <2>2. /\ \A p \in Proc : Forking(p)' => slot'[p] \in Proc /\ state'[slot'[p]] = "EMBRYO"
        /\ \A p, r \in Proc : Forking(p)' /\ Forking(r)' /\ slot'[p] = slot'[r] => p = r
    BY <1>2, <1>3, <1>a, <2>1, ForkEnd DEF q
  <2>3. \A p \in Proc : state'[p] \in {"UNUSED", "EMBRYO"} => p # q /\ p # on[c] /\ pc[p] = "dead"
    BY <1>2, <1>3, <1>b, <1>c, <1>a DEF ForkInv
  <2> QED BY <2>1, <2>2, <2>3 DEF ForkInv
<1>8. StackInv'
  <2>1. \A d \in CPU : /\ on'[d] \in Proc \cup {d} /\ pc'[d] \in CpuLabels
                       /\ on'[d] # d => pc'[d] = "scan"
    BY SMT, SMTT(30), <1>e, <1>d, <1>b DEF StackInv
  <2>2. \A d, e \in CPU : on'[d] = on'[e] => d = e
    BY SMT, SMTT(30), <1>e, <1>b DEF StackInv
  <2>3. ASSUME NEW p \in Proc PROVE pc'[p] \notin {"scan", "idle"}
    <3>1. CASE p = on[c] \/ p = q
      BY <1>2, <3>1
    <3>2. CASE p # on[c] /\ p # q
      BY <1>3, <1>b, <3>2, CtxFacts DEF StackInv
    <3> QED BY <3>1, <3>2
  <2>4. \A p \in Proc : state'[p] = "RUNNING" => \E d \in CPU : on'[d] = p
    <3>1. \A p \in Proc : state'[p] = "RUNNING" => state[p] = "RUNNING"
      BY <1>2, <1>3
    <3> QED BY SMT, SMTT(30), <1>e, <1>b, <3>1 DEF StackInv
  <2>5. ASSUME NEW d \in CPU, on[d] \in Proc
        PROVE  /\ pc'[on[d]] # "dead"
               /\ state'[on[d]] = "RUNNING" \/ pc'[on[d]] \in SchedLabels
               /\ pc'[on[d]] = "ySched" => state'[on[d]] = "RUNNABLE"
               /\ pc'[on[d]] = "sSched" => state'[on[d]] = "SLEEPING"
               /\ pc'[on[d]] = "xSched" => state'[on[d]] = "ZOMBIE"
    <3>1. state'[on[d]] = state[on[d]]
      BY <1>3, <1>a, <2>5
    <3>2. CASE on[d] = on[c]
      BY <3>1, <3>2, <1>2, <1>c
    <3>3. CASE on[d] # on[c]
      <4>1. pc'[on[d]] = pc[on[d]]
        BY <3>3, <1>3, <1>a, <2>5, CtxFacts
      <4> QED BY <3>1, <4>1, <2>5, <1>b DEF StackInv
    <3> QED BY <3>2, <3>3
  <2>6. ASSUME NEW p \in Proc, \A d \in CPU : on[d] # p
        PROVE  /\ pc'[p] \in ResumeLabels \cup {"dead"}
               /\ state'[p] \in {"RUNNABLE", "SLEEPING"} => pc'[p] \in ResumeLabels
               /\ state'[p] = "ZOMBIE" => pc'[p] = "dead"
    <3>1. CASE p = q
      BY <3>1, <1>2 DEF ResumeLabels
    <3>2. CASE p # q
      <4>1. pc'[p] = pc[p] /\ state'[p] = state[p]
        BY <3>2, <2>6, <1>3, CtxFacts
      <4> QED BY <4>1, <2>6, <1>b DEF StackInv
    <3> QED BY <3>1, <3>2
  <2> QED BY <1>e, <2>1, <2>2, <2>3, <2>4, <2>5, <2>6, SMTT(30) DEF StackInv
<1> QED BY <1>4, <1>5, <1>6, <1>7, <1>8

\* The state each of the three publishes, and the label it comes from.
LeaveTo == [ySched |-> "RUNNABLE", sSched |-> "SLEEPING", xSched |-> "ZOMBIE"]
LeaveFrom == [ySched |-> "yHeld", sSched |-> "sSet", xSched |-> "xHeld"]

\* yield, sleep and exit publish the new state of the process they run on, and
\* keep ptable.lock until they have left its stack.
LEMMA LeaveStep ==
  ASSUME Inv, NEW c \in CPU, Leave(c)
  PROVE  OtherCpus(c) /\ LockEffect(c) /\ StackInv' /\ ForkInv' /\ RetInv'
<1>1. PICK l \in SchedLabels :
        /\ pc[on[c]] = LeaveFrom[l]
        /\ pc' = [pc EXCEPT ![on[c]] = l] /\ state' = [state EXCEPT ![on[c]] = LeaveTo[l]]
        /\ on' = on /\ ret' = ret /\ slot' = slot /\ ptLock' = ptLock /\ lk' = lk
        /\ ncli' = ncli /\ IF_' = IF_
  <2>1. CASE yieldState(c)
    BY <2>1 DEF yieldState, At, Goto, Me, locks, cpus, LeaveFrom, LeaveTo, SchedLabels
  <2>2. CASE sleepState(c)
    BY <2>2 DEF sleepState, At, Goto, Me, locks, cpus, LeaveFrom, LeaveTo, SchedLabels
  <2>3. CASE exit(c)
    BY <2>3 DEF exit, At, Goto, Me, locks, cpus, LeaveFrom, LeaveTo, SchedLabels
  <2> QED BY <2>1, <2>2, <2>3 DEF Leave
<1>2. /\ l = "ySched" => pc[on[c]] = "yHeld" /\ LeaveTo[l] = "RUNNABLE"
      /\ l = "sSched" => pc[on[c]] = "sSet" /\ LeaveTo[l] = "SLEEPING"
      /\ l = "xSched" => pc[on[c]] = "xHeld" /\ LeaveTo[l] = "ZOMBIE"
      /\ l \in {"ySched", "sSched", "xSched"}
  BY SMT, SMTT(30), <1>1 DEF LeaveFrom, LeaveTo, SchedLabels
<1> DEFINE st == LeaveTo[l]
<1>3. on[c] \in Proc /\ on[c] \in Ctx /\ state[on[c]] = "RUNNING"
  BY <1>2, Executing DEF CpuLabels, SchedLabels
<1>4. state \in [Proc -> {"UNUSED", "EMBRYO", "SLEEPING", "RUNNABLE", "RUNNING", "ZOMBIE"}]
  BY DEF Inv, TypeOK
<1>5. pc'[on[c]] = l /\ state'[on[c]] = st
  BY <1>1, <1>3, <1>4, Here
<1>6. /\ \A x \in Ctx \ {on[c]} : pc'[x] = pc[x]
      /\ \A p \in Proc \ {on[c]} : state'[p] = state[p]
  BY <1>1, <1>4, Here
<1>7. on' = on /\ ret' = ret /\ slot' = slot
  BY <1>1
<1>8. LockEffect(c)
  BY <1>1, <1>2, <1>5
  DEF LockEffect, LockUse, KeepLocks, PtLabels, LkLabels, SchedLabels, ResumeLabels
<1> HIDE DEF st
<1>9. StackInv /\ RetInv /\ ForkInv
  BY DEF Inv
<1>10. OtherCpus(c)
  <2>1. \A d \in CPU \ {c} : on[d] \in Ctx /\ on[d] # on[c]
    BY DEF StackInv, Inv, TypeOK
  <2> QED BY <1>6, <1>7, <2>1 DEF OtherCpus
<1>11. RetInv'
  <2>1. /\ pc[on[c]] \in HandlerLabels => l \in HandlerLabels
        /\ l \in StoredLabels => pc[on[c]] \in StoredLabels
    BY <1>2 DEF HandlerLabels, StoredLabels
  <2>2. \A x \in Ctx : (ret'[x] # NULL => pc'[x] \in HandlerLabels) /\ (pc'[x] \in StoredLabels => ret'[x] # NULL)
    BY <1>5, <1>6, <1>7, <1>9, <2>1 DEF RetInv
  <2>3. \A d \in CPU : pc'[d] = pc[d]
    BY <1>3, <1>6, CtxFacts
  <2> QED BY <1>7, <1>9, <2>2, <2>3 DEF RetInv
<1>12. ForkInv'
  <2>1. \A p \in Proc : Forking(p)' => Forking(p)
    BY <1>2, <1>5, <1>6, <1>7, CtxFacts DEF Forking
  <2>2. \A p \in Proc : state'[p] \in {"UNUSED", "EMBRYO"} => p # on[c] /\ pc[p] = "dead"
    BY <1>2, <1>5, <1>6, <1>9 DEF ForkInv, st
  <2>3. \A p \in Proc : state'[p] \in {"UNUSED", "EMBRYO"} => pc'[p] = "dead"
    BY <1>6, <2>2, CtxFacts
  <2>4. \A p \in Proc : state[p] = "EMBRYO" => state'[p] = "EMBRYO"
    BY <1>3, <1>6
  <2> QED BY <1>7, <1>9, <2>1, <2>3, <2>4 DEF ForkInv
<1>13. StackInv'
  <2>1. \A d \in CPU : pc'[d] = pc[d]
    BY <1>3, <1>6, CtxFacts
  <2>2. \A p \in Proc : pc'[p] \notin {"scan", "idle"}
    BY <1>2, <1>5, <1>6, <1>9, CtxFacts DEF StackInv
  <2>3. \A p \in Proc : state'[p] = "RUNNING" => state[p] = "RUNNING"
    BY <1>3, <1>6
  <2>4. ASSUME NEW d \in CPU, on[d] \in Proc
        PROVE  /\ pc'[on[d]] # "dead"
               /\ state'[on[d]] = "RUNNING" \/ pc'[on[d]] \in SchedLabels
               /\ pc'[on[d]] = "ySched" => state'[on[d]] = "RUNNABLE"
               /\ pc'[on[d]] = "sSched" => state'[on[d]] = "SLEEPING"
               /\ pc'[on[d]] = "xSched" => state'[on[d]] = "ZOMBIE"
    <3>1. CASE on[d] = on[c]
      BY <3>1, <1>2, <1>5 DEF SchedLabels, st
    <3>2. CASE on[d] # on[c]
      <4>1. pc'[on[d]] = pc[on[d]] /\ state'[on[d]] = state[on[d]]
        BY <3>2, <2>4, <1>6, CtxFacts
      <4> QED BY <4>1, <2>4, <1>9 DEF StackInv
    <3> QED BY <3>1, <3>2
  <2>5. ASSUME NEW p \in Proc, \A d \in CPU : on[d] # p
        PROVE  /\ pc'[p] \in ResumeLabels \cup {"dead"}
               /\ state'[p] \in {"RUNNABLE", "SLEEPING"} => pc'[p] \in ResumeLabels
               /\ state'[p] = "ZOMBIE" => pc'[p] = "dead"
    <3>1. pc'[p] = pc[p] /\ state'[p] = state[p]
      BY <2>5, <1>6, CtxFacts
    <3> QED BY <2>5, <1>9, <3>1 DEF StackInv
  <2> QED BY <1>7, <1>9, <2>1, <2>2, <2>3, <2>4, <2>5, SMTT(30) DEF StackInv
<1> QED BY <1>8, <1>10, <1>11, <1>12, <1>13

\* The scheduler switches to a RUNNABLE process, which executes nowhere, and
\* hands ptable.lock over to it.
LEMMA RunStep ==
  ASSUME Inv, NEW c \in CPU, schedulerRun(c)
  PROVE  OtherCpus(c) /\ LockEffect(c) /\ StackInv' /\ ForkInv' /\ RetInv'
<1> DEFINE q == slot[c]
<1>1. /\ pc[on[c]] = "scan" /\ q \in Proc /\ state[q] = "RUNNABLE" /\ pc' = pc /\ ret' = ret
      /\ ptLock' = ptLock /\ lk' = lk /\ ncli' = ncli /\ IF_' = IF_
      /\ state' = [state EXCEPT ![q] = "RUNNING"] /\ on' = [on EXCEPT ![c] = q]
  BY DEF schedulerRun, At, locks, cpus
<1>2. \A p \in Proc : slot'[p] = slot[p]
  <2>1. slot \in [Ctx -> 1..(NPROC + 1)] /\ slot' = [slot EXCEPT ![c] = @ + 1]
    BY DEF schedulerRun, Inv, TypeOK
  <2> QED BY <2>1, CtxFacts
<1>3. on[c] = c /\ ptLock = c
  BY <1>1, Executing DEF Inv, LocksInv, PtLabels
<1> HIDE DEF q
<1>4. pc[q] \in ResumeLabels /\ \A d \in CPU : on[d] # q
  BY <1>1, <1>3, NotExecuting DEF SchedLabels
<1>5. /\ on \in [CPU -> Ctx]
      /\ state \in [Proc -> {"UNUSED", "EMBRYO", "SLEEPING", "RUNNABLE", "RUNNING", "ZOMBIE"}]
  BY DEF Inv, TypeOK
<1>6. /\ on'[c] = q /\ \A d \in CPU \ {c} : on'[d] = on[d]
      /\ state'[q] = "RUNNING" /\ \A p \in Proc \ {q} : state'[p] = state[p]
  BY <1>1, <1>5
<1>7. LockEffect(c) /\ OtherCpus(c)
  BY <1>1, <1>4, <1>6
  DEF LockEffect, LockUse, KeepLocks, OtherCpus, PtLabels, LkLabels, SchedLabels, ResumeLabels
<1>8. StackInv /\ RetInv /\ ForkInv /\ pc' = pc /\ ret' = ret /\ q \in Proc
  BY <1>1 DEF Inv
<1>9. RetInv'
  BY <1>8 DEF RetInv
<1>10. ForkInv'
  <2>1. \A p \in Proc : Forking(p)' <=> Forking(p)
    BY <1>8 DEF Forking
  <2>2. \A p \in Proc : (state'[p] = "EMBRYO" <=> state[p] = "EMBRYO") /\ (state'[p] = "UNUSED" <=> state[p] = "UNUSED")
    BY <1>1, <1>6
  <2> QED BY <1>2, <1>8, <2>1, <2>2 DEF ForkInv
<1>11. StackInv'
  <2>1. \A d \in CPU : on'[d] \in Proc \cup {d} /\ (on'[d] # d => pc[d] = "scan")
    BY SMT, SMTT(30), <1>1, <1>3, <1>6, <1>8 DEF StackInv
  <2>2. \A d, e \in CPU : on'[d] = on'[e] => d = e
    BY SMT, SMTT(30), <1>4, <1>6, <1>8 DEF StackInv
  <2>3. ASSUME NEW p \in Proc, state'[p] = "RUNNING" PROVE \E d \in CPU : on'[d] = p
    <3>1. CASE p = q
      BY <3>1, <1>6
    <3>2. CASE p # q
      <4>1. PICK d \in CPU : on[d] = p
        BY SMT, SMTT(30), <2>3, <3>2, <1>6, <1>8 DEF StackInv
      <4>2. d # c
        BY <4>1, <1>3, CtxFacts
      <4> QED BY <4>1, <4>2, <1>6
    <3> QED BY <3>1, <3>2
  <2>4. ASSUME NEW d \in CPU, on'[d] \in Proc
        PROVE  /\ pc[on'[d]] # "dead"
               /\ state'[on'[d]] = "RUNNING" \/ pc[on'[d]] \in SchedLabels
               /\ pc[on'[d]] = "ySched" => state'[on'[d]] = "RUNNABLE"
               /\ pc[on'[d]] = "sSched" => state'[on'[d]] = "SLEEPING"
               /\ pc[on'[d]] = "xSched" => state'[on'[d]] = "ZOMBIE"
    <3>1. CASE d = c
      BY <3>1, <1>4, <1>6 DEF ResumeLabels
    <3>2. CASE d # c
      <4>1. on'[d] = on[d] /\ state'[on[d]] = state[on[d]]
        BY <3>2, <2>4, <1>4, <1>6
      <4> QED BY <4>1, <2>4, <1>8 DEF StackInv
    <3> QED BY <3>1, <3>2
  <2>5. ASSUME NEW p \in Proc, \A d \in CPU : on'[d] # p
        PROVE  /\ pc[p] \in ResumeLabels \cup {"dead"}
               /\ state'[p] \in {"RUNNABLE", "SLEEPING"} => pc[p] \in ResumeLabels
               /\ state'[p] = "ZOMBIE" => pc[p] = "dead"
    <3>1. p # q /\ \A d \in CPU : on[d] # p
      BY <2>5, <1>3, <1>6, CtxFacts
    <3>2. state'[p] = state[p]
      BY <3>1, <1>6
    <3> QED BY <3>1, <3>2, <1>8 DEF StackInv
  <2> QED BY <1>8, <2>1, <2>2, <2>3, <2>4, <2>5 DEF StackInv
<1> QED BY <1>7, <1>9, <1>10, <1>11

\* sched switches back: the process has left its stack, and the scheduler of
\* this cpu goes on with ptable.lock.
LEMMA SchedStep ==
  ASSUME Inv, NEW c \in CPU, sched(c)
  PROVE  OtherCpus(c) /\ LockEffect(c) /\ StackInv' /\ ForkInv' /\ RetInv'
<1> DEFINE l == pc'[on[c]]
<1>a. on \in [CPU -> Ctx] /\ StackInv /\ RetInv /\ ForkInv
  BY DEF Inv, TypeOK
<1>1. pc[on[c]] \in SchedLabels /\ on[c] \in Proc /\ on[c] \in Ctx
  BY Here, Executing DEF sched, SchedLabels, CpuLabels
<1>2. pc[c] = "scan"
  BY SMT, SMTT(30), <1>1, <1>a, CtxFacts DEF StackInv
<1>3. /\ state' = state /\ ret' = ret /\ slot' = slot /\ ptLock' = ptLock /\ lk' = lk
      /\ ncli' = ncli /\ IF_' = IF_
  BY DEF sched, locks, procs, cpus
<1>4. on'[c] = c /\ \A d \in CPU \ {c} : on'[d] = on[d]
  BY <1>a DEF sched
<1>5. \A x \in Ctx \ {on[c]} : pc'[x] = pc[x]
  BY Here DEF sched, Goto
<1>6. /\ pc[on[c]] = "ySched" => l = "yBack"
      /\ pc[on[c]] = "sSched" => l = "sBack"
      /\ pc[on[c]] = "xSched" => l = "dead"
  BY Here DEF sched, Goto, At
<1>7. /\ pc[on[c]] = "ySched" => state[on[c]] = "RUNNABLE"
      /\ pc[on[c]] = "sSched" => state[on[c]] = "SLEEPING"
      /\ pc[on[c]] = "xSched" => state[on[c]] = "ZOMBIE"
  BY <1>1, <1>a DEF StackInv
<1> HIDE DEF l
<1>8. pc'[c] = "scan" /\ c \in Ctx /\ c # on[c]
  BY <1>1, <1>2, <1>5, CtxFacts, SMTT(30)
<1>9. LockEffect(c)
  BY <1>1, <1>3, <1>4, <1>8
  DEF LockEffect, LockUse, KeepLocks, PtLabels, LkLabels, SchedLabels, ResumeLabels
<1>10. OtherCpus(c)
  <2>1. \A d \in CPU \ {c} : on[d] \in Ctx /\ on[d] # on[c]
    BY <1>a DEF StackInv
  <2> QED BY <1>4, <1>5, <2>1 DEF OtherCpus
<1>11. \A d \in CPU : pc'[d] = pc[d]
  BY <1>1, <1>5, CtxFacts
<1>12. RetInv'
  <2>1. /\ pc[on[c]] \in HandlerLabels => l \in HandlerLabels
        /\ l \in StoredLabels => pc[on[c]] \in StoredLabels
    BY <1>1, <1>6 DEF HandlerLabels, StoredLabels, SchedLabels
  <2>2. \A x \in Ctx : (ret'[x] # NULL => pc'[x] \in HandlerLabels) /\ (pc'[x] \in StoredLabels => ret'[x] # NULL)
    BY <1>3, <1>5, <1>a, <2>1 DEF RetInv, l
  <2> QED BY <1>3, <1>11, <1>a, <2>2 DEF RetInv
<1>13. ForkInv'
  <2>1. \A p \in Proc : Forking(p)' => Forking(p)
    <3>1. l # "aInit"
      BY <1>1, <1>6 DEF SchedLabels
    <3> QED BY <3>1, <1>3, <1>5, CtxFacts DEF Forking, l
  <2>2. \A p \in Proc : state[p] \in {"UNUSED", "EMBRYO"} => p # on[c]
    BY <1>1, <1>7 DEF SchedLabels
  <2>3. \A p \in Proc : state[p] \in {"UNUSED", "EMBRYO"} => pc'[p] = "dead"
    BY <1>5, <1>a, <2>2, CtxFacts DEF ForkInv
  <2> QED BY <1>3, <1>a, <2>1, <2>3 DEF ForkInv
<1>14. StackInv'
  <2>a. state' = state
    BY <1>3
  <2>1. \A d \in CPU : on'[d] \in Proc \cup {d} /\ (on'[d] # d => pc[d] = "scan")
    BY <1>4, <1>a DEF StackInv
  <2>2. \A d, e \in CPU : on'[d] = on'[e] => d = e
    BY SMT, SMTT(30), <1>4, <1>a, CtxFacts DEF StackInv
  <2>3. ASSUME NEW p \in Proc PROVE pc'[p] \notin {"scan", "idle"}
    <3>1. CASE p = on[c]
      BY <3>1, <1>1, <1>6 DEF l, SchedLabels
    <3>2. CASE p # on[c]
      BY <3>2, <1>5, <1>a, CtxFacts DEF StackInv
    <3> QED BY <3>1, <3>2
  <2>4. ASSUME NEW p \in Proc, state'[p] = "RUNNING" PROVE \E d \in CPU : on'[d] = p
    <3>1. PICK d \in CPU : on[d] = p
      BY <2>4, <2>a, <1>a DEF StackInv
    <3>2. d # c
      BY <2>4, <2>a, <3>1, <1>1, <1>7 DEF SchedLabels
    <3> QED BY <3>1, <3>2, <1>4
  <2>5. ASSUME NEW d \in CPU, on'[d] \in Proc
        PROVE  /\ pc'[on'[d]] # "dead"
               /\ state'[on'[d]] = "RUNNING" \/ pc'[on'[d]] \in SchedLabels
               /\ pc'[on'[d]] = "ySched" => state'[on'[d]] = "RUNNABLE"
               /\ pc'[on'[d]] = "sSched" => state'[on'[d]] = "SLEEPING"
               /\ pc'[on'[d]] = "xSched" => state'[on'[d]] = "ZOMBIE"
    <3>1. d # c /\ on'[d] = on[d]
      BY <2>5, <1>4, CtxFacts
    <3>2. pc'[on[d]] = pc[on[d]]
      BY <3>1, <1>10 DEF OtherCpus
    <3> QED BY SMT, SMTT(30), <2>5, <2>a, <3>1, <3>2, <1>a DEF StackInv
  <2>6. ASSUME NEW p \in Proc, \A d \in CPU : on'[d] # p
        PROVE  /\ pc'[p] \in ResumeLabels \cup {"dead"}
               /\ state'[p] \in {"RUNNABLE", "SLEEPING"} => pc'[p] \in ResumeLabels
               /\ state'[p] = "ZOMBIE" => pc'[p] = "dead"
    <3>1. CASE p = on[c]
      BY <3>1, <2>a, <1>1, <1>6, <1>7 DEF SchedLabels, ResumeLabels, l
    <3>2. CASE p # on[c]
      <4>1. (\A d \in CPU : on[d] # p) /\ pc'[p] = pc[p]
        BY <2>6, <3>2, <1>4, <1>5, CtxFacts
      <4> QED BY <4>1, <2>a, <1>a DEF StackInv
    <3> QED BY <3>1, <3>2
  <2>7. \A d \in CPU : pc'[d] \in CpuLabels /\ (on'[d] # d => pc'[d] = "scan")
    BY SMT, SMTT(30), <2>1, <1>11, <1>a DEF StackInv
  <2> QED BY <2>1, <2>2, <2>3, <2>4, <2>5, <2>6, <2>7 DEF StackInv
<1> QED BY <1>9, <1>10, <1>12, <1>13, <1>14


-----------------------------------------------------------------------------
(* Types. *)

\* Every step keeps the types.
LEMMA TypeStep ==
  ASSUME Inv, NEW c \in CPU, Step(c)
  PROVE  TypeOK'
<1>a. TypeOK
  BY DEF Inv
<1>b. on[c] \in Ctx /\ (pc[on[c]] \notin CpuLabels => on[c] \in Proc)
  BY Executing
<1>c. /\ trapTimer(c) \/ trapDevice(c) => pc[on[c]] \in {"user", "cLock", "aInit", "idle"}
      /\ trapReturn(c) => ret[on[c]] \in {"user", "cLock", "aInit", "idle"}
  BY Interruptible, ReturnAddress DEF trapTimer, trapDevice, trapReturn, At
<1> USE DEF TypeOK, Labels, CpuLabels, PtLabels, LkLabels, FreeLabels, SchedLabels, ResumeLabels,
            At, Goto, Me, IsProc, CanCall, locks, procs, cpus
<1>1. CASE EnterPt(c)
  <2>1. CASE scheduler(c)
    BY SMT, SMTT(30), <2>1, <1>a, <1>b, CtxFacts DEF scheduler
  <2>2. CASE yieldLock(c)
    BY <2>2, <1>a, <1>b, CtxFacts, CliTypes DEF yieldLock, acquirePt
  <2>3. CASE sleepLock(c)
    BY <2>3, <1>a, <1>b, CtxFacts, CliTypes DEF sleepLock, acquirePt
  <2>4. CASE wakeupLock(c)
    BY <2>4, <1>a, <1>b, CtxFacts, CliTypes DEF wakeupLock, acquirePt
  <2>5. CASE killLock(c)
    BY <2>5, <1>a, <1>b, CtxFacts, CliTypes DEF killLock, acquirePt
  <2>6. CASE forkLock(c)
    BY <2>6, <1>a, <1>b, CtxFacts, CliTypes DEF forkLock, acquirePt
  <2>7. CASE exitLock(c)
    BY <2>7, <1>a, <1>b, CtxFacts, CliTypes DEF exitLock, acquirePt
  <2>8. CASE waitLock(c)
    BY <2>8, <1>a, <1>b, CtxFacts, CliTypes DEF waitLock, acquirePt
  <2> QED BY <2>1, <2>2, <2>3, <2>4, <2>5, <2>6, <2>7, <2>8, <1>1 DEF EnterPt
<1>2. CASE LeavePt(c)
  <2>1. CASE forkret(c)
    BY SMT, SMTT(30), <2>1, <1>a, <1>b, CtxFacts, CliTypes DEF forkret, releasePt, popcli
  <2>2. CASE yieldReturn(c)
    <3>1. on[c] \in Proc /\ sint[on[c]] \in BOOLEAN /\ popcliWith(c, sint[on[c]])
      BY <2>2, <1>a, <1>b DEF yieldReturn, schedReturnRelease
    <3>2. ncli' \in [CPU -> Int] /\ intena' \in [CPU -> BOOLEAN] /\ IF_' \in [CPU -> BOOLEAN]
      BY <3>1, <1>a, CliTypes
    <3> QED BY <2>2, <3>1, <3>2, <1>a, CtxFacts DEF yieldReturn, schedReturnRelease
  <2>3. CASE sleepReturn(c)
    <3>1. on[c] \in Proc /\ sint[on[c]] \in BOOLEAN /\ popcliWith(c, sint[on[c]])
      BY <2>3, <1>a, <1>b DEF sleepReturn, schedReturnRelease
    <3>2. ncli' \in [CPU -> Int] /\ intena' \in [CPU -> BOOLEAN] /\ IF_' \in [CPU -> BOOLEAN]
      BY <3>1, <1>a, CliTypes
    <3> QED BY <2>3, <3>1, <3>2, <1>a, CtxFacts DEF sleepReturn, schedReturnRelease
  <2> QED BY <2>1, <2>2, <2>3, <1>2 DEF LeavePt
<1>3. CASE UseLk(c)
  <2>1. CASE trapLock(c)
    BY <2>1, <1>a, <1>b, CtxFacts, CliTypes DEF trapLock, acquireLk
  <2>2. CASE consume(c)
    BY <2>2, <1>a, <1>b, CtxFacts, CliTypes DEF consume, acquireLk
  <2>3. CASE sleepRelock(c)
    BY <2>3, <1>a, <1>b, CtxFacts, CliTypes DEF sleepRelock, acquireLk
  <2>4. CASE produce(c)
    BY <2>4, <1>a, <1>b, CtxFacts, CliTypes DEF produce, acquireLk
  <2>5. CASE consumeEnd(c)
    BY SMT, SMTT(30), <2>5, <1>a, <1>b, CtxFacts, CliTypes DEF consumeEnd, releaseLk, popcli
  <2>6. CASE sleepRelease(c)
    BY SMT, SMTT(30), <2>6, <1>a, <1>b, CtxFacts, CliTypes DEF sleepRelease, releaseLk, popcli
  <2>7. CASE produceEnd(c)
    BY SMT, SMTT(30), <2>7, <1>a, <1>b, CtxFacts, CliTypes DEF produceEnd, releaseLk, popcli
  <2>8. CASE consumeTest(c)
    <3>1. pc' \in [Ctx -> Labels]
      BY SMT, SMTT(30), <2>8, <1>a, <1>b DEF consumeTest
    <3>2. cond' \in BOOLEAN
      BY <2>8, <1>a DEF consumeTest
    <3> QED BY <2>8, <3>1, <3>2, <1>a DEF consumeTest
  <2>9. CASE produceSet(c)
    BY <2>9, <1>a, <1>b, CtxFacts DEF produceSet
  <2> QED BY <2>1, <2>2, <2>3, <2>4, <2>5, <2>6, <2>7, <2>8, <2>9, <1>3 DEF UseLk
<1>4. CASE ScanTable(c)
  <2>1. CASE wakeup(c)
    BY SMT, SMTT(30), <2>1, <1>a, <1>b, CtxFacts, CliTypes DEF wakeup, releasePt, wakeup1, popcli
  <2>2. CASE kill(c)
    <3>1. ncli' \in [CPU -> Int] /\ intena' \in [CPU -> BOOLEAN] /\ IF_' \in [CPU -> BOOLEAN]
      BY <2>2, <1>a, CliTypes DEF kill, releasePt, popcli
    <3>2. state' \in [Proc -> {"UNUSED", "EMBRYO", "SLEEPING", "RUNNABLE", "RUNNING", "ZOMBIE"}]
      BY SMT, SMTT(30), <2>2, <1>a DEF kill
    <3>3. killed' \in [Proc -> BOOLEAN]
      BY <2>2, <1>a DEF kill
    <3> QED BY <2>2, <3>1, <3>2, <3>3, <1>a, <1>b, CtxFacts DEF kill, releasePt
  <2>3. CASE wait(c)
    <3>1. ncli' \in [CPU -> Int] /\ intena' \in [CPU -> BOOLEAN] /\ IF_' \in [CPU -> BOOLEAN]
      BY SMT, SMTT(30), <2>3, <1>a, CliTypes DEF wait, releasePt, popcli
    <3>2. state' \in [Proc -> {"UNUSED", "EMBRYO", "SLEEPING", "RUNNABLE", "RUNNING", "ZOMBIE"}]
      BY SMT, SMTT(30), <2>3, <1>a DEF wait
    <3>3. killed' \in [Proc -> BOOLEAN]
      BY <2>3, <1>a DEF wait
    <3> QED BY <2>3, <3>1, <3>2, <3>3, <1>a, <1>b, CtxFacts DEF wait, releasePt
  <2> QED BY <2>1, <2>2, <2>3, <1>4 DEF ScanTable
<1>5. CASE Trap(c)
  <2>1. CASE trapTimer(c)
    BY <2>1, <1>a, <1>b, CtxFacts, <1>c DEF trapTimer
  <2>2. CASE trapDevice(c)
    BY <2>2, <1>a, <1>b, CtxFacts, <1>c DEF trapDevice
  <2>3. CASE trapReturn(c)
    BY <2>3, <1>a, <1>b, CtxFacts, <1>c DEF trapReturn
  <2>4. CASE trapExit(c)
    BY <2>4, <1>a, <1>b, CtxFacts, CliTypes DEF trapExit, acquirePt
  <2> QED BY <2>1, <2>2, <2>3, <2>4, <1>5 DEF Trap
<1>6. CASE Loop(c)
  <2>1. CASE schedulerSkip(c)
    BY <2>1, <1>a, <1>b, CtxFacts DEF schedulerSkip
  <2>2. CASE schedulerEnd(c)
    BY SMT, SMTT(30), <2>2, <1>a, <1>b, CtxFacts DEF schedulerEnd
  <2> QED BY <2>1, <2>2, <1>6 DEF Loop
<1>7. CASE Fork(c)
  <2>1. CASE allocproc(c)
    BY SMT, SMTT(30), <2>1, <1>a, <1>b, CtxFacts, CliTypes DEF allocproc, releasePt, popcli
  <2>2. CASE fork(c)
    <3>1. on[c] \in Proc /\ slot[on[c]] \in Proc
      BY <2>2, ForkSlot DEF fork
    <3>2. pc' \in [Ctx -> Labels]
      BY <2>2, <3>1, <1>a, CtxFacts DEF fork
    <3>3. ret' \in [Ctx -> {"user", "cLock", "aInit", "idle", NULL}]
      BY <2>2, <3>1, <1>a, CtxFacts DEF fork
    <3>4. state' \in [Proc -> {"UNUSED", "EMBRYO", "SLEEPING", "RUNNABLE", "RUNNING", "ZOMBIE"}]
      BY <2>2, <3>1, <1>a DEF fork
    <3>5. slot' \in [Ctx -> 1..(NPROC + 1)]
      BY <2>2, <3>1, <1>a, CtxFacts DEF fork
    <3> QED BY <2>2, <3>2, <3>3, <3>4, <3>5, <1>a DEF fork
  <2>3. CASE forkFail(c)
    <3>1. on[c] \in Proc /\ slot[on[c]] \in Proc
      BY <2>3, ForkSlot DEF forkFail
    <3>2. pc' \in [Ctx -> Labels]
      BY <2>3, <3>1, <1>a, CtxFacts DEF forkFail
    <3>4. state' \in [Proc -> {"UNUSED", "EMBRYO", "SLEEPING", "RUNNABLE", "RUNNING", "ZOMBIE"}]
      BY <2>3, <3>1, <1>a DEF forkFail
    <3>5. slot' \in [Ctx -> 1..(NPROC + 1)]
      BY <2>3, <3>1, <1>a, CtxFacts DEF forkFail
    <3> QED BY <2>3, <3>2, <3>4, <3>5, <1>a DEF forkFail
  <2> QED BY <2>1, <2>2, <2>3, <1>7 DEF Fork
<1>8. CASE Leave(c)
  <2>1. CASE yieldState(c)
    BY <2>1, <1>a, <1>b, CtxFacts DEF yieldState
  <2>2. CASE sleepState(c)
    BY <2>2, <1>a, <1>b, CtxFacts DEF sleepState
  <2>3. CASE exit(c)
    BY <2>3, <1>a, <1>b, CtxFacts DEF exit
  <2> QED BY <2>1, <2>2, <2>3, <1>8 DEF Leave
<1>9. CASE Swtch(c)
  <2>1. CASE schedulerRun(c)
    BY <2>1, <1>a, <1>b, CtxFacts DEF schedulerRun
  <2>2. CASE sched(c)
    BY <2>2, <1>a, <1>b, CtxFacts DEF sched
  <2> QED BY <2>1, <2>2, <1>9 DEF Swtch
<1> HIDE DEF TypeOK
<1> QED BY <1>1, <1>2, <1>3, <1>4, <1>5, <1>6, <1>7, <1>8, <1>9, StepGroups

-----------------------------------------------------------------------------
(* The invariant, and the properties it implies. *)

\* Inv holds when the cpus enter scheduler() with init RUNNABLE.
LEMMA InvInit == Init => Inv
<1> SUFFICES ASSUME Init PROVE Inv
  OBVIOUS
<1> USE CtxFacts DEF Init
<1>1. TypeOK
  <2>1. ptLock \in CPU \cup {NULL} /\ lk \in CPU \cup {NULL} /\ cond \in BOOLEAN
    OBVIOUS
  <2>2. on \in [CPU -> Ctx] /\ pc \in [Ctx -> Labels]
    BY DEF Labels, FreeLabels, PtLabels, ResumeLabels
  <2>3. ret \in [Ctx -> {"user", "cLock", "aInit", "idle", NULL}]
    OBVIOUS
  <2>4. state \in [Proc -> {"UNUSED", "EMBRYO", "SLEEPING", "RUNNABLE", "RUNNING", "ZOMBIE"}]
    OBVIOUS
  <2>5. chan \in [Proc -> BOOLEAN] /\ killed \in [Proc -> BOOLEAN] /\ sint \in [Proc -> BOOLEAN]
    OBVIOUS
  <2>6. slot \in [Ctx -> 1..(NPROC + 1)]
    OBVIOUS
  <2>7. ncli \in [CPU -> Int] /\ intena \in [CPU -> BOOLEAN] /\ IF_ \in [CPU -> BOOLEAN]
    BY SMT, SMTT(30)
  <2> QED BY <2>1, <2>2, <2>3, <2>4, <2>5, <2>6, <2>7 DEF TypeOK
<1>2. LocksInv
  BY DEF LocksInv, PtLabels, LkLabels, SchedLabels, ResumeLabels
<1>3. StackInv
  BY DEF StackInv, CpuLabels, ResumeLabels, SchedLabels
<1>4. ForkInv
  BY NullAssumption DEF ForkInv, Forking, Labels, FreeLabels
<1>5. RetInv
  BY NullAssumption DEF RetInv, HandlerLabels, StoredLabels, Labels, FreeLabels
<1>6. NcliCounts /\ CliInv
  BY SMT, SMTT(30) DEF NcliCounts, CliInv
<1> QED BY <1>1, <1>2, <1>3, <1>4, <1>5, <1>6 DEF Inv

\* A step of one cpu, as the others and the locks see it.
LEMMA InvStep ==
  ASSUME Inv, NEW c \in CPU, Step(c)
  PROVE  Inv' /\ OtherCpus(c) /\ LockEffect(c)
<1>1. CASE EnterPt(c) \/ LeavePt(c) \/ UseLk(c) \/ ScanTable(c) \/ Trap(c) \/ Loop(c)
  <2>1. Local(c) /\ LockEffect(c) /\ StateKept /\ ForksKept
    BY <1>1, EnterPtStep, LeavePtStep, UseLkStep, ScanTableStep, TrapStep, LoopStep
  <2> QED BY <2>1, LocalStep, LockStep, TypeStep DEF Inv
<1>2. CASE Fork(c)
  <2>1. OtherCpus(c) /\ LockEffect(c) /\ StackInv' /\ ForkInv' /\ RetInv'
    BY <1>2, AllocStep, ForkStep, ForkFailStep DEF Fork
  <2> QED BY <2>1, LockStep, TypeStep DEF Inv
<1>3. CASE Leave(c)
  BY <1>3, LeaveStep, LockStep, TypeStep DEF Inv
<1>4. CASE Swtch(c)
  <2>1. OtherCpus(c) /\ LockEffect(c) /\ StackInv' /\ ForkInv' /\ RetInv'
    BY <1>4, RunStep, SchedStep DEF Swtch
  <2> QED BY <2>1, LockStep, TypeStep DEF Inv
<1> QED BY <1>1, <1>2, <1>3, <1>4, StepGroups

\* Inv is inductive: every step of every cpu preserves it.
LEMMA InvNext == Inv /\ [Next]_vars => Inv'
<1> SUFFICES ASSUME Inv, [Next]_vars PROVE Inv'
  OBVIOUS
<1>1. CASE Next
  BY <1>1, InvStep DEF Next, Step
<1>2. CASE UNCHANGED vars
  <2> USE <1>2 DEF vars, Inv
  <2>1. TypeOK'
    BY DEF TypeOK
  <2>2. LocksInv' /\ StackInv'
    BY SMT, SMTT(30) DEF LocksInv, StackInv
  <2>3. ForkInv' /\ RetInv'
    BY DEF ForkInv, Forking, RetInv
  <2>4. NcliCounts' /\ CliInv'
    BY DEF NcliCounts, CliInv
  <2> QED BY <2>1, <2>2, <2>3, <2>4
<1> QED BY <1>1, <1>2

\* The inductive invariant, for any number of cpus and process slots.
THEOREM Invariance == Spec => []Inv
BY InvInit, InvNext, PTL DEF Spec

\* TypeOK: every variable of the kernel model keeps its type.
THEOREM TypeCorrectness == Spec => []TypeOK
<1>1. Inv => TypeOK
  BY DEF Inv
<1> QED BY <1>1, Invariance, PTL

\* OneCpuPerStack: no kernel stack is ever executed by two cpus, although
\* yield, sleep and exit publish the new state while still on that stack.
THEOREM StackExclusion == Spec => []OneCpuPerStack
<1>1. Inv => OneCpuPerStack
  BY DEF Inv, StackInv, OneCpuPerStack
<1> QED BY <1>1, Invariance, PTL

\* StackLive: the slot of a process that executes is never free or rebuilt.
THEOREM StackSafety == Spec => []StackLive
<1>1. Inv => StackLive
  BY DEF Inv, StackInv, StackLive, IsProc, Me, SchedLabels
<1> QED BY <1>1, Invariance, PTL

\* NcliCounts: pushcli and popcli balance on every cpu, across every swtch.
THEOREM CliBalance == Spec => []NcliCounts
<1>1. Inv => NcliCounts
  BY DEF Inv
<1> QED BY <1>1, Invariance, PTL

\* NoPanic: acquire, release, popcli and sched are never called wrongly.
THEOREM PanicFreedom == Spec => []NoPanic
<1>1. ASSUME Inv, NEW c \in CPU
      PROVE  LET l == pc[on[c]] IN
             /\ l \in {"yLock", "sLock", "pWake"} => ptLock # c
             /\ l \in {"pLock", "cLock"} => lk # c
             /\ l \in PtLabels \ SchedLabels => ptLock = c /\ ~IF_[c] /\ ncli[c] > 0
             /\ l \in {"cRel", "sRel", "pRel"} => lk = c /\ ~IF_[c] /\ ncli[c] > 0
             /\ l \in SchedLabels =>
                  ptLock = c /\ ncli[c] = 1 /\ state[Me(c)] # "RUNNING" /\ ~IF_[c]
  <2>1. /\ ptLock = c <=> pc[on[c]] \in PtLabels
        /\ lk = c <=> pc[on[c]] \in LkLabels
        /\ ncli[c] = (IF ptLock = c THEN 1 ELSE 0) + (IF lk = c THEN 1 ELSE 0)
        /\ ncli[c] > 0 => ~IF_[c]
    BY <1>1 DEF Inv, LocksInv, NcliCounts, CliInv
  <2>2. pc[on[c]] \in SchedLabels => state[on[c]] # "RUNNING"
    BY <1>1, CtxFacts DEF Inv, StackInv, SchedLabels, CpuLabels
  <2> QED BY SMT, SMTT(30), <2>1, <2>2 DEF Me, PtLabels, LkLabels, SchedLabels, ResumeLabels
<1>2. Inv => NoPanic
  BY <1>1 DEF NoPanic
<1> QED BY <1>2, Invariance, PTL

-----------------------------------------------------------------------------
(* Wakeups. *)

\* While a sleeper holds lk or ptable.lock on its way to SLEEPING, the condition
\* it found false stays false, or a producer is on its way to the table.
WakeInv ==
  /\ \A c \in CPU : pc[on[c]] \in {"sLock", "sRel"} => ~cond
  /\ cond /\ (\E c \in CPU : pc[on[c]] = "sSet")
        => \E c \in CPU : pc[on[c]] \in {"pWake", "pScan"}
  /\ NoLostWakeup

\* What a step of cpu c does to the condition and to the sleepers on their way.
LEMMA CondStep ==
  ASSUME Inv, NEW c \in CPU, Step(c)
  PROVE  /\ cond' /\ ~cond => pc[on[c]] = "pSet" /\ pc'[on'[c]] = "pWake"
         /\ pc'[on'[c]] \in {"sLock", "sRel"} => ~cond' \/ (pc[on[c]] = "sLock" /\ cond' = cond)
         /\ pc'[on'[c]] = "sSet" => pc[on[c]] = "sRel" /\ cond' = cond
         /\ pc[on[c]] = "pWake" => pc'[on'[c]] = "pScan"
<1>a. pc \in [Ctx -> Labels] /\ on[c] \in Ctx /\ cond \in BOOLEAN
  BY Here DEF Inv, TypeOK
<1>1. CASE EnterPt(c)
  BY SMT, SMTT(30), <1>1, <1>a
  DEF EnterPt, scheduler, yieldLock, sleepLock, wakeupLock, killLock,
      forkLock, exitLock, waitLock, At, Goto, Me, CanCall
<1>2. CASE LeavePt(c)
  BY SMT, SMTT(30), <1>2, <1>a
  DEF LeavePt, forkret, yieldReturn, sleepReturn, At, Goto, Me
<1>3. CASE UseLk(c)
  BY SMT, SMTT(30), <1>3, <1>a
  DEF UseLk, trapLock, consume, sleepRelock, produce, consumeEnd,
      sleepRelease, produceEnd, consumeTest, produceSet, At, Goto, Me,
      CanCall
<1>4. CASE ScanTable(c)
  BY SMT, SMTT(30), <1>4, <1>a
  DEF ScanTable, wakeup, kill, wait, At, Goto, Me
<1>5. CASE Trap(c)
  BY SMT, SMTT(30), <1>5, <1>a, Interruptible, ReturnAddress
  DEF Trap, trapTimer, trapDevice, trapReturn, trapExit, At, Goto, Me
<1>6. CASE Loop(c)
  BY SMT, SMTT(30), <1>6, <1>a
  DEF Loop, schedulerSkip, schedulerEnd, At, Goto, Me
<1>7. CASE Fork(c)
  BY SMT, SMTT(30), <1>7, <1>a, ForkSlot
  DEF Fork, allocproc, fork, forkFail, At, Goto, Me
<1>8. CASE Leave(c)
  BY SMT, SMTT(30), <1>8, <1>a
  DEF Leave, yieldState, sleepState, exit, At, Goto, Me
<1>9. CASE Swtch(c)
  <2>1. CASE schedulerRun(c)
    <3>1. /\ pc[on[c]] = "scan" /\ slot[c] \in Proc /\ state[slot[c]] = "RUNNABLE"
          /\ on' = [on EXCEPT ![c] = slot[c]] /\ pc' = pc /\ cond' = cond
      BY <2>1 DEF schedulerRun, At
    <3>2. ptLock = c /\ on \in [CPU -> Ctx]
      BY <3>1 DEF Inv, TypeOK, LocksInv, PtLabels
    <3>3. pc[slot[c]] \in ResumeLabels
      BY <3>1, <3>2, NotExecuting DEF SchedLabels
    <3> QED BY <3>1, <3>2, <3>3 DEF ResumeLabels
  <2>2. CASE sched(c)
    <3>1. /\ pc[on[c]] \in SchedLabels /\ on'[c] = c /\ cond' = cond
          /\ \A x \in Ctx \ {on[c]} : pc'[x] = pc[x]
      BY <2>2, <1>a DEF sched, Goto, Inv, TypeOK
    <3>2. on[c] # c /\ pc[c] = "scan"
      BY <3>1, Executing, CtxFacts DEF Inv, StackInv, SchedLabels, CpuLabels
    <3> QED BY <3>1, <3>2, CtxFacts DEF SchedLabels
  <2> QED BY <1>9, <2>1, <2>2 DEF Swtch
<1> QED BY <1>1, <1>2, <1>3, <1>4, <1>5, <1>6, <1>7, <1>8, <1>9, StepGroups

\* What a step of cpu c does to the processes asleep.
LEMMA SleepStep ==
  ASSUME Inv, NEW c \in CPU, Step(c)
  PROVE  /\ \A p \in Proc : state'[p] = "SLEEPING" /\ chan'[p]
                 => (state[p] = "SLEEPING" /\ chan[p]) \/ pc[on[c]] = "sSet"
         /\ pc[on[c]] = "pScan" => \A p \in Proc : ~(state'[p] = "SLEEPING" /\ chan'[p])
<1>a. /\ state \in [Proc -> {"UNUSED", "EMBRYO", "SLEEPING", "RUNNABLE", "RUNNING", "ZOMBIE"}]
      /\ chan \in [Proc -> BOOLEAN]
  BY DEF Inv, TypeOK
<1>1. CASE EnterPt(c)
  BY <1>1, <1>a
  DEF EnterPt, scheduler, yieldLock, sleepLock, wakeupLock, killLock,
      forkLock, exitLock, waitLock, At, CanCall, procs
<1>2. CASE LeavePt(c)
  BY <1>2, <1>a
  DEF LeavePt, forkret, yieldReturn, sleepReturn, At, procs, Me
<1>3. CASE UseLk(c)
  BY <1>3, <1>a
  DEF UseLk, trapLock, consume, sleepRelock, produce, consumeEnd,
      sleepRelease, produceEnd, consumeTest, produceSet, At, CanCall, procs
<1>4. CASE ScanTable(c)
  BY <1>4, <1>a
  DEF ScanTable, wakeup, kill, wait, At, wakeup1
<1>5. CASE Trap(c)
  BY <1>5, Interruptible
  DEF Trap, trapTimer, trapDevice, trapReturn, trapExit, At, procs
<1>6. CASE Loop(c)
  BY <1>6, <1>a
  DEF Loop, schedulerSkip, schedulerEnd, At, procs
<1>7. CASE Fork(c)
  BY SMT, SMTT(30), <1>7, <1>a, ForkSlot
  DEF Fork, allocproc, fork, forkFail, At, Me
<1>8. CASE Leave(c)
  BY <1>8, <1>a
  DEF Leave, yieldState, sleepState, exit, At, Me
<1>9. CASE Swtch(c)
  BY <1>9, <1>a
  DEF Swtch, schedulerRun, sched, At, procs, SchedLabels
<1> QED BY <1>1, <1>2, <1>3, <1>4, <1>5, <1>6, <1>7, <1>8, <1>9, StepGroups

\* A step of cpu c loses no wakeup.
LEMMA WakeStep ==
  ASSUME Inv, WakeInv, NEW c \in CPU, Step(c)
  PROVE  WakeInv'
<1>a. \A d \in CPU \ {c} : on'[d] = on[d] /\ pc'[on[d]] = pc[on[d]]
  BY InvStep DEF OtherCpus
<1>b. /\ cond' /\ ~cond => pc[on[c]] = "pSet" /\ pc'[on'[c]] = "pWake"
      /\ pc'[on'[c]] \in {"sLock", "sRel"} => ~cond' \/ (pc[on[c]] = "sLock" /\ cond' = cond)
      /\ pc'[on'[c]] = "sSet" => pc[on[c]] = "sRel" /\ cond' = cond
      /\ pc[on[c]] = "pWake" => pc'[on'[c]] = "pScan"
  BY CondStep
<1>c. /\ \A p \in Proc : state'[p] = "SLEEPING" /\ chan'[p]
                 => (state[p] = "SLEEPING" /\ chan[p]) \/ pc[on[c]] = "sSet"
      /\ pc[on[c]] = "pScan" => \A p \in Proc : ~(state'[p] = "SLEEPING" /\ chan'[p])
  BY SleepStep
<1>d. /\ \A d \in CPU : pc[on[d]] \in {"sSet", "pScan", "sRel"} => ptLock = d
      /\ \A d \in CPU : pc[on[d]] \in {"sLock", "sRel", "pSet"} => lk = d
  BY DEF Inv, LocksInv, PtLabels, LkLabels
<1>w. /\ \A d \in CPU : pc[on[d]] \in {"sLock", "sRel"} => ~cond
      /\ cond /\ (\E d \in CPU : pc[on[d]] = "sSet")
            => \E d \in CPU : pc[on[d]] \in {"pWake", "pScan"}
      /\ cond /\ (\E p \in Proc : state[p] = "SLEEPING" /\ chan[p])
            => \E d \in CPU : pc[on[d]] \in {"pWake", "pScan"}
  BY DEF WakeInv, NoLostWakeup
<1>1. \A d \in CPU : pc'[on'[d]] \in {"sLock", "sRel"} => ~cond'
  BY SMT, SMTT(30), <1>a, <1>b, <1>d, <1>w
<1>2. ASSUME cond', \A d \in CPU : pc'[on'[d]] \notin {"pWake", "pScan"}
      PROVE  /\ cond
             /\ \A d \in CPU \ {c} : pc[on[d]] \notin {"pWake", "pScan"}
             /\ pc[on[c]] # "pWake"
  BY <1>2, <1>a, <1>b
<1>3. cond' /\ (\E d \in CPU : pc'[on'[d]] = "sSet")
        => \E d \in CPU : pc'[on'[d]] \in {"pWake", "pScan"}
  <2> SUFFICES ASSUME cond', \A d \in CPU : pc'[on'[d]] \notin {"pWake", "pScan"},
                      NEW d \in CPU, pc'[on'[d]] = "sSet"
               PROVE  FALSE
    OBVIOUS
  <2>1. CASE d = c
    BY <2>1, <1>b, <1>w
  <2>2. CASE d # c
    <3>1. pc[on[d]] = "sSet"
      BY <2>2, <1>a
    <3>2. pc[on[c]] # "pScan"
      BY <3>1, <2>2, <1>d
    <3> QED BY <3>1, <3>2, <1>2, <1>w
  <2> QED BY <2>1, <2>2
<1>4. NoLostWakeup'
  <2> SUFFICES ASSUME cond', \A d \in CPU : pc'[on'[d]] \notin {"pWake", "pScan"},
                      NEW p \in Proc, state'[p] = "SLEEPING", chan'[p]
               PROVE  FALSE
    BY DEF NoLostWakeup
  <2>1. pc[on[c]] # "pScan"
    BY <1>c
  <2> QED BY <2>1, <1>2, <1>c, <1>w
<1> QED BY <1>1, <1>3, <1>4 DEF WakeInv

\* NoLostWakeup: the guarantee in sleep's comment, for any number of cpus,
\* sleepers and producers.
THEOREM WakeupSafety == Spec => []NoLostWakeup
<1>1. Init => WakeInv
  BY CtxFacts DEF Init, WakeInv, NoLostWakeup
<1>2. Inv /\ WakeInv /\ [Next]_vars => WakeInv'
  <2> SUFFICES ASSUME Inv, WakeInv, [Next]_vars PROVE WakeInv'
    OBVIOUS
  <2>1. CASE Next
    BY <2>1, WakeStep DEF Next, Step
  <2>2. CASE UNCHANGED vars
    BY <2>2 DEF vars, WakeInv, NoLostWakeup
  <2> QED BY <2>1, <2>2
<1>3. WakeInv => NoLostWakeup
  BY DEF WakeInv
<1> QED BY <1>1, <1>2, <1>3, Invariance, PTL DEF Spec

-----------------------------------------------------------------------------
(* Interrupts. *)

\* Where a system call holds the locks it has acquired with interrupts on.
OwnLabels == {"cTest", "cRel", "sLock", "sRel", "sSet", "sSched", "pSet", "pWake",
              "pScan", "pRel", "kHeld", "aHeld", "rHeld"}

\* cpu->intena says so, also where a handler runs the same code (ret # NULL then),
\* and a sleeper has saved that fact on its stack.
IntInv ==
  /\ \A c \in CPU : pc[on[c]] \in {"user", "cLock", "aInit", "idle"} => IF_[c]
  /\ \A c \in CPU : pc[on[c]] \in OwnLabels /\ ret[on[c]] = NULL => intena[c]
  /\ \A p \in Proc : pc[p] = "sBack" => sint[p]

\* A step of cpu c leaves the saved interrupt flags of the other cpus alone, and
\* the return addresses of what they execute.
LEMMA OthersIntena ==
  ASSUME Inv, NEW c \in CPU, Step(c)
  PROVE  \A d \in CPU \ {c} : intena'[d] = intena[d] /\ ret'[on[d]] = ret[on[d]]
<1>a. intena \in [CPU -> BOOLEAN] /\ ret \in [Ctx -> {"user", "cLock", "aInit", "idle", NULL}]
  BY DEF Inv, TypeOK
<1>b. \A d \in CPU \ {c} : on[d] # on[c] /\ on[d] \in Ctx
  BY DEF Inv, StackInv, TypeOK
<1>1. CASE EnterPt(c)
  BY <1>1, <1>a
  DEF EnterPt, scheduler, yieldLock, sleepLock, wakeupLock, killLock,
      forkLock, exitLock, waitLock, CanCall, acquirePt, pushcli
<1>2. CASE LeavePt(c)
  BY <1>2, <1>a
  DEF LeavePt, forkret, yieldReturn, sleepReturn, releasePt,
      schedReturnRelease, popcli, popcliWith
<1>3. CASE UseLk(c)
  BY <1>3, <1>a
  DEF UseLk, trapLock, consume, sleepRelock, produce, consumeEnd,
      sleepRelease, produceEnd, consumeTest, produceSet, acquireLk,
      releaseLk, pushcli, popcli, popcliWith, cpus
<1>4. CASE ScanTable(c)
  BY <1>4, <1>a
  DEF ScanTable, wakeup, kill, wait, releasePt, popcli, popcliWith
<1>5. CASE Trap(c)
  BY <1>5, <1>a, <1>b
  DEF Trap, trapTimer, trapDevice, trapReturn, trapExit, Me, acquirePt,
      pushcli
<1>6. CASE Loop(c)
  BY <1>6, <1>a
  DEF Loop, schedulerSkip, schedulerEnd, cpus
<1>7. CASE Fork(c)
  BY <1>7, <1>a, <1>b, ForkSlot
  DEF Fork, allocproc, fork, forkFail, At, Me, releasePt, popcli,
      popcliWith, cpus
<1>8. CASE Leave(c)
  BY <1>8, <1>a
  DEF Leave, yieldState, sleepState, exit, cpus
<1>9. CASE Swtch(c)
  BY <1>9, <1>a
  DEF Swtch, schedulerRun, sched, cpus
<1> QED BY <1>1, <1>2, <1>3, <1>4, <1>5, <1>6, <1>7, <1>8, <1>9, StepGroups

\* The executing cpu's flags after its step.
LEMMA OwnIntena ==
  ASSUME Inv, IntInv, NEW c \in CPU, Step(c)
  PROVE  /\ pc'[on'[c]] \in {"user", "cLock", "aInit", "idle"} => IF_'[c]
         /\ pc'[on'[c]] \in OwnLabels /\ ret'[on'[c]] = NULL => intena'[c]
<1>a. /\ pc \in [Ctx -> Labels] /\ ncli \in [CPU -> Int] /\ on[c] \in Ctx
      /\ intena \in [CPU -> BOOLEAN] /\ IF_ \in [CPU -> BOOLEAN]
      /\ ret \in [Ctx -> {"user", "cLock", "aInit", "idle", NULL}]
  BY Here DEF Inv, TypeOK
<1>b. /\ pc[on[c]] \in {"user", "cLock", "aInit", "idle"} => IF_[c]
      /\ pc[on[c]] \in OwnLabels /\ ret[on[c]] = NULL => intena[c]
  BY DEF IntInv
<1>c. ncli[c] = (IF pc[on[c]] \in PtLabels THEN 1 ELSE 0) + (IF pc[on[c]] \in LkLabels THEN 1 ELSE 0)
  BY DEF Inv, NcliCounts, LocksInv
<1>d. /\ pc[on[c]] \in {"user", "cLock"} => ncli[c] = 0
      /\ pc[on[c]] \in {"sLock", "pWake", "sBack", "cRel", "pRel", "kHeld", "aHeld", "rHeld"} => ncli[c] = 1
      /\ pc[on[c]] \in {"sRel", "pScan"} => ncli[c] = 2
  BY SMT, SMTT(30), <1>c DEF PtLabels, LkLabels, SchedLabels, ResumeLabels
<1>e. /\ pc[on[c]] \in {"user", "cLock", "aInit", "cTest", "cRel", "sLock", "sRel",
                         "sSet", "sBack", "kHeld", "aHeld", "rHeld"} => ret[on[c]] = NULL
      /\ pc[on[c]] \in {"pLock", "yLock", "yBack"} => ret[on[c]] # NULL
  BY Here DEF HandlerLabels, StoredLabels
<1>f. pc[on[c]] = "sBack" => sint[on[c]]
  BY Executing DEF IntInv, CpuLabels
<1> USE DEF OwnLabels, At, Goto, Me
<1>1. CASE EnterPt(c)
  <2>1. CASE scheduler(c) \/ yieldLock(c) \/ sleepLock(c) \/ wakeupLock(c)
    BY SMT, SMTT(30), <2>1, <1>a, <1>b, <1>d, <1>e
    DEF scheduler, yieldLock, sleepLock, wakeupLock, acquirePt, pushcli
  <2>2. CASE killLock(c) \/ forkLock(c) \/ exitLock(c) \/ waitLock(c)
    BY <2>2, <1>a, <1>b, <1>d, <1>e
    DEF killLock, forkLock, exitLock, waitLock, CanCall, acquirePt, pushcli
  <2> QED BY <1>1, <2>1, <2>2 DEF EnterPt
<1>2. CASE LeavePt(c)
  BY <1>2, <1>a, <1>b, <1>d, <1>e, <1>f
  DEF LeavePt, forkret, yieldReturn, sleepReturn, releasePt,
      schedReturnRelease, popcli, popcliWith
<1>3. CASE UseLk(c)
  <2>1. CASE trapLock(c) \/ consume(c)
    BY <2>1, <1>a, <1>b, <1>d, <1>e
    DEF trapLock, consume, CanCall, acquireLk, pushcli
  <2>2. CASE sleepRelock(c) \/ produce(c)
    BY <2>2, <1>a, <1>b, <1>d, <1>e
    DEF sleepRelock, produce, CanCall, acquireLk, pushcli
  <2>3. CASE consumeEnd(c) \/ produceEnd(c)
    BY <2>3, <1>a, <1>b, <1>d, <1>e
    DEF consumeEnd, produceEnd, releaseLk, popcli, popcliWith
  <2>4. CASE sleepRelease(c)
    BY <2>4, <1>a, <1>b, <1>d, <1>e
    DEF sleepRelease, releaseLk, popcli, popcliWith
  <2>5. CASE consumeTest(c) \/ produceSet(c)
    BY <2>5, <1>a, <1>b, <1>d, <1>e
    DEF consumeTest, produceSet, cpus
  <2> QED BY <1>3, <2>1, <2>2, <2>3, <2>4, <2>5 DEF UseLk
<1>4. CASE ScanTable(c)
  BY <1>4, <1>a, <1>b, <1>d, <1>e
  DEF ScanTable, wakeup, kill, wait, releasePt, popcli, popcliWith
<1>5. CASE Trap(c)
  <2>1. CASE trapTimer(c) \/ trapDevice(c)
    BY <2>1, <1>a, <1>b, <1>d, <1>e DEF trapTimer, trapDevice
  <2>2. CASE trapReturn(c)
    BY <2>2, <1>a, <1>b, <1>d, <1>e, ReturnAddress DEF trapReturn
  <2>3. CASE trapExit(c)
    BY <2>3, <1>a, <1>b, <1>d, <1>e DEF trapExit, acquirePt, pushcli
  <2> QED BY <1>5, <2>1, <2>2, <2>3 DEF Trap
<1>6. CASE Loop(c)
  BY <1>6, <1>a, <1>b, <1>d, <1>e
  DEF Loop, schedulerSkip, schedulerEnd, cpus
<1>7. CASE Fork(c)
  <2>1. CASE allocproc(c)
    BY SMT, SMTT(30), <2>1, <1>a, <1>b, <1>d, <1>e, ForkSlot DEF allocproc, releasePt, popcli, popcliWith
  <2>2. CASE fork(c)
    BY <2>2, <1>a, <1>b, <1>d, <1>e, ForkSlot DEF fork, cpus
  <2>3. CASE forkFail(c)
    BY <2>3, <1>a, <1>b, <1>d, <1>e, ForkSlot DEF forkFail, cpus
  <2> QED BY <1>7, <2>1, <2>2, <2>3 DEF Fork
<1>8. CASE Leave(c)
  BY <1>8, <1>a, <1>b, <1>d, <1>e
  DEF Leave, yieldState, sleepState, exit, cpus
<1>9. CASE Swtch(c)
  <2>1. CASE schedulerRun(c)
    <3>1. /\ pc[on[c]] = "scan" /\ slot[c] \in Proc /\ state[slot[c]] = "RUNNABLE"
          /\ on' = [on EXCEPT ![c] = slot[c]] /\ pc' = pc
      BY <2>1 DEF schedulerRun
    <3>2. ptLock = c /\ on \in [CPU -> Ctx]
      BY <3>1 DEF Inv, TypeOK, LocksInv, PtLabels
    <3>3. pc[slot[c]] \in ResumeLabels
      BY <3>1, <3>2, NotExecuting DEF SchedLabels
    <3> QED BY <3>1, <3>2, <3>3 DEF ResumeLabels
  <2>2. CASE sched(c)
    <3>1. on'[c] = c /\ \A x \in Ctx \ {on[c]} : pc'[x] = pc[x]
      BY <2>2, <1>a DEF sched, Inv, TypeOK
    <3>2. on[c] # c /\ pc[c] = "scan"
      BY <2>2, Executing, CtxFacts DEF sched, Inv, StackInv, SchedLabels, CpuLabels
    <3> QED BY <3>1, <3>2, CtxFacts
  <2> QED BY <1>9, <2>1, <2>2 DEF Swtch
<1> QED BY <1>1, <1>2, <1>3, <1>4, <1>5, <1>6, <1>7, <1>8, <1>9, StepGroups

\* The flags saved by the sleepers.
LEMMA SavedIntena ==
  ASSUME Inv, IntInv, NEW c \in CPU, Step(c)
  PROVE  \A p \in Proc : pc'[p] = "sBack" => sint'[p]
<1>a. pc \in [Ctx -> Labels] /\ sint \in [Proc -> BOOLEAN] /\ on[c] \in Ctx /\ Proc \subseteq Ctx
  BY Here, CtxFacts DEF Inv, TypeOK
<1>b. \A p \in Proc : pc[p] = "sBack" => sint[p]
  BY DEF IntInv
<1>1. CASE EnterPt(c)
  BY <1>1, <1>a, <1>b
  DEF EnterPt, scheduler, yieldLock, sleepLock, wakeupLock, killLock,
      forkLock, exitLock, waitLock, Goto
<1>2. CASE LeavePt(c)
  BY <1>2, <1>a, <1>b
  DEF LeavePt, forkret, yieldReturn, sleepReturn, Goto, Me,
      schedReturnRelease
<1>3. CASE UseLk(c)
  BY <1>3, <1>a, <1>b
  DEF UseLk, trapLock, consume, sleepRelock, produce, consumeEnd,
      sleepRelease, produceEnd, consumeTest, produceSet, Goto
<1>4. CASE ScanTable(c)
  BY <1>4, <1>a, <1>b
  DEF ScanTable, wakeup, kill, wait, Goto
<1>5. CASE Trap(c)
  BY <1>5, <1>a, <1>b, ReturnAddress
  DEF Trap, trapTimer, trapDevice, trapReturn, trapExit, Goto, At
<1>6. CASE Loop(c)
  BY <1>6, <1>a, <1>b
  DEF Loop, schedulerSkip, schedulerEnd, Goto
<1>7. CASE Fork(c)
  BY SMT, SMTT(30), <1>7, <1>a, <1>b, ForkSlot
  DEF Fork, allocproc, fork, forkFail, Goto, At, Me
<1>8. CASE Leave(c)
  BY <1>8, <1>a, <1>b
  DEF Leave, yieldState, sleepState, exit, Goto
<1>9. CASE Swtch(c)
  <2>1. CASE schedulerRun(c)
    BY <2>1, <1>b DEF schedulerRun
  <2>2. CASE sched(c)
    <3>1. on[c] \in Proc
      BY <2>2, Executing DEF sched, SchedLabels, CpuLabels
    <3>2. pc[on[c]] = "sSched" => ret[on[c]] = NULL
      BY Here DEF HandlerLabels
    <3>3. pc[on[c]] = "sSched" => intena[c]
      BY <3>2 DEF IntInv, OwnLabels
    <3> QED BY <2>2, <3>1, <3>3, <1>a, <1>b DEF sched, Goto, At, Me, SchedLabels
  <2> QED BY <1>9, <2>1, <2>2 DEF Swtch
<1> QED BY <1>1, <1>2, <1>3, <1>4, <1>5, <1>6, <1>7, <1>8, <1>9, StepGroups

\* A step of cpu c leaves every flag as the code expects it.
LEMMA IntStep ==
  ASSUME Inv, IntInv, NEW c \in CPU, Step(c)
  PROVE  IntInv'
<1>1. \A d \in CPU \ {c} :
        /\ pc'[on'[d]] = pc[on[d]] /\ ret'[on'[d]] = ret[on[d]]
        /\ IF_'[d] = IF_[d] /\ intena'[d] = intena[d]
  BY SMT, SMTT(30), InvStep, OthersIntena DEF OtherCpus, LockEffect
<1> QED BY SMT, SMTT(30), <1>1, OwnIntena, SavedIntena DEF IntInv

\* InterruptState: code outside critical sections runs with interrupts enabled
\* and handlers start with interrupts off, whichever cpu resumed the context.
THEOREM InterruptSafety == Spec => []InterruptState
<1>1. Init => IntInv
  BY SMT, SMTT(30), CtxFacts DEF Init, IntInv, OwnLabels
<1>2. Inv /\ IntInv /\ [Next]_vars => IntInv'
  <2> SUFFICES ASSUME Inv, IntInv, [Next]_vars PROVE IntInv'
    OBVIOUS
  <2>1. CASE Next
    BY <2>1, IntStep DEF Next, Step
  <2>2. CASE UNCHANGED vars
    BY <2>2 DEF vars, IntInv
  <2> QED BY <2>1, <2>2
<1>3. Inv /\ IntInv => InterruptState
  BY DEF Inv, CliInv, IntInv, InterruptState
<1> QED BY <1>1, <1>2, <1>3, Invariance, PTL DEF Spec
=============================================================================
