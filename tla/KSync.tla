------------------------------- MODULE KSync -------------------------------
(***************************************************************************)
(* Kernel-thread mutexes and condition variables (proc.c, kthread.h).      *)
(*                                                                         *)
(* A thread is named by its slot of ptable; threadId is the id it has.     *)
(* Ids need not differ: fork gives every main thread -1, whatever process  *)
(* it is of, kthread_create increments nextThread without a lock, and the  *)
(* mutexes are one table for all processes.                                *)
(* ptable.lock guards single assignments here (state = BLOCKING; sched()   *)
(* and the scan that undoes it), so those sections are single steps; that  *)
(* sched itself is sound is the subject of Sched.  mtable.lock and         *)
(* ctable.lock are held across steps and are variables.                    *)
(***************************************************************************)
EXTENDS Integers, FiniteSets

CONSTANTS Thread,        \* slots of ptable in use, in table order
          threadId,      \* their p->threadId
          NMUTEX, NCOND, \* entries of mtable and ctable the threads work with
          MAX_MUTEXES,   \* the modulus of isInQueue
          MAX_THREADS,   \* entries of a queue
          MaxCount,      \* bound: no call is made on a queue whose count is beyond it
          NULL

\* MAX_MUTEXES is 64 and MAX_THREADS 256; see store for what follows from that.
ASSUME KSyncAssumption ==
  /\ Thread \subseteq Nat /\ NULL \notin Thread
  /\ threadId \in [Thread -> Int]
  /\ NMUTEX \in Nat \ {0} /\ NCOND \in Nat /\ MaxCount \in Nat
  /\ MAX_MUTEXES \in Nat \ {0} /\ MAX_THREADS \in Nat \ {0}
  /\ MAX_THREADS % MAX_MUTEXES = 0 /\ (MAX_MUTEXES >= 4 \/ MAX_MUTEXES = MAX_THREADS)

Mutex == 0..(NMUTEX - 1)
Cond  == 0..(NCOND - 1)
Index == 0..(MAX_THREADS - 1)

VARIABLES
  mutex,      \* mtable.kthread_locks
  cond,       \* ctable.conds
  mtLock,     \* holder of mtable.lock, or NULL
  ctLock,     \* holder of ctable.lock, or NULL
  state,      \* "BLOCKING", or "RUNNABLE" for RUNNABLE and RUNNING
  pc, arg,    \* where a thread is, and the mutex and cond it passed
  wake,       \* tidToWakeUp
  held,       \* the mutexes a thread was told it locked and has not unlocked
  foreign     \* history: <<m, t>> once t has unlocked m without holding it

vars == <<mutex, cond, mtLock, ctLock, state, pc, arg, wake, held, foreign>>
tables == <<mutex, cond, mtLock, ctLock>>

NoTid == [i \in Index |-> 0]
NoArg == [m |-> 0, c |-> 0]

\* An entry as alloc hands it out.
NewMutex == [tid |-> 0, sleepingTID |-> NoTid, status |-> "UNLOCKED", count |-> 0, startIndex |-> 0]
NewCond  == [status |-> "USED", sleepingTID |-> NoTid, count |-> 0, startIndex |-> 0,
             waitingMutexID |-> 0]

Init ==
  /\ mutex = [m \in Mutex |-> [NewMutex EXCEPT !.status = "UNUSED"]]
  /\ cond = [c \in Cond |-> [NewCond EXCEPT !.status = "UNUSED"]]
  /\ mtLock = NULL /\ ctLock = NULL
  /\ state = [t \in Thread |-> "RUNNABLE"]
  /\ pc = [t \in Thread |-> "user"]
  /\ arg = [t \in Thread |-> NoArg]
  /\ wake = [t \in Thread |-> 0]
  /\ held = [t \in Thread |-> {}]
  /\ foreign = {}

At(t, l)      == pc[t] = l /\ state[t] = "RUNNABLE"
Goto(t, l)    == pc' = [pc EXCEPT ![t] = l]
Return(t)     == Goto(t, "user") /\ arg' = [arg EXCEPT ![t] = NoArg]
CallM(t, l, m) == At(t, "user") /\ Goto(t, l) /\ arg' = [arg EXCEPT ![t].m = m]

\* The calls stop when the queue has come this far.
InBound(q) == q.count \in -MaxCount..MaxCount

-----------------------------------------------------------------------------
(* Queues. *)

\* C's %, which rounds towards zero.
rem(a, n) == IF a >= 0 THEN a % n ELSE -((-a) % n)

\* isInQueue's loop from i to checkUntil; the index wraps at MAX_MUTEXES.
checkUntil(q) == rem(q.startIndex + q.count + 1, MAX_MUTEXES)

isInQueue(q, tid) ==
  LET i(k) == IF k = 0 THEN q.startIndex ELSE (q.startIndex + k) % MAX_MUTEXES
  IN \E k \in 0..MAX_MUTEXES : /\ q.sleepingTID[i(k)] = tid
                               /\ \A j \in 0..k : i(j) # checkUntil(q)

\* i is never negative: with such an end the loop only stops at the id.
isInQueueSpins(q, tid) == checkUntil(q) < 0 /\ ~isInQueue(q, tid)

\* mt[m].sleepingTID[i] = tid.  A queue from which unlock has taken more than
\* was put in has a negative index.  In front of the array is the tid of the
\* entry; further ahead, as isInQueue has returned and i + 1 is thus a multiple of
\* MAX_MUTEXES, the array of the entry before, with status, count and startIndex
\* in between.  Ahead of the first entry is memory outside of mtable, which is not
\* modelled.
store(mt, m, i, tid) ==
  CASE i >= 0            -> [mt EXCEPT ![m].sleepingTID[i] = tid]
    [] i = -1            -> [mt EXCEPT ![m].tid = tid]
    [] i < -1 /\ m > 0   -> [mt EXCEPT ![m - 1].sleepingTID[MAX_THREADS + 4 + i] = tid]
    [] i < -1 /\ m = 0   -> mt

destinationIndex(q) == rem(q.startIndex + q.count, MAX_THREADS)

enqueue(mt, m, tid) == [store(mt, m, destinationIndex(mt[m]), tid) EXCEPT ![m].count = @ + 1]

dequeue(q) == [q EXCEPT !.count = @ - 1, !.startIndex = (@ + 1) % MAX_THREADS]

\* The scan of ptable: the first BLOCKING thread with that id becomes RUNNABLE.
wakeTid(tid) ==
  state' = [t \in Thread |->
              IF /\ state[t] = "BLOCKING" /\ threadId[t] = tid
                 /\ \A u \in Thread : u < t => ~(state[u] = "BLOCKING" /\ threadId[u] = tid)
              THEN "RUNNABLE" ELSE state[t]]

-----------------------------------------------------------------------------
(* Mutexes. *)

kthread_mutex_alloc(t) ==
  /\ At(t, "user") /\ mtLock = NULL
  /\ \/ \E m \in Mutex :
          /\ mutex[m].status = "UNUSED" /\ \A n \in 0..(m-1) : mutex[n].status # "UNUSED"
          /\ mutex' = [mutex EXCEPT ![m] = NewMutex]
     \/ (\A m \in Mutex : mutex[m].status # "UNUSED") /\ UNCHANGED mutex
  /\ UNCHANGED <<cond, mtLock, ctLock, state, pc, arg, wake, held, foreign>>

\* Mutant: dealloc does not look whether the mutex is locked.
mutexDeallocLocked(t, m) ==
  /\ At(t, "user") /\ mtLock = NULL
  /\ mutex' = [mutex EXCEPT ![m].status = "UNUSED"]
  /\ UNCHANGED <<cond, mtLock, ctLock, state, pc, arg, wake, held, foreign>>

kthread_mutex_dealloc(t, m) ==
  /\ At(t, "user") /\ mtLock = NULL
  /\ mutex' = [mutex EXCEPT ![m].status = IF @ = "UNLOCKED" THEN "UNUSED" ELSE @]
  /\ UNCHANGED <<cond, mtLock, ctLock, state, pc, arg, wake, held, foreign>>

\* kthread_mutex_lock: call it, then one turn of while(1) under mtable.lock.
kthread_mutex_lock(t, m) ==
  /\ CallM(t, "lock", m) /\ InBound(mutex[m])
  /\ UNCHANGED <<tables, state, wake, held, foreign>>

lockUnused(t) ==
  /\ At(t, "lock") /\ mtLock = NULL /\ mutex[arg[t].m].status = "UNUSED"
  /\ Return(t)
  /\ UNCHANGED <<tables, state, wake, held, foreign>>

\* Mutant: takes the mutex without looking at its status again.
lockFreeUnchecked(t) ==
  /\ At(t, "lock") /\ mtLock = NULL
  /\ mutex' = [mutex EXCEPT ![arg[t].m].status = "LOCKED", ![arg[t].m].tid = threadId[t]]
  /\ held' = [held EXCEPT ![t] = @ \cup {arg[t].m}]
  /\ Return(t)
  /\ UNCHANGED <<cond, mtLock, ctLock, state, wake, foreign>>

lockFree(t) ==
  /\ At(t, "lock") /\ mtLock = NULL /\ mutex[arg[t].m].status = "UNLOCKED"
  /\ mutex' = [mutex EXCEPT ![arg[t].m].status = "LOCKED", ![arg[t].m].tid = threadId[t]]
  /\ held' = [held EXCEPT ![t] = @ \cup {arg[t].m}]
  /\ Return(t)
  /\ UNCHANGED <<cond, mtLock, ctLock, state, wake, foreign>>

lockQueue(t) ==
  LET m == arg[t].m
      tid == threadId[t]
  IN /\ At(t, "lock") /\ mtLock = NULL /\ mutex[m].status = "LOCKED"
     /\ ~isInQueueSpins(mutex[m], tid)
     /\ mutex' = IF isInQueue(mutex[m], tid) THEN mutex ELSE enqueue(mutex, m, tid)
     /\ Goto(t, "block")
     /\ UNCHANGED <<cond, mtLock, ctLock, state, arg, wake, held, foreign>>

\* isInQueue does not return, and mtable.lock is not released any more.
lockSpin(t) ==
  /\ At(t, "lock") /\ mtLock = NULL /\ mutex[arg[t].m].status = "LOCKED"
  /\ isInQueueSpins(mutex[arg[t].m], threadId[t])
  /\ mtLock' = t
  /\ Goto(t, "spin")
  /\ UNCHANGED <<mutex, cond, ctLock, state, arg, wake, held, foreign>>

\* acquire(&ptable.lock); proc->state = BLOCKING; sched()
lockBlock(t) ==
  /\ At(t, "block")
  /\ state' = [state EXCEPT ![t] = "BLOCKING"]
  /\ Goto(t, "blocked")
  /\ UNCHANGED <<tables, arg, wake, held, foreign>>

\* Back from sched: take and release mtable.lock, and try again.
lockRetry(t) ==
  /\ At(t, "blocked") /\ mtLock = NULL
  /\ Goto(t, "lock")
  /\ UNCHANGED <<tables, state, arg, wake, held, foreign>>

\* kthread_mutex_unlock.
kthread_mutex_unlock(t, m) ==
  /\ CallM(t, "unlock", m) /\ InBound(mutex[m])
  /\ UNCHANGED <<tables, state, wake, held, foreign>>

unlockOwns(t) == /\ threadId[t] = mutex[arg[t].m].tid
                 /\ mutex[arg[t].m].status = "LOCKED"

\* The part under mtable.lock, up to acquire(&ptable.lock), whether a thread
\* called it or kthread_cond_wait did.
unlockTake(t, l, next) ==
  /\ At(t, l) /\ mtLock = NULL /\ unlockOwns(t)
  /\ LET m == arg[t].m
         head == mutex[m].sleepingTID[mutex[m].startIndex]
         q == IF head # 0 THEN dequeue(mutex[m]) ELSE mutex[m]
     IN /\ mutex' = [mutex EXCEPT ![m] = [q EXCEPT !.status = "UNLOCKED", !.tid = 0]]
        /\ wake' = [wake EXCEPT ![t] = head]
        /\ held' = [held EXCEPT ![t] = @ \ {m}]
        /\ foreign' = IF m \in held[t] THEN foreign ELSE foreign \cup {<<m, t>>}
  /\ mtLock' = t
  /\ Goto(t, next)
  /\ UNCHANGED <<cond, ctLock, state, arg>>

unlock(t) == unlockTake(t, "unlock", "unlockWake")

unlockFail(t) ==
  /\ At(t, "unlock") /\ mtLock = NULL /\ ~unlockOwns(t)
  /\ Return(t)
  /\ UNCHANGED <<tables, state, wake, held, foreign>>

\* The scan under ptable.lock; then both locks are released.
unlockWake(t) ==
  /\ At(t, "unlockWake")
  /\ wakeTid(wake[t]) /\ wake' = [wake EXCEPT ![t] = 0]
  /\ mtLock' = NULL
  /\ Return(t)
  /\ UNCHANGED <<mutex, cond, ctLock, held, foreign>>

-----------------------------------------------------------------------------
(* Condition variables. *)

kthread_cond_alloc(t) ==
  /\ At(t, "user") /\ ctLock = NULL
  /\ \/ \E c \in Cond :
          /\ cond[c].status = "UNUSED" /\ \A d \in 0..(c-1) : cond[d].status # "UNUSED"
          /\ cond' = [cond EXCEPT ![c] = NewCond]
     \/ (\A c \in Cond : cond[c].status # "UNUSED") /\ UNCHANGED cond
  /\ UNCHANGED <<mutex, mtLock, ctLock, state, pc, arg, wake, held, foreign>>

kthread_cond_dealloc(t, c) ==
  /\ At(t, "user") /\ ctLock = NULL
  /\ cond' = [cond EXCEPT ![c].status = "UNUSED"]
  /\ UNCHANGED <<mutex, mtLock, ctLock, state, pc, arg, wake, held, foreign>>

\* acquire(&ctable.lock) and the enqueue, up to the call of unlock.  (On an
\* UNUSED cond, and in signal on an empty one, the call only returns.)  signal
\* tests count, so that this queue has no negative index.
kthread_cond_wait(t, c, m) ==
  /\ At(t, "user") /\ ctLock = NULL
  /\ cond[c].status = "USED" /\ InBound(cond[c]) /\ InBound(mutex[m])
  /\ cond' = [cond EXCEPT ![c].sleepingTID[destinationIndex(cond[c])] = threadId[t],
                          ![c].count = @ + 1, ![c].waitingMutexID = m]
  /\ ctLock' = t
  /\ Goto(t, "waitUnlock") /\ arg' = [arg EXCEPT ![t] = [m |-> m, c |-> c]]
  /\ UNCHANGED <<mutex, mtLock, state, wake, held, foreign>>

waitUnlock(t) == unlockTake(t, "waitUnlock", "waitWake")

waitUnlockFail(t) ==
  /\ At(t, "waitUnlock") /\ mtLock = NULL /\ ~unlockOwns(t)
  /\ ctLock' = NULL
  /\ Goto(t, "waitBlock")
  /\ UNCHANGED <<mutex, cond, mtLock, state, arg, wake, held, foreign>>

\* The end of unlock, and release(&ctable.lock).
waitWake(t) ==
  /\ At(t, "waitWake")
  /\ wakeTid(wake[t]) /\ wake' = [wake EXCEPT ![t] = 0]
  /\ mtLock' = NULL /\ ctLock' = NULL
  /\ Goto(t, "waitBlock")
  /\ UNCHANGED <<mutex, cond, arg, held, foreign>>

waitBlock(t) ==
  /\ At(t, "waitBlock")
  /\ state' = [state EXCEPT ![t] = "BLOCKING"]
  /\ Goto(t, "waiting")
  /\ UNCHANGED <<tables, arg, wake, held, foreign>>

\* kthread_cond_wait returns 0: the caller takes it that it has the mutex.
waitReturn(t) ==
  /\ At(t, "waiting")
  /\ held' = [held EXCEPT ![t] = @ \cup {arg[t].m}]
  /\ Return(t)
  /\ UNCHANGED <<tables, state, wake, foreign>>

kthread_cond_signal(t, c) ==
  /\ At(t, "user") /\ ctLock = NULL /\ cond[c].count # 0
  /\ wake' = [wake EXCEPT ![t] = cond[c].sleepingTID[cond[c].startIndex]]
  /\ cond' = [cond EXCEPT ![c] = dequeue(@)]
  /\ ctLock' = t
  /\ Goto(t, "signalGive") /\ arg' = [arg EXCEPT ![t].c = c]
  /\ UNCHANGED <<mutex, mtLock, state, held, foreign>>

\* "give him the lock"
signalGive(t) ==
  /\ At(t, "signalGive") /\ mtLock = NULL
  /\ mutex' = [mutex EXCEPT ![cond[arg[t].c].waitingMutexID].tid = wake[t]]
  /\ Goto(t, "signalWake")
  /\ UNCHANGED <<cond, mtLock, ctLock, state, arg, wake, held, foreign>>

\* Mutant: forgets to release ctable.lock.
signalWakeKeeps(t) ==
  /\ At(t, "signalWake")
  /\ wakeTid(wake[t]) /\ wake' = [wake EXCEPT ![t] = 0]
  /\ Return(t)
  /\ UNCHANGED <<mutex, cond, mtLock, ctLock, held, foreign>>

\* "wake him up"
signalWake(t) ==
  /\ At(t, "signalWake")
  /\ wakeTid(wake[t]) /\ wake' = [wake EXCEPT ![t] = 0]
  /\ ctLock' = NULL
  /\ Return(t)
  /\ UNCHANGED <<mutex, cond, mtLock, held, foreign>>

-----------------------------------------------------------------------------
MutexCall(t) == \/ kthread_mutex_alloc(t)
                \/ \E m \in Mutex : \/ kthread_mutex_dealloc(t, m) \/ kthread_mutex_lock(t, m)
                                    \/ kthread_mutex_unlock(t, m)
MutexStep(t) == \/ lockUnused(t) \/ lockFree(t) \/ lockQueue(t) \/ lockSpin(t) \/ lockBlock(t)
                \/ lockRetry(t)
                \/ unlock(t) \/ unlockFail(t) \/ unlockWake(t)
CondCall(t)  == \/ kthread_cond_alloc(t)
                \/ \E c \in Cond : \/ kthread_cond_dealloc(t, c) \/ kthread_cond_signal(t, c)
                                   \/ \E m \in Mutex : kthread_cond_wait(t, c, m)
CondStep(t)  == \/ waitUnlock(t) \/ waitUnlockFail(t) \/ waitWake(t) \/ waitBlock(t)
                \/ waitReturn(t) \/ signalGive(t) \/ signalWake(t)

\* The threads use mutexes only.
MutexNext == \E t \in Thread : MutexCall(t) \/ MutexStep(t)
MutexSpec == Init /\ [][MutexNext]_vars

\* The threads use both packages.
Next == \E t \in Thread : MutexCall(t) \/ MutexStep(t) \/ CondCall(t) \/ CondStep(t)
Spec == Init /\ [][Next]_vars

\* As Next, for threads that wait on a cond only while they hold the mutex.
WaitHeldNext ==
  \E t \in Thread :
    \/ MutexCall(t) \/ MutexStep(t) \/ CondStep(t) \/ kthread_cond_alloc(t)
    \/ \E c \in Cond : \/ kthread_cond_signal(t, c)
                       \/ \E m \in held[t] : kthread_cond_wait(t, c, m)
WaitHeldSpec == Init /\ [][WaitHeldNext]_vars
-----------------------------------------------------------------------------
(* Properties. *)

Tid == {threadId[t] : t \in Thread}
Tids == [Index -> Tid \cup {0}]
PcLabels == {"user", "lock", "spin", "block", "blocked", "unlock", "unlockWake", "waitUnlock",
             "waitWake", "waitBlock", "waiting", "signalGive", "signalWake"}

TypeOK ==
  /\ mutex \in [Mutex -> [tid : Tid \cup {0}, sleepingTID : Tids,
                          status : {"UNUSED", "UNLOCKED", "LOCKED"},
                          count : Int, startIndex : Index]]
  /\ cond \in [Cond -> [status : {"UNUSED", "USED"}, sleepingTID : Tids, count : Int,
                        startIndex : Index, waitingMutexID : Mutex]]
  /\ mtLock \in Thread \cup {NULL} /\ ctLock \in Thread \cup {NULL}
  /\ state \in [Thread -> {"RUNNABLE", "BLOCKING"}]
  /\ pc \in [Thread -> PcLabels]
  /\ arg \in [Thread -> [m : Mutex, c : Cond \cup {0}]]
  /\ wake \in [Thread -> Tid \cup {0}]
  /\ held \in [Thread -> SUBSET Mutex] /\ foreign \subseteq Mutex \X Thread

\* Another thread than the one that held it has unlocked m, under the id that
\* it shares with a third or with the holder.
Usurped(m) == \E t, u \in Thread : <<m, t>> \in foreign /\ t # u /\ threadId[t] = threadId[u]

\* Two threads hold a mutex only after a thread that did not hold it has
\* unlocked it, and that thread shares its id with another.  Threads whose ids
\* all differ exclude each other, however isInQueue, the queue (negative indices
\* included, one of which is that of mutex->tid) and the wakeups behave, as a
\* woken thread contends again.  With the main threads of two processes, which
\* both have the id -1, a mutex may be held twice.
MutualExclusion ==
  \A m \in Mutex, t, u \in Thread : m \in held[t] \cap held[u] => t = u \/ Usurped(m)

\* The thread is inside kthread_mutex_lock.
Locking(t, m) == pc[t] \in {"lock", "spin", "block", "blocked"} /\ arg[t].m = m

\* A LOCKED mutex has a holder, and its tid, by which unlock decides, is that of
\* a holder, or the queue has overwritten it with that of a thread that is still
\* waiting for the mutex.  A held mutex is LOCKED, and so neither freed by dealloc
\* nor locked by another, unless a thread with a shared id has unlocked it.
LockedByOwner ==
  \A m \in Mutex :
    /\ mutex[m].status = "LOCKED" =>
         \E t \in Thread : /\ m \in held[t]
                           /\ \E u \in Thread : /\ mutex[m].tid = threadId[u]
                                                 /\ (u = t \/ Locking(u, m))
    /\ \A t \in Thread : m \in held[t] => mutex[m].status = "LOCKED" \/ Usurped(m)

\* A thread that holds mtable.lock or ctable.lock is RUNNABLE and inside unlock
\* or signal, or in isInQueue for ever, and ctable.lock is never acquired with
\* mtable.lock held: no spin lock is ever waited for by its holder, or kept by a
\* BLOCKING thread.  (ptable.lock comes last: it is taken and released in one
\* step.)
LockOrder ==
  \A t \in Thread :
    /\ mtLock = t => \/ At(t, "unlockWake") \/ At(t, "spin")
                     \/ At(t, "waitWake") /\ ctLock = t
    /\ ctLock = t => \E l \in {"waitUnlock", "waitWake", "signalGive", "signalWake"} : At(t, l)

\* The thread is in the part of the queue that unlock takes threads from.
Queued(q, tid) ==
  \E k \in 0..(q.count - 1) : q.sleepingTID[(q.startIndex + k) % MAX_THREADS] = tid

\* A thread BLOCKING for a mutex is in its queue, or an unlock that has taken it
\* out ("%d, should wake up") is about to wake it.
NoStrandedThread ==
  \A t \in Thread : pc[t] = "blocked" /\ state[t] = "BLOCKING" =>
    \/ Queued(mutex[arg[t].m], threadId[t])
    \/ \E u \in Thread : pc[u] \in {"unlockWake", "waitWake"} /\ wake[u] = threadId[t]

\* isInQueue: "return 1 if threadID is in queue, 0 otherwise".
IsInQueueExact ==
  \A m \in Mutex, t \in Thread :
    isInQueue(mutex[m], threadId[t]) <=> Queued(mutex[m], threadId[t])

\* "give him the lock": a signalled thread has the mutex when cond_wait returns.
SignalGivesLock ==
  \A t \in Thread : At(t, "waiting") =>
    mutex[arg[t].m].status = "LOCKED" /\ mutex[arg[t].m].tid = threadId[t]
=============================================================================
