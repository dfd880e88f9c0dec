---------------------------- MODULE KSyncProofs ----------------------------
(***************************************************************************)
(* Mutual exclusion of the kthread mutexes, for any number of threads with *)
(* any ids, mutexes and queue slots.  TypeOK, LockedByOwner and            *)
(* MutualExclusion together are inductive.  A step tells its thread        *)
(* nothing (Quiet), locks a mutex (Takes) or unlocks one (Gives).  Then    *)
(* the order of the spin locks, for threads that also use conds.           *)
(***************************************************************************)
EXTENDS KSync, TLAPS

\* Zenon is the prover of what follows; the steps that need arithmetic,
\* records or sequences name SMT.
USE Zenon, ZenonT(30)

Queue == [tid : Tid \cup {0}, sleepingTID : Tids, status : {"UNUSED", "UNLOCKED", "LOCKED"},
          count : Int, startIndex : Index]

\* What threadId returns is an id.
LEMMA TidFacts == \A t \in Thread : threadId[t] \in Tid
BY DEF Tid

\* An index reduced modulo MAX_THREADS, as the queue code does, is in range.
LEMMA ModIndex == \A a \in Int : a % MAX_THREADS \in Index
BY SMT, SMTT(30), KSyncAssumption DEF Index

\* dequeue keeps the type of a queue.
LEMMA DequeueType ==
  ASSUME NEW q \in Queue
  PROVE  dequeue(q) \in Queue
<1>1. q.count - 1 \in Int /\ (q.startIndex + 1) % MAX_THREADS \in Index
  BY SMT, SMTT(30), ModIndex DEF Queue, Index
<1>2. \A a \in Int, b \in Index : [q EXCEPT !.count = a, !.startIndex = b] \in Queue
  BY Zenon DEF Queue
<1>3. dequeue(q) = [q EXCEPT !.count = q.count - 1, !.startIndex = (q.startIndex + 1) % MAX_THREADS]
  BY DEF dequeue, Queue
<1> QED BY <1>1, <1>2, <1>3, Zenon

\* So does changing the status and the owner.
LEMMA SetOwner ==
  ASSUME NEW q \in Queue, NEW s \in {"UNUSED", "UNLOCKED", "LOCKED"}, NEW x \in Tid \cup {0}
  PROVE  /\ [q EXCEPT !.status = s, !.tid = x] \in Queue
         /\ [q EXCEPT !.status = s, !.tid = x].status = s
         /\ [q EXCEPT !.status = s, !.tid = x].tid = x
BY Zenon DEF Queue

\* So does a write into the array.
LEMMA SetSlot ==
  ASSUME NEW q \in Queue, NEW a \in Tids
  PROVE  /\ [q EXCEPT !.sleepingTID = a] \in Queue
         /\ [q EXCEPT !.sleepingTID = a].status = q.status
         /\ [q EXCEPT !.sleepingTID = a].tid = q.tid
BY Zenon DEF Queue

\* Wherever the index points, a write changes no status, and no tid but that of
\* the entry it is for.
StoreFrame(a, b, m, x) ==
  /\ b \in [Mutex -> Queue]
  /\ \A n \in Mutex : /\ b[n].status = a[n].status
                      /\ (b[n].tid = a[n].tid \/ (n = m /\ b[n].tid = x))

LEMMA StoreEffect ==
  ASSUME NEW mt \in [Mutex -> Queue], NEW m \in Mutex, NEW i \in Int, NEW x \in Tid
  PROVE  StoreFrame(mt, store(mt, m, i, x), m, x)
<1>1. ASSUME NEW n \in Mutex, NEW j
      PROVE  StoreFrame(mt, [mt EXCEPT ![n].sleepingTID[j] = x], m, x)
  <2> DEFINE a == [mt[n].sleepingTID EXCEPT ![j] = x]
             q == [mt[n] EXCEPT !.sleepingTID = a]
  <2>1. a \in Tids
    BY DEF Queue, Tids
  <2>2. [mt EXCEPT ![n].sleepingTID[j] = x] = [mt EXCEPT ![n] = q]
    OBVIOUS
  <2> HIDE DEF a
  <2>3. mt[n] \in Queue
    OBVIOUS
  <2>4. q \in Queue /\ q.status = mt[n].status /\ q.tid = mt[n].tid
    BY <2>1, <2>3, SetSlot, Zenon
  <2> HIDE DEF q
  <2> QED BY <2>2, <2>4 DEF StoreFrame
<1>2. StoreFrame(mt, [mt EXCEPT ![m].tid = x], m, x)
  <2> DEFINE q == [mt[m] EXCEPT !.tid = x]
  <2>1. q \in Queue /\ q.status = mt[m].status /\ q.tid = x
    BY Zenon DEF Queue
  <2>2. [mt EXCEPT ![m].tid = x] = [mt EXCEPT ![m] = q]
    OBVIOUS
  <2> HIDE DEF q
  <2> QED BY <2>1, <2>2 DEF StoreFrame
<1>3. StoreFrame(mt, mt, m, x)
  BY DEF StoreFrame
<1>4. m > 0 => m - 1 \in Mutex
  BY SMT, SMTT(30), KSyncAssumption DEF Mutex
<1>5. CASE i >= 0
  <2>1. store(mt, m, i, x) = [mt EXCEPT ![m].sleepingTID[i] = x]
    BY SMT, SMTT(30), <1>5 DEF store
  <2>2. StoreFrame(mt, [mt EXCEPT ![m].sleepingTID[i] = x], m, x)
    BY <1>1
  <2> QED BY <2>1, <2>2
<1>6. CASE i = -1
  <2>1. store(mt, m, i, x) = [mt EXCEPT ![m].tid = x]
    BY SMT, SMTT(30), <1>6 DEF store
  <2> QED BY <2>1, <1>2
<1>7. CASE i < -1 /\ m > 0
  <2>1. store(mt, m, i, x) = [mt EXCEPT ![m - 1].sleepingTID[MAX_THREADS + 4 + i] = x]
    BY SMT, SMTT(30), <1>7 DEF store
  <2>2. StoreFrame(mt, [mt EXCEPT ![m - 1].sleepingTID[MAX_THREADS + 4 + i] = x], m, x)
    BY <1>1, <1>4, <1>7
  <2> QED BY <2>1, <2>2
<1>8. CASE i < -1 /\ m = 0
  <2>1. store(mt, m, i, x) = mt
    BY SMT, SMTT(30), <1>8 DEF store
  <2> QED BY <2>1, <1>3
<1> QED BY SMT, SMTT(30), <1>5, <1>6, <1>7, <1>8, KSyncAssumption DEF Mutex

\* A thread entering itself in a queue changes a tid to its own, if at all.
LEMMA EnqueueEffect ==
  ASSUME NEW mt \in [Mutex -> Queue], NEW m \in Mutex, NEW x \in Tid
  PROVE  StoreFrame(mt, enqueue(mt, m, x), m, x)
<1> DEFINE i == destinationIndex(mt[m])
           b == store(mt, m, i, x)
           c == b[m].count + 1
           q == [b[m] EXCEPT !.count = c]
<1>1. i \in Int
  <2>1. mt[m].startIndex \in Int /\ mt[m].count \in Int
    BY SMT, SMTT(30) DEF Queue, Index
  <2> QED BY SMT, SMTT(30), <2>1, KSyncAssumption DEF destinationIndex, rem
<1>2. enqueue(mt, m, x) = [b EXCEPT ![m].count = @ + 1]
  BY DEF enqueue
<1> HIDE DEF i
<1>3. StoreFrame(mt, b, m, x)
  BY <1>1, StoreEffect
<1> HIDE DEF b
<1>4. b \in [Mutex -> Queue] /\ b[m] \in Queue
  BY <1>3 DEF StoreFrame
<1>5. c \in Int
  BY SMT, SMTT(30), <1>4 DEF Queue
<1>6. [b EXCEPT ![m].count = @ + 1] = [b EXCEPT ![m] = q]
  BY <1>4
<1> HIDE DEF c
<1>7. q \in Queue /\ q.status = b[m].status /\ q.tid = b[m].tid
  BY <1>4, <1>5, Zenon DEF Queue
<1> HIDE DEF q
<1>8. StoreFrame(mt, [b EXCEPT ![m] = q], m, x)
  <2>1. [b EXCEPT ![m] = q] \in [Mutex -> Queue]
    BY <1>4, <1>7
  <2>2. ASSUME NEW n \in Mutex
        PROVE  [b EXCEPT ![m] = q][n] = IF n = m THEN q ELSE b[n]
    BY <1>4
  <2> QED BY <2>1, <2>2, <1>3, <1>7 DEF StoreFrame
<1> QED BY <1>2, <1>6, <1>8

-----------------------------------------------------------------------------
\* A step of t moves nobody else.
LEMMA OwnPlace ==
  ASSUME TypeOK, NEW t \in Thread, MutexCall(t) \/ MutexStep(t), NEW u \in Thread \ {t}
  PROVE  pc'[u] = pc[u] /\ arg'[u] = arg[u]
<1>a. /\ pc \in [Thread -> PcLabels] /\ arg \in [Thread -> [m : Mutex, c : Cond \cup {0}]]
  BY DEF TypeOK
<1>1. \A l : [pc EXCEPT ![t] = l][u] = pc[u]
  BY <1>a
<1>2. [arg EXCEPT ![t] = NoArg][u] = arg[u] /\ \A m : [arg EXCEPT ![t].m = m][u] = arg[u]
  BY <1>a
<1> QED BY <1>1, <1>2, Zenon DEF MutexCall, MutexStep, kthread_mutex_alloc, kthread_mutex_dealloc,
     kthread_mutex_lock, kthread_mutex_unlock, lockUnused, lockFree, lockQueue, lockSpin, lockBlock,
     lockRetry, unlock, unlockTake, unlockFail, unlockWake, Goto, Return, CallM, tables

\* A thread only leaves kthread_mutex_lock when it finds the mutex not LOCKED.
LEMMA LockingKept ==
  ASSUME TypeOK, NEW t \in Thread, MutexCall(t) \/ MutexStep(t),
         NEW u \in Thread, NEW n \in Mutex, Locking(u, n)
  PROVE  \/ Locking(u, n)'
         \/ u = t /\ n = arg[t].m /\ (lockUnused(t) \/ lockFree(t))
<1>a. /\ pc \in [Thread -> PcLabels] /\ arg \in [Thread -> [m : Mutex, c : Cond \cup {0}]]
  BY DEF TypeOK
<1>1. CASE u # t
  BY <1>1, OwnPlace DEF Locking
<1>2. CASE u = t
  <2>1. \A l : [pc EXCEPT ![t] = l][t] = l
    BY <1>a
  <2>2. pc[t] \in {"lock", "spin", "block", "blocked"} /\ arg[t].m = n
    BY <1>2 DEF Locking
  <2>3. ~MutexCall(t) /\ ~unlock(t) /\ ~unlockFail(t) /\ ~unlockWake(t)
    BY <2>2 DEF MutexCall, kthread_mutex_alloc, kthread_mutex_dealloc, kthread_mutex_lock,
       kthread_mutex_unlock, CallM, unlock, unlockTake, unlockFail, unlockWake, At
  <2>4. CASE lockQueue(t) \/ lockSpin(t) \/ lockBlock(t) \/ lockRetry(t)
    BY <2>1, <2>2, <2>4, <1>2, Zenon DEF lockQueue, lockSpin, lockBlock, lockRetry, Goto, Locking
  <2> QED BY <2>2, <2>3, <2>4, <1>2 DEF MutexStep
<1> QED BY <1>1, <1>2

-----------------------------------------------------------------------------
\* How a step of thread t may change the mutexes: it is told nothing and the
\* queue may put its tid over that of the owner ...
Quiet(t) ==
  /\ held' = held /\ foreign' = foreign /\ mutex' \in [Mutex -> Queue]
  /\ \A n \in Mutex :
       /\ \/ mutex'[n].status = mutex[n].status
          \/ mutex'[n].status # "LOCKED" /\ mutex[n].status # "LOCKED"
       /\ \/ mutex'[n].tid = mutex[n].tid \/ mutex'[n].status # "LOCKED"
          \/ mutex'[n].tid = threadId[t] /\ Locking(t, n)'
       /\ mutex[n].status = "LOCKED" => \A u \in Thread : Locking(u, n) => Locking(u, n)'

\* ... or it locks m ...
Takes(t, m, q) ==
  /\ mutex' = [mutex EXCEPT ![m] = q] /\ mutex[m].status # "LOCKED"
  /\ q.status = "LOCKED" /\ q.tid = threadId[t]
  /\ held' = [held EXCEPT ![t] = @ \cup {m}] /\ foreign' = foreign
  /\ \A n \in Mutex \ {m}, u \in Thread : Locking(u, n) => Locking(u, n)'

\* ... or it unlocks m.
Gives(t, m, q) ==
  /\ mutex' = [mutex EXCEPT ![m] = q] /\ q.status # "LOCKED"
  /\ mutex[m].status = "LOCKED" /\ mutex[m].tid = threadId[t] /\ ~Locking(t, m)
  /\ held' = [held EXCEPT ![t] = @ \ {m}]
  /\ foreign' = IF m \in held[t] THEN foreign ELSE foreign \cup {<<m, t>>}
  /\ \A n \in Mutex \ {m}, u \in Thread : Locking(u, n) => Locking(u, n)'

\* LockedByOwner and MutualExclusion, of one mutex.
OwnerOf(m) ==
  \E t \in Thread : /\ m \in held[t]
                    /\ \E u \in Thread : mutex[m].tid = threadId[u] /\ (u = t \/ Locking(u, m))
Clause(m) ==
  /\ mutex[m].status = "LOCKED" => OwnerOf(m)
  /\ \A t \in Thread : m \in held[t] => mutex[m].status = "LOCKED" \/ Usurped(m)
  /\ \A t, u \in Thread : m \in held[t] /\ m \in held[u] => t = u \/ Usurped(m)

\* The two properties are inductive together with the types.
MInv == TypeOK /\ \A m \in Mutex : Clause(m)

\* A usurped mutex stays so.
LEMMA UsurpedStays ==
  ASSUME foreign \subseteq foreign', NEW m, Usurped(m)
  PROVE  Usurped(m)'
BY DEF Usurped

\* A step that tells t nothing: the owner's tid may become that of t, which waits.
LEMMA QuietKept ==
  ASSUME MInv, NEW t \in Thread, Quiet(t)
  PROVE  \A n \in Mutex : Clause(n)'
<1>1. \A m \in Mutex : Clause(m)
  BY DEF MInv
<1>2. ASSUME NEW m \in Mutex PROVE Clause(m)'
  <2>1. Usurped(m)' <=> Usurped(m)
    BY DEF Usurped, Quiet
  <2>2. ASSUME mutex'[m].status = "LOCKED" PROVE OwnerOf(m)'
    <3>1. mutex[m].status = "LOCKED"
      BY <2>2 DEF Quiet
    <3>2. PICK h \in Thread, u \in Thread :
            m \in held[h] /\ mutex[m].tid = threadId[u] /\ (u = h \/ Locking(u, m))
      BY <1>1, <3>1 DEF Clause, OwnerOf
    <3>3. m \in held'[h] /\ (Locking(u, m) => Locking(u, m)')
      BY <3>1, <3>2 DEF Quiet
    <3>4. CASE mutex'[m].tid = mutex[m].tid
      BY <3>2, <3>3, <3>4 DEF OwnerOf
    <3>5. CASE mutex'[m].tid = threadId[t] /\ Locking(t, m)'
      BY <3>2, <3>3, <3>5 DEF OwnerOf
    <3> QED BY <2>2, <3>4, <3>5 DEF Quiet
  <2>3. \A u \in Thread : m \in held'[u] => mutex'[m].status = "LOCKED" \/ Usurped(m)'
    BY <1>1, <2>1 DEF Clause, Quiet
  <2>4. \A u, v \in Thread : m \in held'[u] /\ m \in held'[v] => u = v \/ Usurped(m)'
    BY <1>1, <2>1 DEF Clause, Quiet
  <2> QED BY <2>2, <2>3, <2>4 DEF Clause
<1> QED BY <1>2

\* A step that locks m: another holder has been usurped, as m was not LOCKED.
LEMMA TakesKept ==
  ASSUME MInv, NEW t \in Thread, NEW m \in Mutex, NEW q \in Queue, Takes(t, m, q)
  PROVE  \A n \in Mutex : Clause(n)'
<1>a. mutex \in [Mutex -> Queue] /\ held \in [Thread -> SUBSET Mutex]
  BY DEF MInv, TypeOK, Queue
<1>1. \A n \in Mutex : Clause(n)
  BY DEF MInv
<1>2. ASSUME NEW n \in Mutex PROVE Clause(n)'
  <2>1. Usurped(n)' <=> Usurped(n)
    BY DEF Usurped, Takes
  <2>2. CASE n # m
    <3>1. mutex'[n] = mutex[n] /\ \A u \in Thread : n \in held'[u] <=> n \in held[u]
      BY <2>2, <1>a DEF Takes
    <3>2. \A u \in Thread : Locking(u, n) => Locking(u, n)'
      BY <2>2 DEF Takes
    <3>3. OwnerOf(n) => OwnerOf(n)'
      BY <3>1, <3>2 DEF OwnerOf
    <3> QED BY <3>1, <3>3, <2>1, <1>1 DEF Clause
  <2>3. CASE n = m
    <3>1. mutex'[m] = q /\ q.status = "LOCKED" /\ q.tid = threadId[t]
      BY <1>a DEF Takes
    <3>2. \A u \in Thread : m \in held'[u] <=> u = t \/ m \in held[u]
      BY <1>a DEF Takes
    <3>3. \A u \in Thread : m \in held[u] => Usurped(m)
      BY <1>1 DEF Clause, Takes
    <3>4. OwnerOf(m)'
      BY <3>1, <3>2 DEF OwnerOf
    <3> QED BY <2>1, <2>3, <3>1, <3>2, <3>3, <3>4 DEF Clause
  <2> QED BY <2>2, <2>3
<1> QED BY <1>2

\* A step that unlocks m.  When t does not hold m, the owner's tid is that of a
\* holder or of a waiting thread: either way not t itself, but a thread with the
\* id of t.
LEMMA GivesKept ==
  ASSUME MInv, NEW t \in Thread, NEW m \in Mutex, NEW q \in Queue, Gives(t, m, q)
  PROVE  \A n \in Mutex : Clause(n)'
<1>a. mutex \in [Mutex -> Queue] /\ held \in [Thread -> SUBSET Mutex]
  BY DEF MInv, TypeOK, Queue
<1>b. foreign \subseteq foreign'
  BY DEF Gives
<1>1. \A n \in Mutex : Clause(n)
  BY DEF MInv
<1>2. ASSUME NEW n \in Mutex, n # m PROVE Clause(n)'
  <2>1. mutex'[n] = mutex[n] /\ \A u \in Thread : n \in held'[u] <=> n \in held[u]
    BY <1>2, <1>a DEF Gives
  <2>2. \A u \in Thread : Locking(u, n) => Locking(u, n)'
    BY <1>2 DEF Gives
  <2>3. OwnerOf(n) => OwnerOf(n)'
    BY <2>1, <2>2 DEF OwnerOf
  <2>4. Usurped(n) => Usurped(n)'
    BY <1>b, UsurpedStays
  <2> QED BY <2>1, <2>3, <2>4, <1>1 DEF Clause
<1>3. Clause(m)'
  <2>1. mutex'[m] = q /\ q.status # "LOCKED"
    BY <1>a DEF Gives
  <2>2. \A u \in Thread : m \in held'[u] <=> u # t /\ m \in held[u]
    BY <1>a DEF Gives
  <2>3. Usurped(m) => Usurped(m)'
    BY <1>b, UsurpedStays
  <2>4. ASSUME NEW u \in Thread, m \in held'[u] PROVE Usurped(m)'
    <3>1. u # t /\ m \in held[u]
      BY <2>2, <2>4
    <3>2. CASE m \in held[t]
      BY <3>1, <3>2, <2>3, <1>1 DEF Clause
    <3>3. CASE m \notin held[t]
      <4>1. PICK h \in Thread, v \in Thread :
              m \in held[h] /\ mutex[m].tid = threadId[v] /\ (v = h \/ Locking(v, m))
        BY <1>1 DEF Clause, OwnerOf, Gives
      <4>2. v # t /\ threadId[v] = threadId[t]
        BY <4>1, <3>3 DEF Gives
      <4>3. <<m, t>> \in foreign'
        BY <3>3 DEF Gives
      <4> QED BY <4>2, <4>3 DEF Usurped
    <3> QED BY <3>2, <3>3
  <2> QED BY <2>1, <2>4 DEF Clause
<1> QED BY <1>2, <1>3

\* A step that leaves the mutexes and what is held alone is quiet.
LEMMA StillQuiet ==
  ASSUME TypeOK, NEW t \in Thread, MutexCall(t) \/ MutexStep(t), ~lockFree(t),
         mutex' = mutex, held' = held, foreign' = foreign
  PROVE  Quiet(t)
<1>1. mutex' \in [Mutex -> Queue]
  BY DEF TypeOK, Queue
<1>2. \A n \in Mutex, u \in Thread :
        mutex[n].status = "LOCKED" /\ Locking(u, n) => Locking(u, n)'
  BY LockingKept DEF lockUnused
<1> QED BY <1>1, <1>2 DEF Quiet

\* Every step of the mutex package is one of the three.
LEMMA MutexStepChange ==
  ASSUME MInv, NEW t \in Thread, MutexCall(t) \/ MutexStep(t)
  PROVE  Quiet(t) \/ \E m \in Mutex, q \in Queue : Takes(t, m, q) \/ Gives(t, m, q)
<1>a. /\ mutex \in [Mutex -> Queue] /\ held \in [Thread -> SUBSET Mutex] /\ arg[t].m \in Mutex
      /\ pc \in [Thread -> PcLabels] /\ arg \in [Thread -> [m : Mutex, c : Cond \cup {0}]]
      /\ TypeOK
  BY DEF MInv, TypeOK, Queue
<1>b. ASSUME NEW m \in Mutex, ~lockUnused(t), lockFree(t) => arg[t].m = m
      PROVE  \A n \in Mutex \ {m}, u \in Thread : Locking(u, n) => Locking(u, n)'
  BY <1>a, <1>b, LockingKept
<1> USE DEF CallM, tables
<1>1. CASE kthread_mutex_alloc(t)
  <2>1. CASE mutex' = mutex
    BY <2>1, <1>1, <1>a, StillQuiet DEF kthread_mutex_alloc, lockFree, At
  <2>2. ASSUME NEW m \in Mutex, mutex[m].status = "UNUSED",
               mutex' = [mutex EXCEPT ![m] = NewMutex]
        PROVE  Quiet(t)
    <3>1. NewMutex \in Queue /\ NewMutex.status = "UNLOCKED"
      BY SMT, SMTT(30), KSyncAssumption DEF NewMutex, Queue, NoTid, Tids, Index
    <3>2. ~lockUnused(t) /\ ~lockFree(t)
      BY <1>1 DEF kthread_mutex_alloc, lockUnused, lockFree, At
    <3>3. \A n \in Mutex, u \in Thread : Locking(u, n) => Locking(u, n)'
      BY <1>a, <3>2, LockingKept
    <3>4. mutex' \in [Mutex -> Queue] /\ mutex'[m] = NewMutex /\ \A n \in Mutex \ {m} : mutex'[n] = mutex[n]
      BY <2>2, <3>1, <1>a
    <3>5. held' = held /\ foreign' = foreign
      BY <1>1 DEF kthread_mutex_alloc
    <3> HIDE DEF NewMutex
    <3> QED BY <2>2, <3>1, <3>3, <3>4, <3>5 DEF Quiet
  <2> QED BY <2>1, <2>2, <1>1 DEF kthread_mutex_alloc
<1>2. ASSUME NEW m \in Mutex, kthread_mutex_dealloc(t, m)
      PROVE  Quiet(t)
  <2> DEFINE q == [mutex[m] EXCEPT !.status = IF @ = "UNLOCKED" THEN "UNUSED" ELSE @]
  <2>1. mutex' = [mutex EXCEPT ![m] = q] /\ held' = held /\ foreign' = foreign
    BY <1>2, <1>a DEF kthread_mutex_dealloc
  <2>2. q \in Queue /\ q.tid = mutex[m].tid
    BY <1>a DEF Queue
  <2>3. q.status = mutex[m].status \/ (mutex[m].status # "LOCKED" /\ q.status # "LOCKED")
    BY <1>a DEF Queue
  <2>4. ~lockUnused(t) /\ ~lockFree(t)
    BY <1>2 DEF kthread_mutex_dealloc, lockUnused, lockFree, At
  <2>5. \A n \in Mutex, u \in Thread : Locking(u, n) => Locking(u, n)'
    BY <1>a, <2>4, LockingKept
  <2> HIDE DEF q
  <2>6. mutex' \in [Mutex -> Queue] /\ mutex'[m] = q /\ \A n \in Mutex \ {m} : mutex'[n] = mutex[n]
    BY <2>1, <2>2, <1>a
  <2> QED BY <2>1, <2>2, <2>3, <2>5, <2>6 DEF Quiet
<1>3. CASE \/ \E m \in Mutex : kthread_mutex_lock(t, m) \/ kthread_mutex_unlock(t, m)
           \/ lockUnused(t) \/ lockSpin(t) \/ lockBlock(t) \/ lockRetry(t) \/ unlockFail(t) \/ unlockWake(t)
  <2>1. mutex' = mutex /\ held' = held /\ foreign' = foreign
    BY <1>3, Zenon DEF kthread_mutex_lock, kthread_mutex_unlock, lockUnused, lockSpin, lockBlock, lockRetry,
       unlockFail, unlockWake
  <2>2. ~lockFree(t)
    BY <1>3, Zenon DEF kthread_mutex_lock, kthread_mutex_unlock, lockUnused, lockSpin, lockBlock, lockRetry,
       unlockFail, unlockWake, lockFree, At
  <2> QED BY <2>1, <2>2, <1>a, StillQuiet
<1>4. CASE lockFree(t)
  <2> DEFINE m == arg[t].m
             r == mutex[m]
             x == threadId[t]
             q == [r EXCEPT !.status = "LOCKED", !.tid = x]
  <2>1. /\ mutex' = [mutex EXCEPT ![m] = q] /\ held' = [held EXCEPT ![t] = @ \cup {m}]
        /\ foreign' = foreign
    BY <1>4, <1>a, Zenon DEF lockFree
  <2>2. q \in Queue /\ q.status = "LOCKED" /\ q.tid = threadId[t]
    <3>1. r \in Queue /\ x \in Tid \cup {0}
      BY <1>a, TidFacts
    <3> HIDE DEF r, x
    <3>2. q \in Queue /\ q.status = "LOCKED" /\ q.tid = x
      BY <3>1, SetOwner, Zenon
    <3> QED BY <3>2 DEF x
  <2>3. m \in Mutex /\ mutex[m].status # "LOCKED" /\ ~lockUnused(t)
    BY <1>4, <1>a DEF lockFree, lockUnused
  <2>4. \A n \in Mutex \ {m}, u \in Thread : Locking(u, n) => Locking(u, n)'
    BY <1>b, <2>3
  <2> HIDE DEF m, q
  <2> QED BY <2>1, <2>2, <2>3, <2>4, Zenon DEF Takes
<1>5. CASE lockQueue(t)
  <2> DEFINE x == threadId[t]
  <2>m. PICK m \in Mutex : m = arg[t].m
    BY <1>a
  <2>1. /\ mutex' = mutex \/ mutex' = enqueue(mutex, m, x)
        /\ held' = held /\ foreign' = foreign
    BY <1>5, <2>m DEF lockQueue
  <2>2. ~lockUnused(t) /\ ~lockFree(t)
    BY <1>5 DEF lockQueue, lockUnused, lockFree, At
  <2>3. CASE mutex' = mutex
    BY <2>1, <2>2, <2>3, <1>a, StillQuiet
  <2>4. CASE mutex' = enqueue(mutex, m, x)
    <3>1. StoreFrame(mutex, mutex', m, x)
      BY <2>4, <1>a, EnqueueEffect, TidFacts
    <3>2. \A n \in Mutex, u \in Thread : Locking(u, n) => Locking(u, n)'
      BY <1>a, <2>2, LockingKept
    <3>3. Locking(t, m)'
      <4>1. Locking(t, m)
        BY <1>5, <2>m DEF lockQueue, At, Locking
      <4> QED BY <4>1, <3>2
    <3> QED BY <3>1, <3>2, <3>3, <2>1 DEF StoreFrame, Quiet
  <2> QED BY <2>1, <2>3, <2>4
<1>6. CASE unlock(t)
  <2> DEFINE m == arg[t].m
             head == mutex[m].sleepingTID[mutex[m].startIndex]
             r == IF head # 0 THEN dequeue(mutex[m]) ELSE mutex[m]
             q == [r EXCEPT !.status = "UNLOCKED", !.tid = 0]
  <2>1. /\ mutex' = [mutex EXCEPT ![m] = q] /\ held' = [held EXCEPT ![t] = @ \ {m}]
        /\ foreign' = IF m \in held[t] THEN foreign ELSE foreign \cup {<<m, t>>}
        /\ m \in Mutex /\ mutex[m].tid = threadId[t] /\ mutex[m].status = "LOCKED"
    BY <1>6, <1>a, Zenon DEF unlock, unlockTake, unlockOwns
  <2>2. r \in Queue
    BY <1>a, DequeueType
  <2>3. q \in Queue /\ q.status # "LOCKED"
    <3> HIDE DEF r
    <3>1. q \in Queue /\ q.status = "UNLOCKED"
      BY <2>2, SetOwner, Zenon
    <3> QED BY <3>1
  <2>4. ~lockUnused(t) /\ ~lockFree(t) /\ ~Locking(t, m)
    BY <1>6 DEF unlock, unlockTake, lockUnused, lockFree, At, Locking
  <2>5. \A n \in Mutex \ {m}, u \in Thread : Locking(u, n) => Locking(u, n)'
    BY <1>b, <2>1, <2>4
  <2> HIDE DEF m, q
  <2> QED BY <2>1, <2>3, <2>4, <2>5, Zenon DEF Gives
<1> QED BY <1>1, <1>2, <1>3, <1>4, <1>5, <1>6 DEF MutexCall, MutexStep

\* The other variables keep their types.
LEMMA TypeStep ==
  ASSUME MInv, NEW t \in Thread, MutexCall(t) \/ MutexStep(t)
  PROVE  TypeOK'
<1>a. /\ mutex \in [Mutex -> Queue]
      /\ held \in [Thread -> SUBSET Mutex] /\ foreign \subseteq Mutex \X Thread
      /\ mtLock \in Thread \cup {NULL}
      /\ state \in [Thread -> {"RUNNABLE", "BLOCKING"}]
      /\ pc \in [Thread -> PcLabels]
      /\ arg \in [Thread -> [m : Mutex, c : Cond \cup {0}]]
      /\ wake \in [Thread -> Tid \cup {0}]
  BY DEF MInv, TypeOK, Queue
<1>1. /\ mutex' \in [Mutex -> Queue] /\ held' \in [Thread -> SUBSET Mutex]
      /\ foreign' \subseteq Mutex \X Thread
  <2>1. CASE Quiet(t)
    BY <2>1, <1>a DEF Quiet
  <2>2. ASSUME NEW m \in Mutex, NEW q \in Queue, Takes(t, m, q) \/ Gives(t, m, q)
        PROVE  /\ mutex' \in [Mutex -> Queue] /\ held' \in [Thread -> SUBSET Mutex]
               /\ foreign' \subseteq Mutex \X Thread
    <3>1. mutex' \in [Mutex -> Queue]
      BY <2>2, <1>a DEF Takes, Gives
    <3>2. held' \in [Thread -> SUBSET Mutex]
      BY SMT, SMTT(30), <2>2, <1>a DEF Takes, Gives
    <3>3. foreign' \subseteq Mutex \X Thread
      BY SMT, SMTT(30), <2>2, <1>a DEF Takes, Gives
    <3> QED BY <3>1, <3>2, <3>3
  <2> QED BY <2>1, <2>2, MutexStepChange
<1>2. cond' = cond /\ ctLock' = ctLock
  BY Zenon DEF MutexCall, MutexStep, kthread_mutex_alloc, kthread_mutex_dealloc, kthread_mutex_lock,
     kthread_mutex_unlock, lockUnused, lockFree, lockQueue, lockSpin, lockBlock, lockRetry, unlock, unlockTake,
     unlockFail, unlockWake, tables
<1>3. mtLock' \in Thread \cup {NULL}
  <2>1. mtLock' \in {mtLock, t, NULL}
    BY Zenon DEF MutexCall, MutexStep, kthread_mutex_alloc, kthread_mutex_dealloc, kthread_mutex_lock,
       kthread_mutex_unlock, lockUnused, lockFree, lockQueue, lockSpin, lockBlock, lockRetry, unlock, unlockTake,
       unlockFail, unlockWake, tables
  <2> QED BY <2>1, <1>a
<1>4. state' \in [Thread -> {"RUNNABLE", "BLOCKING"}]
  <2>1. CASE lockBlock(t)
    BY <2>1, <1>a DEF lockBlock
  <2>2. CASE unlockWake(t)
    BY <2>2, <1>a DEF unlockWake, wakeTid
  <2>3. CASE state' = state
    BY <2>3, <1>a
  <2> QED BY <2>1, <2>2, <2>3, Zenon DEF MutexCall, MutexStep, kthread_mutex_alloc, kthread_mutex_dealloc,
     kthread_mutex_lock, kthread_mutex_unlock, lockUnused, lockFree, lockQueue, lockSpin, lockRetry, unlock, unlockTake,
     unlockFail
<1>5. pc' \in [Thread -> PcLabels]
  <2>1. \A l \in PcLabels : [pc EXCEPT ![t] = l] \in [Thread -> PcLabels]
    BY <1>a
  <2>2. {"user", "lock", "spin", "block", "blocked", "unlock", "unlockWake"} \subseteq PcLabels
    BY DEF PcLabels
  <2>3. CASE MutexCall(t)
    BY SMT, SMTT(30), <2>1, <2>2, <2>3, <1>a DEF MutexCall, kthread_mutex_alloc, kthread_mutex_dealloc, kthread_mutex_lock,
       kthread_mutex_unlock, CallM, Goto
  <2>4. CASE MutexStep(t)
    BY <2>1, <2>2, <2>4, Zenon DEF MutexStep, lockUnused, lockFree, lockQueue, lockSpin, lockBlock, lockRetry, unlock, unlockTake,
       unlockFail, unlockWake, Goto, Return
  <2> QED BY <2>3, <2>4
<1>6. arg' \in [Thread -> [m : Mutex, c : Cond \cup {0}]]
  <2>1. [arg EXCEPT ![t] = NoArg] \in [Thread -> [m : Mutex, c : Cond \cup {0}]]
    <3>1. NoArg \in [m : Mutex, c : Cond \cup {0}]
      BY SMT, SMTT(30), KSyncAssumption DEF NoArg, Mutex
    <3> QED BY <3>1, <1>a
  <2>2. \A m \in Mutex : [arg EXCEPT ![t].m = m] \in [Thread -> [m : Mutex, c : Cond \cup {0}]]
    BY <1>a
  <2>3. CASE MutexCall(t)
    <3>1. ASSUME NEW m \in Mutex, kthread_mutex_lock(t, m) \/ kthread_mutex_unlock(t, m)
          PROVE  arg' \in [Thread -> [m : Mutex, c : Cond \cup {0}]]
      <4>1. arg' = [arg EXCEPT ![t].m = m]
        BY <3>1, Zenon DEF kthread_mutex_lock, kthread_mutex_unlock, CallM
      <4> QED BY <4>1, <2>2
    <3>2. ASSUME kthread_mutex_alloc(t) \/ \E m \in Mutex : kthread_mutex_dealloc(t, m)
          PROVE  arg' = arg
      BY <3>2, Zenon DEF kthread_mutex_alloc, kthread_mutex_dealloc
    <3> QED BY <2>3, <3>1, <3>2, <1>a, Zenon DEF MutexCall
  <2>4. CASE lockUnused(t) \/ lockFree(t) \/ unlockFail(t) \/ unlockWake(t)
    BY <2>1, <2>4, Zenon DEF lockUnused, lockFree, unlockFail, unlockWake, Return
  <2>5. CASE lockQueue(t) \/ lockSpin(t) \/ lockBlock(t) \/ lockRetry(t) \/ unlock(t)
    BY <2>5, <1>a, Zenon DEF lockQueue, lockSpin, lockBlock, lockRetry, unlock, unlockTake
  <2> QED BY <2>3, <2>4, <2>5 DEF MutexStep
<1>7. wake' \in [Thread -> Tid \cup {0}]
  <2>1. ASSUME NEW m \in Mutex PROVE mutex[m].sleepingTID[mutex[m].startIndex] \in Tid \cup {0}
    BY SMT, SMTT(30), <1>a DEF Queue, Tids
  <2>2. arg[t].m \in Mutex
    BY <1>a
  <2>3. CASE unlock(t)
    BY <2>1, <2>2, <2>3, <1>a DEF unlock, unlockTake
  <2>4. CASE unlockWake(t)
    BY <2>4, <1>a DEF unlockWake
  <2>5. CASE wake' = wake
    BY <2>5, <1>a
  <2> QED BY <2>3, <2>4, <2>5, Zenon DEF MutexCall, MutexStep, kthread_mutex_alloc, kthread_mutex_dealloc,
     kthread_mutex_lock, kthread_mutex_unlock, lockUnused, lockFree, lockQueue, lockSpin, lockBlock, lockRetry, unlockFail
<1> QED BY <1>1, <1>2, <1>3, <1>4, <1>5, <1>6, <1>7 DEF TypeOK, MInv, Queue

-----------------------------------------------------------------------------
\* The invariant holds at boot, when every mutex is unused.
LEMMA MInvInit == Init => MInv
<1> SUFFICES ASSUME Init PROVE MInv
  OBVIOUS
<1>1. NewMutex \in Queue /\ NoTid \in Tids /\ 0 \in Index /\ 0 \in Mutex
  BY SMT, SMTT(30), KSyncAssumption DEF NewMutex, Queue, NoTid, Tids, Index, Mutex
<1>2. [NewMutex EXCEPT !.status = "UNUSED"] \in Queue
  BY <1>1 DEF Queue
<1>3. [NewCond EXCEPT !.status = "UNUSED"]
        \in [status : {"UNUSED", "USED"}, sleepingTID : Tids, count : Int,
             startIndex : Index, waitingMutexID : Mutex]
  BY SMT, SMTT(30), <1>1 DEF NewCond
<1>4. TypeOK
  BY <1>1, <1>2, <1>3, Zenon DEF Init, TypeOK, Queue, NoArg, PcLabels
<1>5. \A m \in Mutex : mutex[m].status # "LOCKED"
  BY DEF Init, NewMutex
<1>6. \A m \in Mutex : Clause(m)
  BY <1>5 DEF Init, Clause
<1> QED BY <1>4, <1>6 DEF MInv

\* Every step of kthread_mutex_* preserves the invariant.
LEMMA MInvNext == MInv /\ [MutexNext]_vars => MInv'
<1> SUFFICES ASSUME MInv, [MutexNext]_vars PROVE MInv'
  OBVIOUS
<1>1. ASSUME NEW t \in Thread, MutexCall(t) \/ MutexStep(t) PROVE MInv'
  <2>1. \A n \in Mutex : Clause(n)'
    <3>1. CASE Quiet(t)
      BY <3>1, QuietKept
    <3>2. CASE \E m \in Mutex, q \in Queue : Takes(t, m, q) \/ Gives(t, m, q)
      BY <3>2, TakesKept, GivesKept
    <3> QED BY <1>1, <3>1, <3>2, MutexStepChange
  <2>2. TypeOK'
    BY <1>1, TypeStep
  <2> QED BY <2>1, <2>2 DEF MInv
<1>2. CASE UNCHANGED vars
  <2>1. TypeOK'
    BY <1>2 DEF vars, MInv, TypeOK
  <2>2. \A n \in Mutex : Clause(n)' <=> Clause(n)
    BY <1>2 DEF vars, Clause, OwnerOf, Usurped, Locking
  <2> QED BY <2>1, <2>2 DEF MInv
<1> QED BY <1>1, <1>2 DEF MutexNext

\* LockedByOwner: a LOCKED mutex has a holder, under whose id or that of a waiting
\* thread it is recorded, and a held one is LOCKED unless usurped.
THEOREM Ownership == MutexSpec => []LockedByOwner
<1>1. MInv => LockedByOwner
  BY DEF MInv, Clause, OwnerOf, LockedByOwner
<1> QED BY <1>1, MInvInit, MInvNext, PTL DEF MutexSpec

\* MutualExclusion: two threads hold a mutex only after one that did not hold it
\* has unlocked it under an id that it shares with another thread.
THEOREM MutexExclusion == MutexSpec => []MutualExclusion
<1>1. MInv => MutualExclusion
  BY DEF MInv, Clause, MutualExclusion
<1> QED BY <1>1, MInvInit, MInvNext, PTL DEF MutexSpec

\* Exclusive: a mutex has one holder.
Exclusive == \A m \in Mutex, t, u \in Thread : m \in held[t] \cap held[u] => t = u

\* Threads whose ids differ exclude each other, also after the queue has written
\* over the owner's tid.
THEOREM DistinctExclusion ==
  ASSUME \A t, u \in Thread : threadId[t] = threadId[u] => t = u
  PROVE  MutexSpec => []Exclusive
<1>1. MutualExclusion => Exclusive
  BY DEF MutualExclusion, Exclusive, Usurped
<1> QED BY <1>1, MutexExclusion, PTL

-----------------------------------------------------------------------------
(* The order of the spin locks, with mutexes and conds in use. *)

MtHeld == {"spin", "unlockWake", "waitWake"}
CtHeld == {"waitUnlock", "waitWake", "signalGive", "signalWake"}

\* LockOrder is not inductive: nothing in it keeps a thread at waitWake that
\* does not hold the locks from releasing those of another.  The holder of a
\* lock is exactly the thread at a label between its acquire and its release.
LockInv ==
  /\ pc \in [Thread -> PcLabels] /\ state \in [Thread -> {"RUNNABLE", "BLOCKING"}]
  /\ \A t \in Thread :
       /\ mtLock = t <=> pc[t] \in MtHeld
       /\ ctLock = t <=> pc[t] \in CtHeld
       /\ pc[t] \in MtHeld \cup CtHeld => state[t] = "RUNNABLE"

\* How a step of t that takes it to the label l may change the two locks.
LockChange(t, l) ==
  /\ At(t, pc[t]) /\ pc' = [pc EXCEPT ![t] = l]
  /\ \/ mtLock' = mtLock /\ (pc[t] \in MtHeld <=> l \in MtHeld)
     \/ mtLock = NULL /\ mtLock' = t /\ l \in MtHeld
     \/ pc[t] \in MtHeld /\ mtLock' = NULL /\ l \notin MtHeld
  /\ \/ ctLock' = ctLock /\ (pc[t] \in CtHeld <=> l \in CtHeld)
     \/ ctLock = NULL /\ ctLock' = t /\ l \in CtHeld
     \/ pc[t] \in CtHeld /\ ctLock' = NULL /\ l \notin CtHeld
  /\ \/ state' = state
     \/ state' = [state EXCEPT ![t] = "BLOCKING"] /\ l \notin MtHeld \cup CtHeld
     \/ wakeTid(wake[t])

\* Such a step keeps holders and labels together: it is the only one at its
\* labels, and a wakeup of wakeTid stops no thread.
LEMMA LockKept ==
  ASSUME LockInv, NEW t \in Thread, NEW l \in PcLabels, LockChange(t, l)
  PROVE  LockInv'
<1>a. pc \in [Thread -> PcLabels] /\ state \in [Thread -> {"RUNNABLE", "BLOCKING"}]
  BY DEF LockInv
<1>1. pc' = [pc EXCEPT ![t] = l] /\ pc' \in [Thread -> PcLabels]
  BY <1>a DEF LockChange
<1>2. state' \in [Thread -> {"RUNNABLE", "BLOCKING"}]
  BY <1>a DEF LockChange, wakeTid
<1>3. ASSUME NEW u \in Thread
      PROVE  /\ mtLock' = u <=> pc'[u] \in MtHeld
             /\ ctLock' = u <=> pc'[u] \in CtHeld
             /\ pc'[u] \in MtHeld \cup CtHeld => state'[u] = "RUNNABLE"
  <2>1. pc'[u] = IF u = t THEN l ELSE pc[u]
    BY <1>1, <1>a
  <2>2. mtLock' = u <=> pc'[u] \in MtHeld
    BY <2>1, KSyncAssumption DEF LockInv, LockChange
  <2>3. ctLock' = u <=> pc'[u] \in CtHeld
    BY <2>1, KSyncAssumption DEF LockInv, LockChange
  <2>4. pc'[u] \in MtHeld \cup CtHeld => state'[u] = "RUNNABLE"
    <3>1. state[u] = "RUNNABLE" /\ ~(u = t /\ l \notin MtHeld \cup CtHeld) => state'[u] = "RUNNABLE"
      BY <1>a DEF LockChange, wakeTid
    <3>2. state[t] = "RUNNABLE"
      BY DEF LockChange, At
    <3> QED BY <2>1, <3>1, <3>2 DEF LockInv
  <2> QED BY <2>2, <2>3, <2>4
<1> QED BY <1>1, <1>2, <1>3 DEF LockInv

\* Every step of either package is a LockChange, or changes no lock and no label.
LEMMA LockStep ==
  ASSUME LockInv, NEW t \in Thread,
         MutexCall(t) \/ MutexStep(t) \/ CondCall(t) \/ CondStep(t)
  PROVE  \/ UNCHANGED <<mtLock, ctLock, pc, state>>
         \/ \E l \in PcLabels : LockChange(t, l)
<1>a. {"user", "lock", "spin", "block", "blocked", "unlock", "unlockWake", "waitUnlock",
       "waitWake", "waitBlock", "waiting", "signalGive", "signalWake"} = PcLabels
  BY DEF PcLabels
<1> USE DEF At, Goto, MtHeld, CtHeld, tables
<1>1. CASE MutexCall(t)
  <2>1. CASE \E m \in Mutex : kthread_mutex_lock(t, m)
    <3>1. LockChange(t, "lock")
      BY <2>1 DEF LockChange, kthread_mutex_lock, CallM
    <3> QED BY <3>1, <1>a, Zenon
  <2>2. CASE \E m \in Mutex : kthread_mutex_unlock(t, m)
    <3>1. LockChange(t, "unlock")
      BY <2>2 DEF LockChange, kthread_mutex_unlock, CallM
    <3> QED BY <3>1, <1>a, Zenon
  <2>3. CASE kthread_mutex_alloc(t) \/ \E m \in Mutex : kthread_mutex_dealloc(t, m)
    BY <2>3 DEF kthread_mutex_alloc, kthread_mutex_dealloc
  <2> QED BY <1>1, <2>1, <2>2, <2>3 DEF MutexCall
<1>2. CASE MutexStep(t)
  <2>1. CASE lockUnused(t) \/ lockFree(t) \/ unlockFail(t)
    <3>1. LockChange(t, "user")
      BY <2>1 DEF LockChange, lockUnused, lockFree, unlockFail, Return
    <3> QED BY <3>1, <1>a, Zenon
  <2>2. CASE lockQueue(t)
    <3>1. LockChange(t, "block")
      BY <2>2 DEF LockChange, lockQueue
    <3> QED BY <3>1, <1>a, Zenon
  <2>3. CASE lockBlock(t)
    <3>1. LockChange(t, "blocked")
      BY <2>3 DEF LockChange, lockBlock
    <3> QED BY <3>1, <1>a, Zenon
  <2>4. CASE lockRetry(t)
    <3>1. LockChange(t, "lock")
      BY <2>4 DEF LockChange, lockRetry
    <3> QED BY <3>1, <1>a, Zenon
  <2>5. CASE unlock(t)
    <3>1. LockChange(t, "unlockWake")
      BY <2>5 DEF LockChange, unlock, unlockTake
    <3> QED BY <3>1, <1>a, Zenon
  <2>6. CASE unlockWake(t)
    <3>1. LockChange(t, "user")
      BY <2>6 DEF LockChange, unlockWake, Return
    <3> QED BY <3>1, <1>a, Zenon
  <2>7. CASE lockSpin(t)
    <3>1. LockChange(t, "spin")
      BY <2>7 DEF LockChange, lockSpin
    <3> QED BY <3>1, <1>a, Zenon
  <2> QED BY <1>2, <2>1, <2>2, <2>3, <2>4, <2>5, <2>6, <2>7 DEF MutexStep
<1>3. CASE CondCall(t)
  <2>1. ASSUME NEW c \in Cond, NEW m \in Mutex, kthread_cond_wait(t, c, m)
        PROVE  LockChange(t, "waitUnlock")
    BY <2>1 DEF LockChange, kthread_cond_wait
  <2>2. ASSUME NEW c \in Cond, kthread_cond_signal(t, c)
        PROVE  LockChange(t, "signalGive")
    BY <2>2 DEF LockChange, kthread_cond_signal
  <2>3. CASE kthread_cond_alloc(t) \/ \E c \in Cond : kthread_cond_dealloc(t, c)
    BY <2>3 DEF kthread_cond_alloc, kthread_cond_dealloc
  <2> QED BY <1>3, <1>a, <2>1, <2>2, <2>3, Zenon DEF CondCall
<1>4. CASE CondStep(t)
  <2>1. CASE waitUnlock(t)
    <3>1. LockChange(t, "waitWake")
      BY <2>1 DEF LockChange, waitUnlock, unlockTake
    <3> QED BY <3>1, <1>a, Zenon
  <2>2. CASE waitUnlockFail(t) \/ waitWake(t)
    <3>1. LockChange(t, "waitBlock")
      BY <2>2 DEF LockChange, waitUnlockFail, waitWake
    <3> QED BY <3>1, <1>a, Zenon
  <2>3. CASE waitBlock(t)
    <3>1. LockChange(t, "waiting")
      BY <2>3 DEF LockChange, waitBlock
    <3> QED BY <3>1, <1>a, Zenon
  <2>4. CASE waitReturn(t) \/ signalWake(t)
    <3>1. LockChange(t, "user")
      BY <2>4 DEF LockChange, waitReturn, signalWake, Return
    <3> QED BY <3>1, <1>a, Zenon
  <2>5. CASE signalGive(t)
    <3>1. LockChange(t, "signalWake")
      BY <2>5 DEF LockChange, signalGive
    <3> QED BY <3>1, <1>a, Zenon
  <2> QED BY <1>4, <2>1, <2>2, <2>3, <2>4, <2>5 DEF CondStep
<1> QED BY <1>1, <1>2, <1>3, <1>4

\* LockOrder: ctable.lock before mtable.lock, and no thread blocks with one of them.
THEOREM SpinLockOrder == Spec => []LockOrder
<1>1. Init => LockInv
  BY SMT, SMTT(30), KSyncAssumption DEF Init, LockInv, MtHeld, CtHeld, PcLabels
<1>2. LockInv /\ [Next]_vars => LockInv'
  <2> SUFFICES ASSUME LockInv, [Next]_vars PROVE LockInv'
    OBVIOUS
  <2>1. CASE UNCHANGED <<mtLock, ctLock, pc, state>>
    BY <2>1 DEF LockInv
  <2>2. CASE UNCHANGED vars
    BY <2>1, <2>2 DEF vars
  <2>3. CASE Next
    BY <2>1, <2>3, LockStep, LockKept DEF Next
  <2> QED BY <2>2, <2>3
<1>3. LockInv => LockOrder
  BY DEF LockInv, LockOrder, At, MtHeld, CtHeld
<1> QED BY <1>1, <1>2, <1>3, PTL DEF Spec
=============================================================================
