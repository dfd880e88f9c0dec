-------------------------- MODULE ProcTableProofs --------------------------
(***************************************************************************)
(* fork, exit, wait and kill for single-threaded processes, in a table of  *)
(* any size: parents are alive, address spaces are neither shared, leaked  *)
(* nor freed twice, and pids are unique.                                   *)
(*                                                                         *)
(* The three hold together: that kthread_exit frees no entry rests on pids *)
(* being unique, and that the address spaces stay as they are rests on it. *)
(*                                                                         *)
(* The last section is about processes with kernel threads: one thread     *)
(* alone, the last, goes on to New_exit.                                   *)
(***************************************************************************)
EXTENDS ProcTable, TLAPS

\* Zenon is the prover of what follows; the steps that need arithmetic,
\* records or sequences name SMT.
USE Zenon, ZenonT(30)

States == {"UNUSED", "EMBRYO", "SLEEPING", "RUNNABLE", "ZOMBIE"}
Labels == {"user", "fork", "forkTail", "wait", "waiting", "exit", "dead"}
Alive  == {"RUNNABLE", "SLEEPING"}

TypeInv ==
  /\ state \in [Proc -> States] /\ pc \in [Proc -> Labels]
  /\ pid \in [Proc -> Nat] /\ nextpid \in Nat \ {0}
  /\ parent \in [Proc -> Proc \cup {NULL}]
  /\ pgdir \in [Proc -> PgDir \cup {NULL}] /\ pages \subseteq PgDir
  /\ np \in [Proc -> Proc]

\* A process is in a call or in user mode exactly while it is alive; init always is.
LiveInv == /\ \A p \in Proc : pc[p] # "dead" <=> state[p] \in Alive
           /\ pc[initproc] \notin {"dead", "exit"}

\* An EMBRYO has one process that is making it.
ForkInv == /\ EmbryosMade
           /\ \A p \in Proc : pc[p] = "fork" => state[np[p]] = "EMBRYO"
           /\ \A p, q \in Proc : pc[p] = "fork" /\ pc[q] = "fork" /\ np[p] = np[q] => p = q

\* Pids have been handed out, each once; an entry in use has one.
PidInv == /\ \A p \in Proc : pid[p] < nextpid /\ (state[p] # "UNUSED" => pid[p] # 0)
          /\ PidUnique

\* ParentAlive, with the range of parent.
ParentInv == \A p \in Proc : InUse(p) /\ p # initproc => parent[p] \in Proc /\ state[parent[p]] \in Alive

PInv == TypeInv /\ LiveInv /\ ForkInv /\ PidInv /\ ParentInv /\ SpacesOwned

-----------------------------------------------------------------------------
\* initproc is an entry of the table.
LEMMA InitProc == initproc \in Proc
BY SMT, SMTT(30), ProcTableAssumption DEF initproc, Proc

\* The invariant holds after userinit.
LEMMA PInvInit == Init => PInv
<1> SUFFICES ASSUME Init PROVE PInv
  OBVIOUS
<1>1. PICK g \in PgDir : pages = {g} /\ pgdir = [p \in Proc |-> IF p = initproc THEN g ELSE NULL]
  BY DEF Init
<1>2. TypeInv
  BY SMT, SMTT(30), <1>1, InitProc DEF Init, TypeInv, States, Labels, initproc
<1>3. LiveInv /\ ForkInv
  BY InitProc DEF Init, LiveInv, ForkInv, EmbryosMade, Alive
<1>4. PidInv
  BY SMT, SMTT(30) DEF Init, PidInv, PidUnique
<1>5. \A p \in Proc : InUse(p) <=> p = initproc
  BY InitProc DEF Init, InUse
<1>6. ParentInv
  BY <1>5 DEF ParentInv
<1>7. SpacesOwned
  BY <1>1, <1>5, InitProc DEF SpacesOwned
<1> QED BY <1>2, <1>3, <1>4, <1>6, <1>7 DEF PInv

\* A step that makes, ends and frees no process, and starts no fork.
Quiet ==
  /\ state' \in [Proc -> States] /\ pc' \in [Proc -> Labels] /\ np' \in [Proc -> Proc]
  /\ \A q \in Proc : state'[q] = state[q] \/ (state[q] \in Alive /\ state'[q] \in Alive)
  /\ \A q \in Proc : pc'[q] = "dead" <=> pc[q] = "dead"
  /\ \A q \in Proc : pc'[q] = "fork" <=> pc[q] = "fork"
  /\ \A q \in Proc : pc'[q] = "fork" => np'[q] = np[q]
  /\ pc'[initproc] # "exit"
  /\ UNCHANGED <<pid, nextpid, parent, pgdir, pages>>

\* A step that makes no EMBRYO and keeps the makers of those it leaves.
LEMMA EmbryosKept ==
  ASSUME EmbryosMade,
         \A q \in Proc : state'[q] = "EMBRYO" => state[q] = "EMBRYO",
         \A q, r \in Proc : state'[q] = "EMBRYO" /\ pc[r] = "fork" /\ np[r] = q => pc'[r] = "fork" /\ np'[r] = q
  PROVE  EmbryosMade'
<1>1. ASSUME NEW q \in Proc, state'[q] = "EMBRYO"
      PROVE  \E r \in Proc : pc'[r] = "fork" /\ np'[r] = q
  <2>1. PICK r \in Proc : pc[r] = "fork" /\ np[r] = q
    BY <1>1 DEF EmbryosMade
  <2> QED BY <1>1, <2>1
<1> QED BY <1>1 DEF EmbryosMade

\* Such a step preserves the invariant.
LEMMA QuietStep ==
  ASSUME PInv, Quiet
  PROVE  PInv'
<1>a. state \in [Proc -> States] /\ pc \in [Proc -> Labels] /\ np \in [Proc -> Proc]
  BY DEF PInv, TypeInv
<1>1. TypeInv'
  BY DEF PInv, TypeInv, Quiet
<1>2. \A q \in Proc : /\ state'[q] \in Alive <=> state[q] \in Alive
                      /\ state'[q] = "UNUSED" <=> state[q] = "UNUSED"
                      /\ state[q] = "EMBRYO" <=> state'[q] = "EMBRYO"
                      /\ InUse(q)' <=> InUse(q)
  BY DEF Quiet, Alive, InUse
<1>3. LiveInv'
  BY <1>2, InitProc DEF PInv, LiveInv, Quiet
<1>4. ForkInv'
  <2>1. \A q, r \in Proc : pc[r] = "fork" /\ np[r] = q => pc'[r] = "fork" /\ np'[r] = q
    BY DEF Quiet
  <2>2. EmbryosMade'
    BY <2>1, <1>2, EmbryosKept DEF PInv, ForkInv
  <2> QED BY SMT, SMTT(30), <2>2, <1>2, <1>a DEF PInv, ForkInv, Quiet
<1>5. PidInv'
  BY <1>2 DEF PInv, PidInv, PidUnique, Quiet
<1>6. ParentInv'
  BY <1>2 DEF PInv, ParentInv, Quiet
<1>7. SpacesOwned'
  BY SMT, SMTT(30), <1>2 DEF PInv, SpacesOwned, Quiet
<1> QED BY <1>1, <1>3, <1>4, <1>5, <1>6, <1>7 DEF PInv

\* The end of fork, wait except for reaping, and kill.
LEMMA CallStep ==
  ASSUME PInv, NEW p \in Proc,
         forkTail(p) \/ wait(p) \/ waitNone(p) \/ waitSleep(p) \/ waitWoken(p) \/ KillCall(p)
  PROVE  PInv'
<1>a. state \in [Proc -> States] /\ pc \in [Proc -> Labels] /\ np \in [Proc -> Proc]
  BY DEF PInv, TypeInv
<1>b. pc[initproc] # "exit"
  BY DEF PInv, LiveInv
<1> USE DEF At, CanCall, Goto, Quiet, States, Labels, Alive
<1>1. CASE forkTail(p)
  <2>1. state' = state /\ np' = [np EXCEPT ![p] = 1] /\ 1 \in Proc /\ pc[p] = "forkTail"
        /\ pc' = [pc EXCEPT ![p] = "user"] /\ UNCHANGED <<pid, nextpid, parent, pgdir, pages>>
    BY <1>1, InitProc DEF forkTail, initproc
  <2>2. Quiet
    BY SMT, SMTT(30), <2>1, <1>a, <1>b
  <2> QED BY <2>2, QuietStep
<1>2. CASE wait(p) \/ waitNone(p)
  <2>1. \E l \in {"wait", "user"} : pc' = [pc EXCEPT ![p] = l]
    BY <1>2 DEF wait, waitNone
  <2>2. /\ UNCHANGED <<state, np, pid, nextpid, parent, pgdir, pages>> /\ pc[p] \in {"user", "wait"}
    BY <1>2 DEF wait, waitNone, entry
  <2>3. Quiet
    BY SMT, SMTT(30), <2>1, <2>2, <1>a, <1>b
  <2> QED BY <2>3, QuietStep
<1>3. CASE waitSleep(p)
  BY SMT, SMTT(30), <1>3, <1>a, <1>b, QuietStep DEF waitSleep
<1>4. CASE waitWoken(p)
  BY SMT, SMTT(30), <1>4, <1>a, <1>b, QuietStep DEF waitWoken
<1>5. CASE KillCall(p)
  BY SMT, SMTT(30), <1>5, <1>a, <1>b, QuietStep DEF KillCall, kill
<1> QED BY <1>1, <1>2, <1>3, <1>4, <1>5
\* kthread_exit of the only thread frees no entry, since no other has its pid.
LEMMA ExitStart ==
  ASSUME PInv, NEW p \in Proc, kthread_exitLast(p)
  PROVE  PInv'
<1>a. /\ state \in [Proc -> States] /\ pc \in [Proc -> Labels] /\ np \in [Proc -> Proc]
      /\ pid \in [Proc -> Nat] /\ parent \in [Proc -> Proc \cup {NULL}]
  BY DEF PInv, TypeInv
<1> DEFINE dead == {q \in Proc : state[q] = "ZOMBIE" /\ pid[q] = pid[p] /\ threadId[q] # threadId[p]}
<1>1. pc[p] = "user" /\ state[p] = "RUNNABLE" /\ p # initproc
  BY DEF kthread_exitLast, At
<1>2. dead = {}
  BY <1>1 DEF PInv, PidInv, PidUnique
<1>3. /\ state' = [q \in Proc |-> IF q \in dead THEN "UNUSED" ELSE wakeJoiners(p)[q]]
      /\ pid' = [q \in Proc |-> IF q \in dead THEN 0 ELSE pid[q]]
      /\ parent' = [q \in Proc |-> IF q \in dead THEN NULL ELSE parent[q]]
      /\ pc' = [pc EXCEPT ![p] = "exit"]
      /\ UNCHANGED <<nextpid, pgdir, pages, np>>
  BY DEF kthread_exitLast, Goto
<1> HIDE DEF dead
<1>4. pid' = pid /\ parent' = parent
  BY <1>2, <1>3, <1>a
<1>5. \A q \in Proc : state'[q] = IF /\ state[q] = "SLEEPING"
                                     /\ \E i \in Proc : /\ sleepingThreads[p][i] # NULL
                                                        /\ chan[q] = sleepingThreads[p][i]
                                  THEN "RUNNABLE" ELSE state[q]
  BY <1>2, <1>3 DEF wakeJoiners
<1>6. state' \in [Proc -> States]
  BY <1>2, <1>3, <1>5, <1>a DEF States
<1>7. \A q \in Proc : state'[q] = state[q] \/ (state[q] \in Alive /\ state'[q] \in Alive)
  BY <1>5 DEF Alive
<1>8. pc' \in [Proc -> Labels] /\ pc'[initproc] # "exit"
      /\ \A q \in Proc : /\ pc'[q] = "dead" <=> pc[q] = "dead"
                         /\ pc'[q] = "fork" <=> pc[q] = "fork"
  BY <1>1, <1>3, <1>a, InitProc DEF Labels, PInv, LiveInv
<1>9. Quiet
  BY <1>3, <1>4, <1>6, <1>7, <1>8, <1>a DEF Quiet
<1> QED BY <1>9, QuietStep

\* allocproc in fork.
LEMMA AllocStep ==
  ASSUME PInv, NEW p \in Proc, forkAlloc(p)
  PROVE  PInv'
<1>1. PICK e \in Proc : /\ state[e] = "UNUSED"
                        /\ state' = [state EXCEPT ![e] = "EMBRYO"]
                        /\ pid' = [pid EXCEPT ![e] = nextpid] /\ np' = [np EXCEPT ![p] = e]
  BY DEF forkAlloc, allocproc
<1>2. /\ pc[p] = "user" /\ state[p] = "RUNNABLE" /\ pc' = [pc EXCEPT ![p] = "fork"]
      /\ nextpid' = nextpid + 1 /\ UNCHANGED <<parent, pgdir, pages>>
  BY DEF forkAlloc, allocproc, CanCall, At, Goto
<1>a. /\ state \in [Proc -> States] /\ pc \in [Proc -> Labels] /\ np \in [Proc -> Proc]
      /\ pid \in [Proc -> Nat] /\ nextpid \in Nat \ {0}
  BY DEF PInv, TypeInv
<1>3. TypeInv'
  BY SMT, SMTT(30), <1>1, <1>2, <1>a DEF PInv, TypeInv, States, Labels
<1>4. \A q \in Proc : /\ state'[q] = IF q = e THEN "EMBRYO" ELSE state[q]
                      /\ pid'[q] = IF q = e THEN nextpid ELSE pid[q]
                      /\ pc'[q] = IF q = p THEN "fork" ELSE pc[q]
                      /\ np'[q] = IF q = p THEN e ELSE np[q]
  BY <1>1, <1>2, <1>a
<1>5. \A q \in Proc : (state'[q] \in Alive <=> state[q] \in Alive) /\ (InUse(q)' <=> InUse(q))
  BY SMT, SMTT(30), <1>1, <1>4 DEF Alive, InUse
<1>6. LiveInv'
  BY SMT, SMTT(30), <1>2, <1>4, <1>5, InitProc DEF PInv, LiveInv
<1>7. ForkInv'
  <2>1. ASSUME NEW q \in Proc, state'[q] = "EMBRYO"
        PROVE  \E r \in Proc : pc'[r] = "fork" /\ np'[r] = q
    <3>1. CASE q = e
      BY <3>1, <1>4
    <3>2. CASE q # e
      <4>1. PICK r \in Proc : pc[r] = "fork" /\ np[r] = q
        BY <2>1, <3>2, <1>4 DEF PInv, ForkInv, EmbryosMade
      <4>2. r # p
        BY <4>1, <1>2
      <4> QED BY <4>1, <4>2, <1>4
    <3> QED BY <3>1, <3>2
  <2>2. EmbryosMade'
    BY <2>1 DEF EmbryosMade
  <2> QED BY SMT, SMTT(30), <2>2, <1>1, <1>4, <1>a DEF PInv, ForkInv
<1>8. PidInv'
  BY SMT, SMTT(30), <1>1, <1>2, <1>4, <1>a DEF PInv, PidInv, PidUnique
<1>9. ParentInv' /\ SpacesOwned'
  BY <1>2, <1>5 DEF PInv, ParentInv, SpacesOwned
<1> QED BY <1>3, <1>6, <1>7, <1>8, <1>9 DEF PInv

\* fork fails after allocproc: the entry was not in use yet.
LEMMA FailStep ==
  ASSUME PInv, NEW p \in Proc, allocFail(p)
  PROVE  PInv'
<1>a. /\ state \in [Proc -> States] /\ pc \in [Proc -> Labels] /\ np \in [Proc -> Proc]
  BY DEF PInv, TypeInv
<1>1. pc[p] = "fork" /\ state[np[p]] = "EMBRYO" /\ np[p] \in Proc
  <2>1. pc[p] \in {"fork", "create"}
    BY DEF allocFail, At
  <2>2. pc[p] = "fork"
    BY <2>1, <1>a DEF Labels
  <2> QED BY <2>2, <1>a DEF PInv, ForkInv
<1>2. /\ state' = [state EXCEPT ![np[p]] = "UNUSED"] /\ pc' = [pc EXCEPT ![p] = "user"]
      /\ np' = [np EXCEPT ![p] = 1] /\ UNCHANGED <<pid, nextpid, parent, pgdir, pages>>
  BY DEF allocFail, Goto
<1>3. TypeInv'
  BY <1>1, <1>2, <1>a, InitProc DEF PInv, TypeInv, States, Labels, initproc
<1>4. \A q \in Proc : /\ state'[q] = IF q = np[p] THEN "UNUSED" ELSE state[q]
                      /\ pc'[q] = IF q = p THEN "user" ELSE pc[q]
                      /\ q # p => np'[q] = np[q]
  BY <1>1, <1>2, <1>a
<1>5. \A q \in Proc : (state'[q] \in Alive <=> state[q] \in Alive) /\ (InUse(q)' <=> InUse(q))
  BY <1>1, <1>4 DEF Alive, InUse
<1>6. LiveInv'
  BY SMT, SMTT(30), <1>1, <1>4, <1>5, InitProc DEF PInv, LiveInv
<1>7. ForkInv'
  <2>1. \A q \in Proc : state'[q] = "EMBRYO" => state[q] = "EMBRYO" /\ q # np[p]
    BY <1>1, <1>4
  <2>2. \A r \in Proc : r # p /\ pc[r] = "fork" => pc'[r] = "fork" /\ np'[r] = np[r]
    BY <1>4
  <2>3. EmbryosMade'
    BY <2>1, <2>2, EmbryosKept DEF PInv, ForkInv
  <2> QED BY SMT, SMTT(30), <2>3, <1>1, <1>4, <1>a DEF PInv, ForkInv
<1>8. PidInv'
  BY <1>2, <1>4 DEF PInv, PidInv, PidUnique
<1>9. ParentInv' /\ SpacesOwned'
  BY <1>2, <1>5 DEF PInv, ParentInv, SpacesOwned
<1> QED BY <1>3, <1>6, <1>7, <1>8, <1>9 DEF PInv

\* fork publishes the child, with a new address space.
LEMMA PublishStep ==
  ASSUME PInv, NEW p \in Proc, forkPublish(p)
  PROVE  PInv'
<1> DEFINE e == np[p]
<1>1. PICK g \in PgDir \ pages : pages' = pages \cup {g} /\ pgdir' = [pgdir EXCEPT ![e] = g]
  BY DEF forkPublish
<1>2. /\ pc[p] = "fork" /\ state[p] = "RUNNABLE"
      /\ parent' = [parent EXCEPT ![e] = p] /\ state' = [state EXCEPT ![e] = "RUNNABLE"]
      /\ pc' = [pc EXCEPT ![p] = "forkTail", ![e] = "user"] /\ UNCHANGED <<pid, nextpid, np>>
  BY DEF forkPublish, At
<1>a. /\ state \in [Proc -> States] /\ pc \in [Proc -> Labels] /\ np \in [Proc -> Proc]
      /\ parent \in [Proc -> Proc \cup {NULL}] /\ pgdir \in [Proc -> PgDir \cup {NULL}]
      /\ pages \subseteq PgDir
  BY DEF PInv, TypeInv
<1>3. e \in Proc /\ state[e] = "EMBRYO" /\ e # p /\ pc[e] = "dead"
  BY <1>2, <1>a DEF PInv, ForkInv, LiveInv, Alive
<1> HIDE DEF e
<1>4. TypeInv'
  BY <1>1, <1>2, <1>3, <1>a DEF PInv, TypeInv, States, Labels
<1>5. \A q \in Proc : /\ state'[q] = IF q = e THEN "RUNNABLE" ELSE state[q]
                      /\ pc'[q] = IF q = e THEN "user" ELSE IF q = p THEN "forkTail" ELSE pc[q]
                      /\ parent'[q] = IF q = e THEN p ELSE parent[q]
                      /\ pgdir'[q] = IF q = e THEN g ELSE pgdir[q]
  BY <1>1, <1>2, <1>3, <1>a
<1>6. \A q \in Proc : /\ state'[q] \in Alive <=> state[q] \in Alive \/ q = e
                      /\ InUse(q)' <=> InUse(q) \/ q = e
  BY <1>3, <1>5 DEF Alive, InUse
<1>7. LiveInv'
  <2>1. ASSUME NEW q \in Proc PROVE pc'[q] # "dead" <=> state'[q] \in Alive
    <3>1. pc[q] # "dead" <=> state[q] \in Alive
      BY DEF PInv, LiveInv
    <3>2. CASE q = e
      BY <3>2, <1>5 DEF Alive
    <3>3. CASE q # e /\ q = p
      <4>1. pc'[q] = "forkTail" /\ state'[q] = "RUNNABLE"
        BY <3>3, <1>2, <1>5
      <4> QED BY <4>1 DEF Alive
    <3>4. CASE q # e /\ q # p
      BY <3>1, <3>4, <1>5
    <3> QED BY <3>2, <3>3, <3>4
  <2>2. pc'[initproc] \notin {"dead", "exit"}
    BY <1>5, InitProc DEF PInv, LiveInv
  <2> QED BY <2>1, <2>2 DEF LiveInv
<1>8. ForkInv'
  <2>1. \A q \in Proc : pc'[q] = "fork" => pc[q] = "fork" /\ np[q] # e
    <3>1. ASSUME NEW q \in Proc, pc'[q] = "fork" PROVE pc[q] = "fork" /\ q # p
      <4>1. q # e /\ q # p
        BY <3>1, <1>5
      <4> QED BY <3>1, <4>1, <1>5
    <3>2. \A q \in Proc : pc[q] = "fork" /\ np[q] = np[p] => q = p
      BY <1>2 DEF PInv, ForkInv
    <3> QED BY <3>1, <3>2 DEF e
  <2>2. \A q \in Proc : pc'[q] = "fork" => state'[np'[q]] = "EMBRYO"
    BY SMT, SMTT(30), <2>1, <1>2, <1>5, <1>a DEF PInv, ForkInv
  <2>3. \A q, r \in Proc : pc'[q] = "fork" /\ pc'[r] = "fork" /\ np'[q] = np'[r] => q = r
    BY <2>1, <1>2 DEF PInv, ForkInv
  <2>4. ASSUME NEW q \in Proc, state'[q] = "EMBRYO"
        PROVE  \E r \in Proc : pc'[r] = "fork" /\ np'[r] = q
    <3>1. q # e /\ state[q] = "EMBRYO"
      BY <2>4, <1>5
    <3>2. PICK r \in Proc : pc[r] = "fork" /\ np[r] = q
      BY <3>1 DEF PInv, ForkInv, EmbryosMade
    <3>3. r # p /\ r # e
      BY <3>1, <3>2, <1>3 DEF e
    <3> QED BY <3>2, <3>3, <1>2, <1>5
  <2>5. EmbryosMade'
    BY <2>4 DEF EmbryosMade
  <2> QED BY <2>2, <2>3, <2>5 DEF ForkInv
<1>9. PidInv'
  BY <1>2, <1>3, <1>5 DEF PInv, PidInv, PidUnique
<1>10. ParentInv'
  <2>1. state[p] \in Alive
    BY <1>2 DEF Alive
  <2>2. ASSUME NEW q \in Proc, InUse(q)', q # initproc
        PROVE  parent'[q] \in Proc /\ state'[parent'[q]] \in Alive
    <3>1. CASE q = e
      BY <3>1, <2>1, <1>5, <1>6
    <3>2. CASE q # e
      <4>1. parent[q] \in Proc /\ state[parent[q]] \in Alive /\ parent'[q] = parent[q]
        BY <2>2, <3>2, <1>5, <1>6 DEF PInv, ParentInv
      <4> QED BY <4>1, <1>6
    <3> QED BY <3>1, <3>2
  <2> QED BY <2>2 DEF ParentInv
<1>11. SpacesOwned'
  <2>1. ~InUse(e) /\ \A q \in Proc : InUse(q) => pgdir[q] \in pages
    BY <1>3 DEF InUse, PInv, SpacesOwned
  <2>2. \A q, r \in Proc : InUse(q)' /\ InUse(r)' /\ pgdir'[q] = pgdir'[r] => q = r
    <3>1. \A q, r \in Proc : InUse(q) /\ InUse(r) /\ pgdir[q] = pgdir[r] => q = r
      BY DEF PInv, SpacesOwned
    <3>2. \A q \in Proc : InUse(q)' => pgdir'[q] = IF q = e THEN g ELSE pgdir[q]
      BY <1>5
    <3>3. \A q \in Proc : InUse(q)' /\ q # e => InUse(q) /\ pgdir[q] # g
      BY <2>1, <1>1, <1>6
    <3> QED BY <3>1, <3>2, <3>3
  <2>3. pages' = {pgdir'[q] : q \in {r \in Proc : InUse(r)'}}
    BY SMT, SMTT(30), <2>1, <1>1, <1>3, <1>5, <1>6 DEF PInv, SpacesOwned
  <2> QED BY <2>2, <2>3 DEF SpacesOwned
<1> QED BY <1>4, <1>7, <1>8, <1>9, <1>10, <1>11 DEF PInv

\* New_exit: children go to init, which is alive, and the process is a ZOMBIE.
LEMMA ExitEnd ==
  ASSUME PInv, NEW p \in Proc, New_exit(p)
  PROVE  PInv'
<1>a. /\ state \in [Proc -> States] /\ pc \in [Proc -> Labels] /\ np \in [Proc -> Proc]
      /\ parent \in [Proc -> Proc \cup {NULL}]
  BY DEF PInv, TypeInv
<1>1. /\ pc[p] = "exit" /\ state[p] = "RUNNABLE" /\ pc' = [pc EXCEPT ![p] = "dead"]
      /\ UNCHANGED <<pid, nextpid, pgdir, pages, np>>
      /\ parent' = [q \in Proc |-> IF q \in {r \in Proc : parent[r] = p} THEN initproc ELSE parent[q]]
  BY DEF New_exit, At, Goto
<1>2. p # initproc /\ state[initproc] \in Alive
  BY <1>1, InitProc DEF PInv, LiveInv
<1>3. \A st, c : \A q \in Proc : wakeup1(st, c)[q] = st[q] \/ (st[q] = "SLEEPING" /\ wakeup1(st, c)[q] = "RUNNABLE")
  BY DEF wakeup1
<1>4. /\ state'[p] = "ZOMBIE" /\ state' \in [Proc -> States]
      /\ \A q \in Proc \ {p} : state'[q] = state[q] \/ (state[q] = "SLEEPING" /\ state'[q] = "RUNNABLE")
  <2> DEFINE w == wakeup1(state, parent[p])
             x == wakeup1(w, initproc)
  <2>1. state' = [w EXCEPT ![p] = "ZOMBIE"] \/ state' = [x EXCEPT ![p] = "ZOMBIE"]
    BY DEF New_exit
  <2>2. w \in [Proc -> States] /\ x \in [Proc -> States]
    <3>1. \A c : \A st \in [Proc -> States] : wakeup1(st, c) \in [Proc -> States]
      BY DEF wakeup1, States
    <3> QED BY <3>1, <1>a
  <2>3. \A q \in Proc : /\ w[q] = state[q] \/ (state[q] = "SLEEPING" /\ w[q] = "RUNNABLE")
                        /\ x[q] = w[q] \/ (w[q] = "SLEEPING" /\ x[q] = "RUNNABLE")
    BY SMT, SMTT(30), <1>3
  <2> HIDE DEF w, x
  <2> QED BY <2>1, <2>2, <2>3 DEF States
<1>5. TypeInv'
  BY <1>1, <1>4, <1>a, InitProc DEF PInv, TypeInv, Labels
<1>6. \A q \in Proc : /\ state'[q] \in Alive <=> state[q] \in Alive /\ q # p
                      /\ state[q] = "EMBRYO" <=> state'[q] = "EMBRYO"
                      /\ state'[q] = "UNUSED" <=> state[q] = "UNUSED"
                      /\ InUse(q)' <=> InUse(q)
  BY <1>1, <1>4 DEF Alive, InUse
<1>7. \A q \in Proc : pc'[q] = IF q = p THEN "dead" ELSE pc[q]
  BY <1>1, <1>a
<1>8. LiveInv'
  BY <1>2, <1>6, <1>7, InitProc DEF PInv, LiveInv
<1>9. ForkInv'
  <2>1. \A r \in Proc : (pc'[r] = "fork" <=> pc[r] = "fork") /\ np'[r] = np[r]
    BY SMT, SMTT(30), <1>1, <1>7
  <2>2. EmbryosMade'
    BY <2>1, <1>6, EmbryosKept DEF PInv, ForkInv
  <2> QED BY SMT, SMTT(30), <2>1, <2>2, <1>6, <1>a DEF PInv, ForkInv
<1>10. PidInv'
  BY <1>1, <1>6 DEF PInv, PidInv, PidUnique
<1>11. ParentInv'
  <2>1. \A q \in Proc : parent'[q] = IF parent[q] = p THEN initproc ELSE parent[q]
    BY <1>1
  <2> QED BY <2>1, <1>2, <1>6, InitProc DEF PInv, ParentInv
<1>12. SpacesOwned'
  BY <1>1, <1>6 DEF PInv, SpacesOwned
<1> QED BY <1>5, <1>8, <1>9, <1>10, <1>11, <1>12 DEF PInv

\* wait frees a ZOMBIE child and its address space, which nobody else has.
LEMMA ReapStep ==
  ASSUME PInv, NEW p \in Proc, waitReap(p)
  PROVE  PInv'
<1>1. PICK z \in Proc : /\ state[z] = "ZOMBIE" /\ pages' = pages \ {pgdir[z]}
                        /\ state' = [state EXCEPT ![z] = "UNUSED"] /\ pid' = [pid EXCEPT ![z] = 0]
                        /\ parent' = [parent EXCEPT ![z] = NULL]
  BY DEF waitReap
<1>2. /\ pc[p] = "wait" /\ state[p] = "RUNNABLE" /\ pc' = [pc EXCEPT ![p] = "user"]
      /\ UNCHANGED <<pgdir, nextpid, np>>
  BY DEF waitReap, At, Goto
<1>a. /\ state \in [Proc -> States] /\ pc \in [Proc -> Labels] /\ np \in [Proc -> Proc]
      /\ pid \in [Proc -> Nat] /\ parent \in [Proc -> Proc \cup {NULL}] /\ pages \subseteq PgDir
      /\ nextpid \in Nat \ {0}
  BY DEF PInv, TypeInv
<1>3. TypeInv'
  BY <1>1, <1>2, <1>a DEF PInv, TypeInv, States, Labels
<1>4. \A q \in Proc : /\ state'[q] = IF q = z THEN "UNUSED" ELSE state[q]
                      /\ pid'[q] = IF q = z THEN 0 ELSE pid[q]
                      /\ parent'[q] = IF q = z THEN NULL ELSE parent[q]
                      /\ pc'[q] = IF q = p THEN "user" ELSE pc[q]
  BY <1>1, <1>2, <1>a
<1>5. \A q \in Proc : /\ state'[q] \in Alive <=> state[q] \in Alive
                      /\ InUse(q)' <=> InUse(q) /\ q # z
  BY SMT, SMTT(30), <1>1, <1>4 DEF Alive, InUse
<1>6. LiveInv'
  BY SMT, SMTT(30), <1>2, <1>4, <1>5, InitProc DEF PInv, LiveInv
<1>7. ForkInv'
  <2>1. \A r \in Proc : (pc'[r] = "fork" <=> pc[r] = "fork") /\ np'[r] = np[r]
    BY SMT, SMTT(30), <1>2, <1>4
  <2>2. \A q \in Proc : state'[q] = "EMBRYO" <=> state[q] = "EMBRYO"
    BY SMT, SMTT(30), <1>1, <1>4
  <2>3. EmbryosMade'
    BY <2>1, <2>2, EmbryosKept DEF PInv, ForkInv
  <2> QED BY SMT, SMTT(30), <2>1, <2>2, <2>3, <1>a DEF PInv, ForkInv
<1>8. PidInv'
  BY SMT, SMTT(30), <1>2, <1>4, <1>a DEF PInv, PidInv, PidUnique
<1>9. ParentInv'
  BY <1>4, <1>5 DEF PInv, ParentInv
<1>10. SpacesOwned'
  <2>1. InUse(z)
    BY <1>1 DEF InUse
  <2>2. \A q, r \in Proc : InUse(q)' /\ InUse(r)' /\ pgdir'[q] = pgdir'[r] => q = r
    BY <1>2, <1>5 DEF PInv, SpacesOwned
  <2>3. pages' = {pgdir'[q] : q \in {r \in Proc : InUse(r)'}}
    BY <2>1, <1>1, <1>2, <1>5 DEF PInv, SpacesOwned
  <2> QED BY <2>2, <2>3 DEF SpacesOwned
<1> QED BY <1>3, <1>6, <1>7, <1>8, <1>9, <1>10 DEF PInv

\* Every step preserves the invariant.
LEMMA PInvNext == PInv /\ [ProcNext]_vars => PInv'
<1> SUFFICES ASSUME PInv, [ProcNext]_vars PROVE PInv'
  OBVIOUS
<1>1. CASE UNCHANGED vars
  <2>1. UNCHANGED entry
    BY <1>1 DEF vars
  <2>2. /\ UNCHANGED <<state, pid, parent, pgdir>>
        /\ UNCHANGED <<nextpid, pages, pc, np>>
    BY <1>1, <2>1 DEF vars, entry
  <2>3. TypeInv'
    BY <2>2 DEF PInv, TypeInv
  <2>4. LiveInv' /\ ForkInv'
    BY <2>2 DEF PInv, LiveInv, ForkInv, EmbryosMade
  <2>5. PidInv'
    BY <2>2 DEF PInv, PidInv, PidUnique
  <2>6. ParentInv' /\ SpacesOwned'
    BY <2>2 DEF PInv, ParentInv, SpacesOwned, InUse
  <2> QED BY <2>3, <2>4, <2>5, <2>6 DEF PInv
<1>2. ASSUME NEW p \in Proc, ProcStep(p) PROVE PInv'
  BY <1>2, CallStep, ExitStart, AllocStep, FailStep, PublishStep, ExitEnd, ReapStep
     DEF ProcStep, ForkStep, WaitStep
<1> QED BY <1>1, <1>2 DEF ProcNext

-----------------------------------------------------------------------------
\* ParentAlive: abandoned children are passed to init, and no process that
\* exists has a parent that has exited.
THEOREM Parents == ProcSpec => []ParentAlive
<1>1. PInv => ParentAlive
  BY ProcTableAssumption DEF PInv, ParentInv, ParentAlive, Alive, Proc
<1> QED BY <1>1, PInvInit, PInvNext, PTL DEF ProcSpec

\* AddressSpaces: each process has its own until wait frees it, none is leaked,
\* and no entry of the table is lost in a fork that fails.
THEOREM AddressSpaceSafety == ProcSpec => []AddressSpaces
<1>1. PInv => AddressSpaces
  BY DEF PInv, ForkInv, AddressSpaces
<1> QED BY <1>1, PInvInit, PInvNext, PTL DEF ProcSpec

\* PidUnique: no two entries have the same pid.
THEOREM PidUniqueness == ProcSpec => []PidUnique
<1>1. PInv => PidUnique
  BY DEF PInv, PidInv
<1> QED BY <1>1, PInvInit, PInvNext, PTL DEF ProcSpec
-----------------------------------------------------------------------------
(* Kernel threads. *)

\* The labels of processes with threads, and those with an EMBRYO in the making.
ThreadLabels == Labels \cup {"create", "createTid", "joining"}
Making == {"fork", "create", "createTid"}

ThreadTypes ==
  /\ state \in [Proc -> States] /\ pc \in [Proc -> ThreadLabels]
  /\ pid \in [Proc -> Nat] /\ nextpid \in Nat
  /\ np \in [Proc -> Proc]

\* An EMBRYO belongs to the one process that is making it, so no entry of a
\* process that exits becomes runnable; a new pid is not that of any process.
ThreadInv ==
  /\ ThreadTypes
  /\ \A p \in Proc : pc[p] # "dead" <=> state[p] \in Alive
  /\ \A p \in Proc : pc[p] \in Making => state[np[p]] = "EMBRYO"
  /\ \A p, q \in Proc : pc[p] \in Making /\ pc[q] \in Making /\ np[p] = np[q] => p = q
  /\ \A p \in Proc : pid[p] < nextpid
  /\ SingleFinalExit

\* The invariant holds after userinit.
LEMMA ThreadInit == Init => ThreadInv
<1> SUFFICES ASSUME Init PROVE ThreadInv
  OBVIOUS
<1>1. ThreadTypes
  BY InitProc DEF Init, ThreadTypes, ThreadLabels, States, Labels, initproc
<1>2. \A p \in Proc : pc[p] \notin Making \cup {"exit"}
  BY DEF Init, Making
<1>3. \A p \in Proc : (pc[p] # "dead" <=> state[p] \in Alive) /\ pid[p] < nextpid
  BY SMT, SMTT(30) DEF Init, Alive
<1> QED BY <1>1, <1>2, <1>3 DEF ThreadInv, SingleFinalExit

\* A step of p that makes no EMBRYO and lets nobody exit: states change between
\* SLEEPING and RUNNABLE, and p moves within its call.
Within(p) ==
  /\ state' \in [Proc -> States] /\ pc' \in [Proc -> ThreadLabels] /\ np' \in [Proc -> Proc]
  /\ \A q \in Proc : state'[q] = state[q] \/ (state[q] \in Alive /\ state'[q] \in Alive)
  /\ \A q \in Proc \ {p} : pc'[q] = pc[q] /\ np'[q] = np[q]
  /\ pc[p] # "dead" /\ pc'[p] \notin {"dead", "exit"}
  /\ pc'[p] \in Making => pc[p] \in Making /\ np'[p] = np[p]
  /\ UNCHANGED <<pid, nextpid>>

\* Such a step preserves the invariant.
LEMMA WithinStep ==
  ASSUME ThreadInv, NEW p \in Proc, Within(p)
  PROVE  ThreadInv'
<1>1. ThreadTypes'
  BY DEF ThreadInv, ThreadTypes, Within
<1>2. \A q \in Proc : /\ state'[q] \in Alive <=> state[q] \in Alive
                      /\ state[q] = "EMBRYO" <=> state'[q] = "EMBRYO"
                      /\ state[q] \in {"ZOMBIE", "UNUSED"} => state'[q] = state[q]
  BY DEF Within, Alive
<1>3. \A q \in Proc : pc'[q] = "dead" <=> pc[q] = "dead"
  BY DEF Within
<1>4. \A q \in Proc : pc'[q] \in Making => pc[q] \in Making /\ np'[q] = np[q] /\ np[q] \in Proc
  BY DEF Within, ThreadInv, ThreadTypes
<1>5. \A q \in Proc : pc'[q] # "dead" <=> state'[q] \in Alive
  BY <1>2, <1>3 DEF ThreadInv
<1>6. \A q \in Proc : pc'[q] \in Making => state'[np'[q]] = "EMBRYO"
  BY <1>2, <1>4 DEF ThreadInv
<1>7. \A q, r \in Proc : pc'[q] \in Making /\ pc'[r] \in Making /\ np'[q] = np'[r] => q = r
  BY <1>4 DEF ThreadInv
<1>8. \A q \in Proc : pid'[q] < nextpid'
  BY DEF ThreadInv, Within
<1>9. SingleFinalExit'
  <2>1. \A q \in Proc : pc'[q] = "exit" => pc[q] = "exit"
    BY DEF Within
  <2> QED BY <2>1, <1>2 DEF ThreadInv, SingleFinalExit, Within
<1> QED BY <1>1, <1>5, <1>6, <1>7, <1>8, <1>9 DEF ThreadInv

\* The calls that only move their process: the end of fork, wait except for
\* reaping, the copy in kthread_create, kthread_join, and kill.
LEMMA WithinCalls ==
  ASSUME ThreadInv, NEW p \in Proc,
         \/ forkTail(p) \/ wait(p) \/ waitNone(p) \/ waitSleep(p) \/ waitWoken(p)
         \/ createCopy(p) \/ (\E t \in 1..MaxPid : kthread_join(p, t)) \/ joinReturn(p)
         \/ KillCall(p)
  PROVE  ThreadInv'
<1>a. state \in [Proc -> States] /\ pc \in [Proc -> ThreadLabels] /\ np \in [Proc -> Proc] /\ 1 \in Proc
  BY InitProc DEF ThreadInv, ThreadTypes, initproc
<1> DEFINE NewLabel(l) == pc' = [pc EXCEPT ![p] = l]
<1>1. CASE forkTail(p) \/ joinReturn(p)
  <2>1. /\ UNCHANGED <<state, pid, nextpid>> /\ NewLabel("user") /\ np' = [np EXCEPT ![p] = 1]
        /\ pc[p] # "dead"
    BY <1>1 DEF forkTail, joinReturn, Goto, At
  <2>2. Within(p)
    BY <2>1, <1>a DEF Within, ThreadLabels, Labels, Making
  <2> QED BY <2>2, WithinStep
<1>2. CASE wait(p) \/ waitNone(p) \/ waitWoken(p)
  <2>1. /\ UNCHANGED <<state, pid, nextpid, np>>
        /\ NewLabel("user") \/ NewLabel("wait")
        /\ pc[p] # "dead"
    BY <1>2 DEF wait, waitNone, waitWoken, Goto, At, CanCall, entry
  <2>2. Within(p)
    BY <2>1, <1>a DEF Within, ThreadLabels, Labels, Making
  <2> QED BY <2>2, WithinStep
<1>3. CASE createCopy(p)
  <2>1. /\ UNCHANGED <<state, pid, nextpid, np>> /\ NewLabel("createTid") /\ pc[p] = "create"
    BY <1>3 DEF createCopy, Goto, At
  <2>2. Within(p)
    BY <2>1, <1>a DEF Within, ThreadLabels, Making
  <2> QED BY <2>2, WithinStep
<1>4. CASE waitSleep(p) \/ \E t \in 1..MaxPid : kthread_join(p, t)
  <2>1. /\ UNCHANGED <<pid, nextpid>>
        /\ NewLabel("waiting") \/ NewLabel("joining")
        /\ pc[p] # "dead" /\ state[p] = "RUNNABLE" /\ state' = [state EXCEPT ![p] = "SLEEPING"]
        /\ np' = np \/ \E q \in Proc : np' = [np EXCEPT ![p] = q]
    BY <1>4 DEF waitSleep, kthread_join, Goto, At, CanCall
  <2>2. \A q \in Proc : state'[q] = state[q] \/ (state[q] \in Alive /\ state'[q] \in Alive)
    BY <2>1, <1>a DEF Alive
  <2>3. Within(p)
    BY SMT, SMTT(30), <2>1, <2>2, <1>a DEF Within, ThreadLabels, Labels, Making, States
  <2> QED BY <2>3, WithinStep
<1>5. CASE KillCall(p)
  <2>1. PICK q \in Proc : state' = [state EXCEPT ![q] = IF @ = "SLEEPING" THEN "RUNNABLE" ELSE @]
    BY <1>5 DEF KillCall, kill
  <2>2. UNCHANGED <<pid, nextpid, pc, np>> /\ pc[p] = "user"
    BY <1>5 DEF KillCall, kill, CanCall, At
  <2>3. \A r \in Proc : state'[r] = state[r] \/ (state[r] \in Alive /\ state'[r] \in Alive)
    BY <2>1, <1>a DEF Alive
  <2>4. state' \in [Proc -> States]
    BY <2>1, <1>a DEF States
  <2>5. Within(p)
    BY <2>2, <2>3, <2>4, <1>a DEF Within, Making
  <2> QED BY <2>5, WithinStep
<1> QED BY <1>1, <1>2, <1>3, <1>4, <1>5

\* allocproc: the entry taken was nobody's, and its pid is new.
LEMMA ThreadAlloc ==
  ASSUME ThreadInv, NEW p \in Proc, forkAlloc(p) \/ createAlloc(p)
  PROVE  ThreadInv'
<1>1. PICK l \in {"fork", "create"} : allocproc(p, l)
  BY DEF forkAlloc, createAlloc
<1>2. PICK e \in Proc : /\ state[e] = "UNUSED"
                        /\ state' = [state EXCEPT ![e] = "EMBRYO"]
                        /\ pid' = [pid EXCEPT ![e] = nextpid] /\ np' = [np EXCEPT ![p] = e]
  BY <1>1 DEF allocproc
<1>3. /\ pc[p] = "user" /\ state[p] = "RUNNABLE" /\ pc' = [pc EXCEPT ![p] = l] /\ nextpid' = nextpid + 1
  BY <1>1 DEF allocproc, CanCall, At, Goto
<1>a. /\ state \in [Proc -> States] /\ pc \in [Proc -> ThreadLabels] /\ np \in [Proc -> Proc]
      /\ pid \in [Proc -> Nat] /\ nextpid \in Nat
  BY DEF ThreadInv, ThreadTypes
<1>4. ThreadTypes'
  BY SMT, SMTT(30), <1>2, <1>3, <1>a DEF ThreadTypes, ThreadLabels, Labels, States
<1>5. \A q \in Proc : /\ state'[q] = IF q = e THEN "EMBRYO" ELSE state[q]
                      /\ pid'[q] = IF q = e THEN nextpid ELSE pid[q]
                      /\ pc'[q] = IF q = p THEN l ELSE pc[q]
                      /\ np'[q] = IF q = p THEN e ELSE np[q]
  BY <1>2, <1>3, <1>a
<1>6. \A q \in Proc : pc'[q] # "dead" <=> state'[q] \in Alive
  BY SMT, SMTT(30), <1>2, <1>3, <1>5 DEF ThreadInv, Alive
<1>b. \A q \in Proc : pc[q] \in Making => np[q] # e /\ np[q] \in Proc
  BY <1>2, <1>a DEF ThreadInv
<1>7. \A q \in Proc : pc'[q] \in Making => state'[np'[q]] = "EMBRYO"
  BY SMT, SMTT(30), <1>5, <1>b DEF ThreadInv
<1>8. \A q, r \in Proc : pc'[q] \in Making /\ pc'[r] \in Making /\ np'[q] = np'[r] => q = r
  BY <1>5, <1>b DEF ThreadInv
<1>9. \A q \in Proc : pid'[q] < nextpid'
  BY SMT, SMTT(30), <1>3, <1>5, <1>a DEF ThreadInv
<1>10. SingleFinalExit'
  <2>1. ASSUME NEW x \in Proc, pc'[x] = "exit", NEW q \in Proc \ {x}, pid'[q] = pid'[x]
        PROVE  state'[q] \in {"ZOMBIE", "UNUSED"}
    <3>1. pc[x] = "exit" /\ x # e
      BY <2>1, <1>2, <1>5 DEF ThreadInv, Alive
    <3>2. q # e
      BY SMT, SMTT(30), <2>1, <3>1, <1>5, <1>a DEF ThreadInv
    <3> QED BY <2>1, <3>1, <3>2, <1>5 DEF ThreadInv, SingleFinalExit
  <2> QED BY <2>1 DEF SingleFinalExit
<1> QED BY <1>4, <1>6, <1>7, <1>8, <1>9, <1>10 DEF ThreadInv

\* fork and kthread_create publish the EMBRYO.  A thread gets the pid of its
\* creator, which runs: so no thread of that process is in New_exit.
LEMMA ThreadPublish ==
  ASSUME ThreadInv, NEW p \in Proc, forkPublish(p) \/ createPublish(p)
  PROVE  ThreadInv'
<1> DEFINE e == np[p]
<1>a. /\ state \in [Proc -> States] /\ pc \in [Proc -> ThreadLabels] /\ np \in [Proc -> Proc]
      /\ pid \in [Proc -> Nat] /\ nextpid \in Nat /\ 1 \in Proc
  BY InitProc DEF ThreadInv, ThreadTypes, initproc
<1>1. /\ pc[p] \in Making /\ state[p] = "RUNNABLE" /\ state' = [state EXCEPT ![e] = "RUNNABLE"]
      /\ nextpid' = nextpid
  BY DEF forkPublish, createPublish, At, Making
<1>2. PICK l \in {"user", "forkTail"} : pc' = [pc EXCEPT ![p] = l, ![e] = "user"]
  BY DEF forkPublish, createPublish
<1>3. pid' = pid \/ pid' = [pid EXCEPT ![e] = pid[p]]
  BY DEF forkPublish, createPublish
<1>4. np' = np \/ np' = [np EXCEPT ![p] = 1]
  BY DEF forkPublish, createPublish
<1>5. e \in Proc /\ state[e] = "EMBRYO" /\ e # p /\ pc[e] = "dead"
  <2>1. e \in Proc /\ state[e] = "EMBRYO"
    BY <1>1, <1>a DEF ThreadInv
  <2> QED BY <2>1, <1>1 DEF ThreadInv, Alive
<1>b. \A q \in Proc : pc[q] \in Making /\ np[q] = e => q = p
  BY <1>1 DEF ThreadInv
<1> HIDE DEF e
<1>6. ThreadTypes'
  <2>1. state' \in [Proc -> States] /\ pid' \in [Proc -> Nat] /\ np' \in [Proc -> Proc]
    BY <1>1, <1>3, <1>4, <1>5, <1>a DEF States
  <2>2. pc' \in [Proc -> ThreadLabels]
    BY <1>2, <1>5, <1>a DEF ThreadLabels, Labels
  <2> QED BY <2>1, <2>2, <1>1, <1>a DEF ThreadTypes
<1>7. \A q \in Proc : /\ state'[q] = IF q = e THEN "RUNNABLE" ELSE state[q]
                      /\ pc'[q] = IF q = e THEN "user" ELSE IF q = p THEN l ELSE pc[q]
                      /\ q # e => pid'[q] = pid[q]
                      /\ q # p => np'[q] = np[q]
  BY <1>1, <1>2, <1>3, <1>4, <1>5, <1>a
<1>8. \A q \in Proc : pc'[q] # "dead" <=> state'[q] \in Alive
  BY SMT, SMTT(30), <1>1, <1>5, <1>7 DEF ThreadInv, Alive, Making
<1>c. \A q \in Proc : pc'[q] \in Making => pc[q] \in Making /\ np'[q] = np[q] /\ np[q] # e /\ np[q] \in Proc
  BY <1>7, <1>b, <1>a DEF Making
<1>9. \A q \in Proc : pc'[q] \in Making => state'[np'[q]] = "EMBRYO"
  BY SMT, SMTT(30), <1>7, <1>c DEF ThreadInv
<1>10. \A q, r \in Proc : pc'[q] \in Making /\ pc'[r] \in Making /\ np'[q] = np'[r] => q = r
  BY <1>c DEF ThreadInv
<1>11. \A q \in Proc : pid'[q] < nextpid'
  BY <1>1, <1>3, <1>5, <1>a DEF ThreadInv
<1>12. SingleFinalExit'
  <2>1. ASSUME NEW x \in Proc, pc'[x] = "exit", NEW q \in Proc \ {x}, pid'[q] = pid'[x]
        PROVE  state'[q] \in {"ZOMBIE", "UNUSED"}
    <3>1. pc[x] = "exit" /\ x # e /\ x # p /\ pid'[x] = pid[x]
      BY <2>1, <1>7
    <3>2. pid[p] # pid[x] /\ pid[e] # pid[x]
      BY <3>1, <1>1, <1>5 DEF ThreadInv, SingleFinalExit
    <3>3. q # e
      BY <2>1, <3>1, <3>2, <1>3, <1>5, <1>a
    <3> QED BY <2>1, <3>1, <3>3, <1>7 DEF ThreadInv, SingleFinalExit
  <2> QED BY <2>1 DEF SingleFinalExit
<1> QED BY <1>6, <1>8, <1>9, <1>10, <1>11, <1>12 DEF ThreadInv

\* A step of p that gives entries back, ends p, or (new) takes p to New_exit.
Ending(p, new) ==
  /\ state' \in [Proc -> States] /\ pid' \in [Proc -> Nat] /\ np' \in [Proc -> Proc]
  /\ nextpid' = nextpid
  /\ \E l \in {"user", "exit", "dead"} : pc' = [pc EXCEPT ![p] = l] /\ (l = "exit" <=> new)
  /\ \A q \in Proc : pid'[q] \in {pid[q], 0}
  /\ \A q \in Proc : pid'[q] # pid[q] => state'[q] = "UNUSED"
  /\ \A q \in Proc : \/ state'[q] = state[q]
                     \/ state[q] \in Alive /\ state'[q] \in Alive
                     \/ state[q] = "ZOMBIE" /\ state'[q] = "UNUSED"
                     \/ q = p /\ state'[q] = "ZOMBIE" /\ pc'[p] = "dead"
                     \/ pc[p] \in Making /\ q = np[p] /\ state'[q] = "UNUSED"
  /\ state[p] \in Alive /\ (pc'[p] = "dead" => state'[p] = "ZOMBIE")
  /\ \A q \in Proc \ {p} : np'[q] = np[q]
  /\ new => LastThread(p) /\ pid'[p] = pid[p]

\* Such a step preserves the invariant.
LEMMA EndingStep ==
  ASSUME ThreadInv, NEW p \in Proc, NEW new \in BOOLEAN, Ending(p, new)
  PROVE  ThreadInv'
<1>a. /\ state \in [Proc -> States] /\ pc \in [Proc -> ThreadLabels] /\ np \in [Proc -> Proc]
      /\ pid \in [Proc -> Nat] /\ nextpid \in Nat
  BY DEF ThreadInv, ThreadTypes
<1>1. PICK l \in {"user", "exit", "dead"} : pc' = [pc EXCEPT ![p] = l] /\ (l = "exit" <=> new)
  BY DEF Ending
<1>2. ThreadTypes'
  BY <1>1, <1>a DEF Ending, ThreadTypes, ThreadLabels, Labels
<1>3. \A q \in Proc : pc'[q] = IF q = p THEN l ELSE pc[q]
  BY <1>1, <1>a
<1>4. ASSUME NEW q \in Proc PROVE pc'[q] # "dead" <=> state'[q] \in Alive
  <2>1. pc[q] # "dead" <=> state[q] \in Alive
    BY DEF ThreadInv
  <2>2. pc[p] \in Making => state[np[p]] = "EMBRYO"
    BY DEF ThreadInv
  <2>3. CASE q # p
    <3>1. \/ state'[q] = state[q]
          \/ state[q] \in Alive /\ state'[q] \in Alive
          \/ state[q] \in {"ZOMBIE", "EMBRYO"} /\ state'[q] = "UNUSED"
      BY <2>2, <2>3 DEF Ending
    <3> QED BY <2>1, <2>3, <3>1, <1>3 DEF Alive
  <2>4. CASE q = p
    <3>1. state[p] \in Alive /\ (pc'[p] = "dead" => state'[p] = "ZOMBIE")
      BY DEF Ending
    <3>2. pc'[p] # "dead" => state'[p] \in Alive
      BY <2>2, <3>1 DEF Ending, Alive
    <3> QED BY <2>4, <3>1, <3>2 DEF Alive
  <2> QED BY <2>3, <2>4
<1>5. \A q \in Proc : pc'[q] \in Making => pc[q] \in Making /\ q # p /\ np'[q] = np[q] /\ np[q] \in Proc
  BY <1>3, <1>a DEF Ending, Making
<1>6. ASSUME NEW q \in Proc, pc'[q] \in Making PROVE state'[np'[q]] = "EMBRYO"
  <2>1. state[np[q]] = "EMBRYO" /\ np[q] \in Proc /\ np'[q] = np[q]
    BY <1>5, <1>6 DEF ThreadInv
  <2>2. ~(pc[p] \in Making /\ np[q] = np[p]) /\ np[q] # p
    <3>1. state[p] # "EMBRYO"
      BY DEF Ending, Alive
    <3> QED BY <2>1, <3>1, <1>5, <1>6 DEF ThreadInv
  <2> QED BY <2>1, <2>2 DEF Ending, Alive
<1>7. \A q, r \in Proc : pc'[q] \in Making /\ pc'[r] \in Making /\ np'[q] = np'[r] => q = r
  BY <1>5 DEF ThreadInv
<1>8. \A q \in Proc : pid'[q] < nextpid'
  <2>1. \A q \in Proc : pid[q] < nextpid /\ 0 <= pid[q]
    BY SMT, SMTT(30), <1>a DEF ThreadInv
  <2> QED BY SMT, SMTT(30), <2>1, <1>a DEF Ending
<1>9. SingleFinalExit'
  <2>1. ASSUME NEW x \in Proc, pc'[x] = "exit", NEW q \in Proc \ {x}, pid'[q] = pid'[x]
        PROVE  state'[q] \in {"ZOMBIE", "UNUSED"}
    <3>1. SUFFICES ASSUME state'[q] \notin {"ZOMBIE", "UNUSED"} PROVE FALSE
      OBVIOUS
    <3>2. state'[x] \in Alive
      BY <2>1, <1>4
    <3>3. pid'[q] = pid[q] /\ pid'[x] = pid[x]
      BY <3>1, <3>2 DEF Ending, Alive
    <3>4. state[q] \notin {"ZOMBIE", "UNUSED"}
      BY <3>1 DEF Ending, Alive
    <3>5. CASE pc[x] = "exit"
      BY <2>1, <3>3, <3>4, <3>5 DEF ThreadInv, SingleFinalExit
    <3>6. CASE pc[x] # "exit"
      <4>1. x = p /\ new
        BY <2>1, <3>6, <1>1, <1>3
      <4>2. LastThread(p)
        BY <4>1 DEF Ending
      <4> QED BY <2>1, <3>3, <3>4, <4>1, <4>2 DEF LastThread
    <3> QED BY <3>5, <3>6
  <2> QED BY <2>1 DEF SingleFinalExit
<1> QED BY <1>2, <1>4, <1>6, <1>7, <1>8, <1>9 DEF ThreadInv

\* fork or kthread_create fails: its EMBRYO is given back.
LEMMA ThreadFail ==
  ASSUME ThreadInv, NEW p \in Proc, allocFail(p)
  PROVE  ThreadInv'
<1>a. /\ state \in [Proc -> States] /\ np \in [Proc -> Proc] /\ 1 \in Proc
      /\ pid \in [Proc -> Nat] /\ pc \in [Proc -> ThreadLabels]
  BY InitProc DEF ThreadInv, ThreadTypes, initproc
<1>1. /\ pc[p] \in {"fork", "create"} /\ state[p] = "RUNNABLE" /\ UNCHANGED <<pid, nextpid>>
      /\ state' = [state EXCEPT ![np[p]] = "UNUSED"] /\ np' = [np EXCEPT ![p] = 1]
      /\ pc' = [pc EXCEPT ![p] = "user"]
  BY DEF allocFail, At, Goto
<1>2. pc[p] \in Making /\ state[p] \in Alive
  BY <1>1 DEF Making, Alive
<1>3. \A q \in Proc : state'[q] = state[q] \/ (pc[p] \in Making /\ q = np[p] /\ state'[q] = "UNUSED")
  BY <1>1, <1>2, <1>a
<1>4. Ending(p, FALSE)
  BY <1>1, <1>2, <1>3, <1>a DEF Ending, States
<1> QED BY <1>4, EndingStep

\* wait reaps a ZOMBIE.
LEMMA ThreadReap ==
  ASSUME ThreadInv, NEW p \in Proc, waitReap(p)
  PROVE  ThreadInv'
<1>a. /\ state \in [Proc -> States] /\ np \in [Proc -> Proc] /\ pid \in [Proc -> Nat]
      /\ pc \in [Proc -> ThreadLabels]
  BY DEF ThreadInv, ThreadTypes
<1>1. PICK z \in Proc : /\ state[z] = "ZOMBIE" /\ state' = [state EXCEPT ![z] = "UNUSED"]
                        /\ pid' = [pid EXCEPT ![z] = 0]
  BY DEF waitReap
<1>2. state[p] = "RUNNABLE" /\ UNCHANGED <<np, nextpid>> /\ pc' = [pc EXCEPT ![p] = "user"]
  BY DEF waitReap, At, Goto
<1>3. \A q \in Proc : /\ state'[q] = state[q] \/ (state[q] = "ZOMBIE" /\ state'[q] = "UNUSED")
                      /\ pid'[q] \in {pid[q], 0} /\ (pid'[q] # pid[q] => state'[q] = "UNUSED")
  BY <1>1, <1>a
<1>4. state' \in [Proc -> States] /\ pid' \in [Proc -> Nat] /\ state[p] \in Alive /\ pc'[p] = "user"
  BY <1>1, <1>2, <1>a DEF States, Alive
<1>5. Ending(p, FALSE)
  BY <1>2, <1>3, <1>4, <1>a DEF Ending
<1> QED BY <1>5, EndingStep

\* exit: the last thread gives back the entries of the others and goes on to
\* New_exit; any other, and New_exit itself, becomes a ZOMBIE.
LEMMA ThreadExit ==
  ASSUME ThreadInv, NEW p \in Proc, ExitStep(p)
  PROVE  ThreadInv'
<1>a. /\ state \in [Proc -> States] /\ np \in [Proc -> Proc] /\ pid \in [Proc -> Nat]
      /\ pc \in [Proc -> ThreadLabels]
  BY DEF ThreadInv, ThreadTypes
<1>b. /\ wakeJoiners(p) \in [Proc -> States]
      /\ \A q \in Proc : wakeJoiners(p)[q] = state[q] \/ (state[q] \in Alive /\ wakeJoiners(p)[q] \in Alive)
  BY <1>a DEF wakeJoiners, States, Alive
<1>1. CASE kthread_exit(p)
  <2>1. /\ state[p] = "RUNNABLE" /\ state' = [wakeJoiners(p) EXCEPT ![p] = "ZOMBIE"]
        /\ pc' = [pc EXCEPT ![p] = "dead"] /\ UNCHANGED <<pid, np, nextpid>>
    BY <1>1 DEF kthread_exit, At, Goto
  <2>2. state' \in [Proc -> States] /\ pc'[p] = "dead" /\ state'[p] = "ZOMBIE" /\ state[p] \in Alive
    BY <2>1, <1>a, <1>b DEF States, Alive
  <2>3. \A q \in Proc \ {p} : state'[q] = state[q] \/ (state[q] \in Alive /\ state'[q] \in Alive)
    BY <2>1, <1>b
  <2>4. Ending(p, FALSE)
    BY <2>1, <2>2, <2>3, <1>a DEF Ending
  <2> QED BY <2>4, EndingStep
<1>2. CASE kthread_exitLast(p)
  <2> DEFINE dead == {q \in Proc : state[q] = "ZOMBIE" /\ pid[q] = pid[p] /\ threadId[q] # threadId[p]}
  <2>1. /\ state[p] = "RUNNABLE" /\ LastThread(p)
        /\ state' = [q \in Proc |-> IF q \in dead THEN "UNUSED" ELSE wakeJoiners(p)[q]]
        /\ pid' = [q \in Proc |-> IF q \in dead THEN 0 ELSE pid[q]]
        /\ pc' = [pc EXCEPT ![p] = "exit"] /\ UNCHANGED <<np, nextpid>>
    BY <1>2 DEF kthread_exitLast, At, Goto
  <2>2. \A q \in dead : state[q] = "ZOMBIE"
    OBVIOUS
  <2> HIDE DEF dead
  <2>3. \A q \in Proc : \/ state'[q] = state[q]
                        \/ state[q] \in Alive /\ state'[q] \in Alive
                        \/ state[q] = "ZOMBIE" /\ state'[q] = "UNUSED"
    BY <2>1, <2>2, <1>b
  <2>4. \A q \in Proc : pid'[q] \in {pid[q], 0} /\ (pid'[q] # pid[q] => state'[q] = "UNUSED")
    BY <2>1
  <2>5. /\ state' \in [Proc -> States] /\ pid' \in [Proc -> Nat] /\ pid'[p] = pid[p]
        /\ state[p] \in Alive /\ pc'[p] = "exit"
    BY <2>1, <2>2, <1>a, <1>b DEF States, Alive
  <2>6. Ending(p, TRUE)
    BY <2>1, <2>3, <2>4, <2>5, <1>a DEF Ending
  <2> QED BY <2>6, EndingStep
<1>3. CASE New_exit(p)
  <2>1. PICK w \in [Proc -> States] :
          /\ \A q \in Proc : w[q] = state[q] \/ (state[q] \in Alive /\ w[q] \in Alive)
          /\ state' = [w EXCEPT ![p] = "ZOMBIE"]
    <3> DEFINE w1 == wakeup1(state, parent[p])   w2 == wakeup1(w1, initproc)
    <3>1. /\ w1 \in [Proc -> States]
          /\ \A q \in Proc : w1[q] = state[q] \/ (state[q] \in Alive /\ w1[q] \in Alive)
      BY <1>a DEF wakeup1, States, Alive
    <3> HIDE DEF w1
    <3>2. /\ w2 \in [Proc -> States]
          /\ \A q \in Proc : w2[q] = state[q] \/ (state[q] \in Alive /\ w2[q] \in Alive)
      BY <3>1, <1>a DEF wakeup1, States, Alive
    <3> HIDE DEF w2
    <3>3. state' = [w1 EXCEPT ![p] = "ZOMBIE"] \/ state' = [w2 EXCEPT ![p] = "ZOMBIE"]
      BY <1>3 DEF New_exit, w1, w2
    <3> QED BY <3>1, <3>2, <3>3
  <2>2. /\ state[p] = "RUNNABLE" /\ pc' = [pc EXCEPT ![p] = "dead"] /\ UNCHANGED <<pid, np, nextpid>>
    BY <1>3 DEF New_exit, At, Goto
  <2>3. state' \in [Proc -> States] /\ pc'[p] = "dead" /\ state'[p] = "ZOMBIE" /\ state[p] \in Alive
    BY <2>1, <2>2, <1>a DEF States, Alive
  <2>4. \A q \in Proc \ {p} : state'[q] = state[q] \/ (state[q] \in Alive /\ state'[q] \in Alive)
    BY <2>1
  <2>5. Ending(p, FALSE)
    BY <2>2, <2>3, <2>4, <1>a DEF Ending
  <2> QED BY <2>5, EndingStep
<1> QED BY <1>1, <1>2, <1>3 DEF ExitStep

\* SingleFinalExit: of the threads of a process one alone goes on to New_exit,
\* and it is the last.
THEOREM FinalExit == Spec => []SingleFinalExit
<1>1. ThreadInv /\ [Next]_vars => ThreadInv'
  <2> SUFFICES ASSUME ThreadInv, [Next]_vars PROVE ThreadInv'
    OBVIOUS
  <2>1. CASE UNCHANGED vars
    <3>1. UNCHANGED <<state, pid, nextpid, pc, np>>
      BY <2>1 DEF vars, entry
    <3>2. ThreadTypes' /\ SingleFinalExit'
      BY <3>1 DEF ThreadInv, ThreadTypes, SingleFinalExit
    <3> QED BY <3>1, <3>2 DEF ThreadInv
  <2>2. CASE Next
    BY <2>2, WithinCalls, ThreadAlloc, ThreadPublish, ThreadFail, ThreadReap, ThreadExit
    DEF Next, ForkStep, WaitStep, ThreadStep
  <2> QED BY <2>1, <2>2
<1>2. ThreadInv => SingleFinalExit
  BY DEF ThreadInv
<1> QED BY <1>1, <1>2, ThreadInit, PTL DEF Spec
=============================================================================
