--------------------------- MODULE UthreadProofs ---------------------------
(***************************************************************************)
(* The user-thread table for any MAX_UTHREADS, PRIORITIES and number of    *)
(* threads created.  The searches end at a thread that is in the table     *)
(* (ScanFinds), which is what keeps the table, the stacks and the count in *)
(* step (UInv) and makes the highest priority run first.  A switch moves   *)
(* no thread to another stack (SwitchKeeps).                               *)
(***************************************************************************)
EXTENDS Uthread, FiniteSetTheorems, WellFoundedInduction, TLAPS

\* Zenon is the prover of what follows; the steps that need arithmetic,
\* records or sequences name SMT.
USE Zenon, ZenonT(30)

Entry == [tid : Nat, priority : 0..PRIORITIES, firstRun : BOOLEAN]
Start == -1..(MAX_UTHREADS - 1)   \* where a search may start

UTypes ==
  /\ SCHED_POLICY \in {"RR", "PB"} /\ threads \in [Index -> Entry]
  /\ ss_sp \in [Index -> Place] /\ stacks \in SUBSET Index /\ thread \in Index \cup {NULL}
  /\ pc \in {"run", "last", "switch"}
  /\ PB_RR_INDEXES \in [Priority -> Start] /\ RR_INDEX \in Start
  /\ next_tid \in Nat \ {0} /\ numberOfCT \in Int

\* Live entries have a priority that getNextPB looks at, and tids that
\* uthread_create does not give again.
Entries == \A i \in Live(threads) : threads[i].priority \in Priority /\ threads[i].tid < next_tid

\* main calls uthread_start_all on its own stack.
MainFirst == thread = NULL => esp = MAIN

UInv == UTypes /\ Entries /\ MainFirst /\ OneStackEach
-----------------------------------------------------------------------------
\* A set of natural numbers has a least element.
LEMMA Least ==
  ASSUME NEW S \in SUBSET Nat, S # {}
  PROVE  \E n \in S : \A m \in S : n <= m
<1> DEFINE R == OpToRel(<, Nat)
<1>1. IsWellFoundedOn(R, Nat)
  BY NatLessThanWellFounded
<1>2. \A x, y \in Nat : <<x, y>> \in R <=> x < y
  BY DEF OpToRel
<1> HIDE DEF R
<1>3. PICK x \in S : \A y \in S : ~ (<<y, x>> \in R)
  BY <1>1, WFMin, Zenon
<1>4. \A y \in S : ~(y < x)
  BY <1>2, <1>3
<1> QED BY SMT, SMTT(30), <1>4

\* An index is reached within one round.
LEMMA Reached ==
  ASSUME NEW from \in Start, NEW g \in Index
  PROVE  \E k \in 1..MAX_UTHREADS : (from + k) % MAX_UTHREADS = g /\ (g # from => from = -1 \/ k < MAX_UTHREADS)
<1>0. MAX_UTHREADS \in Nat \ {0} /\ from \in Int /\ g \in Int
  BY SMT, SMTT(30), UthreadAssumption DEF Start, Index
<1>1. CASE from < g
  <2>1. g - from \in 1..MAX_UTHREADS /\ from + (g - from) = g /\ (from # -1 => g - from < MAX_UTHREADS)
    BY SMT, SMTT(30), <1>0, <1>1 DEF Start, Index
  <2>2. g % MAX_UTHREADS = g
    BY SMT, SMTT(30), <1>0 DEF Index
  <2> QED BY <2>1, <2>2
<1>2. CASE g <= from
  <2> DEFINE k == g - from + MAX_UTHREADS
  <2>1. k \in 1..MAX_UTHREADS /\ from + k = g + MAX_UTHREADS /\ (g # from => k < MAX_UTHREADS)
    BY SMT, SMTT(30), <1>0, <1>2 DEF Start, Index
  <2>2. (g + MAX_UTHREADS) % MAX_UTHREADS = g
    BY SMT, SMTT(30), <1>0 DEF Index
  <2> QED BY <2>1, <2>2
<1> QED BY SMT, SMTT(30), <1>0, <1>1, <1>2

\* The search comes back to where it started only after a whole round.
LEMMA WholeRound ==
  ASSUME NEW from \in Start, NEW k \in 1..MAX_UTHREADS, (from + k) % MAX_UTHREADS = from
  PROVE  k = MAX_UTHREADS /\ from \in Index
<1>0. MAX_UTHREADS \in Nat \ {0} /\ from \in Int /\ k \in Int
  BY SMT, SMTT(30), UthreadAssumption DEF Start
<1>1. CASE from + k <= MAX_UTHREADS - 1
  <2>1. (from + k) % MAX_UTHREADS = from + k
    BY SMT, SMTT(30), <1>0, <1>1 DEF Start
  <2> QED BY SMT, SMTT(30), <2>1, <1>0
<1>2. CASE from + k > MAX_UTHREADS - 1
  <2>1. (from + k) % MAX_UTHREADS = from + k - MAX_UTHREADS
    BY SMT, SMTT(30), <1>0, <1>2 DEF Start
  <2> QED BY SMT, SMTT(30), <2>1, <1>0, <1>2 DEF Start, Index
<1> QED BY SMT, SMTT(30), <1>0, <1>1, <1>2

\* When there is a good entry, the search of getNextRoundRobin and getNextPB
\* ends at one, wherever it starts.
LEMMA ScanFinds ==
  ASSUME NEW from \in Start, NEW good \in SUBSET Index, good # {}
  PROVE  scan(from, good) \in good
<1> DEFINE at(k) == (from + k) % MAX_UTHREADS
           stop(k) == at(k) = from \/ at(k) \in good
           First(k) == stop(k) /\ \A j \in 1..(k - 1) : ~stop(j)
           K == CHOOSE k \in 1..MAX_UTHREADS : First(k)
           S == {k \in 1..MAX_UTHREADS : stop(k)}
<1>0. MAX_UTHREADS \in Nat \ {0}
  BY UthreadAssumption
<1>1. scan(from, good) = at(K)
  BY DEF scan
<1>2. PICK g \in good : g \in Index
  OBVIOUS
<1>3. PICK kg \in 1..MAX_UTHREADS : at(kg) = g /\ (g # from => from = -1 \/ kg < MAX_UTHREADS)
  BY <1>2, Reached
<1>4. S \in SUBSET Nat /\ kg \in S
  BY SMT, SMTT(30), <1>2, <1>3
<1>5. \E k \in 1..MAX_UTHREADS : First(k)
  <2>1. PICK k \in S : \A m \in S : k <= m
    <3> HIDE DEF S
    <3> QED BY <1>4, Least
  <2>2. \A j \in 1..(k - 1) : j \in 1..MAX_UTHREADS /\ ~(k <= j)
    BY SMT, SMTT(30), <2>1, <1>0
  <2>3. \A j \in 1..(k - 1) : ~stop(j)
    BY <2>1, <2>2
  <2> QED BY <2>1, <2>3
<1> HIDE DEF First
<1>6. K \in 1..MAX_UTHREADS /\ First(K)
  BY <1>5
<1> HIDE DEF K
<1>7. stop(K) /\ \A j \in 1..(K - 1) : ~stop(j)
  BY <1>6 DEF First
<1>8. CASE at(K) \in good
  BY <1>1, <1>8
<1>9. CASE at(K) = from /\ from \notin good
  <2>1. K = MAX_UTHREADS /\ from \in Index
    BY <1>6, <1>9, WholeRound
  <2>2. g # from /\ from # -1
    BY SMT, SMTT(30), <1>2, <1>9, <2>1 DEF Index
  <2>3. kg \in 1..(K - 1)
    BY SMT, SMTT(30), <1>0, <1>3, <2>1, <2>2
  <2>4. stop(kg)
    BY <1>2, <1>3
  <2> QED BY <1>7, <2>3, <2>4
<1> QED BY <1>7, <1>8, <1>9
-----------------------------------------------------------------------------
(* The table. *)

\* What a change of one entry does to the table.
LEMMA EntryUpdate ==
  ASSUME NEW ts \in [Index -> Entry], NEW i \in Index
  PROVE  /\ [ts EXCEPT ![i].firstRun = FALSE] \in [Index -> Entry]
         /\ \A j \in Index : /\ [ts EXCEPT ![i].firstRun = FALSE][j].tid = ts[j].tid
                             /\ [ts EXCEPT ![i].firstRun = FALSE][j].priority = ts[j].priority
         /\ [ts EXCEPT ![i].firstRun = FALSE][i].firstRun = FALSE
<1> DEFINE e == [ts[i] EXCEPT !.firstRun = FALSE]
<1>1. e \in Entry /\ e.tid = ts[i].tid /\ e.priority = ts[i].priority /\ e.firstRun = FALSE
  BY DEF Entry
<1>2. [ts EXCEPT ![i].firstRun = FALSE] = [ts EXCEPT ![i] = e]
  OBVIOUS
<1> HIDE DEF e
<1> QED BY <1>1, <1>2

\* The scheduler's choice, and what a switch does to the table.
LEMMA SwitchTo ==
  ASSUME UTypes, Live(threads) # {},
         \A i \in Live(threads) : threads[i].priority \in Priority,
         switch
  PROVE  /\ thread' \in Live(threads) /\ RR_INDEX' \in Start /\ PB_RR_INDEXES' \in [Priority -> Start]
         /\ threads' \in [Index -> Entry] /\ Live(threads') = Live(threads)
         /\ \A j \in Index : threads'[j].tid = threads[j].tid /\ threads'[j].priority = threads[j].priority
         /\ ~threads'[thread'].firstRun
         /\ SCHED_POLICY = "PB" => \A j \in Live(threads) : threads[thread'].priority <= threads[j].priority
<1>0. Live(threads) \subseteq Index /\ Index \subseteq Start /\ Index \subseteq Int
  BY SMT, SMTT(30), UthreadAssumption DEF Live, Index, Start
<1>1. /\ thread' \in Live(threads) /\ RR_INDEX' \in Start /\ PB_RR_INDEXES' \in [Priority -> Start]
      /\ SCHED_POLICY = "PB" => \A j \in Live(threads) : threads[thread'].priority <= threads[j].priority
  <2>1. CASE SCHED_POLICY = "RR" /\ getNextRoundRobin
    <3>1. scan(RR_INDEX, Live(threads)) \in Live(threads)
      BY <1>0, ScanFinds DEF UTypes
    <3> QED BY <2>1, <3>1, <1>0 DEF getNextRoundRobin, UTypes
  <2>2. CASE SCHED_POLICY = "PB" /\ getNextPB
    <3>1. PICK q \in Priority :
            /\ InPriority(threads, q) # {} /\ \A r \in 0..(q-1) : InPriority(threads, r) = {}
            /\ thread' = scan(PB_RR_INDEXES[q], InPriority(threads, q))
            /\ PB_RR_INDEXES' = [PB_RR_INDEXES EXCEPT ![q] = thread'] /\ UNCHANGED RR_INDEX
      BY <2>2 DEF getNextPB
    <3>2. InPriority(threads, q) \in SUBSET Index /\ PB_RR_INDEXES[q] \in Start
      BY <1>0 DEF InPriority, UTypes
    <3>3. thread' \in InPriority(threads, q)
      BY <3>1, <3>2, ScanFinds
    <3>4. thread' \in Live(threads) /\ threads[thread'].priority = q
      BY <3>3 DEF InPriority
    <3>5. ASSUME NEW j \in Live(threads) PROVE q <= threads[j].priority
      <4>1. threads[j].priority \in Priority /\ j \in InPriority(threads, threads[j].priority)
        BY DEF InPriority
      <4>2. threads[j].priority \notin 0..(q-1)
        BY <3>1, <4>1
      <4> QED BY SMT, SMTT(30), <4>1, <4>2, UthreadAssumption DEF Priority
    <3>6. PB_RR_INDEXES' \in [Priority -> Start]
      BY <3>1, <3>4, <1>0 DEF UTypes
    <3> QED BY <3>1, <3>4, <3>5, <3>6 DEF UTypes
  <2> QED BY <2>1, <2>2 DEF switch, getNext
<1>2. threads' = [threads EXCEPT ![thread'].firstRun = FALSE] /\ thread' \in Index
  BY <1>0, <1>1 DEF switch
<1>3. /\ threads' \in [Index -> Entry] /\ threads'[thread'].firstRun = FALSE
      /\ \A j \in Index : threads'[j].tid = threads[j].tid /\ threads'[j].priority = threads[j].priority
  BY <1>2, EntryUpdate DEF UTypes
<1>4. Live(threads') = Live(threads)
  BY <1>3 DEF Live
<1> QED BY <1>1, <1>3, <1>4

\* The statics of uthread.c.
LEMMA UInit == Init => UInv
<1> SUFFICES ASSUME Init PROVE UInv
  OBVIOUS
<1>0. Index \subseteq Int /\ 0 \in 0..PRIORITIES /\ 0 \in Start /\ -1 \in Start
  BY SMT, SMTT(30), UthreadAssumption DEF Index, Start
<1>1. threads \in [Index -> Entry] /\ \A i \in Index : threads[i].tid = 0
  BY <1>0 DEF Init, Entry
<1>2. UTypes
  BY SMT, SMTT(30), <1>0, <1>1 DEF Init, UTypes, Place
<1>3. Live(threads) = {}
  BY <1>1 DEF Live
<1>4. OneStackEach
  BY <1>3, FS_EmptySet DEF Init, OneStackEach
<1> QED BY <1>2, <1>3, <1>4 DEF UInv, Entries, MainFirst, Init

\* The table is finite.
LEMMA LiveFinite == IsFiniteSet(Live(threads))
<1>1. IsFiniteSet(Index)
  BY SMT, SMTT(30), UthreadAssumption, FS_Interval DEF Index
<1> QED BY <1>1, FS_Subset DEF Live

\* uthread_create fills the first free entry, with a new stack or none.
LEMMA CreateStep ==
  ASSUME UInv, NEW q \in Priority, uthread_create(q)
  PROVE  UInv'
<1> DEFINE e == [tid |-> next_tid, priority |-> q, firstRun |-> TRUE]
<1>1. PICK i \in Index :
        /\ threads[i].tid = 0 /\ threads' = [threads EXCEPT ![i] = e]
        /\ \/ stacks' = stacks \cup {i} /\ ss_sp' = [ss_sp EXCEPT ![i] = i]
           \/ stacks' = stacks /\ ss_sp' = [ss_sp EXCEPT ![i] = NULL]
  BY DEF uthread_create
<1>2. /\ next_tid' = next_tid + 1 /\ numberOfCT' = numberOfCT + 1 /\ running /\ pc = "run"
      /\ UNCHANGED <<SCHED_POLICY, thread, PB_RR_INDEXES, RR_INDEX, esp, pc, running>>
  BY DEF uthread_create, indexes, Calls
<1>3. e \in Entry /\ e.tid = next_tid /\ e.priority = q /\ next_tid \in Nat \ {0} /\ q \in 0..PRIORITIES
  BY SMT, SMTT(30), UthreadAssumption DEF Entry, Priority, UInv, UTypes
<1> HIDE DEF e
<1>4. threads' \in [Index -> Entry] /\ threads'[i] = e /\ \A j \in Index \ {i} : threads'[j] = threads[j]
  BY <1>1, <1>3 DEF UInv, UTypes
<1>5. Live(threads') = Live(threads) \cup {i} /\ i \notin Live(threads) /\ Live(threads) \subseteq Index
  BY <1>1, <1>3, <1>4 DEF Live
<1>6. UTypes'
  <2>1. ss_sp' \in [Index -> Place] /\ stacks' \in SUBSET Index
    BY <1>1 DEF UInv, UTypes, Place
  <2>2. next_tid' \in Nat \ {0} /\ numberOfCT' \in Int
    BY SMT, SMTT(30), <1>2, <1>3 DEF UInv, UTypes
  <2> QED BY <1>2, <1>4, <2>1, <2>2 DEF UInv, UTypes
<1>7. \A j \in Live(threads) : threads[j].tid \in Nat /\ threads[j].tid < next_tid /\ threads'[j] = threads[j]
  BY <1>4, <1>5 DEF UInv, UTypes, Entries, Entry
<1>8. Entries'
  BY SMT, SMTT(30), <1>2, <1>3, <1>4, <1>5, <1>7 DEF UInv, Entries
<1>9. OneStackEach'
  <2>a. i # thread /\ i \notin stacks
    BY <1>2, <1>5, UthreadAssumption DEF UInv, OneStackEach, Index
  <2>b. StackOf(i)' = (IF i \in stacks' THEN i ELSE NULL)
    BY <1>1, <1>2, <2>a DEF StackOf, UInv, UTypes
  <2>c. \A j \in Live(threads) : StackOf(j)' = StackOf(j) /\ (j \in stacks' <=> j \in stacks)
    BY <1>1, <1>2, <1>5 DEF StackOf, UInv, UTypes
  <2>d. \A j \in Live(threads) : StackOf(j) \in {MAIN, IF j \in stacks THEN j ELSE NULL}
    BY <1>2 DEF UInv, OneStackEach
  <2>e. i # MAIN /\ i # NULL /\ MAIN # NULL
    BY UthreadAssumption DEF Index
  <2>1. numberOfCT' = Cardinality(Live(threads'))
    <3>1. Cardinality(Live(threads) \cup {i}) = Cardinality(Live(threads)) + 1
      BY <1>5, LiveFinite, FS_AddElement
    <3> QED BY <3>1, <1>2, <1>5 DEF UInv, OneStackEach
  <2>2. \A j, k \in Live(threads') : j # k => threads'[j].tid # threads'[k].tid
    BY SMT, SMTT(30), <1>2, <1>3, <1>4, <1>5, <1>7 DEF UInv, OneStackEach
  <2>3. thread' # NULL /\ pc' = "run" => thread' \in Live(threads') /\ ~threads'[thread'].firstRun
    <3> SUFFICES ASSUME thread # NULL
                 PROVE  thread \in Live(threads') /\ ~threads'[thread].firstRun
      BY <1>2
    <3>1. thread \in Live(threads) /\ ~threads[thread].firstRun
      BY <1>2 DEF UInv, OneStackEach
    <3> QED BY <3>1, <1>5, <1>7
  <2>4. stacks' \subseteq Live(threads')
    BY <1>1, <1>2, <1>5 DEF UInv, OneStackEach
  <2>5. \A j \in Live(threads') : StackOf(j)' \in {MAIN, IF j \in stacks' THEN j ELSE NULL}
    BY <1>5, <2>b, <2>c, <2>d
  <2>6. \A j, k \in Live(threads') : j # k /\ StackOf(j)' = StackOf(k)' => StackOf(j)' = NULL
    <3>1. \A j \in Live(threads) : StackOf(j) = StackOf(i)' => StackOf(j) = NULL
      BY <1>5, <2>b, <2>d, <2>e
    <3>2. \A j, k \in Live(threads) : j # k /\ StackOf(j) = StackOf(k) => StackOf(j) = NULL
      BY <1>2 DEF UInv, OneStackEach
    <3> QED BY <1>5, <2>c, <3>1, <3>2
  <2>7. thread = NULL => esp \notin stacks' /\ \A j \in Live(threads') : StackOf(j)' # esp
    <3> SUFFICES ASSUME thread = NULL
                 PROVE  esp \notin stacks' /\ \A j \in Live(threads') : StackOf(j)' # esp
      OBVIOUS
    <3>1. esp \notin stacks /\ \A j \in Live(threads) : StackOf(j) # esp
      BY <1>2 DEF UInv, OneStackEach
    <3>2. esp = MAIN
      BY <1>2 DEF UInv, MainFirst
    <3> QED BY <1>1, <1>5, <2>b, <2>c, <2>e, <3>1, <3>2
  <2> QED BY <1>2, <2>1, <2>2, <2>3, <2>4, <2>5, <2>6, <2>7 DEF OneStackEach
<1>10. MainFirst'
  BY <1>2 DEF UInv, MainFirst
<1> QED BY <1>6, <1>8, <1>9, <1>10 DEF UInv

\* A switch keeps the table, when the table it searches has a thread, and every
\* thread keeps its stack if the saved pointers and esp are as after a yield, an
\* exit or the start.
LEMMA SwitchKeeps ==
  ASSUME UInv, running, Live(threads) # {}, switch, ss_sp' \in [Index -> Place],
         \A i \in Live(threads) : StackOf(i)' \in {MAIN, IF i \in stacks THEN i ELSE NULL},
         \A i, j \in Live(threads) : i # j /\ StackOf(i)' = StackOf(j)' => StackOf(i)' = NULL,
         pc' = "run", UNCHANGED <<SCHED_POLICY, stacks, next_tid, numberOfCT, running>>
  PROVE  UInv' /\ (SCHED_POLICY = "PB" => Top(thread)')
<1>0. UTypes /\ \A i \in Live(threads) : threads[i].priority \in Priority
  BY DEF UInv, Entries
<1>1. /\ thread' \in Live(threads) /\ RR_INDEX' \in Start /\ PB_RR_INDEXES' \in [Priority -> Start]
      /\ threads' \in [Index -> Entry] /\ Live(threads') = Live(threads)
      /\ \A j \in Index : threads'[j].tid = threads[j].tid /\ threads'[j].priority = threads[j].priority
      /\ ~threads'[thread'].firstRun
      /\ SCHED_POLICY = "PB" => \A j \in Live(threads) : threads[thread'].priority <= threads[j].priority
  BY <1>0, SwitchTo
<1>2. Live(threads) \subseteq Index /\ NULL \notin Index
  BY UthreadAssumption DEF Live, Index
<1>3. UTypes'
  BY <1>0, <1>1, <1>2 DEF UTypes
<1>4. Entries'
  BY <1>1, <1>2 DEF UInv, Entries
<1>5. OneStackEach'
  BY <1>1, <1>2 DEF UInv, OneStackEach
<1>6. SCHED_POLICY = "PB" => Top(thread)'
  BY <1>1, <1>2 DEF Top
<1>7. MainFirst'
  BY <1>1, <1>2 DEF MainFirst
<1> QED BY <1>3, <1>4, <1>5, <1>6, <1>7 DEF UInv

\* uthread_start_all: the chosen thread gets main's stack, which is nobody's.
LEMMA StartStep ==
  ASSUME UInv, uthread_start_all
  PROVE  UInv' /\ (SCHED_POLICY = "PB" => Top(thread)')
<1>1. /\ switch /\ running /\ pc = "run" /\ thread = NULL /\ Live(threads) # {}
      /\ UNCHANGED <<SCHED_POLICY, ss_sp, stacks, next_tid, numberOfCT, esp, pc, running>>
  BY DEF uthread_start_all, Calls
<1>2. esp = MAIN /\ ss_sp' \in [Index -> Place]
  BY <1>1 DEF UInv, MainFirst, UTypes
<1>3. \A i \in Live(threads) : i # thread /\ StackOf(i) = ss_sp[i] /\ StackOf(i) # MAIN
  BY <1>1, <1>2, UthreadAssumption DEF UInv, OneStackEach, StackOf, Live, Index
<1>4. \A i \in Live(threads) : StackOf(i)' = IF i = thread' THEN MAIN ELSE StackOf(i)
  BY <1>1, <1>2, <1>3 DEF StackOf
<1>5. /\ \A i \in Live(threads) : StackOf(i) \in {MAIN, IF i \in stacks THEN i ELSE NULL}
      /\ \A i, j \in Live(threads) : i # j /\ StackOf(i) = StackOf(j) => StackOf(i) = NULL
  BY <1>1 DEF UInv, OneStackEach
<1>6. /\ \A i \in Live(threads) : StackOf(i)' \in {MAIN, IF i \in stacks THEN i ELSE NULL}
      /\ \A i, j \in Live(threads) : i # j /\ StackOf(i)' = StackOf(j)' => StackOf(i)' = NULL
  <2>1. \A i \in Live(threads) : StackOf(i)' \in {MAIN, IF i \in stacks THEN i ELSE NULL}
    BY <1>4, <1>5
  <2>2. ASSUME NEW i \in Live(threads), NEW j \in Live(threads), i # j, StackOf(i)' = StackOf(j)'
        PROVE  StackOf(i)' = NULL
    <3>1. i # thread' /\ j # thread'
      BY <2>2, <1>3, <1>4
    <3> QED BY <2>2, <3>1, <1>4, <1>5
  <2> QED BY <2>1, <2>2
<1> QED BY <1>1, <1>2, <1>6, SwitchKeeps

\* uthread_yield and the end of uthread_exit: every thread keeps its stack.
LEMMA YieldStep ==
  ASSUME UInv, uthread_yield \/ exitSwitch
  PROVE  UInv' /\ (SCHED_POLICY = "PB" => Top(thread)')
<1>1. switch /\ running /\ pc' = "run" /\ UNCHANGED <<SCHED_POLICY, stacks, next_tid, numberOfCT, running>>
  BY DEF uthread_yield, exitSwitch, Calls
<1>2. Live(threads) # {} /\ Live(threads) \subseteq Index
  BY DEF uthread_yield, exitSwitch, Calls, UInv, OneStackEach, Live
<1>3. thread' \in Live(threads)
  BY <1>1, <1>2, SwitchTo DEF UInv, Entries
<1>4. ss_sp' \in [Index -> Place] /\ \A i \in Live(threads) : StackOf(i)' = StackOf(i)
  <2>1. CASE uthread_yield
    <3>1. /\ ss_sp' = [ss_sp EXCEPT ![thread] = esp] /\ esp' = ss_sp'[thread']
          /\ thread \in Live(threads) /\ thread \in Index
      BY <2>1, <1>2 DEF uthread_yield, Calls, UInv, OneStackEach
    <3>2. esp = StackOf(thread) /\ esp \in Place
      BY <3>1, <1>1, UthreadAssumption DEF StackOf, UInv, OneStackEach, Place
    <3> QED BY <3>1, <3>2, <1>2, <1>3 DEF UInv, UTypes, StackOf
  <2>2. CASE exitSwitch
    <3>1. ss_sp' = ss_sp /\ esp' = ss_sp[thread'] /\ pc = "switch"
      BY <2>2 DEF exitSwitch
    <3>2. \A i \in Live(threads) : i # thread
      BY <3>1, <1>1 DEF UInv, OneStackEach, StackOf
    <3> QED BY <3>1, <3>2, <1>3 DEF UInv, UTypes, StackOf
  <2> QED BY <2>1, <2>2
<1>5. /\ \A i \in Live(threads) : StackOf(i) \in {MAIN, IF i \in stacks THEN i ELSE NULL}
      /\ \A i, j \in Live(threads) : i # j /\ StackOf(i) = StackOf(j) => StackOf(i) = NULL
  BY <1>1 DEF UInv, OneStackEach
<1>6. /\ \A i \in Live(threads) : StackOf(i)' \in {MAIN, IF i \in stacks THEN i ELSE NULL}
      /\ \A i, j \in Live(threads) : i # j /\ StackOf(i)' = StackOf(j)' => StackOf(i)' = NULL
  BY <1>4, <1>5
<1> QED BY <1>1, <1>2, <1>4, <1>6, SwitchKeeps

\* freeThread clears the entry of the thread itself.
LEMMA FreeOwn ==
  ASSUME UInv, running, pc = "run", thread # NULL
  PROVE  /\ freeThread \in [Index -> Entry]
         /\ Live(freeThread) = Live(threads) \ {thread}
         /\ \A i \in Live(threads) \ {thread} : freeThread[i] = threads[i]
<1>1. thread \in Live(threads) /\ thread \in Index /\ threads[thread].tid # 0 /\ threads[thread] \in Entry
  BY DEF UInv, OneStackEach, Live, UTypes
<1>2. \A i \in Index : threads[i].tid = threads[thread].tid => i = thread
  BY <1>1 DEF UInv, OneStackEach, Live
<1> DEFINE own(i) == /\ threads[i].tid = threads[thread].tid
                     /\ \A j \in 0..(i-1) : threads[j].tid # threads[thread].tid
           c == CHOOSE i \in Index : own(i)
           e == [threads[thread] EXCEPT !.tid = 0, !.priority = PRIORITIES]
<1>3. own(thread)
  <2>1. \A j \in 0..(thread - 1) : j \in Index /\ j # thread
    BY SMT, SMTT(30), <1>1, UthreadAssumption DEF Index
  <2> QED BY <1>2, <2>1
<1>4. \A i \in Index : own(i) => i = thread
  BY <1>2
<1> HIDE DEF own
<1>5. c = thread
  BY <1>1, <1>3, <1>4
<1>6. freeThread = [threads EXCEPT ![c].tid = 0, ![c].priority = PRIORITIES]
  BY DEF freeThread, own
<1>7. freeThread = [threads EXCEPT ![thread] = e]
  <2> HIDE DEF c
  <2> QED BY <1>1, <1>5, <1>6 DEF UInv, UTypes
<1>8. e \in Entry /\ e.tid = 0
  <2>1. 0 \in Nat /\ PRIORITIES \in 0..PRIORITIES
    BY SMT, SMTT(30), UthreadAssumption
  <2>2. \A t \in Entry : LET u == [t EXCEPT !.tid = 0, !.priority = PRIORITIES]
                         IN  u \in Entry /\ u.tid = 0
    BY <2>1 DEF Entry
  <2> QED BY <1>1, <2>2
<1> HIDE DEF e, c
<1>9. /\ freeThread \in [Index -> Entry]
      /\ \A i \in Index \ {thread} : freeThread[i] = threads[i]
      /\ freeThread[thread].tid = 0
  BY <1>1, <1>7, <1>8 DEF UInv, UTypes
<1>10. Live(freeThread) = Live(threads) \ {thread}
  BY SMT, SMTT(30), <1>1, <1>9 DEF Live
<1> QED BY <1>9, <1>10 DEF Live

\* uthread_exit up to freeThread: the stack it goes on with is nobody's, and the
\* process exits if no thread is left.
LEMMA ExitStep ==
  ASSUME UInv, uthread_exit
  PROVE  UInv'
<1>1. /\ running /\ pc = "run" /\ thread # NULL /\ thread \in stacks /\ esp # NULL
      /\ numberOfCT' = numberOfCT - 1 /\ threads' = freeThread /\ stacks' = stacks \ {thread}
      /\ pc' = (IF numberOfCT = 1 THEN "last" ELSE "switch")
      /\ UNCHANGED <<SCHED_POLICY, ss_sp, thread, PB_RR_INDEXES, RR_INDEX, next_tid, esp, running>>
  BY DEF uthread_exit, Calls, indexes
<1>2. /\ threads' \in [Index -> Entry] /\ Live(threads') = Live(threads) \ {thread}
      /\ \A i \in Live(threads') : threads'[i] = threads[i]
  BY <1>1, FreeOwn
<1>3. /\ thread \in Live(threads) /\ thread \in Index /\ stacks \subseteq Live(threads)
      /\ Live(threads) \subseteq Index
  BY <1>1 DEF UInv, OneStackEach, UTypes, Live
<1>4. UTypes'
  BY SMT, SMTT(30), <1>1, <1>2 DEF UInv, UTypes
<1>5. Entries' /\ MainFirst'
  BY <1>1, <1>2 DEF UInv, Entries, MainFirst
<1>6. numberOfCT' = Cardinality(Live(threads')) /\ numberOfCT' \in Int
  <2>1. Cardinality(Live(threads) \ {thread}) = Cardinality(Live(threads)) - 1
    BY <1>3, LiveFinite, FS_RemoveElement
  <2>2. numberOfCT = Cardinality(Live(threads)) /\ numberOfCT \in Int
    BY <1>1 DEF UInv, OneStackEach, UTypes
  <2> QED BY SMT, SMTT(30), <1>1, <1>2, <2>1, <2>2
<1>7. OneStackEach'
  <2>1. \A i \in Live(threads') : StackOf(i)' = StackOf(i) /\ i # thread /\ (i \in stacks' <=> i \in stacks)
    BY <1>1, <1>2 DEF StackOf
  <2>2. stacks' \subseteq Live(threads')
    BY <1>1, <1>2, <1>3
  <2>0. /\ \A i \in Live(threads) : StackOf(i) \in {MAIN, IF i \in stacks THEN i ELSE NULL}
        /\ \A i, j \in Live(threads) : i # j => threads[i].tid # threads[j].tid
        /\ \A i, j \in Live(threads) : i # j /\ StackOf(i) = StackOf(j) => StackOf(i) = NULL
    BY <1>1 DEF UInv, OneStackEach
  <2>3. esp \in {MAIN, thread} /\ esp = StackOf(thread)
    BY <1>1, <1>3, <2>0 DEF StackOf
  <2>4. esp \notin stacks'
    BY <1>1, <2>3, UthreadAssumption DEF UInv, UTypes, Index
  <2>5. \A i \in Live(threads') : StackOf(i)' # esp
    BY <1>1, <1>2, <1>3, <2>0, <2>1, <2>3
  <2>6. \A i \in Live(threads') : StackOf(i)' \in {MAIN, IF i \in stacks' THEN i ELSE NULL}
    BY <1>2, <2>0, <2>1
  <2>7. /\ \A i, j \in Live(threads') : i # j => threads'[i].tid # threads'[j].tid
        /\ \A i, j \in Live(threads') : i # j /\ StackOf(i)' = StackOf(j)' => StackOf(i)' = NULL
    BY <1>2, <2>0, <2>1
  <2>8. numberOfCT = 1 <=> Live(threads') = {}
    <3>1. Cardinality(Live(threads')) = 0 <=> Live(threads') = {}
      BY <1>2, LiveFinite, FS_Subset, FS_EmptySet, Zenon
    <3> QED BY SMT, SMTT(30), <1>1, <1>6, <3>1 DEF UInv, UTypes
  <2>9. pc' # "run" /\ (pc' = "last" => Live(threads') = {}) /\ (pc' = "switch" => Live(threads') # {})
    BY <1>1, <2>8
  <2> QED BY <1>1, <1>6, <2>2, <2>4, <2>5, <2>6, <2>7, <2>9 DEF OneStackEach
<1> QED BY <1>4, <1>5, <1>7 DEF UInv

\* The process is gone.
LEMMA GoneStep ==
  ASSUME UInv, exitFault \/ exitLast
  PROVE  UInv'
<1>1. /\ ~running' /\ numberOfCT' \in {numberOfCT, numberOfCT - 1}
      /\ UNCHANGED <<SCHED_POLICY, threads, ss_sp, stacks, thread, PB_RR_INDEXES, RR_INDEX, next_tid, esp, pc>>
  BY DEF exitFault, exitLast, indexes
<1>2. UTypes'
  <2>1. numberOfCT' \in Int
    BY SMT, SMTT(30), <1>1 DEF UInv, UTypes
  <2> QED BY <1>1, <2>1 DEF UInv, UTypes
<1>3. Entries' /\ MainFirst' /\ OneStackEach'
  BY <1>1 DEF UInv, Entries, MainFirst, OneStackEach
<1> QED BY <1>2, <1>3 DEF UInv

\* uthread_setpr changes the priority of the running thread.
LEMMA SetprStep ==
  ASSUME UInv, NEW q \in Priority, uthread_setpr(q)
  PROVE  UInv'
<1> DEFINE e == [threads[thread] EXCEPT !.priority = q]
<1>1. /\ running /\ thread # NULL /\ threads' = [threads EXCEPT ![thread].priority = q]
      /\ UNCHANGED <<SCHED_POLICY, ss_sp, stacks, thread, PB_RR_INDEXES, RR_INDEX, next_tid, numberOfCT,
                     esp, pc, running>>
  BY DEF uthread_setpr, Calls, indexes
<1>2. thread \in Index /\ threads[thread] \in Entry /\ q \in 0..PRIORITIES
  BY SMT, SMTT(30), <1>1, UthreadAssumption DEF UInv, UTypes, Priority
<1>3. /\ e \in Entry /\ e.tid = threads[thread].tid /\ e.priority = q
      /\ e.firstRun = threads[thread].firstRun
  BY <1>2 DEF Entry
<1>4. threads' = [threads EXCEPT ![thread] = e]
  BY <1>1, <1>2 DEF UInv, UTypes
<1> HIDE DEF e
<1>5. /\ threads' \in [Index -> Entry]
      /\ \A i \in Index : /\ threads'[i].tid = threads[i].tid /\ threads'[i].firstRun = threads[i].firstRun
                          /\ threads'[i].priority = IF i = thread THEN q ELSE threads[i].priority
  BY <1>2, <1>3, <1>4 DEF UInv, UTypes
<1>6. Live(threads') = Live(threads) /\ Live(threads) \subseteq Index
  BY <1>5 DEF Live
<1>7. UTypes' /\ MainFirst'
  BY <1>1, <1>5 DEF UInv, UTypes, MainFirst
<1>8. Entries'
  BY SMT, SMTT(30), <1>1, <1>5, <1>6 DEF UInv, Entries
<1>9. OneStackEach'
  <2>1. \A i : StackOf(i)' = StackOf(i)
    BY <1>1 DEF StackOf
  <2>2. thread \in Live(threads) /\ ~threads[thread].firstRun => ~threads'[thread].firstRun
    BY <1>5, <1>6
  <2>3. \A i, j \in Live(threads) : i # j => threads'[i].tid # threads'[j].tid
    <3>1. \A i, j \in Live(threads) : i # j => threads[i].tid # threads[j].tid
      BY <1>1 DEF UInv, OneStackEach
    <3> QED BY <3>1, <1>5, <1>6
  <2> QED BY <1>1, <1>6, <2>1, <2>2, <2>3 DEF UInv, OneStackEach
<1> QED BY <1>7, <1>8, <1>9 DEF UInv

\* UInv is inductive.
LEMMA UInvNext == UInv /\ [Next]_vars => UInv'
<1> SUFFICES ASSUME UInv, [Next]_vars PROVE UInv'
  OBVIOUS
<1>1. CASE UNCHANGED vars
  BY <1>1 DEF vars, indexes, UInv, UTypes, Entries, MainFirst, OneStackEach, StackOf, Live
<1>2. CASE Next
  BY <1>2, CreateStep, StartStep, YieldStep, ExitStep, GoneStep, SetprStep DEF Next
<1> QED BY <1>1, <1>2

\* OneStackEach: no stack is used by two threads, and the table, the stacks and
\* the count agree, between the two halves of uthread_exit too.
THEOREM StacksApart == Spec => []OneStackEach
<1>1. UInv => OneStackEach
  BY DEF UInv
<1> QED BY <1>1, UInit, UInvNext, PTL DEF Spec

\* HighestFirst: under priorities a switch goes to a thread of the highest
\* priority that is in the table.
THEOREM PriorityOrder == Spec => HighestFirst
<1> DEFINE Chosen == (/\ SCHED_POLICY = "PB"
                      /\ uthread_start_all \/ uthread_yield \/ exitSwitch) => Top(thread)'
<1>1. UInv /\ [Next]_vars => [Chosen]_vars
  BY StartStep, YieldStep
<1> QED BY <1>1, UInit, UInvNext, PTL DEF Spec, HighestFirst
=============================================================================
