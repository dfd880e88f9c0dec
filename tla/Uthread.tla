------------------------------ MODULE Uthread ------------------------------
(***************************************************************************)
(* User-level threads (uthread.c): a table of threads within one process,  *)
(* which hand the processor to each other in uthread_yield and             *)
(* uthread_exit.  Nothing preempts a call within the process; uthread_exit *)
(* is two steps because in between the thread runs on a stack it has       *)
(* freed.  Stack contents are not modelled; on which stack the processor   *)
(* is, where each thread will go on, and which stacks are allocated, is.   *)
(***************************************************************************)
EXTENDS Integers, FiniteSets

CONSTANTS MAX_UTHREADS, PRIORITIES,
          MaxTid,         \* bound: uthread_create stops once next_tid has passed it
          MAIN,           \* the stack of main, on which the process started
          NULL

ASSUME UthreadAssumption ==
  /\ MAX_UTHREADS \in Nat \ {0} /\ PRIORITIES \in Nat \ {0} /\ MaxTid \in Nat
  /\ NULL \notin 0..(MAX_UTHREADS - 1) /\ MAIN \notin 0..(MAX_UTHREADS - 1) /\ MAIN # NULL

Index    == 0..(MAX_UTHREADS - 1)
Priority == 0..(PRIORITIES - 1)

\* A place on a stack: of the one malloc returned for entry i, of main's, or, as NULL,
\* the end of the page at 0 where ss_sp points when malloc has returned 0.
Place == Index \cup {MAIN, NULL}

VARIABLES
  SCHED_POLICY,   \* "RR" or "PB"; a static int that nothing assigns, here either
  threads,        \* threads[i]: tid, priority, firstRun
  ss_sp,          \* where thread i goes on when it is switched to
  stacks,         \* the entries whose stack_aloc is allocated
  thread,         \* the entry `thread' points to, NULL before uthread_start_all
  PB_RR_INDEXES, RR_INDEX, next_tid, numberOfCT,
  esp,            \* the stack the processor is on
  pc,             \* "run", or inside uthread_exit before exit ("last") or the switch
  running         \* the process has not exited

indexes == <<PB_RR_INDEXES, RR_INDEX>>
vars == <<SCHED_POLICY, threads, ss_sp, stacks, thread, indexes, next_tid, numberOfCT, esp, pc, running>>

Init ==
  /\ SCHED_POLICY \in {"RR", "PB"}
  /\ threads = [i \in Index |-> [tid |-> 0, priority |-> 0, firstRun |-> FALSE]]
  /\ ss_sp = [i \in Index |-> NULL]
  /\ stacks = {} /\ thread = NULL
  /\ PB_RR_INDEXES = [q \in Priority |-> IF q = 0 THEN -1 ELSE 0]   \* = {-1}
  /\ RR_INDEX = -1
  /\ next_tid = 1 /\ numberOfCT = 0
  /\ esp = MAIN /\ pc = "run" /\ running = TRUE

Live(ts) == {i \in Index : ts[i].tid # 0}

-----------------------------------------------------------------------------
(* Which thread runs next. *)

\* Mutant: the search starts at the first entry.
scanFromFirst(from, good) == CHOOSE i \in good : \A j \in good : i <= j

\* The loop of getNextRoundRobin and getNextPB: the first index behind from that
\* is good, or from itself when the search has gone around.
scan(from, good) ==
  LET at(k) == (from + k) % MAX_UTHREADS
      stop(k) == at(k) = from \/ at(k) \in good
      k == CHOOSE k \in 1..MAX_UTHREADS : stop(k) /\ \A j \in 1..(k-1) : ~stop(j)
  IN at(k)

getNextRoundRobin ==
  /\ RR_INDEX' = scan(RR_INDEX, Live(threads))
  /\ thread' = RR_INDEX'
  /\ UNCHANGED PB_RR_INDEXES

InPriority(ts, q) == {i \in Live(ts) : ts[i].priority = q}

\* Mutant: 9 is taken to be the highest priority.
getNextPBLow ==
  \E q \in Priority :
    /\ InPriority(threads, q) # {} /\ \A r \in (q+1)..(PRIORITIES-1) : InPriority(threads, r) = {}
    /\ thread' = scan(PB_RR_INDEXES[q], InPriority(threads, q))
    /\ PB_RR_INDEXES' = [PB_RR_INDEXES EXCEPT ![q] = thread']
    /\ UNCHANGED RR_INDEX

getNextPB ==
  \E q \in Priority :
    /\ InPriority(threads, q) # {} /\ \A r \in 0..(q-1) : InPriority(threads, r) = {}
    /\ thread' = scan(PB_RR_INDEXES[q], InPriority(threads, q))
    /\ PB_RR_INDEXES' = [PB_RR_INDEXES EXCEPT ![q] = thread']
    /\ UNCHANGED RR_INDEX

getNext == \/ SCHED_POLICY = "RR" /\ getNextRoundRobin
           \/ SCHED_POLICY = "PB" /\ getNextPB

\* thread = next; on its first run the thread enters wrap_function.
switch == getNext /\ threads' = [threads EXCEPT ![thread'].firstRun = FALSE]

-----------------------------------------------------------------------------
\* The program calls the package.  A thread without a stack runs over the
\* program's own text; what that does is not followed.
Calls == running /\ pc = "run" /\ esp # NULL

\* Callers keep to the priorities 0..9 that uthread.h allows.  Nobody looks
\* whether malloc has returned 0.
uthread_create(priority) ==
  /\ Calls /\ next_tid <= MaxTid
  /\ \E i \in Index :
       /\ threads[i].tid = 0 /\ \A j \in 0..(i-1) : threads[j].tid # 0
       /\ threads' = [threads EXCEPT ![i] = [tid |-> next_tid, priority |-> priority, firstRun |-> TRUE]]
       /\ \/ stacks' = stacks \cup {i} /\ ss_sp' = [ss_sp EXCEPT ![i] = i]
          \/ stacks' = stacks /\ ss_sp' = [ss_sp EXCEPT ![i] = NULL]
  /\ next_tid' = next_tid + 1 /\ numberOfCT' = numberOfCT + 1
  /\ UNCHANGED <<SCHED_POLICY, thread, indexes, esp, pc, running>>

\* Called once, by main.  The first thread enters wrap_function before the loads,
\* and so runs on main's stack.  (With no thread in the table the searches do not
\* end well; main creates one first.)
uthread_start_all ==
  /\ Calls /\ thread = NULL /\ Live(threads) # {}
  /\ switch
  /\ UNCHANGED <<SCHED_POLICY, ss_sp, stacks, next_tid, numberOfCT, esp, pc, running>>

uthread_yield ==
  /\ Calls /\ thread # NULL
  /\ switch
  /\ ss_sp' = [ss_sp EXCEPT ![thread] = esp] /\ esp' = ss_sp'[thread']
  /\ UNCHANGED <<SCHED_POLICY, stacks, next_tid, numberOfCT, pc, running>>

\* The first entry with the tid of the thread is cleared.
freeThread ==
  LET i == CHOOSE i \in Index : /\ threads[i].tid = threads[thread].tid
                                /\ \A j \in 0..(i-1) : threads[j].tid # threads[thread].tid
  IN [threads EXCEPT ![i].tid = 0, ![i].priority = PRIORITIES]

\* Mutant: the count is not decremented.
uthread_exitNoCount ==
  /\ Calls /\ thread # NULL /\ thread \in stacks
  /\ threads' = freeThread /\ stacks' = stacks \ {thread}
  /\ pc' = IF numberOfCT = 1 THEN "last" ELSE "switch"
  /\ UNCHANGED <<SCHED_POLICY, ss_sp, thread, indexes, next_tid, numberOfCT, esp, running>>

\* Up to the return of freeThread.
uthread_exit ==
  /\ Calls /\ thread # NULL /\ thread \in stacks
  /\ numberOfCT' = numberOfCT - 1
  /\ threads' = freeThread /\ stacks' = stacks \ {thread}
  /\ pc' = IF numberOfCT = 1 THEN "last" ELSE "switch"
  /\ UNCHANGED <<SCHED_POLICY, ss_sp, thread, indexes, next_tid, esp, running>>

\* The first thread, if malloc failed for it: free(0) reads at the top of the
\* address space, and the kernel kills the process.
exitFault ==
  /\ Calls /\ thread # NULL /\ thread \notin stacks
  /\ numberOfCT' = numberOfCT - 1 /\ running' = FALSE
  /\ UNCHANGED <<SCHED_POLICY, threads, ss_sp, stacks, thread, indexes, next_tid, esp, pc>>

exitLast ==
  /\ running /\ pc = "last" /\ running' = FALSE
  /\ UNCHANGED <<SCHED_POLICY, threads, ss_sp, stacks, thread, indexes, next_tid, numberOfCT, esp, pc>>

exitSwitch ==
  /\ running /\ pc = "switch" /\ switch
  /\ esp' = ss_sp[thread'] /\ pc' = "run"
  /\ UNCHANGED <<SCHED_POLICY, ss_sp, stacks, next_tid, numberOfCT, running>>

uthread_setpr(priority) ==
  /\ Calls /\ thread # NULL
  /\ threads' = [threads EXCEPT ![thread].priority = priority]
  /\ UNCHANGED <<SCHED_POLICY, ss_sp, stacks, thread, indexes, next_tid, numberOfCT, esp, pc, running>>

Next == \/ \E q \in Priority : uthread_create(q) \/ uthread_setpr(q)
        \/ uthread_start_all \/ uthread_yield
        \/ uthread_exit \/ exitFault \/ exitLast \/ exitSwitch

Spec == Init /\ [][Next]_vars
\* Threads cooperate: each one yields (or exits) in the end.  uthread_exit does
\* not wait for anything.
FairSpec == Spec /\ WF_vars(uthread_yield) /\ WF_vars(exitLast \/ exitSwitch)
-----------------------------------------------------------------------------
(* Properties. *)

TypeOK ==
  /\ SCHED_POLICY \in {"RR", "PB"}
  /\ threads \in [Index -> [tid : 0..MaxTid, priority : 0..PRIORITIES, firstRun : BOOLEAN]]
  /\ ss_sp \in [Index -> Place] /\ stacks \subseteq Index /\ thread \in Index \cup {NULL}
  /\ PB_RR_INDEXES \in [Priority -> -1..(MAX_UTHREADS-1)] /\ RR_INDEX \in -1..(MAX_UTHREADS-1)
  /\ next_tid \in 1..(MaxTid + 1) /\ numberOfCT \in 0..MAX_UTHREADS
  /\ esp \in Place /\ pc \in {"run", "last", "switch"} /\ running \in BOOLEAN

\* The stack that a thread of the table is on or will go on.
StackOf(i) == IF i = thread THEN esp ELSE ss_sp[i]

\* The thread that runs is in the table and has started.  Each thread of the
\* table is on the stack allocated for it, or on main's (uthread_start_all leaves the
\* first one there), or, if malloc failed, on none; no stack is used by two.  The
\* stack on which uthread_exit goes on after freeThread is that of no other thread
\* and is not allocated to one, like main's before uthread_start_all.
\* numberOfCT counts the table: the process exits exactly with the last thread.
OneStackEach ==
  running =>
    /\ thread # NULL /\ pc = "run" => thread \in Live(threads) /\ ~threads[thread].firstRun
    /\ numberOfCT = Cardinality(Live(threads)) /\ stacks \subseteq Live(threads)
    /\ \A i \in Live(threads) : StackOf(i) \in {MAIN, IF i \in stacks THEN i ELSE NULL}
    /\ \A i, j \in Live(threads) : i # j => threads[i].tid # threads[j].tid
    /\ \A i, j \in Live(threads) : i # j /\ StackOf(i) = StackOf(j) => StackOf(i) = NULL
    /\ pc # "run" \/ thread = NULL =>
         esp \notin stacks /\ \A i \in Live(threads) : StackOf(i) # esp
    /\ pc = "last" => Live(threads) = {}
    /\ pc = "switch" => Live(threads) # {}

Top(i) == \A j \in Live(threads) : threads[i].priority <= threads[j].priority

\* Under priorities a switch goes to a thread that no live thread is above.
HighestFirst ==
  [][(/\ SCHED_POLICY = "PB"
      /\ uthread_start_all \/ uthread_yield \/ exitSwitch) => Top(thread)']_vars

\* Round robin: a thread that stays in the table, with no thread above it, runs
\* again and again, whatever the others do, as long as none runs without a stack.
Runs(t)  == thread # NULL /\ threads[thread].tid = t
OnTop(t) == \E i \in Live(threads) : threads[i].tid = t /\ (SCHED_POLICY = "PB" => Top(i))
NoStarvation ==
  \A t \in 1..MaxTid :
    <>[](running /\ thread # NULL /\ esp # NULL /\ OnTop(t)) => []<>Runs(t)
=============================================================================
