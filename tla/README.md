# TLA+ models of the threaded xv6 kernel

This directory specifies the kernel in `src/`: the x86 teaching kernel xv6, extended with kernel
threads, kernel-thread mutexes and condition variables (`proc.c`) and a user-level thread package
(`uthread.c`). The modules follow the C code operation by operation. TLC checks them on small
instances. TLAPS proves the safety of the scheduler, the process table, the mutexes and the log for every
size.

`PROJECT.json` holds the same information for tools: components, runs, mutants, the map from
definitions to source lines, hazards and theorems.

## The system and its parts

| Part | Source | State | Operations | Module |
|---|---|---|---|---|
| Scheduler, sleep/wakeup | `proc.c`, `swtch.S` | `p->state`, `p->chan`, contexts, `cpu->proc` | `scheduler`, `sched`, `yield`, `sleep`, `wakeup`, `kill`, `forkret` | `Sched` |
| Spin locks, interrupt flags | `spinlock.c` | `lk->locked`, `cpu->ncli`, `cpu->intena`, FL_IF | `acquire`, `release`, `pushcli`, `popcli` | `Sched` |
| Interrupts | `trap.c` | the interrupted context | clock (forced yield, forced exit), device | `Sched` (partly) |
| Processes | `proc.c` | `ptable`: state, pid, parent, killed, chan, pgdir | `fork`, `exit`, `wait`, `kill` | `ProcTable` |
| Kernel threads | `proc.c` | `threadId`, `sleepingThreads`, `nextThread` | `kthread_create`, `kthread_exit`, `kthread_join` | `ProcTable` |
| Mutexes, condition variables | `proc.c`, `kthread.h` | `mtable`, `ctable`, their queues | alloc, dealloc, lock, unlock, wait, signal | `KSync` |
| Log | `log.c` | header and blocks on disk, `log.lh`, `log.busy` | `begin_trans`, `log_write`, `commit_trans`, recovery | `Log`, `AtomicDisk` |
| Buffer cache, disk driver | `bio.c`, `ide.c` | buffers, flags, LRU list, `idequeue` | `bread`, `bwrite`, `brelse`, `iderw`, `ideintr` | `BufCache` |
| Pipes | `pipe.c` | ring, `nread`, `nwrite`, open ends | `pipewrite`, `piperead`, `pipeclose` | `Pipe`, `Channel` |
| User-level threads | `uthread.c` | `threads`, `PB_RR_INDEXES`, `RR_INDEX` | create, start, yield, exit, setpr | `Uthread` |
| Inodes, directories, path names | `fs.c`, `sysfile.c` | inode cache, link counts, entries, `cwd` | `iget`, `ilock`, `iput`, `namex`; open, create, link, unlink, chdir, close | `FileSys` |
| Open files and file content | `file.c`, `fs.c`, `sysfile.c`, `mkfs.c` | `ftable`, `ofile`, blocks, bitmap | open, dup, pipe, read, write, close; `balloc`, `bmap`, `writei`, `itrunc` | `FileData`, `Mkfs` |
| Virtual memory, loading, pages | `vm.c`, `exec.c`, `kalloc.c`, `syscall.c`, `proc.c` | page directories, `proc->sz`, free list | `fork`, `exec`, `growproc`, `wait`; argument checks | `Vm` |
| User heap | `umalloc.c` | the circular free list | `malloc`, `free`, `morecore` | `Umalloc` |
| Console | `console.c` | input ring | | not modelled |

How they interact. Everything that blocks goes through `sleep`/`wakeup`, which stand on `ptable.lock`
being handed from one context to another through `swtch`. Pipes, the log, the buffer cache and the
disk driver are monitors built on it. `Sched` treats them all as one monitor, a lock and a
condition, and shows that `sleep` is atomic with respect to `wakeup`. The modules of those monitors
use that result: their `sleep` is a single step. The mutexes do not use `sleep`; they set `BLOCKING`
and call `sched` themselves, which is why `KSync` splits that window into two steps.

The file system is layered in the same way. `BufCache` shows that `bread` returns what was last written
to a sector and `Log` that a transaction is atomic, so `FileSys` and `FileData` treat the disk as shared
memory and a transaction as an exclusive section. `FileSys` has the names, references and link counts and
leaves out the content of files; `FileData` has the content and reduces an inode to linked, unlinked or
free. `FileData` in turn shows that no transaction of a write is larger than the log, so that a write never
reaches the panic of `log_write`, which is a crash in `Log`.
`Vm` refines the address spaces that `ProcTable` only counts.

What makes the code hard to test: locks acquired by one context and released by another; state
published while the process still runs on the stack it gives up; interrupt state kept per cpu though
it belongs to a context; a gap between enqueueing and blocking; a crash between any two disk writes,
also during recovery; buffers recycled under a sleeper; counters that wrap; an inode freed while another
call finds it in the cache; memory that runs out half way through a fork or an exec. The list with lines is
under `hazards` in `PROJECT.json`.

## Modules

**Sched.** A context is a kernel stack with a saved program counter. There is one per process and one
per cpu (its scheduler). `on[c]` is the context cpu `c` executes and `swtch` changes nothing else. Each
step is one lock operation or the code between two of them. `ptLock` and `lk` are `ptable.lock` and the
lock of the monitor. `ncli`, `intena` and `IF_` are per cpu; `sint[p]` is the local `intena` of
`sched`. `consume` and `produce` are the two halves of a monitor (for example `piperead` and
`pipewrite`). `trapTimer` and `trapDevice` interrupt a context whenever `IF_` allows it. `exit` and `wait`
are present as far as they change `p->state` and free the stack.

**ProcTable.** The entries of `ptable`. A section under `ptable.lock` is one step; unlocked code that
others can observe half way (fork between `allocproc` and `RUNNABLE`, `kthread_create`, the gap
between the count in `kthread_exit` and `New_exit`) is split. `RUNNABLE` also stands for `RUNNING`. `waited` and `asked` are
history variables. `ProcSpec` has single-threaded processes only, `Spec` has kernel threads.

**KSync.** The tables of mutexes and conds with their circular queues, translated with the indices the
code computes. `mtLock` and `ctLock` are held across steps. `held[t]` records the mutexes thread `t` was
told it locked; `foreign` is a history variable, with the threads that have unlocked a mutex they did not hold.
`threadId` is any function to the integers: `fork` gives every main thread the id -1, and `mtable` is one
table for all processes. A queue can be emptied more often than it is filled, since `unlock` decides by a stale entry whether
somebody waits; `rem` is C's remainder, `store` says where a negative index goes (the `tid` of the
mutex, or the queue of the mutex before it), and `lockSpin` is the loop of `isInQueue` that does not end when
`checkUntil` is negative, with `mtable.lock` held for ever. Sections under `ptable.lock` are one step, so
its place behind the other two locks is by construction and not part of `LockOrder`. `MutexSpec` has mutexes only, `Spec` adds
conds, `WaitHeldSpec` lets a thread wait on a cond only while it holds the mutex.

**Log** over **AtomicDisk.** The disk is the home blocks, the log blocks and the header; a step makes
at most one disk write. Memory is the in-memory header, `log.busy`, the cached contents of the home
blocks and the `B_DIRTY` marks. `Crash` resets memory at any point. `AtomicDisk` has two copies of the
blocks, `stable` and `current`, and steps `Begin`, `Write`, `Commit`, `Crash`. The mapping takes
`stable` to the home blocks overlaid with the entries of the on-disk header, `current` to what `bread` returns.

**BufCache.** `bget` (hit, sleep, recycle), `bread`, `bwrite`, `brelse` with the LRU order, the request
queue and the interrupt handler. `content` is a history variable with what was last put in each sector.
`ErrSpec` adds a disk that reports an error.

**Pipe** over **Channel.** `pipewrite`, `piperead` one byte a step under `p->lock`, `pipeclose`, `kill`.
`nread` and `nwrite` count modulo `UINT`. `Channel` is a bounded first-in first-out queue with two ends; the mapping
takes its queue to the bytes between `nread` and `nwrite`.

**Uthread.** The table of user threads and both scheduling policies. `SCHED_POLICY` is a static int that
the source sets to `SCHED_PB` (`uthread.c:7`) and never assigns; `Init` takes either value. `stacks` are the
stacks `malloc` has returned, `esp` the one the processor is on, `ss_sp` where each thread goes on. The first thread
runs on the stack of `main`, because `uthread_start_all` calls it before the loads. `malloc` may fail, which nobody
looks at; the thread then has no stack (`NULL`). `uthread_exit` is two steps: after `freeThread` the thread still
runs, on the stack it has freed, until the switch.

**FileSys.** One step is a critical section of `icache.lock`, or what a call does between `ilock` and
`iunlock` when it takes no other lock in between; a lock that is kept (unlink, create) is a step of its
own. The inode cache is indexed by inode number: an entry with `ref = 0` is one that `iget` may recycle.
`iput` has its four stages, because it lets go of `icache.lock` while it writes the disk. A directory is a
function from names and `".."` to inodes; a path is a sequence of names and slashes that `skipelem` takes apart.
`puts` are the inodes a call is about to `iput`, `k` where it goes on then. `lost` is a history variable: the
removed directories in which something was entered, and what was entered in them or in a lost directory.

**FileData** over **Mkfs.** `Mkfs` builds the disk that `FileData` starts from, with the layout of `fs.h`:
inode addresses, one indirect block per file, bitmap and log region. A step is a critical section of
`ftable.lock`, the work under an inode lock, or one round of `writei`. A process writes its own number, so the
content shows who wrote what. `text` and `moved` are history variables: the content that the calls have
given each file, and the bytes that went through each open file. `log` holds the sectors of the running
transaction, in order to meet the limit of `log_write`.

**Vm.** A page directory is a record with every page it owns; `mappages` takes the page and, if needed,
its page table from the free list. Mapping goes page by page, so that two processes compete for the last
pages. `gone` collects the pages that other parts of the kernel hold and those an error path forgets;
`hole` the addresses that `allocuvm` counts without having mapped them. `Taken` makes memory run out at
different points. The exit of a child and its `wait` are one step here.

**Umalloc.** `malloc` and `free` as functions from a heap to a heap. There is nothing concurrent in them,
so `MCVm` evaluates all sequences of six calls as an assumption (`HeapSound`): free and allocated blocks
partition the heap, the list is in address order and joined up, and `malloc` fails only for lack of room.

`MC*` modules add symmetry sets and constant functions for TLC. Definitions marked *Mutant* are
deliberately wrong variants of the definition that follows them. Each one breaks a property when
substituted, which shows that the property depends on that code.

## Runs

| Run | Instance | Shows |
|---|---|---|
| `sched` | 2 cpus, 2 slots | stack exclusion, no lost wakeup, balanced `ncli`, no panic, interrupt state, no deadlock, `EventuallyRuns` |
| `ksync_mutex` | 3 threads with ids -1, -1, 1; 1 mutex, queue of 3 | held twice only after a thread with a shared id has unlocked it for another; LOCKED(tid) means held, and tid that of a holder or of a waiter |
| `ksync_cond` | 2 threads, 1 mutex, 1 cond, queues of 2 | `ctable.lock` before `mtable.lock`, neither kept while blocked |
| `proc` | 3 slots, pids to 4 | live parents, address spaces neither shared nor leaked, no entry lost, unique pids, `WaitReturns` |
| `proc_threads` | 4 slots, pids to 4 | the thread that reports the exit is the last |
| `log` | 3 processes, 3 blocks, room for 2 log entries | refinement of `AtomicDisk` (atomic, one transaction at a time) with crashes everywhere, no waiter left behind |
| `bufcache` | 2 processes, 3 sectors, 2 buffers | one buffer per sector, `bread` returns the last write, exact queue, requests end |
| `pipe` | 1 reader, 2 writers, 2 slots, counters mod 4 | refinement of `Channel`, no forgotten sleeper, blocked calls return |
| `uthread` | 4 entries, 2 priorities, 5 tids | no two threads on one stack, exact count, highest priority first, no starvation |
| `fs` | 2 processes, 4 inodes, 3 calls on 6 paths | references, cached inodes and link counts exact; no circular wait; the assertions of `fs.c` hold |
| `filedata` | 2 processes, 2 files, 3 open files, 2 descriptors, 4 calls | table of open files, content and bitmap exact; no chunk overflows the log |
| `vm` | 2 processes, 4 user pages, 15 physical pages, 4 calls | every page free or in one place; accepted arguments are mapped; `HeapSound` |

Bounds. They are named constants: `MaxPid`, `MaxTid`, `MaxN`, `MaxPinned`, `MaxCalls`, and
`MaxCount` of `KSync` (no call starts on a queue whose count is further from zero). Tables are one entry smaller than the demand on them, so that they fill up: fewer buffers than
sectors, fewer log entries than blocks, a ring shorter than a write, fewer pids than forks. Pipe
counters wrap after two turns of the ring. The three threads of `ksync_mutex` drive the queue around
its three entries and its count below zero; two threads come to hold the mutex, `store` overwrites its owner, and a
thread spins in `isInQueue`, so the exceptions in its two properties are met. `ksync_cond` keeps to counts of at most one. `pid` and `tid` bounds leave room for a slot to be reused.
`NBUF`, `LOGSIZE` and the sizes of the queues are 10, 10 and 256 in the kernel; no code depends on the
values beyond the comparisons the small ones exercise, except `isInQueue`, whose two moduli have a
ratio of 1 to 4. In the runs they are equal; the proofs cover the ratio.

`fs`: three calls are enough for one process to walk a path whose parts the other removes and makes again,
and for a removed directory to be a cwd. One inode is free, so that it is allocated, freed and allocated
again. `filedata`: blocks of two bytes and one direct address make a file of six bytes use the direct, the
indirect and both indirect entries; `LOGSIZE = 6` is the smallest with a chunk of a whole block. `vm`: `Taken` is chosen so that
memory runs out at the page directory, at the kernel page tables, at a user page and at a user page table.

Deadlock checking is on in `sched`. The others bound pids, tids or calls, or let every process exit or
close its ends, so they may legitimately stop.

Fairness. `sched`: a cpu executes the kernel code it has started (weak), and a pending clock interrupt
arrives when interrupts keep being enabled (strong), as the local APIC holds it pending. `proc`: a call
that has started goes on. `bufcache`: the disk finishes a request, a process inside `iderw` runs on,
and a holder releases its buffer, which every caller of `bread` does. `pipe`: the holder of the lock runs on
(weak), and a woken process gets the spin lock (strong); `acquire` is an unfair spin, so this is an assumption about
the hardware. `uthread`: the package is cooperative, so the running thread yields in the end, and `uthread_exit`
waits for nothing.

## Disagreements between the code and what it says of itself

Each is stated as a property in its module, with a comment, and does not hold; TLC finds a
counterexample when the property is checked with the specification named here. No run is kept for them.

* `NoStrandedThread` (KSync, `KSyncWakeup.cfg`): `kthread_mutex_lock` joins the queue, releases
  `mtable.lock`, and only then becomes `BLOCKING` (`proc.c:821`). An unlock in between removes it from the
  queue and wakes nobody. The thread then blocks on a free mutex.
* `IsInQueueExact` (KSync, `KSyncQueue.cfg`): `isInQueue` looks one entry too far and wraps at
  `MAX_MUTEXES` instead of `MAX_THREADS` (`proc.c:48`).
* `WaitedHasExited` (ProcTable, `ProcTableWait.cfg`): `wait` reaps the zombie of one thread while its
  siblings run, and frees the page directory they share (`proc.c:229`).
* `SignalGivesLock` (KSync, `WaitHeldSpec`), `ParentAlive` with kernel threads (ProcTable, `Spec`),
  `KilledWasAsked` (ProcTable, `kill(0)`), `BreadContents` under read errors (BufCache, `ErrSpec`).
* `WritesInTrans` (FileSys): `iput` frees an inode outside a transaction when `namex`, `sys_open`,
  `sys_chdir` or `exit` drops the last reference to it, and `log_write` panics (`fs.c:327`, `log.c:167`).
* `NamesAllocated`, `NoneLost` (FileSys): a removed directory that is still a cwd keeps its `".."`, which may
  name a freed inode, and still takes new entries (`sysfile.c:271`).
* `LogBlocksKept` (FileData, with `nblocks = 4`): `balloc` hands out the blocks of the log once the data blocks are used
  up, because `mkfs` leaves their bits clear (`fs.c:63`; `fs.h:8` puts the log behind the data blocks).
* `AllocReported` (Vm): `allocuvm` "Returns new size or 0 on error" (`vm.c:219`), but does not look at
  the result of `mappages`; `sbrk` down to size 0 frees everything and reports failure with `sz` unchanged.
* `GuardKept` (Vm): `copyuvm` maps the inaccessible page under the stack as an ordinary one in the child.

## Proofs

The proofs about `Sched` hold for any set of cpus and any number of slots, from `SchedAssumption` (at
least one slot; cpus are not slots; `NULL` is neither) and `NullAssumption`. `SchedProofs` begins with the
inductive invariant `Inv` and sorts the 37 actions into nine groups by what they do to the locks, the
stacks and the table. It shows that a step whose effect is `LockEffect`, `Local`, `StateKept` and
`ForksKept` preserves `Inv`, and that the six groups that stay on their stack have that effect; the three
that do not are treated one by one: `fork`, the way out through `sched`, and the switches.
Then come the types, two further invariants, and the theorems.

* `Invariance`: `Spec => []Inv`. `OneCpuPerStack` alone is not inductive: nothing in it keeps a scheduler
  from choosing a process that another cpu is still switching away from. `Inv` adds who holds which lock,
  read off the program counters (`LocksInv`); where a context may be when it executes and when it does not
  (`StackInv`); that a forked slot has one writer (`ForkInv`); when a return address is stored (`RetInv`); and
  that interrupts are off under a lock (`CliInv`).
* `TypeCorrectness`, `StackExclusion`, `StackSafety`, `CliBalance`, `PanicFreedom` follow from `Inv`.
* `WakeupSafety`: `WakeInv` adds that a sleeper between its test and `SLEEPING` still sees the condition
  false, or a producer is on its way to scan the table.
* `InterruptSafety`: `IntInv` tracks the saved `intena` of each context.

`KSyncProofs`, for any number of threads with any ids, of mutexes and of queue entries (`KSyncAssumption`: `MAX_MUTEXES` divides
`MAX_THREADS` and is at least 4, or they are equal): `Ownership` and `MutexExclusion` follow from `MInv`: the types and the
two properties, as a `Clause` per mutex. They are inductive together; exclusion alone is not, as a held mutex has to be locked. `MInv` does not mention the queue, so it holds whatever `isInQueue` answers; what has to be shown of the queue is that `store` reaches no
more than the `tid` of the mutex, and puts there the id of a thread that is waiting. A step leaves a mutex alone
(`Quiet`), takes it or gives it up. `DistinctExclusion`: threads whose ids all differ never hold a mutex together.
`SpinLockOrder` is about `Spec`, with conds. `LockOrder` says where the holder of
a spin lock is; it needs the converse (`LockInv`), that only the holder is there, or another thread could
release the lock.

`LogProofs`, for any processes, blocks, values and log size (`LogAssumption`): `LogAtomic` shows `Spec =>
Atomic`, the refinement of `AtomicDisk` with a crash after any step. The invariant `LInv` distinguishes the
phases of recovery (`read`, `recover`) and of a transaction (`in`, `append`, `install`) from `idle`. For each it says
which headers agree and how many entries are installed (`CommitInv`), which buffers are `B_DIRTY`
(`DirtyInv`) and which of log block and home block a buffer equals (`CacheInv`); a header names no block
twice (`HeadOK`), which is why log absorption matters. Two lemmas carry the refinement: installing or erasing
does not change what recovery would make of the disk (`StableKept`), and outside a running transaction a
reader sees just that (`ViewStable`). `NoWaiterLeft` needs `TransInv` only.

`ProcTableProofs`, for single-threaded processes (`ProcSpec`) and a table of any size
(`ProcTableAssumption`): `Parents`, `AddressSpaceSafety` and `PidUniqueness` from one invariant, `PInv`. They
need each other: `kthread_exit` frees the entries of the zombies with its pid, and leaves all address spaces
in place only because no other process has that pid. That no EMBRYO is lost (`EmbryosMade`) is part of `ForkInv`. `FinalExit` is about `Spec`, with kernel threads. Its
invariant `ThreadInv` adds that an entry under construction belongs to one caller and has a pid and a
program counter of a dead thread until it is published; otherwise a thread could join a process whose last
thread is already in `New_exit`.

`BufCacheProofs`, for any processes, sectors, values and number of buffers (`BufCacheAssumption`):
`BufferOwnership`, `ReadsLastWrite` and `DiskQueue` from one invariant, `BInv`. `Holder` says which process
owns a `B_BUSY` buffer; `Fresh` says where the last write of a sector is: in its `B_VALID` buffer, and on the
disk unless that buffer is `B_DIRTY`; `Queued` says whose requests are in the queue. `bget` may recycle a buffer only
because its search misses none, for which every buffer has to stay in the list (`Listed`), and a search
that fails means that no buffer has the sector (`SearchComplete`). The theorems are about `Spec`, without read errors.

`PipeProofs`, for any readers, writers and bytes, and any `PIPESIZE` that divides `UINT` (`PipeAssumption`):
`SleepersRemembered` from `WInv`, which says who is inside which call, that only the holder of the lock is in a loop, and
why each sleeper may sleep (a writer that sleeps although there is room needs a reader that has begun to copy; one
that only holds the lock is not enough). `PipeIsFIFO` shows `Spec => FIFO`, the
refinement of `Channel`. Its steps rest on arithmetic: `Count` is the distance of the counters whether or not one of them has
wrapped (`CountFacts`), a wrap is invisible in the ring (`WrapInvisible`), and `PIPESIZE` counters in a row use
different slots (`SlotsDistinct`).

`UthreadProofs`, for any table size, number of priorities and number of threads (`UthreadAssumption`):
`StacksApart` (which is `OneStackEach`) and `PriorityOrder` from `UInv`. The lemma behind them is `ScanFinds`: the search of
`getNextRoundRobin` and `getNextPB` ends at a thread of the table whenever there is one, from whatever index
it starts, `-1` included.

`FileSysProofs`, for any finite set of processes and of names, any number of inodes and cache entries, and any paths
(`FileSysAssumption`): `ReferencesExact`, `CacheAgrees`, `LocksReferenced` and `NoDeadlock` from `IInv`, which is `RefExact` and `FInv`.
They need each other. A pointer keeps its inode allocated only if it is counted, so that `iput` never frees
what another call has checked; and a count is exact only if nobody frees or recycles the entry meanwhile. `FInv` says which
pointers and which path a call has at each label (`Shape`), that no process, and no two together, have more pointers to an inode than
`ref` counts (`Lower`, all that a single step uses of the counts), that `I_BUSY` belongs to the call whose label says so, on a valid inode
(`Locked`), that a valid inode agrees with the disk and has a type, except one that `iput` has just freed (`Coherent`), who is inside the
transaction (`InTrans`), that the inodes which `link` checked stay what they were (`Checked`), and that no directory names itself
but by `".."` (`NoSelf`: `unlink` would lock the same inode twice). For each action a lemma shows `Kept`: `FInv` without `Lower`
holds after it, and it changes `ref` by what the pointers of its process change (`Balanced`). From there `RefExact`
is counting, and `Lower` follows from it. `NoDeadlock` comes from the invariant alone: whoever waits with a lock in hand is
inside the transaction, and what it waits for is held by a process that waits for nothing. `LocksReferenced` is the part of
`AssertionsHold` that is about locks (`LocksAsserted`).

Only model-checked: all liveness (`EventuallyRuns`, `WaitReturns`, `IderwReturns`, `BgetWoken`,
`BlockedReturns`, `NoStarvation`), which is out of the prover's reach; `LinkCounts` of `FileSys`, and of its `AssertionsHold` that
`unlink` finds `nlink >= 1`;
and every invariant of `FileData` and `Vm`. `Mkfs` (and with it `FileData`), `Vm` and `Umalloc` use recursive operators, about which
the prover cannot reason.

## Not modelled

Device register programming (`lapic.c`, `ioapic.c`, `picirq.c`, `uart.c`, `kbd.c`, the port protocol of
`ide.c`), boot and start-up, the segment registers and `switchuvm`, the dispatch table of `syscall.c`, `memide.c` and the
user programs: no interleaving or state beyond a single value. The console is left out; its input ring
works like the ring of a pipe.

`FileSys`, `FileData` and `Vm` have processes without kernel threads. Threads of one process have their own
copies of `ofile`, `cwd` and `sz` for the same files and the same page directory, and nothing orders their
calls (`file.c:63`, `proc.c:147`). `FileData` leaves out read-only and write-only files, device files and the
blocks of directories; a failed `readi` or `writei` moves no offset. `Vm` abstracts the content of
pages and checks arguments that are given by an address and a nonnegative size.

`KSync`: a store in front of the queue of the first mutex by more than one entry lies outside `mtable` and is left out. Ids do not
change, so a thread that ends inside a call, and an id that two racing `kthread_create` give out twice, appear only as
threads with equal ids. `Uthread` does not follow a thread that runs without a stack, nor calls with a priority that `uthread.h` does not
allow.

## Next

1. Proofs: the link counts of `FileSys`.
2. `FileData` and `Vm` with several threads per process.
3. `Console`.
