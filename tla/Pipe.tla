-------------------------------- MODULE Pipe --------------------------------
(***************************************************************************)
(* A pipe (pipe.c) shared by readers and writers.  The loops run under     *)
(* p->lock, one byte a step; sleep gives the lock up and is atomic with    *)
(* respect to wakeup, which is shown in Sched.                             *)
(*                                                                         *)
(* Every process has its end open through a struct file of its own         *)
(* reference, so fileclose reaches pipeclose when the last of them has     *)
(* closed that end, outside any call.                                      *)
(***************************************************************************)
EXTENDS Integers, Sequences

CONSTANTS Reader, Writer,  \* the processes
          Byte,
          PIPESIZE,
          UINT,            \* 2^32: nread and nwrite count modulo UINT
          MaxN,            \* bound: the largest n of a read or write
          NULL

ASSUME PipeAssumption ==
  /\ PIPESIZE \in Nat \ {0} /\ UINT \in Nat
  /\ UINT > PIPESIZE /\ UINT % PIPESIZE = 0
  /\ MaxN \in Nat
  /\ Reader \cap Writer = {} /\ NULL \notin Reader \cup Writer

Proc == Reader \cup Writer
Slot == 0..(PIPESIZE - 1)

VARIABLES
  data, nread, nwrite, readopen, writeopen,  \* struct pipe
  lock,      \* the holder of p->lock, or NULL
  pc,        \* where a process is
  left,      \* n - i: the bytes its call has still to copy
  killed     \* p->killed

vars == <<data, nread, nwrite, readopen, writeopen, lock, pc, left, killed>>
ring == <<data, nread, nwrite>>
ends == <<readopen, writeopen>>

\* pipealloc
Init ==
  /\ \E b \in Byte : data = [k \in Slot |-> b]
  /\ nread = 0 /\ nwrite = 0
  /\ readopen = TRUE /\ writeopen = TRUE
  /\ lock = NULL
  /\ pc = [p \in Proc |-> "user"]
  /\ left = [p \in Proc |-> 0]
  /\ killed = [p \in Proc |-> FALSE]

Full  == nwrite = (nread + PIPESIZE) % UINT
Empty == nread = nwrite

\* The process p goes to l; those asleep at s (if any) are woken.
GotoWaking(p, l, s, woken) ==
  pc' = [q \in Proc |-> IF q = p THEN l ELSE IF pc[q] = s THEN woken ELSE pc[q]]
wakeReaders(p, l) == GotoWaking(p, l, "rSleep", "rWoken")  \* wakeup(&p->nread)
wakeWriters(p, l) == GotoWaking(p, l, "wSleep", "wWoken")  \* wakeup(&p->nwrite)

acquire(p, from, to) == /\ pc[p] = from /\ lock = NULL /\ lock' = p
                        /\ pc' = [pc EXCEPT ![p] = to]

\* A call is made by a process that is not killed and has its end open.
Call(p, open, to) ==
  /\ ~killed[p] /\ open
  /\ acquire(p, "user", to)
  /\ \E n \in 1..MaxN : left' = [left EXCEPT ![p] = n]
  /\ UNCHANGED <<ring, ends, killed>>

-----------------------------------------------------------------------------
pipewrite(p) == Call(p, writeopen, "write")

\* Mutant: the ring is taken to be full one byte too late.
writeByteOver(p) ==
  /\ pc[p] = "write" /\ left[p] > 0 /\ nwrite # (nread + PIPESIZE + 1) % UINT
  /\ \E b \in Byte : data' = [data EXCEPT ![nwrite % PIPESIZE] = b]
  /\ nwrite' = (nwrite + 1) % UINT
  /\ left' = [left EXCEPT ![p] = @ - 1]
  /\ UNCHANGED <<nread, ends, lock, pc, killed>>

writeByte(p) ==
  /\ pc[p] = "write" /\ left[p] > 0 /\ ~Full
  /\ \E b \in Byte : data' = [data EXCEPT ![nwrite % PIPESIZE] = b]
  /\ nwrite' = (nwrite + 1) % UINT
  /\ left' = [left EXCEPT ![p] = @ - 1]
  /\ UNCHANGED <<nread, ends, lock, pc, killed>>

writeFail(p) ==
  /\ pc[p] = "write" /\ left[p] > 0 /\ Full
  /\ ~readopen \/ killed[p]
  /\ lock' = NULL /\ left' = [left EXCEPT ![p] = 0]
  /\ pc' = [pc EXCEPT ![p] = "user"]
  /\ UNCHANGED <<ring, ends, killed>>

\* Mutant: the writer sleeps without waking the readers.
writeSleepNoWakeup(p) ==
  /\ pc[p] = "write" /\ left[p] > 0 /\ Full
  /\ readopen /\ ~killed[p]
  /\ lock' = NULL
  /\ pc' = [pc EXCEPT ![p] = "wSleep"]
  /\ UNCHANGED <<ring, ends, left, killed>>

writeSleep(p) ==
  /\ pc[p] = "write" /\ left[p] > 0 /\ Full
  /\ readopen /\ ~killed[p]
  /\ wakeReaders(p, "wSleep")
  /\ lock' = NULL
  /\ UNCHANGED <<ring, ends, left, killed>>

writeWoken(p) == acquire(p, "wWoken", "write") /\ UNCHANGED <<ring, ends, left, killed>>

writeDone(p) ==
  /\ pc[p] = "write" /\ left[p] = 0
  /\ wakeReaders(p, "user")
  /\ lock' = NULL
  /\ UNCHANGED <<ring, ends, left, killed>>

-----------------------------------------------------------------------------
piperead(p) == Call(p, readopen, "read")

readFail(p) ==
  /\ pc[p] = "read" /\ Empty /\ writeopen /\ killed[p]
  /\ lock' = NULL /\ left' = [left EXCEPT ![p] = 0]
  /\ pc' = [pc EXCEPT ![p] = "user"]
  /\ UNCHANGED <<ring, ends, killed>>

readSleep(p) ==
  /\ pc[p] = "read" /\ Empty /\ writeopen /\ ~killed[p]
  /\ lock' = NULL
  /\ pc' = [pc EXCEPT ![p] = "rSleep"]
  /\ UNCHANGED <<ring, ends, left, killed>>

readWoken(p) == acquire(p, "rWoken", "read") /\ UNCHANGED <<ring, ends, left, killed>>

readStart(p) ==
  /\ pc[p] = "read" /\ (~Empty \/ ~writeopen)
  /\ pc' = [pc EXCEPT ![p] = "copy"]
  /\ UNCHANGED <<ring, ends, lock, left, killed>>

\* Mutant: the counter wraps with the ring, as an index would.
readByteWrap(p) ==
  /\ pc[p] = "copy" /\ left[p] > 0 /\ ~Empty
  /\ nread' = (nread + 1) % PIPESIZE
  /\ left' = [left EXCEPT ![p] = @ - 1]
  /\ UNCHANGED <<data, nwrite, ends, lock, pc, killed>>

\* addr[i] = p->data[p->nread++ % PIPESIZE]
readByte(p) ==
  /\ pc[p] = "copy" /\ left[p] > 0 /\ ~Empty
  /\ nread' = (nread + 1) % UINT
  /\ left' = [left EXCEPT ![p] = @ - 1]
  /\ UNCHANGED <<data, nwrite, ends, lock, pc, killed>>

readDone(p) ==
  /\ pc[p] = "copy" /\ (left[p] = 0 \/ Empty)
  /\ wakeWriters(p, "user")
  /\ lock' = NULL /\ left' = [left EXCEPT ![p] = 0]
  /\ UNCHANGED <<ring, ends, killed>>

-----------------------------------------------------------------------------
\* pipeclose: one section under p->lock.
pipecloseWrite ==
  /\ lock = NULL /\ writeopen /\ \A p \in Writer : pc[p] = "user"
  /\ writeopen' = FALSE
  /\ pc' = [q \in Proc |-> IF pc[q] = "rSleep" THEN "rWoken" ELSE pc[q]]
  /\ UNCHANGED <<ring, readopen, lock, left, killed>>

\* Mutant: closing the read end wakes the readers.
pipecloseReadWrongChan ==
  /\ lock = NULL /\ readopen /\ \A p \in Reader : pc[p] = "user"
  /\ readopen' = FALSE
  /\ pc' = [q \in Proc |-> IF pc[q] = "rSleep" THEN "rWoken" ELSE pc[q]]
  /\ UNCHANGED <<ring, writeopen, lock, left, killed>>

pipecloseRead ==
  /\ lock = NULL /\ readopen /\ \A p \in Reader : pc[p] = "user"
  /\ readopen' = FALSE
  /\ pc' = [q \in Proc |-> IF pc[q] = "wSleep" THEN "wWoken" ELSE pc[q]]
  /\ UNCHANGED <<ring, writeopen, lock, left, killed>>

\* Somebody kills p: the mark, and a sleeper becomes RUNNABLE.
kill(p) ==
  /\ ~killed[p]
  /\ killed' = [killed EXCEPT ![p] = TRUE]
  /\ pc' = [pc EXCEPT ![p] = IF @ = "rSleep" THEN "rWoken" ELSE IF @ = "wSleep" THEN "wWoken" ELSE @]
  /\ UNCHANGED <<ring, ends, lock, left>>

Locked(p) == \/ writeByte(p) \/ writeFail(p) \/ writeSleep(p) \/ writeDone(p)
             \/ readFail(p) \/ readSleep(p) \/ readStart(p) \/ readByte(p) \/ readDone(p)
Woken(p)  == writeWoken(p) \/ readWoken(p)

Next == \/ \E p \in Writer : pipewrite(p)
        \/ \E p \in Reader : piperead(p)
        \/ \E p \in Proc : Locked(p) \/ Woken(p) \/ kill(p)
        \/ pipecloseWrite \/ pipecloseRead

Spec == Init /\ [][Next]_vars

\* The holder of the lock runs on, and a woken process gets the lock in the end.
FairSpec == Spec /\ \A p \in Proc : WF_vars(Locked(p)) /\ SF_vars(Woken(p))
-----------------------------------------------------------------------------
(* Properties. *)

TypeOK ==
  /\ data \in [Slot -> Byte] /\ nread \in 0..(UINT-1) /\ nwrite \in 0..(UINT-1)
  /\ readopen \in BOOLEAN /\ writeopen \in BOOLEAN
  /\ lock \in Proc \cup {NULL}
  /\ pc \in [Proc -> {"user", "write", "wSleep", "wWoken", "read", "copy", "rSleep", "rWoken"}]
  /\ left \in [Proc -> 0..MaxN]
  /\ killed \in [Proc -> BOOLEAN]

\* The bytes between nread and nwrite.
Count == (nwrite - nread) % UINT
queue == [k \in 1..Count |-> data[(nread + k - 1) % PIPESIZE]]

\* The ring is a queue of at most PIPESIZE bytes, also when nread and nwrite
\* have wrapped around: no byte is overwritten, lost or read twice.
CH == INSTANCE Channel WITH readable <- readopen, writable <- writeopen
FIFO == CH!Spec

\* No sleeper is forgotten: while a reader sleeps although there is a byte, or
\* no writer left, a writer holds the lock and is going to wake it; and so for a
\* writer that sleeps although there is room, or no reader left.  (A writer that
\* was killed leaves the loop without wakeup; its readers wait for the next
\* write or for the last close.)
NoForgottenSleeper ==
  \A p \in Proc :
    /\ pc[p] = "rSleep" /\ ~(Empty /\ writeopen) =>
         lock \in Writer \/ \E w \in Writer : killed[w]
    /\ pc[p] = "wSleep" /\ ~(Full /\ readopen) => lock \in Reader

\* A writer blocked on a full pipe returns once the read end is closed or it is
\* killed, and a reader on an empty one likewise.
BlockedReturns ==
  /\ \A p \in Writer : pc[p] = "wSleep" /\ (~readopen \/ killed[p]) ~> pc[p] = "user"
  /\ \A p \in Reader : pc[p] = "rSleep" /\ (~writeopen \/ killed[p]) ~> pc[p] = "user"
=============================================================================
