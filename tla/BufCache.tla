------------------------------ MODULE BufCache ------------------------------
(***************************************************************************)
(* The buffer cache (bio.c) and the disk driver below it (ide.c): bread,   *)
(* bwrite and brelse by several processes, the request queue, and the      *)
(* interrupt handler.                                                      *)
(*                                                                         *)
(* A section under bcache.lock or idelock is one step.  bget and iderw     *)
(* both sleep on the buffer, so ideintr and brelse wake the sleepers of    *)
(* both.  A process holds one buffer at a time.                            *)
(***************************************************************************)
EXTENDS Integers, Sequences, FiniteSets

CONSTANTS Proc, Sector, Val,
          NBUF,
          MaxPinned,   \* bound: B_DIRTY buffers that wait for the log's commit
          NULL

ASSUME BufCacheAssumption == NBUF \in Nat \ {0} /\ MaxPinned \in Nat /\ NULL \notin Sector

Buf == 1..NBUF

VARIABLES
  sector,     \* b->sector, NULL for dev = -1
  busy, valid, dirty,   \* the buffers with B_BUSY, B_VALID, B_DIRTY
  data,       \* b->data
  list,       \* the buffers from bcache.head.next on: most recently used first
  disk,       \* the sectors
  idequeue,   \* the requests
  active,     \* the request the disk works on, NULL when it is idle
  pc, buf,    \* where a process is, and its b
  want,       \* the sector it passed to bread
  content     \* history: what was last put into a buffer of the sector

vars == <<sector, busy, valid, dirty, data, list, disk, idequeue, active, pc, buf, want, content>>
ide  == <<disk, idequeue, active>>

\* binit, which builds the list by inserting at its head.
Init ==
  /\ sector = [b \in Buf |-> NULL]
  /\ busy = {} /\ valid = {} /\ dirty = {}
  /\ \E v \in Val : /\ disk = [s \in Sector |-> v] /\ content = disk
                    /\ data = [b \in Buf |-> v]
  /\ list = [k \in Buf |-> NBUF + 1 - k]
  /\ idequeue = << >> /\ active = NULL
  /\ pc = [p \in Proc |-> "user"]
  /\ buf = [p \in Proc |-> NULL] /\ want = [p \in Proc |-> NULL]

Goto(p, l) == pc' = [pc EXCEPT ![p] = l]

\* wakeup(b), on a pc function.
wakeup(f, b) ==
  [q \in Proc |-> IF buf[q] = b /\ f[q] = "getSleep" THEN "get"
                  ELSE IF buf[q] = b /\ f[q] = "ideSleep" THEN "ideWoken" ELSE f[q]]

-----------------------------------------------------------------------------
(* bio.c *)

bread(p, s) ==
  /\ pc[p] = "user" /\ want' = [want EXCEPT ![p] = s] /\ Goto(p, "get")
  /\ UNCHANGED <<sector, busy, valid, dirty, data, list, ide, buf, content>>

\* b is the first buffer of the list that caches the sector.
Cached(s, b) ==
  \E k \in DOMAIN list : /\ list[k] = b /\ sector[b] = s
                         /\ \A j \in 1..(k - 1) : sector[list[j]] # s

bgetHit(p) ==
  /\ pc[p] = "get"
  /\ \E b \in Buf :
       /\ Cached(want[p], b) /\ b \notin busy
       /\ busy' = busy \cup {b}
       /\ buf' = [buf EXCEPT ![p] = b]
       /\ Goto(p, IF b \in valid THEN "held" ELSE "rw")
  /\ UNCHANGED <<sector, valid, dirty, data, list, ide, want, content>>

bgetSleep(p) ==
  /\ pc[p] = "get"
  /\ \E b \in Buf : Cached(want[p], b) /\ b \in busy /\ buf' = [buf EXCEPT ![p] = b]
  /\ Goto(p, "getSleep")
  /\ UNCHANGED <<sector, busy, valid, dirty, data, list, ide, want, content>>

\* b is the last buffer of the list that is not in taken.
LastOf(b, taken) ==
  \E k \in DOMAIN list : /\ list[k] = b /\ b \notin taken
                         /\ \A j \in (k + 1)..NBUF : list[j] \in taken

\* Mutant: the search does not look for B_BUSY buffers.
bgetRecycleBusy(p) ==
  /\ pc[p] = "get" /\ \A b \in Buf : ~ Cached(want[p], b)
  /\ \E b \in Buf :
       /\ LastOf(b, dirty)
       /\ sector' = [sector EXCEPT ![b] = want[p]]
       /\ busy' = busy \cup {b} /\ valid' = valid \ {b}
       /\ buf' = [buf EXCEPT ![p] = b]
  /\ Goto(p, "rw")
  /\ UNCHANGED <<dirty, data, list, ide, want, content>>

\* Mutant: the recycled buffer stays B_VALID.
bgetRecycleValid(p) ==
  /\ pc[p] = "get" /\ \A b \in Buf : ~ Cached(want[p], b)
  /\ \E b \in Buf :
       /\ LastOf(b, busy \cup dirty)
       /\ sector' = [sector EXCEPT ![b] = want[p]]
       /\ busy' = busy \cup {b}
       /\ buf' = [buf EXCEPT ![p] = b]
       /\ Goto(p, IF b \in valid THEN "held" ELSE "rw")
  /\ UNCHANGED <<valid, dirty, data, list, ide, want, content>>

\* Not cached: the least recently used buffer that is neither busy nor dirty.
\* When there is none bget panics and the system stops.
bgetRecycle(p) ==
  /\ pc[p] = "get" /\ \A b \in Buf : ~ Cached(want[p], b)
  /\ \E b \in Buf :
       /\ LastOf(b, busy \cup dirty)
       /\ sector' = [sector EXCEPT ![b] = want[p]]
       /\ busy' = busy \cup {b} /\ valid' = valid \ {b}
       /\ buf' = [buf EXCEPT ![p] = b]
  /\ Goto(p, "rw")
  /\ UNCHANGED <<dirty, data, list, ide, want, content>>

\* The holder changes the data and calls bwrite,
bwrite(p, v) ==
  /\ pc[p] = "held"
  /\ data' = [data EXCEPT ![buf[p]] = v]
  /\ content' = [content EXCEPT ![sector[buf[p]]] = v]
  /\ dirty' = dirty \cup {buf[p]}
  /\ Goto(p, "rw")
  /\ UNCHANGED <<sector, busy, valid, list, ide, buf, want>>

\* or log_write, which only keeps the buffer from being recycled.
log_write(p, v) ==
  /\ pc[p] = "held"
  /\ Cardinality((dirty \cup {buf[p]}) \ (busy \ {buf[p]})) <= MaxPinned
  /\ data' = [data EXCEPT ![buf[p]] = v]
  /\ content' = [content EXCEPT ![sector[buf[p]]] = v]
  /\ dirty' = dirty \cup {buf[p]}
  /\ Goto(p, "done")
  /\ UNCHANGED <<sector, busy, valid, list, ide, buf, want>>

\* Unlink the buffer and insert it after bcache.head.
moveToHead(b) ==
  \E k \in DOMAIN list :
    /\ list[k] = b
    /\ list' = [j \in DOMAIN list |-> IF j = 1 THEN b ELSE IF j <= k THEN list[j - 1] ELSE list[j]]

\* Mutant: brelse does not wake the processes in bget.
brelseNoWakeup(p) ==
  /\ pc[p] \in {"held", "done"}
  /\ moveToHead(buf[p])
  /\ busy' = busy \ {buf[p]}
  /\ Goto(p, "user")
  /\ buf' = [buf EXCEPT ![p] = NULL] /\ want' = [want EXCEPT ![p] = NULL]
  /\ UNCHANGED <<sector, valid, dirty, data, ide, content>>

brelse(p) ==
  /\ pc[p] \in {"held", "done"}
  /\ moveToHead(buf[p])
  /\ busy' = busy \ {buf[p]}
  /\ pc' = wakeup([pc EXCEPT ![p] = "user"], buf[p])
  /\ buf' = [buf EXCEPT ![p] = NULL] /\ want' = [want EXCEPT ![p] = NULL]
  /\ UNCHANGED <<sector, valid, dirty, data, ide, content>>

-----------------------------------------------------------------------------
(* ide.c *)

\* Queue the buffer, start the disk if it is the only one, and sleep.
iderw(p) ==
  /\ pc[p] = "rw"
  /\ idequeue' = Append(idequeue, buf[p])
  /\ active' = IF idequeue = << >> THEN buf[p] ELSE active
  /\ Goto(p, "ideSleep")
  /\ UNCHANGED <<sector, busy, valid, dirty, data, list, disk, buf, want, content>>

ideWoken(p) ==
  /\ pc[p] = "ideWoken"
  /\ Goto(p, IF buf[p] \in valid \ dirty THEN "held" ELSE "ideSleep")
  /\ UNCHANGED <<sector, busy, valid, dirty, data, list, ide, buf, want, content>>

\* Mutant: the handler does not start the next request.
ideintrWithNoStart(b, v) ==
  /\ b = Head(idequeue) /\ idequeue' = Tail(idequeue)
  /\ data' = [data EXCEPT ![b] = v]
  /\ disk' = IF b \in dirty THEN [disk EXCEPT ![sector[b]] = data[b]] ELSE disk
  /\ valid' = valid \cup {b} /\ dirty' = dirty \ {b}
  /\ pc' = wakeup(pc, b)
  /\ active' = NULL
  /\ UNCHANGED <<sector, busy, list, buf, want, content>>

\* The disk is done with the first request and interrupts; v is what b->data
\* holds after it.
ideintrWith(b, v) ==
  /\ b = Head(idequeue) /\ idequeue' = Tail(idequeue)
  /\ data' = [data EXCEPT ![b] = v]
  /\ disk' = IF b \in dirty THEN [disk EXCEPT ![sector[b]] = data[b]] ELSE disk
  /\ valid' = valid \cup {b} /\ dirty' = dirty \ {b}
  /\ pc' = wakeup(pc, b)
  /\ active' = IF Tail(idequeue) = << >> THEN NULL ELSE Head(Tail(idequeue))  \* idestart
  /\ UNCHANGED <<sector, busy, list, buf, want, content>>

ideintr ==
  /\ active # NULL /\ idequeue # << >>
  /\ LET b == Head(idequeue) IN ideintrWith(b, IF b \in dirty THEN data[b] ELSE disk[sector[b]])

\* A read fails: idewait(1) < 0, and insl is skipped.
ideintrError ==
  /\ active # NULL /\ idequeue # << >> /\ Head(idequeue) \notin dirty
  /\ ideintrWith(Head(idequeue), data[Head(idequeue)])

-----------------------------------------------------------------------------
Step(p) == \/ bgetHit(p) \/ bgetSleep(p) \/ bgetRecycle(p) \/ iderw(p) \/ ideWoken(p)
           \/ brelse(p)
           \/ \E s \in Sector : bread(p, s)
           \/ \E v \in Val : bwrite(p, v) \/ log_write(p, v)

Next == (\E p \in Proc : Step(p)) \/ ideintr
Spec == Init /\ [][Next]_vars

\* The disk finishes its requests; a process in iderw runs on, and a holder
\* gives its buffer back.
FairSpec == /\ Spec /\ WF_vars(ideintr)
            /\ \A p \in Proc : WF_vars(iderw(p) \/ ideWoken(p)) /\ SF_vars(brelse(p))

\* The disk may also report an error.
ErrNext == Next \/ ideintrError
ErrSpec == Init /\ [][ErrNext]_vars
-----------------------------------------------------------------------------
(* Properties. *)

InIde(p) == pc[p] \in {"rw", "ideSleep", "ideWoken"}

TypeOK ==
  /\ sector \in [Buf -> Sector \cup {NULL}]
  /\ busy \subseteq Buf /\ valid \subseteq Buf /\ dirty \subseteq Buf
  /\ data \in [Buf -> Val] /\ disk \in [Sector -> Val] /\ content \in [Sector -> Val]
  /\ list \in [Buf -> Buf] /\ \A b \in Buf : \E k \in Buf : list[k] = b
  /\ idequeue \in Seq(Buf) /\ active \in Buf \cup {NULL}
  /\ pc \in [Proc -> {"user", "get", "getSleep", "rw", "ideSleep", "ideWoken", "held", "done"}]
  /\ buf \in [Proc -> Buf \cup {NULL}] /\ want \in [Proc -> Sector \cup {NULL}]

\* A sector is cached in one buffer, and a B_BUSY buffer belongs to one process.
\* (Two misses on the same sector, or a recycled buffer that somebody waits for,
\* would break it.)
OneBuffer ==
  /\ \A a, b \in Buf : sector[a] = sector[b] /\ sector[a] # NULL => a = b
  /\ \A p \in Proc : InIde(p) \/ pc[p] \in {"held", "done"} =>
       /\ buf[p] \in busy /\ sector[buf[p]] = want[p]
       /\ \A q \in Proc : (InIde(q) \/ pc[q] \in {"held", "done"}) /\ buf[q] = buf[p] => q = p

\* "Return a B_BUSY buf with the contents of the indicated disk sector": a process
\* that bread has given a buffer sees what was last written to the sector, by
\* whichever process and through whichever buffer.
BreadContents ==
  \A p \in Proc : pc[p] = "held" => buf[p] \in valid /\ data[buf[p]] = content[want[p]]

\* The queue holds each request once, the disk works on its head, each request has
\* a process waiting in iderw, and each process asleep there has its request in the
\* queue; so no interrupt meets a buffer that has been given to somebody else, no
\* process sleeps on a request that is done, and iderw never panics.
QueueExact ==
  /\ active = (IF idequeue = << >> THEN NULL ELSE Head(idequeue))
  /\ \A j, k \in DOMAIN idequeue : idequeue[j] = idequeue[k] => j = k
  /\ \A k \in DOMAIN idequeue : \E p \in Proc : buf[p] = idequeue[k] /\ pc[p] \in {"ideSleep", "ideWoken"}
  /\ \A p \in Proc : pc[p] = "ideSleep" => \E k \in DOMAIN idequeue : idequeue[k] = buf[p]
  /\ \A p \in Proc : pc[p] = "rw" => buf[p] \notin valid \/ buf[p] \in dirty

\* A request comes to an end: the process gets its buffer.
IderwReturns == \A p \in Proc : InIde(p) ~> pc[p] = "held"

\* A process that waits for a busy buffer is woken, to search again.
BgetWoken == \A p \in Proc : pc[p] = "getSleep" ~> pc[p] # "getSleep"
=============================================================================
