-------------------------------- MODULE Log --------------------------------
(***************************************************************************)
(* The redo log (log.c), with as much of the buffer cache as it relies on: *)
(* a cached block is evicted unless it is B_DIRTY or B_BUSY, and a block   *)
(* that is not cached is read from the disk.                               *)
(*                                                                         *)
(* bwrite returns when the sector is on the disk, so each step writes at   *)
(* most one sector, and a crash comes between any two steps.  It clears    *)
(* all of memory; initlog then recovers, and may itself be cut short.      *)
(***************************************************************************)
EXTENDS Integers

CONSTANTS Proc, Block, Val,
          LOGSIZE,  \* entries of a log header
          nlog,     \* log.size: sectors of the log on the disk
          NULL

ASSUME LogAssumption == /\ LOGSIZE \in Nat /\ nlog \in Nat
                        /\ NULL \notin Val /\ NULL \notin Block

Index == 0..(LOGSIZE - 1)

VARIABLES
  disk,    \* the home sectors
  dlog,    \* sector log.start + 1 + i, for i in Index
  dhead,   \* the header on the disk
  lh,      \* log.lh, the header in memory
  busy,    \* log.busy
  cache,   \* the data of a block's buffer, NULL when it has none
  dirty,   \* the blocks whose buffer is B_DIRTY
  pc,      \* where a process is
  at,      \* the block and the log entry of its log_write
  tail,    \* install_trans: tail
  boot     \* how far initlog is

vars == <<disk, dlog, dhead, lh, busy, cache, dirty, pc, at, tail, boot>>
memory == <<lh, busy, cache, dirty, pc, at, tail, boot>>

NoHead == [n |-> 0, sector |-> [i \in Index |-> NULL]]
NoAt   == [b |-> NULL, i |-> 0]

\* Memory after a reset.
Reset == /\ lh' = NoHead /\ busy' = FALSE
         /\ cache' = [b \in Block |-> NULL] /\ dirty' = {}
         /\ pc' = [p \in Proc |-> "user"] /\ at' = [p \in Proc |-> NoAt]
         /\ tail' = 0 /\ boot' = "read"

\* The disk as mkfs makes it.
Init ==
  /\ \E v \in Val : disk = [b \in Block |-> v] /\ dlog = [i \in Index |-> v]
  /\ dhead = NoHead
  /\ lh = NoHead /\ busy = FALSE
  /\ cache = [b \in Block |-> NULL] /\ dirty = {}
  /\ pc = [p \in Proc |-> "user"] /\ at = [p \in Proc |-> NoAt]
  /\ tail = 0 /\ boot = "read"

At(p, l)   == pc[p] = l /\ boot = "done"
Goto(p, l) == pc' = [pc EXCEPT ![p] = l]

\* bwrite leaves the block cached, valid and clean.
bwriteHome(b, v) == /\ disk' = [disk EXCEPT ![b] = v]
                    /\ cache' = [cache EXCEPT ![b] = v]
                    /\ dirty' = dirty \ {b}

\* Copying a header copies the entries in use.
copyHead(dst, src) ==
  [n |-> src.n, sector |-> [i \in Index |-> IF i < src.n THEN src.sector[i] ELSE dst.sector[i]]]

-----------------------------------------------------------------------------
(* The buffers of the home blocks. *)

Busy(b) == \E p \in Proc : At(p, "append") /\ at[p].b = b

bread(b) ==
  /\ boot = "done" /\ cache[b] = NULL
  /\ cache' = [cache EXCEPT ![b] = disk[b]]
  /\ UNCHANGED <<disk, dlog, dhead, lh, busy, dirty, pc, at, tail, boot>>

\* Mutant: a B_DIRTY buffer is recycled.
bgetRecycleDirty(b) ==
  /\ boot = "done" /\ cache[b] # NULL /\ ~Busy(b)
  /\ cache' = [cache EXCEPT ![b] = NULL] /\ dirty' = dirty \ {b}
  /\ UNCHANGED <<disk, dlog, dhead, lh, busy, pc, at, tail, boot>>

\* bget takes the buffer for another sector.
bgetRecycle(b) ==
  /\ boot = "done" /\ cache[b] # NULL /\ b \notin dirty /\ ~Busy(b)
  /\ cache' = [cache EXCEPT ![b] = NULL]
  /\ UNCHANGED <<disk, dlog, dhead, lh, busy, dirty, pc, at, tail, boot>>

-----------------------------------------------------------------------------
(* Transactions. *)

\* Mutant: the caller, once woken, does not test log.busy again.
begin_transIf(p) ==
  /\ At(p, "user") \/ At(p, "woken")
  /\ \/ busy /\ pc[p] = "user" /\ Goto(p, "sleep") /\ UNCHANGED busy
     \/ (~busy \/ pc[p] = "woken") /\ busy' = TRUE /\ Goto(p, "in")
  /\ UNCHANGED <<disk, dlog, dhead, lh, cache, dirty, at, tail, boot>>

begin_trans(p) ==
  /\ At(p, "user") \/ At(p, "woken")
  /\ \/ busy /\ Goto(p, "sleep") /\ UNCHANGED busy
     \/ ~busy /\ busy' = TRUE /\ Goto(p, "in")
  /\ UNCHANGED <<disk, dlog, dhead, lh, cache, dirty, at, tail, boot>>

\* The entry for b: the first that has it, or the next free one.
isEntry(i, b) ==
  /\ i \in 0..lh.n
  /\ i < lh.n => lh.sector[i] = b
  /\ \A j \in 0..(i-1) : lh.sector[j] # b

\* The caller modifies a buffer and calls log_write, which copies it to the log.
\* A log that is full makes log_write panic, which is a crash.
log_write(p, b, v) ==
  /\ At(p, "in") /\ ~Busy(b)
  /\ lh.n < LOGSIZE /\ lh.n < nlog - 1
  /\ \E i \in Index :
       /\ isEntry(i, b)
       /\ lh' = [lh EXCEPT !.sector[i] = b]
       /\ dlog' = [dlog EXCEPT ![i] = v]
       /\ at' = [at EXCEPT ![p] = [b |-> b, i |-> i]]
  /\ cache' = [cache EXCEPT ![b] = v]
  /\ Goto(p, "append")
  /\ UNCHANGED <<disk, dhead, busy, dirty, tail, boot>>

\* The rest of log_write, and the caller's brelse.
log_append(p) ==
  /\ At(p, "append")
  /\ lh' = [lh EXCEPT !.n = IF at[p].i = @ THEN @ + 1 ELSE @]
  /\ dirty' = dirty \cup {at[p].b}
  /\ at' = [at EXCEPT ![p] = NoAt]
  /\ Goto(p, "in")
  /\ UNCHANGED <<disk, dlog, dhead, busy, cache, tail, boot>>

\* Mutant: the home blocks are written before the header.
commit_transInstallFirst(p) ==
  /\ At(p, "in")
  /\ tail' = 0 /\ Goto(p, "install")
  /\ UNCHANGED <<disk, dlog, dhead, lh, busy, cache, dirty, at, boot>>

\* commit_trans, to the end of the first write_head.
commit_trans(p) ==
  /\ At(p, "in")
  /\ \/ lh.n > 0 /\ dhead' = copyHead(dhead, lh) /\ tail' = 0 /\ Goto(p, "install")
     \/ lh.n = 0 /\ Goto(p, "end") /\ UNCHANGED <<dhead, tail>>
  /\ UNCHANGED <<disk, dlog, lh, busy, cache, dirty, at, boot>>

\* One turn of the loop of install_trans.
install_trans ==
  /\ tail < lh.n
  /\ bwriteHome(lh.sector[tail], dlog[tail])
  /\ tail' = tail + 1
  /\ UNCHANGED <<dlog, dhead, lh, busy, pc, at, boot>>

commitInstall(p) == At(p, "install") /\ install_trans

\* log.lh.n = 0; write_head()
eraseLog == lh' = [lh EXCEPT !.n = 0] /\ dhead' = [dhead EXCEPT !.n = 0]

commitErase(p) ==
  /\ At(p, "install") /\ tail = lh.n
  /\ eraseLog /\ tail' = 0 /\ Goto(p, "end")
  /\ UNCHANGED <<disk, dlog, busy, cache, dirty, at, boot>>

\* Mutant: the processes in begin_trans are not woken.
commitEndNoWakeup(p) ==
  /\ At(p, "end")
  /\ busy' = FALSE /\ Goto(p, "user")
  /\ UNCHANGED <<disk, dlog, dhead, lh, cache, dirty, at, tail, boot>>

commitEnd(p) ==
  /\ At(p, "end")
  /\ busy' = FALSE
  /\ pc' = [q \in Proc |-> IF q = p THEN "user" ELSE IF pc[q] = "sleep" THEN "woken" ELSE pc[q]]
  /\ UNCHANGED <<disk, dlog, dhead, lh, cache, dirty, at, tail, boot>>

-----------------------------------------------------------------------------
(* initlog, which ends in recover_from_log. *)

read_head ==
  /\ boot = "read"
  /\ lh' = copyHead(lh, dhead)
  /\ boot' = "install"
  /\ UNCHANGED <<disk, dlog, dhead, busy, cache, dirty, pc, at, tail>>

recoverInstall == boot = "install" /\ install_trans

\* Mutant: the log is erased without being installed.
recoverEraseFirst ==
  /\ boot = "install"
  /\ eraseLog /\ tail' = 0 /\ boot' = "done"
  /\ UNCHANGED <<disk, dlog, busy, cache, dirty, pc, at>>

recoverErase ==
  /\ boot = "install" /\ tail = lh.n
  /\ eraseLog /\ tail' = 0 /\ boot' = "done"
  /\ UNCHANGED <<disk, dlog, busy, cache, dirty, pc, at>>

Crash == Reset /\ UNCHANGED <<disk, dlog, dhead>>

-----------------------------------------------------------------------------
Trans(p) == \/ begin_trans(p) \/ log_append(p) \/ commit_trans(p)
            \/ commitInstall(p) \/ commitErase(p) \/ commitEnd(p)
            \/ \E b \in Block, v \in Val : log_write(p, b, v)
Cache   == \E b \in Block : bread(b) \/ bgetRecycle(b)
Recover == read_head \/ recoverInstall \/ recoverErase

Run  == (\E p \in Proc : Trans(p)) \/ Cache \/ Recover
Next == Run \/ Crash
Spec == Init /\ [][Next]_vars
-----------------------------------------------------------------------------
(* Properties. *)

Header == [n : {n \in 0..LOGSIZE : n < nlog}, sector : [Index -> Block \cup {NULL}]]

\* A header never names more entries than the log region of the disk has.
TypeOK ==
  /\ disk \in [Block -> Val] /\ dlog \in [Index -> Val]
  /\ dhead \in Header /\ lh \in Header
  /\ busy \in BOOLEAN
  /\ cache \in [Block -> Val \cup {NULL}] /\ dirty \subseteq Block
  /\ pc \in [Proc -> {"user", "sleep", "woken", "in", "append", "install", "end"}]
  /\ at \in [Proc -> [b : Block \cup {NULL}, i : Index \cup {0}]]
  /\ tail \in 0..LOGSIZE
  /\ boot \in {"read", "install", "done"}

\* What recovery would make of the disk: the header's entries over the home blocks.
Entry(h, b)     == {i \in Index : i < h.n /\ h.sector[i] = b}
Overlay(d, h, l) == [b \in Block |-> IF Entry(h, b) = {} THEN d[b] ELSE l[CHOOSE i \in Entry(h, b) : TRUE]]
View == [b \in Block |-> IF cache[b] = NULL THEN disk[b] ELSE cache[b]]

stable  == Overlay(disk, dhead, dlog)
current == IF boot = "done" THEN View ELSE stable
writers == {p \in Proc : pc[p] \in {"in", "append"}}

\* The log implements atomic transactions: a commit takes effect at once, when
\* the header reaches the disk; installing, erasing, recovering and recovering
\* again after a crash in the middle change nothing a reader or a reboot sees;
\* no write of the running transaction is lost by eviction or survives a crash.
AD == INSTANCE AtomicDisk
Atomic == AD!Spec

\* A process asleep in begin_trans waits for a transaction that still runs:
\* none is left behind by the wakeup of commit_trans, nor by a process that
\* overtakes those just woken and ends before they have looked at log.busy.
NoSleeperLeft ==
  \A p \in Proc : pc[p] = "sleep" =>
    busy /\ \E q \in Proc : pc[q] \in {"in", "append", "install", "end"}
=============================================================================
