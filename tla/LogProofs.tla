----------------------------- MODULE LogProofs -----------------------------
(***************************************************************************)
(* The log implements atomic transactions, for any processes, blocks,      *)
(* values and log size, with a crash after any step.                       *)
(*                                                                         *)
(* The invariant says, for each phase of a transaction and of recovery,    *)
(* how the headers on disk and in memory, the log blocks, the home blocks  *)
(* and their buffers are related.                                          *)
(***************************************************************************)
EXTENDS Log, TLAPS

\* Zenon is the prover of what follows; the steps that need arithmetic,
\* records or sequences name SMT.
USE Zenon, ZenonT(30)

Labels == {"user", "sleep", "woken", "in", "append", "install", "end"}
Active == {"in", "append", "install", "end"}
Head   == [n : 0..LOGSIZE, sector : [Index -> Block \cup {NULL}]]

TypeInv ==
  /\ disk \in [Block -> Val] /\ dlog \in [Index -> Val]
  /\ dhead \in Head /\ lh \in Head
  /\ busy \in BOOLEAN
  /\ cache \in [Block -> Val \cup {NULL}] /\ dirty \subseteq Block
  /\ pc \in [Proc -> Labels]
  /\ at \in [Proc -> [b : Block \cup {NULL}, i : Index \cup {0}]]
  /\ tail \in Nat
  /\ boot \in {"read", "install", "done"}

\* log.busy is set exactly while a process is between begin_trans and the end
\* of commit_trans, and there is one such process at most.
TransInv ==
  /\ \A p, q \in Proc : pc[p] \in Active /\ pc[q] \in Active => p = q
  /\ \A p \in Proc : pc[p] \in Active \cup {"sleep"} => busy
  /\ busy => \E p \in Proc : pc[p] \in Active
  /\ boot # "done" => \A p \in Proc : pc[p] = "user"

\* A header names blocks, and none of them twice: log_write absorbs.
HeadOK(h) ==
  /\ \A i \in Index : i < h.n => h.sector[i] \in Block
  /\ \A i, j \in Index : i < h.n /\ j < h.n /\ h.sector[i] = h.sector[j] => i = j

\* Where the log is: in recovery, or in the transaction of some process.
phase == IF boot = "read" THEN "read"
         ELSE IF boot = "install" THEN "recover"
         ELSE IF \E p \in Proc : pc[p] = "in" THEN "in"
         ELSE IF \E p \in Proc : pc[p] = "append" THEN "append"
         ELSE IF \E p \in Proc : pc[p] = "install" THEN "install" ELSE "idle"

\* The headers: on disk it is empty until the commit, and from then on equal to
\* that in memory until it is erased; the first tail entries are installed.
CommitInv ==
  /\ phase = "read" => lh.n = 0 /\ tail = 0 /\ cache = [b \in Block |-> NULL]
  /\ phase = "idle" => lh.n = 0
  /\ phase \in {"idle", "in", "append"} => dhead.n = 0
  /\ phase \in {"recover", "install"} =>
       /\ lh.n = dhead.n /\ tail <= lh.n
       /\ \A i \in Index : i < lh.n => lh.sector[i] = dhead.sector[i]
       /\ \A i \in Index : i < tail => disk[lh.sector[i]] = dlog[i]

\* The B_DIRTY buffers: those of the blocks logged and not yet installed.
DirtyInv ==
  /\ phase \in {"read", "recover", "idle"} => dirty = {}
  /\ phase \in {"in", "append"} =>
       \A b \in Block : b \in dirty <=> \E i \in Index : i < lh.n /\ lh.sector[i] = b
  /\ phase = "install" =>
       \A b \in Block : b \in dirty <=> \E i \in Index : tail <= i /\ i < lh.n /\ lh.sector[i] = b

\* A B_DIRTY buffer equals its log block, any other its home block, except for
\* the one that log_write is at.
CacheInv ==
  /\ \A i \in Index : i < lh.n /\ lh.sector[i] \in dirty => cache[lh.sector[i]] = dlog[i]
  /\ \A b \in Block : \/ b \in dirty \/ cache[b] = NULL \/ cache[b] = disk[b]
                      \/ \E p \in Proc : pc[p] = "append" /\ at[p].b = b

\* log_write between writing the log block and counting it.
AppendInv ==
  \A p \in Proc : pc[p] = "append" =>
    /\ at[p].b \in Block /\ at[p].i \in Index /\ at[p].i <= lh.n
    /\ lh.sector[at[p].i] = at[p].b /\ cache[at[p].b] = dlog[at[p].i]
    /\ \A j \in Index : j < lh.n /\ lh.sector[j] = at[p].b => j = at[p].i

LInv == /\ TypeInv /\ TransInv /\ HeadOK(lh) /\ HeadOK(dhead)
        /\ CommitInv /\ DirtyInv /\ CacheInv /\ AppendInv
-----------------------------------------------------------------------------
(* Processes and phases. *)

\* Types and transactions hold at boot.
LEMMA InitTrans == Init => TypeInv /\ TransInv
<1> SUFFICES ASSUME Init PROVE TypeInv /\ TransInv
  OBVIOUS
<1>1. NoHead \in Head
  BY SMT, SMTT(30), LogAssumption DEF NoHead, Head, Index
<1>2. TypeInv
  BY <1>1 DEF Init, TypeInv, NoAt, Labels
<1>3. TransInv
  BY DEF Init, TransInv, Active
<1> QED BY <1>2, <1>3

\* How a step may move the processes.
Move(p, l) == /\ pc' = [pc EXCEPT ![p] = l] /\ boot = "done" /\ boot' = boot
              /\ \/ busy' = busy /\ pc[p] \in Active /\ l \in Active
                 \/ busy' = busy /\ busy /\ pc[p] \notin Active /\ l = "sleep"
                 \/ ~busy /\ busy' = TRUE /\ l \in Active

\* Such a step, the end of a transaction and a reset keep TransInv.
LEMMA TransMove ==
  ASSUME TypeInv, TransInv,
         \/ \E p \in Proc, l \in Labels : Move(p, l)
         \/ \E p \in Proc : commitEnd(p)
         \/ Crash
         \/ UNCHANGED <<pc, busy, boot>>
         \/ UNCHANGED <<pc, busy>> /\ boot # "done"
  PROVE  TransInv'
<1>a. pc \in [Proc -> Labels]
  BY DEF TypeInv
<1>1. ASSUME NEW p \in Proc, NEW l \in Labels, Move(p, l) PROVE TransInv'
  <2>1. \A q \in Proc : pc'[q] = IF q = p THEN l ELSE pc[q]
    BY <1>1, <1>a DEF Move
  <2>2. CASE busy' = busy /\ pc[p] \in Active /\ l \in Active
    BY <1>1, <2>1, <2>2 DEF Move, TransInv
  <2>3. CASE busy' = busy /\ busy /\ pc[p] \notin Active /\ l = "sleep"
    BY <1>1, <2>1, <2>3 DEF Move, TransInv, Active
  <2>4. CASE ~busy /\ busy' = TRUE /\ l \in Active
    BY <1>1, <2>1, <2>4 DEF Move, TransInv
  <2> QED BY <1>1, <2>2, <2>3, <2>4 DEF Move
<1>2. ASSUME NEW p \in Proc, commitEnd(p) PROVE TransInv'
  <2>1. \A q \in Proc : pc'[q] \notin Active \cup {"sleep"}
    BY <1>2, <1>a DEF commitEnd, At, TransInv, Active
  <2>2. busy' = FALSE /\ boot' = "done"
    BY <1>2 DEF commitEnd, At
  <2> QED BY <2>1, <2>2 DEF TransInv
<1>3. CASE Crash
  BY <1>3 DEF Crash, Reset, TransInv, Active
<1>4. CASE UNCHANGED <<pc, busy, boot>>
  BY <1>4 DEF TransInv
<1>5. CASE UNCHANGED <<pc, busy>> /\ boot # "done"
  BY <1>5 DEF TransInv
<1> QED BY <1>1, <1>2, <1>3, <1>4, <1>5

\* Every step is one of those.
LEMMA TransStep ==
  ASSUME TypeInv, TransInv, Next
  PROVE  TransInv'
<1>1. ASSUME NEW p \in Proc, Trans(p)
      PROVE  (\E l \in Labels : Move(p, l)) \/ commitEnd(p) \/ UNCHANGED <<pc, busy, boot>>
  <2> USE DEF At, Goto, Move, Active
  <2>a. Active \subseteq Labels /\ "sleep" \in Labels
    BY DEF Labels
  <2>1. CASE begin_trans(p)
    BY <2>1, <2>a DEF begin_trans
  <2>2. CASE \E b \in Block, v \in Val : log_write(p, b, v)
    <3>1. Move(p, "append")
      BY <2>2 DEF log_write
    <3> QED BY <3>1, <2>a
  <2>3. CASE log_append(p)
    <3>1. Move(p, "in")
      BY <2>3 DEF log_append
    <3> QED BY <3>1, <2>a
  <2>4. CASE commit_trans(p)
    <3>1. Move(p, "install") \/ Move(p, "end")
      BY <2>4 DEF commit_trans
    <3> QED BY <3>1, <2>a
  <2>5. CASE commitInstall(p)
    BY <2>5 DEF commitInstall, install_trans
  <2>6. CASE commitErase(p)
    <3>1. Move(p, "end")
      BY <2>6 DEF commitErase
    <3> QED BY <3>1, <2>a
  <2> QED BY <1>1, <2>1, <2>2, <2>3, <2>4, <2>5, <2>6 DEF Trans
<1>2. CASE Cache
  BY <1>2, TransMove DEF Cache, bread, bgetRecycle
<1>3. CASE Recover
  BY <1>3, TransMove DEF Recover, read_head, recoverInstall, install_trans, recoverErase
<1> QED BY <1>1, <1>2, <1>3, TransMove DEF Next, Run

\* What the label of a process says about the phase.
LEMMA PhaseNow ==
  ASSUME TransInv, boot = "done"
  PROVE  /\ \A p \in Proc : pc[p] \in {"in", "append", "install"} => phase = pc[p]
         /\ \A p \in Proc : pc[p] = "end" => phase = "idle"
         /\ ~busy => phase = "idle"
BY DEF TransInv, phase, Active

\* The same after a step.
LEMMA PhaseNext ==
  ASSUME TransInv', boot' = "done"
  PROVE  /\ \A p \in Proc : pc'[p] \in {"in", "append", "install"} => phase' = pc'[p]
         /\ \A p \in Proc : pc'[p] = "end" => phase' = "idle"
         /\ ~busy' => phase' = "idle"
BY DEF TransInv, phase, Active
-----------------------------------------------------------------------------
(* Headers. *)

\* The fields of a header.
LEMMA HeadFields ==
  ASSUME NEW h \in Head
  PROVE  h.n \in 0..LOGSIZE /\ h.n \in Nat /\ h.sector \in [Index -> Block \cup {NULL}]
BY SMT, SMTT(30), LogAssumption DEF Head

\* copyHead gives the entries in use, which is all that HeadOK is about.
LEMMA CopyHead ==
  ASSUME NEW dst \in Head, NEW src \in Head
  PROVE  /\ copyHead(dst, src) \in Head /\ copyHead(dst, src).n = src.n
         /\ \A i \in Index : i < src.n => copyHead(dst, src).sector[i] = src.sector[i]
         /\ HeadOK(src) => HeadOK(copyHead(dst, src))
<1>1. /\ copyHead(dst, src).n = src.n
      /\ \A i \in Index : i < src.n => copyHead(dst, src).sector[i] = src.sector[i]
  BY DEF copyHead
<1>2. copyHead(dst, src) \in Head
  BY HeadFields DEF copyHead, Head
<1>3. HeadOK(src) => HeadOK(copyHead(dst, src))
  BY <1>1 DEF HeadOK
<1> QED BY <1>1, <1>2, <1>3

\* Emptying a header.
LEMMA EmptyHead ==
  ASSUME NEW h \in Head
  PROVE  [h EXCEPT !.n = 0] \in Head /\ [h EXCEPT !.n = 0].n = 0 /\ HeadOK([h EXCEPT !.n = 0])
<1>1. [h EXCEPT !.n = 0] \in Head /\ [h EXCEPT !.n = 0].n = 0
  BY SMT, SMTT(30), LogAssumption DEF Head
<1>2. \A i \in Index : ~(i < 0)
  BY SMT, SMTT(30) DEF Index
<1> QED BY <1>1, <1>2 DEF HeadOK

\* Putting a block into an entry.
LEMMA SetSector ==
  ASSUME NEW h \in Head, NEW i \in Index, NEW b \in Block
  PROVE  LET g == [h EXCEPT !.sector[i] = b]
         IN g \in Head /\ g.n = h.n /\ g.sector = [h.sector EXCEPT ![i] = b]
BY HeadFields DEF Head

\* Counting an entry, if it is the next one.
LEMMA CountEntry ==
  ASSUME NEW h \in Head, NEW i \in Index, i <= h.n
  PROVE  LET g == [h EXCEPT !.n = IF i = @ THEN @ + 1 ELSE @]
         IN /\ g \in Head /\ g.sector = h.sector
            /\ g.n = IF i = h.n THEN h.n + 1 ELSE h.n
<1> DEFINE k == IF i = h.n THEN h.n + 1 ELSE h.n
<1>1. k \in 0..LOGSIZE
  BY SMT, SMTT(30), HeadFields, LogAssumption DEF Index
<1>2. [h EXCEPT !.n = IF i = @ THEN @ + 1 ELSE @] = [h EXCEPT !.n = k]
  BY DEF Head
<1> HIDE DEF k
<1>3. [h EXCEPT !.n = k] \in Head /\ [h EXCEPT !.n = k].sector = h.sector /\ [h EXCEPT !.n = k].n = k
  BY <1>1 DEF Head
<1> QED BY <1>2, <1>3 DEF k

-----------------------------------------------------------------------------
(* The invariant under each action. *)

\* What LInv says apart from types and processes.
Rest == HeadOK(lh) /\ HeadOK(dhead) /\ CommitInv /\ DirtyInv /\ CacheInv /\ AppendInv

\* The invariant holds at boot, on the disk that mkfs has made.
LEMMA LInvInit == Init => LInv
<1> SUFFICES ASSUME Init PROVE Rest
  BY InitTrans DEF LInv, Rest
<1>1. lh.n = 0 /\ dhead.n = 0 /\ \A i \in Index : ~(i < 0)
  BY SMT, SMTT(30) DEF Init, NoHead, Index
<1>2. phase = "read"
  BY DEF Init, phase
<1>3. HeadOK(lh) /\ HeadOK(dhead)
  BY <1>1 DEF HeadOK
<1>4. CommitInv /\ DirtyInv
  BY <1>1, <1>2 DEF Init, CommitInv, DirtyInv
<1>5. CacheInv /\ AppendInv
  BY <1>1 DEF Init, CacheInv, AppendInv
<1> QED BY <1>3, <1>4, <1>5 DEF Rest

\* bread and the recycling of a clean buffer.
LEMMA CacheStep ==
  ASSUME LInv, Cache
  PROVE  TypeInv' /\ Rest'
<1>1. PICK b \in Block : bread(b) \/ bgetRecycle(b)
  BY DEF Cache
<1>2. /\ UNCHANGED <<disk, dlog, dhead, lh, busy, dirty, pc, at, tail, boot>>
      /\ \E x \in {disk[b], NULL} : cache' = [cache EXCEPT ![b] = x]
      /\ cache[b] = NULL \/ (b \notin dirty /\ ~Busy(b) /\ boot = "done")
      /\ boot = "done"
  BY <1>1 DEF bread, bgetRecycle
<1>3. PICK x \in {disk[b], NULL} : cache' = [cache EXCEPT ![b] = x]
  BY <1>2
<1>a. cache \in [Block -> Val \cup {NULL}] /\ disk \in [Block -> Val] /\ dlog \in [Index -> Val]
  BY DEF LInv, TypeInv
<1>4. TypeInv'
  BY <1>2, <1>3, <1>a DEF LInv, TypeInv
<1>5. \A c \in Block : cache'[c] = IF c = b THEN x ELSE cache[c]
  BY <1>3, <1>a
<1>6. phase' = phase /\ phase # "read"
  BY <1>2 DEF phase
<1>7. HeadOK(lh)' /\ HeadOK(dhead)' /\ CommitInv' /\ DirtyInv'
  BY <1>2, <1>6 DEF LInv, HeadOK, CommitInv, DirtyInv
<1>8. \A i \in Index : dlog[i] # NULL
  BY <1>a, LogAssumption
<1>9. b \notin dirty \/ \A i \in Index : ~(i < lh.n /\ lh.sector[i] = b)
  BY SMT, SMTT(30), <1>2, <1>8 DEF LInv, CacheInv
<1>10. CacheInv'
  <2>1. ASSUME NEW i \in Index, i < lh.n, lh.sector[i] \in dirty
        PROVE  cache'[lh.sector[i]] = dlog[i]
    BY <2>1, <1>5, <1>9 DEF LInv, HeadOK, CacheInv
  <2>2. ASSUME NEW c \in Block
        PROVE  \/ c \in dirty \/ cache'[c] = NULL \/ cache'[c] = disk[c]
               \/ \E p \in Proc : pc[p] = "append" /\ at[p].b = c
    BY <1>3, <1>5 DEF LInv, CacheInv
  <2> QED BY <2>1, <2>2, <1>2 DEF CacheInv
<1>11. AppendInv'
  <2>1. ASSUME NEW p \in Proc, pc[p] = "append" PROVE at[p].b # b
    <3>1. cache[at[p].b] # NULL
      BY SMT, SMTT(30), <2>1, <1>8 DEF LInv, AppendInv
    <3> QED BY <2>1, <3>1, <1>2 DEF Busy, At
  <2>2. \A p \in Proc : pc[p] = "append" => cache'[at[p].b] = cache[at[p].b]
    BY <2>1, <1>5 DEF LInv, AppendInv
  <2> QED BY <2>2, <1>2 DEF LInv, AppendInv
<1> QED BY <1>4, <1>7, <1>10, <1>11 DEF Rest

\* begin_trans and the end of commit_trans, which change no block.
LEMMA BeginEndStep ==
  ASSUME LInv, NEW p \in Proc, begin_trans(p) \/ commitEnd(p), TransInv'
  PROVE  TypeInv' /\ Rest'
<1>1. UNCHANGED <<disk, dlog, dhead, lh, cache, dirty, at, tail, boot>> /\ boot = "done"
  BY DEF begin_trans, commitEnd, At
<1>a. pc \in [Proc -> Labels]
  BY DEF LInv, TypeInv
<1>2. \A q \in Proc : pc'[q] # pc[q] => pc'[q] \in {"user", "sleep", "woken", "in"}
                                       /\ pc[q] \notin {"append", "install"}
  BY <1>a DEF begin_trans, commitEnd, At, Goto
<1>3. pc' \in [Proc -> Labels] /\ busy' \in BOOLEAN
  BY <1>a DEF begin_trans, commitEnd, Goto, Labels, LInv, TypeInv
<1>4. TypeInv'
  BY <1>1, <1>3 DEF LInv, TypeInv
<1>5. phase' = phase \/ (phase = "idle" /\ phase' = "in")
  <2>1. CASE commitEnd(p)
    <3>1. ~busy' /\ boot' = "done" /\ pc[p] = "end"
      BY <2>1 DEF commitEnd, At
    <3> QED BY <3>1, <1>1, PhaseNow, PhaseNext DEF LInv
  <2>2. CASE begin_trans(p) /\ busy' = busy
    <3>1. \A q \in Proc : \A l \in {"in", "append", "install"} : pc'[q] = l <=> pc[q] = l
      BY <2>2, <1>a DEF begin_trans, Goto, At
    <3> QED BY <3>1, <1>1 DEF phase
  <2>3. CASE begin_trans(p) /\ ~busy
    <3>1. pc'[p] = "in"
      BY <2>3, <1>a DEF begin_trans, Goto
    <3> QED BY <2>3, <3>1, <1>1, PhaseNow, PhaseNext DEF LInv
  <2> QED BY <2>1, <2>2, <2>3 DEF begin_trans
<1>6. HeadOK(lh)' /\ HeadOK(dhead)'
  BY <1>1 DEF LInv, HeadOK
<1>7. CommitInv'
  BY <1>1, <1>5 DEF LInv, CommitInv
<1>8. DirtyInv'
  <2>1. phase = "idle" => \A i \in Index : ~(i < lh.n)
    BY SMT, SMTT(30) DEF LInv, CommitInv, Index
  <2> QED BY <2>1, <1>1, <1>5 DEF LInv, DirtyInv
<1>9. \A q \in Proc : pc'[q] = "append" <=> pc[q] = "append"
  BY <1>2
<1>10. CacheInv' /\ AppendInv'
  BY <1>1, <1>9 DEF LInv, CacheInv, AppendInv
<1> QED BY <1>4, <1>6, <1>7, <1>8, <1>10 DEF Rest
\* log_write, up to its write of the log block.
LEMMA WriteStep ==
  ASSUME LInv, NEW p \in Proc, NEW b \in Block, NEW v \in Val, log_write(p, b, v), TransInv'
  PROVE  TypeInv' /\ Rest'
<1>1. PICK i \in Index : /\ isEntry(i, b) /\ lh' = [lh EXCEPT !.sector[i] = b]
                         /\ dlog' = [dlog EXCEPT ![i] = v]
                         /\ at' = [at EXCEPT ![p] = [b |-> b, i |-> i]]
  BY DEF log_write
<1>2. /\ UNCHANGED <<disk, dhead, busy, dirty, tail, boot>>
      /\ boot = "done" /\ pc[p] = "in"
      /\ cache' = [cache EXCEPT ![b] = v] /\ pc' = [pc EXCEPT ![p] = "append"]
  BY DEF log_write, At, Goto
<1>a. /\ lh \in Head /\ dlog \in [Index -> Val] /\ cache \in [Block -> Val \cup {NULL}]
      /\ pc \in [Proc -> Labels] /\ at \in [Proc -> [b : Block \cup {NULL}, i : Index \cup {0}]]
      /\ dirty \subseteq Block
  BY DEF LInv, TypeInv
<1>b. lh' \in Head /\ lh'.n = lh.n /\ lh'.sector = [lh.sector EXCEPT ![i] = b]
  BY SMT, SMTT(30), <1>1, <1>a, SetSector
<1>c. lh.n \in Nat /\ lh.sector \in [Index -> Block \cup {NULL}] /\ i \in Nat
  BY SMT, SMTT(30), <1>a, HeadFields DEF Index
<1>3. TypeInv'
  <2>1. dlog' \in [Index -> Val] /\ cache' \in [Block -> Val \cup {NULL}]
    BY <1>1, <1>2, <1>a
  <2>2. pc' \in [Proc -> Labels] /\ at' \in [Proc -> [b : Block \cup {NULL}, i : Index \cup {0}]]
    BY <1>1, <1>2, <1>a DEF Labels
  <2> QED BY <2>1, <2>2, <1>2, <1>b DEF LInv, TypeInv
<1>4. /\ i <= lh.n /\ (i < lh.n => lh.sector[i] = b)
      /\ \A j \in Index : j < i => lh.sector[j] # b
  BY SMT, SMTT(30), <1>1, <1>c DEF isEntry, Index
<1>5. \A j \in Index : lh'.sector[j] = IF j = i THEN b ELSE lh.sector[j]
  BY <1>b, <1>c
<1>6. \A j \in Index : j < lh.n => lh'.sector[j] = lh.sector[j]
  BY <1>4, <1>5
<1>7. \A j \in Index : j < lh.n /\ lh.sector[j] = b => j = i
  <2> SUFFICES ASSUME NEW j \in Index, j < lh.n, lh.sector[j] = b PROVE j = i
    OBVIOUS
  <2>1. ~(j < i)
    BY <1>4
  <2>2. j \in Nat
    BY SMT, SMTT(30) DEF Index
  <2>3. i < lh.n
    BY SMT, SMTT(30), <2>1, <2>2, <1>c
  <2> QED BY <2>3, <1>4 DEF LInv, HeadOK
<1>8. phase = "in" /\ phase' = "append"
  <2>1. pc'[p] = "append"
    BY <1>2, <1>a
  <2> QED BY <2>1, <1>2, PhaseNow, PhaseNext DEF LInv
<1>9. HeadOK(lh)' /\ HeadOK(dhead)'
  BY <1>2, <1>6, <1>b DEF LInv, HeadOK
<1>10. CommitInv'
  BY <1>2, <1>8 DEF LInv, CommitInv
<1>11. DirtyInv'
  BY <1>2, <1>6, <1>8, <1>b DEF LInv, DirtyInv
<1>12. \A c \in Block : cache'[c] = IF c = b THEN v ELSE cache[c]
  BY <1>2, <1>a
<1>13. \A j \in Index : dlog'[j] = IF j = i THEN v ELSE dlog[j]
  BY <1>1, <1>a
<1>14. \A q \in Proc : pc[q] # "append" /\ (pc'[q] = "append" <=> q = p)
  BY <1>2, <1>a DEF LInv, TransInv, Active
<1>15. at'[p].b = b /\ at'[p].i = i
  BY <1>1, <1>a
<1>16. CacheInv'
  <2>1. ASSUME NEW j \in Index, j < lh.n, lh.sector[j] \in dirty
        PROVE  cache'[lh.sector[j]] = dlog'[j]
    <3>1. CASE lh.sector[j] = b
      BY SMT, SMTT(30), <2>1, <3>1, <1>7, <1>12, <1>13
    <3>2. CASE lh.sector[j] # b
      <4>1. j # i
        BY <2>1, <3>2, <1>4
      <4> QED BY <2>1, <3>2, <4>1, <1>12, <1>13, <1>a DEF LInv, CacheInv
    <3> QED BY <3>1, <3>2
  <2>2. ASSUME NEW c \in Block
        PROVE  \/ c \in dirty \/ cache'[c] = NULL \/ cache'[c] = disk[c]
               \/ \E q \in Proc : pc'[q] = "append" /\ at'[q].b = c
    BY <1>12, <1>14, <1>15 DEF LInv, CacheInv
  <2> QED BY SMT, SMTT(30), <2>1, <2>2, <1>2, <1>6, <1>b DEF CacheInv
<1>17. AppendInv'
  <2> SUFFICES /\ at'[p].b \in Block /\ at'[p].i \in Index /\ at'[p].i <= lh'.n
               /\ lh'.sector[at'[p].i] = at'[p].b /\ cache'[at'[p].b] = dlog'[at'[p].i]
               /\ \A j \in Index : j < lh'.n /\ lh'.sector[j] = at'[p].b => j = at'[p].i
    BY <1>14 DEF AppendInv
  <2> QED BY SMT, SMTT(30), <1>4, <1>5, <1>6, <1>7, <1>12, <1>13, <1>15, <1>b
<1> QED BY <1>3, <1>9, <1>10, <1>11, <1>16, <1>17 DEF Rest

\* The rest of log_write.
LEMMA AppendStep ==
  ASSUME LInv, NEW p \in Proc, log_append(p), TransInv'
  PROVE  TypeInv' /\ Rest'
<1> DEFINE b == at[p].b
           i == at[p].i
<1>1. /\ UNCHANGED <<disk, dlog, dhead, busy, cache, tail, boot>>
      /\ boot = "done" /\ pc[p] = "append" /\ pc' = [pc EXCEPT ![p] = "in"]
      /\ lh' = [lh EXCEPT !.n = IF i = @ THEN @ + 1 ELSE @]
      /\ dirty' = dirty \cup {b} /\ at' = [at EXCEPT ![p] = NoAt]
  BY DEF log_append, At, Goto
<1>a. /\ lh \in Head /\ pc \in [Proc -> Labels] /\ dirty \subseteq Block
      /\ at \in [Proc -> [b : Block \cup {NULL}, i : Index \cup {0}]]
  BY DEF LInv, TypeInv
<1>2. /\ b \in Block /\ i \in Index /\ i <= lh.n
      /\ lh.sector[i] = b /\ cache[b] = dlog[i]
      /\ \A j \in Index : j < lh.n /\ lh.sector[j] = b => j = i
  BY <1>1 DEF LInv, AppendInv
<1> HIDE DEF b, i
<1>b. lh' \in Head /\ lh'.sector = lh.sector /\ lh'.n = IF i = lh.n THEN lh.n + 1 ELSE lh.n
  BY <1>1, <1>2, <1>a, CountEntry
<1>c. lh.n \in Nat /\ i \in Nat
  BY SMT, SMTT(30), <1>2, <1>a, HeadFields DEF Index
<1>3. TypeInv'
  <2>1. pc' \in [Proc -> Labels] /\ at' \in [Proc -> [b : Block \cup {NULL}, i : Index \cup {0}]]
    BY <1>1, <1>a DEF Labels, NoAt
  <2>2. dirty' \subseteq Block
    BY <1>1, <1>2, <1>a
  <2> QED BY <2>1, <2>2, <1>1, <1>b DEF LInv, TypeInv
<1>4. \A j \in Index : j < lh'.n <=> (j < lh.n \/ j = i)
  BY SMT, SMTT(30), <1>2, <1>b, <1>c DEF Index
<1>5. phase = "append" /\ phase' = "in"
  <2>1. pc'[p] = "in"
    BY <1>1, <1>a
  <2> QED BY <2>1, <1>1, PhaseNow, PhaseNext DEF LInv
<1>6. HeadOK(lh)' /\ HeadOK(dhead)'
  BY <1>1, <1>2, <1>4, <1>b DEF LInv, HeadOK
<1>7. CommitInv'
  BY <1>1, <1>5 DEF LInv, CommitInv
<1>8. DirtyInv'
  BY SMT, SMTT(30), <1>1, <1>2, <1>4, <1>5, <1>b DEF LInv, DirtyInv
<1>9. \A q \in Proc : pc'[q] # "append" /\ (pc[q] = "append" => q = p)
  BY <1>1, <1>a DEF LInv, TransInv, Active
<1>10. CacheInv'
  <2>1. ASSUME NEW j \in Index, j < lh'.n, lh.sector[j] \in dirty'
        PROVE  cache[lh.sector[j]] = dlog[j]
    BY <2>1, <1>1, <1>2, <1>4 DEF LInv, CacheInv
  <2>2. ASSUME NEW c \in Block
        PROVE  c \in dirty' \/ cache[c] = NULL \/ cache[c] = disk[c]
    BY <1>1, <1>9 DEF LInv, CacheInv, b
  <2> QED BY <2>1, <2>2, <1>1, <1>b DEF CacheInv
<1>11. AppendInv'
  BY <1>9 DEF AppendInv
<1> QED BY <1>3, <1>6, <1>7, <1>8, <1>10, <1>11 DEF Rest

\* The commit: the header goes to the disk, or there is nothing to commit.
LEMMA CommitStep ==
  ASSUME LInv, NEW p \in Proc, commit_trans(p), TransInv'
  PROVE  TypeInv' /\ Rest'
<1>1. /\ UNCHANGED <<disk, dlog, lh, busy, cache, dirty, at, boot>>
      /\ boot = "done" /\ pc[p] = "in"
  BY DEF commit_trans, At
<1>a. /\ lh \in Head /\ dhead \in Head /\ pc \in [Proc -> Labels]
  BY DEF LInv, TypeInv
<1>2. phase = "in"
  BY <1>1, PhaseNow DEF LInv
<1>3. \A q \in Proc : pc[q] # "append" /\ pc'[q] # "append"
  BY <1>1, <1>a DEF LInv, TransInv, Active, commit_trans, Goto
<1>4. CacheInv' /\ AppendInv' /\ HeadOK(lh)'
  BY <1>1, <1>3 DEF LInv, CacheInv, AppendInv, HeadOK
<1>5. CASE lh.n > 0 /\ dhead' = copyHead(dhead, lh) /\ tail' = 0 /\ Goto(p, "install")
  <2>1. /\ dhead' \in Head /\ dhead'.n = lh.n /\ HeadOK(dhead)'
        /\ \A i \in Index : i < lh.n => dhead'.sector[i] = lh.sector[i]
    BY <1>5, <1>a, CopyHead DEF LInv, HeadOK
  <2>2. phase' = "install"
    <3>1. pc'[p] = "install"
      BY <1>5, <1>a DEF Goto
    <3> QED BY <3>1, <1>1, PhaseNext
  <2>3. TypeInv'
    BY <2>1, <1>1, <1>5, <1>a DEF LInv, TypeInv, Goto, Labels
  <2>4. \A i \in Index : 0 <= i /\ ~(i < 0)
    BY SMT, SMTT(30) DEF Index
  <2>5. lh.n \in Nat
    BY <1>a, HeadFields
  <2>6. CommitInv'
    <3>1. lh'.n = dhead'.n /\ tail' <= lh'.n
      BY SMT, SMTT(30), <2>1, <2>5, <1>1, <1>5
    <3>2. \A i \in Index : i < lh'.n => lh'.sector[i] = dhead'.sector[i]
      BY <2>1, <1>1
    <3>3. \A i \in Index : ~(i < tail')
      BY <2>4, <1>5
    <3> QED BY <2>2, <3>1, <3>2, <3>3 DEF CommitInv
  <2>7. DirtyInv'
    BY <2>2, <2>4, <1>1, <1>2, <1>5 DEF LInv, DirtyInv
  <2> QED BY <2>1, <2>3, <2>6, <2>7, <1>4 DEF Rest
<1>6. CASE lh.n = 0 /\ Goto(p, "end") /\ UNCHANGED <<dhead, tail>>
  <2>1. phase' = "idle"
    <3>1. pc'[p] = "end"
      BY <1>6, <1>a DEF Goto
    <3> QED BY <3>1, <1>1, PhaseNext
  <2>2. TypeInv'
    BY <1>1, <1>6, <1>a DEF LInv, TypeInv, Goto, Labels
  <2>3. dirty = {}
    BY SMT, SMTT(30), <1>2, <1>6 DEF LInv, DirtyInv, TypeInv, Index
  <2>4. CommitInv' /\ DirtyInv' /\ HeadOK(dhead)'
    BY <2>1, <2>3, <1>1, <1>2, <1>6 DEF LInv, CommitInv, DirtyInv, HeadOK
  <2> QED BY <2>2, <2>4, <1>4 DEF Rest
<1> QED BY <1>5, <1>6 DEF commit_trans
\* A turn of install_trans, in commit_trans or in recovery.
LEMMA InstallStep ==
  ASSUME LInv, install_trans, phase \in {"recover", "install"}
  PROVE  TypeInv' /\ Rest' /\ phase' = phase
<1> DEFINE c == lh.sector[tail]
<1>1. /\ UNCHANGED <<dlog, dhead, lh, busy, pc, at, boot>>
      /\ tail < lh.n /\ tail' = tail + 1
      /\ disk' = [disk EXCEPT ![c] = dlog[tail]] /\ cache' = [cache EXCEPT ![c] = dlog[tail]]
      /\ dirty' = dirty \ {c}
  BY DEF install_trans, bwriteHome
<1>a. /\ lh \in Head /\ tail \in Nat /\ disk \in [Block -> Val] /\ dlog \in [Index -> Val]
      /\ cache \in [Block -> Val \cup {NULL}] /\ dirty \subseteq Block
  BY DEF LInv, TypeInv
<1>2. tail \in Index /\ c \in Block /\ lh.n \in Nat
  <2>1. tail \in Index /\ lh.n \in Nat
    BY SMT, SMTT(30), <1>1, <1>a, HeadFields, LogAssumption DEF Index
  <2> QED BY <2>1, <1>1 DEF LInv, HeadOK
<1>3. phase' = phase
  BY <1>1 DEF phase
<1>4. \A j \in Index : j < lh.n /\ lh.sector[j] = c => j = tail
  BY <1>1, <1>2 DEF LInv, HeadOK
<1> HIDE DEF c
<1>5. TypeInv'
  <2>1. disk' \in [Block -> Val] /\ cache' \in [Block -> Val \cup {NULL}] /\ tail' \in Nat
    BY SMT, SMTT(30), <1>1, <1>2, <1>a
  <2> QED BY <2>1, <1>1 DEF LInv, TypeInv
<1>6. \A d \in Block : /\ disk'[d] = IF d = c THEN dlog[tail] ELSE disk[d]
                       /\ cache'[d] = IF d = c THEN dlog[tail] ELSE cache[d]
  BY <1>1, <1>2, <1>a
<1>7. HeadOK(lh)' /\ HeadOK(dhead)'
  BY <1>1 DEF LInv, HeadOK
<1>8. CommitInv'
  <2>1. ASSUME NEW j \in Index, j < tail + 1 PROVE disk'[lh.sector[j]] = dlog[j]
    <3>1. j < tail \/ j = tail
      BY SMT, SMTT(30), <2>1, <1>2 DEF Index
    <3>2. j < lh.n /\ lh.sector[j] \in Block
      BY SMT, SMTT(30), <3>1, <1>1, <1>2 DEF LInv, HeadOK, Index
    <3>3. CASE j = tail
      BY <3>2, <3>3, <1>6 DEF c
    <3>4. CASE j < tail
      <4>1. lh.sector[j] # c
        BY SMT, SMTT(30), <3>2, <3>4, <1>2, <1>4 DEF Index
      <4> QED BY <3>2, <3>4, <4>1, <1>6 DEF LInv, CommitInv
    <3> QED BY <3>1, <3>3, <3>4
  <2>2. tail + 1 <= lh.n
    BY SMT, SMTT(30), <1>1, <1>2, <1>a
  <2> QED BY <2>1, <2>2, <1>1, <1>3 DEF LInv, CommitInv
<1>9. DirtyInv'
  <2>1. CASE phase = "recover"
    BY <2>1, <1>1, <1>3 DEF LInv, DirtyInv
  <2>2. CASE phase = "install"
    <3> SUFFICES ASSUME NEW d \in Block
                 PROVE  d \in dirty' <=> \E i \in Index : tail + 1 <= i /\ i < lh.n /\ lh.sector[i] = d
      BY <2>2, <1>1, <1>3 DEF DirtyInv
    <3>1. d \in dirty <=> \E i \in Index : tail <= i /\ i < lh.n /\ lh.sector[i] = d
      BY <2>2 DEF LInv, DirtyInv
    <3>2. \A i \in Index : tail + 1 <= i <=> tail <= i /\ i # tail
      BY SMT, SMTT(30), <1>a DEF Index
    <3> QED BY <3>1, <3>2, <1>1, <1>2, <1>4 DEF c
  <2> QED BY <2>1, <2>2
<1>10. \A p \in Proc : pc[p] # "append"
  <2>1. CASE boot = "done"
    BY <2>1, PhaseNow DEF LInv
  <2>2. CASE boot # "done"
    BY <2>2 DEF LInv, TransInv
  <2> QED BY <2>1, <2>2
<1>11. CacheInv'
  <2>1. ASSUME NEW j \in Index, j < lh.n, lh.sector[j] \in dirty'
        PROVE  cache'[lh.sector[j]] = dlog[j]
    BY <2>1, <1>1, <1>6, <1>a DEF LInv, CacheInv
  <2>2. ASSUME NEW d \in Block
        PROVE  d \in dirty' \/ cache'[d] = NULL \/ cache'[d] = disk'[d]
    BY <1>1, <1>6, <1>10 DEF LInv, CacheInv
  <2> QED BY <2>1, <2>2, <1>1 DEF CacheInv
<1>12. AppendInv'
  BY <1>1, <1>10 DEF AppendInv
<1> QED BY <1>3, <1>5, <1>7, <1>8, <1>9, <1>11, <1>12 DEF Rest

\* Erasing the log once everything is installed.
LEMMA EraseStep ==
  ASSUME LInv, eraseLog, phase \in {"recover", "install"}, tail = lh.n, tail' = 0,
         UNCHANGED <<disk, dlog, busy, cache, dirty, at>>, phase' = "idle",
         pc' \in [Proc -> Labels], boot' = "done",
         \A p \in Proc : pc[p] # "append" /\ pc'[p] # "append"
  PROVE  TypeInv' /\ Rest'
<1>a. lh \in Head /\ dhead \in Head /\ dirty \subseteq Block
  BY DEF LInv, TypeInv
<1>1. /\ lh' \in Head /\ lh'.n = 0 /\ dhead' \in Head /\ dhead'.n = 0
      /\ HeadOK(lh)' /\ HeadOK(dhead)'
  BY <1>a, EmptyHead DEF eraseLog, HeadOK
<1>2. TypeInv'
  BY <1>1 DEF LInv, TypeInv
<1>3. dirty = {}
  <2>1. \A i \in Index : ~(tail <= i /\ i < lh.n)
    BY SMT, SMTT(30), <1>a, HeadFields DEF Index
  <2> QED BY <2>1, <1>a DEF LInv, DirtyInv
<1>4. CommitInv' /\ DirtyInv'
  BY <1>1, <1>3 DEF CommitInv, DirtyInv
<1>5. \A i \in Index : ~(i < 0)
  BY SMT, SMTT(30) DEF Index
<1>6. CacheInv' /\ AppendInv'
  BY <1>1, <1>5 DEF LInv, CacheInv, AppendInv
<1> QED BY <1>1, <1>2, <1>4, <1>6 DEF Rest

\* The ends of install_trans.
LEMMA EraseSteps ==
  ASSUME LInv, TransInv', recoverErase \/ \E p \in Proc : commitErase(p)
  PROVE  TypeInv' /\ Rest' /\ phase' = "idle"
<1>a. pc \in [Proc -> Labels]
  BY DEF LInv, TypeInv
<1>1. CASE recoverErase
  <2>1. /\ eraseLog /\ phase = "recover" /\ tail = lh.n /\ tail' = 0 /\ boot' = "done"
        /\ UNCHANGED <<disk, dlog, busy, cache, dirty, pc, at>> /\ boot # "done"
    BY <1>1 DEF recoverErase, phase
  <2>2. \A p \in Proc : pc[p] = "user"
    BY <2>1 DEF LInv, TransInv
  <2>3. phase' = "idle"
    BY <2>1, <2>2 DEF phase
  <2> QED BY <2>1, <2>2, <2>3, <1>a, EraseStep
<1>2. ASSUME NEW p \in Proc, commitErase(p)
      PROVE  TypeInv' /\ Rest' /\ phase' = "idle"
  <2>1. /\ eraseLog /\ tail = lh.n /\ tail' = 0 /\ boot = "done" /\ boot' = "done"
        /\ UNCHANGED <<disk, dlog, busy, cache, dirty, at>>
        /\ pc[p] = "install" /\ pc' = [pc EXCEPT ![p] = "end"]
    BY <1>2 DEF commitErase, At, Goto
  <2>2. phase = "install" /\ phase' = "idle"
    BY <2>1, <1>a, PhaseNow, PhaseNext DEF LInv
  <2>3. \A q \in Proc : pc[q] # "append" /\ pc'[q] # "append"
    BY <2>1, <1>a DEF LInv, TransInv, Active
  <2>4. pc' \in [Proc -> Labels]
    BY <2>1, <1>a DEF Labels
  <2> QED BY <2>1, <2>2, <2>3, <2>4, EraseStep
<1> QED BY <1>1, <1>2

\* Recovery reads the header.
LEMMA ReadStep ==
  ASSUME LInv, read_head
  PROVE  TypeInv' /\ Rest'
<1>1. /\ boot = "read" /\ boot' = "install" /\ lh' = copyHead(lh, dhead)
      /\ UNCHANGED <<disk, dlog, dhead, busy, cache, dirty, pc, at, tail>>
  BY DEF read_head
<1>a. lh \in Head /\ dhead \in Head
  BY DEF LInv, TypeInv
<1>2. phase = "read" /\ phase' = "recover"
  BY <1>1 DEF phase
<1>3. /\ lh' \in Head /\ lh'.n = dhead.n /\ HeadOK(lh)' /\ HeadOK(dhead)'
      /\ \A i \in Index : i < dhead.n => lh'.sector[i] = dhead.sector[i]
  BY <1>1, <1>a, CopyHead DEF LInv, HeadOK
<1>4. TypeInv'
  BY <1>1, <1>3 DEF LInv, TypeInv
<1>5. tail = 0 /\ cache = [b \in Block |-> NULL] /\ dirty = {}
  BY <1>2 DEF LInv, CommitInv, DirtyInv
<1>6. dhead.n \in Nat /\ \A i \in Index : ~(i < 0)
  BY SMT, SMTT(30), <1>a, HeadFields DEF Index
<1>7. CommitInv'
  <2>1. lh'.n = dhead'.n /\ tail' <= lh'.n
    BY SMT, SMTT(30), <1>1, <1>3, <1>5, <1>6
  <2>2. \A i \in Index : i < lh'.n => lh'.sector[i] = dhead'.sector[i]
    BY <1>1, <1>3
  <2>3. \A i \in Index : ~(i < tail')
    BY <1>1, <1>5, <1>6
  <2> QED BY <1>2, <2>1, <2>2, <2>3 DEF CommitInv
<1>b. DirtyInv'
  BY <1>1, <1>2, <1>5 DEF DirtyInv
<1>8. \A p \in Proc : pc[p] # "append"
  BY <1>1 DEF LInv, TransInv
<1>9. CacheInv' /\ AppendInv'
  BY <1>1, <1>5, <1>8 DEF CacheInv, AppendInv
<1> QED BY <1>3, <1>4, <1>7, <1>b, <1>9 DEF Rest

\* A crash, at any point.
LEMMA CrashStep ==
  ASSUME LInv, Crash
  PROVE  TypeInv' /\ Rest'
<1>1. /\ UNCHANGED <<disk, dlog, dhead>> /\ lh' = NoHead /\ busy' = FALSE
      /\ cache' = [b \in Block |-> NULL] /\ dirty' = {}
      /\ pc' = [p \in Proc |-> "user"] /\ at' = [p \in Proc |-> NoAt]
      /\ tail' = 0 /\ boot' = "read"
  BY DEF Crash, Reset
<1>2. NoHead \in Head /\ NoHead.n = 0 /\ \A i \in Index : ~(i < 0)
  BY SMT, SMTT(30), LogAssumption DEF NoHead, Head, Index
<1>3. TypeInv'
  BY <1>1, <1>2 DEF LInv, TypeInv, NoAt, Labels
<1>4. phase' = "read"
  BY <1>1 DEF phase
<1>5. HeadOK(lh)' /\ HeadOK(dhead)' /\ CommitInv' /\ DirtyInv'
  BY <1>1, <1>2, <1>4 DEF LInv, HeadOK, CommitInv, DirtyInv
<1>6. CacheInv' /\ AppendInv'
  BY <1>1, <1>2 DEF CacheInv, AppendInv
<1> QED BY <1>3, <1>5, <1>6 DEF Rest

\* Every step preserves the invariant.
LEMMA LInvNext == LInv /\ [Next]_vars => LInv'
<1> SUFFICES ASSUME LInv, [Next]_vars PROVE LInv'
  OBVIOUS
<1>1. CASE UNCHANGED vars
  <2>1. phase' = phase
    BY <1>1 DEF vars, phase
  <2>2. /\ UNCHANGED <<disk, dlog, dhead, lh, busy, cache>>
        /\ UNCHANGED <<dirty, pc, at, tail, boot>>
    BY <1>1 DEF vars
  <2>3. TypeInv'
    BY <2>2 DEF LInv, TypeInv
  <2>4. TransInv'
    BY <2>2 DEF LInv, TransInv
  <2>5. HeadOK(lh)' /\ HeadOK(dhead)'
    BY <2>2 DEF LInv, HeadOK
  <2>6. CommitInv'
    BY <2>1, <2>2 DEF LInv, CommitInv
  <2>7. DirtyInv'
    BY <2>1, <2>2 DEF LInv, DirtyInv
  <2>8. CacheInv'
    BY <2>2 DEF LInv, CacheInv
  <2>9. AppendInv'
    BY <2>2 DEF LInv, AppendInv
  <2> QED BY <2>3, <2>4, <2>5, <2>6, <2>7, <2>8, <2>9 DEF LInv
<1>2. CASE Next
  <2>a. TransInv'
    BY <1>2, TransStep DEF LInv
  <2>1. ASSUME NEW p \in Proc, commitInstall(p) PROVE TypeInv' /\ Rest'
    <3>1. install_trans /\ phase = "install"
      BY <2>1, PhaseNow DEF commitInstall, At, LInv
    <3> QED BY <3>1, InstallStep
  <2>2. ASSUME recoverInstall PROVE TypeInv' /\ Rest'
    <3>1. install_trans /\ phase = "recover"
      BY <2>2 DEF recoverInstall, phase
    <3> QED BY <3>1, InstallStep
  <2>3. ASSUME NEW p \in Proc, Trans(p) PROVE TypeInv' /\ Rest'
    BY <2>a, <2>1, <2>3, BeginEndStep, WriteStep, AppendStep, CommitStep, EraseSteps DEF Trans
  <2>4. TypeInv' /\ Rest'
    BY <2>a, <2>2, <2>3, <1>2, CacheStep, EraseSteps, ReadStep, CrashStep DEF Next, Run, Recover
  <2> QED BY <2>a, <2>4 DEF LInv, Rest
<1> QED BY <1>1, <1>2
-----------------------------------------------------------------------------
(* The theorems. *)

\* NoSleeperLeft: a process asleep in begin_trans waits for one that runs.
THEOREM NoWaiterLeft == Spec => []NoSleeperLeft
<1>1. LInv => NoSleeperLeft
  BY DEF LInv, TransInv, NoSleeperLeft, Active
<1> QED BY <1>1, LInvInit, LInvNext, PTL DEF Spec

\* Overlaying a header that names no block twice.
LEMMA OverlayAt ==
  ASSUME NEW d, NEW h \in Head, NEW l, HeadOK(h)
  PROVE  /\ Overlay(d, h, l) = [b \in Block |-> Overlay(d, h, l)[b]]
         /\ \A i \in Index : i < h.n => Overlay(d, h, l)[h.sector[i]] = l[i]
         /\ \A b \in Block : (\A i \in Index : i < h.n => h.sector[i] # b)
                               => Overlay(d, h, l)[b] = d[b]
<1>1. Overlay(d, h, l) = [b \in Block |-> Overlay(d, h, l)[b]]
  BY SMT, SMTT(30) DEF Overlay
<1>2. ASSUME NEW i \in Index, i < h.n PROVE Overlay(d, h, l)[h.sector[i]] = l[i]
  <2>1. h.sector[i] \in Block /\ Entry(h, h.sector[i]) = {i}
    BY <1>2 DEF HeadOK, Entry
  <2> QED BY <2>1 DEF Overlay
<1>3. ASSUME NEW b \in Block, \A i \in Index : i < h.n => h.sector[i] # b
      PROVE  Overlay(d, h, l)[b] = d[b]
  <2>1. Entry(h, b) = {}
    BY <1>3 DEF Entry
  <2> QED BY <2>1 DEF Overlay
<1> QED BY <1>1, <1>2, <1>3

\* Outside begin_trans to commit, a reader sees what a reboot would find.
LEMMA ViewStable == LInv /\ phase \in {"idle", "install"} => View = stable
<1> SUFFICES ASSUME LInv, phase \in {"idle", "install"}, NEW b \in Block
             PROVE  View[b] = stable[b]
  <2>1. LInv => stable = [b \in Block |-> stable[b]]
    BY SMT, SMTT(30), OverlayAt DEF stable, LInv, TypeInv
  <2> QED BY <2>1 DEF View
<1>a. /\ dhead \in Head /\ lh \in Head /\ tail \in Nat /\ disk \in [Block -> Val]
      /\ dlog \in [Index -> Val] /\ dirty \subseteq Block
  BY DEF LInv, TypeInv
<1>b. \A p \in Proc : pc[p] # "append"
  BY DEF LInv, TransInv, Active, phase
<1>1. b \in dirty \/ cache[b] = NULL \/ cache[b] = disk[b]
  BY <1>b DEF LInv, CacheInv
<1>2. View[b] = IF cache[b] = NULL THEN disk[b] ELSE cache[b]
  BY DEF View
<1>3. CASE phase = "idle"
  <2>1. dirty = {} /\ dhead.n = 0
    BY <1>3 DEF LInv, DirtyInv, CommitInv
  <2>2. stable[b] = disk[b]
    BY SMT, SMTT(30), <2>1, <1>a, OverlayAt DEF LInv, stable, Index
  <2> QED BY <2>1, <2>2, <1>1, <1>2
<1>4. CASE phase = "install"
  <2>a. /\ lh.n = dhead.n /\ \A i \in Index : i < lh.n => lh.sector[i] = dhead.sector[i]
        /\ \A i \in Index : i < tail => disk[lh.sector[i]] = dlog[i]
    BY <1>4 DEF LInv, CommitInv
  <2>b. b \in dirty <=> \E i \in Index : tail <= i /\ i < lh.n /\ lh.sector[i] = b
    BY <1>4 DEF LInv, DirtyInv
  <2>1. CASE b \in dirty
    <3>1. PICK i \in Index : tail <= i /\ i < lh.n /\ lh.sector[i] = b
      BY <2>1, <2>b
    <3>2. cache[b] = dlog[i] /\ dlog[i] # NULL
      BY SMT, SMTT(30), <2>1, <3>1, <1>a, LogAssumption DEF LInv, CacheInv
    <3>3. stable[b] = dlog[i]
      BY SMT, SMTT(30), <3>1, <2>a, <1>a, OverlayAt DEF LInv, stable
    <3> QED BY <3>2, <3>3, <1>2
  <2>2. CASE b \notin dirty
    <3>1. View[b] = disk[b]
      BY <2>2, <1>1, <1>2
    <3>2. CASE \E i \in Index : i < lh.n /\ lh.sector[i] = b
      <4>1. PICK i \in Index : i < lh.n /\ lh.sector[i] = b
        BY <3>2
      <4>2. i < tail
        BY SMT, SMTT(30), <2>2, <2>b, <4>1, <1>a DEF Index
      <4>3. stable[b] = dlog[i]
        BY SMT, SMTT(30), <4>1, <2>a, <1>a, OverlayAt DEF LInv, stable
      <4> QED BY <3>1, <4>1, <4>2, <4>3, <2>a
    <3>3. CASE \A i \in Index : i < lh.n => lh.sector[i] # b
      BY SMT, SMTT(30), <3>1, <3>3, <2>a, <1>a, OverlayAt DEF LInv, stable
    <3> QED BY <3>2, <3>3
  <2> QED BY <2>1, <2>2
<1> QED BY <1>3, <1>4
\* The same in the next state.
LEMMA ViewStableNext == (LInv /\ phase \in {"idle", "install"} => View = stable)'
BY ViewStable, PTL

\* Installing a block changes nothing that recovery would see, since it is read
\* from the log; nor does erasing a log whose blocks are all installed.
LEMMA StableKept ==
  ASSUME LInv, LInv', phase \in {"recover", "install"},
         \/ install_trans
         \/ eraseLog /\ tail = lh.n /\ UNCHANGED disk
  PROVE  stable' = stable
<1>a. /\ dhead \in Head /\ dhead' \in Head /\ lh \in Head /\ tail \in Nat
      /\ disk \in [Block -> Val] /\ HeadOK(dhead) /\ HeadOK(dhead)'
  BY DEF LInv, TypeInv
<1>b. /\ lh.n = dhead.n /\ \A i \in Index : i < lh.n => lh.sector[i] = dhead.sector[i]
      /\ \A i \in Index : i < tail => disk[lh.sector[i]] = dlog[i]
  BY DEF LInv, CommitInv
<1>1. stable = [b \in Block |-> stable[b]] /\ stable' = [b \in Block |-> stable'[b]]
  BY SMT, SMTT(30), <1>a, OverlayAt DEF stable, HeadOK
<1>2. ASSUME NEW b \in Block PROVE stable'[b] = stable[b]
  <2>1. CASE install_trans
    <3>1. /\ dhead' = dhead /\ dlog' = dlog /\ tail < lh.n
          /\ disk' = [disk EXCEPT ![lh.sector[tail]] = dlog[tail]]
      BY <2>1 DEF install_trans, bwriteHome
    <3>2. CASE \E i \in Index : i < dhead.n /\ dhead.sector[i] = b
      BY SMT, SMTT(30), <3>1, <3>2, <1>a, OverlayAt DEF stable
    <3>3. CASE \A i \in Index : i < dhead.n => dhead.sector[i] # b
      <4>1. tail \in Index
        BY SMT, SMTT(30), <3>1, <1>a, HeadFields, LogAssumption DEF Index
      <4>2. disk'[b] = disk[b]
        BY <4>1, <3>1, <3>3, <1>a, <1>b
      <4>3. stable[b] = disk[b]
        BY SMT, SMTT(30), <3>3, <1>a, OverlayAt DEF stable
      <4>4. Overlay(disk', dhead, dlog)[b] = disk'[b]
        BY SMT, SMTT(30), <3>3, <1>a, OverlayAt
      <4> QED BY <3>1, <4>2, <4>3, <4>4 DEF stable
    <3> QED BY <3>2, <3>3
  <2>2. CASE eraseLog /\ tail = lh.n /\ UNCHANGED disk
    <3>1. dhead'.n = 0
      BY <2>2, <1>a, EmptyHead DEF eraseLog
    <3>2. \A i \in Index : ~(i < dhead'.n)
      BY SMT, SMTT(30), <3>1 DEF Index
    <3>3. stable'[b] = disk[b]
      <4>1. HeadOK(dhead')
        BY <1>a DEF HeadOK
      <4>2. Overlay(disk', dhead', dlog')[b] = disk'[b]
        BY SMT, SMTT(30), <3>2, <4>1, <1>a, OverlayAt
      <4> QED BY <2>2, <4>2 DEF stable
    <3>4. CASE \E i \in Index : i < dhead.n /\ dhead.sector[i] = b
      BY SMT, SMTT(30), <3>3, <3>4, <2>2, <1>a, <1>b, OverlayAt DEF stable
    <3>5. CASE \A i \in Index : i < dhead.n => dhead.sector[i] # b
      BY SMT, SMTT(30), <3>3, <3>5, <1>a, OverlayAt DEF stable
    <3> QED BY <3>4, <3>5
  <2> QED BY <2>1, <2>2
<1> QED BY <1>1, <1>2

\* Recycling a buffer, or reading a block into one, shows the same block.
LEMMA ViewKept ==
  ASSUME LInv, Cache
  PROVE  View' = View
<1>1. PICK b \in Block : bread(b) \/ bgetRecycle(b)
  BY DEF Cache
<1>2. disk' = disk /\ (cache' = [cache EXCEPT ![b] = disk[b]] \/ cache' = [cache EXCEPT ![b] = NULL])
  BY <1>1 DEF bread, bgetRecycle
<1>3. cache[b] = NULL \/ cache[b] = disk[b]
  <2>1. CASE bread(b)
    BY <2>1 DEF bread
  <2>2. CASE bgetRecycle(b)
    BY <2>2 DEF bgetRecycle, Busy, At, LInv, CacheInv
  <2> QED BY <1>1, <2>1, <2>2
<1>4. cache \in [Block -> Val \cup {NULL}] /\ disk \in [Block -> Val]
  BY DEF LInv, TypeInv
<1>5. \A c \in Block : View'[c] = View[c]
  BY <1>2, <1>3, <1>4 DEF View
<1> QED BY <1>5 DEF View
\* Every step of the log is a step of AtomicDisk, or changes nothing there.
LEMMA StepRefines ==
  ASSUME LInv, LInv', Next
  PROVE  AD!Next \/ UNCHANGED <<stable, current, writers>>
<1>a. /\ pc \in [Proc -> Labels] /\ cache \in [Block -> Val \cup {NULL}] /\ TransInv /\ TransInv'
      /\ dhead \in Head /\ HeadOK(dhead) /\ disk \in [Block -> Val]
  BY DEF LInv, TypeInv
<1>1. CASE Crash
  <2>1. stable' = stable /\ current' = stable' /\ writers' = {}
    BY <1>1 DEF Crash, Reset, stable, current, writers
  <2> QED BY <2>1 DEF AD!Next, AD!Crash
<1>2. CASE Cache
  <2>1. UNCHANGED <<disk, dlog, dhead, pc, boot>>
    BY <1>2 DEF Cache, bread, bgetRecycle
  <2>2. View' = View
    BY <1>2, ViewKept
  <2> QED BY <2>1, <2>2 DEF stable, current, writers
<1>3. CASE Recover
  <2>a. /\ UNCHANGED pc /\ boot # "done"
        /\ (read_head /\ UNCHANGED <<disk, dlog, dhead>> /\ boot' # "done")
           \/ (recoverInstall /\ install_trans /\ boot' # "done" /\ phase = "recover")
           \/ (recoverErase /\ eraseLog /\ tail = lh.n /\ UNCHANGED disk /\ phase = "recover")
    BY <1>3 DEF Recover, read_head, recoverInstall, install_trans, recoverErase, phase
  <2>1. stable' = stable
    BY <2>a, StableKept DEF stable
  <2>2. current = stable /\ current' = stable'
    <3>1. recoverErase => View' = stable'
      BY <1>a, EraseSteps, ViewStableNext
    <3> QED BY <2>a, <3>1 DEF current
  <2> QED BY <2>1, <2>2, <2>a DEF writers
<1>4. ASSUME NEW p \in Proc, Trans(p)
      PROVE  AD!Next \/ UNCHANGED <<stable, current, writers>>
  <2>a. boot = "done" /\ boot' = "done" /\ current = View /\ current' = View'
    BY <1>4 DEF Trans, begin_trans, log_append, commit_trans, commitInstall, install_trans, commitErase,
       commitEnd, log_write, At, current
  <2>1. CASE begin_trans(p)
    <3>1. stable' = stable /\ View' = View
      BY <2>1 DEF begin_trans, stable, View
    <3>2. CASE busy
      <4>1. writers' = writers
        BY <2>1, <3>2, <1>a DEF begin_trans, Goto, At, writers
      <4> QED BY <3>1, <4>1, <2>a
    <3>3. CASE ~busy
      <4>1. writers = {} /\ writers' = {p}
        BY <2>1, <3>3, <1>a DEF begin_trans, Goto, writers, TransInv, Active
      <4> QED BY <3>1, <4>1, <2>a DEF AD!Next, AD!Begin
    <3> QED BY <3>2, <3>3
  <2>2. ASSUME NEW b \in Block, NEW v \in Val, log_write(p, b, v)
        PROVE  AD!Next
    <3>1. /\ UNCHANGED <<disk, dhead>> /\ cache' = [cache EXCEPT ![b] = v]
          /\ pc[p] = "in" /\ pc' = [pc EXCEPT ![p] = "append"]
      BY <2>2 DEF log_write, At, Goto
    <3>2. phase = "in"
      BY <3>1, <2>a, <1>a, PhaseNow
    <3>3. \A i \in Index : ~(i < dhead.n)
      <4>1. dhead.n = 0
        BY <3>2 DEF LInv, CommitInv
      <4> QED BY SMT, SMTT(30), <4>1 DEF Index
    <3>4. stable' = stable
      <4>1. \A d \in Block : Entry(dhead, d) = {}
        BY <3>3 DEF Entry
      <4> QED BY <4>1, <3>1 DEF stable, Overlay
    <3>5. View' = [View EXCEPT ![b] = v]
      <4>1. v # NULL
        BY LogAssumption
      <4> QED BY <4>1, <3>1, <1>a DEF View
    <3>6. p \in writers /\ writers' = writers
      BY <3>1, <1>a DEF writers
    <3>7. AD!Write(p, b, v)
      BY <3>4, <3>5, <3>6, <2>a DEF AD!Write
    <3> QED BY <3>7 DEF AD!Next
  <2>3. CASE log_append(p)
    <3>1. stable' = stable /\ View' = View
      BY <2>3 DEF log_append, stable, View
    <3>2. writers' = writers
      BY <2>3, <1>a DEF log_append, At, Goto, writers
    <3> QED BY <3>1, <3>2, <2>a
  <2>4. CASE commit_trans(p)
    <3>1. /\ View' = View /\ pc[p] = "in"
          /\ \E l \in {"install", "end"} : pc' = [pc EXCEPT ![p] = l]
      BY <2>4 DEF commit_trans, At, Goto, View
    <3>2. phase' \in {"idle", "install"}
      BY <3>1, <2>a, <1>a, PhaseNext
    <3>3. stable' = View'
      BY <3>2, ViewStableNext
    <3>4. p \in writers /\ writers' = writers \ {p}
      BY <3>1, <1>a DEF writers
    <3> QED BY <3>1, <3>3, <3>4, <2>a DEF AD!Next, AD!Commit
  <2>5. CASE commitInstall(p)
    <3>1. install_trans /\ phase = "install" /\ pc' = pc
      BY <2>5, <1>a, PhaseNow DEF commitInstall, install_trans, At
    <3>2. stable' = stable /\ phase' = phase
      BY <3>1, StableKept, InstallStep
    <3>3. View = stable /\ View' = stable'
      BY <3>1, <3>2, ViewStable, ViewStableNext
    <3> QED BY <3>1, <3>2, <3>3, <2>a DEF writers
  <2>6. CASE commitErase(p)
    <3>1. /\ eraseLog /\ tail = lh.n /\ UNCHANGED disk /\ pc[p] = "install"
          /\ pc' = [pc EXCEPT ![p] = "end"]
      BY <2>6 DEF commitErase, At, Goto
    <3>2. phase = "install" /\ phase' = "idle"
      BY <2>6, <3>1, <2>a, <1>a, PhaseNow, EraseSteps
    <3>3. stable' = stable /\ View = stable /\ View' = stable'
      BY <3>1, <3>2, StableKept, ViewStable, ViewStableNext
    <3>4. writers' = writers
      BY <3>1, <1>a DEF writers
    <3> QED BY <3>3, <3>4, <2>a
  <2>7. CASE commitEnd(p)
    <3>1. stable' = stable /\ View' = View
      BY <2>7 DEF commitEnd, stable, View
    <3>2. writers' = writers
      BY <2>7, <1>a DEF commitEnd, At, writers
    <3> QED BY <3>1, <3>2, <2>a
  <2> QED BY <1>4, <2>1, <2>2, <2>3, <2>4, <2>5, <2>6, <2>7 DEF Trans
<1> QED BY <1>1, <1>2, <1>3, <1>4 DEF Next, Run

\* Atomic: the log implements AtomicDisk.  Transactions of begin_trans to
\* commit_trans take effect one at a time and all at once, whatever buffers are
\* recycled and whenever the machine stops, also during recovery.
THEOREM LogAtomic == Spec => Atomic
<1>1. Init => AD!Init
  <2> SUFFICES ASSUME Init PROVE AD!Init
    OBVIOUS
  <2>1. PICK v \in Val : disk = [b \in Block |-> v]
    BY DEF Init
  <2>2. \A b \in Block : Entry(dhead, b) = {}
    BY SMT, SMTT(30) DEF Init, NoHead, Entry, Index
  <2>3. stable = [b \in Block |-> v]
    BY <2>1, <2>2 DEF stable, Overlay
  <2>4. current = stable /\ writers = {}
    BY DEF Init, current, writers
  <2> QED BY <2>3, <2>4 DEF AD!Init
<1>2. LInv /\ LInv' /\ [Next]_vars => [AD!Next]_(AD!vars)
  <2> SUFFICES ASSUME LInv, LInv', [Next]_vars PROVE AD!Next \/ UNCHANGED <<stable, current, writers>>
    BY DEF AD!vars
  <2>1. CASE UNCHANGED vars
    BY <2>1 DEF vars, stable, current, writers, View
  <2> QED BY <2>1, StepRefines
<1> QED BY <1>1, <1>2, LInvInit, LInvNext, PTL DEF Spec, Atomic, AD!Spec
=============================================================================
