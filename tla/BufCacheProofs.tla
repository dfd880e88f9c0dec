--------------------------- MODULE BufCacheProofs ---------------------------
(***************************************************************************)
(* The buffer cache's safety for any numbers of processes, sectors, values *)
(* and buffers.  The invariant BInv says who owns a buffer (Holder), that  *)
(* a B_VALID buffer has the sector's content, that the disk has it unless  *)
(* a B_DIRTY buffer does (Fresh), and which requests are in the queue      *)
(* (Queued).                                                               *)
(***************************************************************************)
EXTENDS BufCache, WellFoundedInduction, TLAPS

\* Zenon is the prover of what follows; the steps that need arithmetic,
\* records or sequences name SMT.
USE Zenon, ZenonT(30)

Labels == {"user", "get", "getSleep", "rw", "ideSleep", "ideWoken", "held", "done"}
HoldLabels == {"rw", "ideSleep", "ideWoken", "held", "done"}

Types ==
  /\ sector \in [Buf -> Sector \cup {NULL}]
  /\ busy \in SUBSET Buf /\ valid \in SUBSET Buf /\ dirty \in SUBSET Buf
  /\ data \in [Buf -> Val] /\ disk \in [Sector -> Val] /\ content \in [Sector -> Val]
  /\ idequeue \in Seq(Buf)
  /\ pc \in [Proc -> Labels] /\ buf \in [Proc -> Buf \cup {NULL}]
  /\ want \in [Proc -> Sector \cup {NULL}]

\* Every buffer is in the list, so a search of it misses none.
Listed == list \in [Buf -> Buf] /\ \A b \in Buf : \E k \in Buf : list[k] = b

\* A process that bget has given a buffer is its only holder, and the buffer
\* caches the sector that it asked for.
Holder ==
  /\ \A p \in Proc : pc[p] \in {"get", "getSleep"} => want[p] \in Sector
  /\ \A p \in Proc : pc[p] \in HoldLabels =>
       buf[p] \in busy /\ sector[buf[p]] = want[p] /\ want[p] \in Sector
  /\ \A p, q \in Proc : pc[p] \in HoldLabels /\ pc[q] \in HoldLabels /\ buf[p] = buf[q] => p = q

\* One buffer per sector.
OneSector == \A a, b \in Buf : sector[a] = sector[b] /\ sector[a] # NULL => a = b

\* Where the last write of a sector is.
Fresh ==
  /\ dirty \subseteq valid
  /\ \A b \in valid : sector[b] \in Sector /\ data[b] = content[sector[b]]
  /\ \A s \in Sector : disk[s] = content[s] \/ \E b \in dirty : sector[b] = s
  /\ \A p \in Proc : pc[p] \in {"held", "done"} => buf[p] \in valid
  /\ \A p \in Proc : pc[p] = "ideWoken" => buf[p] \in valid \ dirty

Queued ==
  /\ active = (IF idequeue = << >> THEN NULL ELSE Head(idequeue))
  /\ \A j, k \in DOMAIN idequeue : idequeue[j] = idequeue[k] => j = k
  /\ \A k \in DOMAIN idequeue : \E p \in Proc : buf[p] = idequeue[k] /\ pc[p] = "ideSleep"
  /\ \A p \in Proc : pc[p] = "ideSleep" => \E k \in DOMAIN idequeue : idequeue[k] = buf[p]
  /\ \A p \in Proc : pc[p] = "rw" => buf[p] \notin valid \/ buf[p] \in dirty

BInv == Types /\ Listed /\ Holder /\ OneSector /\ Fresh /\ Queued

\* binit, with an idle disk.
LEMMA BInit == Init => BInv
<1> SUFFICES ASSUME Init PROVE BInv
  OBVIOUS
<1>1. Types
  BY SMT, SMTT(30) DEF Init, Types, Labels
<1>2. Listed
  <2>1. \A b \in Buf : NBUF + 1 - b \in Buf
    BY SMT, SMTT(30), BufCacheAssumption DEF Buf
  <2>2. \A b \in Buf : list[NBUF + 1 - b] = b
    BY SMT, SMTT(30), <2>1, BufCacheAssumption DEF Init, Buf
  <2>3. list \in [Buf -> Buf]
    BY <2>1 DEF Init
  <2> QED BY <2>1, <2>2, <2>3 DEF Listed
<1>3. Holder
  BY DEF Init, Holder, HoldLabels
<1>4. OneSector
  BY DEF Init, OneSector
<1>5. Fresh
  BY DEF Init, Fresh
<1>6. Queued
  BY SMT, SMTT(30) DEF Init, Queued
<1> QED BY <1>1, <1>2, <1>3, <1>4, <1>5, <1>6 DEF BInv

\* A step that changes no buffer and no request, and moves p between labels at
\* which it holds none, as bread and bgetSleep do.
LEMMA OutsideStep ==
  ASSUME BInv, NEW p \in Proc, NEW l \in {"get", "getSleep"},
         pc[p] \in {"user", "get"}, pc' = [pc EXCEPT ![p] = l],
         UNCHANGED <<sector, busy, valid, dirty, data, list, ide, content>>,
         buf' \in [Proc -> Buf \cup {NULL}], want' \in [Proc -> Sector \cup {NULL}],
         want'[p] \in Sector,
         \A q \in Proc \ {p} : buf'[q] = buf[q] /\ want'[q] = want[q]
  PROVE  BInv'
<1>1. /\ Types' /\ Listed' /\ OneSector'
  BY DEF BInv, Types, Listed, OneSector, Labels, ide
<1>a. pc'[p] = l /\ \A q \in Proc \ {p} : pc'[q] = pc[q]
  BY DEF BInv, Types
<1>b. UNCHANGED <<disk, idequeue, active>>
  BY DEF ide
<1>2. Holder'
  BY SMT, SMTT(30), <1>a DEF BInv, Holder, HoldLabels
<1>3. Fresh'
  BY <1>a, <1>b DEF BInv, Fresh
<1>4. Queued'
  <2>1. \A q \in Proc : pc[q] \in {"ideSleep", "rw"} <=> pc'[q] \in {"ideSleep", "rw"}
    BY <1>a
  <2>2. \A q \in Proc : pc[q] \in {"ideSleep", "rw"} => q # p /\ pc'[q] = pc[q] /\ buf'[q] = buf[q]
    BY <1>a
  <2>3. \A q \in Proc : pc'[q] \in {"ideSleep", "rw"} => q # p /\ pc'[q] = pc[q] /\ buf'[q] = buf[q]
    BY <1>a
  <2>4. \A k \in DOMAIN idequeue : \E q \in Proc : buf'[q] = idequeue[k] /\ pc'[q] = "ideSleep"
    BY SMT, SMTT(30), <2>2 DEF BInv, Queued
  <2>5. \A q \in Proc : pc'[q] = "ideSleep" => \E k \in DOMAIN idequeue : idequeue[k] = buf'[q]
    BY SMT, SMTT(30), <2>3 DEF BInv, Queued
  <2>6. \A q \in Proc : pc'[q] = "rw" => buf'[q] \notin valid \/ buf'[q] \in dirty
    BY <2>3 DEF BInv, Queued
  <2> QED BY SMT, SMTT(30), <2>4, <2>5, <2>6, <1>b DEF BInv, Queued
<1> QED BY <1>1, <1>2, <1>3, <1>4 DEF BInv

\* bread looks for its sector; bget sleeps on a busy buffer.
LEMMA SearchStep ==
  ASSUME BInv, NEW p \in Proc, (\E s \in Sector : bread(p, s)) \/ bgetSleep(p)
  PROVE  BInv'
<1>1. ASSUME NEW s \in Sector, bread(p, s) PROVE BInv'
  BY <1>1, OutsideStep DEF bread, Goto, BInv, Types
<1>2. CASE bgetSleep(p)
  <2>1. PICK b \in Buf : buf' = [buf EXCEPT ![p] = b]
    BY <1>2 DEF bgetSleep
  <2> QED BY <1>2, <2>1, OutsideStep DEF bgetSleep, Goto, BInv, Types, Holder
<1> QED BY <1>1, <1>2

\* A buffer without B_BUSY has no holder and is not in the queue.
LEMMA NoHolder ==
  ASSUME BInv, NEW b \in Buf, b \notin busy
  PROVE  /\ \A q \in Proc : pc[q] \in HoldLabels => buf[q] # b
         /\ \A k \in DOMAIN idequeue : idequeue[k] # b
BY SMT, SMTT(30) DEF BInv, Holder, Queued, HoldLabels

\* bget finds the sector.
LEMMA HitStep ==
  ASSUME BInv, NEW p \in Proc, bgetHit(p)
  PROVE  BInv'
<1>1. PICK b \in Buf : /\ Cached(want[p], b) /\ b \notin busy /\ busy' = busy \cup {b}
                       /\ buf' = [buf EXCEPT ![p] = b]
                       /\ Goto(p, IF b \in valid THEN "held" ELSE "rw")
  BY DEF bgetHit
<1>2. /\ pc[p] = "get"
      /\ UNCHANGED <<sector, valid, dirty, data, list, disk, idequeue, active, want, content>>
  BY DEF bgetHit, ide
<1>3. sector[b] = want[p] /\ want[p] \in Sector
  BY <1>1, <1>2 DEF Cached, BInv, Holder
<1>4. /\ pc'[p] = (IF b \in valid THEN "held" ELSE "rw") /\ buf'[p] = b
      /\ \A q \in Proc \ {p} : pc'[q] = pc[q] /\ buf'[q] = buf[q]
  BY <1>1 DEF Goto, BInv, Types
<1>5. \A q \in Proc : pc[q] \in HoldLabels => buf[q] # b
  BY <1>1, NoHolder
<1>6. Types'
  BY <1>1, <1>2 DEF BInv, Types, Labels, Goto
<1>7. Listed' /\ OneSector'
  BY <1>2 DEF BInv, Listed, OneSector
<1>8. Holder'
  BY SMT, SMTT(30), <1>1, <1>2, <1>3, <1>4, <1>5 DEF BInv, Holder, HoldLabels
<1>9. Fresh'
  BY <1>2, <1>4 DEF BInv, Fresh
<1>10. Queued'
  <2>1. \A q \in Proc : /\ pc[q] = "ideSleep" <=> pc'[q] = "ideSleep"
                        /\ pc[q] = "ideSleep" => buf'[q] = buf[q]
    BY <1>2, <1>4
  <2>2. \A k \in DOMAIN idequeue : \E q \in Proc : buf'[q] = idequeue[k] /\ pc'[q] = "ideSleep"
    BY SMT, SMTT(30), <2>1 DEF BInv, Queued
  <2>3. \A q \in Proc : pc'[q] = "ideSleep" => \E k \in DOMAIN idequeue : idequeue[k] = buf'[q]
    BY SMT, SMTT(30), <2>1 DEF BInv, Queued
  <2>4. \A q \in Proc : pc'[q] = "rw" => buf'[q] \notin valid \/ buf'[q] \in dirty
    BY <1>4 DEF BInv, Queued
  <2> QED BY SMT, SMTT(30), <2>2, <2>3, <2>4, <1>2 DEF BInv, Queued
<1> QED BY <1>6, <1>7, <1>8, <1>9, <1>10 DEF BInv

\* A set of natural numbers has a least element.
LEMMA Least ==
  ASSUME NEW S \in SUBSET Nat, S # {}
  PROVE  \E n \in S : \A m \in S : n <= m
<1> DEFINE R == OpToRel(<, Nat)
<1>1. IsWellFoundedOn(R, Nat)
  BY NatLessThanWellFounded
<1>2. \A x, y \in Nat : <<x, y>> \in R <=> x < y
  BY DEF OpToRel
<1> HIDE DEF R
<1>3. PICK x \in S : \A y \in S : ~ (<<y, x>> \in R)
  BY <1>1, WFMin, Zenon
<1>4. \A y \in S : ~(y < x)
  BY <1>2, <1>3
<1> QED BY SMT, SMTT(30), <1>4

\* When bget's search of the list ends without a hit, no buffer has the sector.
LEMMA SearchComplete ==
  ASSUME BInv, NEW s, \A b \in Buf : ~ Cached(s, b)
  PROVE  \A b \in Buf : sector[b] # s
<1> SUFFICES ASSUME NEW c \in Buf, sector[c] = s PROVE FALSE
  OBVIOUS
<1> DEFINE S == {k \in Buf : sector[list[k]] = s}
<1>0. Buf \subseteq Nat /\ \A k \in Buf : \A j \in 1..(k - 1) : j \in Buf /\ j < k
  BY SMT, SMTT(30), BufCacheAssumption DEF Buf
<1>1. S \in SUBSET Nat /\ S # {}
  <2>1. PICK m \in Buf : list[m] = c
    BY DEF BInv, Listed
  <2>2. m \in S
    BY <2>1
  <2> QED BY <2>2, <1>0
<1>2. PICK k \in S : \A m \in S : k <= m
  <2> HIDE DEF S
  <2> QED BY <1>1, Least
<1>3. \A j \in 1..(k - 1) : j \in Buf /\ j \notin S
  BY SMT, SMTT(30), <1>0, <1>1, <1>2
<1>4. Cached(s, list[k]) /\ list[k] \in Buf
  BY <1>2, <1>3 DEF Cached, BInv, Listed
<1> QED BY <1>4

\* bget recycles a buffer.
LEMMA RecycleStep ==
  ASSUME BInv, NEW p \in Proc, bgetRecycle(p)
  PROVE  BInv'
<1>1. PICK b \in Buf : /\ LastOf(b, busy \cup dirty)
                       /\ sector' = [sector EXCEPT ![b] = want[p]]
                       /\ busy' = busy \cup {b} /\ valid' = valid \ {b}
                       /\ buf' = [buf EXCEPT ![p] = b]
  BY DEF bgetRecycle
<1>2. /\ pc[p] = "get" /\ pc' = [pc EXCEPT ![p] = "rw"]
      /\ UNCHANGED <<dirty, data, list, disk, idequeue, active, want, content>>
  BY DEF bgetRecycle, ide, Goto
<1>3. b \notin busy /\ b \notin dirty
  BY <1>1 DEF LastOf
<1>4. want[p] \in Sector
  BY <1>2 DEF BInv, Holder
<1>5. \A c \in Buf : sector[c] # want[p]
  <2> DEFINE s == want[p]
  <2>1. \A c \in Buf : ~ Cached(s, c)
    BY DEF bgetRecycle
  <2> HIDE DEF s
  <2>2. \A c \in Buf : sector[c] # s
    BY <2>1, SearchComplete
  <2> QED BY <2>2 DEF s
<1>6. /\ pc'[p] = "rw" /\ buf'[p] = b
      /\ \A q \in Proc \ {p} : pc'[q] = pc[q] /\ buf'[q] = buf[q]
  BY <1>1, <1>2 DEF BInv, Types
<1>7. \A q \in Proc : pc[q] \in HoldLabels => buf[q] # b
  BY <1>3, NoHolder
<1>8. sector'[b] = want[p] /\ \A c \in Buf \ {b} : sector'[c] = sector[c]
  BY <1>1 DEF BInv, Types
<1>9. Types'
  BY <1>1, <1>2, <1>4 DEF BInv, Types, Labels
<1>10. Listed' /\ OneSector'
  <2>1. Listed'
    BY <1>2 DEF BInv, Listed
  <2>2. OneSector'
    BY <1>5, <1>8 DEF BInv, OneSector
  <2> QED BY <2>1, <2>2
<1>11. Holder'
  <2>1. \A q \in Proc : pc'[q] \in {"get", "getSleep"} => want'[q] \in Sector
    BY <1>2, <1>6 DEF BInv, Holder
  <2>2. ASSUME NEW q \in Proc, pc'[q] \in HoldLabels
        PROVE  buf'[q] \in busy' /\ sector'[buf'[q]] = want'[q] /\ want'[q] \in Sector
    <3>1. CASE q = p
      BY SMT, SMTT(30), <3>1, <1>1, <1>2, <1>4, <1>6, <1>8
    <3>2. CASE q # p
      BY <2>2, <3>2, <1>1, <1>2, <1>6, <1>7, <1>8 DEF BInv, Holder, Types
    <3> QED BY <3>1, <3>2
  <2>3. ASSUME NEW q \in Proc, NEW r \in Proc, pc'[q] \in HoldLabels, pc'[r] \in HoldLabels,
               buf'[q] = buf'[r]
        PROVE  q = r
    BY <2>3, <1>6, <1>7 DEF BInv, Holder
  <2> QED BY <2>1, <2>2, <2>3 DEF Holder
<1>12. Fresh'
  <2>1. dirty' \subseteq valid'
    BY <1>1, <1>2, <1>3 DEF BInv, Fresh
  <2>2. \A c \in valid' : sector'[c] \in Sector /\ data'[c] = content'[sector'[c]]
    BY <1>1, <1>2, <1>8 DEF BInv, Fresh, Types
  <2>3. \A s \in Sector : disk'[s] = content'[s] \/ \E c \in dirty' : sector'[c] = s
    BY SMT, SMTT(30), <1>2, <1>3, <1>8 DEF BInv, Fresh, Types
  <2>4. \A q \in Proc : pc'[q] \in {"held", "done"} => buf'[q] \in valid'
    BY SMT, SMTT(30), <1>1, <1>6, <1>7 DEF BInv, Fresh, HoldLabels
  <2>5. \A q \in Proc : pc'[q] = "ideWoken" => buf'[q] \in valid' \ dirty'
    BY SMT, SMTT(30), <1>1, <1>2, <1>6, <1>7 DEF BInv, Fresh, HoldLabels
  <2> QED BY <2>1, <2>2, <2>3, <2>4, <2>5 DEF Fresh
<1>13. Queued'
  <2>1. \A q \in Proc : /\ pc[q] = "ideSleep" <=> pc'[q] = "ideSleep"
                        /\ pc[q] = "ideSleep" => buf'[q] = buf[q]
    BY <1>2, <1>6
  <2>2. \A k \in DOMAIN idequeue : \E q \in Proc : buf'[q] = idequeue[k] /\ pc'[q] = "ideSleep"
    BY SMT, SMTT(30), <2>1 DEF BInv, Queued
  <2>3. \A q \in Proc : pc'[q] = "ideSleep" => \E k \in DOMAIN idequeue : idequeue[k] = buf'[q]
    BY SMT, SMTT(30), <2>1 DEF BInv, Queued
  <2>4. \A q \in Proc : pc'[q] = "rw" => buf'[q] \notin valid' \/ buf'[q] \in dirty
    BY SMT, SMTT(30), <1>1, <1>6 DEF BInv, Queued
  <2> QED BY SMT, SMTT(30), <2>2, <2>3, <2>4, <1>2 DEF BInv, Queued
<1> QED BY <1>9, <1>10, <1>11, <1>12, <1>13 DEF BInv

\* The holder changes the data: bwrite or log_write.
LEMMA WriteStep ==
  ASSUME BInv, NEW p \in Proc, NEW v \in Val, bwrite(p, v) \/ log_write(p, v)
  PROVE  BInv'
<1> DEFINE b == buf[p]   s == sector[b]
<1>1. PICK l \in {"rw", "done"} : pc' = [pc EXCEPT ![p] = l]
  BY DEF bwrite, log_write, Goto
<1>2. /\ pc[p] = "held" /\ data' = [data EXCEPT ![b] = v]
      /\ content' = [content EXCEPT ![s] = v] /\ dirty' = dirty \cup {b}
      /\ UNCHANGED <<sector, busy, valid, list, disk, idequeue, active, buf, want>>
  BY DEF bwrite, log_write, ide
<1>3. b \in valid /\ b \in Buf /\ s \in Sector
  BY <1>2 DEF BInv, Fresh, Types
<1>4. \A c \in Buf : c # b => sector[c] # s
  <2>1. s # NULL
    BY <1>3, BufCacheAssumption
  <2> QED BY <1>3, <2>1 DEF BInv, OneSector
<1>5. \A q \in Proc : q # p /\ pc[q] \in HoldLabels => buf[q] # b
  BY <1>2 DEF BInv, Holder, HoldLabels
<1>6. pc'[p] = l /\ \A q \in Proc \ {p} : pc'[q] = pc[q]
  BY <1>1 DEF BInv, Types
<1> HIDE DEF b, s
<1>7. Types'
  BY <1>1, <1>2, <1>3 DEF BInv, Types, Labels
<1>8. Listed' /\ OneSector'
  BY <1>2 DEF BInv, Listed, OneSector
<1>9. Holder'
  <2>1. l \in HoldLabels /\ pc[p] \in HoldLabels
    BY <1>1, <1>2 DEF HoldLabels
  <2>2. \A q \in Proc : pc'[q] \in HoldLabels <=> pc[q] \in HoldLabels
    BY <1>6, <2>1
  <2>3. \A q \in Proc : pc'[q] \in {"get", "getSleep"} => pc[q] \in {"get", "getSleep"}
    BY <1>1, <1>6
  <2> QED BY <1>2, <2>2, <2>3 DEF BInv, Holder
<1>10. Fresh'
  <2>1. dirty' \subseteq valid'
    BY <1>2, <1>3 DEF BInv, Fresh
  <2>2. ASSUME NEW c \in valid' PROVE sector'[c] \in Sector /\ data'[c] = content'[sector'[c]]
    <3>1. CASE c = b
      BY <3>1, <1>2, <1>3 DEF BInv, Types, s
    <3>2. CASE c # b
      BY <3>2, <1>2, <1>4 DEF BInv, Types, Fresh
    <3> QED BY <3>1, <3>2
  <2>3. ASSUME NEW t \in Sector PROVE disk'[t] = content'[t] \/ \E c \in dirty' : sector'[c] = t
    <3>1. CASE t = s
      BY <3>1, <1>2 DEF s
    <3>2. CASE t # s
      BY <3>2, <1>2 DEF BInv, Types, Fresh
    <3> QED BY <3>1, <3>2
  <2>4. \A q \in Proc : pc'[q] \in {"held", "done"} => buf'[q] \in valid'
    BY <1>2, <1>3, <1>6 DEF BInv, Fresh, b
  <2>5. \A q \in Proc : pc'[q] = "ideWoken" => buf'[q] \in valid' \ dirty'
    BY <1>2, <1>5, <1>6 DEF BInv, Fresh, HoldLabels
  <2> QED BY <2>1, <2>2, <2>3, <2>4, <2>5 DEF Fresh
<1>11. Queued'
  <2>1. \A q \in Proc : pc[q] = "ideSleep" <=> pc'[q] = "ideSleep"
    BY <1>2, <1>6
  <2>2. \A q \in Proc : pc'[q] = "rw" => buf[q] \notin valid \/ buf[q] \in dirty'
    BY <1>2, <1>6 DEF BInv, Queued, b
  <2> QED BY <2>1, <2>2, <1>2 DEF BInv, Queued
<1> QED BY <1>7, <1>8, <1>9, <1>10, <1>11 DEF BInv

\* brelse: the buffer becomes the first of the list.
LEMMA ReleaseStep ==
  ASSUME BInv, NEW p \in Proc, brelse(p)
  PROVE  BInv'
<1> DEFINE b == buf[p]
<1>1. /\ pc[p] \in {"held", "done"} /\ moveToHead(b) /\ busy' = busy \ {b}
      /\ pc' = wakeup([pc EXCEPT ![p] = "user"], b)
      /\ buf' = [buf EXCEPT ![p] = NULL] /\ want' = [want EXCEPT ![p] = NULL]
      /\ UNCHANGED <<sector, valid, dirty, data, disk, idequeue, active, content>>
  BY DEF brelse, ide
<1>2. b \in Buf /\ \A q \in Proc : q # p /\ pc[q] \in HoldLabels => buf[q] # b
  BY <1>1 DEF BInv, Holder, HoldLabels, Types
<1>3. Listed'
  <2>1. PICK k \in DOMAIN list : /\ list[k] = b
                                 /\ list' = [j \in DOMAIN list |-> IF j = 1 THEN b
                                               ELSE IF j <= k THEN list[j - 1] ELSE list[j]]
    BY <1>1 DEF moveToHead
  <2>2. DOMAIN list = Buf /\ list \in [Buf -> Buf]
    BY DEF BInv, Listed
  <2>3. /\ Buf \subseteq Int /\ 1 \in Buf /\ (\A j \in Buf : j = 1 \/ j - 1 \in Buf)
        /\ \A j \in Buf : j < k => j + 1 \in Buf /\ j + 1 <= k /\ j + 1 # 1 /\ j + 1 - 1 = j
        /\ \A j \in Buf : j > k => j # 1 /\ ~(j <= k)
    BY SMT, SMTT(30), <2>1, <2>2, BufCacheAssumption DEF Buf
  <2>4. list' \in [Buf -> Buf]
    BY <2>1, <2>2, <2>3, <1>2
  <2>5. ASSUME NEW c \in Buf PROVE \E j \in Buf : list'[j] = c
    <3>1. PICK m \in Buf : list[m] = c
      BY DEF BInv, Listed
    <3>2. CASE m = k
      BY <3>1, <3>2, <2>1, <2>2, <2>3
    <3>3. CASE m < k
      <4>1. list'[m + 1] = c /\ m + 1 \in Buf
        BY SMT, SMTT(30), <3>1, <3>3, <2>1, <2>2, <2>3
      <4> QED BY <4>1
    <3>4. CASE m > k
      <4>1. list'[m] = c
        BY <3>1, <3>4, <2>1, <2>2, <2>3
      <4> QED BY <4>1
    <3> QED BY SMT, SMTT(30), <3>2, <3>3, <3>4, <2>1, <2>2, <2>3
  <2> QED BY <2>4, <2>5 DEF Listed
<1>4. /\ pc' \in [Proc -> Labels] /\ pc'[p] = "user"
      /\ \A q \in Proc \ {p} : pc'[q] = pc[q] \/ (pc[q] = "getSleep" /\ pc'[q] = "get")
  BY <1>1, <1>2 DEF wakeup, BInv, Types, Labels, HoldLabels
<1>5. \A q \in Proc \ {p} : buf'[q] = buf[q] /\ want'[q] = want[q]
  BY <1>1 DEF BInv, Types
<1> HIDE DEF b
<1>c. /\ UNCHANGED <<sector, valid, dirty, data, disk, idequeue, active, content>>
      /\ busy' = busy \ {b}
  BY <1>1
<1>6. Types'
  BY <1>1, <1>4 DEF BInv, Types
<1>7. OneSector'
  BY <1>c DEF BInv, OneSector
<1>8. Holder'
  <2>1. \A q \in Proc : pc'[q] \in HoldLabels =>
          q # p /\ pc[q] \in HoldLabels /\ buf'[q] = buf[q] /\ want'[q] = want[q]
    BY <1>4, <1>5 DEF HoldLabels
  <2>2. \A q \in Proc : pc'[q] \in {"get", "getSleep"} => want'[q] \in Sector
    BY <1>4, <1>5 DEF BInv, Holder
  <2>3. \A q \in Proc : pc'[q] \in HoldLabels =>
          buf'[q] \in busy' /\ sector'[buf'[q]] = want'[q] /\ want'[q] \in Sector
    BY <1>2, <1>c, <2>1 DEF BInv, Holder
  <2> QED BY <2>1, <2>2, <2>3 DEF BInv, Holder
<1>9. Fresh'
  <2>1. \A q \in Proc : pc'[q] \in {"held", "done", "ideWoken"} => pc'[q] = pc[q] /\ buf'[q] = buf[q]
    BY <1>4, <1>5
  <2> QED BY <1>c, <2>1 DEF BInv, Fresh
<1>10. Queued'
  <2>1. \A q \in Proc : /\ pc[q] = "ideSleep" <=> pc'[q] = "ideSleep"
                        /\ pc[q] = "rw" <=> pc'[q] = "rw"
                        /\ pc[q] \in {"ideSleep", "rw"} => buf'[q] = buf[q]
    BY <1>1, <1>4, <1>5
  <2>2. \A k \in DOMAIN idequeue : \E q \in Proc : buf'[q] = idequeue[k] /\ pc'[q] = "ideSleep"
    BY SMT, SMTT(30), <2>1 DEF BInv, Queued
  <2>3. \A q \in Proc : pc'[q] = "ideSleep" => \E k \in DOMAIN idequeue : idequeue[k] = buf'[q]
    BY SMT, SMTT(30), <2>1 DEF BInv, Queued
  <2>4. \A q \in Proc : pc'[q] = "rw" => buf'[q] \notin valid \/ buf'[q] \in dirty
    BY <2>1 DEF BInv, Queued
  <2> QED BY SMT, SMTT(30), <2>2, <2>3, <2>4, <1>c DEF BInv, Queued
<1> QED BY <1>3, <1>6, <1>7, <1>8, <1>9, <1>10 DEF BInv

\* iderw queues the request.
LEMMA QueueStep ==
  ASSUME BInv, NEW p \in Proc, iderw(p)
  PROVE  BInv'
<1> DEFINE b == buf[p]
<1>1. /\ pc[p] = "rw" /\ idequeue' = Append(idequeue, b)
      /\ active' = (IF idequeue = << >> THEN b ELSE active)
      /\ pc' = [pc EXCEPT ![p] = "ideSleep"]
      /\ UNCHANGED <<sector, busy, valid, dirty, data, list, disk, buf, want, content>>
  BY DEF iderw, Goto
<1>2. b \in Buf /\ \A q \in Proc : q # p /\ pc[q] \in HoldLabels => buf[q] # b
  BY <1>1 DEF BInv, Holder, HoldLabels, Types
<1>3. \A k \in DOMAIN idequeue : idequeue[k] # b
  BY SMT, SMTT(30), <1>1, <1>2 DEF BInv, Queued, HoldLabels
<1>4. pc'[p] = "ideSleep" /\ \A q \in Proc \ {p} : pc'[q] = pc[q]
  BY <1>1 DEF BInv, Types
<1>b. buf[p] = b
  OBVIOUS
<1> HIDE DEF b
<1>5. Types'
  BY SMT, SMTT(30), <1>1, <1>2 DEF BInv, Types, Labels
<1>6. Listed' /\ OneSector'
  BY <1>1 DEF BInv, Listed, OneSector
<1>7. Holder'
  BY SMT, SMTT(30), <1>1, <1>4 DEF BInv, Holder, HoldLabels
<1>8. Fresh'
  BY <1>1, <1>4 DEF BInv, Fresh
<1>9. Queued'
  <2> DEFINE n == Len(idequeue) + 1
  <2>1. /\ idequeue \in Seq(Buf) /\ n \in Nat /\ DOMAIN idequeue = 1..(n - 1)
        /\ DOMAIN idequeue' = DOMAIN idequeue \cup {n} /\ n \notin DOMAIN idequeue
        /\ idequeue'[n] = b /\ \A k \in DOMAIN idequeue : idequeue'[k] = idequeue[k]
    BY SMT, SMTT(30), <1>1, <1>2 DEF BInv, Types
  <2>2. active' = IF idequeue' = << >> THEN NULL ELSE Head(idequeue')
    BY SMT, SMTT(30), <1>1, <1>2, <2>1 DEF BInv, Queued
  <2> HIDE DEF n
  <2>3. \A j, k \in DOMAIN idequeue' : idequeue'[j] = idequeue'[k] => j = k
    BY <2>1, <1>3 DEF BInv, Queued
  <2>4. \A k \in DOMAIN idequeue' : \E q \in Proc : buf'[q] = idequeue'[k] /\ pc'[q] = "ideSleep"
    BY SMT, SMTT(30), <2>1, <1>1, <1>4, <1>b DEF BInv, Queued
  <2>5. \A q \in Proc : pc'[q] = "ideSleep" => \E k \in DOMAIN idequeue' : idequeue'[k] = buf'[q]
    BY SMT, SMTT(30), <2>1, <1>1, <1>4, <1>b DEF BInv, Queued
  <2>6. \A q \in Proc : pc'[q] = "rw" => buf'[q] \notin valid' \/ buf'[q] \in dirty'
    BY <1>1, <1>4 DEF BInv, Queued
  <2> QED BY <2>2, <2>3, <2>4, <2>5, <2>6 DEF Queued
<1> QED BY <1>5, <1>6, <1>7, <1>8, <1>9 DEF BInv

\* iderw finds its request done.
LEMMA WokenStep ==
  ASSUME BInv, NEW p \in Proc, ideWoken(p)
  PROVE  BInv'
<1>1. /\ pc[p] = "ideWoken" /\ buf[p] \in valid \ dirty /\ pc' = [pc EXCEPT ![p] = "held"]
      /\ UNCHANGED <<sector, busy, valid, dirty, data, list, disk, idequeue, active, buf, want, content>>
  BY DEF ideWoken, Goto, ide, BInv, Fresh
<1>2. pc'[p] = "held" /\ \A q \in Proc \ {p} : pc'[q] = pc[q]
  BY <1>1 DEF BInv, Types
<1>3. Types' /\ Listed' /\ OneSector'
  BY <1>1 DEF BInv, Types, Labels, Listed, OneSector
<1>4. Holder'
  BY SMT, SMTT(30), <1>1, <1>2 DEF BInv, Holder, HoldLabels
<1>5. Fresh'
  BY <1>1, <1>2 DEF BInv, Fresh
<1>6. Queued'
  <2>1. \A q \in Proc : /\ pc[q] = "ideSleep" <=> pc'[q] = "ideSleep"
                        /\ pc[q] = "rw" <=> pc'[q] = "rw"
    BY <1>1, <1>2
  <2> QED BY SMT, SMTT(30), <2>1, <1>1 DEF BInv, Queued
<1> QED BY <1>3, <1>4, <1>5, <1>6 DEF BInv

\* The interrupt for the first request b: its holder is woken, and the next
\* request is started.
LEMMA InterruptStep ==
  ASSUME BInv, ideintr
  PROVE  BInv'
<1> DEFINE b == Head(idequeue)   v == IF b \in dirty THEN data[b] ELSE disk[sector[b]]
<1>1. /\ idequeue # << >> /\ idequeue' = Tail(idequeue) /\ data' = [data EXCEPT ![b] = v]
      /\ disk' = (IF b \in dirty THEN [disk EXCEPT ![sector[b]] = data[b]] ELSE disk)
      /\ valid' = valid \cup {b} /\ dirty' = dirty \ {b} /\ pc' = wakeup(pc, b)
      /\ active' = (IF Tail(idequeue) = << >> THEN NULL ELSE Head(Tail(idequeue)))
      /\ UNCHANGED <<sector, busy, list, buf, want, content>>
  BY DEF ideintr, ideintrWith
<1>2. /\ b \in Buf /\ 1 \in DOMAIN idequeue /\ idequeue[1] = b /\ idequeue' \in Seq(Buf)
      /\ \A k \in DOMAIN idequeue' : k + 1 \in DOMAIN idequeue /\ k + 1 # 1 /\ idequeue'[k] = idequeue[k + 1]
      /\ \A k \in DOMAIN idequeue : k # 1 => k - 1 \in DOMAIN idequeue' /\ idequeue'[k - 1] = idequeue[k]
      /\ DOMAIN idequeue \subseteq Nat /\ DOMAIN idequeue' \subseteq Nat
  BY SMT, SMTT(30), <1>1 DEF BInv, Types
<1>3. PICK h \in Proc : buf[h] = b /\ pc[h] = "ideSleep"
  BY SMT, SMTT(30), <1>2 DEF BInv, Queued
<1>4. /\ sector[b] \in Sector
      /\ \A q \in Proc : q # h /\ pc[q] \in HoldLabels => buf[q] # b
  BY <1>3 DEF BInv, Holder, HoldLabels
<1>5. \A c \in Buf : c # b => sector[c] # sector[b]
  <2>1. sector[b] # NULL
    BY <1>4, BufCacheAssumption
  <2> QED BY <1>2, <2>1 DEF BInv, OneSector
<1>6. v \in Val /\ v = content[sector[b]]
  <2>1. CASE b \in dirty
    BY <2>1, <1>2 DEF BInv, Fresh, Types
  <2>2. CASE b \notin dirty
    <3>1. \A c \in dirty : sector[c] # sector[b]
      BY <2>2, <1>5 DEF BInv, Types
    <3> QED BY <3>1, <2>2, <1>4 DEF BInv, Fresh, Types
  <2> QED BY <2>1, <2>2
<1>7. /\ pc' \in [Proc -> Labels] /\ pc'[h] = "ideWoken"
      /\ \A q \in Proc \ {h} : pc'[q] = pc[q] \/ (pc[q] = "getSleep" /\ pc'[q] = "get")
  BY <1>1, <1>3, <1>4 DEF wakeup, BInv, Types, Labels, HoldLabels
<1>8. \A s \in Sector : disk'[s] = disk[s] \/ (s = sector[b] /\ disk'[s] = content[s])
  BY SMT, SMTT(30), <1>1, <1>2, <1>4 DEF BInv, Fresh, Types
<1>9. sector[b] \in Sector /\ (disk'[sector[b]] = content[sector[b]]) /\ disk' \in [Sector -> Val]
  BY <1>1, <1>2, <1>4, <1>6 DEF BInv, Types
<1>10. data' \in [Buf -> Val] /\ data'[b] = content[sector[b]] /\ \A c \in Buf \ {b} : data'[c] = data[c]
  BY <1>1, <1>2, <1>6 DEF BInv, Types
<1>c. /\ valid' = valid \cup {b} /\ dirty' = dirty \ {b}
      /\ UNCHANGED <<sector, busy, list, buf, want, content>>
  BY <1>1
<1>d. active' = IF idequeue' = << >> THEN NULL ELSE Head(idequeue')
  BY <1>1
<1> HIDE DEF b, v
<1>11. Types'
  BY <1>2, <1>7, <1>9, <1>10, <1>c DEF BInv, Types
<1>12. Listed' /\ OneSector'
  BY <1>c DEF BInv, Listed, OneSector
<1>13. Holder'
  BY SMT, SMTT(30), <1>3, <1>7, <1>c DEF BInv, Holder, HoldLabels
<1>14. Fresh'
  <2>1. dirty' \subseteq valid'
    BY <1>c DEF BInv, Fresh
  <2>2. \A c \in valid' : sector'[c] \in Sector /\ data'[c] = content'[sector'[c]]
    BY <1>4, <1>10, <1>c DEF BInv, Fresh, Types
  <2>3. ASSUME NEW s \in Sector PROVE disk'[s] = content'[s] \/ \E c \in dirty' : sector'[c] = s
    <3>1. CASE s = sector[b]
      BY <3>1, <1>9, <1>c
    <3>2. CASE s # sector[b]
      BY <3>2, <1>8, <1>c DEF BInv, Fresh
    <3> QED BY <3>1, <3>2
  <2>4. \A q \in Proc : pc'[q] \in {"held", "done"} => buf'[q] \in valid'
    BY <1>7, <1>c DEF BInv, Fresh
  <2>5. \A q \in Proc : pc'[q] = "ideWoken" => buf'[q] \in valid' \ dirty'
    BY <1>3, <1>7, <1>c, <1>4 DEF BInv, Fresh, HoldLabels
  <2> QED BY <2>1, <2>2, <2>3, <2>4, <2>5 DEF Fresh
<1>15. Queued'
  <2>1. \A j, k \in DOMAIN idequeue' : idequeue'[j] = idequeue'[k] => j = k
    <3> SUFFICES ASSUME NEW j \in DOMAIN idequeue', NEW k \in DOMAIN idequeue', idequeue'[j] = idequeue'[k]
                 PROVE  j = k
      OBVIOUS
    <3>1. j + 1 = k + 1
      BY SMT, SMTT(30), <1>2 DEF BInv, Queued
    <3> QED BY SMT, SMTT(30), <3>1, <1>2
  <2>2. ASSUME NEW k \in DOMAIN idequeue'
        PROVE  \E q \in Proc : buf'[q] = idequeue'[k] /\ pc'[q] = "ideSleep"
    <3>1. idequeue'[k] = idequeue[k + 1] /\ k + 1 \in DOMAIN idequeue /\ idequeue[k + 1] # b
      BY <1>2 DEF BInv, Queued
    <3>2. PICK q \in Proc : buf[q] = idequeue[k + 1] /\ pc[q] = "ideSleep"
      BY <3>1 DEF BInv, Queued
    <3>3. q # h /\ pc'[q] = "ideSleep" /\ buf'[q] = idequeue'[k]
      BY <3>1, <3>2, <1>3, <1>7, <1>c
    <3> QED BY <3>3
  <2>3. ASSUME NEW q \in Proc, pc'[q] = "ideSleep"
        PROVE  \E k \in DOMAIN idequeue' : idequeue'[k] = buf'[q]
    <3>1. pc[q] = "ideSleep" /\ q # h /\ buf[q] # b
      BY <2>3, <1>4, <1>7 DEF HoldLabels
    <3>2. PICK k \in DOMAIN idequeue : idequeue[k] = buf[q]
      BY <3>1 DEF BInv, Queued
    <3>3. k # 1 /\ k - 1 \in DOMAIN idequeue' /\ idequeue'[k - 1] = buf'[q]
      BY <3>1, <3>2, <1>2, <1>c
    <3> QED BY <3>3
  <2>4. \A q \in Proc : pc'[q] = "rw" => buf'[q] \notin valid' \/ buf'[q] \in dirty'
    BY SMT, SMTT(30), <1>3, <1>4, <1>7, <1>c DEF BInv, Queued, HoldLabels
  <2> QED BY <2>1, <2>2, <2>3, <2>4, <1>d DEF Queued
<1> QED BY <1>11, <1>12, <1>13, <1>14, <1>15 DEF BInv

\* BInv is inductive.
LEMMA BInvNext == BInv /\ [Next]_vars => BInv'
<1> SUFFICES ASSUME BInv, [Next]_vars PROVE BInv'
  OBVIOUS
<1>1. CASE UNCHANGED vars
  <2>1. UNCHANGED <<sector, busy, valid, dirty, data, list, disk, idequeue, active, pc, buf, want, content>>
    BY <1>1 DEF vars
  <2>2. Types' /\ Listed'
    BY <2>1 DEF BInv, Types, Listed
  <2>3. Holder' /\ OneSector'
    BY <2>1 DEF BInv, Holder, OneSector
  <2>4. Fresh'
    BY <2>1 DEF BInv, Fresh
  <2>5. Queued'
    BY <2>1 DEF BInv, Queued
  <2> QED BY <2>2, <2>3, <2>4, <2>5 DEF BInv
<1>2. CASE Next
  BY <1>2, SearchStep, HitStep, RecycleStep, WriteStep, ReleaseStep, QueueStep, WokenStep, InterruptStep
  DEF Next, Step
<1> QED BY <1>1, <1>2

\* OneBuffer: one buffer per sector, one holder per buffer.
THEOREM BufferOwnership == Spec => []OneBuffer
<1>1. BInv => OneBuffer
  BY DEF BInv, Holder, OneSector, OneBuffer, InIde, HoldLabels
<1> QED BY <1>1, BInit, BInvNext, PTL DEF Spec

\* BreadContents: bread returns what was last written to the sector.
THEOREM ReadsLastWrite == Spec => []BreadContents
<1>1. BInv => BreadContents
  <2> SUFFICES ASSUME BInv, NEW p \in Proc, pc[p] = "held"
               PROVE  buf[p] \in valid /\ data[buf[p]] = content[want[p]]
    BY DEF BreadContents
  <2>1. buf[p] \in valid /\ sector[buf[p]] = want[p]
    BY DEF BInv, Fresh, Holder, HoldLabels
  <2> QED BY <2>1 DEF BInv, Fresh
<1> QED BY <1>1, BInit, BInvNext, PTL DEF Spec

\* QueueExact: the disk queue and the processes in iderw agree.
THEOREM DiskQueue == Spec => []QueueExact
<1>1. BInv => QueueExact
  <2> SUFFICES ASSUME BInv PROVE QueueExact
    OBVIOUS
  <2>1. \A k \in DOMAIN idequeue : \E p \in Proc : buf[p] = idequeue[k] /\ pc[p] \in {"ideSleep", "ideWoken"}
    BY DEF BInv, Queued
  <2> QED BY <2>1 DEF BInv, Queued, QueueExact
<1> QED BY <1>1, BInit, BInvNext, PTL DEF Spec
=============================================================================
