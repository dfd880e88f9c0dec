----------------------------- MODULE PipeProofs -----------------------------
(***************************************************************************)
(* For any readers, writers and bytes, and any PIPESIZE that divides UINT: *)
(* the pipe implements the bounded queue of Channel, and forgets no        *)
(* sleeper.  WInv says who is inside which call, and which call will still *)
(* call wakeup; RInv adds that the ring never holds more than PIPESIZE     *)
(* bytes, counted modulo UINT.                                             *)
(***************************************************************************)
EXTENDS Pipe, SequenceTheorems, TLAPS

\* Zenon is the prover of what follows; the steps that need arithmetic,
\* records or sequences name SMT.
USE Zenon, ZenonT(30)

WLabels == {"write", "wSleep", "wWoken"}
RLabels == {"read", "copy", "rSleep", "rWoken"}
Labels  == WLabels \cup RLabels \cup {"user"}

\* A call is made through the process's own end, which stays open during it,
\* and p->lock is held in the loops only.
Inside ==
  /\ pc \in [Proc -> Labels]
  /\ \A p \in Proc : pc[p] \in WLabels => p \in Writer /\ writeopen
  /\ \A p \in Proc : pc[p] \in RLabels => p \in Reader /\ readopen
  /\ \A p \in Proc : pc[p] \in {"write", "read", "copy"} <=> lock = p
  /\ readopen \in BOOLEAN /\ writeopen \in BOOLEAN /\ killed \in [Proc -> BOOLEAN]

\* Why a sleeper may sleep.
SleepReason ==
  \A p \in Proc :
    /\ pc[p] = "rSleep" => (Empty /\ writeopen) \/ lock \in Writer \/ \E w \in Writer : killed[w]
    /\ pc[p] = "wSleep" => (Full /\ readopen) \/ \E r \in Reader : pc[r] = "copy"

Counters == nread \in 0..(UINT - 1) /\ nwrite \in 0..(UINT - 1)

WInv == Inside /\ SleepReason /\ Counters

RInv == WInv /\ data \in [Slot -> Byte] /\ Count <= PIPESIZE
-----------------------------------------------------------------------------
(* Arithmetic modulo UINT and PIPESIZE. *)

\* Division with remainder.
LEMMA DivMod ==
  ASSUME NEW P \in Nat \ {0}, NEW a \in Int
  PROVE  a = P * (a \div P) + (a % P) /\ a \div P \in Int /\ a % P \in 0..(P - 1)
BY SMT, SMTT(30)

\* The remainder is determined by its range.
LEMMA ModUnique ==
  ASSUME NEW P \in Nat \ {0}, NEW q \in Int, NEW r \in 0..(P - 1)
  PROVE  (P * q + r) % P = r
BY SMT, SMTT(30)

\* A wrap of the 32-bit counter is invisible in the ring: UINT is a multiple
\* of PIPESIZE.
LEMMA WrapInvisible ==
  ASSUME NEW a \in Int
  PROVE  (a - UINT) % PIPESIZE = a % PIPESIZE
<1> DEFINE P == PIPESIZE   q == UINT \div P   m == a \div P   r == a % P
<1>0. P \in Nat \ {0} /\ UINT \in Int /\ UINT % P = 0
  BY SMT, SMTT(30), PipeAssumption
<1>1. UINT = P * q /\ q \in Int
  BY SMT, SMTT(30), <1>0, DivMod
<1>2. a = P * m + r /\ m \in Int /\ r \in 0..(P - 1)
  BY <1>0, DivMod
<1> HIDE DEF P, q, m, r
<1>3. P * (m - q) = P * m - P * q /\ P * m \in Int /\ P * q \in Int /\ m - q \in Int
  BY SMT, SMTT(30), <1>0, <1>1, <1>2
<1>4. a - UINT = P * (m - q) + r
  BY SMT, SMTT(30), <1>1, <1>2, <1>3
<1>5. (P * (m - q) + r) % P = r
  BY Zenon, ZenonT(30), <1>0, <1>2, <1>3, ModUnique
<1> QED BY <1>4, <1>5 DEF P, r

\* PIPESIZE counters in a row have slots of their own.
LEMMA SlotsDistinct ==
  ASSUME NEW a \in Int, NEW b \in Int, a < b, b < a + PIPESIZE
  PROVE  a % PIPESIZE # b % PIPESIZE
<1> DEFINE P == PIPESIZE   qa == a \div P   qb == b \div P   n == qb - qa
<1> SUFFICES ASSUME a % P = b % P PROVE FALSE
  OBVIOUS
<1>0. P \in Nat \ {0}
  BY PipeAssumption
<1>1. a = P * qa + (a % P) /\ b = P * qb + (b % P) /\ qa \in Int /\ qb \in Int /\ a % P \in Int
  BY SMT, SMTT(30), <1>0, DivMod
<1> HIDE DEF P, qa, qb
<1>2. b - a = P * qb - P * qa /\ P * qb \in Int /\ P * qa \in Int
  BY SMT, SMTT(30), <1>0, <1>1
<1>3. P * qb - P * qa = P * n /\ n \in Int
  BY SMT, SMTT(30), <1>0, <1>1
<1> HIDE DEF n
<1>4. 0 < P * n /\ P * n < P
  BY SMT, SMTT(30), <1>0, <1>2, <1>3 DEF P
<1>5. CASE n <= 0
  <2>1. P * n <= 0
    BY SMT, SMTT(30), <1>0, <1>3, <1>5
  <2> QED BY SMT, SMTT(30), <1>0, <1>3, <1>4, <2>1
<1>6. CASE n >= 1
  <2>1. P * n >= P
    BY SMT, SMTT(30), <1>0, <1>3, <1>6
  <2> QED BY SMT, SMTT(30), <1>0, <1>3, <1>4, <2>1
<1> QED BY SMT, SMTT(30), <1>3, <1>5, <1>6

\* A slot is a slot.
LEMMA SlotRange == \A a \in Int : a % PIPESIZE \in Slot
BY SMT, SMTT(30), PipeAssumption DEF Slot

\* What the difference modulo UINT is.
LEMMA CountIs ==
  ASSUME NEW r \in 0..(UINT - 1), NEW w \in 0..(UINT - 1), NEW c \in 0..(UINT - 1),
         w = r + c \/ w = r + c - UINT
  PROVE  (w - r) % UINT = c
<1>0. UINT \in Nat \ {0} /\ w \in Int /\ r \in Int /\ c \in Int
  BY SMT, SMTT(30), PipeAssumption
<1>1. CASE w = r + c
  <2>1. w - r = c
    BY SMT, SMTT(30), <1>0, <1>1
  <2>2. c % UINT = c
    BY SMT, SMTT(30), <1>0
  <2> QED BY <2>1, <2>2
<1>2. CASE w = r + c - UINT
  <2>1. w - r = c - UINT /\ c - UINT \in (0 - UINT)..(0 - 1)
    BY SMT, SMTT(30), <1>0, <1>2
  <2>2. (c - UINT) % UINT = c
    BY SMT, SMTT(30), <1>0, <2>1
  <2> QED BY <2>1, <2>2
<1> QED BY <1>1, <1>2

\* Count is the distance from nread to nwrite; the ring is empty when it is 0
\* and full when it is PIPESIZE.
LEMMA CountFacts ==
  ASSUME Counters
  PROVE  /\ Count \in 0..(UINT - 1)
         /\ nwrite = nread + Count \/ nwrite = nread + Count - UINT
         /\ Empty <=> Count = 0
         /\ Full <=> Count = PIPESIZE
<1>0. UINT \in Nat \ {0} /\ nread \in Int /\ nwrite \in Int /\ PIPESIZE \in 1..(UINT - 1)
  BY SMT, SMTT(30), PipeAssumption DEF Counters
<1>1. CASE nread <= nwrite
  <2> DEFINE c == nwrite - nread
  <2>1. c \in 0..(UINT - 1) /\ nwrite = nread + c
    BY SMT, SMTT(30), <1>0, <1>1 DEF Counters
  <2>2. Count = c
    BY <2>1, CountIs DEF Count, Counters
  <2> QED
    <3>1. Full <=> c = PIPESIZE
      <4>1. CASE nread + PIPESIZE <= UINT - 1
        <5>1. (nread + PIPESIZE) % UINT = nread + PIPESIZE
          BY SMT, SMTT(30), <4>1, <1>0 DEF Counters
        <5> QED BY SMT, SMTT(30), <5>1, <1>0 DEF Full
      <4>2. CASE nread + PIPESIZE > UINT - 1
        <5>1. (nread + PIPESIZE) % UINT = nread + PIPESIZE - UINT
          BY SMT, SMTT(30), <4>2, <1>0 DEF Counters
        <5> QED BY SMT, SMTT(30), <5>1, <4>2, <1>0, <1>1 DEF Full, Counters
      <4> QED BY SMT, SMTT(30), <4>1, <4>2, <1>0
    <3>2. Empty <=> c = 0
      BY SMT, SMTT(30), <1>0 DEF Empty
    <3> QED BY <2>1, <2>2, <3>1, <3>2
<1>2. CASE nwrite < nread
  <2> DEFINE c == nwrite - nread + UINT
  <2>1. c \in 0..(UINT - 1) /\ nwrite = nread + c - UINT
    BY SMT, SMTT(30), <1>0, <1>2 DEF Counters
  <2>2. Count = c
    BY <2>1, CountIs DEF Count, Counters
  <2> QED
    <3>1. Full <=> c = PIPESIZE
      <4>1. CASE nread + PIPESIZE <= UINT - 1
        <5>1. (nread + PIPESIZE) % UINT = nread + PIPESIZE
          BY SMT, SMTT(30), <4>1, <1>0 DEF Counters
        <5> QED BY SMT, SMTT(30), <5>1, <4>1, <1>0, <1>2 DEF Full, Counters
      <4>2. CASE nread + PIPESIZE > UINT - 1
        <5>1. (nread + PIPESIZE) % UINT = nread + PIPESIZE - UINT
          BY SMT, SMTT(30), <4>2, <1>0 DEF Counters
        <5> QED BY SMT, SMTT(30), <5>1, <1>0 DEF Full
      <4> QED BY SMT, SMTT(30), <4>1, <4>2, <1>0
    <3>2. Empty <=> c = 0
      BY SMT, SMTT(30), <1>0, <1>2, <2>1 DEF Empty, Counters
    <3> QED BY <2>1, <2>2, <3>1, <3>2
<1> QED BY SMT, SMTT(30), <1>0, <1>1, <1>2

\* Counting one on, modulo UINT.
LEMMA NextCounter ==
  ASSUME NEW a \in 0..(UINT - 1)
  PROVE  (a + 1) % UINT \in 0..(UINT - 1) /\ ((a + 1) % UINT = a + 1 \/ (a + 1) % UINT = a + 1 - UINT)
<1>0. UINT \in Nat \ {0}
  BY SMT, SMTT(30), PipeAssumption
<1>1. CASE a + 1 <= UINT - 1
  BY SMT, SMTT(30), <1>0, <1>1
<1>2. CASE a + 1 = UINT
  BY SMT, SMTT(30), <1>0, <1>2
<1> QED BY SMT, SMTT(30), <1>0, <1>1, <1>2
-----------------------------------------------------------------------------
(* Who is inside which call. *)

\* pipealloc.
LEMMA WInit == Init => WInv
<1> SUFFICES ASSUME Init PROVE WInv
  OBVIOUS
<1>1. Counters
  BY SMT, SMTT(30), PipeAssumption DEF Init, Counters
<1>2. Inside
  BY PipeAssumption DEF Init, Inside, Labels, WLabels, RLabels, Proc
<1>3. SleepReason
  BY DEF Init, SleepReason
<1> QED BY <1>1, <1>2, <1>3 DEF WInv

\* A process takes the lock: a call begins, or a woken one goes on.
LEMMA AcquireStep ==
  ASSUME WInv, NEW p \in Proc,
         \/ pipewrite(p) /\ p \in Writer
         \/ piperead(p) /\ p \in Reader
         \/ Woken(p)
  PROVE  WInv'
<1>1. PICK l \in {"write", "read"} :
        /\ pc' = [pc EXCEPT ![p] = l] /\ lock = NULL /\ lock' = p
        /\ UNCHANGED <<data, nread, nwrite, readopen, writeopen, killed>>
        /\ l = "write" => p \in Writer /\ writeopen
        /\ l = "read" => p \in Reader /\ readopen
  BY DEF pipewrite, piperead, Woken, writeWoken, readWoken, Call, acquire, ring, ends,
         WInv, Inside, WLabels, RLabels
<1>2. pc'[p] = l /\ \A q \in Proc \ {p} : pc'[q] = pc[q]
  BY <1>1 DEF WInv, Inside
<1>3. \A q \in Proc : pc[q] \notin {"write", "read", "copy"}
  BY <1>1, PipeAssumption DEF WInv, Inside, Proc
<1>4. Inside'
  <2>1. pc' \in [Proc -> Labels]
    BY <1>1 DEF WInv, Inside, Labels, WLabels, RLabels
  <2>2. \A q \in Proc : pc'[q] \in {"write", "read", "copy"} <=> lock' = q
    BY <1>1, <1>2, <1>3
  <2>3. \A q \in Proc : pc'[q] \in WLabels => q \in Writer /\ writeopen'
    BY <1>1, <1>2 DEF WInv, Inside, WLabels
  <2>4. \A q \in Proc : pc'[q] \in RLabels => q \in Reader /\ readopen'
    BY <1>1, <1>2 DEF WInv, Inside, RLabels
  <2> QED BY <2>1, <2>2, <2>3, <2>4, <1>1 DEF WInv, Inside
<1>5. SleepReason'
  <2>1. Empty' = Empty /\ Full' = Full
    BY <1>1 DEF Empty, Full
  <2>2. \A q \in Proc : pc'[q] \in {"rSleep", "wSleep"} => pc'[q] = pc[q]
    BY <1>2
  <2>3. lock \notin Writer /\ \A r \in Reader : pc[r] # "copy"
    BY <1>1, <1>3, PipeAssumption DEF Proc
  <2> QED BY <2>1, <2>2, <2>3, <1>1 DEF WInv, SleepReason
<1>6. Counters'
  BY <1>1 DEF WInv, Counters
<1> QED BY <1>4, <1>5, <1>6 DEF WInv

\* A byte is copied, by the holder of the lock.
LEMMA ByteStep ==
  ASSUME WInv, NEW p \in Proc, writeByte(p) \/ readByte(p)
  PROVE  WInv'
<1>1. \/ pc[p] = "write" /\ ~Full /\ nread' = nread /\ nwrite' = (nwrite + 1) % UINT
      \/ pc[p] = "copy" /\ ~Empty /\ nread' = (nread + 1) % UINT /\ nwrite' = nwrite
  BY DEF writeByte, readByte
<1>2. UNCHANGED <<readopen, writeopen, lock, pc, killed>>
  BY DEF writeByte, readByte, ends
<1>3. Counters'
  BY <1>1, NextCounter DEF WInv, Counters
<1>4. Inside'
  BY <1>2 DEF WInv, Inside
<1>5. lock = p
  BY <1>1 DEF WInv, Inside
<1>6. SleepReason'
  <2>1. CASE pc[p] = "write"
    <3>1. p \in Writer /\ ~Full
      BY <1>1, <2>1 DEF WInv, Inside, WLabels
    <3>2. \A r \in Reader : pc[r] # "copy"
      BY <1>5, <3>1, PipeAssumption DEF WInv, Inside, Proc
    <3>3. \A q \in Proc : pc[q] # "wSleep"
      BY <3>1, <3>2 DEF WInv, SleepReason
    <3> QED BY <1>2, <1>5, <3>1, <3>3 DEF SleepReason
  <2>2. CASE pc[p] = "copy"
    <3>1. p \in Reader /\ ~Empty
      BY <1>1, <2>2 DEF WInv, Inside, RLabels
    <3>2. \A q \in Proc : pc[q] = "rSleep" => lock \in Writer \/ \E w \in Writer : killed[w]
      BY <3>1 DEF WInv, SleepReason
    <3> QED BY <1>2, <2>2, <3>1, <3>2 DEF SleepReason
  <2> QED BY <1>1, <2>1, <2>2
<1> QED BY <1>3, <1>4, <1>6 DEF WInv

\* A reader has something to copy.
LEMMA StartStep ==
  ASSUME WInv, NEW p \in Proc, readStart(p)
  PROVE  WInv'
<1>1. /\ pc[p] = "read" /\ pc' = [pc EXCEPT ![p] = "copy"]
      /\ UNCHANGED <<nread, nwrite, readopen, writeopen, lock, killed>>
  BY DEF readStart, ring, ends
<1>2. pc'[p] = "copy" /\ \A q \in Proc \ {p} : pc'[q] = pc[q]
  BY <1>1 DEF WInv, Inside
<1>3. Inside'
  BY <1>1, <1>2 DEF WInv, Inside, Labels, WLabels, RLabels
<1>4. SleepReason'
  <2>1. Empty' = Empty /\ Full' = Full
    BY <1>1 DEF Empty, Full
  <2>2. \A q \in Proc : pc'[q] \in {"rSleep", "wSleep"} => pc'[q] = pc[q]
    BY <1>2
  <2>3. (\E r \in Reader : pc[r] = "copy") => \E r \in Reader : pc'[r] = "copy"
    BY <1>1, <1>2 DEF Proc
  <2> QED BY <2>1, <2>2, <2>3, <1>1 DEF WInv, SleepReason
<1>5. Counters'
  BY <1>1 DEF WInv, Counters
<1> QED BY <1>3, <1>4, <1>5 DEF WInv

\* The holder of the lock gives it up and goes to l, with or without waking
\* the sleepers of a channel.
LEMMA LeaveStep ==
  ASSUME WInv, NEW p \in Proc, NEW l \in {"user", "wSleep", "rSleep"},
         pc[p] \in {"write", "read", "copy"}, lock' = NULL,
         UNCHANGED <<nread, nwrite, readopen, writeopen, killed>>,
         pc' \in [Proc -> Labels], pc'[p] = l,
         \A q \in Proc \ {p} : \/ pc'[q] = pc[q]
                               \/ pc[q] = "rSleep" /\ pc'[q] = "rWoken"
                               \/ pc[q] = "wSleep" /\ pc'[q] = "wWoken",
         l = "wSleep" => pc[p] = "write", l = "rSleep" => pc[p] \in {"read", "copy"},
         \A q \in Proc : pc'[q] = "rSleep" => (Empty /\ writeopen) \/ \E w \in Writer : killed[w],
         \A q \in Proc : pc'[q] = "wSleep" => Full /\ readopen
  PROVE  WInv'
<1>1. lock = p /\ \A q \in Proc \ {p} : pc[q] \notin {"write", "read", "copy"}
  BY DEF WInv, Inside
<1>2. Inside'
  <2>1. \A q \in Proc : pc'[q] \in {"write", "read", "copy"} <=> lock' = q
    BY <1>1, PipeAssumption DEF Proc
  <2>2. \A q \in Proc : pc'[q] \in WLabels => pc[q] \in WLabels
    BY DEF WLabels
  <2>3. \A q \in Proc : pc'[q] \in RLabels => pc[q] \in RLabels
    BY DEF RLabels
  <2> QED BY <2>1, <2>2, <2>3 DEF WInv, Inside
<1>3. SleepReason'
  <2>1. Empty' = Empty /\ Full' = Full
    BY DEF Empty, Full
  <2> QED BY <2>1 DEF SleepReason
<1>4. Counters'
  BY DEF WInv, Counters
<1> QED BY <1>2, <1>3, <1>4 DEF WInv

\* A writer leaves its loop: killed or without readers, to sleep, or done.
LEMMA WriterLeaves ==
  ASSUME WInv, NEW p \in Proc, writeFail(p) \/ writeSleep(p) \/ writeDone(p)
  PROVE  WInv'
<1>1. /\ pc[p] = "write" /\ lock' = NULL
      /\ UNCHANGED <<nread, nwrite, readopen, writeopen, killed>>
  BY DEF writeFail, writeSleep, writeDone, ring, ends
<1>2. p \in Writer /\ lock = p /\ \A r \in Reader : pc[r] # "copy"
  <2>1. p \in Writer /\ lock = p
    BY <1>1 DEF WInv, Inside, WLabels
  <2>2. \A r \in Reader : pc[r] # "copy"
    BY <2>1, PipeAssumption DEF WInv, Inside, Proc
  <2> QED BY <2>1, <2>2
<1>3. \A q \in Proc : pc[q] = "wSleep" => Full /\ readopen
  BY <1>2 DEF WInv, SleepReason
<1>4. CASE writeFail(p)
  <2>1. Full /\ (~readopen \/ killed[p]) /\ pc' = [pc EXCEPT ![p] = "user"]
    BY <1>4 DEF writeFail
  <2>2. /\ pc' \in [Proc -> Labels] /\ pc'[p] = "user" /\ \A q \in Proc \ {p} : pc'[q] = pc[q]
    BY <2>1 DEF WInv, Inside, Labels
  <2>3. \A q \in Proc : pc'[q] = "rSleep" => (Empty /\ writeopen) \/ \E w \in Writer : killed[w]
    BY <1>2, <2>1, <2>2 DEF WInv, Inside, RLabels
  <2>4. \A q \in Proc : pc'[q] = "wSleep" => Full /\ readopen
    BY <1>3, <2>2
  <2> QED BY <1>1, <2>2, <2>3, <2>4, LeaveStep
<1>5. CASE writeSleep(p)
  <2>1. Full /\ readopen
    BY <1>5 DEF writeSleep
  <2>2. /\ pc' \in [Proc -> Labels] /\ pc'[p] = "wSleep"
        /\ \A q \in Proc \ {p} : IF pc[q] = "rSleep" THEN pc'[q] = "rWoken" ELSE pc'[q] = pc[q]
    BY <1>5 DEF writeSleep, wakeReaders, GotoWaking, WInv, Inside, Labels, WLabels, RLabels
  <2>3. \A q \in Proc : pc'[q] # "rSleep"
    BY <2>2
  <2> QED BY <1>1, <2>1, <2>2, <2>3, LeaveStep
<1>6. CASE writeDone(p)
  <2>2. /\ pc' \in [Proc -> Labels] /\ pc'[p] = "user"
        /\ \A q \in Proc \ {p} : IF pc[q] = "rSleep" THEN pc'[q] = "rWoken" ELSE pc'[q] = pc[q]
    BY <1>6 DEF writeDone, wakeReaders, GotoWaking, WInv, Inside, Labels, WLabels, RLabels
  <2>3. \A q \in Proc : pc'[q] # "rSleep" /\ (pc'[q] = "wSleep" => pc[q] = "wSleep")
    BY <2>2
  <2> QED BY <1>1, <1>3, <2>2, <2>3, LeaveStep
<1> QED BY <1>4, <1>5, <1>6

\* A reader leaves its loops.
LEMMA ReaderLeaves ==
  ASSUME WInv, NEW p \in Proc, readFail(p) \/ readSleep(p) \/ readDone(p)
  PROVE  WInv'
<1>1. /\ pc[p] \in {"read", "copy"} /\ lock' = NULL
      /\ UNCHANGED <<nread, nwrite, readopen, writeopen, killed>>
  BY DEF readFail, readSleep, readDone, ring, ends
<1>2. /\ p \in Reader /\ lock = p /\ lock \notin Writer
      /\ \A r \in Proc \ {p} : pc[r] # "copy"
  BY <1>1, PipeAssumption DEF WInv, Inside, RLabels, Proc
<1>3. \A q \in Proc : pc[q] = "rSleep" => (Empty /\ writeopen) \/ \E w \in Writer : killed[w]
  BY <1>2 DEF WInv, SleepReason
<1>4. CASE readFail(p) \/ readSleep(p)
  <2>1. PICK l \in {"user", "rSleep"} :
          /\ pc[p] = "read" /\ pc' = [pc EXCEPT ![p] = l] /\ Empty /\ writeopen
    BY <1>4 DEF readFail, readSleep
  <2>2. /\ pc' \in [Proc -> Labels] /\ pc'[p] = l /\ \A q \in Proc \ {p} : pc'[q] = pc[q]
    BY <2>1 DEF WInv, Inside, Labels, RLabels
  <2>3. \A r \in Reader : pc[r] # "copy"
    BY <1>2, <2>1 DEF Proc
  <2>4. \A q \in Proc : pc'[q] = "wSleep" => Full /\ readopen
    BY <2>1, <2>2, <2>3 DEF WInv, SleepReason
  <2> QED BY <1>1, <1>3, <2>1, <2>2, <2>4, LeaveStep
<1>5. CASE readDone(p)
  <2>1. /\ pc' \in [Proc -> Labels] /\ pc'[p] = "user"
        /\ \A q \in Proc \ {p} : IF pc[q] = "wSleep" THEN pc'[q] = "wWoken" ELSE pc'[q] = pc[q]
    BY <1>5 DEF readDone, wakeWriters, GotoWaking, WInv, Inside, Labels, WLabels, RLabels
  <2>2. \A q \in Proc : pc'[q] # "wSleep" /\ (pc'[q] = "rSleep" => pc[q] = "rSleep")
    BY <2>1
  <2> QED BY <1>1, <1>3, <2>1, <2>2, LeaveStep
<1> QED BY <1>4, <1>5

\* pipeclose, and kill.
LEMMA CloseKillStep ==
  ASSUME WInv, pipecloseWrite \/ pipecloseRead \/ \E p \in Proc : kill(p)
  PROVE  WInv'
<1>1. /\ UNCHANGED <<nread, nwrite, lock>>
      /\ pc' \in [Proc -> Labels]
      /\ \A q \in Proc : \/ pc'[q] = pc[q]
                         \/ pc[q] = "rSleep" /\ pc'[q] = "rWoken"
                         \/ pc[q] = "wSleep" /\ pc'[q] = "wWoken"
  BY SMT, SMTT(30) DEF pipecloseWrite, pipecloseRead, kill, ring, WInv, Inside, Labels, WLabels, RLabels
<1>2. /\ readopen' = readopen \/ (readopen' = FALSE /\ (\A q \in Reader : pc[q] = "user")
                                   /\ \A q \in Proc : pc'[q] # "wSleep")
      /\ writeopen' = writeopen \/ (writeopen' = FALSE /\ (\A q \in Writer : pc[q] = "user")
                                     /\ \A q \in Proc : pc'[q] # "rSleep")
  BY DEF pipecloseWrite, pipecloseRead, kill, ends, WInv, Inside
<1>3. killed' \in [Proc -> BOOLEAN] /\ \A q \in Proc : killed[q] => killed'[q]
  BY DEF pipecloseWrite, pipecloseRead, kill, WInv, Inside
<1>4. Counters'
  BY <1>1 DEF WInv, Counters
<1>5. Inside'
  <2>1. \A q \in Proc : pc'[q] \in {"write", "read", "copy"} <=> lock' = q
    BY <1>1 DEF WInv, Inside
  <2>2. \A q \in Proc : pc'[q] \in WLabels => q \in Writer /\ writeopen'
    BY SMT, SMTT(30), <1>1, <1>2 DEF WInv, Inside, WLabels
  <2>3. \A q \in Proc : pc'[q] \in RLabels => q \in Reader /\ readopen'
    BY SMT, SMTT(30), <1>1, <1>2 DEF WInv, Inside, RLabels
  <2> QED BY <2>1, <2>2, <2>3, <1>1, <1>2, <1>3 DEF WInv, Inside
<1>6. SleepReason'
  <2>1. Empty' = Empty /\ Full' = Full
    BY <1>1 DEF Empty, Full
  <2>2. ASSUME NEW q \in Proc, pc'[q] = "rSleep"
        PROVE  (Empty /\ writeopen)' \/ lock' \in Writer \/ \E w \in Writer : killed'[w]
    BY SMT, SMTT(30), <1>1, <1>2, <1>3, <2>1, <2>2 DEF WInv, SleepReason, Proc
  <2>3. ASSUME NEW q \in Proc, pc'[q] = "wSleep"
        PROVE  (Full /\ readopen)' \/ \E r \in Reader : pc'[r] = "copy"
    BY SMT, SMTT(30), <1>1, <1>2, <2>1, <2>3 DEF WInv, SleepReason, Proc
  <2> QED BY <2>2, <2>3 DEF SleepReason
<1> QED BY <1>4, <1>5, <1>6 DEF WInv

\* WInv is inductive.
LEMMA WInvNext == WInv /\ [Next]_vars => WInv'
<1> SUFFICES ASSUME WInv, [Next]_vars PROVE WInv'
  OBVIOUS
<1>1. CASE UNCHANGED vars
  <2>1. UNCHANGED <<data, nread, nwrite, readopen, writeopen, lock, pc, left, killed>>
    BY <1>1 DEF vars
  <2>2. Inside' /\ Counters'
    BY <2>1 DEF WInv, Inside, Counters
  <2>3. SleepReason'
    BY <2>1 DEF WInv, SleepReason, Empty, Full
  <2> QED BY <2>2, <2>3 DEF WInv
<1>2. CASE Next
  BY <1>2, AcquireStep, ByteStep, StartStep, WriterLeaves, ReaderLeaves, CloseKillStep
  DEF Next, Locked, Proc
<1> QED BY <1>1, <1>2

\* NoForgottenSleeper: a process sleeps only while it must, or while the one
\* that will wake it holds the lock.
THEOREM SleepersRemembered == Spec => []NoForgottenSleeper
<1>1. WInv => NoForgottenSleeper
  <2> SUFFICES ASSUME WInv, NEW p \in Proc
               PROVE  /\ pc[p] = "rSleep" /\ ~(Empty /\ writeopen) =>
                           lock \in Writer \/ \E w \in Writer : killed[w]
                      /\ pc[p] = "wSleep" /\ ~(Full /\ readopen) => lock \in Reader
    BY DEF NoForgottenSleeper
  <2>1. \A r \in Reader : pc[r] = "copy" => lock = r
    BY DEF WInv, Inside, Proc
  <2> QED BY <2>1 DEF WInv, SleepReason
<1> QED BY <1>1, WInit, WInvNext, PTL DEF Spec
-----------------------------------------------------------------------------
(* The ring is a queue. *)

\* A function on 1..n + 1 that extends one on 1..n appends its last value.
LEMMA AppendIs ==
  ASSUME NEW S, NEW n \in Nat, NEW f \in [1..n -> S], NEW g \in [1..(n + 1) -> S],
         \A k \in 1..n : g[k] = f[k]
  PROVE  g = Append(f, g[n + 1]) /\ Len(f) = n
<1>1. f \in Seq(S) /\ g \in Seq(S) /\ Len(f) = n /\ Len(g) = n + 1
  BY SMT
<1>2. Append(f, g[n + 1]) \in Seq(S) /\ Len(Append(f, g[n + 1])) = n + 1
  BY SMT, SMTT(30), <1>1
<1>3. \A k \in 1..(n + 1) : Append(f, g[n + 1])[k] = g[k]
  BY SMT, SMTT(30), <1>1
<1> QED BY SMT, SMTT(30), <1>1, <1>2, <1>3

\* A function shifted by one is the tail.
LEMMA TailIs ==
  ASSUME NEW S, NEW n \in Nat, NEW f \in [1..(n + 1) -> S], NEW g \in [1..n -> S],
         \A k \in 1..n : g[k] = f[k + 1]
  PROVE  g = Tail(f) /\ f # << >>
<1>1. f \in Seq(S) /\ g \in Seq(S) /\ Len(f) = n + 1 /\ Len(g) = n
  BY SMT
<1>2. Tail(f) \in Seq(S) /\ Len(Tail(f)) = n /\ f # << >>
  BY SMT, SMTT(30), <1>1
<1>3. \A k \in 1..n : Tail(f)[k] = g[k]
  BY SMT, SMTT(30), <1>1
<1> QED BY SMT, SMTT(30), <1>1, <1>2, <1>3

\* An empty pipe is the empty queue.
LEMMA EmptyQueue == ASSUME Count = 0 PROVE queue = << >>
<1> DEFINE S == {data[(nread + k - 1) % PIPESIZE] : k \in 1..0}
<1>1. queue \in [1..0 -> S]
  BY DEF queue
<1> HIDE DEF S
<1>2. queue \in Seq(S) /\ Len(queue) = 0
  BY <1>1, SMT
<1> QED BY SMT, SMTT(30), <1>2

\* The queue's elements.
Elements ==
  /\ queue \in [1..Count -> Byte]
  /\ \A k \in 1..Count : queue[k] = data[(nread + k - 1) % PIPESIZE]

\* They are bytes, one for each count.
LEMMA QueueIs == RInv => Elements
<1> SUFFICES ASSUME RInv PROVE Elements
  OBVIOUS
<1>1. Count \in 0..PIPESIZE /\ nread \in Int
  BY SMT, SMTT(30), CountFacts, PipeAssumption DEF RInv, WInv, Counters
<1>2. \A k \in 1..Count : (nread + k - 1) % PIPESIZE \in Slot
  BY SMT, SMTT(30), <1>1, SlotRange
<1> QED BY <1>1, <1>2 DEF queue, RInv, Elements

\* pipewrite puts a byte behind the last.
LEMMA PutStep ==
  ASSUME RInv, WInv', NEW p \in Proc, writeByte(p)
  PROVE  RInv' /\ \E b \in Byte : CH!Put(b)
<1>1. PICK b \in Byte : data' = [data EXCEPT ![nwrite % PIPESIZE] = b]
  BY DEF writeByte
<1>2. /\ pc[p] = "write" /\ ~Full /\ nwrite' = (nwrite + 1) % UINT /\ nread' = nread
      /\ UNCHANGED <<readopen, writeopen>>
  BY DEF writeByte, ends
<1> DEFINE n == Count
<1>3. /\ n \in 0..(PIPESIZE - 1) /\ nread \in 0..(UINT - 1) /\ nwrite \in 0..(UINT - 1)
      /\ nwrite = nread + n \/ nwrite = nread + n - UINT
  BY SMT, SMTT(30), <1>2, CountFacts, PipeAssumption DEF RInv, WInv, Counters
<1>n. n \in Int /\ nread \in Int /\ nwrite \in Int /\ UINT \in Int /\ PIPESIZE \in Nat \ {0} /\ UINT > PIPESIZE
  BY SMT, SMTT(30), <1>3, PipeAssumption
<1>4. Count' = n + 1
  <2>1. nwrite' \in 0..(UINT - 1) /\ (nwrite' = nwrite + 1 \/ nwrite' = nwrite + 1 - UINT)
    BY <1>2, <1>3, NextCounter
  <2>2. n + 1 \in 0..(UINT - 1)
    BY SMT, SMTT(30), <1>3, <1>n
  <2> HIDE DEF n
  <2>3. nwrite' = nread + (n + 1) \/ nwrite' = nread + (n + 1) - UINT
    BY SMT, SMTT(30), <2>1, <2>2, <1>3, <1>n
  <2>4. (nwrite' - nread) % UINT = n + 1
    BY <2>1, <2>2, <2>3, <1>3, CountIs
  <2> QED BY <2>4, <1>2 DEF Count
<1> HIDE DEF n
<1>5. nwrite % PIPESIZE = (nread + n) % PIPESIZE /\ nwrite % PIPESIZE \in Slot
  <2> DEFINE a == nread + n
  <2>a. a \in Int
    BY SMT, SMTT(30), <1>n
  <2> HIDE DEF a
  <2>1. (a - UINT) % PIPESIZE = a % PIPESIZE
    BY <2>a, WrapInvisible
  <2>2. nwrite = a \/ nwrite = a - UINT
    BY SMT, SMTT(30), <1>3, <1>n DEF a
  <2>3. nwrite % PIPESIZE = a % PIPESIZE
    BY <2>1, <2>2
  <2> QED BY <2>3, <1>n, SlotRange DEF a
<1>6. \A k \in 1..n : (nread + k - 1) % PIPESIZE # nwrite % PIPESIZE
  <2> SUFFICES ASSUME NEW k \in 1..n PROVE (nread + k - 1) % PIPESIZE # (nread + n) % PIPESIZE
    BY <1>5
  <2> DEFINE x == nread + k - 1   y == nread + n
  <2>1. x \in Int /\ y \in Int /\ x < y /\ y < x + PIPESIZE
    BY SMT, SMTT(30), <1>3, <1>n
  <2> HIDE DEF x, y
  <2>2. x % PIPESIZE # y % PIPESIZE
    BY <2>1, SlotsDistinct
  <2> QED BY <2>2 DEF x, y
<1>7. RInv'
  <2>1. Count' <= PIPESIZE
    BY SMT, SMTT(30), <1>3, <1>4, <1>n
  <2>2. data' \in [Slot -> Byte]
    BY <1>1, <1>5 DEF RInv
  <2> QED BY <2>1, <2>2 DEF RInv
<1>8. /\ queue \in [1..n -> Byte] /\ queue' \in [1..(n + 1) -> Byte]
      /\ \A k \in 1..n : queue[k] = data[(nread + k - 1) % PIPESIZE]
      /\ \A k \in 1..(n + 1) : queue'[k] = data'[(nread + k - 1) % PIPESIZE]
  <2>1. /\ queue \in [1..n -> Byte]
        /\ \A k \in 1..n : queue[k] = data[(nread + k - 1) % PIPESIZE]
    BY QueueIs DEF n, Elements
  <2>2. /\ queue' \in [1..Count' -> Byte]
        /\ \A k \in 1..Count' : queue'[k] = data'[(nread' + k - 1) % PIPESIZE]
    <3>1. Elements'
      BY <1>7, QueueIs, PTL
    <3> QED BY <3>1 DEF Elements
  <2> QED BY <2>1, <2>2, <1>2, <1>4
<1>9. queue'[n + 1] = b
  <2>1. n + 1 \in 1..(n + 1) /\ nread + (n + 1) - 1 = nread + n
    BY SMT, SMTT(30), <1>3, <1>n
  <2>2. queue'[n + 1] = data'[nwrite % PIPESIZE]
    BY <2>1, <1>5, <1>8
  <2> QED BY <2>2, <1>1, <1>5 DEF RInv
<1>10. \A k \in 1..n : queue'[k] = queue[k]
  <2> SUFFICES ASSUME NEW k \in 1..n PROVE queue'[k] = queue[k]
    OBVIOUS
  <2> DEFINE j == (nread + k - 1) % PIPESIZE
  <2>1. k \in 1..(n + 1) /\ j \in Slot /\ j # nwrite % PIPESIZE
    BY SMT, SMTT(30), <1>3, <1>6, <1>n, SlotRange
  <2>2. queue'[k] = data'[j] /\ queue[k] = data[j]
    BY <2>1, <1>8
  <2> HIDE DEF j
  <2>3. data'[j] = data[j]
    BY <2>1, <1>1 DEF RInv
  <2> QED BY <2>2, <2>3
<1>11. queue' = Append(queue, b) /\ Len(queue) = n
  BY SMT, SMTT(30), <1>3, <1>8, <1>9, <1>10, AppendIs
<1>12. writeopen
  BY <1>2 DEF RInv, WInv, Inside, WLabels
<1>13. Len(queue) < PIPESIZE
  BY SMT, SMTT(30), <1>3, <1>11, <1>n
<1> QED BY <1>2, <1>7, <1>11, <1>12, <1>13 DEF CH!Put

\* piperead takes the first byte.
LEMMA GetStep ==
  ASSUME RInv, WInv', NEW p \in Proc, readByte(p)
  PROVE  RInv' /\ CH!Get
<1>2. /\ pc[p] = "copy" /\ ~Empty /\ nread' = (nread + 1) % UINT /\ nwrite' = nwrite
      /\ UNCHANGED <<data, readopen, writeopen>>
  BY DEF readByte, ends
<1> DEFINE n == Count - 1
<1>3. /\ n \in 0..(PIPESIZE - 1) /\ nread \in 0..(UINT - 1) /\ nwrite \in 0..(UINT - 1)
      /\ nwrite = nread + n + 1 \/ nwrite = nread + n + 1 - UINT
  BY SMT, SMTT(30), <1>2, CountFacts, PipeAssumption DEF RInv, WInv, Counters
<1>c. Count = n + 1
  BY SMT, SMTT(30), CountFacts, PipeAssumption DEF RInv, WInv
<1>n. n \in Int /\ nread \in Int /\ nwrite \in Int /\ UINT \in Int /\ PIPESIZE \in Nat \ {0} /\ UINT > PIPESIZE
  BY SMT, SMTT(30), <1>3, PipeAssumption
<1> HIDE DEF n
<1>r. nread' \in 0..(UINT - 1) /\ (nread' = nread + 1 \/ nread' = nread + 1 - UINT)
  BY <1>2, <1>3, NextCounter
<1>4. Count' = n
  <2>1. n \in 0..(UINT - 1)
    BY SMT, SMTT(30), <1>3, <1>n
  <2>2. nwrite = nread' + n \/ nwrite = nread' + n - UINT
    <3>1. CASE nread' = nread + 1
      BY SMT, SMTT(30), <3>1, <1>3, <1>n
    <3>2. CASE nread' = nread + 1 - UINT
      <4>1. nread = UINT - 1
        BY SMT, SMTT(30), <3>2, <1>3, <1>r, <1>n
      <4>2. nwrite # nread + n + 1
        BY SMT, SMTT(30), <4>1, <1>3, <1>n
      <4>3. nwrite = nread + n + 1 - UINT
        BY <4>2, <1>3
      <4> QED BY SMT, SMTT(30), <4>3, <3>2, <1>n
    <3> QED BY <3>1, <3>2, <1>r
  <2>3. (nwrite - nread') % UINT = n
    BY <1>3, <1>r, <2>1, <2>2, CountIs
  <2> QED BY <1>2, <2>3 DEF Count
<1>5. RInv'
  BY SMT, SMTT(30), <1>2, <1>3, <1>4, <1>n DEF RInv
<1>6. /\ queue \in [1..(n + 1) -> Byte] /\ queue' \in [1..n -> Byte]
      /\ \A k \in 1..(n + 1) : queue[k] = data[(nread + k - 1) % PIPESIZE]
      /\ \A k \in 1..n : queue'[k] = data[(nread' + k - 1) % PIPESIZE]
  <2>1. /\ queue \in [1..Count -> Byte]
        /\ \A k \in 1..Count : queue[k] = data[(nread + k - 1) % PIPESIZE]
    BY QueueIs DEF Elements
  <2>2. /\ queue' \in [1..Count' -> Byte]
        /\ \A k \in 1..Count' : queue'[k] = data'[(nread' + k - 1) % PIPESIZE]
    <3>1. Elements'
      BY <1>5, QueueIs, PTL
    <3> QED BY <3>1 DEF Elements
  <2> QED BY <2>1, <2>2, <1>2, <1>4, <1>c
<1>7. \A k \in 1..n : queue'[k] = queue[k + 1]
  <2> SUFFICES ASSUME NEW k \in 1..n PROVE queue'[k] = queue[k + 1]
    OBVIOUS
  <2>1. k \in Int /\ k + 1 \in 1..(n + 1) /\ nread + (k + 1) - 1 = nread + k
    BY SMT, SMTT(30), <1>n
  <2>2. (nread' + k - 1) % PIPESIZE = (nread + k) % PIPESIZE
    <3>1. CASE nread' = nread + 1
      <4>1. nread' + k - 1 = nread + k
        BY SMT, SMTT(30), <3>1, <1>n, <2>1
      <4> QED BY <4>1
    <3>2. CASE nread' = nread + 1 - UINT
      <4> DEFINE a == nread + k
      <4>1. nread' + k - 1 = a - UINT /\ a \in Int
        BY SMT, SMTT(30), <3>2, <1>n, <2>1
      <4> HIDE DEF a
      <4>2. (a - UINT) % PIPESIZE = a % PIPESIZE
        BY <4>1, WrapInvisible
      <4> QED BY <4>1, <4>2 DEF a
    <3> QED BY <3>1, <3>2, <1>r
  <2>3. queue[k + 1] = data[(nread + k) % PIPESIZE]
    BY <1>6, <2>1
  <2> QED BY <1>6, <2>2, <2>3
<1>8. queue' = Tail(queue) /\ queue # << >>
  <2>1. n \in Nat
    BY SMT, SMTT(30), <1>3, <1>n
  <2> QED BY SMT, SMTT(30), Zenon, ZenonT(30), <1>6, <1>7, <2>1, TailIs
<1>9. readopen
  BY <1>2 DEF RInv, WInv, Inside, RLabels
<1> QED BY <1>2, <1>5, <1>8, <1>9 DEF CH!Get

\* Every other step leaves the ring alone and closes at most one end.
LEMMA OtherStep ==
  ASSUME RInv, WInv', UNCHANGED <<data, nread, nwrite>>,
         UNCHANGED <<readopen, writeopen>> \/ pipecloseRead \/ pipecloseWrite
  PROVE  RInv' /\ [CH!Next]_(CH!vars)
<1>1. Count' = Count /\ queue' = queue
  BY DEF Count, queue
<1>2. RInv'
  BY <1>1 DEF RInv
<1>3. UNCHANGED CH!vars \/ CH!CloseRead \/ CH!CloseWrite
  BY <1>1 DEF CH!vars, CH!CloseRead, CH!CloseWrite, pipecloseRead, pipecloseWrite
<1> QED BY <1>2, <1>3 DEF CH!Next

\* FIFO: the pipe implements the bounded queue of Channel, for every PIPESIZE
\* that divides the range of its counters.
THEOREM PipeIsFIFO == Spec => FIFO
<1>1. Init => RInv /\ CH!Init
  <2> SUFFICES ASSUME Init PROVE RInv /\ CH!Init
    OBVIOUS
  <2>1. WInv
    BY WInit
  <2>2. Count = 0
    BY <2>1, CountFacts DEF Init, WInv, Empty
  <2>3. queue = << >>
    BY <2>2, EmptyQueue
  <2> QED BY SMT, SMTT(30), <2>1, <2>2, <2>3, PipeAssumption DEF Init, RInv, CH!Init
<1>2. RInv /\ [Next]_vars => RInv' /\ [CH!Next]_(CH!vars)
  <2> SUFFICES ASSUME RInv, [Next]_vars PROVE RInv' /\ [CH!Next]_(CH!vars)
    OBVIOUS
  <2>1. WInv'
    BY WInvNext DEF RInv
  <2>2. ASSUME NEW p \in Proc, writeByte(p) PROVE RInv' /\ [CH!Next]_(CH!vars)
    BY <2>1, <2>2, PutStep DEF CH!Next
  <2>3. ASSUME NEW p \in Proc, readByte(p) PROVE RInv' /\ [CH!Next]_(CH!vars)
    BY <2>1, <2>3, GetStep DEF CH!Next
  <2>4. ASSUME NEW p \in Proc, pipewrite(p) \/ piperead(p) \/ Woken(p) \/ kill(p)
        PROVE  UNCHANGED <<data, nread, nwrite, readopen, writeopen>>
    BY <2>4 DEF pipewrite, piperead, Call, Woken, writeWoken, readWoken, kill, ring, ends
  <2>5. ASSUME NEW p \in Proc, Locked(p), ~writeByte(p), ~readByte(p)
        PROVE  UNCHANGED <<data, nread, nwrite, readopen, writeopen>>
    BY <2>5 DEF Locked, writeFail, writeSleep, writeDone, readFail, readSleep, readStart, readDone, ring, ends
  <2>6. CASE pipecloseRead \/ pipecloseWrite
    <3>1. UNCHANGED <<data, nread, nwrite>>
      BY <2>6 DEF pipecloseRead, pipecloseWrite, ring
    <3> QED BY <2>1, <2>6, <3>1, OtherStep
  <2>7. CASE UNCHANGED vars
    BY <2>1, <2>7, OtherStep DEF vars
  <2> QED BY <2>1, <2>2, <2>3, <2>4, <2>5, <2>6, <2>7, OtherStep DEF Next, Proc
<1> QED BY <1>1, <1>2, PTL DEF Spec, FIFO, CH!Spec
=============================================================================
