--------------------------- MODULE FileSysProofs ---------------------------
(***************************************************************************)
(* Reference counts, the coherence of the inode cache and the absence of   *)
(* deadlock among inode locks, for any finite set of processes, any number *)
(* of inodes and any paths.                                                *)
(***************************************************************************)
EXTENDS FileSys, TLAPS

\* The steps of iput; the ones in which it frees the inode.
Freeing == {"trunc", "free", "freed"}
Putting == {"put"} \cup Freeing

\* Where a process goes on once iput returns, or where it is.
Aim(l, f) == IF l \in Putting THEN f.k ELSE l

\* The labels by the pointers that the call holds there: none, ip, dp, both.
\* A walk holds ip, and for link's second path dp as well.
Bare   == {"user", "commit"}
OnlyIp == {"openFile", "closeTrans", "chdirPut", "chdirEnd", "createDir", "createLook",
           "createOld", "created", "unlinkTrans", "unlinkInode", "linkTrans",
           "linkInode", "linkNew", "linkUndo"}
OnlyDp == {"unlinkDir", "unlinkLook", "unlinkBad"}
Both   == {"createLock", "createInit", "unlinkLock", "unlinkEntry", "linkEntry"}

HasIp(l, f) == Aim(l, f) \in OnlyIp \cup Both \cup {"walk"}
HasDp(l, f) == Aim(l, f) \in OnlyDp \cup Both \/ (Aim(l, f) = "walk" /\ f.op = "link2")

\* The labels at which the path is the last name.
Named == {"createDir", "createLook", "createLock", "createInit", "unlinkTrans",
          "unlinkDir", "unlinkLook", "unlinkLock", "unlinkEntry", "linkEntry"}

Creates  == {"create", "mkdir", "mknod"}
CreateAt == {"createDir", "createLook", "createOld", "createLock", "createInit", "created"}
LinkAt   == {"linkNew", "linkEntry", "linkUndo"}

Conts  == {"user", "commit", "walk", "createOld", "created", "unlinkInode", "unlinkBad",
           "linkUndo", "chdirEnd"}
Labels == Bare \cup OnlyIp \cup OnlyDp \cup Both \cup {"walk"} \cup Putting

Path  == Seq(Elem \cup {Slash})
Frame == [op : Ops \cup {"none", "close"}, path : Path, ip : Inum \cup {None},
          dp : Inum \cup {None}, puts : Seq(Inum), k : Conts \cup {"none"}]
Inode == [type : {"none", "file", "dir", "dev"}, nlink : Int]

\* The locals of a call at the label l.
Shape(l, f) ==
  /\ l \in Labels /\ f \in Frame
  /\ IF l \in Putting THEN /\ f.puts # <<>> /\ f.k \in Conts
                           /\ Len(f.puts) = 1 \/ (Len(f.puts) = 2 /\ f.k = "commit")
                      ELSE f.puts = <<>> /\ f.k = "none"
  /\ l \in Freeing => Len(f.puts) = 1 \/ f.k = "commit"
  /\ IF HasIp(l, f) THEN f.ip \in Inum ELSE f.ip = None
  /\ IF HasDp(l, f) THEN f.dp \in Inum ELSE f.dp = None
  /\ Aim(l, f) \in Named => f.path # <<>> /\ Head(f.path) \in Elem
  /\ Aim(l, f) = "walk" => f.op \in Ops
  /\ Aim(l, f) \in CreateAt => f.op \in Creates
  /\ Aim(l, f) \in LinkAt => f.op = "link2"
  /\ l = "user" => f = Idle

Types ==
  /\ dsk \in [Inum -> Inode] /\ mem \in [Inum -> Inode]
  /\ ents \in [Inum -> [Elem -> Inum \cup {None}]]
  /\ ref \in [Inum -> Int] /\ valid \in [Inum -> BOOLEAN]
  /\ busy \in [Inum -> Proc \cup {NULL}] /\ trans \in Proc \cup {NULL}
  /\ cwd \in [Proc -> Inum] /\ file \in [Proc -> Inum \cup {None}]
  /\ pc \in [Proc -> Labels] /\ fr \in [Proc -> Frame]
  /\ \A p \in Proc : Shape(pc[p], fr[p])

\* How many pointers to i a process has whose cwd is c and open file o.
Own(l, f, c, o, i) ==
  One(c = i /\ ~(f.k = "chdirEnd" \/ l = "chdirEnd")) + One(o = i)
  + One(f.ip = i) + One(f.dp = i) + One(f.puts # <<>> /\ Head(f.puts) = i)
  + One(Len(f.puts) = 2 /\ f.puts[2] = i)

OwnOf(p, i) == Own(pc[p], fr[p], cwd[p], file[p], i)

\* Never more than ref counts: neither the pointers of a process, nor those of
\* two together.
Lower == \A p, q \in Proc, i \in Inum :
  /\ ref[i] >= OwnOf(p, i)
  /\ p # q => ref[i] >= OwnOf(p, i) + OwnOf(q, i)

\* The inodes that a call has locked.
LocksIp(l, f) == \/ Aim(l, f) \in {"createLook", "createInit", "created", "unlinkEntry",
                                   "unlinkInode"}
                 \/ Aim(l, f) = "openFile" /\ f.op = "create"
LocksDp(l, f) == Aim(l, f) \in {"createLock", "createInit", "unlinkLook", "unlinkLock",
                                "unlinkEntry", "unlinkBad"}
Frees(l, f, i) == l \in Freeing /\ i = Head(f.puts)
Locks(l, f, i) == \/ LocksIp(l, f) /\ i = f.ip
                  \/ LocksDp(l, f) /\ i = f.dp
                  \/ Frees(l, f, i)

\* An inode that iput frees, or that a call locks after another, is none that
\* the call already has.
Apart(l, f) ==
  /\ l \in Freeing => f.ip # Head(f.puts) /\ f.dp # Head(f.puts)
  /\ l \in Both /\ l # "linkEntry" => f.ip # f.dp

\* I_BUSY is set by the call that locked the inode, and the inode is I_VALID.
Locked ==
  /\ \A p \in Proc, i \in Inum : Locks(pc[p], fr[p], i) => busy[i] = p
  /\ \A i \in Inum : busy[i] # NULL =>
       Locks(pc[busy[i]], fr[busy[i]], i) /\ valid[i]
  /\ \A p \in Proc : Apart(pc[p], fr[p])

\* A valid inode agrees with the disk and has a type, but for one that iput
\* has just freed on the disk.
Freed(i) == \E q \in Proc : pc[q] = "freed" /\ i = Head(fr[q].puts)
Agrees(i) == (mem[i] = dsk[i] /\ mem[i].type # "none") \/ Freed(i)
Coherent == \A i \in Inum : valid[i] => Agrees(i)

\* The part of a call inside its transaction.
Inside(l, f) ==
  \/ Aim(l, f) \in (CreateAt \cup LinkAt \cup OnlyDp \cup Both \cup {"commit", "unlinkInode", "linkInode"})
  \/ Aim(l, f) = "walk" /\ f.op \in Creates \cup {"link2"}
InTrans == \A p \in Proc : trans = p <=> Inside(pc[p], fr[p])

\* The old inode of link stays what linkInode found, its new parent what the
\* walk found: nobody frees an inode while a pointer to it is held.
Stays(i, T) == dsk[i].type \in T /\ \A q \in Proc : ~Frees(pc[q], fr[q], i)
Checked == \A p \in Proc :
  /\ fr[p].op = "link2" /\ Aim(pc[p], fr[p]) \in {"linkNew", "walk", "linkEntry"} =>
       Stays(fr[p].ip, {"file", "dev"})
  /\ pc[p] = "linkEntry" => Stays(fr[p].dp, {"dir"})

\* No directory names itself but by "..".
NoSelf == \A d \in Inum, n \in Name : ents[d][n] # d

FInv == Types /\ Lower /\ Locked /\ Coherent /\ InTrans /\ Checked /\ NoSelf

-----------------------------------------------------------------------------
(***************************************************************************)
(* What a step of p has to respect.                                        *)
(***************************************************************************)
\* The process p does the step.
Alone(p) == \A q \in Proc \ {p} : /\ pc'[q] = pc[q] /\ fr'[q] = fr[q]
                                  /\ cwd'[q] = cwd[q] /\ file'[q] = file[q]

\* A step that changes ref as it changes the pointers of its process.
Balanced(p) == \A i \in Inum : ref'[i] = ref[i] + OwnOf(p, i)' - OwnOf(p, i)

\* It locks what is free, unlocks what it had, and leaves the locks of
\* others and the validity of what they lock alone.
LockStep(p) == \A i \in Inum :
  /\ Locks(pc'[p], fr'[p], i) =>
       busy'[i] = p /\ valid'[i] /\ (busy[i] = NULL \/ busy[i] = p)
  /\ ~Locks(pc'[p], fr'[p], i) =>
       /\ Locks(pc[p], fr[p], i) => busy'[i] = NULL
       /\ ~Locks(pc[p], fr[p], i) =>
            busy'[i] = busy[i] /\ (valid[i] => valid'[i] \/ ref[i] = 0)

\* It begins or ends its own transaction.
TransStep(p) ==
  /\ Inside(pc'[p], fr'[p]) => trans' = p /\ (trans = p \/ trans = NULL)
  /\ ~Inside(pc'[p], fr'[p]) => trans' = IF Inside(pc[p], fr[p]) THEN NULL ELSE trans

\* On the disk it changes the type only of an inode that is free, or that it
\* frees; it begins to free an inode only with the last pointer to it.
TypeStep(p) == \A i \in Inum :
  \/ dsk'[i].type = dsk[i].type
  \/ dsk[i].type = "none"
  \/ Frees(pc[p], fr[p], i)
FreeStep(p) == \A i \in Inum :
  Frees(pc'[p], fr'[p], i) => Frees(pc[p], fr[p], i) \/ (ref[i] = 1 /\ OwnOf(p, i) >= 1)

CheckedAt(p) ==
  /\ fr[p].op = "link2" /\ Aim(pc[p], fr[p]) \in {"linkNew", "walk", "linkEntry"} =>
       Stays(fr[p].ip, {"file", "dev"})
  /\ pc[p] = "linkEntry" => Stays(fr[p].dp, {"dir"})

\* What the invariant holds after a step of p.
Kept(p) == /\ Types' /\ Locked' /\ Coherent' /\ InTrans' /\ Checked' /\ NoSelf'
           /\ Alone(p) /\ Balanced(p) /\ TypeStep(p) /\ FreeStep(p)

\* Zenon is the prover of what follows; the steps that need arithmetic,
\* records or sequences name SMT.
USE Zenon, ZenonT(30)

\* A nonempty set of numbers has a least one, which First returns.
Minimal == \A S \in SUBSET Nat : S # {} => First(S) \in S

\* skipelem returns a name and a path.
Skips == \A path \in Path : skipelem(path) # NoElem =>
  skipelem(path).name \in Elem /\ skipelem(path).rest \in Path

LEMMA NoSlashType ==
  ASSUME Minimal, NEW path \in Path
  PROVE  /\ NoSlash(path) \in Path
         /\ NoSlash(path) # <<>> => Head(NoSlash(path)) \in Elem
<1> DEFINE ks == {k \in DOMAIN path : path[k] # Slash}
           m == First(ks)
           E == Elem \cup {Slash}
<1>1. path \in Seq(E)
  BY DEF Path
<1>2. CASE ks = {}
  BY SMT, SMTT(30), <1>2 DEF NoSlash, Path
<1> USE <1>1
<1>3. CASE ks # {}
  <2>1. ks \in SUBSET Nat
    BY SMT, SMTT(30)
  <2>2. m \in ks
    BY <1>3, <2>1 DEF Minimal
  <2>3. m \in 1..Len(path) /\ path[m] # Slash
    BY SMT, SMTT(30), <2>2
  <2>4. NoSlash(path) = SubSeq(path, m, Len(path))
    BY <1>3 DEF NoSlash
  <2> HIDE DEF m, ks, E
  <2> USE <2>3
  <2>5. SubSeq(path, m, Len(path)) \in Seq(E) /\ Head(SubSeq(path, m, Len(path))) = path[m]
    BY SMT, SMTT(30)
  <2>6. path[m] \in E
    BY SMT, SMTT(30)
  <2> QED BY <2>4, <2>5, <2>6 DEF E, Path
<1> QED BY <1>2, <1>3

LEMMA SkipType == Minimal => Skips
<1> SUFFICES ASSUME Minimal, NEW path \in Path, skipelem(path) # NoElem
             PROVE  skipelem(path).name \in Elem /\ skipelem(path).rest \in Path
  BY DEF Skips
<1> DEFINE s == NoSlash(path)
<1>1. s # <<>> /\ skipelem(path) = [name |-> Head(s), rest |-> NoSlash(Tail(s))]
  BY DEF skipelem
<1> USE <1>1
<1>2. s \in Path /\ Head(s) \in Elem
  BY NoSlashType
<1> HIDE DEF s
<1>3. Tail(s) \in Path
  BY SMT, SMTT(30), <1>2 DEF Path
<1>4. NoSlash(Tail(s)) \in Path
  BY <1>3, NoSlashType
<1> QED BY SMT, SMTT(30), <1>2, <1>4

LEMMA OwnNat == \A p \in Proc, i \in Inum : OwnOf(p, i) \in Nat
BY SMT, SMTT(30) DEF OwnOf, Own, One

LEMMA Stutter ==
  ASSUME FInv, RefExact, UNCHANGED vars
  PROVE  FInv' /\ RefExact'
<1>1. UNCHANGED <<dsk, ents, mem, ref, valid, busy, trans, cwd, file, pc, fr>>
  BY SMT, SMTT(30) DEF vars, disk, icache, procs
<1> USE <1>1
<1>2. Types' /\ Lower' /\ Locked'
  BY SMT, SMTT(30) DEF FInv, Types, Lower, OwnOf, Locked
<1>3. Coherent' /\ InTrans' /\ Checked' /\ NoSelf'
  BY SMT, SMTT(30) DEF FInv, Coherent, Agrees, Freed, InTrans, Checked, Stays, NoSelf
<1>4. RefExact'
  BY SMT, SMTT(30) DEF RefExact, Count, CwdPut
<1> QED BY <1>2, <1>3, <1>4 DEF FInv

\* A lock or a checked inode is one that the process points to.
LEMMA Points ==
  ASSUME Types, NEW p \in Proc, NEW i \in Inum,
         \/ Locks(pc[p], fr[p], i) \/ fr[p].ip = i \/ fr[p].dp = i
         \/ (pc[p] \in Putting /\ Head(fr[p].puts) = i)
  PROVE  OwnOf(p, i) >= 1
<1>1. fr[p].ip = i \/ fr[p].dp = i \/ (fr[p].puts # <<>> /\ Head(fr[p].puts) = i)
  BY DEF Types, Shape, Locks, Frees, Putting
<1> QED BY SMT, SMTT(30), <1>1 DEF OwnOf, Own, One

LEMMA LockCombine ==
  ASSUME FInv, NEW p \in Proc, Types', Alone(p), LockStep(p), Apart(pc'[p], fr'[p])
  PROVE  Locked'
<1>1. ASSUME NEW q \in Proc, NEW i \in Inum, Locks(pc'[q], fr'[q], i)
      PROVE  busy'[i] = q
  <2>1. CASE q = p
    BY <1>1, <2>1 DEF LockStep
  <2>2. CASE q # p
    <3> USE <2>2
    <3>1. Locks(pc[q], fr[q], i)
      BY <1>1 DEF Alone
    <3>2. busy[i] = q /\ q # NULL
      BY <3>1, FileSysAssumption DEF FInv, Locked
    <3>3. ~Locks(pc[p], fr[p], i)
      BY <3>2 DEF FInv, Locked
    <3> QED BY <3>2, <3>3 DEF LockStep
  <2> QED BY <2>1, <2>2
<1>2. ASSUME NEW i \in Inum, busy'[i] # NULL
      PROVE  Locks(pc'[busy'[i]], fr'[busy'[i]], i) /\ valid'[i]
  <2>1. CASE Locks(pc'[p], fr'[p], i)
    BY <2>1 DEF LockStep
  <2>2. CASE ~Locks(pc'[p], fr'[p], i)
    <3>1. ~Locks(pc[p], fr[p], i) /\ busy'[i] = busy[i] /\ (valid[i] => valid'[i] \/ ref[i] = 0)
      BY <1>2, <2>2 DEF LockStep
    <3> DEFINE q == busy[i]
    <3>2. q \in Proc /\ q # NULL /\ Locks(pc[q], fr[q], i) /\ valid[i]
      BY <1>2, <3>1 DEF FInv, Locked, Types
    <3> USE <3>2
    <3>3. q # p
      BY <3>1
    <3>4. ref[i] >= 1
      <4>1. OwnOf(q, i) >= 1
        BY Points DEF FInv
      <4>2. OwnOf(q, i) \in Nat /\ OwnOf(p, i) \in Nat
        BY OwnNat
      <4>3. ref[i] >= OwnOf(p, i) + OwnOf(q, i)
        BY <3>3, OwnNat DEF FInv, Lower
      <4>4. ref[i] \in Int
        BY DEF FInv, Types
      <4> QED BY SMT, SMTT(30), <4>1, <4>2, <4>3, <4>4
    <3>5. Locks(pc'[q], fr'[q], i)
      BY <3>3 DEF Alone
    <3> QED BY SMT, SMTT(30), <3>1, <3>4, <3>5
  <2> QED BY <2>1, <2>2
<1>3. \A q \in Proc : Apart(pc'[q], fr'[q])
  BY DEF FInv, Locked, Alone
<1> QED BY <1>1, <1>2, <1>3 DEF Locked

\* An inode that another process points to, and nobody frees, stays so.
LEMMA StaysOther ==
  ASSUME FInv, NEW p \in Proc, Alone(p), TypeStep(p), FreeStep(p),
         NEW q \in Proc, q # p, NEW i \in Inum, fr[q].ip = i \/ fr[q].dp = i,
         NEW T \in SUBSET {"file", "dir", "dev"}, Stays(i, T)
  PROVE  Stays(i, T)'
<1>1. ~Frees(pc[p], fr[p], i) /\ dsk[i].type \in T
  BY DEF Stays
<1>2. dsk'[i].type \in T
  BY <1>1 DEF TypeStep
<1>3. ~Frees(pc'[p], fr'[p], i)
  <2> SUFFICES ASSUME ref[i] = 1, OwnOf(p, i) >= 1 PROVE FALSE
    BY <1>1 DEF FreeStep
  <2>1. OwnOf(q, i) >= 1
    BY Points DEF FInv
  <2> QED BY SMT, SMTT(30), <2>1, OwnNat DEF FInv, Lower
<1>4. \A r \in Proc \ {p} : ~Frees(pc'[r], fr'[r], i)
  BY DEF Alone, Stays
<1> QED BY <1>2, <1>3, <1>4 DEF Stays

\* The checks of other processes stay good.
LEMMA CheckedCombine ==
  ASSUME FInv, NEW p \in Proc, Types', Alone(p), TypeStep(p), FreeStep(p), CheckedAt(p)'
  PROVE  Checked'
<1>2. ASSUME NEW q \in Proc, q # p PROVE CheckedAt(q)'
  <2> USE <1>2
  <2>1. pc'[q] = pc[q] /\ fr'[q] = fr[q] /\ Shape(pc[q], fr[q]) /\ CheckedAt(q)
    BY DEF Alone, FInv, Types, Checked, CheckedAt
  <2> USE <2>1
  <2>2. ASSUME fr[q].op = "link2", Aim(pc[q], fr[q]) \in {"linkNew", "walk", "linkEntry"}
        PROVE  Stays(fr[q].ip, {"file", "dev"})'
    <3>1. fr[q].ip \in Inum
      BY <2>2 DEF Shape, HasIp, OnlyIp, Both
    <3>2. Stays(fr[q].ip, {"file", "dev"})
      BY <2>2 DEF CheckedAt
    <3> QED BY <3>1, <3>2, StaysOther DEF Stays
  <2>3. ASSUME pc[q] = "linkEntry"
        PROVE  Stays(fr[q].dp, {"dir"})'
    <3>1. fr[q].dp \in Inum
      BY <2>3 DEF Shape, HasDp, Both, Aim, Putting, Freeing
    <3>2. Stays(fr[q].dp, {"dir"})
      BY <2>3 DEF CheckedAt
    <3> QED BY <3>1, <3>2, StaysOther DEF Stays
  <2> QED BY <2>2, <2>3 DEF CheckedAt
<1> QED BY <1>2 DEF Checked, CheckedAt

LEMMA Combine ==
  ASSUME FInv, NEW p \in Proc, Types', Alone(p), Balanced(p), LockStep(p),
         Apart(pc'[p], fr'[p]), Coherent', TransStep(p), TypeStep(p), FreeStep(p),
         CheckedAt(p)', NoSelf'
  PROVE  Kept(p)
<1>1. InTrans'
  BY SMT, SMTT(30), FileSysAssumption DEF FInv, InTrans, Alone, TransStep, Types
<1> QED BY <1>1, LockCombine, CheckedCombine DEF Kept, FInv

-----------------------------------------------------------------------------
(***************************************************************************)
(* The parts of a step.                                                    *)
(***************************************************************************)
\* The process p goes to l with the locals g.
Moved(p, l, g) ==
  /\ pc'[p] = l /\ fr'[p] = g
  /\ \A q \in Proc \ {p} : pc'[q] = pc[q] /\ fr'[q] = fr[q]
  /\ pc' \in [Proc -> Labels] /\ fr' \in [Proc -> Frame]
  /\ \A q \in Proc : Shape(pc'[q], fr'[q])

LEMMA GotoMoves ==
  ASSUME Types, NEW p \in Proc, NEW l, NEW g, Goto(p, l, g), Shape(l, g), l = "user" => g = Idle
  PROVE  Moved(p, l, g)
<1>1. l \in Labels /\ g \in Frame
  BY DEF Shape
<1>2. pc' = [pc EXCEPT ![p] = l] /\ fr' = [fr EXCEPT ![p] = g]
  BY DEF Goto
<1> QED BY <1>1, <1>2 DEF Types, Moved

LEMMA IdleShape == Shape("user", Idle)
BY SMT, SMTT(30) DEF Shape, Idle, Labels, Frame, Bare, OnlyIp, OnlyDp, Both, Putting, Freeing, Aim,
       HasIp, HasDp, None, Path, Named, CreateAt, LinkAt, Conts, Ops

LEMMA IdleFrame ==
  /\ Idle \in Frame /\ Idle.ip = None /\ Idle.dp = None /\ Idle.puts = <<>> /\ Idle.k = "none"
  /\ Idle.path = <<>> /\ Idle.op = "none"
<1>1. Idle \in Frame
  BY IdleShape DEF Shape
<1> QED BY <1>1 DEF Idle

\* An inode whose lock p has.
LEMMA Held ==
  ASSUME FInv, NEW p \in Proc, NEW i \in Inum, Locks(pc[p], fr[p], i), pc[p] # "freed"
  PROVE  /\ busy[i] = p /\ valid[i] /\ mem[i] = dsk[i] /\ dsk[i].type # "none"
         /\ \A q \in Proc \ {p} : ~Locks(pc[q], fr[q], i)
<1>1. busy[i] = p /\ p # NULL
  BY FileSysAssumption DEF FInv, Locked
<1> USE <1>1
<1>2. valid[i]
  BY DEF FInv, Locked
<1>3. \A q \in Proc \ {p} : ~Locks(pc[q], fr[q], i)
  BY DEF FInv, Locked
<1>4. ~Freed(i)
  BY <1>3 DEF Freed, Locks, Frees, Freeing
<1> QED BY <1>2, <1>3, <1>4 DEF FInv, Coherent, Agrees

\* An inode that p can lock: what it reads is what the disk has.
LEMMA Lockable ==
  ASSUME FInv, NEW i \in Inum, CanLock(i)
  PROVE  /\ busy[i] = NULL /\ Copy(i) = dsk[i] /\ dsk[i].type # "none"
         /\ \A q \in Proc : ~Locks(pc[q], fr[q], i) /\ ~Frees(pc[q], fr[q], i)
<1>1. busy[i] = NULL
  BY DEF CanLock
<1>2. \A q \in Proc : ~Locks(pc[q], fr[q], i)
  BY <1>1, FileSysAssumption DEF FInv, Locked
<1>3. \A q \in Proc : ~Frees(pc[q], fr[q], i)
  BY <1>2 DEF Locks
<1>4. ~Freed(i)
  BY <1>3 DEF Freed, Frees, Freeing
<1>5. valid[i] => mem[i] = dsk[i] /\ dsk[i].type # "none"
  BY <1>4 DEF FInv, Coherent, Agrees
<1> QED BY <1>1, <1>2, <1>3, <1>5 DEF CanLock, NoType, Copy

\* The cache stays coherent where a valid inode is as it was, or as the disk.
LEMMA CohStep ==
  ASSUME FInv, NEW p \in Proc, Alone(p), pc[p] # "freed",
         \A i \in Inum : valid'[i] =>
           \/ mem'[i] = dsk'[i] /\ dsk'[i].type # "none"
           \/ valid[i] /\ mem'[i] = mem[i] /\ dsk'[i] = dsk[i]
           \/ Freed(i)
  PROVE  Coherent'
<1>1. \A i \in Inum : Freed(i) => Freed(i)'
  BY DEF Freed, Alone
<1> QED BY <1>1 DEF Coherent, Agrees, FInv

\* The pointers of a call that is not in iput, and of one that puts i last.
LEMMA OwnQuiet ==
  ASSUME NEW l, NEW f, NEW c, NEW o, NEW i, f.puts = <<>>, f.k = "none", l # "chdirEnd"
  PROVE  Own(l, f, c, o, i) = One(c = i) + One(o = i) + One(f.ip = i) + One(f.dp = i)
<1>1. Len(f.puts) # 2
  BY SMT, SMTT(30)
<1> QED BY SMT, SMTT(30), <1>1 DEF Own, One

LEMMA OwnLabel ==
  ASSUME NEW l, NEW m, NEW f, NEW c, NEW o, NEW i, l # "chdirEnd", m # "chdirEnd"
  PROVE  Own(l, f, c, o, i) = Own(m, f, c, o, i)
BY SMT, SMTT(30) DEF Own

LEMMA OwnPutting ==
  ASSUME NEW l, NEW f, NEW c, NEW o, NEW i, NEW j, f.puts = <<j>>, l # "chdirEnd"
  PROVE  Own(l, f, c, o, i) = One(c = i /\ f.k # "chdirEnd") + One(o = i) + One(f.ip = i)
                              + One(f.dp = i) + One(j = i)
<1>1. Len(f.puts) = 1
  BY SMT, SMTT(30)
<1>2. f.puts # <<>>
  BY SMT, SMTT(30), <1>1
<1>3. Head(f.puts) = j
  BY SMT, SMTT(30)
<1> QED BY SMT, SMTT(30), <1>1, <1>2, <1>3 DEF Own, One

\* A step that leaves the disk alone, and of the cache loads at most the inode
\* j, which it can lock, and drops what nobody refers to.
LEMMA CacheStep ==
  ASSUME FInv, NEW p \in Proc, Types', Alone(p), Balanced(p), LockStep(p),
         Apart(pc'[p], fr'[p]), TransStep(p), CheckedAt(p)',
         pc[p] \notin Freeing, FreeStep(p), dsk' = dsk, ents' = ents, NEW j \in Inum,
         \A i \in Inum : valid'[i] =>
           \/ valid[i] /\ mem'[i] = mem[i]
           \/ i = j /\ CanLock(j) /\ mem'[j] = Copy(j)
  PROVE  Kept(p)
<1>1. CanLock(j) => Copy(j) = dsk[j] /\ dsk[j].type # "none"
  BY Lockable
<1>2. Coherent'
  BY <1>1, CohStep DEF Freeing
<1>3. TypeStep(p) /\ NoSelf'
  BY DEF TypeStep, NoSelf, FInv
<1> QED BY <1>2, <1>3, Combine

\* The same of a step that frees nothing, or does not touch the locks.
LEMMA NoFree ==
  ASSUME NEW p \in Proc, pc'[p] \notin Freeing
  PROVE  FreeStep(p)
BY DEF FreeStep, Frees

LEMMA KeepsLocks ==
  ASSUME FInv, NEW p \in Proc, busy' = busy,
         \A i \in Inum : Locks(pc'[p], fr'[p], i) <=> Locks(pc[p], fr[p], i),
         \A i \in Inum : valid[i] => valid'[i] \/ ref[i] = 0
  PROVE  LockStep(p)
<1> SUFFICES ASSUME NEW i \in Inum, Locks(pc[p], fr[p], i) PROVE busy[i] = p /\ valid'[i]
  BY DEF LockStep
<1>1. busy[i] = p /\ valid[i]
  BY FileSysAssumption DEF FInv, Locked
<1>2. OwnOf(p, i) >= 1
  BY Points DEF FInv
<1>3. ref[i] # 0
  BY SMT, SMTT(30), <1>2, OwnNat DEF FInv, Lower
<1> QED BY <1>1, <1>3

-----------------------------------------------------------------------------
(***************************************************************************)
(* One lemma per action: calls that move pointers and begin or end a       *)
(* transaction.                                                            *)
(***************************************************************************)
\* The pointers of p outside iput.
Slots(p, i) == One(cwd[p] = i) + One(file[p] = i) + One(fr[p].ip = i) + One(fr[p].dp = i)

LEMMA QuietBalanced ==
  ASSUME FInv, NEW p \in Proc, Types', pc[p] # "chdirEnd", pc'[p] # "chdirEnd",
         fr[p].puts = <<>>, fr'[p].puts = <<>>, fr[p].k = "none", fr'[p].k = "none",
         \A i \in Inum : ref'[i] - ref[i] = Slots(p, i)' - Slots(p, i)
  PROVE  Balanced(p)
<1> SUFFICES ASSUME NEW i \in Inum PROVE ref'[i] = ref[i] + OwnOf(p, i)' - OwnOf(p, i)
  BY DEF Balanced
<1>1. OwnOf(p, i) = Slots(p, i)
  BY SMT, SMTT(30), OwnQuiet DEF OwnOf, Slots
<1>2. OwnOf(p, i)' = Own(pc'[p], fr'[p], cwd'[p], file'[p], i)
  BY DEF OwnOf
<1>3. OwnOf(p, i)' = Slots(p, i)'
  BY SMT, SMTT(30), <1>2, OwnQuiet DEF Slots
<1>4. ref[i] \in Int /\ ref'[i] \in Int
  BY DEF FInv, Types
<1>5. Slots(p, i) \in Int /\ Slots(p, i)' \in Int
  BY SMT, SMTT(30) DEF Slots, One
<1> QED BY SMT, SMTT(30), <1>1, <1>3, <1>4, <1>5

LEMMA SlotsMoved ==
  ASSUME NEW p \in Proc, cwd' = cwd, file' = file, NEW i \in Inum
  PROVE  /\ Slots(p, i) \in Int /\ Slots(p, i)' \in Int
         /\ Slots(p, i)' - Slots(p, i)
            = One(fr'[p].ip = i) + One(fr'[p].dp = i) - One(fr[p].ip = i) - One(fr[p].dp = i)
<1>1. Slots(p, i)' = One(cwd[p] = i) + One(file[p] = i) + One(fr'[p].ip = i) + One(fr'[p].dp = i)
  BY DEF Slots
<1> QED BY SMT, SMTT(30), <1>1 DEF Slots, One

LEMMA PutBalanced ==
  ASSUME FInv, NEW p \in Proc, Types', pc[p] # "chdirEnd", pc'[p] # "chdirEnd",
         fr[p].puts = <<>>, fr[p].k = "none", NEW j \in Inum, fr'[p].puts = <<j>>,
         fr'[p].k # "chdirEnd",
         \A i \in Inum : ref'[i] - ref[i] = Slots(p, i)' + One(j = i) - Slots(p, i)
  PROVE  Balanced(p)
<1> SUFFICES ASSUME NEW i \in Inum PROVE ref'[i] = ref[i] + OwnOf(p, i)' - OwnOf(p, i)
  BY DEF Balanced
<1>1. OwnOf(p, i) = Slots(p, i)
  BY SMT, SMTT(30), OwnQuiet DEF OwnOf, Slots
<1>2. OwnOf(p, i)' = Own(pc'[p], fr'[p], cwd'[p], file'[p], i)
  BY DEF OwnOf
<1>3. OwnOf(p, i)' = One(cwd'[p] = i /\ fr'[p].k # "chdirEnd") + One(file'[p] = i)
                     + One(fr'[p].ip = i) + One(fr'[p].dp = i) + One(j = i)
  BY SMT, SMTT(30), <1>2, OwnPutting
<1>4. OwnOf(p, i)' = Slots(p, i)' + One(j = i)
  BY <1>3 DEF Slots, One
<1>5. ref[i] \in Int /\ ref'[i] \in Int
  BY DEF FInv, Types
<1>6. Slots(p, i) \in Int /\ Slots(p, i)' \in Int /\ One(j = i) \in Int
  BY SMT, SMTT(30) DEF Slots, One
<1> QED BY SMT, SMTT(30), <1>1, <1>4, <1>5, <1>6

LEMMA RefInt == FInv => \A i \in Inum : i # None /\ ref[i] \in Int
<1>1. \A i \in Inum : i # None
  BY SMT, SMTT(30) DEF None, Inum
<1> QED BY <1>1 DEF FInv, Types

\* A reference to r is taken, and ip or dp points to it; None is no inode.
LEMMA GetBalanced ==
  ASSUME FInv, NEW p \in Proc, Types', pc[p] # "chdirEnd", pc'[p] # "chdirEnd",
         fr[p].puts = <<>>, fr'[p].puts = <<>>, fr[p].k = "none", fr'[p].k = "none",
         cwd' = cwd, file' = file, NEW r, \A i \in Inum : ref'[i] = ref[i] + One(i = r),
         \/ fr'[p].ip = fr[p].ip /\ fr'[p].dp = r /\ fr[p].dp = None
         \/ fr'[p].ip = r /\ fr[p].ip = None /\ fr'[p].dp = fr[p].dp
         \/ fr'[p].ip = r /\ fr'[p].dp = fr[p].ip /\ fr[p].dp = None
         \/ r = None /\ fr'[p].ip = fr[p].ip /\ fr'[p].dp = fr[p].dp
  PROVE  Balanced(p)
<1>1. ASSUME NEW i \in Inum
      PROVE  ref'[i] - ref[i] = Slots(p, i)' - Slots(p, i)
  <2>1. i # None /\ ref[i] \in Int /\ ref'[i] = ref[i] + One(i = r)
    BY RefInt
  <2>2. /\ Slots(p, i) \in Int /\ Slots(p, i)' \in Int
        /\ Slots(p, i)' - Slots(p, i)
           = One(fr'[p].ip = i) + One(fr'[p].dp = i) - One(fr[p].ip = i) - One(fr[p].dp = i)
    BY SlotsMoved
  <2> QED BY SMT, SMTT(30), <2>1, <2>2 DEF One
<1> QED BY <1>1, QuietBalanced

\* The same, and the pointer that was there is put.
LEMMA SwapBalanced ==
  ASSUME FInv, NEW p \in Proc, Types', pc[p] # "chdirEnd", pc'[p] # "chdirEnd",
         fr[p].puts = <<>>, fr[p].k = "none", fr'[p].k # "chdirEnd",
         cwd' = cwd, file' = file, NEW r, \A i \in Inum : ref'[i] = ref[i] + One(i = r),
         \/ /\ fr[p].ip \in Inum /\ fr'[p].puts = <<fr[p].ip>>
            /\ fr'[p].ip = r /\ fr'[p].dp = fr[p].dp
         \/ /\ fr[p].dp \in Inum /\ fr'[p].puts = <<fr[p].dp>>
            /\ fr'[p].dp = r /\ fr'[p].ip = fr[p].ip
  PROVE  Balanced(p)
<1>1. PICK j \in Inum : /\ fr'[p].puts = <<j>>
                        /\ \/ fr[p].ip = j /\ fr'[p].ip = r /\ fr'[p].dp = fr[p].dp
                           \/ fr[p].dp = j /\ fr'[p].dp = r /\ fr'[p].ip = fr[p].ip
  OBVIOUS
<1>2. ASSUME NEW i \in Inum
      PROVE  ref'[i] - ref[i] = Slots(p, i)' + One(j = i) - Slots(p, i)
  <2>1. i # None /\ ref[i] \in Int /\ ref'[i] = ref[i] + One(i = r)
    BY RefInt
  <2>2. /\ Slots(p, i) \in Int /\ Slots(p, i)' \in Int
        /\ Slots(p, i)' - Slots(p, i)
           = One(fr'[p].ip = i) + One(fr'[p].dp = i) - One(fr[p].ip = i) - One(fr[p].dp = i)
    BY SlotsMoved
  <2>3. CASE fr[p].ip = j /\ fr'[p].ip = r /\ fr'[p].dp = fr[p].dp
    BY SMT, SMTT(30), <2>1, <2>2, <2>3 DEF One
  <2>4. CASE fr[p].dp = j /\ fr'[p].dp = r /\ fr'[p].ip = fr[p].ip
    BY SMT, SMTT(30), <2>1, <2>2, <2>4 DEF One
  <2> QED BY <1>1, <2>3, <2>4
<1> QED BY <1>1, <1>2, PutBalanced

\* A pointer that is dropped is put.
LEMMA PutIpBalanced ==
  ASSUME FInv, NEW p \in Proc, Types', pc[p] # "chdirEnd", pc'[p] # "chdirEnd",
         fr[p].puts = <<>>, fr[p].k = "none", fr[p].ip \in Inum,
         fr'[p].puts = <<fr[p].ip>>, fr'[p].k # "chdirEnd",
         fr'[p].ip = None, fr'[p].dp = fr[p].dp, cwd' = cwd, file' = file, ref' = ref
  PROVE  Balanced(p)
<1>1. \A i \in Inum : ref[i] \in Int
  BY DEF FInv, Types
<1>2. \A i \in Inum : i # None
  BY SMT, SMTT(30) DEF None, Inum
<1>3. \A i \in Inum : ref'[i] - ref[i] = Slots(p, i)' + One(fr[p].ip = i) - Slots(p, i)
  BY SMT, SMTT(30), <1>1, <1>2 DEF Slots, One
<1> QED BY <1>3, PutBalanced

LEMMA PutDpBalanced ==
  ASSUME FInv, NEW p \in Proc, Types', pc[p] # "chdirEnd", pc'[p] # "chdirEnd",
         fr[p].puts = <<>>, fr[p].k = "none", fr[p].dp \in Inum,
         fr'[p].puts = <<fr[p].dp>>, fr'[p].k # "chdirEnd",
         fr'[p].ip = fr[p].ip, fr'[p].dp = None, cwd' = cwd, file' = file, ref' = ref
  PROVE  Balanced(p)
<1>1. \A i \in Inum : ref[i] \in Int
  BY DEF FInv, Types
<1>2. \A i \in Inum : i # None
  BY SMT, SMTT(30) DEF None, Inum
<1>3. \A i \in Inum : ref'[i] - ref[i] = Slots(p, i)' + One(fr[p].dp = i) - Slots(p, i)
  BY SMT, SMTT(30), <1>1, <1>2 DEF Slots, One
<1> QED BY <1>3, PutBalanced

\* The locals of a call that puts i and then goes on at k.
PutIn(f, i, k) == [f EXCEPT !.puts = <<i>>, !.k = k]

LEMMA PutFrame ==
  ASSUME NEW f \in Frame, NEW i \in Inum, NEW k \in Conts
  PROVE  /\ PutIn(f, i, k) \in Frame
         /\ PutIn(f, i, k).op = f.op /\ PutIn(f, i, k).path = f.path
         /\ PutIn(f, i, k).ip = f.ip /\ PutIn(f, i, k).dp = f.dp
         /\ PutIn(f, i, k).puts = <<i>> /\ PutIn(f, i, k).k = k
         /\ PutIn(f, i, k).puts # <<>> /\ Len(PutIn(f, i, k).puts) = 1
         /\ Head(PutIn(f, i, k).puts) = i
<1> DEFINE s == <<i>>
           g == [f EXCEPT !.puts = s, !.k = k]
<1>1. s \in Seq(Inum) /\ s # <<>> /\ Len(s) = 1 /\ Head(s) = i
  BY SMT, SMTT(30)
<1>2. g = PutIn(f, i, k)
  BY DEF PutIn
<1> HIDE DEF s
<1>3. /\ g \in Frame /\ g.op = f.op /\ g.path = f.path /\ g.ip = f.ip /\ g.dp = f.dp
      /\ g.puts = s /\ g.k = k
  BY <1>1 DEF Frame
<1> HIDE DEF g
<1>4. g.puts # <<>> /\ Len(g.puts) = 1 /\ Head(g.puts) = i
  BY <1>1, <1>3
<1> QED BY <1>2, <1>3, <1>4 DEF s

LEMMA UnlinkTransStep ==
  ASSUME FInv, NEW p \in Proc, unlinkTrans(p)
  PROVE  Kept(p)
<1> DEFINE f == fr[p]
           g == [f EXCEPT !.dp = f.ip, !.ip = None]
<1> USE DEF Aim, Putting, Freeing, Bare, OnlyIp, OnlyDp, Both, Named, Creates, CreateAt, LinkAt
<1>1. pc[p] = "unlinkTrans" /\ f \in Frame /\ Shape("unlinkTrans", f)
  BY DEF unlinkTrans, At, FInv, Types
<1> USE <1>1
<1>2. /\ f.ip \in Inum /\ f.dp = None /\ f.puts = <<>> /\ f.k = "none"
      /\ f.path # <<>> /\ Head(f.path) \in Elem
  BY DEF Shape, HasIp, HasDp
<1> USE <1>2
<1>3. /\ g.ip = None /\ g.dp = f.ip /\ g.puts = <<>> /\ g.k = "none" /\ g.path = f.path
      /\ g.op = f.op /\ g \in Frame
  BY DEF Frame
<1>4. /\ trans = NULL /\ trans' = p /\ Goto(p, "unlinkDir", g)
      /\ UNCHANGED <<dsk, ents, mem, ref, valid, busy, cwd, file>>
  BY DEF unlinkTrans, begin_trans, disk, icache, procs
<1> HIDE DEF f, g
<1>5. Shape("unlinkDir", g)
  BY <1>3 DEF Shape, HasIp, HasDp, Labels
<1> USE <1>4
<1>6. Moved(p, "unlinkDir", g)
  BY <1>5, GotoMoves DEF FInv
<1> USE <1>6
<1>7. Types' /\ Alone(p)
  BY DEF FInv, Types, Moved, Alone
<1>8. Balanced(p)
  <2>1. \A i \in Inum : ref'[i] - ref[i] = Slots(p, i)' - Slots(p, i)
    BY SMT, SMTT(30), <1>3 DEF Slots, One, FInv, Types, Moved, f
  <2> QED BY <2>1, <1>3, <1>7, QuietBalanced DEF f, Moved
<1>9. LockStep(p)
  BY KeepsLocks DEF Moved, Locks, LocksIp, LocksDp, Frees, f
<1>10. TransStep(p) /\ CheckedAt(p)' /\ Apart(pc'[p], fr'[p])
  BY DEF TransStep, Inside, CheckedAt, Apart, Moved, f
<1>11. FreeStep(p)
  BY NoFree DEF Moved
<1> QED BY <1>7, <1>8, <1>9, <1>10, <1>11, CacheStep

LEMMA LinkTransStep ==
  ASSUME FInv, NEW p \in Proc, linkTrans(p)
  PROVE  Kept(p)
<1> DEFINE f == fr[p]
<1> USE DEF Aim, Putting, Freeing, Bare, OnlyIp, OnlyDp, Both, Named, Creates, CreateAt, LinkAt
<1>1. pc[p] = "linkTrans" /\ f \in Frame /\ Shape("linkTrans", f)
  BY DEF linkTrans, At, FInv, Types
<1> USE <1>1
<1>2. f.ip \in Inum /\ f.dp = None /\ f.puts = <<>> /\ f.k = "none"
  BY DEF Shape, HasIp, HasDp
<1>4. /\ trans = NULL /\ trans' = p /\ Goto(p, "linkInode", f)
      /\ UNCHANGED <<dsk, ents, mem, ref, valid, busy, cwd, file>>
  BY DEF linkTrans, begin_trans, disk, icache, procs
<1> HIDE DEF f
<1>5. Shape("linkInode", f)
  BY <1>2 DEF Shape, HasIp, HasDp, Labels
<1> USE <1>4
<1>6. Moved(p, "linkInode", f)
  BY <1>5, GotoMoves DEF FInv
<1> USE <1>6
<1>7. Types' /\ Alone(p)
  BY DEF FInv, Types, Moved, Alone
<1>8. Balanced(p)
  <2>1. \A i \in Inum : ref'[i] - ref[i] = Slots(p, i)' - Slots(p, i)
    BY SMT, SMTT(30) DEF Slots, One, FInv, Types, Moved, f
  <2> QED BY <2>1, <1>2, <1>7, QuietBalanced DEF f, Moved
<1>9. LockStep(p)
  BY KeepsLocks DEF Moved, Locks, LocksIp, LocksDp, Frees, f
<1>10. TransStep(p) /\ CheckedAt(p)' /\ Apart(pc'[p], fr'[p])
  BY DEF TransStep, Inside, CheckedAt, Apart, Moved, f
<1>11. FreeStep(p)
  BY NoFree DEF Moved
<1> QED BY <1>2, <1>7, <1>8, <1>9, <1>10, <1>11, CacheStep

LEMMA FilecloseStep ==
  ASSUME FInv, NEW p \in Proc, fileclose(p)
  PROVE  Kept(p)
<1> DEFINE f == fr[p]
           g == [f EXCEPT !.ip = None, !.puts = <<f.ip>>, !.k = "commit"]
<1> USE DEF Aim, Putting, Freeing, Bare, OnlyIp, OnlyDp, Both, Named, Creates, CreateAt, LinkAt
<1>1. pc[p] = "closeTrans" /\ f \in Frame /\ Shape("closeTrans", f)
  BY DEF fileclose, At, FInv, Types
<1> USE <1>1
<1>2. f.ip \in Inum /\ f.dp = None /\ f.puts = <<>> /\ f.k = "none"
  BY DEF Shape, HasIp, HasDp
<1>3. /\ g.ip = None /\ g.dp = None /\ g.puts = <<f.ip>> /\ g.k = "commit" /\ g.op = f.op
      /\ g \in Frame /\ Len(g.puts) = 1 /\ g.puts # <<>>
  <2> DEFINE h == [f EXCEPT !.ip = None]
  <2>1. h \in Frame /\ h.ip = None /\ h.dp = f.dp /\ h.op = f.op
    BY DEF Frame
  <2>2. g = PutIn(h, f.ip, "commit") /\ "commit" \in Conts
    BY DEF Frame, Conts, PutIn
  <2> HIDE DEF f, g, h
  <2> QED BY <2>1, <2>2, <1>2, PutFrame
<1>4. /\ trans = NULL /\ trans' = p /\ Goto(p, "put", g)
      /\ UNCHANGED <<dsk, ents, mem, ref, valid, busy, cwd, file>>
  BY DEF fileclose, begin_trans, disk, icache, procs
<1> HIDE DEF f, g
<1> USE <1>3
<1>5. Shape("put", g)
  BY <1>2 DEF Shape, HasIp, HasDp, Labels, Conts
<1> USE <1>4
<1>6. Moved(p, "put", g)
  BY <1>5, GotoMoves DEF FInv
<1> USE <1>6
<1>7. Types' /\ Alone(p)
  BY DEF FInv, Types, Moved, Alone
<1>8. Balanced(p)
  BY <1>2, <1>7, PutIpBalanced DEF f, Moved
<1>9. LockStep(p)
  BY KeepsLocks DEF Moved, Locks, LocksIp, LocksDp, Frees, f
<1>10. TransStep(p) /\ CheckedAt(p)' /\ Apart(pc'[p], fr'[p])
  BY DEF TransStep, Inside, CheckedAt, Apart, Moved, f
<1>11. FreeStep(p)
  BY NoFree DEF Moved
<1> QED BY <1>2, <1>7, <1>8, <1>9, <1>10, <1>11, CacheStep

LEMMA CommitStep ==
  ASSUME FInv, NEW p \in Proc, commit_trans(p)
  PROVE  Kept(p)
<1> DEFINE f == fr[p]
<1> USE DEF Aim, Putting, Freeing, Bare, OnlyIp, OnlyDp, Both, Named, Creates, CreateAt, LinkAt
<1>1. pc[p] = "commit" /\ f \in Frame /\ Shape("commit", f)
  BY DEF commit_trans, At, FInv, Types
<1> USE <1>1
<1>2. f.ip = None /\ f.dp = None /\ f.puts = <<>> /\ f.k = "none"
  BY DEF Shape, HasIp, HasDp
<1>3. trans' = NULL /\ Goto(p, "user", Idle) /\ UNCHANGED <<dsk, ents, mem, ref, valid, busy, cwd, file>>
  BY DEF commit_trans, disk, icache, procs
<1> HIDE DEF f
<1> USE <1>3
<1>4. Moved(p, "user", Idle)
  BY IdleShape, GotoMoves DEF FInv
<1>5. /\ Idle.ip = None /\ Idle.dp = None /\ Idle.puts = <<>> /\ Idle.k = "none"
  BY IdleFrame
<1> USE <1>4
<1>6. Types' /\ Alone(p)
  BY DEF FInv, Types, Moved, Alone
<1>7. Balanced(p)
  <2>1. \A i \in Inum : ref'[i] - ref[i] = Slots(p, i)' - Slots(p, i)
    BY SMT, SMTT(30), <1>2, <1>5 DEF Slots, One, FInv, Types, Moved, f
  <2> QED BY <2>1, <1>2, <1>5, <1>6, QuietBalanced DEF f, Moved
<1>8. LockStep(p)
  BY KeepsLocks DEF Moved, Locks, LocksIp, LocksDp, Frees, f
<1>9. TransStep(p) /\ CheckedAt(p)' /\ Apart(pc'[p], fr'[p])
  BY DEF TransStep, Inside, CheckedAt, Apart, Moved, f
<1>10. FreeStep(p)
  BY NoFree DEF Moved
<1>11. ROOTINO \in Inum
  BY SMT, SMTT(30), FileSysAssumption DEF ROOTINO, Inum
<1> QED BY <1>6, <1>7, <1>8, <1>9, <1>10, <1>11, CacheStep

LEMMA ChdirEndStep ==
  ASSUME FInv, NEW p \in Proc, chdirEnd(p)
  PROVE  Kept(p)
<1> DEFINE f == fr[p]
<1> USE DEF Aim, Putting, Freeing, Bare, OnlyIp, OnlyDp, Both, Named, Creates, CreateAt, LinkAt
<1>1. pc[p] = "chdirEnd" /\ f \in Frame /\ Shape("chdirEnd", f)
  BY DEF chdirEnd, At, FInv, Types
<1>2. f.ip \in Inum /\ f.dp = None /\ f.puts = <<>> /\ f.k = "none"
  BY <1>1 DEF Shape, HasIp, HasDp
<1>3. /\ cwd' = [cwd EXCEPT ![p] = f.ip] /\ Goto(p, "user", Idle)
      /\ UNCHANGED <<dsk, ents, mem, ref, valid, busy, trans, file>>
  BY DEF chdirEnd, disk, icache
<1> HIDE DEF f
<1> USE <1>3
<1>4. Moved(p, "user", Idle)
  BY IdleShape, GotoMoves DEF FInv
<1>5. /\ Idle.ip = None /\ Idle.dp = None /\ Idle.puts = <<>> /\ Idle.k = "none"
  BY IdleFrame
<1> USE <1>2, <1>4
<1>6. Types' /\ Alone(p)
  BY DEF FInv, Types, Moved, Alone
<1>7. Balanced(p)
  <2> SUFFICES ASSUME NEW i \in Inum PROVE ref'[i] = ref[i] + OwnOf(p, i)' - OwnOf(p, i)
    BY DEF Balanced
  <2>1. OwnOf(p, i)' = Own("user", Idle, f.ip, file[p], i)
    BY DEF OwnOf, Moved, FInv, Types
  <2>2. OwnOf(p, i)' = One(f.ip = i) + One(file[p] = i) + One(Idle.ip = i) + One(Idle.dp = i)
    BY SMT, SMTT(30), <2>1, <1>5, OwnQuiet
  <2>3. Len(f.puts) # 2
    BY SMT, SMTT(30)
  <2>4. OwnOf(p, i) = One(FALSE) + One(file[p] = i) + One(f.ip = i) + One(f.dp = i)
    BY SMT, SMTT(30), <1>1, <2>3 DEF OwnOf, Own, One, f
  <2>5. ref[i] \in Int
    BY DEF FInv, Types
  <2> QED BY SMT, SMTT(30), <2>2, <2>4, <2>5, <1>5 DEF One, None, Inum
<1>8. LockStep(p)
  BY <1>1, KeepsLocks DEF Moved, Locks, LocksIp, LocksDp, Frees, f
<1>9. TransStep(p) /\ CheckedAt(p)' /\ Apart(pc'[p], fr'[p])
  BY <1>1 DEF TransStep, Inside, CheckedAt, Apart, Moved, f
<1>10. FreeStep(p)
  BY NoFree DEF Moved
<1> QED BY <1>1, <1>6, <1>7, <1>8, <1>9, <1>10, CacheStep

LEMMA CloseStep ==
  ASSUME FInv, NEW p \in Proc, sys_close(p)
  PROVE  Kept(p)
<1> DEFINE g == [Idle EXCEPT !.op = "close", !.ip = file[p]]
<1> USE DEF Aim, Putting, Freeing, Bare, OnlyIp, OnlyDp, Both, Named, Creates, CreateAt, LinkAt
<1>1. pc[p] = "user" /\ fr[p] = Idle
  BY DEF sys_close, Call, At, FInv, Types, Shape
<1>2. file[p] \in Inum
  BY DEF sys_close, FInv, Types
<1>3. /\ g.ip = file[p] /\ g.dp = None /\ g.puts = <<>> /\ g.k = "none" /\ g.op = "close"
      /\ g \in Frame
  BY <1>2, IdleFrame DEF Frame
<1>4. /\ file' = [file EXCEPT ![p] = None] /\ Goto(p, "closeTrans", g)
      /\ UNCHANGED <<dsk, ents, mem, ref, valid, busy, trans, cwd>>
  BY DEF sys_close, disk, icache
<1> HIDE DEF g
<1>5. Shape("closeTrans", g)
  BY <1>2, <1>3 DEF Shape, HasIp, HasDp, Labels
<1>6. Moved(p, "closeTrans", g)
  BY <1>4, <1>5, GotoMoves DEF FInv
<1>7. Types' /\ Alone(p)
  BY <1>4, <1>6 DEF FInv, Types, Moved, Alone
<1>8. /\ Idle.ip = None /\ Idle.dp = None /\ Idle.puts = <<>> /\ Idle.k = "none"
  BY IdleFrame
<1>9. Balanced(p)
  <2>1. \A i \in Inum : ref'[i] - ref[i] = Slots(p, i)' - Slots(p, i)
    BY SMT, SMTT(30), <1>1, <1>2, <1>3, <1>4, <1>6, <1>8 DEF Slots, One, FInv, Types, Moved, None, Inum
  <2> QED BY <2>1, <1>1, <1>3, <1>6, <1>7, <1>8, QuietBalanced DEF Moved
<1>10. LockStep(p)
  BY <1>1, <1>4, <1>6, KeepsLocks DEF Moved, Locks, LocksIp, LocksDp, Frees
<1>11. TransStep(p) /\ CheckedAt(p)' /\ Apart(pc'[p], fr'[p])
  BY <1>1, <1>4, <1>6 DEF TransStep, Inside, CheckedAt, Apart, Moved
<1>12. FreeStep(p)
  BY <1>6, NoFree DEF Moved
<1> QED BY <1>1, <1>2, <1>4, <1>7, <1>9, <1>10, <1>11, <1>12, CacheStep

LEMMA CreatedStep ==
  ASSUME FInv, NEW p \in Proc, created(p)
  PROVE  Kept(p)
<1> DEFINE f == fr[p]
           h == [f EXCEPT !.ip = None]
           g == PutIn(h, f.ip, "commit")
<1> USE DEF Aim, Putting, Freeing, Bare, OnlyIp, OnlyDp, Both, Named, Creates, CreateAt, LinkAt
<1>1. pc[p] = "created" /\ f \in Frame /\ Shape("created", f)
  BY DEF created, At, FInv, Types
<1> USE <1>1
<1>2. f.ip \in Inum /\ f.dp = None /\ f.puts = <<>> /\ f.k = "none" /\ f.op \in Creates
  BY DEF Shape, HasIp, HasDp
<1>3. UNCHANGED <<dsk, ents, mem, ref, valid, cwd, file>>
  BY DEF created, disk, procs
<1> USE <1>2
<1>4. CASE f.op = "create"
  <2>1. trans' = NULL /\ busy' = busy /\ Goto(p, "openFile", f)
    BY <1>4 DEF created
  <2> HIDE DEF f
  <2>2. Shape("openFile", f)
    BY DEF Shape, HasIp, HasDp, Labels
  <2> USE <2>1
  <2>3. Moved(p, "openFile", f)
    BY <2>2, GotoMoves DEF FInv
  <2> USE <2>3
  <2>4. Types' /\ Alone(p)
    BY <1>3 DEF FInv, Types, Moved, Alone
  <2>5. Balanced(p)
    <3>1. \A i \in Inum : ref'[i] - ref[i] = Slots(p, i)' - Slots(p, i)
      BY SMT, SMTT(30), <1>3 DEF Slots, One, FInv, Types, Moved, f
    <3> QED BY <3>1, <2>4, QuietBalanced DEF f, Moved
  <2>6. LockStep(p)
    BY <1>3, <1>4, KeepsLocks DEF Moved, Locks, LocksIp, LocksDp, Frees, f
  <2>7. TransStep(p) /\ CheckedAt(p)' /\ Apart(pc'[p], fr'[p])
    BY DEF TransStep, Inside, CheckedAt, Apart, Moved, f
  <2>8. FreeStep(p)
    BY NoFree DEF Moved
  <2> QED BY <1>3, <2>4, <2>5, <2>6, <2>7, <2>8, CacheStep
<1>5. CASE f.op # "create"
  <2>1. trans' = trans /\ busy' = [busy EXCEPT ![f.ip] = NULL] /\ Goto(p, "put", g)
    BY <1>5 DEF created, iunlockput, iunlock, PutThen, PutIn
  <2>2. h \in Frame /\ h.ip = None /\ h.dp = None /\ h.op = f.op
    BY DEF Frame
  <2>3. /\ g \in Frame /\ g.ip = None /\ g.dp = None /\ g.op = f.op /\ g.puts = <<f.ip>>
        /\ g.k = "commit" /\ g.puts # <<>> /\ Len(g.puts) = 1 /\ Head(g.puts) = f.ip
    <3>1. "commit" \in Conts
      BY DEF Conts
    <3> HIDE DEF h, f
    <3> QED BY SMT, SMTT(30), <2>2, <3>1, PutFrame
  <2> HIDE DEF f, h, g
  <2> USE <2>3
  <2>4. Shape("put", g)
    BY DEF Shape, HasIp, HasDp, Labels, Conts
  <2> USE <2>1
  <2>5. Moved(p, "put", g)
    BY <2>4, GotoMoves DEF FInv
  <2> USE <2>5
  <2>6. Types' /\ Alone(p)
    BY <1>3 DEF FInv, Types, Moved, Alone
  <2>7. Balanced(p)
    BY <1>3, <2>6, PutIpBalanced DEF f, Moved
  <2>8. LockStep(p)
    BY <1>3 DEF LockStep, Moved, Locks, LocksIp, LocksDp, Frees, f, FInv, Types
  <2>9. TransStep(p) /\ CheckedAt(p)' /\ Apart(pc'[p], fr'[p])
    BY DEF TransStep, Inside, CheckedAt, Apart, Moved, f, FInv, InTrans
  <2>10. FreeStep(p)
    BY NoFree DEF Moved
  <2> QED BY <1>3, <2>6, <2>7, <2>8, <2>9, <2>10, CacheStep
<1> QED BY <1>4, <1>5

-----------------------------------------------------------------------------
(***************************************************************************)
(* iput.                                                                   *)
(***************************************************************************)
LEMMA EmptyLen ==
  ASSUME NEW s \in Seq(Inum)
  PROVE  s = <<>> <=> Len(s) = 0
BY SMT, SMTT(30)

LEMMA TailLen ==
  ASSUME NEW s \in Seq(Inum), s # <<>>
  PROVE  Tail(s) \in Seq(Inum) /\ Len(Tail(s)) = Len(s) - 1 /\ Head(s) \in Inum
BY SMT, SMTT(30)

LEMMA Rest ==
  ASSUME NEW s \in Seq(Inum), NEW n \in {1, 2}, Len(s) = n
  PROVE  /\ Head(s) \in Inum
         /\ n = 1 => Tail(s) = <<>>
         /\ n = 2 => /\ Tail(s) \in Seq(Inum) /\ Tail(s) # <<>> /\ Len(Tail(s)) = 1
                     /\ Head(Tail(s)) = s[2]
<1> DEFINE t == Tail(s)
<1>1. Len(s) # 0
  BY SMT, SMTT(30)
<1>2. s # <<>>
  BY <1>1, EmptyLen
<1>3. t \in Seq(Inum) /\ Len(t) = n - 1 /\ Head(s) \in Inum
  BY <1>2, TailLen
<1>4. ASSUME n = 2 PROVE Head(t) = s[2]
  BY SMT, SMTT(30), <1>2, <1>4
<1> HIDE DEF t
<1> USE <1>3
<1>5. ASSUME n = 1 PROVE t = <<>>
  <2>1. Len(t) = 0
    BY SMT, SMTT(30), <1>5
  <2> QED BY <2>1, EmptyLen
<1>6. ASSUME n = 2 PROVE Len(t) = 1 /\ t # <<>>
  <2>1. Len(t) = 1 /\ Len(t) # 0
    BY SMT, SMTT(30), <1>6
  <2> QED BY <2>1, EmptyLen
<1> QED BY <1>4, <1>5, <1>6 DEF t

\* What a process looks like in iput.
LEMMA PutShape ==
  ASSUME FInv, NEW p \in Proc, pc[p] \in Putting
  PROVE  /\ fr[p] \in Frame /\ Shape(pc[p], fr[p]) /\ fr[p].k \in Conts
         /\ Head(fr[p].puts) \in Inum /\ fr[p].puts # <<>>
         /\ OwnOf(p, Head(fr[p].puts)) >= 1
<1>1. Shape(pc[p], fr[p]) /\ fr[p] \in Frame
  BY DEF FInv, Types
<1>2. fr[p].puts # <<>> /\ fr[p].k \in Conts /\ fr[p].puts \in Seq(Inum)
  BY <1>1 DEF Shape, Frame
<1>3. Head(fr[p].puts) \in Inum
  BY <1>2, TailLen
<1> QED BY <1>1, <1>2, <1>3, Points DEF FInv

\* The last put of iput's caller.
LEMMA PutLast ==
  ASSUME FInv, NEW p \in Proc, pc[p] \in {"put", "freed"}, PutNext(p), Len(fr[p].puts) = 1
  PROVE  /\ pc'[p] \in Conts /\ Moved(p, pc'[p], fr'[p])
         /\ pc'[p] = fr[p].k /\ fr'[p].k = "none" /\ fr'[p].puts = <<>>
         /\ fr'[p].ip = fr[p].ip /\ fr'[p].dp = fr[p].dp
         /\ pc'[p] # "user" => fr'[p].op = fr[p].op
<1> DEFINE f == fr[p]
           e == <<>>
           g == [f EXCEPT !.puts = e, !.k = "none"]
<1> USE DEF Aim, Putting, Freeing, Bare, OnlyIp, OnlyDp, Both, Named, Creates, CreateAt, LinkAt
<1>1. f \in Frame /\ Shape(pc[p], f) /\ f.k \in Conts /\ f.puts # <<>> /\ f.puts \in Seq(Inum)
  BY PutShape DEF Frame
<1> USE <1>1
<1>2. Tail(f.puts) = <<>>
  BY Rest
<1>3. Goto(p, f.k, g)
  BY <1>2 DEF PutNext
<1> HIDE DEF f
<1>4. /\ g.puts = <<>> /\ g.k = "none" /\ g.ip = f.ip /\ g.dp = f.dp /\ g.op = f.op
      /\ g.path = f.path /\ g \in Frame
  <2>1. e \in Seq(Inum) /\ e = <<>>
    BY SMT, SMTT(30)
  <2> HIDE DEF e
  <2>2. g.puts = e /\ g.k = "none" /\ g.ip = f.ip /\ g.dp = f.dp /\ g.op = f.op /\ g.path = f.path /\ g \in Frame
    BY <2>1 DEF Frame
  <2> QED BY <2>1, <2>2
<1> HIDE DEF g
<1>5. CASE f.k = "user"
  <2> USE <1>5
  <2>1. f.ip = None /\ f.dp = None
    BY DEF Shape, HasIp, HasDp
  <2>2. Goto(p, "user", Idle)
    BY <1>3 DEF Goto
  <2>3. Moved(p, "user", Idle)
    BY <2>2, IdleShape, GotoMoves DEF FInv
  <2> QED BY <2>1, <2>3, IdleFrame DEF Moved, Conts, f
<1>6. CASE f.k # "user"
  <2>1. Shape(f.k, g)
    BY SMT, SMTT(30), <1>4, <1>6 DEF Shape, HasIp, HasDp, Labels, Conts
  <2>2. Moved(p, f.k, g)
    BY <1>3, <1>6, <2>1, GotoMoves DEF FInv
  <2> QED BY <2>2, <1>4 DEF Moved, f
<1> QED BY <1>5, <1>6

LEMMA PutMore ==
  ASSUME FInv, NEW p \in Proc, pc[p] \in {"put", "freed"}, PutNext(p), Len(fr[p].puts) = 2
  PROVE  /\ Moved(p, "put", fr'[p])
         /\ fr[p].k = "commit" /\ fr'[p].k = "commit" /\ fr'[p].puts = Tail(fr[p].puts)
         /\ fr'[p].ip = None /\ fr'[p].dp = None /\ fr[p].ip = None /\ fr[p].dp = None
         /\ fr'[p].op = fr[p].op
<1> DEFINE f == fr[p]
           s == Tail(f.puts)
           g == [f EXCEPT !.puts = s]
<1> USE DEF Aim, Putting, Freeing, Bare, OnlyIp, OnlyDp, Both, Named, Creates, CreateAt, LinkAt
<1>1. f \in Frame /\ Shape(pc[p], f) /\ f.k \in Conts /\ f.puts # <<>> /\ f.puts \in Seq(Inum)
  BY PutShape DEF Frame
<1> USE <1>1
<1>2. s \in Seq(Inum) /\ s # <<>> /\ Len(s) = 1
  BY Rest
<1> USE <1>2
<1>3. Goto(p, "put", g)
  BY DEF PutNext
<1> HIDE DEF s
<1>4. /\ g.puts = s /\ g.k = f.k /\ g.ip = f.ip /\ g.dp = f.dp /\ g.op = f.op
      /\ g.path = f.path /\ g \in Frame
  BY DEF Frame
<1> HIDE DEF f, g
<1>5. f.k = "commit" /\ f.ip = None /\ f.dp = None
  BY SMT, SMTT(30) DEF Shape, HasIp, HasDp, f
<1>6. Shape("put", g)
  BY <1>4, <1>5 DEF Shape, HasIp, HasDp, Labels, Conts
<1>7. Moved(p, "put", g)
  BY <1>3, <1>6, GotoMoves DEF FInv
<1> QED BY <1>4, <1>5, <1>7 DEF Moved, f, s

\* PutNext with the reference dropped: the call has one pointer less, and
\* its locks, but for the inode it may have freed, are the same.
LEMMA PutNextStep ==
  ASSUME FInv, NEW p \in Proc, pc[p] \in {"put", "freed"}, PutNext(p),
         cwd' = cwd, file' = file, ref' = Dec(ref, Head(fr[p].puts))
  PROVE  /\ Moved(p, pc'[p], fr'[p]) /\ Balanced(p) /\ pc'[p] \in Conts \cup {"put"}
         /\ Aim(pc'[p], fr'[p]) = fr[p].k /\ fr[p].k \in Conts
         /\ fr'[p].ip = fr[p].ip /\ fr'[p].dp = fr[p].dp
         /\ fr[p].k # "user" => fr'[p].op = fr[p].op
<1> DEFINE f == fr[p]
           g == fr'[p]
           i == Head(f.puts)
<1>1. /\ f \in Frame /\ Shape(pc[p], f) /\ f.k \in Conts /\ f.puts # <<>> /\ f.puts \in Seq(Inum)
      /\ i \in Inum
  BY PutShape DEF Frame, Putting, Freeing
<1>2. \A j \in Inum : ref[j] \in Int /\ ref'[j] = ref[j] - One(i = j)
  BY SMT, SMTT(30), <1>1 DEF FInv, Types, Dec, One
<1>3. Len(f.puts) = 1 \/ Len(f.puts) = 2
  BY <1>1 DEF Shape, Putting, Freeing
<1>4. CASE Len(f.puts) = 1
  <2>1. /\ pc'[p] \in Conts /\ Moved(p, pc'[p], g)
        /\ pc'[p] = f.k /\ g.k = "none" /\ g.puts = <<>>
        /\ g.ip = f.ip /\ g.dp = f.dp /\ (pc'[p] # "user" => g.op = f.op)
    BY <1>4, PutLast
  <2>2. Aim(pc'[p], g) = f.k
    BY <2>1, <1>1 DEF Aim, Conts, Putting, Freeing
  <2>3. Balanced(p)
    <3> SUFFICES ASSUME NEW j \in Inum PROVE ref'[j] = ref[j] + OwnOf(p, j)' - OwnOf(p, j)
      BY DEF Balanced
    <3>1. Len(g.puts) # 2 /\ Len(f.puts) # 2
      BY SMT, SMTT(30), <2>1, <1>4
    <3>2. OwnOf(p, j) = One(cwd[p] = j /\ f.k # "chdirEnd") + One(file[p] = j) + One(f.ip = j)
                        + One(f.dp = j) + One(i = j)
      BY SMT, SMTT(30), <1>1, <3>1 DEF OwnOf, Own, One
    <3>3. OwnOf(p, j)' = One(cwd[p] = j /\ f.k # "chdirEnd") + One(file[p] = j) + One(f.ip = j)
                         + One(f.dp = j)
      BY SMT, SMTT(30), <2>1, <3>1 DEF OwnOf, Own, One
    <3> QED BY SMT, SMTT(30), <3>2, <3>3, <1>2 DEF One
  <2> QED BY <1>1, <2>1, <2>2, <2>3
<1>5. CASE Len(f.puts) = 2
  <2>1. /\ Moved(p, "put", g)
        /\ f.k = "commit" /\ g.k = "commit" /\ g.puts = Tail(f.puts)
        /\ g.ip = None /\ g.dp = None /\ f.ip = None /\ f.dp = None /\ g.op = f.op
    BY <1>5, PutMore
  <2>2. pc'[p] = "put" /\ Aim(pc'[p], g) = f.k
    BY <2>1 DEF Aim, Moved, Putting
  <2>3. g.puts # <<>> /\ Len(g.puts) = 1 /\ Head(g.puts) = f.puts[2]
    BY <1>1, <1>5, <2>1, Rest
  <2>4. Balanced(p)
    <3> SUFFICES ASSUME NEW j \in Inum PROVE ref'[j] = ref[j] + OwnOf(p, j)' - OwnOf(p, j)
      BY DEF Balanced
    <3>1. OwnOf(p, j) = One(cwd[p] = j) + One(file[p] = j) + One(f.ip = j)
                        + One(f.dp = j) + One(i = j) + One(f.puts[2] = j)
      BY <1>1, <1>5, <2>1 DEF OwnOf, Own, One
    <3>2. OwnOf(p, j)' = One(cwd[p] = j) + One(file[p] = j) + One(f.ip = j)
                         + One(f.dp = j) + One(f.puts[2] = j)
      <4>1. g.ip = f.ip /\ g.dp = f.dp /\ g.k # "chdirEnd" /\ pc'[p] # "chdirEnd"
        BY <2>1, <2>2
      <4>2. Len(g.puts) # 2 /\ g.puts # <<>> /\ Head(g.puts) = f.puts[2]
        BY SMT, SMTT(30), <2>3
      <4> QED BY SMT, SMTT(30), <4>1, <4>2 DEF OwnOf, Own, One
    <3> QED BY SMT, SMTT(30), <3>1, <3>2, <1>2 DEF One
  <2> QED BY <1>1, <2>1, <2>2, <2>4
<1> QED BY <1>3, <1>4, <1>5

\* A call that goes on after iput holds its other locks, and is where it was
\* with respect to transactions and to what it has checked.
LEMMA PutResumes ==
  ASSUME FInv, NEW p \in Proc, pc[p] \in {"put", "freed"},
         Moved(p, pc'[p], fr'[p]), pc'[p] \in Conts \cup {"put"},
         Aim(pc'[p], fr'[p]) = fr[p].k, fr[p].k \in Conts,
         fr'[p].ip = fr[p].ip, fr'[p].dp = fr[p].dp,
         fr[p].k # "user" => fr'[p].op = fr[p].op, dsk' = dsk, trans' = trans
  PROVE  /\ \A i \in Inum : Locks(pc'[p], fr'[p], i) <=>
              Locks(pc[p], fr[p], i) /\ ~Frees(pc[p], fr[p], i)
         /\ pc'[p] \notin Freeing /\ FreeStep(p) /\ Apart(pc'[p], fr'[p])
         /\ TransStep(p) /\ CheckedAt(p)'
<1>1. Aim(pc[p], fr[p]) = fr[p].k /\ pc'[p] \notin Freeing
  BY DEF Aim, Putting, Freeing, Conts
<1>2. Apart(pc[p], fr[p])
  BY DEF FInv, Locked
<1> USE <1>1
<1>3. /\ LocksIp(pc'[p], fr'[p]) <=> LocksIp(pc[p], fr[p])
      /\ LocksDp(pc'[p], fr'[p]) <=> LocksDp(pc[p], fr[p])
  BY DEF LocksIp, LocksDp, Conts
<1>4. \A i \in Inum : ~Frees(pc'[p], fr'[p], i)
  BY DEF Frees
<1>5. \A i \in Inum : Frees(pc[p], fr[p], i) => i # fr[p].ip /\ i # fr[p].dp
  BY <1>2 DEF Frees, Apart
<1>6. \A i \in Inum : Locks(pc'[p], fr'[p], i) <=>
              Locks(pc[p], fr[p], i) /\ ~Frees(pc[p], fr[p], i)
  BY <1>3, <1>4, <1>5 DEF Locks
<1>7. Apart(pc'[p], fr'[p])
  BY DEF Apart, Both, Conts
<1>8. TransStep(p)
  <2>1. Inside(pc'[p], fr'[p]) <=> Inside(pc[p], fr[p])
    BY DEF Inside
  <2> QED BY <2>1, FileSysAssumption DEF TransStep, FInv, InTrans
<1>9. CheckedAt(p)'
  <2>1. pc'[p] # "linkEntry"
    BY DEF Conts
  <2>2. ASSUME fr'[p].op = "link2", fr[p].k = "walk" PROVE Stays(fr[p].ip, {"file", "dev"})'
    <3>1. Stays(fr[p].ip, {"file", "dev"})
      BY <2>2 DEF FInv, Checked
    <3>2. fr[p].ip \in Inum
      BY <2>2 DEF FInv, Types, Shape, HasIp
    <3> QED BY <3>1, <3>2, <1>4 DEF Stays, Moved
  <2> QED BY <2>1, <2>2 DEF CheckedAt, Conts, Stays
<1> QED BY <1>4, <1>6, <1>7, <1>8, <1>9 DEF FreeStep

\* iput drops a reference, or takes the inode to free it.
LEMMA IputStep ==
  ASSUME FInv, NEW p \in Proc, iput(p)
  PROVE  Kept(p)
<1> DEFINE f == fr[p]
           i == Head(f.puts)
<1>1. pc[p] = "put" /\ pc[p] \notin Freeing /\ pc[p] \in Putting
  BY DEF iput, At, Freeing, Putting
<1>2. f \in Frame /\ Shape("put", f) /\ f.k \in Conts /\ i \in Inum /\ f.puts # <<>> /\ OwnOf(p, i) >= 1
  BY <1>1, PutShape
<1> USE <1>2
<1>3. CASE ~LastRef(i)
  <2>1. /\ ref' = Dec(ref, i) /\ PutNext(p)
        /\ UNCHANGED <<dsk, ents, mem, valid, busy, trans, cwd, file>>
    BY <1>3 DEF iput, disk, procs
  <2> USE <2>1
  <2>2. /\ Moved(p, pc'[p], fr'[p]) /\ Balanced(p) /\ pc'[p] \in Conts \cup {"put"}
        /\ Aim(pc'[p], fr'[p]) = fr[p].k /\ fr[p].k \in Conts
        /\ fr'[p].ip = fr[p].ip /\ fr'[p].dp = fr[p].dp
        /\ fr[p].k # "user" => fr'[p].op = fr[p].op
    BY <1>1, PutNextStep
  <2> USE <2>2
  <2>3. /\ \A j \in Inum : Locks(pc'[p], fr'[p], j) <=>
              Locks(pc[p], fr[p], j) /\ ~Frees(pc[p], fr[p], j)
        /\ FreeStep(p) /\ Apart(pc'[p], fr'[p]) /\ TransStep(p) /\ CheckedAt(p)'
    BY <1>1, PutResumes
  <2>4. LockStep(p)
    BY <1>1, <2>3, KeepsLocks DEF Frees
  <2>5. Types' /\ Alone(p)
    BY SMT, SMTT(30) DEF FInv, Types, Moved, Alone, Dec
  <2> QED BY <1>1, <2>3, <2>4, <2>5, CacheStep
<1>4. CASE LastRef(i)
  <2>1. /\ busy' = [busy EXCEPT ![i] = p] /\ Goto(p, "trunc", f)
        /\ UNCHANGED <<dsk, ents, mem, ref, valid, trans, cwd, file>>
    BY <1>4 DEF iput, disk, procs
  <2>2. ref[i] = 1 /\ valid[i]
    BY <1>4 DEF LastRef
  <2>3. busy[i] = NULL
    <3> SUFFICES ASSUME busy[i] # NULL PROVE FALSE
      OBVIOUS
    <3>1. busy[i] \in Proc /\ Locks(pc[busy[i]], fr[busy[i]], i)
      BY SMT, SMTT(30) DEF FInv, Locked, Types
    <3> USE <3>1
    <3>2. CASE busy[i] = p
      <4>1. f.ip = i \/ f.dp = i
        BY <1>1, <3>2 DEF Locks, Frees
      <4>2. OwnOf(p, i) >= 2
        BY SMT, SMTT(30), <4>1 DEF OwnOf, Own, One
      <4> QED BY SMT, SMTT(30), <4>2, <2>2, OwnNat DEF FInv, Lower
    <3>3. CASE busy[i] # p
      <4>1. OwnOf(busy[i], i) >= 1
        BY Points DEF FInv
      <4>2. ref[i] >= OwnOf(p, i) + OwnOf(busy[i], i)
        BY <3>3, OwnNat DEF FInv, Lower
      <4>3. OwnOf(p, i) \in Nat /\ OwnOf(busy[i], i) \in Nat
        BY OwnNat DEF FInv, Lower
      <4> QED BY SMT, SMTT(30), <4>1, <4>2, <4>3, <2>2
    <3> QED BY <3>2, <3>3
  <2>4. f.ip # i /\ f.dp # i
    <3> SUFFICES ASSUME f.ip = i \/ f.dp = i PROVE FALSE
      OBVIOUS
    <3>1. OwnOf(p, i) >= 2
      BY SMT, SMTT(30) DEF OwnOf, Own, One
    <3> QED BY SMT, SMTT(30), <3>1, <2>2, OwnNat DEF FInv, Lower
  <2>5. Shape("trunc", f)
    BY DEF Shape, HasIp, HasDp, Aim, Putting, Freeing, Labels
  <2> USE <2>1
  <2>6. Moved(p, "trunc", f)
    BY <2>5, GotoMoves DEF FInv
  <2> HIDE DEF f, i
  <2> USE <2>6
  <2>7. Types' /\ Alone(p)
    BY DEF FInv, Types, Moved, Alone
  <2>8. Balanced(p)
    <3>1. \A j \in Inum : OwnOf(p, j)' = OwnOf(p, j) /\ OwnOf(p, j) \in Nat
      BY SMT, SMTT(30), <1>1, OwnNat DEF OwnOf, Own, Moved, f
    <3> QED BY SMT, SMTT(30), <3>1 DEF Balanced, FInv, Types
  <2>9. Aim("trunc", f) = Aim("put", f)
    BY DEF Aim, Putting, Freeing
  <2>10. LockStep(p) /\ Apart(pc'[p], fr'[p])
    <3>1. \A j \in Inum : Locks("trunc", f, j) <=> j = i \/ Locks("put", f, j)
      BY <2>9 DEF Locks, Frees, Freeing, LocksIp, LocksDp, i
    <3>2. \A j \in Inum : Locks("put", f, j) => busy[j] = p /\ valid[j]
      BY SMT, SMTT(30), <1>1, FileSysAssumption DEF FInv, Locked, f
    <3>3. LockStep(p)
      BY SMT, SMTT(30), <1>1, <2>2, <2>3, <3>1, <3>2 DEF LockStep, Moved, f, FInv, Types
    <3>4. Apart("trunc", f)
      BY <2>4 DEF Apart, Both, i
    <3> QED BY <3>3, <3>4 DEF Moved
  <2>11. TransStep(p)
    <3>1. Inside(pc'[p], fr'[p]) <=> Inside(pc[p], fr[p])
      BY <1>1, <2>9 DEF Inside, Moved, f
    <3> QED BY <3>1, FileSysAssumption DEF TransStep, FInv, InTrans
  <2>12. FreeStep(p)
    BY <2>2 DEF FreeStep, Frees, Moved, i
  <2>13. CheckedAt(p)'
    <3>1. CheckedAt(p)
      BY DEF FInv, Checked, CheckedAt
    <3>2. \A j \in Inum, T \in SUBSET {"file", "dir", "dev"} : Stays(j, T) /\ j # i => Stays(j, T)'
      BY DEF Stays, Frees, Moved, i
    <3>3. ASSUME f.op = "link2", Aim("put", f) \in {"linkNew", "walk", "linkEntry"}
          PROVE  \A j \in Inum : j = f.ip => Stays(j, {"file", "dev"})'
      <4>1. Stays(f.ip, {"file", "dev"})
        BY <1>1, <3>1, <3>3 DEF CheckedAt, f
      <4> QED BY <4>1, <3>2, <2>4
    <3>4. pc'[p] = "trunc" /\ fr'[p] = f
      BY DEF Moved
    <3>5. Aim("put", f) \in {"linkNew", "walk", "linkEntry"} => f.ip \in Inum
      BY DEF Shape, HasIp, OnlyIp, Both
    <3> QED BY <3>3, <3>4, <3>5, <2>9 DEF CheckedAt, Stays
  <2> QED BY <1>1, <2>7, <2>8, <2>10, <2>11, <2>12, <2>13, CacheStep
<1> QED BY <1>3, <1>4

\* What stops the system changes nothing.
LEMMA HaltStep ==
  ASSUME FInv, NEW p \in Proc, NEW msg, Halt(msg)
  PROVE  Kept(p)
<1>1. UNCHANGED <<dsk, ents, mem, ref, valid, busy, trans, cwd, file, pc, fr>>
  BY DEF Halt, disk, icache, procs
<1> USE <1>1
<1>2. Types' /\ Locked' /\ Coherent' /\ InTrans'
  BY DEF FInv, Types, Locked, Coherent, Agrees, Freed, InTrans
<1>3. Alone(p) /\ Balanced(p) /\ TypeStep(p) /\ FreeStep(p)
  BY SMT, SMTT(30), OwnNat DEF FInv, Types, Alone, Balanced, OwnOf, TypeStep, FreeStep
<1>4. Checked' /\ NoSelf'
  BY DEF FInv, Checked, Stays, NoSelf
<1> QED BY <1>2, <1>3, <1>4 DEF Kept

\* A step of iput that goes from one of its labels to the next.
LEMMA FreeingStep ==
  ASSUME FInv, NEW p \in Proc, pc[p] \in {"trunc", "free"}, NEW m \in {"free", "freed"},
         Goto(p, m, fr[p]), UNCHANGED <<ref, valid, busy, trans, cwd, file>>,
         NEW i \in Inum, i = Head(fr[p].puts), Types',
         \A j \in Inum \ {i} : dsk'[j] = dsk[j] /\ mem'[j] = mem[j], NoSelf', Coherent'
  PROVE  Kept(p)
<1> DEFINE f == fr[p]
<1>1. f \in Frame /\ Shape(pc[p], f) /\ f.k \in Conts
  BY PutShape DEF Putting, Freeing
<1>2. Shape(m, f)
  BY <1>1 DEF Shape, HasIp, HasDp, Aim, Putting, Freeing, Labels
<1>3. Moved(p, m, f)
  BY <1>2, GotoMoves DEF FInv
<1> HIDE DEF f
<1>4. Aim(m, f) = Aim(pc[p], f) /\ pc'[p] = m /\ fr'[p] = f
  BY <1>3 DEF Aim, Putting, Freeing, Moved
<1>5. \A j \in Inum : /\ Frees(pc[p], f, j) <=> j = i
                      /\ Frees(m, f, j) <=> j = i
  BY DEF Frees, Freeing, f
<1> USE <1>4
<1>6. \A j \in Inum : Locks(pc[p], f, j) <=> Locks(m, f, j)
  BY <1>5 DEF Locks, LocksIp, LocksDp
<1>7. Alone(p)
  BY <1>3 DEF Alone, Moved
<1>8. Balanced(p)
  <2>1. \A j \in Inum : OwnOf(p, j)' = OwnOf(p, j) /\ OwnOf(p, j) \in Nat
    BY SMT, SMTT(30), OwnNat DEF OwnOf, Own, f
  <2> QED BY SMT, SMTT(30), <2>1 DEF Balanced, FInv, Types
<1>9. LockStep(p)
  BY <1>6, KeepsLocks DEF f
<1>10. Apart(pc[p], f)
  BY DEF FInv, Locked, f
<1>11. Apart(pc'[p], fr'[p]) /\ f.ip # i
  BY <1>10 DEF Apart, Freeing, Both, f
<1>12. TransStep(p)
  <2>1. Inside(pc'[p], fr'[p]) <=> Inside(pc[p], fr[p])
    BY DEF Inside, f
  <2> QED BY <2>1, FileSysAssumption DEF TransStep, FInv, InTrans
<1>13. TypeStep(p) /\ FreeStep(p)
  BY <1>5 DEF TypeStep, FreeStep, f
<1>14. CheckedAt(p)'
  <2>1. \A j \in Inum, T \in SUBSET {"file", "dir", "dev"} : Stays(j, T) /\ j # i => Stays(j, T)'
    BY <1>5, <1>7 DEF Stays, Alone
  <2>2. ASSUME f.op = "link2", Aim(pc[p], f) \in {"linkNew", "walk", "linkEntry"}
        PROVE  \A j \in Inum : j = f.ip => Stays(j, {"file", "dev"})'
    <3>1. Stays(f.ip, {"file", "dev"})
      BY <2>2 DEF FInv, Checked, f
    <3> QED BY <3>1, <2>1, <1>11
  <2>3. Aim(pc[p], f) \in {"linkNew", "walk", "linkEntry"} => f.ip \in Inum
    BY <1>1 DEF Shape, HasIp, OnlyIp, Both
  <2> QED BY <2>2, <2>3 DEF CheckedAt, Stays
<1> QED BY <1>7, <1>8, <1>9, <1>11, <1>12, <1>13, <1>14, Combine

LEMMA IputTruncStep ==
  ASSUME FInv, NEW p \in Proc, iputTrunc(p)
  PROVE  Kept(p)
<1> DEFINE i == Head(fr[p].puts)
<1>1. pc[p] = "trunc" /\ pc[p] \in Putting
  BY DEF iputTrunc, At, Putting, Freeing
<1> USE <1>1
<1>2. i \in Inum
  BY PutShape
<1>3. CASE OutsideTrans
  BY <1>3, HaltStep DEF OutsideTrans
<1> USE <1>2
<1>4. CASE ~OutsideTrans
  <2>1. /\ ents' = [ents EXCEPT ![i] = [n \in Elem |-> None]]
        /\ dsk' = [dsk EXCEPT ![i] = mem[i]] /\ Goto(p, "free", fr[p])
        /\ UNCHANGED <<mem, ref, valid, busy, trans, cwd, file>>
    BY <1>4 DEF iputTrunc, icache, procs
  <2>2. Locks(pc[p], fr[p], i)
    BY DEF Locks, Frees, Freeing
  <2>3. mem[i] = dsk[i]
    BY <2>2, Held
  <2> USE <2>1
  <2>4. dsk' = dsk
    BY <2>3 DEF FInv, Types
  <2>5. Shape(pc[p], fr[p])
    BY DEF FInv, Types
  <2>6. Shape("free", fr[p])
    BY <2>5 DEF Shape, HasIp, HasDp, Aim, Putting, Freeing, Labels
  <2>7. Moved(p, "free", fr[p])
    BY <2>6, GotoMoves DEF FInv
  <2> HIDE DEF i
  <2> USE <2>4
  <2>8. Types'
    BY <2>7 DEF FInv, Types, Moved
  <2>9. NoSelf'
    BY SMT, SMTT(30) DEF NoSelf, FInv, Types, Inum, None, Elem
  <2>10. Coherent'
    <3>1. Alone(p)
      BY <2>7 DEF Alone, Moved
    <3> QED BY <3>1, CohStep
  <2> QED BY <2>8, <2>9, <2>10, FreeingStep DEF i
<1> QED BY <1>3, <1>4

LEMMA IputFreeStep ==
  ASSUME FInv, NEW p \in Proc, iputFree(p)
  PROVE  Kept(p)
<1> DEFINE i == Head(fr[p].puts)
<1>1. pc[p] = "free" /\ pc[p] \in Putting
  BY DEF iputFree, At, Putting, Freeing
<1>2. i \in Inum
  BY <1>1, PutShape
<1>3. CASE OutsideTrans
  BY <1>3, HaltStep DEF OutsideTrans
<1>4. CASE ~OutsideTrans
  <2>1. /\ mem' = [mem EXCEPT ![i].type = "none"]
        /\ dsk' = [dsk EXCEPT ![i] = mem'[i]] /\ Goto(p, "freed", fr[p])
        /\ UNCHANGED <<ents, ref, valid, busy, trans, cwd, file>>
    BY <1>4 DEF iputFree, procs
  <2>2. mem' \in [Inum -> Inode] /\ dsk' \in [Inum -> Inode]
    <3> DEFINE v == [mem[i] EXCEPT !.type = "none"]
    <3>1. v \in Inode
      <4>1. ASSUME NEW d \in Inode PROVE [d EXCEPT !.type = "none"] \in Inode
        BY SMT, SMTT(30) DEF Inode
      <4>2. mem[i] \in Inode
        BY <1>2 DEF FInv, Types
      <4> QED BY <4>1, <4>2
    <3>2. mem' = [mem EXCEPT ![i] = v]
      BY <2>1
    <3> HIDE DEF i, v
    <3>3. mem' \in [Inum -> Inode]
      BY <1>2, <3>1, <3>2 DEF FInv, Types
    <3> QED BY <1>2, <2>1, <3>3 DEF FInv, Types
  <2>3. \A j \in Inum \ {i} : dsk'[j] = dsk[j] /\ mem'[j] = mem[j]
    BY <1>2, <2>1 DEF FInv, Types
  <2>4. Shape(pc[p], fr[p])
    BY DEF FInv, Types
  <2>5. Shape("freed", fr[p])
    BY <1>1, <2>4 DEF Shape, HasIp, HasDp, Aim, Putting, Freeing, Labels
  <2>6. Moved(p, "freed", fr[p])
    BY <2>1, <2>5, GotoMoves DEF FInv
  <2> HIDE DEF i
  <2>7. Types'
    BY <1>2, <2>1, <2>2, <2>6 DEF FInv, Types, Moved
  <2>8. NoSelf'
    BY <2>1 DEF NoSelf, FInv
  <2>9. Coherent'
    <3>1. Alone(p)
      BY <2>1, <2>6 DEF Alone, Moved
    <3>2. \A j \in Inum : j = i => Freed(j)'
      BY <2>6 DEF Freed, Moved, i
    <3>3. \A j \in Inum : Freed(j) => Freed(j)'
      BY <1>1, <3>1 DEF Freed, Alone
    <3> QED BY <2>1, <2>3, <3>2, <3>3 DEF FInv, Coherent, Agrees
  <2> QED BY <1>1, <1>2, <2>1, <2>3, <2>7, <2>8, <2>9, FreeingStep DEF i
<1> QED BY <1>3, <1>4

LEMMA IputFreedStep ==
  ASSUME FInv, NEW p \in Proc, iputFreed(p)
  PROVE  Kept(p)
<1> DEFINE i == Head(fr[p].puts)
<1>1. pc[p] = "freed" /\ pc[p] \in Putting
  BY DEF iputFreed, At, Putting, Freeing
<1>2. i \in Inum
  BY <1>1, PutShape
<1>3. /\ valid' = [valid EXCEPT ![i] = FALSE] /\ busy' = [busy EXCEPT ![i] = NULL]
      /\ ref' = Dec(ref, i) /\ PutNext(p)
      /\ UNCHANGED <<dsk, ents, mem, trans, cwd, file>>
  BY DEF iputFreed, disk, procs
<1> USE <1>3
<1>4. /\ Moved(p, pc'[p], fr'[p]) /\ Balanced(p) /\ pc'[p] \in Conts \cup {"put"}
      /\ Aim(pc'[p], fr'[p]) = fr[p].k /\ fr[p].k \in Conts
      /\ fr'[p].ip = fr[p].ip /\ fr'[p].dp = fr[p].dp
      /\ fr[p].k # "user" => fr'[p].op = fr[p].op
  BY <1>1, PutNextStep
<1>5. /\ \A j \in Inum : Locks(pc'[p], fr'[p], j) <=>
            Locks(pc[p], fr[p], j) /\ ~Frees(pc[p], fr[p], j)
      /\ pc'[p] \notin Freeing /\ FreeStep(p) /\ Apart(pc'[p], fr'[p]) /\ TransStep(p) /\ CheckedAt(p)'
  BY <1>1, <1>4, PutResumes
<1>6. \A j \in Inum : Frees(pc[p], fr[p], j) <=> j = i
  BY <1>1 DEF Frees, Freeing
<1> HIDE DEF i
<1> USE <1>2
<1>7. Types' /\ Alone(p)
  BY SMT, SMTT(30), <1>4 DEF FInv, Types, Moved, Alone, Dec
<1>8. LockStep(p)
  <2>1. \A j \in Inum : Locks(pc[p], fr[p], j) => busy[j] = p /\ valid[j]
    BY FileSysAssumption DEF FInv, Locked
  <2>2. \A j \in Inum \ {i} : busy'[j] = busy[j] /\ valid'[j] = valid[j]
    BY DEF FInv, Types
  <2>3. busy'[i] = NULL
    BY DEF FInv, Types
  <2>4. Locks(pc[p], fr[p], i)
    BY <1>6 DEF Locks
  <2> QED BY <1>5, <1>6, <2>1, <2>2, <2>3, <2>4 DEF LockStep
<1>9. Coherent'
  <2>1. \A j \in Inum \ {i} : Freed(j) => Freed(j)'
    BY <1>1, <1>7 DEF Freed, Alone, i
  <2>2. \A j \in Inum \ {i} : valid'[j] = valid[j]
    BY DEF FInv, Types
  <2>3. ~valid'[i]
    BY DEF FInv, Types
  <2> QED BY <2>1, <2>2, <2>3 DEF FInv, Coherent, Agrees
<1>10. TypeStep(p) /\ NoSelf'
  BY DEF TypeStep, FInv, NoSelf
<1> QED BY <1>4, <1>5, <1>7, <1>8, <1>9, <1>10, Combine

-----------------------------------------------------------------------------
(***************************************************************************)
(* Locks that are kept: ilock by a step of its own, and iunlockput.        *)
(***************************************************************************)
LEMMA IlockStep ==
  ASSUME FInv, NEW p \in Proc, NEW i \in Inum, NEW m, ilock(p, i, m), Shape(m, fr[p]),
         pc[p] \notin Putting, pc[p] # "chdirEnd",
         m \notin Putting \cup {"user", "chdirEnd", "linkNew", "walk", "linkEntry"},
         \A j \in Inum : Locks(m, fr[p], j) <=> Locks(pc[p], fr[p], j) \/ j = i,
         Inside(m, fr[p]) <=> Inside(pc[p], fr[p]), Apart(m, fr[p])
  PROVE  Kept(p)
<1>1. /\ CanLock(i) /\ valid' = [valid EXCEPT ![i] = TRUE] /\ mem' = [mem EXCEPT ![i] = Copy(i)]
      /\ busy' = [busy EXCEPT ![i] = p] /\ Goto(p, m, fr[p])
      /\ UNCHANGED <<dsk, ents, ref, trans, cwd, file>>
  BY DEF ilock, load, Loaded, disk, procs
<1> USE <1>1
<1>2. busy[i] = NULL /\ Copy(i) = dsk[i]
  BY Lockable
<1>3. Moved(p, m, fr[p])
  BY GotoMoves DEF FInv
<1>4. Types' /\ Alone(p)
  BY <1>2, <1>3 DEF FInv, Types, Moved, Alone
<1>5. pc'[p] = m /\ fr'[p] = fr[p]
  BY <1>3 DEF Moved
<1> USE <1>5
<1>6. Balanced(p)
  <2>1. \A j \in Inum : OwnOf(p, j)' = Own(m, fr[p], cwd[p], file[p], j)
    BY DEF OwnOf
  <2>2. \A j \in Inum : OwnOf(p, j) = Own(m, fr[p], cwd[p], file[p], j)
    <3>1. pc[p] # "chdirEnd" /\ m # "chdirEnd"
      OBVIOUS
    <3> QED BY SMT, SMTT(30), <3>1, OwnLabel DEF OwnOf
  <2>3. \A j \in Inum : OwnOf(p, j)' = OwnOf(p, j) /\ OwnOf(p, j) \in Nat
    BY <2>1, <2>2, OwnNat
  <2> QED BY SMT, SMTT(30), <2>3 DEF Balanced, FInv, Types
<1>7. LockStep(p)
  <2>1. \A j \in Inum : Locks(pc[p], fr[p], j) => busy[j] = p /\ valid[j]
    BY SMT, SMTT(30), FileSysAssumption DEF FInv, Locked
  <2>2. \A j \in Inum \ {i} : busy'[j] = busy[j] /\ valid'[j] = valid[j]
    BY DEF FInv, Types
  <2>3. busy'[i] = p /\ valid'[i]
    BY DEF FInv, Types
  <2> QED BY <1>2, <2>1, <2>2, <2>3 DEF LockStep
<1>8. FreeStep(p)
  BY NoFree DEF Putting
<1>9. TransStep(p)
  BY FileSysAssumption DEF TransStep, FInv, InTrans
<1>10. CheckedAt(p)'
  BY DEF CheckedAt, Aim
<1>11. \A j \in Inum : valid'[j] =>
         \/ valid[j] /\ mem'[j] = mem[j]
         \/ j = i /\ CanLock(i) /\ mem'[i] = Copy(i)
  BY DEF FInv, Types
<1> QED BY <1>4, <1>6, <1>7, <1>8, <1>9, <1>10, <1>11, CacheStep DEF Putting

LEMMA LockSteps ==
  ASSUME FInv, NEW p \in Proc,
         createDir(p) \/ createLock(p) \/ unlinkDir(p) \/ unlinkLock(p)
  PROVE  Kept(p)
<1> DEFINE f == fr[p]
<1> USE DEF Aim, Putting, Freeing, Bare, OnlyIp, OnlyDp, Both, Named, Creates, CreateAt, LinkAt
<1>1. f \in Frame /\ Shape(pc[p], f) /\ Apart(pc[p], f)
  BY DEF FInv, Types, Locked
<1> USE <1>1
<1>2. CASE createDir(p)
  <2>1. pc[p] = "createDir" /\ ilock(p, f.ip, "createLook")
    BY <1>2 DEF createDir, At
  <2> HIDE DEF f
  <2>2. f.ip \in Inum /\ Shape("createLook", f)
    BY <2>1 DEF Shape, HasIp, HasDp, Labels
  <2> QED BY SMT, SMTT(30), <2>1, <2>2, IlockStep DEF Locks, LocksIp, LocksDp, Frees, Inside, Apart, f
<1>3. CASE createLock(p)
  <2>1. pc[p] = "createLock" /\ ilock(p, f.ip, "createInit")
    BY <1>3 DEF createLock, At
  <2> HIDE DEF f
  <2> USE <2>1
  <2>2. f.ip \in Inum /\ Shape("createInit", f)
    BY DEF Shape, HasIp, HasDp, Labels
  <2>3. Apart("createInit", f)
    BY DEF Apart
  <2> QED BY SMT, SMTT(30), <2>2, <2>3, IlockStep DEF Locks, LocksIp, LocksDp, Frees, Inside, f
<1>4. CASE unlinkDir(p)
  <2>1. pc[p] = "unlinkDir" /\ ilock(p, f.dp, "unlinkLook")
    BY <1>4 DEF unlinkDir, At
  <2> HIDE DEF f
  <2>2. f.dp \in Inum /\ Shape("unlinkLook", f)
    BY <2>1 DEF Shape, HasIp, HasDp, Labels
  <2> QED BY SMT, SMTT(30), <2>1, <2>2, IlockStep DEF Locks, LocksIp, LocksDp, Frees, Inside, Apart, f
<1>5. CASE unlinkLock(p)
  <2>1. pc[p] = "unlinkLock" /\ ilock(p, f.ip, "unlinkEntry")
    BY <1>5 DEF unlinkLock, At
  <2> HIDE DEF f
  <2> USE <2>1
  <2>2. f.ip \in Inum /\ Shape("unlinkEntry", f)
    BY DEF Shape, HasIp, HasDp, Labels
  <2>3. Apart("unlinkEntry", f)
    BY DEF Apart
  <2> QED BY SMT, SMTT(30), <2>2, <2>3, IlockStep DEF Locks, LocksIp, LocksDp, Frees, Inside, f
<1> QED BY <1>2, <1>3, <1>4, <1>5

-----------------------------------------------------------------------------
(***************************************************************************)
(* Locks that are held for one step only.                                  *)
(***************************************************************************)
\* The step reads j and changes nothing on the disk.
LEMMA LoadStep ==
  ASSUME FInv, NEW p \in Proc, NEW j \in Inum, CanLock(j), Types', Alone(p), Balanced(p),
         mem' = [mem EXCEPT ![j] = Copy(j)],
         \A i \in Inum : valid'[i] => valid[i] \/ i = j,
         \A i \in Inum : valid[i] => valid'[i] \/ ref[i] = 0,
         UNCHANGED <<dsk, ents, busy, trans>>,
         \A i \in Inum : ~Locks(pc[p], fr[p], i) /\ ~Locks(pc'[p], fr'[p], i),
         pc[p] \notin Putting, pc'[p] \notin Freeing \cup (Both \ {"linkEntry"}),
         Inside(pc'[p], fr'[p]) <=> Inside(pc[p], fr[p]), CheckedAt(p)'
  PROVE  Kept(p)
<1>1. LockStep(p)
  BY KeepsLocks
<1>2. FreeStep(p)
  BY NoFree
<1>3. TransStep(p)
  BY FileSysAssumption DEF TransStep, FInv, InTrans
<1>4. Apart(pc'[p], fr'[p])
  BY DEF Apart
<1>5. \A i \in Inum : valid'[i] =>
         \/ valid[i] /\ mem'[i] = mem[i]
         \/ i = j /\ CanLock(j) /\ mem'[j] = Copy(j)
  BY DEF FInv, Types
<1> QED BY <1>1, <1>2, <1>3, <1>4, <1>5, CacheStep DEF Putting

\* It reads j and puts the pointer ip.
LEMMA LoadPutStep ==
  ASSUME FInv, NEW p \in Proc, CanLock(fr[p].ip), load(fr[p].ip), fr[p].ip \in Inum,
         pc[p] \notin Putting, pc[p] # "chdirEnd", fr[p].dp = None,
         \A i \in Inum : ~Locks(pc[p], fr[p], i),
         NEW k \in {"user", "commit"}, PutThen(p, fr[p].ip, k, [fr[p] EXCEPT !.ip = None]),
         Inside(pc[p], fr[p]) <=> k = "commit",
         UNCHANGED <<dsk, ents, ref, busy, trans, cwd, file>>
  PROVE  Kept(p)
<1> DEFINE f == fr[p]
           h == [f EXCEPT !.ip = None]
           g == PutIn(h, f.ip, k)
<1> USE DEF Aim, Putting, Freeing, Bare, OnlyIp, OnlyDp, Both, Named, Creates, CreateAt, LinkAt
<1>1. f \in Frame /\ Shape(pc[p], f) /\ k \in Conts
  BY DEF FInv, Types, Conts
<1>2. f.puts = <<>> /\ f.k = "none"
  BY <1>1 DEF Shape
<1>3. h \in Frame /\ h.ip = None /\ h.dp = None /\ h.op = f.op
  BY <1>1 DEF Frame
<1>4. /\ Goto(p, "put", g) /\ valid' = [valid EXCEPT ![f.ip] = TRUE]
      /\ mem' = [mem EXCEPT ![f.ip] = Copy(f.ip)]
  BY DEF PutThen, PutIn, load, Loaded
<1>5. /\ g \in Frame /\ g.ip = None /\ g.dp = None /\ g.op = f.op /\ g.puts = <<f.ip>>
      /\ g.k = k /\ g.puts # <<>> /\ Len(g.puts) = 1 /\ Head(g.puts) = f.ip
  <2> HIDE DEF h, f
  <2> QED BY SMT, SMTT(30), <1>1, <1>3, PutFrame DEF f
<1> HIDE DEF f, h, g
<1> USE <1>5
<1>6. Shape("put", g)
  BY <1>1 DEF Shape, HasIp, HasDp, Labels
<1> USE <1>4
<1>7. Moved(p, "put", g)
  BY <1>6, GotoMoves DEF FInv
<1>8. Copy(f.ip) = dsk[f.ip]
  BY Lockable DEF f
<1> USE <1>7
<1>9. Types' /\ Alone(p)
  BY <1>8 DEF FInv, Types, Moved, Alone, f
<1>10. Balanced(p)
  BY <1>2, <1>9, PutIpBalanced DEF f, Moved
<1>11. \A i \in Inum : ~Locks(pc'[p], fr'[p], i)
  BY DEF Moved, Locks, LocksIp, LocksDp, Frees
<1>12. (Inside(pc'[p], fr'[p]) <=> k = "commit") /\ CheckedAt(p)'
  BY DEF Inside, CheckedAt, Moved
<1>13. \A i \in Inum : (valid'[i] => valid[i] \/ i = f.ip) /\ (valid[i] => valid'[i])
  BY DEF FInv, Types, f
<1>14. pc'[p] = "put"
  BY DEF Moved
<1> QED BY <1>9, <1>10, <1>11, <1>12, <1>13, <1>14, LoadStep DEF f

LEMMA CreateOldStep ==
  ASSUME FInv, NEW p \in Proc, createOld(p)
  PROVE  Kept(p)
<1> DEFINE f == fr[p]
           same == TypeOf(f.op) = "file" /\ Copy(f.ip).type = "file"
<1> USE DEF Aim, Putting, Freeing, Bare, OnlyIp, OnlyDp, Both, Named, Creates, CreateAt, LinkAt
<1>1. pc[p] = "createOld" /\ f \in Frame /\ Shape("createOld", f)
  BY DEF createOld, At, FInv, Types
<1> USE <1>1
<1>2. f.ip \in Inum /\ f.dp = None /\ f.puts = <<>> /\ f.k = "none" /\ f.op \in Creates
  BY DEF Shape, HasIp, HasDp
<1> USE <1>2
<1>3. CASE same
  <2>1. ilock(p, f.ip, "created")
    BY <1>3 DEF createOld
  <2> HIDE DEF f
  <2>2. Shape("created", f)
    BY DEF Shape, HasIp, HasDp, Labels
  <2> QED BY SMT, SMTT(30), <2>1, <2>2, IlockStep DEF Locks, LocksIp, LocksDp, Frees, Inside, Apart, f
<1>4. CASE ~same
  <2>1. /\ CanLock(f.ip) /\ load(f.ip) /\ PutThen(p, f.ip, "commit", [f EXCEPT !.ip = None])
        /\ UNCHANGED <<dsk, ents, ref, busy, trans, cwd, file>>
    BY <1>4 DEF createOld, disk, procs
  <2> HIDE DEF same
  <2>2. (\A i \in Inum : ~Locks(pc[p], fr[p], i)) /\ Inside(pc[p], fr[p])
    BY DEF Locks, LocksIp, LocksDp, Frees, Inside
  <2> QED BY <2>1, <2>2, LoadPutStep
<1> QED BY <1>3, <1>4

LEMMA ChdirPutStep ==
  ASSUME FInv, NEW p \in Proc, chdirPut(p)
  PROVE  Kept(p)
<1> DEFINE f == fr[p]
           c == cwd[p]
           g == PutIn(f, c, "chdirEnd")
<1> USE DEF Aim, Putting, Freeing, Bare, OnlyIp, OnlyDp, Both, Named, Creates, CreateAt, LinkAt
<1>1. pc[p] = "chdirPut" /\ f \in Frame /\ Shape("chdirPut", f) /\ c \in Inum
  BY DEF chdirPut, At, FInv, Types
<1>2. f.ip \in Inum /\ f.dp = None /\ f.puts = <<>> /\ f.k = "none"
  BY <1>1 DEF Shape, HasIp, HasDp
<1>3. CanLock(f.ip) /\ load(f.ip) /\ UNCHANGED <<dsk, ents, ref, busy, trans, cwd, file>>
  BY DEF chdirPut, disk, procs
<1>4. (\A i \in Inum : ~Locks(pc[p], fr[p], i)) /\ ~Inside(pc[p], fr[p])
  BY <1>1 DEF Locks, LocksIp, LocksDp, Frees, Inside
<1> USE <1>2
<1>5. CASE Copy(f.ip).type # "dir"
  <2>1. PutThen(p, f.ip, "user", [f EXCEPT !.ip = None])
    BY <1>5 DEF chdirPut
  <2> QED BY <1>1, <1>3, <1>4, <2>1, LoadPutStep
<1>6. CASE Copy(f.ip).type = "dir"
  <2>1. Goto(p, "put", g)
    BY <1>6 DEF chdirPut, PutThen, PutIn
  <2>2. valid' = [valid EXCEPT ![f.ip] = TRUE] /\ mem' = [mem EXCEPT ![f.ip] = Copy(f.ip)]
    BY <1>3 DEF load, Loaded
  <2>3. /\ g \in Frame /\ g.ip = f.ip /\ g.dp = None /\ g.op = f.op /\ g.puts = <<c>>
        /\ g.k = "chdirEnd" /\ g.puts # <<>> /\ Len(g.puts) = 1
    <3>1. "chdirEnd" \in Conts
      BY DEF Conts
    <3> HIDE DEF f, c
    <3> QED BY SMT, SMTT(30), <1>1, <3>1, PutFrame
  <2> HIDE DEF f, c, g
  <2>4. Shape("put", g)
    BY <2>3 DEF Shape, HasIp, HasDp, Labels, Conts
  <2>5. Moved(p, "put", g)
    BY <2>1, <2>4, GotoMoves DEF FInv
  <2>6. Copy(f.ip) = dsk[f.ip]
    BY <1>3, Lockable
  <2> USE <2>5
  <2>7. Types' /\ Alone(p)
    BY <1>3, <2>2, <2>6 DEF FInv, Types, Moved, Alone
  <2>8. Balanced(p)
    <3> SUFFICES ASSUME NEW i \in Inum PROVE ref'[i] = ref[i] + OwnOf(p, i)' - OwnOf(p, i)
      BY DEF Balanced
    <3>1. OwnOf(p, i) = One(c = i) + One(file[p] = i) + One(f.ip = i) + One(f.dp = i)
      BY SMT, SMTT(30), <1>1, OwnQuiet DEF OwnOf, f, c
    <3>2. OwnOf(p, i)' = Own("put", g, c, file[p], i)
      BY <1>3 DEF OwnOf, Moved, c
    <3>3. OwnOf(p, i)' = One(c = i /\ g.k # "chdirEnd") + One(file[p] = i) + One(g.ip = i)
                         + One(g.dp = i) + One(c = i)
      BY SMT, SMTT(30), <2>3, <3>2, OwnPutting
    <3>4. ref[i] \in Int
      BY DEF FInv, Types
    <3> QED BY SMT, SMTT(30), <1>3, <2>3, <3>1, <3>3, <3>4 DEF One
  <2>9. \A i \in Inum : ~Locks(pc'[p], fr'[p], i)
    BY <2>3 DEF Moved, Locks, LocksIp, LocksDp, Frees
  <2>10. ~Inside(pc'[p], fr'[p]) /\ CheckedAt(p)'
    BY <2>3 DEF Inside, CheckedAt, Moved
  <2>11. \A i \in Inum : (valid'[i] => valid[i] \/ i = f.ip) /\ (valid[i] => valid'[i])
    BY <2>2 DEF FInv, Types
  <2>12. pc'[p] = "put"
    BY DEF Moved
  <2> QED BY <1>1, <1>3, <1>4, <2>2, <2>7, <2>8, <2>9, <2>10, <2>11, <2>12, LoadStep
<1> QED BY <1>5, <1>6

LEMMA OpenFileStep ==
  ASSUME FInv, NEW p \in Proc, openFile(p)
  PROVE  Kept(p)
<1> DEFINE f == fr[p]
           j == f.ip
           h == [f EXCEPT !.ip = None]
           g == PutIn(h, j, "user")
<1> USE DEF Aim, Putting, Freeing, Bare, OnlyIp, OnlyDp, Both, Named, Creates, CreateAt, LinkAt
<1>1. pc[p] = "openFile" /\ f \in Frame /\ Shape("openFile", f)
  BY DEF openFile, At, FInv, Types
<1>2. j \in Inum /\ f.dp = None /\ f.puts = <<>> /\ f.k = "none"
  BY <1>1 DEF Shape, HasIp, HasDp
<1>3. /\ busy' = [busy EXCEPT ![j] = NULL]
      /\ UNCHANGED <<dsk, ents, ref, trans, cwd>>
      /\ \/ busy[j] = p /\ UNCHANGED <<mem, valid>>
         \/ CanLock(j) /\ valid' = [valid EXCEPT ![j] = TRUE] /\ mem' = [mem EXCEPT ![j] = Copy(j)]
  BY DEF openFile, iunlock, disk, load, Loaded
<1>4. /\ g \in Frame /\ g.ip = None /\ g.dp = None /\ g.puts = <<j>>
      /\ g.k = "user" /\ g.puts # <<>> /\ Len(g.puts) = 1
  <2>1. h \in Frame /\ h.ip = None /\ h.dp = f.dp
    BY <1>1 DEF Frame
  <2>2. "user" \in Conts
    BY DEF Conts
  <2> HIDE DEF f, j, h
  <2> QED BY SMT, SMTT(30), <1>2, <2>1, <2>2, PutFrame
<1>5. /\ \A i \in Inum : Locks(pc[p], fr[p], i) => i = j
      /\ CanLock(j) => \A i \in Inum : ~Locks(pc[p], fr[p], i)
      /\ ~Inside(pc[p], fr[p])
  BY <1>1, <1>2, Lockable DEF Locks, LocksIp, LocksDp, Frees, Inside
<1>6. ASSUME Types', Alone(p), Balanced(p), pc'[p] \in {"user", "put"},
             \A i \in Inum : ~Locks(pc'[p], fr'[p], i), ~Inside(pc'[p], fr'[p]), CheckedAt(p)'
      PROVE  Kept(p)
  <2>1. LockStep(p)
    <3>1. CanLock(j) => busy[j] = NULL
      BY DEF CanLock
    <3>2. \A i \in Inum \ {j} : busy'[i] = busy[i] /\ valid'[i] = valid[i]
      BY <1>2, <1>3 DEF FInv, Types
    <3>3. busy'[j] = NULL /\ (valid[j] => valid'[j])
      BY <1>2, <1>3 DEF FInv, Types
    <3>4. busy[j] = p => Locks(pc[p], fr[p], j)
      BY <1>2, FileSysAssumption DEF FInv, Locked
    <3> QED BY <1>3, <1>5, <1>6, <3>1, <3>2, <3>3, <3>4 DEF LockStep
  <2>2. FreeStep(p) /\ Apart(pc'[p], fr'[p])
    BY <1>6, NoFree DEF Apart
  <2>3. TransStep(p)
    BY <1>3, <1>5, <1>6 DEF TransStep
  <2>4. \A i \in Inum : valid'[i] =>
          \/ valid[i] /\ mem'[i] = mem[i]
          \/ i = j /\ CanLock(j) /\ mem'[j] = Copy(j)
    BY <1>2, <1>3 DEF FInv, Types
  <2> QED BY <1>1, <1>2, <1>3, <1>6, <2>1, <2>2, <2>3, <2>4, CacheStep
<1>7. /\ mem' \in [Inum -> Inode] /\ valid' \in [Inum -> BOOLEAN]
      /\ busy' \in [Inum -> Proc \cup {NULL}]
  <2>1. CanLock(j) => Copy(j) = dsk[j]
    BY <1>2, Lockable
  <2> HIDE DEF j
  <2>2. busy' \in [Inum -> Proc \cup {NULL}]
    BY <1>2, <1>3 DEF FInv, Types
  <2>3. CASE mem' = mem /\ valid' = valid
    BY <2>2, <2>3 DEF FInv, Types
  <2>4. CASE CanLock(j) /\ valid' = [valid EXCEPT ![j] = TRUE] /\ mem' = [mem EXCEPT ![j] = Copy(j)]
    BY <1>2, <2>1, <2>2, <2>4 DEF FInv, Types
  <2> QED BY <1>3, <2>3, <2>4
<1>8. CASE PutThen(p, j, "user", h) /\ file' = file
  <2>1. Goto(p, "put", g)
    BY <1>8 DEF PutThen, PutIn
  <2> HIDE DEF f, j, h, g
  <2>2. Shape("put", g)
    BY <1>4 DEF Shape, HasIp, HasDp, Labels, Conts
  <2>3. Moved(p, "put", g)
    BY <2>1, <2>2, GotoMoves DEF FInv
  <2> USE <2>3
  <2>4. Types' /\ Alone(p)
    BY <1>3, <1>7, <1>8 DEF FInv, Types, Moved, Alone
  <2>5. Balanced(p)
    BY <1>1, <1>2, <1>3, <1>4, <1>8, <2>4, PutIpBalanced DEF f, j, Moved
  <2>6. (\A i \in Inum : ~Locks(pc'[p], fr'[p], i)) /\ ~Inside(pc'[p], fr'[p]) /\ CheckedAt(p)'
    BY <1>4 DEF Moved, Locks, LocksIp, LocksDp, Frees, Inside, CheckedAt
  <2>7. pc'[p] = "put"
    BY DEF Moved
  <2> QED BY <1>6, <2>4, <2>5, <2>6, <2>7
<1>9. CASE file[p] = None /\ file' = [file EXCEPT ![p] = j] /\ Goto(p, "user", Idle)
  <2> HIDE DEF f, j, h, g
  <2>1. Moved(p, "user", Idle)
    BY <1>9, IdleShape, GotoMoves DEF FInv
  <2>2. Types' /\ Alone(p)
    BY <1>2, <1>3, <1>7, <1>9, <2>1 DEF FInv, Types, Moved, Alone
  <2>3. file'[p] = j
    BY <1>9 DEF FInv, Types
  <2>4. Balanced(p)
    <3>1. \A i \in Inum : i # None /\ ref[i] \in Int
      BY RefInt
    <3>2. /\ fr[p].ip = j /\ fr[p].dp = None /\ fr'[p].ip = None /\ fr'[p].dp = None
          /\ file[p] = None /\ cwd' = cwd /\ ref' = ref
      <4>1. fr[p].ip = j /\ fr[p].dp = None
        BY <1>2 DEF f, j
      <4>2. fr'[p] = Idle
        BY <2>1 DEF Moved
      <4> QED BY <1>3, <1>9, <4>1, <4>2, IdleFrame
    <3>3. \A i \in Inum : ref'[i] - ref[i] = Slots(p, i)' - Slots(p, i)
      BY SMT, SMTT(30), <2>3, <3>1, <3>2 DEF Slots, One
    <3> QED BY <3>3, <1>1, <1>2, <2>1, <2>2, IdleFrame, QuietBalanced DEF f, Moved
  <2>5. (\A i \in Inum : ~Locks(pc'[p], fr'[p], i)) /\ ~Inside(pc'[p], fr'[p]) /\ CheckedAt(p)'
    BY <2>1 DEF Moved, Locks, LocksIp, LocksDp, Frees, Inside, CheckedAt
  <2>6. pc'[p] = "user"
    BY <2>1 DEF Moved
  <2> QED BY <1>6, <2>2, <2>4, <2>5, <2>6
<1> QED BY <1>8, <1>9 DEF openFile

-----------------------------------------------------------------------------
(***************************************************************************)
(* Steps that write inodes.                                                *)
(***************************************************************************)
\* The inodes of S, which the step has locked, are written to the disk.
LEMMA DiskStep ==
  ASSUME FInv, NEW p \in Proc, Types', Alone(p), Balanced(p), LockStep(p),
         Apart(pc'[p], fr'[p]), TransStep(p), CheckedAt(p)', pc[p] \notin Freeing,
         pc'[p] \notin Freeing, NoSelf', NEW S \in SUBSET Inum,
         \A i \in S : mem'[i] = dsk'[i] /\ dsk'[i].type = dsk[i].type /\ dsk[i].type # "none",
         \A i \in Inum \ S : mem'[i] = mem[i] /\ dsk'[i] = dsk[i],
         \A i \in Inum : valid'[i] => valid[i] \/ i \in S
  PROVE  Kept(p)
<1>1. Coherent'
  <2>1. \A i \in Inum : valid'[i] => \/ mem'[i] = dsk'[i] /\ dsk'[i].type # "none"
                                     \/ valid[i] /\ mem'[i] = mem[i] /\ dsk'[i] = dsk[i]
    OBVIOUS
  <2> QED BY <2>1, CohStep DEF Freeing
<1>2. TypeStep(p) /\ FreeStep(p)
  BY DEF TypeStep, FreeStep, Frees
<1> QED BY <1>1, <1>2, Combine

LEMMA NlinkType ==
  ASSUME NEW d \in Inode
  PROVE  /\ \A n \in Int : /\ [d EXCEPT !.nlink = n] \in Inode
                           /\ [d EXCEPT !.nlink = n].type = d.type
         /\ [d EXCEPT !.nlink = @ + 1] \in Inode /\ [d EXCEPT !.nlink = @ + 1].type = d.type
         /\ [d EXCEPT !.nlink = @ - 1] \in Inode /\ [d EXCEPT !.nlink = @ - 1].type = d.type
BY SMT, SMTT(30) DEF Inode

LEMMA LinkInodeStep ==
  ASSUME FInv, NEW p \in Proc, linkInode(p)
  PROVE  Kept(p)
<1> DEFINE f == fr[p]
           j == f.ip
           g == [f EXCEPT !.op = "link2"]
<1> USE DEF Aim, Putting, Freeing, Bare, OnlyIp, OnlyDp, Both, Named, Creates, CreateAt, LinkAt
<1>1. pc[p] = "linkInode" /\ f \in Frame /\ Shape("linkInode", f)
  BY DEF linkInode, At, FInv, Types
<1>2. j \in Inum /\ f.dp = None /\ f.puts = <<>> /\ f.k = "none"
  BY <1>1 DEF Shape, HasIp, HasDp
<1>3. /\ CanLock(j) /\ valid' = [valid EXCEPT ![j] = TRUE]
      /\ UNCHANGED <<ents, ref, busy, trans, cwd, file>>
  BY DEF linkInode, procs, Loaded
<1>4. (\A i \in Inum : ~Locks(pc[p], fr[p], i)) /\ Inside(pc[p], fr[p])
  BY <1>1 DEF Locks, LocksIp, LocksDp, Frees, Inside
<1> USE <1>2
<1>5. /\ Copy(j) = dsk[j] /\ dsk[j].type # "none"
      /\ \A q \in Proc : ~Frees(pc[q], fr[q], j)
  BY <1>3, Lockable
<1>6. CASE Copy(j).type = "dir"
  <2>1. load(j) /\ PutThen(p, j, "commit", [f EXCEPT !.ip = None]) /\ dsk' = dsk
    BY <1>3, <1>6 DEF linkInode, load, Loaded
  <2> QED BY <1>1, <1>3, <1>4, <2>1, LoadPutStep
<1>7. CASE Copy(j).type # "dir"
  <2>1. /\ mem' = [mem EXCEPT ![j] = [Copy(j) EXCEPT !.nlink = @ + 1]]
        /\ iupdate({j}, mem') /\ Goto(p, "linkNew", g)
    BY <1>7 DEF linkInode
  <2>2. g \in Frame /\ g.op = "link2" /\ g.ip = f.ip /\ g.dp = f.dp /\ g.puts = <<>> /\ g.k = "none"
    BY <1>1 DEF Frame, Ops
  <2>3. dsk[j] \in Inode
    BY DEF FInv, Types
  <2> HIDE DEF f, j, g
  <2>4. /\ mem' \in [Inum -> Inode] /\ mem'[j].type = dsk[j].type
        /\ \A i \in Inum \ {j} : mem'[i] = mem[i]
    <3> DEFINE v == [dsk[j] EXCEPT !.nlink = @ + 1]
    <3>1. v \in Inode /\ v.type = dsk[j].type
      BY <2>3, NlinkType
    <3>2. mem' = [mem EXCEPT ![j] = v]
      BY <1>5, <2>1
    <3> HIDE DEF v
    <3> QED BY <3>1, <3>2 DEF FInv, Types
  <2>5. /\ dsk' \in [Inum -> Inode] /\ dsk'[j] = mem'[j]
        /\ \A i \in Inum \ {j} : dsk'[i] = dsk[i]
    BY <2>1, <2>4 DEF iupdate, FInv, Types
  <2>6. Shape("linkNew", g)
    BY <2>2 DEF Shape, HasIp, HasDp, Labels, j
  <2>7. Moved(p, "linkNew", g)
    BY <2>1, <2>6, GotoMoves DEF FInv
  <2>8. Types' /\ Alone(p)
    BY <1>3, <2>4, <2>5, <2>7 DEF FInv, Types, Moved, Alone
  <2>9. Balanced(p)
    <3>1. fr'[p].ip = fr[p].ip /\ fr'[p].dp = fr[p].dp
      BY <2>2, <2>7 DEF Moved, f
    <3>2. \A i \in Inum : ref'[i] - ref[i] = Slots(p, i)' - Slots(p, i)
      BY SMT, SMTT(30), <1>3, <3>1, RefInt, SlotsMoved DEF One
    <3> QED BY <3>2, <1>1, <2>2, <2>7, <2>8, QuietBalanced DEF f, Moved
  <2>10. \A i \in Inum : ~Locks(pc'[p], fr'[p], i)
    BY <2>2, <2>7 DEF Moved, Locks, LocksIp, LocksDp, Frees
  <2>11. \A i \in Inum : (valid'[i] => valid[i] \/ i \in {j}) /\ (valid[i] => valid'[i])
    BY <1>3 DEF FInv, Types
  <2>12. LockStep(p)
    BY <1>3, <1>4, <2>10, <2>11, KeepsLocks
  <2>13. pc'[p] = "linkNew" /\ fr'[p] = g
    BY <2>7 DEF Moved
  <2> USE <2>13
  <2>14. Inside(pc'[p], fr'[p]) /\ Apart(pc'[p], fr'[p])
    BY DEF Inside, Apart
  <2>15. TransStep(p)
    BY <1>3, <1>4, <2>14 DEF TransStep, FInv, InTrans
  <2>16. CheckedAt(p)'
    <3>1. \A q \in Proc : ~Frees(pc'[q], fr'[q], j)
      BY <1>5, <2>7 DEF Frees, Moved
    <3>2. dsk'[j].type \in {"file", "dev"}
      BY <1>5, <1>7, <2>3, <2>4, <2>5 DEF Inode
    <3> QED BY <2>2, <3>1, <3>2 DEF CheckedAt, Stays, j
  <2>17. NoSelf'
    BY <1>3 DEF NoSelf, FInv
  <2>18. {j} \in SUBSET Inum
    OBVIOUS
  <2>19. /\ \A i \in {j} : mem'[i] = dsk'[i] /\ dsk'[i].type = dsk[i].type /\ dsk[i].type # "none"
         /\ \A i \in Inum \ {j} : mem'[i] = mem[i] /\ dsk'[i] = dsk[i]
    BY <1>5, <2>4, <2>5
  <2>20. pc[p] \notin Freeing /\ pc'[p] \notin Freeing
    BY <1>1
  <2> QED BY <2>8, <2>9, <2>11, <2>12, <2>14, <2>15, <2>16, <2>17, <2>18, <2>19, <2>20, DiskStep
<1> QED BY <1>6, <1>7

\* The inode ip loses a link and is put.
LEMMA DropLink ==
  ASSUME FInv, NEW p \in Proc, NEW j \in Inum, j = fr[p].ip, pc[p] \in {"linkUndo", "unlinkInode"},
         mem' = [mem EXCEPT ![j] = [dsk[j] EXCEPT !.nlink = @ - 1]], iupdate({j}, mem'),
         dsk[j].type # "none", PutThen(p, j, "commit", [fr[p] EXCEPT !.ip = None]),
         valid' \in [Inum -> BOOLEAN],
         \A i \in Inum : (valid'[i] => valid[i] \/ i \in {j}) /\ (valid[i] => valid'[i]),
         busy' = [busy EXCEPT ![j] = NULL], busy[j] \in {NULL, p},
         UNCHANGED <<ents, ref, trans, cwd, file>>
  PROVE  Kept(p)
<1> DEFINE f == fr[p]
           h == [f EXCEPT !.ip = None]
           g == PutIn(h, j, "commit")
           v == [dsk[j] EXCEPT !.nlink = @ - 1]
<1> USE DEF Aim, Putting, Freeing, Bare, OnlyIp, OnlyDp, Both, Named, Creates, CreateAt, LinkAt
<1>1. f \in Frame /\ Shape(pc[p], f)
  BY DEF FInv, Types
<1>2. f.dp = None /\ f.puts = <<>> /\ f.k = "none"
  BY <1>1 DEF Shape, HasIp, HasDp
<1>3. Goto(p, "put", g)
  BY DEF PutThen, PutIn
<1>4. /\ g \in Frame /\ g.ip = None /\ g.dp = None /\ g.puts = <<j>>
      /\ g.k = "commit" /\ g.puts # <<>> /\ Len(g.puts) = 1
  <2>1. h \in Frame /\ h.ip = None /\ h.dp = f.dp
    BY <1>1 DEF Frame
  <2>2. "commit" \in Conts
    BY DEF Conts
  <2> HIDE DEF f, h
  <2> QED BY SMT, SMTT(30), <1>2, <2>1, <2>2, PutFrame
<1>5. v \in Inode /\ v.type = dsk[j].type
  <2>1. dsk[j] \in Inode
    BY DEF FInv, Types
  <2> QED BY <2>1, NlinkType
<1>6. mem' = [mem EXCEPT ![j] = v]
  OBVIOUS
<1> HIDE DEF f, h, g, v
<1>7. /\ mem' \in [Inum -> Inode] /\ mem'[j] = v /\ \A i \in Inum \ {j} : mem'[i] = mem[i]
  <2>1. mem \in [Inum -> Inode]
    BY DEF FInv, Types
  <2> QED BY SMT, SMTT(30), <1>5, <1>6, <2>1
<1>8. /\ dsk' \in [Inum -> Inode] /\ dsk'[j] = mem'[j] /\ \A i \in Inum \ {j} : dsk'[i] = dsk[i]
  BY SMT, SMTT(30), <1>7 DEF iupdate, FInv, Types
<1>9. Shape("put", g)
  BY <1>4 DEF Shape, HasIp, HasDp, Labels, Conts
<1>10. Moved(p, "put", g)
  BY <1>3, <1>9, GotoMoves DEF FInv
<1>11. busy' \in [Inum -> Proc \cup {NULL}] /\ busy'[j] = NULL /\ \A i \in Inum \ {j} : busy'[i] = busy[i]
  BY DEF FInv, Types
<1>12. Types' /\ Alone(p)
  BY <1>7, <1>8, <1>10, <1>11 DEF FInv, Types, Moved, Alone
<1>13. Balanced(p)
  BY <1>2, <1>4, <1>10, <1>12, PutIpBalanced DEF f, Moved
<1>14. (\A i \in Inum : ~Locks(pc'[p], fr'[p], i)) /\ Inside(pc'[p], fr'[p]) /\ CheckedAt(p)'
  BY <1>4, <1>10 DEF Moved, Locks, LocksIp, LocksDp, Frees, Inside, CheckedAt
<1>15. pc'[p] = "put"
  BY <1>10 DEF Moved
<1>16. LockStep(p)
  <2>1. \A i \in Inum : Locks(pc[p], fr[p], i) => i = j
    BY DEF Locks, LocksIp, LocksDp, Frees
  <2>2. busy[j] = p => Locks(pc[p], fr[p], j)
    BY SMT, SMTT(30), FileSysAssumption DEF FInv, Locked
  <2> QED BY <1>11, <1>14, <2>1, <2>2 DEF LockStep
<1>17. TransStep(p) /\ Apart(pc'[p], fr'[p]) /\ NoSelf'
  <2>1. Inside(pc[p], fr[p])
    BY DEF Inside
  <2> QED BY <1>14, <1>15, <2>1 DEF TransStep, Apart, FInv, InTrans, NoSelf
<1>18. /\ {j} \in SUBSET Inum /\ pc[p] \notin Freeing /\ pc'[p] \notin Freeing
       /\ \A i \in {j} : mem'[i] = dsk'[i] /\ dsk'[i].type = dsk[i].type /\ dsk[i].type # "none"
       /\ \A i \in Inum \ {j} : mem'[i] = mem[i] /\ dsk'[i] = dsk[i]
       /\ \A i \in Inum : valid'[i] => valid[i] \/ i \in {j}
  <2>1. {j} \in SUBSET Inum /\ pc[p] \notin Freeing /\ pc'[p] \notin Freeing
    BY <1>15
  <2>2. dsk'[j] = v /\ mem'[j] = v /\ v.type = dsk[j].type
    BY <1>5, <1>7, <1>8
  <2> QED BY <1>7, <1>8, <2>1, <2>2
<1> QED BY <1>12, <1>13, <1>14, <1>16, <1>17, <1>18, DiskStep

LEMMA LinkUndoStep ==
  ASSUME FInv, NEW p \in Proc, linkUndo(p)
  PROVE  Kept(p)
<1> DEFINE j == fr[p].ip
<1>1. pc[p] = "linkUndo" /\ Shape("linkUndo", fr[p])
  BY DEF linkUndo, At, FInv, Types
<1>2. j \in Inum
  BY <1>1 DEF Shape, HasIp, Aim, Putting, Freeing, OnlyIp
<1>3. /\ CanLock(j) /\ valid' = [valid EXCEPT ![j] = TRUE]
      /\ mem' = [mem EXCEPT ![j] = [Copy(j) EXCEPT !.nlink = @ - 1]] /\ iupdate({j}, mem')
      /\ PutThen(p, j, "commit", [fr[p] EXCEPT !.ip = None])
      /\ UNCHANGED <<ents, ref, busy, trans, cwd, file>>
  BY DEF linkUndo, Loaded, procs
<1> USE <1>2, <1>3
<1>4. busy[j] = NULL /\ Copy(j) = dsk[j] /\ dsk[j].type # "none"
  BY Lockable
<1>5. busy' = [busy EXCEPT ![j] = NULL]
  BY <1>4 DEF FInv, Types
<1>6. /\ valid' \in [Inum -> BOOLEAN]
      /\ \A i \in Inum : (valid'[i] => valid[i] \/ i \in {j}) /\ (valid[i] => valid'[i])
  BY DEF FInv, Types
<1> QED BY <1>1, <1>4, <1>5, <1>6, DropLink

LEMMA UnlinkInodeStep ==
  ASSUME FInv, NEW p \in Proc, unlinkInode(p)
  PROVE  Kept(p)
<1> DEFINE j == fr[p].ip
<1>1. pc[p] = "unlinkInode" /\ Shape("unlinkInode", fr[p])
  BY DEF unlinkInode, At, FInv, Types
<1> USE <1>1
<1>2. j \in Inum
  BY DEF Shape, HasIp, Aim, Putting, Freeing, OnlyIp
<1>3. /\ mem' = [mem EXCEPT ![j] = [mem[j] EXCEPT !.nlink = @ - 1]] /\ iupdate({j}, mem')
      /\ PutThen(p, j, "commit", [fr[p] EXCEPT !.ip = None]) /\ busy' = [busy EXCEPT ![j] = NULL]
      /\ UNCHANGED <<ents, ref, valid, trans, cwd, file>>
  BY DEF unlinkInode, procs, iunlockput, iunlock
<1>4. Locks(pc[p], fr[p], j)
  BY DEF Locks, LocksIp, Aim, Putting, Freeing
<1>5. busy[j] = p /\ mem[j] = dsk[j] /\ dsk[j].type # "none"
  BY <1>2, <1>4, Held
<1>6. valid' \in [Inum -> BOOLEAN]
  BY <1>3 DEF FInv, Types
<1> QED BY <1>2, <1>3, <1>5, <1>6, DropLink


\* A directory gets or loses an entry.
LEMMA EntStep ==
  ASSUME FInv, NEW d \in Inum, NEW n \in Elem, NEW i \in Inum \cup {None}, i # d,
         ents' = [ents EXCEPT ![d][n] = i]
  PROVE  ents' \in [Inum -> [Elem -> Inum \cup {None}]] /\ NoSelf'
<1>1. ents \in [Inum -> [Elem -> Inum \cup {None}]]
  BY DEF FInv, Types
<1>2. ents' \in [Inum -> [Elem -> Inum \cup {None}]]
  BY <1>1
<1>3. \A e \in Inum, m \in Elem : ents'[e][m] = IF e = d /\ m = n THEN i ELSE ents[e][m]
  BY <1>1
<1>4. \A m \in Name : m \in Elem
  BY DEF Elem
<1> QED BY <1>2, <1>3, <1>4 DEF NoSelf, FInv

\* The locals once dp and the name are dropped.
LEMMA DropDp ==
  ASSUME NEW f \in Frame
  PROVE  LET h == [f EXCEPT !.dp = None, !.path = <<>>]
         IN  /\ h \in Frame /\ h.ip = f.ip /\ h.dp = None /\ h.op = f.op
             /\ h.puts = f.puts /\ h.k = f.k
<1> DEFINE e == <<>>
<1>1. e \in Path
  BY SMT, SMTT(30) DEF Path
<1> HIDE DEF e
<1>2. LET h == [f EXCEPT !.dp = None, !.path = e]
      IN  /\ h \in Frame /\ h.ip = f.ip /\ h.dp = None /\ h.op = f.op
          /\ h.puts = f.puts /\ h.k = f.k
  BY <1>1 DEF Frame
<1> QED BY <1>2 DEF e

\* The locals of a call that puts i and j and then commits.
PutBoth(f, i, j) == [f EXCEPT !.ip = None, !.puts = <<i, j>>, !.k = "commit"]

LEMMA PutTwo ==
  ASSUME NEW f \in Frame, NEW i \in Inum, NEW j \in Inum
  PROVE  LET g == PutBoth(f, i, j) IN
         /\ g \in Frame /\ g.ip = None /\ g.dp = f.dp /\ g.op = f.op /\ g.k = "commit"
         /\ g.puts # <<>> /\ Len(g.puts) = 2 /\ Head(g.puts) = i /\ g.puts[2] = j
<1> DEFINE g == PutBoth(f, i, j)
           s == <<i, j>>
<1>1. s \in Seq(Inum) /\ Len(s) = 2 /\ Head(s) = i /\ s[2] = j
  BY SMT, SMTT(30)
<1>2. s # <<>>
  OBVIOUS
<1> HIDE DEF s
<1>3. g = [f EXCEPT !.ip = None, !.puts = s, !.k = "commit"]
  BY DEF s, PutBoth
<1> HIDE DEF g
<1>4. g \in Frame /\ g.ip = None /\ g.dp = f.dp /\ g.op = f.op /\ g.k = "commit" /\ g.puts = s
  BY <1>1, <1>3 DEF Frame, Conts
<1> QED BY <1>1, <1>2, <1>4 DEF g

LEMMA LinkEntryStep ==
  ASSUME FInv, NEW p \in Proc, linkEntry(p)
  PROVE  Kept(p)
<1> DEFINE f == fr[p]
           i == f.ip
           d == f.dp
           n == Head(f.path)
           h == [f EXCEPT !.dp = None, !.path = <<>>]
           g == PutIn(h, d, "linkUndo")
           w == PutBoth(h, d, i)
<1> USE DEF Aim, Putting, Freeing, Bare, OnlyIp, OnlyDp, Both, Named, Creates, CreateAt, LinkAt
<1>1. pc[p] = "linkEntry" /\ f \in Frame /\ Shape("linkEntry", f)
  BY DEF linkEntry, At, FInv, Types
<1>2. /\ i \in Inum /\ d \in Inum /\ f.puts = <<>> /\ f.k = "none" /\ f.op = "link2"
      /\ n \in Elem
  BY <1>1 DEF Shape, HasIp, HasDp
<1>3. /\ CanLock(d) /\ valid' = [valid EXCEPT ![d] = TRUE] /\ mem' = [mem EXCEPT ![d] = Copy(d)]
      /\ UNCHANGED <<dsk, ref, busy, trans, cwd, file>>
  BY DEF linkEntry, procs, load, Loaded
<1>4. (\A j \in Inum : ~Locks(pc[p], fr[p], j)) /\ Inside(pc[p], fr[p])
  BY <1>1 DEF Locks, LocksIp, LocksDp, Frees, Inside
<1> USE <1>2
<1>5. Copy(d) = dsk[d] /\ dsk[d].type # "none"
  BY <1>3, Lockable
<1>6. h \in Frame /\ h.ip = i /\ h.dp = None /\ h.op = "link2" /\ h.puts = <<>> /\ h.k = "none"
  BY <1>1, DropDp
<1>7. \A j \in Inum : (valid'[j] => valid[j] \/ j \in {d}) /\ (valid[j] => valid'[j])
  <2> HIDE DEF d
  <2> QED BY <1>3 DEF FInv, Types
<1>8. mem' \in [Inum -> Inode] /\ valid' \in [Inum -> BOOLEAN] /\ mem'[d] = dsk[d]
  <2> HIDE DEF d
  <2> QED BY <1>3, <1>5 DEF FInv, Types
<1>9. CASE dirlookup(d, n) # None
  <2>1. Goto(p, "put", g) /\ ents' = ents
    BY <1>9 DEF linkEntry, PutThen, PutIn
  <2>2. /\ g \in Frame /\ g.ip = i /\ g.dp = None /\ g.puts = <<d>> /\ g.op = "link2"
        /\ g.k = "linkUndo" /\ g.puts # <<>> /\ Len(g.puts) = 1
    <3>1. "linkUndo" \in Conts
      BY DEF Conts
    <3> HIDE DEF f, i, d, h
    <3> QED BY SMT, SMTT(30), <1>6, <3>1, PutFrame
  <2> HIDE DEF f, i, d, n, h, g
  <2> USE <2>2
  <2>3. Shape("put", g)
    BY DEF Shape, HasIp, HasDp, Labels, Conts
  <2> USE <2>1
  <2>4. Moved(p, "put", g)
    BY <2>3, GotoMoves DEF FInv
  <2> USE <2>4
  <2>5. Types' /\ Alone(p)
    BY <1>3, <1>8 DEF FInv, Types, Moved, Alone
  <2>6. Balanced(p)
    <3>1. pc'[p] = "put" /\ fr'[p] = g
      BY DEF Moved
    <3> QED BY <1>1, <1>3, <2>5, <3>1, PutDpBalanced DEF f, i, d
  <2>7. (\A j \in Inum : ~Locks(pc'[p], fr'[p], j)) /\ Inside(pc'[p], fr'[p]) /\ CheckedAt(p)'
    BY DEF Moved, Locks, LocksIp, LocksDp, Frees, Inside, CheckedAt
  <2>8. pc'[p] = "put"
    BY DEF Moved
  <2> QED BY <1>1, <1>3, <1>4, <1>7, <2>5, <2>6, <2>7, <2>8, LoadStep
<1>10. CASE dirlookup(d, n) = None
  <2>1. Goto(p, "put", w) /\ ents' = [ents EXCEPT ![d][n] = i]
    BY <1>10 DEF linkEntry, dirlink, PutBoth
  <2>2. /\ w \in Frame /\ w.ip = None /\ w.dp = None /\ w.k = "commit"
        /\ w.puts # <<>> /\ Len(w.puts) = 2 /\ Head(w.puts) = d /\ w.puts[2] = i
    <3> HIDE DEF f, i, d, h
    <3> QED BY SMT, SMTT(30), <1>6, PutTwo
  <2>3. i # d
    <3>1. Stays(i, {"file", "dev"}) /\ Stays(d, {"dir"})
      BY <1>1 DEF FInv, Checked
    <3> QED BY <3>1 DEF Stays
  <2> HIDE DEF f, i, d, n, h, g, w
  <2>4. ents' \in [Inum -> [Elem -> Inum \cup {None}]] /\ NoSelf'
    BY <2>1, <2>3, EntStep
  <2>5. Shape("put", w)
    BY <2>2 DEF Shape, HasIp, HasDp, Labels, Conts
  <2>6. Moved(p, "put", w)
    BY <2>1, <2>5, GotoMoves DEF FInv
  <2>7. Types' /\ Alone(p)
    BY <1>3, <1>8, <2>4, <2>6 DEF FInv, Types, Moved, Alone
  <2>8. Balanced(p)
    <3> SUFFICES ASSUME NEW j \in Inum PROVE ref'[j] = ref[j] + OwnOf(p, j)' - OwnOf(p, j)
      BY DEF Balanced
    <3>1. OwnOf(p, j) = One(cwd[p] = j) + One(file[p] = j) + One(i = j) + One(d = j)
      BY SMT, SMTT(30), <1>1, OwnQuiet DEF OwnOf, f, i, d
    <3>2. OwnOf(p, j)' = Own("put", w, cwd[p], file[p], j)
      BY <1>3, <2>6 DEF OwnOf, Moved
    <3>3. j # None
      BY RefInt
    <3>4. OwnOf(p, j)' = One(cwd[p] = j) + One(file[p] = j) + One(d = j) + One(i = j)
      BY SMT, SMTT(30), <2>2, <3>2, <3>3 DEF Own, One
    <3>5. ref[j] \in Int
      BY DEF FInv, Types
    <3> QED BY SMT, SMTT(30), <1>3, <3>1, <3>4, <3>5 DEF One
  <2>9. pc'[p] = "put" /\ fr'[p] = w
    BY <2>6 DEF Moved
  <2> USE <2>9
  <2>10. (\A j \in Inum : ~Locks(pc'[p], fr'[p], j)) /\ Inside(pc'[p], fr'[p]) /\ CheckedAt(p)'
    BY <2>2 DEF Locks, LocksIp, LocksDp, Frees, Inside, CheckedAt
  <2> USE <2>10
  <2>11. LockStep(p)
    BY <1>3, <1>4, <1>7, KeepsLocks
  <2>12. TransStep(p) /\ Apart(pc'[p], fr'[p])
    BY <1>3, <1>4 DEF TransStep, Apart, FInv, InTrans
  <2>13. /\ {d} \in SUBSET Inum /\ pc[p] \notin Freeing /\ pc'[p] \notin Freeing
         /\ \A j \in {d} : mem'[j] = dsk'[j] /\ dsk'[j].type = dsk[j].type /\ dsk[j].type # "none"
         /\ \A j \in Inum \ {d} : mem'[j] = mem[j] /\ dsk'[j] = dsk[j]
         /\ \A j \in Inum : valid'[j] => valid[j] \/ j \in {d}
    BY <1>1, <1>3, <1>5, <1>7, <1>8 DEF FInv, Types
  <2> QED BY <2>4, <2>7, <2>8, <2>11, <2>12, <2>13, DiskStep
<1> QED BY <1>9, <1>10


\* Steps that unlock and put the directory dp; one keeps the lock of ip.
LEMMA UnlockDp ==
  ASSUME FInv, NEW p \in Proc, NEW k,
         \/ pc[p] = "unlinkBad" /\ k = "commit"
         \/ pc[p] = "unlinkEntry" /\ k = "unlinkInode"
         \/ pc[p] = "createInit" /\ k = "created",
         NEW h \in Frame, h.ip = fr[p].ip, h.dp = None, h.op = fr[p].op,
         iunlockput(p, fr[p].dp, k, h), UNCHANGED <<ref, valid, trans, cwd, file>>,
         mem' \in [Inum -> Inode], dsk' \in [Inum -> Inode],
         ents' \in [Inum -> [Elem -> Inum \cup {None}]]
  PROVE  /\ Types' /\ Alone(p) /\ Balanced(p) /\ LockStep(p) /\ Apart(pc'[p], fr'[p])
         /\ TransStep(p) /\ CheckedAt(p)' /\ pc[p] \notin Freeing /\ pc'[p] \notin Freeing
<1> DEFINE f == fr[p]
           d == f.dp
           g == PutIn(h, d, k)
<1> USE DEF Aim, Putting, Freeing, Bare, OnlyIp, OnlyDp, Both, Named, Creates, CreateAt, LinkAt
<1>1. f \in Frame /\ Shape(pc[p], f) /\ k \in Conts
  BY DEF FInv, Types, Conts
<1>2. /\ d \in Inum /\ f.puts = <<>> /\ f.k = "none"
      /\ IF pc[p] = "unlinkBad" THEN f.ip = None ELSE f.ip \in Inum
      /\ pc[p] = "createInit" => f.op \in Creates
  BY <1>1 DEF Shape, HasIp, HasDp
<1>3. Goto(p, "put", g) /\ busy' = [busy EXCEPT ![d] = NULL]
  BY DEF iunlockput, iunlock, PutThen, PutIn
<1>4. /\ g \in Frame /\ g.ip = f.ip /\ g.dp = None /\ g.puts = <<d>> /\ g.op = f.op
      /\ g.k = k /\ g.puts # <<>> /\ Len(g.puts) = 1
  <2> HIDE DEF d
  <2> QED BY SMT, SMTT(30), <1>1, <1>2, PutFrame
<1> HIDE DEF f, d, g
<1>5. Shape("put", g)
  BY <1>1, <1>2, <1>4 DEF Shape, HasIp, HasDp, Labels
<1>6. Moved(p, "put", g)
  BY <1>3, <1>5, GotoMoves DEF FInv
<1>7. busy' \in [Inum -> Proc \cup {NULL}] /\ busy'[d] = NULL /\ \A i \in Inum \ {d} : busy'[i] = busy[i]
  BY <1>2, <1>3 DEF FInv, Types
<1>8. Types' /\ Alone(p)
  BY <1>6, <1>7 DEF FInv, Types, Moved, Alone
<1>9. pc'[p] = "put" /\ fr'[p] = g
  BY <1>6 DEF Moved
<1> USE <1>9
<1>10. Balanced(p)
  BY <1>2, <1>4, <1>8, PutDpBalanced DEF f, d
<1>11. /\ \A i \in Inum : Locks(pc[p], fr[p], i) <=> i = d \/ (pc[p] # "unlinkBad" /\ i = f.ip)
       /\ \A i \in Inum : Locks(pc'[p], fr'[p], i) <=> pc[p] # "unlinkBad" /\ i = f.ip
  BY <1>2, <1>4 DEF Locks, LocksIp, LocksDp, Frees, f, d
<1>12. pc[p] # "unlinkBad" => f.ip # d
  BY DEF FInv, Locked, Apart, f, d
<1>13. LockStep(p)
  <2>1. \A i \in Inum : Locks(pc[p], fr[p], i) => busy[i] = p /\ valid[i]
    BY Held
  <2> QED BY <1>2, <1>7, <1>11, <1>12, <2>1 DEF LockStep
<1>14. Inside(pc[p], fr[p]) /\ Inside(pc'[p], fr'[p])
  BY <1>4 DEF Inside
<1>15. TransStep(p) /\ Apart(pc'[p], fr'[p]) /\ CheckedAt(p)'
  BY <1>4, <1>14 DEF TransStep, Apart, CheckedAt, FInv, InTrans
<1> QED BY <1>8, <1>10, <1>13, <1>15

LEMMA UnlinkBadStep ==
  ASSUME FInv, NEW p \in Proc, unlinkBad(p)
  PROVE  Kept(p)
<1> DEFINE h == [fr[p] EXCEPT !.dp = None]
<1>1. pc[p] = "unlinkBad" /\ fr[p] \in Frame /\ fr[p].dp \in Inum
  BY DEF unlinkBad, At, FInv, Types, Shape, HasDp, Aim, Putting, Freeing, OnlyDp
<1>2. /\ iunlockput(p, fr[p].dp, "commit", h)
      /\ UNCHANGED <<dsk, ents, mem, ref, valid, trans, cwd, file>>
  BY DEF unlinkBad, disk, procs
<1> USE <1>1
<1>3. h \in Frame /\ h.ip = fr[p].ip /\ h.dp = None /\ h.op = fr[p].op
  BY DEF Frame
<1> HIDE DEF h
<1> USE <1>2
<1>4. /\ mem' \in [Inum -> Inode] /\ dsk' \in [Inum -> Inode]
      /\ ents' \in [Inum -> [Elem -> Inum \cup {None}]]
  BY DEF FInv, Types
<1>5. /\ Types' /\ Alone(p) /\ Balanced(p) /\ LockStep(p) /\ Apart(pc'[p], fr'[p])
      /\ TransStep(p) /\ CheckedAt(p)' /\ pc[p] \notin Freeing /\ pc'[p] \notin Freeing
  BY <1>3, <1>4, UnlockDp
<1>6. FreeStep(p)
  BY <1>5, NoFree
<1> QED BY <1>5, <1>6, CacheStep

LEMMA UnlinkEntryStep ==
  ASSUME FInv, NEW p \in Proc, unlinkEntry(p)
  PROVE  Kept(p)
<1> DEFINE f == fr[p]
           i == f.ip
           d == f.dp
           n == Head(f.path)
           dir == mem[i].type = "dir"
<1> USE DEF Aim, Putting, Freeing, Bare, OnlyIp, OnlyDp, Both, Named, Creates, CreateAt, LinkAt
<1>1. pc[p] = "unlinkEntry" /\ f \in Frame /\ Shape("unlinkEntry", f)
  BY DEF unlinkEntry, At, FInv, Types
<1>2. /\ i \in Inum /\ d \in Inum /\ f.puts = <<>> /\ f.k = "none" /\ n \in Elem
  BY <1>1 DEF Shape, HasIp, HasDp
<1>3. \A j \in Inum : Locks(pc[p], fr[p], j) <=> j = i \/ j = d
  BY <1>1 DEF Locks, LocksIp, LocksDp, Frees
<1> USE <1>2
<1>4. \A j \in {i, d} : busy[j] = p /\ valid[j] /\ mem[j] = dsk[j] /\ dsk[j].type # "none"
  BY SMT, SMTT(30), <1>1, <1>3, Held
<1>5. i # d
  BY <1>1 DEF FInv, Locked, Apart
<1>6. CASE /\ dir /\ ~isdirempty(i)
           /\ iunlockput(p, i, "unlinkBad", [f EXCEPT !.ip = None])
           /\ UNCHANGED <<disk, mem, ref, valid, trans, procs, panic>>
  <2> DEFINE h == [f EXCEPT !.ip = None]
             g == PutIn(h, i, "unlinkBad")
  <2>1. /\ Goto(p, "put", g) /\ busy' = [busy EXCEPT ![i] = NULL]
        /\ UNCHANGED <<dsk, ents, mem, ref, valid, trans, cwd, file>>
    BY <1>6 DEF iunlockput, iunlock, PutThen, PutIn, disk, procs
  <2>2. /\ g \in Frame /\ g.ip = None /\ g.dp = d /\ g.puts = <<i>>
        /\ g.k = "unlinkBad" /\ g.puts # <<>> /\ Len(g.puts) = 1
    <3>1. h \in Frame /\ h.ip = None /\ h.dp = d
      BY <1>1 DEF Frame
    <3>2. "unlinkBad" \in Conts
      BY DEF Conts
    <3> HIDE DEF f, i, d, h
    <3> QED BY SMT, SMTT(30), <3>1, <3>2, PutFrame
  <2> HIDE DEF f, i, d, n, dir, h, g
  <2> USE <2>2
  <2>3. Shape("put", g)
    BY DEF Shape, HasIp, HasDp, Labels, Conts
  <2> USE <2>1
  <2>4. Moved(p, "put", g)
    BY <2>3, GotoMoves DEF FInv
  <2>5. busy' \in [Inum -> Proc \cup {NULL}] /\ busy'[i] = NULL /\ \A j \in Inum \ {i} : busy'[j] = busy[j]
    BY DEF FInv, Types
  <2>6. Types' /\ Alone(p)
    BY <2>4, <2>5 DEF FInv, Types, Moved, Alone
  <2>7. pc'[p] = "put" /\ fr'[p] = g
    BY <2>4 DEF Moved
  <2> USE <2>7
  <2>8. Balanced(p)
    BY <1>1, <2>6, PutIpBalanced DEF f, i, d
  <2>9. \A j \in Inum : Locks(pc'[p], fr'[p], j) <=> j = d
    BY DEF Locks, LocksIp, LocksDp, Frees
  <2>10. LockStep(p)
    BY <1>3, <1>4, <1>5, <2>5, <2>9 DEF LockStep
  <2>11. Inside(pc[p], fr[p]) /\ Inside(pc'[p], fr'[p])
    BY <1>1 DEF Inside
  <2>12. TransStep(p) /\ Apart(pc'[p], fr'[p]) /\ CheckedAt(p)'
    BY <2>11 DEF TransStep, Apart, CheckedAt, FInv, InTrans
  <2>13. FreeStep(p)
    BY NoFree
  <2> QED BY <1>1, <2>6, <2>8, <2>10, <2>12, <2>13, CacheStep
<1>7. CASE /\ ents' = [ents EXCEPT ![d][n] = None]
           /\ mem' = [mem EXCEPT ![d].nlink = IF dir THEN @ - 1 ELSE @]
           /\ iupdate(IF dir THEN {d} ELSE {}, mem')
           /\ iunlockput(p, d, "unlinkInode", [f EXCEPT !.dp = None, !.path = <<>>])
           /\ UNCHANGED <<lost, ref, valid, trans, procs, panic>>
  <2> DEFINE h == [f EXCEPT !.dp = None, !.path = <<>>]
             m == IF dir THEN mem[d].nlink - 1 ELSE mem[d].nlink
             v == [mem[d] EXCEPT !.nlink = m]
  <2>1. h \in Frame /\ h.ip = fr[p].ip /\ h.dp = None /\ h.op = fr[p].op
    BY <1>1, DropDp
  <2>2. mem[d] \in Inode /\ m \in Int
    <3> HIDE DEF i, d
    <3> QED BY SMT, SMTT(30) DEF FInv, Types, Inode
  <2>3. v \in Inode /\ v.type = mem[d].type
    <3> HIDE DEF m
    <3> QED BY <2>2, NlinkType
  <2>4. mem' = [mem EXCEPT ![d] = v]
    BY <1>7
  <2>5. ~dir => v = mem[d]
    BY <2>2 DEF Inode
  <2>6. /\ iunlockput(p, fr[p].dp, "unlinkInode", h) /\ UNCHANGED <<ref, valid, trans, cwd, file>>
        /\ dsk' = [j \in Inum |-> IF j \in (IF dir THEN {d} ELSE {}) THEN mem'[j] ELSE dsk[j]]
    BY <1>7 DEF procs, iupdate
  <2>7. ents' \in [Inum -> [Elem -> Inum \cup {None}]] /\ NoSelf'
    <3>1. None # d
      BY RefInt
    <3> HIDE DEF d, n
    <3> QED BY <1>7, <3>1, EntStep
  <2> HIDE DEF f, i, d, n, dir, h, v, m
  <2>8. /\ mem' \in [Inum -> Inode] /\ mem'[d] = v /\ \A j \in Inum \ {d} : mem'[j] = mem[j]
    BY <2>3, <2>4 DEF FInv, Types
  <2> USE <2>6, <2>8
  <2>9. /\ dsk' \in [Inum -> Inode] /\ dsk'[d] = mem'[d]
        /\ \A j \in Inum \ {d} : dsk'[j] = dsk[j]
    <3>1. CASE dir
      BY <3>1 DEF FInv, Types
    <3>2. CASE ~dir
      BY <1>4, <2>5, <3>2 DEF FInv, Types
    <3> QED BY <3>1, <3>2
  <2>10. /\ Types' /\ Alone(p) /\ Balanced(p) /\ LockStep(p) /\ Apart(pc'[p], fr'[p])
         /\ TransStep(p) /\ CheckedAt(p)' /\ pc[p] \notin Freeing /\ pc'[p] \notin Freeing
    BY <1>1, <2>1, <2>7, <2>9, UnlockDp
  <2>11. /\ {d} \in SUBSET Inum
         /\ \A j \in {d} : mem'[j] = dsk'[j] /\ dsk'[j].type = dsk[j].type /\ dsk[j].type # "none"
         /\ \A j \in Inum \ {d} : mem'[j] = mem[j] /\ dsk'[j] = dsk[j]
         /\ \A j \in Inum : valid'[j] => valid[j] \/ j \in {d}
    BY <1>4, <2>3, <2>9
  <2> QED BY <2>7, <2>10, <2>11, DiskStep
<1> QED BY <1>6, <1>7 DEF unlinkEntry


LEMMA CreateInitStep ==
  ASSUME FInv, NEW p \in Proc, createInit(p)
  PROVE  Kept(p)
<1> DEFINE f == fr[p]
           i == f.ip
           d == f.dp
           n == Head(f.path)
           dir == TypeOf(f.op) = "dir"
           h == [f EXCEPT !.dp = None, !.path = <<>>]
           m == IF dir THEN mem[d].nlink + 1 ELSE mem[d].nlink
           u == [mem[i] EXCEPT !.nlink = 1]
           v == [mem[d] EXCEPT !.nlink = m]
           x == IF dir THEN d ELSE None
           dots == [ents EXCEPT ![i][DotDot] = x]
<1> USE DEF Aim, Putting, Freeing, Bare, OnlyIp, OnlyDp, Both, Named, Creates, CreateAt, LinkAt
<1>1. pc[p] = "createInit" /\ f \in Frame /\ Shape("createInit", f)
  BY DEF createInit, At, FInv, Types
<1>2. i \in Inum /\ d \in Inum /\ n \in Elem /\ DotDot \in Elem
  BY <1>1 DEF Shape, HasIp, HasDp, Elem
<1>3. \A j \in Inum : Locks(pc[p], fr[p], j) <=> j = i \/ j = d
  BY <1>1 DEF Locks, LocksIp, LocksDp, Frees
<1>4. \A j \in {i, d} : busy[j] = p /\ valid[j] /\ mem[j] = dsk[j] /\ dsk[j].type # "none"
  BY SMT, SMTT(30), <1>1, <1>2, <1>3, Held
<1>5. i # d
  BY <1>1 DEF FInv, Locked, Apart
<1>6. h \in Frame /\ h.ip = fr[p].ip /\ h.dp = None /\ h.op = fr[p].op
  BY <1>1, DropDp
<1>7. mem[i] \in Inode /\ mem[d] \in Inode /\ m \in Int /\ x \in Inum \cup {None}
  <2> HIDE DEF i, d
  <2> QED BY SMT, SMTT(30), <1>2 DEF FInv, Types, Inode
<1>8. u \in Inode /\ u.type = mem[i].type /\ v \in Inode /\ v.type = mem[d].type
  <2>1. u \in Inode /\ u.type = mem[i].type
    <3> HIDE DEF i
    <3> QED BY SMT, SMTT(30), <1>7 DEF Inode
  <2>2. v \in Inode /\ v.type = mem[d].type
    <3> HIDE DEF m
    <3> QED BY <1>7, NlinkType
  <2> QED BY <2>1, <2>2
<1>9. /\ iunlockput(p, fr[p].dp, "created", h) /\ UNCHANGED <<ref, valid, trans, cwd, file>>
      /\ dsk' = [j \in Inum |-> IF j \in (IF dir THEN {i, d} ELSE {i}) THEN mem'[j] ELSE dsk[j]]
      /\ ents' = [dots EXCEPT ![d][n] = i]
  BY DEF createInit, procs, iupdate, dirlink
<1>10. mem' = [mem EXCEPT ![i].nlink = 1, ![d].nlink = IF dir THEN @ + 1 ELSE @]
  BY DEF createInit
<1>11. /\ mem' \in [Inum -> Inode] /\ mem'[i] = u /\ mem'[d] = v
       /\ \A j \in Inum \ {i, d} : mem'[j] = mem[j]
  <2>1. mem \in [Inum -> Inode]
    BY DEF FInv, Types
  <2>2. mem' = [[mem EXCEPT ![i] = u] EXCEPT ![d] = v]
    <3> DEFINE a == [mem EXCEPT ![i] = u]
    <3>1. a[d] = mem[d]
      <4> HIDE DEF i, d, u
      <4> QED BY <1>2, <1>5, <2>1
    <3>2. mem' = [a EXCEPT ![d].nlink = IF dir THEN mem[d].nlink + 1 ELSE mem[d].nlink]
      <4> HIDE DEF i, d, dir
      <4> QED BY <1>10, <3>1
    <3> HIDE DEF dir, i, d, a
    <3> QED BY <3>1, <3>2 DEF a
  <2> HIDE DEF u, v, i, d
  <2> QED BY <1>2, <1>5, <1>8, <2>1, <2>2
<1>12. ~dir => v = mem[d]
  BY <1>7 DEF Inode
<1>13. ents' \in [Inum -> [Elem -> Inum \cup {None}]] /\ NoSelf'
  <2>1. ents \in [Inum -> [Elem -> Inum \cup {None}]]
    BY DEF FInv, Types
  <2>2. x # i
    BY <1>2, <1>5, RefInt
  <2> HIDE DEF i, d, n, x, f
  <2>3. dots \in [Inum -> [Elem -> Inum \cup {None}]]
    BY <1>2, <1>7, <2>1
  <2>4. \A e \in Inum, c \in Elem : dots[e][c] = IF e = i /\ c = DotDot THEN x ELSE ents[e][c]
    BY <1>2, <1>7, <2>1
  <2> HIDE DEF dots
  <2>5. ents' \in [Inum -> [Elem -> Inum \cup {None}]]
    BY <1>2, <1>9, <2>3
  <2>6. \A e \in Inum, c \in Elem : ents'[e][c] = IF e = d /\ c = n THEN i ELSE dots[e][c]
    BY <1>2, <1>9, <2>3
  <2>7. \A c \in Name : c \in Elem
    BY DEF Elem
  <2>8. ASSUME NEW e \in Inum, NEW c \in Name PROVE ents'[e][c] # e
    <3>1. c \in Elem /\ ents[e][c] # e
      BY <2>7 DEF NoSelf, FInv
    <3> USE <3>1
    <3>2. CASE e = d /\ c = n
      BY <1>5, <2>6, <3>2
    <3>3. CASE ~(e = d /\ c = n)
      <4>1. ents'[e][c] = dots[e][c]
        BY <2>6, <3>3
      <4>2. dots[e][c] # e
        BY <2>2, <2>4
      <4> QED BY <4>1, <4>2
    <3> QED BY <3>2, <3>3
  <2> QED BY <2>5, <2>8 DEF NoSelf
<1> HIDE DEF f, i, d, n, dir, h, m, u, v, x, dots
<1> USE <1>11
<1>14. /\ dsk' \in [Inum -> Inode] /\ dsk'[d] = mem'[d] /\ dsk'[i] = mem'[i]
       /\ \A j \in Inum \ {i, d} : dsk'[j] = dsk[j]
  <2>1. CASE dir
    BY <1>2, <1>9, <2>1 DEF FInv, Types
  <2>2. CASE ~dir
    BY <1>2, <1>4, <1>5, <1>9, <1>12, <2>2 DEF FInv, Types
  <2> QED BY <2>1, <2>2
<1>15. /\ Types' /\ Alone(p) /\ Balanced(p) /\ LockStep(p) /\ Apart(pc'[p], fr'[p])
       /\ TransStep(p) /\ CheckedAt(p)' /\ pc[p] \notin Freeing /\ pc'[p] \notin Freeing
  BY <1>1, <1>6, <1>9, <1>13, <1>14, UnlockDp
<1>16. /\ {i, d} \in SUBSET Inum
       /\ \A j \in {i, d} : mem'[j] = dsk'[j] /\ dsk'[j].type = dsk[j].type /\ dsk[j].type # "none"
       /\ \A j \in Inum \ {i, d} : mem'[j] = mem[j] /\ dsk'[j] = dsk[j]
       /\ \A j \in Inum : valid'[j] => valid[j] \/ j \in {i, d}
  BY <1>2, <1>4, <1>8, <1>9, <1>14
<1> QED BY <1>13, <1>15, <1>16, DiskStep


-----------------------------------------------------------------------------
(***************************************************************************)
(* Steps that take a pointer.                                              *)
(***************************************************************************)
\* v is valid as the rest of the step leaves it.
LEMMA Iget ==
  ASSUME FInv, NEW j \in Inum, NEW v \in [Inum -> BOOLEAN],
         iget(j, v) \/ (idup(j) /\ v = valid)
  PROVE  /\ ref' \in [Inum -> Int] /\ \A i \in Inum : ref'[i] = ref[i] + One(i = j)
         /\ valid' \in [Inum -> BOOLEAN]
         /\ \A i \in Inum : (valid'[i] => v[i]) /\ (v[i] => valid'[i] \/ ref[i] = 0)
<1>1. ref \in [Inum -> Int]
  BY DEF FInv, Types
<1>2. ref' = [ref EXCEPT ![j] = @ + 1]
  BY DEF iget, idup
<1>3. ref' \in [Inum -> Int] /\ \A i \in Inum : ref'[i] = ref[i] + One(i = j)
  BY SMT, SMTT(30), <1>1, <1>2 DEF One
<1>4. valid' = v \/ (ref[j] = 0 /\ valid' = [v EXCEPT ![j] = FALSE])
  BY DEF iget, idup
<1> QED BY <1>3, <1>4

\* namex starts at an inode and takes a pointer to it.
LEMMA NamexStep ==
  ASSUME FInv, NEW p \in Proc, pc[p] \in {"user", "linkNew"}, NEW f \in Frame, namex(p, f),
         f.op \in Ops, f.puts = <<>>, f.k = "none", f.ip = fr[p].ip, f.dp = None,
         fr[p].dp = None, fr[p].puts = <<>>, fr[p].k = "none",
         IF f.op = "link2" THEN pc[p] = "linkNew" /\ f.ip \in Inum /\ fr[p].op = "link2"
                           ELSE pc[p] = "user" /\ f.ip = None,
         IF f.op \in Creates THEN trans = NULL /\ trans' = p ELSE trans' = trans,
         UNCHANGED <<dsk, ents, mem, busy, cwd, file>>
  PROVE  Kept(p)
<1> USE DEF Aim, Putting, Freeing, Bare, OnlyIp, OnlyDp, Both, Named, Creates, CreateAt, LinkAt
<1>1. PICK path \in Paths[f.op] :
        LET absolute == path # <<>> /\ Head(path) = Slash
            i == IF absolute THEN ROOTINO ELSE cwd[p]
        IN /\ IF absolute THEN iget(i, valid) ELSE idup(i)
           /\ Goto(p, "walk", [SetCur(f, i) EXCEPT !.path = path])
  BY DEF namex
<1>2. path \in Path
  BY FileSysAssumption DEF Path
<1>3. ROOTINO \in Inum /\ cwd[p] \in Inum
  BY SMT, SMTT(30), FileSysAssumption DEF ROOTINO, Inum, FInv, Types
<1>4. PICK i \in Inum : /\ iget(i, valid) \/ idup(i)
                        /\ Goto(p, "walk", [SetCur(f, i) EXCEPT !.path = path])
  BY <1>1, <1>3
<1> DEFINE g == [SetCur(f, i) EXCEPT !.path = path]
<1>5. /\ g \in Frame /\ g.op = f.op /\ g.puts = <<>> /\ g.k = "none"
      /\ IF f.op = "link2" THEN g.ip = f.ip /\ g.dp = i ELSE g.ip = i /\ g.dp = None
  BY <1>2 DEF SetCur, Frame
<1>6. /\ ref' \in [Inum -> Int] /\ \A j \in Inum : ref'[j] = ref[j] + One(j = i)
      /\ valid' \in [Inum -> BOOLEAN]
      /\ \A j \in Inum : (valid'[j] => valid[j]) /\ (valid[j] => valid'[j] \/ ref[j] = 0)
  <2>1. valid \in [Inum -> BOOLEAN]
    BY DEF FInv, Types
  <2> QED BY <1>4, <2>1, Iget
<1>7. Goto(p, "walk", g)
  BY <1>4
<1> HIDE DEF g
<1>8. Shape("walk", g)
  BY <1>5 DEF Shape, HasIp, HasDp, Labels
<1>9. Moved(p, "walk", g)
  BY <1>7, <1>8, GotoMoves DEF FInv
<1>10. Types' /\ Alone(p)
  BY <1>6, <1>9 DEF FInv, Types, Moved, Alone
<1>11. pc'[p] = "walk" /\ fr'[p] = g
  BY <1>9 DEF Moved
<1> USE <1>11
<1>12. Balanced(p)
  <2>1. \/ fr'[p].ip = fr[p].ip /\ fr'[p].dp = i /\ fr[p].dp = None
        \/ fr'[p].ip = i /\ fr[p].ip = None /\ fr'[p].dp = fr[p].dp
    BY <1>5
  <2>2. fr'[p].puts = <<>> /\ fr'[p].k = "none" /\ pc'[p] # "chdirEnd"
    BY <1>5
  <2> QED BY <1>6, <1>10, <2>1, <2>2, GetBalanced
<1>13. \A j \in Inum : ~Locks(pc[p], fr[p], j) /\ ~Locks(pc'[p], fr'[p], j)
  BY DEF Locks, LocksIp, LocksDp, Frees
<1>14. LockStep(p)
  BY <1>6, <1>13, KeepsLocks
<1>15. /\ Inside(pc[p], fr[p]) <=> f.op = "link2"
       /\ Inside(pc'[p], fr'[p]) <=> f.op \in Creates \cup {"link2"}
  BY <1>5 DEF Inside
<1>16. TransStep(p) /\ Apart(pc'[p], fr'[p])
  BY <1>15, FileSysAssumption DEF TransStep, Apart, FInv, InTrans
<1>17. CheckedAt(p)'
  <2>1. CASE f.op # "link2"
    BY <1>5, <2>1 DEF CheckedAt
  <2>2. CASE f.op = "link2"
    <3>1. Stays(f.ip, {"file", "dev"})
      BY <2>2 DEF FInv, Checked
    <3>2. \A q \in Proc : ~Frees(pc'[q], fr'[q], f.ip)
      BY <1>10, <3>1 DEF Stays, Frees, Alone
    <3> QED BY <1>5, <2>2, <3>1, <3>2 DEF CheckedAt, Stays
  <2> QED BY <2>1, <2>2
<1>18. FreeStep(p)
  BY NoFree
<1>19. \A j \in Inum : valid'[j] => valid[j] /\ mem'[j] = mem[j]
  BY <1>6
<1> QED BY <1>10, <1>12, <1>14, <1>16, <1>17, <1>18, <1>19, CacheStep

LEMMA LookupStep ==
  ASSUME FInv, NEW p \in Proc, NEW op \in {"open", "unlink", "link", "chdir"}, Lookup(p, op)
  PROVE  Kept(p)
<1> DEFINE f == [Idle EXCEPT !.op = op]
<1>1. pc[p] = "user" /\ fr[p] = Idle
  BY DEF Lookup, Call, At, FInv, Types, Shape
<1>2. namex(p, f) /\ UNCHANGED <<dsk, ents, mem, busy, trans, cwd, file>>
  BY DEF Lookup, disk
<1>3. f.op = op /\ f.puts = <<>> /\ f.k = "none" /\ f.ip = None /\ f.dp = None /\ f \in Frame
  BY IdleFrame DEF Frame, Ops
<1> HIDE DEF f
<1> QED BY <1>1, <1>2, <1>3, IdleFrame, NamexStep DEF Ops, Creates

LEMMA CreateStep ==
  ASSUME FInv, NEW p \in Proc, sys_create(p)
  PROVE  Kept(p)
<1>1. pc[p] = "user" /\ fr[p] = Idle
  BY DEF sys_create, Call, At, FInv, Types, Shape
<1>2. PICK op \in {"create", "mkdir", "mknod"} : namex(p, [Idle EXCEPT !.op = op])
  BY DEF sys_create
<1> DEFINE f == [Idle EXCEPT !.op = op]
<1>3. trans = NULL /\ trans' = p /\ UNCHANGED <<dsk, ents, mem, busy, cwd, file>>
  BY DEF sys_create, disk
<1>4. f.op = op /\ f.puts = <<>> /\ f.k = "none" /\ f.ip = None /\ f.dp = None /\ f \in Frame
  BY IdleFrame DEF Frame, Ops
<1>5. namex(p, f)
  BY <1>2
<1> HIDE DEF f
<1> QED BY <1>1, <1>3, <1>4, <1>5, IdleFrame, NamexStep DEF Ops, Creates

LEMMA LinkNewStep ==
  ASSUME FInv, NEW p \in Proc, linkNew(p)
  PROVE  Kept(p)
<1> DEFINE f == fr[p]
<1> USE DEF Aim, Putting, Freeing, Bare, OnlyIp, OnlyDp, Both, Named, Creates, CreateAt, LinkAt
<1>1. pc[p] = "linkNew" /\ f \in Frame /\ Shape("linkNew", f)
  BY DEF linkNew, At, FInv, Types
<1>2. f.ip \in Inum /\ f.dp = None /\ f.puts = <<>> /\ f.k = "none" /\ f.op = "link2"
  BY <1>1 DEF Shape, HasIp, HasDp
<1>3. namex(p, f) /\ UNCHANGED <<dsk, ents, mem, busy, trans, cwd, file>>
  BY DEF linkNew, disk, procs
<1> QED BY <1>1, <1>2, <1>3, NamexStep DEF Ops


LEMMA UnlinkLookStep ==
  ASSUME FInv, NEW p \in Proc, unlinkLook(p)
  PROVE  Kept(p)
<1> DEFINE f == fr[p]
           d == f.dp
           n == Head(f.path)
           i == dirlookup(d, n)
           bad == n = DotDot \/ i = None
           l == IF bad THEN "unlinkBad" ELSE "unlinkLock"
           g == IF bad THEN f ELSE [f EXCEPT !.ip = i]
<1> USE DEF Aim, Putting, Freeing, Bare, OnlyIp, OnlyDp, Both, Named, Creates, CreateAt, LinkAt
<1>1. pc[p] = "unlinkLook" /\ f \in Frame /\ Shape("unlinkLook", f)
  BY DEF unlinkLook, At, FInv, Types
<1>2. /\ d \in Inum /\ f.ip = None /\ f.puts = <<>> /\ f.k = "none"
      /\ n \in Elem /\ f.path # <<>>
  BY <1>1 DEF Shape, HasIp, HasDp
<1>3. i \in Inum \cup {None}
  <2> HIDE DEF d, n
  <2> QED BY SMT, SMTT(30), <1>2 DEF FInv, Types, dirlookup
<1>4. ~bad => i \in Inum /\ i # d
  <2>1. n # DotDot => n \in Name
    BY <1>2 DEF Elem
  <2> HIDE DEF d, n
  <2> QED BY <1>2, <1>3, <2>1 DEF FInv, NoSelf, dirlookup
<1>5. /\ Goto(p, l, g) /\ UNCHANGED <<dsk, ents, mem, busy, trans, cwd, file>>
      /\ IF bad THEN UNCHANGED <<ref, valid>> ELSE iget(i, valid)
  BY DEF unlinkLook, disk, procs
<1>6. /\ g \in Frame /\ g.dp = d /\ g.puts = <<>> /\ g.k = "none" /\ g.path = f.path
      /\ g.op = f.op /\ g.ip = IF bad THEN None ELSE i
  <2>1. CASE bad
    BY <1>1, <1>2, <2>1
  <2>2. CASE ~bad
    <3> HIDE DEF i, bad
    <3> QED BY <1>1, <1>2, <1>4, <2>2 DEF Frame
  <2> QED BY <2>1, <2>2
<1> USE <1>5
<1>7. /\ ref' \in [Inum -> Int] /\ valid' \in [Inum -> BOOLEAN]
      /\ \A j \in Inum : ref'[j] = ref[j] + One(~bad /\ j = i)
      /\ \A j \in Inum : (valid'[j] => valid[j]) /\ (valid[j] => valid'[j] \/ ref[j] = 0)
  <2> HIDE DEF i, bad
  <2>1. ref \in [Inum -> Int] /\ valid \in [Inum -> BOOLEAN]
    BY DEF FInv, Types
  <2>2. CASE bad
    BY SMT, SMTT(30), <2>1, <2>2 DEF One
  <2>3. CASE ~bad
    <3>1. iget(i, valid) /\ i \in Inum
      BY <1>4, <2>3
    <3> QED BY SMT, SMTT(30), <2>1, <2>3, <3>1, Iget
  <2> QED BY <2>2, <2>3
<1>8. n = Head(g.path)
  BY <1>6
<1> HIDE DEF f, d, n, i, bad, g
<1>9. Shape(l, g)
  BY <1>2, <1>4, <1>6, <1>8 DEF Shape, HasIp, HasDp, Labels, f, n
<1>10. Moved(p, l, g)
  BY <1>9, GotoMoves DEF FInv
<1>11. Types' /\ Alone(p)
  BY <1>7, <1>10 DEF FInv, Types, Moved, Alone
<1>12. pc'[p] = l /\ fr'[p] = g /\ fr[p].ip = None /\ fr[p].dp = d
  BY <1>2, <1>10 DEF Moved, f, d
<1> USE <1>12
<1>13. Balanced(p)
  <2> DEFINE r == IF bad THEN None ELSE i
  <2>1. \A j \in Inum : ref'[j] = ref[j] + One(j = r)
    BY <1>7, RefInt DEF One
  <2>2. /\ fr[p].puts = <<>> /\ fr[p].k = "none" /\ pc[p] # "chdirEnd"
        /\ fr'[p].puts = <<>> /\ fr'[p].k = "none" /\ pc'[p] # "chdirEnd"
        /\ fr'[p].ip = r /\ fr[p].ip = None /\ fr'[p].dp = fr[p].dp
    BY <1>1, <1>2, <1>6 DEF f
  <2>3. cwd' = cwd /\ file' = file
    OBVIOUS
  <2> HIDE DEF r
  <2> QED BY <1>11, <2>1, <2>2, <2>3, GetBalanced
<1>14. \A j \in Inum : (Locks(pc[p], fr[p], j) <=> j = d) /\ (Locks(pc'[p], fr'[p], j) <=> j = d)
  BY <1>1, <1>6 DEF Locks, LocksIp, LocksDp, Frees
<1>15. LockStep(p)
  BY <1>7, <1>14, KeepsLocks
<1>16. Inside(pc[p], fr[p]) /\ Inside(pc'[p], fr'[p])
  BY <1>1 DEF Inside
<1>17. TransStep(p) /\ Apart(pc'[p], fr'[p]) /\ CheckedAt(p)'
  BY <1>4, <1>6, <1>16 DEF TransStep, Apart, CheckedAt, FInv, InTrans
<1>18. FreeStep(p)
  BY NoFree
<1>19. \A j \in Inum : valid'[j] => valid[j] /\ mem'[j] = mem[j]
  BY <1>7
<1> QED BY <1>1, <1>2, <1>11, <1>13, <1>15, <1>17, <1>18, <1>19, CacheStep


LEMMA CreateLookStep ==
  ASSUME FInv, NEW p \in Proc, createLook(p)
  PROVE  Kept(p)
<1> DEFINE f == fr[p]
           d == f.ip
           n == Head(f.path)
           i == dirlookup(d, n)
<1> USE DEF Aim, Putting, Freeing, Bare, OnlyIp, OnlyDp, Both, Named, Creates, CreateAt, LinkAt
<1>1. pc[p] = "createLook" /\ f \in Frame /\ Shape("createLook", f)
  BY DEF createLook, At, FInv, Types
<1>2. /\ d \in Inum /\ f.dp = None /\ f.puts = <<>> /\ f.k = "none"
      /\ n \in Elem /\ f.path # <<>> /\ f.op \in Creates
  BY <1>1 DEF Shape, HasIp, HasDp
<1>3. i \in Inum \cup {None}
  <2> HIDE DEF d, n
  <2> QED BY SMT, SMTT(30), <1>2 DEF FInv, Types, dirlookup
<1>4. \A j \in Inum : Locks(pc[p], fr[p], j) <=> j = d
  BY <1>1 DEF Locks, LocksIp, LocksDp, Frees
<1>5. busy[d] = p /\ valid[d] /\ mem[d] = dsk[d] /\ dsk[d].type # "none"
  BY SMT, SMTT(30), <1>1, <1>2, <1>4, Held
<1>6. Inside(pc[p], fr[p]) /\ valid \in [Inum -> BOOLEAN]
  BY <1>1 DEF Inside, FInv, Types
<1>7. CASE /\ i # None /\ iget(i, valid)
           /\ iunlockput(p, d, "createOld", [f EXCEPT !.ip = i])
           /\ UNCHANGED <<disk, mem, trans, procs>>
  <2> DEFINE h == [f EXCEPT !.ip = i]
             g == PutIn(h, d, "createOld")
  <2>1. /\ Goto(p, "put", g) /\ busy' = [busy EXCEPT ![d] = NULL] /\ iget(i, valid) /\ i \in Inum
        /\ UNCHANGED <<dsk, ents, mem, trans, cwd, file>>
    BY <1>3, <1>7 DEF iunlockput, iunlock, PutThen, PutIn, disk, procs
  <2>2. /\ g \in Frame /\ g.ip = i /\ g.dp = None /\ g.puts = <<d>> /\ g.op = f.op
        /\ g.k = "createOld" /\ g.puts # <<>> /\ Len(g.puts) = 1
    <3>1. h \in Frame /\ h.ip = i /\ h.dp = None /\ h.op = f.op
      <4> HIDE DEF i
      <4> QED BY <1>1, <1>2, <2>1 DEF Frame
    <3>2. "createOld" \in Conts
      BY DEF Conts
    <3> HIDE DEF f, i, d, h
    <3> QED BY <1>2, <3>1, <3>2, PutFrame
  <2> HIDE DEF f, i, d, n, h, g
  <2>3. /\ ref' \in [Inum -> Int] /\ \A j \in Inum : ref'[j] = ref[j] + One(j = i)
        /\ valid' \in [Inum -> BOOLEAN]
        /\ \A j \in Inum : (valid'[j] => valid[j]) /\ (valid[j] => valid'[j] \/ ref[j] = 0)
    BY <1>6, <2>1, Iget
  <2>4. Shape("put", g)
    BY <1>2, <2>1, <2>2 DEF Shape, HasIp, HasDp, Labels, Conts
  <2>5. Moved(p, "put", g)
    BY <2>1, <2>4, GotoMoves DEF FInv
  <2>6. busy' \in [Inum -> Proc \cup {NULL}] /\ busy'[d] = NULL /\ \A j \in Inum \ {d} : busy'[j] = busy[j]
    BY <1>2, <2>1 DEF FInv, Types
  <2>7. Types' /\ Alone(p)
    BY <2>1, <2>3, <2>5, <2>6 DEF FInv, Types, Moved, Alone
  <2>8. pc'[p] = "put" /\ fr'[p] = g /\ fr[p].ip = d /\ fr[p].dp = None
    BY <1>2, <2>5 DEF Moved, f, d
  <2>9. Balanced(p)
    <3>1. /\ fr[p].puts = <<>> /\ fr[p].k = "none" /\ pc[p] # "chdirEnd"
          /\ fr'[p].k # "chdirEnd" /\ pc'[p] # "chdirEnd" /\ fr[p].ip \in Inum
          /\ fr'[p].puts = <<fr[p].ip>> /\ fr'[p].ip = i /\ fr'[p].dp = fr[p].dp
      BY <1>1, <1>2, <2>2, <2>8 DEF f
    <3>2. cwd' = cwd /\ file' = file
      BY <2>1
    <3> QED BY <2>3, <2>7, <3>1, <3>2, SwapBalanced
  <2>10. (\A j \in Inum : ~Locks(pc'[p], fr'[p], j)) /\ Inside(pc'[p], fr'[p])
    BY <2>2, <2>8 DEF Locks, LocksIp, LocksDp, Frees, Inside
  <2>11. LockStep(p)
    BY <1>2, <1>4, <2>3, <2>6, <2>10 DEF LockStep
  <2>12. TransStep(p) /\ Apart(pc'[p], fr'[p]) /\ CheckedAt(p)'
    BY <1>6, <2>1, <2>2, <2>8, <2>10 DEF TransStep, Apart, CheckedAt, FInv, InTrans
  <2>13. FreeStep(p)
    BY <2>8, NoFree
  <2>14. \A j \in Inum : valid'[j] => valid[j] /\ mem'[j] = mem[j]
    BY <2>1, <2>3
  <2> QED BY <1>1, <1>2, <2>1, <2>7, <2>9, <2>11, <2>12, <2>13, <2>14, CacheStep
<1>8. ASSUME NEW new \in FreeInodes,
             dsk' = [dsk EXCEPT ![new] = [type |-> TypeOf(f.op), nlink |-> 0]],
             iget(new, valid), Goto(p, "createLock", [f EXCEPT !.dp = d, !.ip = new]),
             UNCHANGED <<ents, lost, mem, busy, trans, procs>>
      PROVE  Kept(p)
  <2> DEFINE g == [f EXCEPT !.dp = d, !.ip = new]
             v == [type |-> TypeOf(f.op), nlink |-> 0]
  <2>1. new \in Inum /\ dsk[new].type = "none"
    BY DEF FreeInodes
  <2>2. new # d
    BY <1>5, <2>1
  <2>3. /\ g \in Frame /\ g.ip = new /\ g.dp = d /\ g.puts = <<>> /\ g.k = "none"
        /\ g.path = f.path /\ g.op = f.op
    BY <1>1, <1>2, <2>1 DEF Frame
  <2>4. v \in Inode
    BY SMT, SMTT(30), <1>2 DEF Inode, TypeOf
  <2>5. /\ Goto(p, "createLock", g) /\ iget(new, valid) /\ dsk' = [dsk EXCEPT ![new] = v]
        /\ UNCHANGED <<ents, mem, busy, trans, cwd, file>>
    BY <1>8 DEF procs
  <2>6. n = Head(g.path) /\ f.path = g.path
    BY <2>3
  <2> HIDE DEF f, i, d, n, g, v
  <2>7. dsk' \in [Inum -> Inode] /\ \A j \in Inum \ {new} : dsk'[j] = dsk[j]
    BY <2>1, <2>4, <2>5 DEF FInv, Types
  <2>8. /\ ref' \in [Inum -> Int] /\ \A j \in Inum : ref'[j] = ref[j] + One(j = new)
        /\ valid' \in [Inum -> BOOLEAN]
        /\ \A j \in Inum : (valid'[j] => valid[j]) /\ (valid[j] => valid'[j] \/ ref[j] = 0)
    BY <1>6, <2>1, <2>5, Iget
  <2>9. Shape("createLock", g)
    BY <1>2, <2>1, <2>3, <2>6 DEF Shape, HasIp, HasDp, Labels
  <2>10. Moved(p, "createLock", g)
    BY <2>5, <2>9, GotoMoves DEF FInv
  <2>11. Types' /\ Alone(p)
    BY <2>5, <2>7, <2>8, <2>10 DEF FInv, Types, Moved, Alone
  <2>12. pc'[p] = "createLock" /\ fr'[p] = g /\ fr[p].ip = d /\ fr[p].dp = None
    BY <1>2, <2>10 DEF Moved, f, d
  <2>13. Balanced(p)
    <3>1. /\ fr[p].puts = <<>> /\ fr[p].k = "none" /\ pc[p] # "chdirEnd"
          /\ fr'[p].puts = <<>> /\ fr'[p].k = "none" /\ pc'[p] # "chdirEnd"
          /\ fr'[p].ip = new /\ fr'[p].dp = fr[p].ip /\ fr[p].dp = None
      BY <1>1, <1>2, <2>3, <2>12 DEF f
    <3>2. cwd' = cwd /\ file' = file
      BY <2>5
    <3> QED BY <2>8, <2>11, <3>1, <3>2, GetBalanced
  <2>14. \A j \in Inum : Locks(pc'[p], fr'[p], j) <=> j = d
    BY <2>3, <2>12 DEF Locks, LocksIp, LocksDp, Frees
  <2>15. LockStep(p)
    BY <1>4, <2>5, <2>8, <2>14, KeepsLocks
  <2>16. Inside(pc'[p], fr'[p])
    BY <2>12 DEF Inside
  <2>17. TransStep(p) /\ Apart(pc'[p], fr'[p]) /\ CheckedAt(p)'
    BY <1>6, <2>2, <2>3, <2>5, <2>12, <2>16 DEF TransStep, Apart, CheckedAt, FInv, InTrans
  <2>18. FreeStep(p) /\ TypeStep(p)
    BY <2>1, <2>7, <2>12, NoFree DEF TypeStep
  <2>19. Coherent'
    <3>1. valid'[new] => Freed(new)
      BY <2>1, <2>8 DEF FInv, Coherent, Agrees
    <3>2. \A j \in Inum : valid'[j] =>
            \/ valid[j] /\ mem'[j] = mem[j] /\ dsk'[j] = dsk[j]
            \/ Freed(j)
      BY <2>5, <2>7, <2>8, <3>1
    <3> QED BY <1>1, <2>11, <3>2, CohStep
  <2>20. NoSelf'
    BY <2>5 DEF FInv, NoSelf
  <2> QED BY <2>11, <2>13, <2>15, <2>17, <2>18, <2>19, <2>20, Combine
<1>9. CASE Halt("ialloc: no inodes")
  BY <1>9, HaltStep
<1> QED BY <1>7, <1>8, <1>9 DEF createLook


-----------------------------------------------------------------------------
(***************************************************************************)
(* The walk.                                                               *)
(***************************************************************************)
\* A step reads j at most, and drops what nobody refers to.
Reads(j) ==
  /\ mem' \in [Inum -> Inode] /\ valid' \in [Inum -> BOOLEAN]
  /\ \A i \in Inum : valid'[i] => \/ valid[i] /\ mem'[i] = mem[i]
                                  \/ i = j /\ CanLock(j) /\ mem'[j] = Copy(j)
  /\ \A i \in Inum : valid[i] => valid'[i] \/ ref[i] = 0

LEMMA ReadsLoad ==
  ASSUME FInv, NEW j \in Inum, UNCHANGED <<mem, valid>> \/ (CanLock(j) /\ load(j))
  PROVE  Reads(j)
<1>1. mem \in [Inum -> Inode] /\ valid \in [Inum -> BOOLEAN] /\ dsk \in [Inum -> Inode]
  BY DEF FInv, Types
<1>2. CASE UNCHANGED <<mem, valid>>
  BY <1>1, <1>2 DEF Reads
<1>3. CASE CanLock(j) /\ load(j)
  <2> USE <1>3
  <2>1. valid' = [valid EXCEPT ![j] = TRUE] /\ mem' = [mem EXCEPT ![j] = Copy(j)]
    BY DEF load, Loaded
  <2>2. Copy(j) = dsk[j]
    BY Lockable
  <2> QED BY <1>1, <2>1, <2>2 DEF Reads
<1> QED BY <1>2, <1>3

LEMMA WalkCache ==
  ASSUME FInv, NEW p \in Proc, pc[p] = "walk", NEW j \in Inum, Reads(j),
         Types', Alone(p), Balanced(p), UNCHANGED <<dsk, ents, busy, trans>>,
         \A i \in Inum : ~Locks(pc'[p], fr'[p], i),
         pc'[p] \notin Freeing \cup (Both \ {"linkEntry"}),
         Inside(pc'[p], fr'[p]) <=> Inside(pc[p], fr[p]), CheckedAt(p)'
  PROVE  Kept(p)
<1>1. \A i \in Inum : ~Locks(pc[p], fr[p], i)
  BY DEF Locks, LocksIp, LocksDp, Frees, Aim, Putting, Freeing
<1>2. LockStep(p)
  BY <1>1, KeepsLocks DEF Reads
<1>3. FreeStep(p)
  BY NoFree
<1>4. TransStep(p)
  BY FileSysAssumption DEF TransStep, FInv, InTrans
<1>5. Apart(pc'[p], fr'[p]) /\ pc[p] \notin Freeing
  BY DEF Apart, Freeing
<1> QED BY <1>2, <1>3, <1>4, <1>5, CacheStep DEF Reads

\* The process stands on an inode of the path.
LEMMA WalkShape ==
  ASSUME FInv, NEW p \in Proc, pc[p] = "walk"
  PROVE  /\ fr[p] \in Frame /\ fr[p].ip \in Inum /\ fr[p].puts = <<>> /\ fr[p].k = "none"
         /\ fr[p].op \in Ops /\ fr[p].path \in Path /\ Cur(fr[p]) \in Inum
         /\ IF fr[p].op = "link2" THEN Cur(fr[p]) = fr[p].dp /\ Stays(fr[p].ip, {"file", "dev"})
                                  ELSE Cur(fr[p]) = fr[p].ip /\ fr[p].dp = None
         /\ Inside(pc[p], fr[p]) <=> fr[p].op \in Creates \cup {"link2"}
<1> USE DEF Aim, Putting, Freeing, Bare, OnlyIp, OnlyDp, Both, Named, Creates, CreateAt, LinkAt
<1>1. fr[p] \in Frame /\ Shape("walk", fr[p])
  BY DEF FInv, Types
<1> USE <1>1
<1>2. /\ fr[p].ip \in Inum /\ fr[p].puts = <<>> /\ fr[p].k = "none" /\ fr[p].op \in Ops
      /\ IF fr[p].op = "link2" THEN fr[p].dp \in Inum ELSE fr[p].dp = None
  BY DEF Shape, HasIp, HasDp
<1>3. fr[p].path \in Path
  BY DEF Frame
<1>4. fr[p].op = "link2" => Stays(fr[p].ip, {"file", "dev"})
  BY DEF FInv, Checked
<1> QED BY <1>2, <1>3, <1>4 DEF Cur, Inside

\* The check of link's old inode is not disturbed by its own walk.
LEMMA StaysWalk ==
  ASSUME NEW p \in Proc, NEW i \in Inum, NEW T, Stays(i, T), Alone(p), pc'[p] \notin Freeing, dsk' = dsk
  PROVE  dsk'[i].type \in T /\ \A q \in Proc : ~Frees(pc'[q], fr'[q], i)
BY DEF Stays, Alone, Frees

LEMMA WalkFail ==
  ASSUME FInv, NEW p \in Proc, pc[p] = "walk", Reads(Cur(fr[p])),
         PutThen(p, Cur(fr[p]), NotFound(fr[p].op), SetCur(fr[p], None)),
         UNCHANGED <<dsk, ents, ref, busy, trans, cwd, file>>
  PROVE  Kept(p)
<1> DEFINE f == fr[p]
           i == Cur(f)
           k == NotFound(f.op)
           h == SetCur(f, None)
           g == PutIn(h, i, k)
<1> USE DEF Aim, Putting, Freeing, Bare, OnlyIp, OnlyDp, Both, Named, Creates, CreateAt, LinkAt
<1>1. /\ f \in Frame /\ f.ip \in Inum /\ f.puts = <<>> /\ f.k = "none" /\ f.op \in Ops /\ i \in Inum
      /\ IF f.op = "link2" THEN i = f.dp ELSE i = f.ip /\ f.dp = None
      /\ Inside(pc[p], fr[p]) <=> f.op \in Creates \cup {"link2"}
  BY WalkShape
<1>2. /\ f.op = "link2" => k = "linkUndo"
      /\ f.op \in Creates => k = "commit"
      /\ f.op \notin Creates \cup {"link2"} => k = "user"
  BY <1>1 DEF NotFound, Ops
<1>3. /\ h \in Frame /\ h.op = f.op
      /\ IF f.op = "link2" THEN h.ip = f.ip /\ h.dp = None ELSE h.ip = None /\ h.dp = None
  <2> HIDE DEF f
  <2> QED BY <1>1 DEF SetCur, Frame
<1>4. Goto(p, "put", g)
  BY DEF PutThen, PutIn
<1>5. k \in Conts
  BY <1>2 DEF Conts
<1> HIDE DEF f, i, k, h
<1>6. /\ g \in Frame /\ g.ip = h.ip /\ g.dp = None /\ g.puts = <<i>> /\ g.op = f.op
      /\ g.k = k /\ g.puts # <<>> /\ Len(g.puts) = 1
  <2>1. h \in Frame /\ i \in Inum /\ h.op = f.op /\ h.dp = None
    BY <1>1, <1>3
  <2> QED BY <1>5, <2>1, PutFrame
<1> HIDE DEF g
<1>7. Shape("put", g)
  BY <1>1, <1>2, <1>3, <1>5, <1>6 DEF Shape, HasIp, HasDp, Labels
<1>8. Moved(p, "put", g)
  BY <1>4, <1>7, GotoMoves DEF FInv
<1>9. Types' /\ Alone(p)
  BY <1>8 DEF FInv, Types, Moved, Alone, Reads
<1>10. pc'[p] = "put" /\ fr'[p] = g
  BY <1>8 DEF Moved
<1> USE <1>10
<1>11. Balanced(p)
  <2>1. CASE f.op = "link2"
    BY <1>1, <1>2, <1>3, <1>6, <1>9, <2>1, PutDpBalanced DEF f
  <2>2. CASE f.op # "link2"
    BY <1>1, <1>2, <1>3, <1>6, <1>9, <2>2, PutIpBalanced DEF f
  <2> QED BY <2>1, <2>2
<1>12. \A j \in Inum : ~Locks(pc'[p], fr'[p], j)
  BY <1>2, <1>6 DEF Locks, LocksIp, LocksDp, Frees
<1>13. Inside(pc'[p], fr'[p]) <=> f.op \in Creates \cup {"link2"}
  BY <1>1, <1>2, <1>6 DEF Inside
<1>14. CheckedAt(p)'
  BY <1>2, <1>6 DEF CheckedAt
<1> QED BY <1>1, <1>9, <1>11, <1>12, <1>13, <1>14, WalkCache DEF i, f


LEMMA WalkFound ==
  ASSUME FInv, NEW p \in Proc, pc[p] = "walk", Reads(Cur(fr[p])), NEW g \in Frame,
         g.ip = fr[p].ip, g.dp = fr[p].dp, g.op = fr[p].op, g.puts = <<>>, g.k = "none",
         Goto(p, Found(fr[p].op), g),
         nameiparent(fr[p].op) => g.path # <<>> /\ Head(g.path) \in Elem,
         fr[p].op = "link2" => /\ dsk[fr[p].dp].type = "dir"
                               /\ \A q \in Proc : ~Frees(pc[q], fr[q], fr[p].dp),
         UNCHANGED <<dsk, ents, ref, busy, trans, cwd, file>>
  PROVE  Kept(p)
<1> DEFINE f == fr[p]
           i == Cur(f)
           l == Found(f.op)
<1> USE DEF Aim, Putting, Freeing, Bare, OnlyIp, OnlyDp, Both, Named, Creates, CreateAt, LinkAt
<1>1. /\ f \in Frame /\ f.ip \in Inum /\ f.puts = <<>> /\ f.k = "none" /\ f.op \in Ops /\ i \in Inum
      /\ IF f.op = "link2" THEN i = f.dp /\ Stays(f.ip, {"file", "dev"}) ELSE f.dp = None
      /\ Inside(pc[p], fr[p]) <=> f.op \in Creates \cup {"link2"}
  BY WalkShape
<1> USE <1>1
<1>2. /\ f.op = "link2" => l = "linkEntry"
      /\ f.op \in Creates => l = "createDir"
      /\ f.op = "unlink" => l = "unlinkTrans"
      /\ f.op \notin Creates \cup {"link2", "unlink"} => l \in {"openFile", "chdirPut", "linkTrans"}
  BY DEF Found, Ops
<1>3. f.op \in Creates \cup {"link2", "unlink"} => nameiparent(f.op)
  BY DEF nameiparent
<1>4. Goto(p, l, g)
  OBVIOUS
<1> HIDE DEF f, i, l
<1>5. Shape(l, g) /\ l # "user"
  BY <1>2, <1>3 DEF Shape, HasIp, HasDp, Labels, f
<1>6. Moved(p, l, g)
  BY <1>4, <1>5, GotoMoves DEF FInv
<1>7. Types' /\ Alone(p)
  BY <1>6 DEF FInv, Types, Moved, Alone, Reads
<1>8. pc'[p] = l /\ fr'[p] = g
  BY <1>6 DEF Moved
<1>9. l \notin Freeing /\ l # "chdirEnd" /\ l \notin Both \ {"linkEntry"}
  BY <1>2
<1> USE <1>8
<1>10. Balanced(p)
  <2>1. /\ fr[p].puts = <<>> /\ fr[p].k = "none" /\ fr'[p].puts = <<>> /\ fr'[p].k = "none"
        /\ fr'[p].ip = fr[p].ip /\ fr'[p].dp = fr[p].dp
    BY DEF f
  <2>2. \A j \in Inum : ref'[j] = ref[j] + One(j = None)
    BY SMT, SMTT(30), RefInt DEF One
  <2> QED BY <1>7, <1>9, <2>1, <2>2, GetBalanced
<1>11. \A j \in Inum : ~Locks(pc'[p], fr'[p], j)
  <2>1. f.op = "create" => l # "openFile"
    BY <1>2
  <2> QED BY <1>2, <2>1 DEF Locks, LocksIp, LocksDp, Frees, f
<1>12. Inside(pc'[p], fr'[p]) <=> f.op \in Creates \cup {"link2"}
  BY <1>2 DEF Inside
<1>13. CheckedAt(p)'
  <2>1. CASE f.op # "link2"
    BY <1>2, <2>1 DEF CheckedAt, f
  <2>2. CASE f.op = "link2"
    <3> USE <2>2
    <3>1. dsk'[f.ip].type \in {"file", "dev"} /\ \A q \in Proc : ~Frees(pc'[q], fr'[q], f.ip)
      BY <1>7, <1>9, StaysWalk
    <3>2. Stays(f.dp, {"dir"}) /\ f.dp \in Inum
      BY DEF Stays, f
    <3>3. dsk'[f.dp].type \in {"dir"} /\ \A q \in Proc : ~Frees(pc'[q], fr'[q], f.dp)
      BY <1>7, <1>9, <3>2, StaysWalk
    <3> QED BY <3>1, <3>3 DEF CheckedAt, Stays, f
  <2> QED BY <2>1, <2>2
<1> QED BY <1>7, <1>9, <1>10, <1>11, <1>12, <1>13, WalkCache DEF i, f

LEMMA WalkOn ==
  ASSUME FInv, NEW p \in Proc, pc[p] = "walk", CanLock(Cur(fr[p])), NEW next \in Inum,
         NEW rest \in Path, iget(next, Loaded(Cur(fr[p]))),
         mem' = [mem EXCEPT ![Cur(fr[p])] = Copy(Cur(fr[p]))],
         PutThen(p, Cur(fr[p]), "walk", [SetCur(fr[p], next) EXCEPT !.path = rest]),
         UNCHANGED <<dsk, ents, busy, trans, cwd, file>>
  PROVE  Kept(p)
<1> DEFINE f == fr[p]
           i == Cur(f)
           h == [SetCur(f, next) EXCEPT !.path = rest]
           g == PutIn(h, i, "walk")
<1> USE DEF Aim, Putting, Freeing, Bare, OnlyIp, OnlyDp, Both, Named, Creates, CreateAt, LinkAt
<1>1. /\ f \in Frame /\ f.ip \in Inum /\ f.puts = <<>> /\ f.k = "none" /\ f.op \in Ops /\ i \in Inum
      /\ IF f.op = "link2" THEN i = f.dp /\ Stays(f.ip, {"file", "dev"}) ELSE i = f.ip /\ f.dp = None
      /\ Inside(pc[p], fr[p]) <=> f.op \in Creates \cup {"link2"}
  BY WalkShape
<1>2. /\ h \in Frame /\ h.op = f.op
      /\ IF f.op = "link2" THEN h.ip = f.ip /\ h.dp = next ELSE h.ip = next /\ h.dp = None
  <2> HIDE DEF f
  <2> QED BY <1>1 DEF SetCur, Frame
<1>3. Goto(p, "put", g) /\ valid \in [Inum -> BOOLEAN] /\ mem \in [Inum -> Inode]
  BY DEF PutThen, PutIn, FInv, Types
<1>4. Copy(i) = dsk[i] /\ dsk[i] \in Inode
  <2>1. Copy(i) = dsk[i]
    BY <1>1, Lockable
  <2> HIDE DEF i
  <2> QED BY <1>1, <2>1 DEF FInv, Types
<1>5. CanLock(i) /\ iget(next, Loaded(i)) /\ mem' = [mem EXCEPT ![i] = Copy(i)]
  OBVIOUS
<1> HIDE DEF f, i, h
<1>6. Loaded(i) \in [Inum -> BOOLEAN] /\ \A j \in Inum : Loaded(i)[j] <=> valid[j] \/ j = i
  BY <1>1, <1>3 DEF Loaded
<1>7. /\ ref' \in [Inum -> Int] /\ \A j \in Inum : ref'[j] = ref[j] + One(j = next)
      /\ valid' \in [Inum -> BOOLEAN]
      /\ \A j \in Inum : (valid'[j] => Loaded(i)[j]) /\ (Loaded(i)[j] => valid'[j] \/ ref[j] = 0)
  BY <1>5, <1>6, Iget
<1>8. Reads(i)
  <2>1. mem' \in [Inum -> Inode] /\ mem'[i] = Copy(i) /\ \A j \in Inum \ {i} : mem'[j] = mem[j]
    BY <1>1, <1>3, <1>4, <1>5
  <2> QED BY <1>5, <1>6, <1>7, <2>1 DEF Reads
<1>9. /\ g \in Frame /\ g.ip = h.ip /\ g.dp = h.dp /\ g.puts = <<i>> /\ g.op = f.op
      /\ g.k = "walk" /\ g.puts # <<>> /\ Len(g.puts) = 1
  <2>1. "walk" \in Conts
    BY DEF Conts
  <2>2. h \in Frame /\ i \in Inum /\ h.op = f.op
    BY <1>1, <1>2
  <2> QED BY <2>1, <2>2, PutFrame
<1> HIDE DEF g
<1> USE <1>9
<1>10. Shape("put", g)
  BY <1>1, <1>2 DEF Shape, HasIp, HasDp, Labels, Conts
<1>11. Moved(p, "put", g)
  BY <1>3, <1>10, GotoMoves DEF FInv
<1>12. Types' /\ Alone(p)
  BY <1>7, <1>8, <1>11 DEF FInv, Types, Moved, Alone, Reads
<1>13. pc'[p] = "put" /\ fr'[p] = g
  BY <1>11 DEF Moved
<1> USE <1>13
<1>14. Balanced(p)
  <2>1. \/ /\ fr[p].ip \in Inum /\ fr'[p].puts = <<fr[p].ip>>
           /\ fr'[p].ip = next /\ fr'[p].dp = fr[p].dp
        \/ /\ fr[p].dp \in Inum /\ fr'[p].puts = <<fr[p].dp>>
           /\ fr'[p].dp = next /\ fr'[p].ip = fr[p].ip
    BY <1>1, <1>2 DEF f
  <2>2. /\ fr[p].puts = <<>> /\ fr[p].k = "none" /\ pc[p] # "chdirEnd"
        /\ fr'[p].k # "chdirEnd" /\ pc'[p] # "chdirEnd"
    BY <1>1 DEF f
  <2> QED BY <1>7, <1>12, <2>1, <2>2, SwapBalanced
<1>15. \A j \in Inum : ~Locks(pc'[p], fr'[p], j)
  BY DEF Locks, LocksIp, LocksDp, Frees
<1>16. Inside(pc'[p], fr'[p]) <=> f.op \in Creates \cup {"link2"}
  BY DEF Inside
<1>17. CheckedAt(p)'
  <2>1. CASE f.op # "link2"
    BY <2>1 DEF CheckedAt
  <2>2. CASE f.op = "link2"
    <3>1. dsk'[f.ip].type \in {"file", "dev"} /\ \A q \in Proc : ~Frees(pc'[q], fr'[q], f.ip)
      BY <1>1, <1>12, <2>2, StaysWalk
    <3> QED BY <1>2, <2>2, <3>1 DEF CheckedAt, Stays
  <2> QED BY <2>1, <2>2
<1> QED BY <1>1, <1>8, <1>12, <1>14, <1>15, <1>16, <1>17, WalkCache

LEMMA WalkStep ==
  ASSUME FInv, Skips, NEW p \in Proc, walk(p)
  PROVE  Kept(p)
<1> DEFINE f == fr[p]
           i == Cur(f)
           elem == skipelem(f.path)
           stop == nameiparent(f.op) /\ elem.rest = <<>>
           next == dirlookup(i, elem.name)
           fail == PutThen(p, i, NotFound(f.op), SetCur(f, None))
           dir == Copy(i).type = "dir"
           g == [f EXCEPT !.path = <<elem.name>>]
<1>1. pc[p] = "walk" /\ UNCHANGED <<dsk, ents, busy, trans, cwd, file>>
  BY DEF walk, At, disk, procs
<1>2. /\ f \in Frame /\ i \in Inum /\ f.puts = <<>> /\ f.k = "none" /\ f.op \in Ops /\ f.path \in Path
      /\ f.op = "link2" => i = f.dp
  BY <1>1, WalkShape
<1> USE <1>2
<1>3. elem # NoElem => elem.name \in Elem /\ elem.rest \in Path
  BY DEF Skips
<1>4. CASE /\ elem = NoElem
           /\ IF nameiparent(f.op) THEN fail ELSE Goto(p, Found(f.op), f)
           /\ UNCHANGED <<mem, ref, valid, panic>>
  <2> USE <1>4
  <2>1. Reads(i)
    BY ReadsLoad
  <2>2. CASE nameiparent(f.op)
    BY <1>1, <2>1, <2>2, WalkFail
  <2>3. CASE ~nameiparent(f.op)
    <3>1. Goto(p, Found(f.op), f) /\ ref' = ref /\ f.op # "link2"
      BY <2>3 DEF nameiparent
    <3> QED BY <1>1, <2>1, <2>3, <3>1, WalkFound
  <2> QED BY <2>2, <2>3
<1>5. CASE CanLock(i) /\ load(i) /\ fail /\ UNCHANGED <<ref, panic>>
  <2>1. Reads(i)
    BY <1>5, ReadsLoad
  <2> QED BY <1>1, <1>5, <2>1, WalkFail
<1>6. CASE /\ elem # NoElem /\ CanLock(i) /\ dir /\ stop
           /\ load(i) /\ Goto(p, Found(f.op), g) /\ UNCHANGED <<ref, panic>>
  <2> USE <1>6
  <2>1. Reads(i)
    BY ReadsLoad
  <2>2. dsk[i].type = "dir" /\ \A q \in Proc : ~Frees(pc[q], fr[q], i)
    BY Lockable
  <2>3. /\ g \in Frame /\ g.ip = f.ip /\ g.dp = f.dp /\ g.op = f.op /\ g.puts = <<>> /\ g.k = "none"
        /\ g.path # <<>> /\ Head(g.path) \in Elem
    <3> DEFINE s == <<elem.name>>
    <3>1. s \in Path /\ s # <<>> /\ Head(s) \in Elem
      <4> HIDE DEF elem
      <4> QED BY SMT, SMTT(30), <1>3 DEF Path
    <3>2. g = [f EXCEPT !.path = s]
      OBVIOUS
    <3> HIDE DEF s, f, g
    <3> QED BY <3>1, <3>2 DEF Frame
  <2>4. Goto(p, Found(f.op), g) /\ ref' = ref
    OBVIOUS
  <2> HIDE DEF g, elem, stop, dir, next, fail
  <2> QED BY <1>1, <2>1, <2>2, <2>3, <2>4, WalkFound
<1>7. CASE /\ elem # NoElem /\ CanLock(i) /\ dir /\ ~stop /\ next # None
           /\ iget(next, Loaded(i)) /\ mem' = [mem EXCEPT ![i] = Copy(i)]
           /\ PutThen(p, i, "walk", [SetCur(f, next) EXCEPT !.path = elem.rest])
  <2> USE <1>7
  <2>1. next \in Inum
    <3>1. ents[i][elem.name] \in Inum \cup {None}
      <4> HIDE DEF i, elem
      <4>1. i \in Inum /\ elem.name \in Elem
        BY <1>3
      <4>2. ents \in [Inum -> [Elem -> Inum \cup {None}]]
        BY DEF FInv, Types
      <4>3. ents[i] \in [Elem -> Inum \cup {None}]
        BY <4>1, <4>2
      <4> QED BY <4>1, <4>3
    <3> QED BY <3>1 DEF dirlookup
  <2>2. elem.rest \in Path
    BY <1>3
  <2> HIDE DEF elem, stop, next, fail, dir, g
  <2> QED BY <1>1, <2>1, <2>2, WalkOn
<1> QED BY <1>4, <1>5, <1>6, <1>7 DEF walk

-----------------------------------------------------------------------------
(***************************************************************************)
(* Every step, and what the invariant says of the locks.                   *)
(***************************************************************************)
LEMMA InitKept ==
  ASSUME Init, ref \in [Inum -> Int]
  PROVE  Types /\ Locked /\ Coherent /\ InTrans /\ Checked /\ NoSelf
<1>1. ROOTINO \in Inum /\ 2 \in Inum /\ 3 \in Inum /\ 1 \in Inum
  BY SMT, SMTT(30), FileSysAssumption DEF ROOTINO, Inum
<1>2. PICK t \in {"file", "dir"} :
        /\ dsk = [i \in Inum |->
             CASE i = ROOTINO -> [type |-> "dir", nlink |-> 2]
               [] i = 2 -> [type |-> "dir", nlink |-> IF t = "dir" THEN 2 ELSE 1]
               [] i = 3 -> [type |-> t, nlink |-> 1]
               [] OTHER -> [type |-> "none", nlink |-> 0]]
        /\ ents = [i \in Inum |-> [n \in Elem |->
             CASE n = DotDot /\ i = ROOTINO -> ROOTINO
               [] n = DotDot /\ i # ROOTINO /\ dsk[i].type = "dir" -> i - 1
               [] i = ROOTINO /\ n = "d" -> 2
               [] i = 2 /\ n = "a" -> 3
               [] OTHER -> None]]
        /\ cwd \in [Proc -> {ROOTINO, IF t = "dir" THEN 3 ELSE 2}]
        /\ mem = [i \in Inum |-> [type |-> "none", nlink |-> 0]]
        /\ ref = [i \in Inum |-> Cardinality({p \in Proc : cwd[p] = i})]
        /\ valid = [i \in Inum |-> FALSE] /\ busy = [i \in Inum |-> NULL] /\ trans = NULL
        /\ file = [p \in Proc |-> None] /\ pc = [p \in Proc |-> "user"]
        /\ fr = [p \in Proc |-> Idle]
  BY DEF Init
<1>3. dsk \in [Inum -> Inode] /\ mem \in [Inum -> Inode]
  BY SMT, SMTT(30), <1>2 DEF Inode
<1>4. \A i \in Inum : dsk[i].type = "dir" => i \in {1, 2, 3}
  BY <1>2 DEF ROOTINO
<1>5. ents \in [Inum -> [Elem -> Inum \cup {None}]]
  <2>1. \A i \in Inum : i # ROOTINO /\ dsk[i].type = "dir" => i - 1 \in Inum
    BY SMT, SMTT(30), <1>1, <1>4 DEF ROOTINO
  <2> DEFINE E(i, n) == CASE n = DotDot /\ i = ROOTINO -> ROOTINO
                          [] n = DotDot /\ i # ROOTINO /\ dsk[i].type = "dir" -> i - 1
                          [] i = ROOTINO /\ n = "d" -> 2
                          [] i = 2 /\ n = "a" -> 3
                          [] OTHER -> None
  <2>2. ASSUME NEW i \in Inum, NEW n \in Elem PROVE E(i, n) \in Inum \cup {None}
    <3>1. CASE n = DotDot /\ i = ROOTINO
      BY <1>1, <3>1
    <3>2. CASE n = DotDot /\ i # ROOTINO /\ dsk[i].type = "dir"
      BY <1>1, <2>1, <3>2
    <3>3. CASE ~(n = DotDot /\ (i = ROOTINO \/ dsk[i].type = "dir"))
      BY <1>1, <3>3
    <3> QED BY <3>1, <3>2, <3>3
  <2>3. ents = [i \in Inum |-> [n \in Elem |-> E(i, n)]]
    BY <1>2
  <2> HIDE DEF E
  <2>4. \A i \in Inum, n \in Elem : E(i, n) \in Inum \cup {None}
    BY <2>2
  <2> QED BY <2>3, <2>4
<1>6. cwd \in [Proc -> Inum] /\ file \in [Proc -> Inum \cup {None}]
  BY <1>1, <1>2
<1>7. \A p \in Proc : fr[p] = Idle /\ pc[p] = "user" /\ file[p] = None
  BY <1>2
<1>9. Types
  <2>1. pc \in [Proc -> Labels] /\ fr \in [Proc -> Frame] /\ \A p \in Proc : Shape(pc[p], fr[p])
    BY <1>2, IdleFrame, IdleShape DEF Labels, Bare
  <2>2. valid \in [Inum -> BOOLEAN] /\ busy \in [Inum -> Proc \cup {NULL}] /\ trans \in Proc \cup {NULL}
    BY <1>2
  <2> QED BY <1>3, <1>5, <1>6, <2>1, <2>2 DEF Types
<1>11. \A p \in Proc, i \in Inum : ~Locks(pc[p], fr[p], i) /\ Apart(pc[p], fr[p]) /\ ~Inside(pc[p], fr[p])
  BY <1>7 DEF Locks, LocksIp, LocksDp, Frees, Apart, Inside, Aim, Putting, Freeing, Both, OnlyDp,
              CreateAt, LinkAt
<1>12. Locked /\ Coherent /\ InTrans
  BY <1>1, <1>2, <1>11, FileSysAssumption DEF Locked, Coherent, InTrans
<1>13. Checked
  BY <1>7 DEF Checked, Aim, Putting, Freeing
<1>14. NoSelf
  <2> SUFFICES ASSUME NEW d \in Inum, NEW n \in Name PROVE ents[d][n] # d
    BY DEF NoSelf
  <2>1. n \in Elem /\ n # DotDot
    BY FileSysAssumption DEF Elem
  <2>2. d # None
    BY SMT, SMTT(30) DEF Inum, None
  <2> QED BY SMT, SMTT(30), <1>2, <2>1, <2>2 DEF ROOTINO
<1> QED BY <1>9, <1>12, <1>13, <1>14

LEMMA LooksUp ==
  ASSUME FInv, NEW p \in Proc, sys_open(p) \/ sys_unlink(p) \/ sys_link(p) \/ sys_chdir(p)
  PROVE  Kept(p)
BY LookupStep DEF sys_open, sys_unlink, sys_link, sys_chdir

LEMMA IlockPanicStep ==
  ASSUME FInv, NEW p \in Proc, ilockPanic(p)
  PROVE  Kept(p)
BY HaltStep DEF ilockPanic

LEMMA NextKept ==
  ASSUME FInv, Skips, Next
  PROVE  \E p \in Proc : Kept(p)
<1>1. ASSUME NEW p \in Proc,
             \/ iput(p) \/ iputTrunc(p) \/ iputFree(p) \/ iputFreed(p)
             \/ commit_trans(p) \/ walk(p) \/ ilockPanic(p)
      PROVE  Kept(p)
  BY <1>1, IputStep, IputTruncStep, IputFreeStep, IputFreedStep, CommitStep, WalkStep, IlockPanicStep
<1>2. ASSUME NEW p \in Proc,
             \/ sys_open(p) \/ openFile(p) \/ sys_close(p) \/ fileclose(p)
             \/ sys_create(p) \/ createDir(p) \/ createLook(p) \/ createOld(p)
             \/ createLock(p) \/ createInit(p) \/ created(p)
      PROVE  Kept(p)
  BY <1>2, LooksUp, OpenFileStep, CloseStep, FilecloseStep, CreateStep, LockSteps, CreateLookStep,
     CreateOldStep, CreateInitStep, CreatedStep
<1>3. ASSUME NEW p \in Proc,
             \/ sys_unlink(p) \/ unlinkTrans(p) \/ unlinkDir(p) \/ unlinkLook(p)
             \/ unlinkLock(p) \/ unlinkEntry(p) \/ unlinkInode(p) \/ unlinkBad(p)
      PROVE  Kept(p)
  BY <1>3, LooksUp, UnlinkTransStep, LockSteps, UnlinkLookStep, UnlinkEntryStep, UnlinkInodeStep,
     UnlinkBadStep
<1>4. ASSUME NEW p \in Proc,
             \/ sys_link(p) \/ linkTrans(p) \/ linkInode(p) \/ linkNew(p)
             \/ linkEntry(p) \/ linkUndo(p)
             \/ sys_chdir(p) \/ chdirPut(p) \/ chdirEnd(p)
      PROVE  Kept(p)
  BY <1>4, LooksUp, LinkTransStep, LinkInodeStep, LinkNewStep, LinkEntryStep, LinkUndoStep,
     ChdirPutStep, ChdirEndStep
<1> QED BY <1>1, <1>2, <1>3, <1>4 DEF Next

LEMMA CacheFine == FInv => CacheCoherent
<1>1. ASSUME FInv, NEW i \in Inum, valid[i], busy[i] = NULL PROVE mem[i] = dsk[i]
  <2>1. ~Freed(i)
    <3> SUFFICES ASSUME NEW q \in Proc, pc[q] = "freed", i = Head(fr[q].puts) PROVE FALSE
      BY DEF Freed
    <3>1. Locks(pc[q], fr[q], i)
      BY DEF Locks, Frees, Freeing
    <3> QED BY <1>1, <3>1, FileSysAssumption DEF FInv, Locked
  <2> QED BY <1>1, <2>1 DEF FInv, Coherent, Agrees
<1> QED BY <1>1 DEF CacheCoherent

\* What a process is about to lock is an inode it points to.
LEMMA WantedType ==
  ASSUME FInv, NEW p \in Proc, Wanted(p) # None
  PROVE  Wanted(p) \in Inum /\ (Wanted(p) = fr[p].ip \/ Wanted(p) = fr[p].dp) /\ pc[p] \notin Putting
<1> USE DEF Aim, Putting, Freeing, Bare, OnlyIp, OnlyDp, Both
<1>1. Shape(pc[p], fr[p]) /\ fr[p] \in Frame
  BY DEF FInv, Types
<1>2. CASE pc[p] = "walk"
  BY <1>2, WalkShape DEF Wanted, Cur
<1>3. CASE pc[p] \in {"openFile", "createDir", "createOld", "createLock", "unlinkLock",
                      "linkInode", "linkUndo", "chdirPut"}
  <2>1. fr[p].ip \in Inum
    BY <1>1, <1>3 DEF Shape, HasIp
  <2> QED BY <1>3, <2>1 DEF Wanted
<1>4. CASE pc[p] \in {"unlinkDir", "linkEntry"}
  <2>1. fr[p].dp \in Inum
    BY <1>1, <1>4 DEF Shape, HasDp
  <2> QED BY <1>4, <2>1 DEF Wanted
<1> QED BY <1>2, <1>3, <1>4 DEF Wanted

\* A process that waits and has a lock is the one inside the transaction, and
\* the lock is not the one it waits for.
LEMMA WaitsLocked ==
  ASSUME FInv, NEW p \in Proc, NEW i \in Inum, busy[i] = p, NEW r, WaitsFor(p, r)
  PROVE  trans = p /\ Wanted(p) # i
<1> USE DEF Aim, Putting, Freeing, Bare, OnlyIp, OnlyDp, Both, CreateAt
<1>1. Locks(pc[p], fr[p], i)
  BY FileSysAssumption DEF FInv, Locked
<1>2. Wanted(p) # None \/ pc[p] \in {"closeTrans", "unlinkTrans", "linkTrans"}
  BY DEF WaitsFor
<1>3. pc[p] \notin Putting
  BY <1>2, WantedType
<1> USE <1>1
<1>4. CASE pc[p] \in {"createLock", "unlinkLock"}
  <2> USE <1>4
  <2>1. trans = p
    BY DEF FInv, InTrans, Inside
  <2>2. i = fr[p].dp /\ fr[p].ip # fr[p].dp
    BY DEF Locks, LocksIp, LocksDp, Frees, FInv, Locked, Apart
  <2>3. Wanted(p) = fr[p].ip
    BY DEF Wanted
  <2> QED BY <2>1, <2>2, <2>3
<1>5. CASE pc[p] = "openFile"
  <2>1. i = fr[p].ip
    BY <1>5 DEF Locks, LocksIp, LocksDp, Frees
  <2> QED BY <1>2, <1>5, <2>1 DEF Wanted
<1>6. CASE pc[p] \notin {"createLock", "unlinkLock", "openFile"}
  BY <1>2, <1>3, <1>6 DEF Locks, LocksIp, LocksDp, Frees, Wanted
<1> QED BY <1>4, <1>5, <1>6

LEMMA LockPanics == FInv => LocksAsserted
<1> SUFFICES ASSUME FInv, NEW p \in Proc
             PROVE  /\ Wanted(p) # None => ref[Wanted(p)] >= 1
                    /\ pc[p] = "put" /\ LastRef(Head(fr[p].puts)) => busy[Head(fr[p].puts)] = NULL
  BY DEF LocksAsserted
<1>1. ASSUME Wanted(p) # None
      PROVE  ref[Wanted(p)] >= 1
  <2> DEFINE i == Wanted(p)
  <2>1. i \in Inum
    BY <1>1, WantedType
  <2>2. OwnOf(p, i) >= 1
    <3>1. fr[p].ip = i \/ fr[p].dp = i
      BY <1>1, WantedType
    <3> QED BY <2>1, <3>1, Points DEF FInv
  <2>3. ref[i] >= OwnOf(p, i) /\ ref[i] \in Int /\ OwnOf(p, i) \in Nat
    BY <2>1, OwnNat DEF FInv, Lower, Types
  <2> HIDE DEF i
  <2>4. ref[i] >= 1
    BY SMT, SMTT(30), <2>2, <2>3
  <2> QED BY <2>4 DEF i
<1>2. ASSUME pc[p] = "put", LastRef(Head(fr[p].puts)), busy[Head(fr[p].puts)] # NULL
      PROVE  FALSE
  <2> DEFINE i == Head(fr[p].puts)
             q == busy[i]
  <2>1. i \in Inum /\ fr[p].puts # <<>>
    <3>1. fr[p].puts # <<>> /\ fr[p] \in Frame
      BY <1>2 DEF FInv, Types, Shape, Putting
    <3>2. fr[p].puts \in Seq(Inum)
      BY <3>1 DEF Frame
    <3> QED BY SMT, SMTT(30), <3>1, <3>2
  <2> USE <2>1
  <2>2. q \in Proc /\ Locks(pc[q], fr[q], i)
    <3>1. q # NULL
      BY <1>2
    <3>2. q \in Proc \cup {NULL}
      BY DEF FInv, Types
    <3>3. Locks(pc[q], fr[q], i)
      BY <3>1 DEF FInv, Locked
    <3> QED BY <3>1, <3>2, <3>3
  <2>3. ref[i] = 1
    BY <1>2 DEF LastRef
  <2> USE <2>2
  <2>4. OwnOf(p, i) >= 1 /\ OwnOf(q, i) >= 1
    BY <1>2, Points DEF FInv, Putting
  <2>5. OwnOf(p, i) \in Nat /\ OwnOf(q, i) \in Nat
    BY OwnNat
  <2>6. CASE q # p
    <3>1. ref[i] >= OwnOf(p, i) + OwnOf(q, i)
      BY <2>6 DEF FInv, Lower
    <3> QED BY SMT, SMTT(30), <2>3, <2>4, <2>5, <3>1
  <2>7. CASE q = p
    <3>1. fr[p].ip = i \/ fr[p].dp = i
      BY <1>2, <2>7 DEF Locks, Frees, Freeing
    <3>2. OwnOf(p, i) >= 2
      BY SMT, SMTT(30), <3>1 DEF OwnOf, Own, One
    <3>3. ref[i] >= OwnOf(p, i)
      BY DEF FInv, Lower
    <3> QED BY SMT, SMTT(30), <2>3, <2>5, <3>2, <3>3
  <2> QED BY <2>6, <2>7
<1> QED BY <1>1, <1>2

LEMMA NoCircle == FInv => NoCircularWait
<1>1. ASSUME FInv, NEW p \in Proc, NEW q \in Proc, NEW r, WaitsFor(p, q), WaitsFor(q, r)
      PROVE  q = trans /\ p # q
  <2> USE <1>1
  <2>1. CASE Wanted(p) # None /\ busy[Wanted(p)] = q
    <3>1. Wanted(p) \in Inum
      BY <2>1, WantedType
    <3>2. trans = q /\ Wanted(q) # Wanted(p)
      BY <2>1, <3>1, WaitsLocked
    <3> QED BY <3>2
  <2>2. CASE pc[p] \in {"closeTrans", "unlinkTrans", "linkTrans"} /\ trans = q
    <3>1. ~Inside(pc[p], fr[p])
      BY <2>2 DEF Inside, Aim, Putting, Freeing, CreateAt, LinkAt, OnlyDp, Both
    <3> QED BY <2>2, <3>1 DEF FInv, InTrans
  <2> QED BY <2>1, <2>2 DEF WaitsFor
<1>2. ASSUME FInv, NEW S \in SUBSET Proc, S # {}, \A p \in S : \E q \in S : WaitsFor(p, q)
      PROVE  FALSE
  <2> USE <1>2
  <2>1. PICK p \in S : TRUE
    OBVIOUS
  <2>2. PICK q \in S : WaitsFor(p, q)
    OBVIOUS
  <2>3. PICK r \in S : WaitsFor(q, r)
    OBVIOUS
  <2>4. PICK u \in S : WaitsFor(r, u)
    OBVIOUS
  <2>5. p \in Proc /\ q \in Proc /\ r \in Proc
    OBVIOUS
  <2>6. q = trans
    BY <1>1, <2>2, <2>3, <2>5
  <2>7. r = trans /\ q # r
    BY <1>1, <2>3, <2>4, <2>5
  <2> QED BY <2>6, <2>7
<1> QED BY <1>2 DEF NoCircularWait

-----------------------------------------------------------------------------
(***************************************************************************)
(* Counting pointers.                                                      *)
(***************************************************************************)
\* What the cardinality of finite sets is.
Counting ==
  /\ Cardinality({}) = 0
  /\ \A S : IsFiniteSet(S) =>
       /\ Cardinality(S) \in Nat
       /\ \A T \in SUBSET S : IsFiniteSet(T)
       /\ \A x : Cardinality(S \ {x}) = Cardinality(S) - One(x \in S)

LEMMA SomeProcs ==
  ASSUME Counting, NEW S \in SUBSET Proc, NEW p
  PROVE  /\ S \ {p} \in SUBSET Proc
         /\ Cardinality(S) \in Nat
         /\ Cardinality(S \ {p}) = Cardinality(S) - One(p \in S)
<1>1. IsFiniteSet(S)
  BY FileSysAssumption DEF Counting
<1> QED BY <1>1 DEF Counting

\* A count goes from a to b while p gains y pointers and loses x.
Moves(a, b, x, y) == a \in Nat /\ b \in Nat /\ x \in Nat /\ y \in Nat /\ b = a + y - x

\* A set of processes in which only p comes or goes.
LEMMA CountMoves ==
  ASSUME Counting, NEW A \in SUBSET Proc, NEW B \in SUBSET Proc, NEW p \in Proc,
         \A q \in Proc \ {p} : q \in A <=> q \in B
  PROVE  Moves(Cardinality(A), Cardinality(B), One(p \in A), One(p \in B))
<1>1. /\ Cardinality(A) \in Nat /\ Cardinality(A \ {p}) = Cardinality(A) - One(p \in A)
      /\ Cardinality(B) \in Nat /\ Cardinality(B \ {p}) = Cardinality(B) - One(p \in B)
  BY SomeProcs
<1>2. A \ {p} = B \ {p}
  OBVIOUS
<1> QED BY SMT, SMTT(30), <1>1, <1>2 DEF One, Moves

\* Two processes of a set.
LEMMA CountTwo ==
  ASSUME Counting, NEW A \in SUBSET Proc, NEW p \in Proc, NEW q \in Proc, p # q
  PROVE  /\ Cardinality(A) \in Nat
         /\ Cardinality(A) >= One(p \in A) + One(q \in A)
<1> DEFINE B == A \ {p}
           C == B \ {q}
<1>1. /\ Cardinality(A) \in Nat /\ Cardinality(B) = Cardinality(A) - One(p \in A)
      /\ B \in SUBSET Proc
  BY SomeProcs
<1>2. /\ Cardinality(B) \in Nat /\ Cardinality(C) = Cardinality(B) - One(q \in B)
      /\ C \in SUBSET Proc
  BY <1>1, SomeProcs
<1>3. Cardinality(C) \in Nat
  BY <1>2, SomeProcs
<1>4. q \in B <=> q \in A
  OBVIOUS
<1> HIDE DEF B, C
<1> QED BY SMT, SMTT(30), <1>1, <1>2, <1>3, <1>4 DEF One

\* The sets that RefExact counts.
InCwd(i)   == {p \in Proc : cwd[p] = i /\ ~CwdPut(p)}
InFile(i)  == {p \in Proc : file[p] = i}
InIp(i)    == {p \in Proc : fr[p].ip = i}
InDp(i)    == {p \in Proc : fr[p].dp = i}
InPut(i)   == {p \in Proc : fr[p].puts # <<>> /\ Head(fr[p].puts) = i}
InPut2(i)  == {p \in Proc : Len(fr[p].puts) = 2 /\ fr[p].puts[2] = i}

SumExact == \A i \in Inum :
  ref[i] = Cardinality(InCwd(i)) + Cardinality(InFile(i)) + Cardinality(InIp(i))
           + Cardinality(InDp(i)) + Cardinality(InPut(i)) + Cardinality(InPut2(i))

\* The pointers of one process, by the sets it is in.
OwnSum == \A p \in Proc, i \in Inum :
  /\ OwnOf(p, i) = One(p \in InCwd(i)) + One(p \in InFile(i)) + One(p \in InIp(i))
                   + One(p \in InDp(i)) + One(p \in InPut(i)) + One(p \in InPut2(i))
  /\ OwnOf(p, i) \in Nat

LEMMA RefSum == (RefExact <=> SumExact) /\ OwnSum
<1>1. RefExact <=> SumExact
  BY DEF SumExact, RefExact, Count, InCwd, InFile, InIp, InDp, InPut, InPut2
<1>2. OwnSum
  BY SMT, SMTT(30) DEF OwnSum, OwnOf, Own, One, CwdPut, InCwd, InFile, InIp, InDp, InPut, InPut2
<1> QED BY <1>1, <1>2

LEMMA RefSumNext == (RefExact' <=> SumExact') /\ OwnSum'
BY RefSum, PTL

\* ref counts the pointers of any two processes at least.
LEMMA RefLower ==
  ASSUME Counting, RefExact, NEW p \in Proc, NEW q \in Proc, p # q, NEW i \in Inum
  PROVE  ref[i] >= OwnOf(p, i) + OwnOf(q, i)
<1>1. \A S \in SUBSET Proc : /\ Cardinality(S) \in Nat
                             /\ Cardinality(S) >= One(p \in S) + One(q \in S)
  BY CountTwo
<1>2. /\ InCwd(i) \in SUBSET Proc /\ InFile(i) \in SUBSET Proc /\ InIp(i) \in SUBSET Proc
      /\ InDp(i) \in SUBSET Proc /\ InPut(i) \in SUBSET Proc /\ InPut2(i) \in SUBSET Proc
  BY DEF InCwd, InFile, InIp, InDp, InPut, InPut2
<1>3. \A S : One(p \in S) \in Nat /\ One(q \in S) \in Nat
  BY DEF One
<1> QED BY SMT, SMTT(30), <1>1, <1>2, <1>3, RefSum DEF SumExact, OwnSum

LEMMA RefOwn ==
  ASSUME Counting, RefExact, NEW p \in Proc, NEW i \in Inum
  PROVE  ref[i] >= OwnOf(p, i) /\ OwnOf(p, i) \in Nat
<1>1. ASSUME NEW S \in SUBSET Proc
      PROVE  Cardinality(S) \in Nat /\ Cardinality(S) >= One(p \in S)
  <2>1. /\ Cardinality(S) \in Nat /\ Cardinality(S \ {p}) = Cardinality(S) - One(p \in S)
        /\ S \ {p} \in SUBSET Proc
    BY SomeProcs
  <2>2. Cardinality(S \ {p}) \in Nat
    BY <2>1, SomeProcs
  <2> QED BY SMT, SMTT(30), <2>1, <2>2 DEF One
<1>2. /\ InCwd(i) \in SUBSET Proc /\ InFile(i) \in SUBSET Proc /\ InIp(i) \in SUBSET Proc
      /\ InDp(i) \in SUBSET Proc /\ InPut(i) \in SUBSET Proc /\ InPut2(i) \in SUBSET Proc
  BY DEF InCwd, InFile, InIp, InDp, InPut, InPut2
<1>3. \A S : One(p \in S) \in Nat
  BY DEF One
<1> QED BY SMT, SMTT(30), <1>1, <1>2, <1>3, RefSum DEF SumExact, OwnSum

LEMMA AddMoves ==
  ASSUME NEW a, NEW b, NEW x, NEW y, Moves(a, b, x, y),
         NEW c, NEW d, NEW u, NEW v, Moves(c, d, u, v)
  PROVE  Moves(a + c, b + d, x + u, y + v)
BY SMT, SMTT(30) DEF Moves

LEMMA RefStep ==
  ASSUME Counting, RefExact, NEW p \in Proc, Alone(p), Balanced(p)
  PROVE  RefExact'
<1> SUFFICES ASSUME NEW i \in Inum
             PROVE  ref'[i] = Cardinality(InCwd(i)') + Cardinality(InFile(i)')
                              + Cardinality(InIp(i)') + Cardinality(InDp(i)')
                              + Cardinality(InPut(i)') + Cardinality(InPut2(i)')
  BY RefSumNext DEF SumExact
<1> DEFINE a1 == Cardinality(InCwd(i))   b1 == Cardinality(InCwd(i)')
           x1 == One(p \in InCwd(i))   y1 == One(p \in InCwd(i)')
           a2 == Cardinality(InFile(i))   b2 == Cardinality(InFile(i)')
           x2 == One(p \in InFile(i))   y2 == One(p \in InFile(i)')
           a3 == Cardinality(InIp(i))   b3 == Cardinality(InIp(i)')
           x3 == One(p \in InIp(i))   y3 == One(p \in InIp(i)')
           a4 == Cardinality(InDp(i))   b4 == Cardinality(InDp(i)')
           x4 == One(p \in InDp(i))   y4 == One(p \in InDp(i)')
           a5 == Cardinality(InPut(i))   b5 == Cardinality(InPut(i)')
           x5 == One(p \in InPut(i))   y5 == One(p \in InPut(i)')
           a6 == Cardinality(InPut2(i))   b6 == Cardinality(InPut2(i)')
           x6 == One(p \in InPut2(i))   y6 == One(p \in InPut2(i)')
<1>1. Moves(a1, b1, x1, y1)
  BY CountMoves DEF InCwd, CwdPut, Alone
<1>2. Moves(a2, b2, x2, y2)
  BY CountMoves DEF InFile, Alone
<1>3. Moves(a3, b3, x3, y3)
  BY CountMoves DEF InIp, Alone
<1>4. Moves(a4, b4, x4, y4)
  BY CountMoves DEF InDp, Alone
<1>5. Moves(a5, b5, x5, y5)
  BY CountMoves DEF InPut, Alone
<1>6. Moves(a6, b6, x6, y6)
  BY CountMoves DEF InPut2, Alone
<1>7. ref'[i] = ref[i] + (y1 + y2 + y3 + y4 + y5 + y6)
                     - (x1 + x2 + x3 + x4 + x5 + x6)
  BY RefSum, RefSumNext DEF Balanced, OwnSum
<1>8. ref[i] = a1 + a2 + a3 + a4 + a5 + a6
  BY RefSum DEF SumExact
<1> HIDE DEF a1, a2, a3, a4, a5, a6, b1, b2, b3, b4, b5, b6,
             x1, x2, x3, x4, x5, x6, y1, y2, y3, y4, y5, y6
<1>9. Moves(a1 + a2, b1 + b2, x1 + x2, y1 + y2)
  BY <1>1, <1>2, AddMoves
<1>10. Moves(a1 + a2 + a3, b1 + b2 + b3, x1 + x2 + x3, y1 + y2 + y3)
  BY <1>3, <1>9, AddMoves
<1>11. Moves(a1 + a2 + a3 + a4, b1 + b2 + b3 + b4, x1 + x2 + x3 + x4, y1 + y2 + y3 + y4)
  BY <1>4, <1>10, AddMoves
<1>12. Moves(a1 + a2 + a3 + a4 + a5, b1 + b2 + b3 + b4 + b5, x1 + x2 + x3 + x4 + x5, y1 + y2 + y3 + y4 + y5)
  BY <1>5, <1>11, AddMoves
<1>13. Moves(ref[i], b1 + b2 + b3 + b4 + b5 + b6, x1 + x2 + x3 + x4 + x5 + x6, y1 + y2 + y3 + y4 + y5 + y6)
  BY <1>6, <1>8, <1>12, AddMoves
<1> QED BY <1>7, <1>13 DEF Moves, b1, b2, b3, b4, b5, b6

LEMMA CountLower == Counting /\ RefExact => Lower
BY RefLower, RefOwn DEF Lower

-----------------------------------------------------------------------------
(***************************************************************************)
(* The inductive invariant.                                                *)
(***************************************************************************)
IInv == FInv /\ RefExact

LEMMA InitHolds ==
  ASSUME Counting, Init
  PROVE  IInv
<1>1. /\ ref = [i \in Inum |-> Cardinality({p \in Proc : cwd[p] = i})]
      /\ \A p \in Proc : fr[p] = Idle /\ pc[p] = "user" /\ file[p] = None
  BY SMT, SMTT(30) DEF Init
<1>2. \A i \in Inum : Cardinality({p \in Proc : cwd[p] = i}) \in Nat
  BY SomeProcs
<1> USE <1>1
<1>3. ref \in [Inum -> Int]
  BY SMT, SMTT(30), <1>2
<1>4. RefExact
  <2> SUFFICES ASSUME NEW i \in Inum
               PROVE  ref[i] = Cardinality(InCwd(i)) + Cardinality(InFile(i)) + Cardinality(InIp(i))
                               + Cardinality(InDp(i)) + Cardinality(InPut(i)) + Cardinality(InPut2(i))
    BY RefSum DEF SumExact
  <2>1. i # None
    BY SMT, SMTT(30) DEF Inum, None
  <2>2. Len(Idle.puts) # 2
    BY SMT, SMTT(30), IdleFrame
  <2>3. InFile(i) = {} /\ InIp(i) = {} /\ InDp(i) = {} /\ InPut(i) = {} /\ InPut2(i) = {}
    BY <2>1, <2>2, IdleFrame DEF InFile, InIp, InDp, InPut, InPut2
  <2>4. InCwd(i) = {p \in Proc : cwd[p] = i}
    BY SMT, SMTT(30), IdleFrame DEF InCwd, CwdPut
  <2>5. Cardinality({}) = 0
    BY DEF Counting
  <2>6. ref[i] = Cardinality(InCwd(i)) /\ ref[i] \in Int
    BY <1>3, <2>4
  <2> QED BY SMT, SMTT(30), <2>3, <2>5, <2>6
<1> QED BY <1>3, <1>4, InitKept, CountLower DEF IInv, FInv

LEMMA NextHolds ==
  ASSUME Counting, Skips, IInv, [Next]_vars
  PROVE  IInv'
<1>1. CASE UNCHANGED vars
  BY <1>1, Stutter DEF IInv
<1>2. CASE Next
  <2>1. PICK p \in Proc : Kept(p)
    BY <1>2, NextKept DEF IInv
  <2>2. RefExact'
    BY <2>1, RefStep DEF IInv, Kept
  <2>3. Lower'
    <3>1. (Counting /\ RefExact => Lower)'
      BY CountLower, PTL
    <3>2. Counting'
      BY DEF Counting
    <3> QED BY <2>2, <3>1, <3>2
  <2> QED BY <2>1, <2>2, <2>3 DEF IInv, FInv, Kept
<1> QED BY <1>1, <1>2

-----------------------------------------------------------------------------
(***************************************************************************)
(* The theorems. What they need of finite sets and of numbers is in the    *)
(* library.                                                                *)
(***************************************************************************)
INSTANCE FiniteSetTheorems

LEMMA CountingHolds == Counting
<1>1. ASSUME NEW S, IsFiniteSet(S), NEW x
      PROVE  Cardinality(S \ {x}) = Cardinality(S) - One(x \in S)
  <2>1. Cardinality(S) \in Nat
    BY <1>1, FS_CardinalityType
  <2>2. Cardinality(S \ {x}) = IF x \in S THEN Cardinality(S) - 1 ELSE Cardinality(S)
    BY <1>1, FS_RemoveElement
  <2> QED BY SMT, SMTT(30), <2>1, <2>2 DEF One
<1>2. Cardinality({}) = 0
  BY FS_EmptySet
<1> QED BY <1>1, <1>2, FS_CardinalityType, FS_Subset DEF Counting

LEMMA MinimalHolds == Minimal
<1> SUFFICES ASSUME NEW S \in SUBSET Nat, S # {} PROVE First(S) \in S
  BY DEF Minimal
<1> DEFINE R == OpToRel(<, Nat)
<1>1. IsWellFoundedOn(R, Nat)
  BY NatLessThanWellFounded
<1>2. \A x, y \in Nat : <<x, y>> \in R <=> x < y
  BY DEF OpToRel
<1> HIDE DEF R
<1>3. PICK x \in S : \A y \in S : ~ (<<y, x>> \in R)
  BY <1>1, WFMin
<1>4. \A y \in S : ~(y < x)
  BY <1>2, <1>3
<1>5. \A y \in S : x <= y
  BY SMT, SMTT(30), <1>4
<1> QED BY <1>5 DEF First

LEMMA Invariance == Spec => []IInv
<1>1. Init => IInv
  BY InitHolds, CountingHolds
<1>2. IInv /\ [Next]_vars => IInv'
  BY NextHolds, CountingHolds, MinimalHolds, SkipType
<1> QED BY <1>1, <1>2, PTL DEF Spec

\* The reference count of a cached inode is the number of pointers to it that
\* current directories, open files and calls in progress hold, in any
\* interleaving of the calls and on each of their error paths: iget never
\* recycles an entry in use, and iput brings it to zero (fs.c, iget and iput).
THEOREM ReferencesExact == Spec => []RefExact
<1>1. IInv => RefExact
  BY DEF IInv
<1> QED BY <1>1, Invariance, PTL

\* Whoever locks a valid inode of the cache reads what is on the disk: every
\* update is written before iunlock, and iput clears I_VALID of what it freed
\* before the lock goes (fs.c, ilock, iupdate and iput).
THEOREM CacheAgrees == Spec => []CacheCoherent
<1>1. IInv => CacheCoherent
  BY CacheFine DEF IInv
<1> QED BY <1>1, Invariance, PTL

\* ilock and iput never find what they assert to be otherwise: an inode about
\* to be locked is referenced, and nobody has the lock of an inode whose last
\* reference iput gives up (fs.c, panic("ilock") and panic("iput busy")).
THEOREM LocksReferenced == Spec => []LocksAsserted
<1>1. IInv => LocksAsserted
  BY LockPanics DEF IInv
<1> QED BY <1>1, Invariance, PTL

\* The transaction is begun before any inode lock that is kept, and a second
\* lock is taken only inside it: whoever waits with something in hand is the
\* one process inside the transaction, so no set of processes waits in a
\* circle, and none for itself (sysfile.c, the order of begin_trans and ilock).
THEOREM NoDeadlock == Spec => []NoCircularWait
<1>1. IInv => NoCircularWait
  BY NoCircle DEF IInv
<1> QED BY <1>1, Invariance, PTL
=============================================================================
