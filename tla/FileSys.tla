------------------------------ MODULE FileSys ------------------------------
(***************************************************************************)
(* Inodes, directories and path names (fs.c) under the system calls that   *)
(* create, remove, open and close them (sysfile.c, file.c).                *)
(*                                                                         *)
(* One step is one critical section of icache.lock, or the work a call     *)
(* does between ilock and iunlock when it takes no other lock in between:  *)
(* no other process sees the inode then.  A lock that is held while the    *)
(* call goes on (unlink, create) is taken by a step of its own.            *)
(* The disk is what the buffer cache shows of it (BufCache), transactions  *)
(* are the exclusive ones of log.c (Log).  Block contents are abstracted   *)
(* to the entries of a directory; file data is in FileData.                *)
(***************************************************************************)
EXTENDS Integers, Sequences, FiniteSets

CONSTANTS Proc,
          NINODES,  \* sb.ninodes - 1: the inodes of the disk
          NINODE,   \* the slots of the inode cache
          Name,     \* the names of files, neither "." nor ".."
          Paths,    \* the paths that are given to each call: names and slashes
          MaxCalls, \* bound: the calls made
          NULL

Inum    == 1..NINODES
ROOTINO == 1
DotDot  == ".."
Slash   == "/"
Elem    == Name \cup {DotDot}
None    == 0          \* a null pointer to an inode, an empty entry

\* The calls that look up a path; link looks up two.
Ops == {"open", "create", "mkdir", "mknod", "unlink", "link", "link2", "chdir"}

ASSUME FileSysAssumption ==
  /\ NINODES \in Nat /\ NINODES >= 3 /\ NINODE \in Nat
  /\ IsFiniteSet(Proc) /\ NULL \notin Proc /\ IsFiniteSet(Name)
  /\ DotDot \notin Name
  /\ \A op \in Ops : Paths[op] \subseteq Seq(Elem \cup {Slash})

VARIABLES
  dsk,     \* the inodes on disk: type and link count
  ents,    \* the entries of a directory, by name
  mem,     \* the cached copy of an inode, ...
  ref,     \* ... its reference count, ...
  valid,   \* ... I_VALID, ...
  busy,    \* ... and the process that set I_BUSY, or NULL
  trans,   \* the process inside begin_trans .. commit_trans, or NULL
  cwd,     \* proc->cwd
  file,    \* the inode of the file a process has open, or None
  left,    \* the calls that may still be made
  pc, fr,  \* where a process is, and the locals of its call
  panic,   \* the message of the panic that stopped the system, or NULL
  lost     \* the inodes that were given a link in a removed directory, and it

icache == <<mem, ref, valid, busy>>
disk   == <<dsk, ents, lost>>
procs  == <<cwd, file, left>>
vars   == <<disk, icache, trans, procs, pc, fr, panic>>

\* The locals of a call: the path still to walk, the inodes it holds a
\* reference to, those it is about to iput, and where it goes on after that.
Idle == [op |-> "none", path |-> <<>>, ip |-> None, dp |-> None,
          puts |-> <<>>, k |-> "none"]

\* The root holds a directory d (inode 2), and that a file or a directory a
\* (inode 3); one process at least is in the root, the others there or in
\* the deepest directory.
Init ==
  \E t \in {"file", "dir"} :
  /\ dsk = [i \in Inum |->
       CASE i = ROOTINO -> [type |-> "dir", nlink |-> 2]
         [] i = 2 -> [type |-> "dir", nlink |-> IF t = "dir" THEN 2 ELSE 1]
         [] i = 3 -> [type |-> t, nlink |-> 1]
         [] OTHER -> [type |-> "none", nlink |-> 0]]
  /\ ents = [i \in Inum |-> [n \in Elem |->
       CASE n = DotDot /\ i = ROOTINO -> ROOTINO
         [] n = DotDot /\ i # ROOTINO /\ dsk[i].type = "dir" -> i - 1
         [] i = ROOTINO /\ n = "d" -> 2
         [] i = 2 /\ n = "a" -> 3
         [] OTHER -> None]]
  /\ cwd \in [Proc -> {ROOTINO, IF t = "dir" THEN 3 ELSE 2}]
  /\ \E p \in Proc : cwd[p] = ROOTINO
  /\ mem = [i \in Inum |-> [type |-> "none", nlink |-> 0]]
  /\ ref = [i \in Inum |-> Cardinality({p \in Proc : cwd[p] = i})]
  /\ valid = [i \in Inum |-> FALSE]
  /\ busy = [i \in Inum |-> NULL]
  /\ trans = NULL
  /\ file = [p \in Proc |-> None]
  /\ left = MaxCalls
  /\ pc = [p \in Proc |-> "user"]
  /\ fr = [p \in Proc |-> Idle]
  /\ panic = NULL
  /\ lost = {}

-----------------------------------------------------------------------------
At(p, l) == pc[p] = l /\ panic = NULL

\* The process p goes to l with the locals f; a call that returns drops them.
Goto(p, l, f) == /\ pc' = [pc EXCEPT ![p] = l]
                 /\ fr' = [fr EXCEPT ![p] = IF l = "user" THEN Idle ELSE f]

Call(p) == At(p, "user") /\ left > 0 /\ left' = left - 1

Halt(msg) == /\ panic' = msg
             /\ UNCHANGED <<disk, icache, trans, procs, pc, fr>>

\* The first of a set of numbers.
First(S) == CHOOSE k \in S : \A m \in S : k <= m

Dec(r, i) == [r EXCEPT ![i] = @ - 1]

\* iget of i: an entry that nobody refers to is recycled, flags
\* cleared; v is valid as the rest of the step leaves it.
iget(i, v) ==
  /\ ref' = [ref EXCEPT ![i] = @ + 1]
  /\ valid' = IF ref[i] = 0 THEN [v EXCEPT ![i] = FALSE] ELSE v
  /\ panic' = IF ref[i] = 0 /\ Cardinality({j \in Inum : ref[j] > 0}) = NINODE
              THEN "iget: no inodes" ELSE panic

idup(i) == ref' = [ref EXCEPT ![i] = @ + 1] /\ UNCHANGED <<valid, panic>>

\* ilock waits for I_BUSY to clear and reads the inode if it is not valid.
NoType(i)   == ~valid[i] /\ dsk[i].type = "none"
CanLock(i)  == busy[i] = NULL /\ ~NoType(i)
Copy(i)     == IF valid[i] THEN mem[i] ELSE dsk[i]
Loaded(i)   == [valid EXCEPT ![i] = TRUE]
load(i)     == valid' = Loaded(i) /\ mem' = [mem EXCEPT ![i] = Copy(i)]

\* ilock by a step of its own: the lock is kept.
ilock(p, i, l) ==
  /\ CanLock(i)
  /\ load(i)
  /\ busy' = [busy EXCEPT ![i] = p]
  /\ Goto(p, l, fr[p])
  /\ UNCHANGED <<ref, disk, trans, procs, panic>>

\* iput(i) at the next step, then l.
PutThen(p, i, l, f) == Goto(p, "put", [f EXCEPT !.puts = <<i>>, !.k = l])

\* iunlockput(i) of a lock kept since an earlier step.
iunlock(i) == busy' = [busy EXCEPT ![i] = NULL]
iunlockput(p, i, l, f) == iunlock(i) /\ PutThen(p, i, l, f)

\* iupdate of the inodes in S, whose cached copies are m.
iupdate(S, m) == dsk' = [i \in Inum |-> IF i \in S THEN m[i] ELSE dsk[i]]

-----------------------------------------------------------------------------
\* iput, first critical section: drop a reference, or take the inode to free it.
PutNext(p) ==
  LET f == fr[p]
      rest == Tail(f.puts)
  IN IF rest = <<>> THEN Goto(p, f.k, [f EXCEPT !.puts = <<>>, !.k = "none"])
                    ELSE Goto(p, "put", [f EXCEPT !.puts = rest])

\* Mutant: the reference count is not looked at.
LastRefAny(i) == valid[i] /\ mem[i].nlink = 0

LastRef(i) == ref[i] = 1 /\ valid[i] /\ mem[i].nlink = 0

iput(p) ==
  /\ At(p, "put")
  /\ LET i == Head(fr[p].puts) IN
     \/ /\ ~LastRef(i)
        /\ ref' = Dec(ref, i)
        /\ PutNext(p)
        /\ UNCHANGED <<disk, mem, valid, busy, trans, procs, panic>>
     \/ /\ LastRef(i)
        /\ busy' = [busy EXCEPT ![i] = p]
        /\ Goto(p, "trunc", fr[p])
        /\ UNCHANGED <<disk, mem, ref, valid, trans, procs, panic>>

\* log_write's check, for a step that writes the disk.
OutsideTrans == trans = NULL /\ Halt("write outside of trans")

\* iput: itrunc discards the content and writes the inode ...
iputTrunc(p) ==
  /\ At(p, "trunc")
  /\ LET i == Head(fr[p].puts) IN
     \/ OutsideTrans
     \/ /\ trans # NULL
        /\ ents' = [ents EXCEPT ![i] = [n \in Elem |-> None]]
        /\ dsk' = [dsk EXCEPT ![i] = mem[i]]
        /\ Goto(p, "free", fr[p])
        /\ UNCHANGED <<lost, icache, trans, procs, panic>>

\* ... the inode is written as free ...
iputFree(p) ==
  /\ At(p, "free")
  /\ LET i == Head(fr[p].puts) IN
     \/ OutsideTrans
     \/ /\ trans # NULL
        /\ mem' = [mem EXCEPT ![i].type = "none"]
        /\ dsk' = [dsk EXCEPT ![i] = mem'[i]]
        /\ lost' = lost \ {i}
        /\ Goto(p, "freed", fr[p])
        /\ UNCHANGED <<ents, ref, valid, busy, trans, procs, panic>>

\* ... and the second critical section clears the flags.
iputFreed(p) ==
  /\ At(p, "freed")
  /\ LET i == Head(fr[p].puts) IN
     /\ valid' = [valid EXCEPT ![i] = FALSE]
     /\ busy' = [busy EXCEPT ![i] = NULL]
     /\ ref' = Dec(ref, i)
  /\ PutNext(p)
  /\ UNCHANGED <<disk, mem, trans, procs, panic>>

-----------------------------------------------------------------------------
\* begin_trans and commit_trans.
begin_trans(p, l, f) == trans = NULL /\ trans' = p /\ Goto(p, l, f)

commit_trans(p) ==
  /\ At(p, "commit")
  /\ trans' = NULL
  /\ Goto(p, "user", Idle)
  /\ UNCHANGED <<disk, icache, procs, panic>>

\* The inode the walk stands on; link keeps the old inode in ip meanwhile.
Cur(f) == IF f.op = "link2" THEN f.dp ELSE f.ip
SetCur(f, i) == IF f.op = "link2" THEN [f EXCEPT !.dp = i]
                                  ELSE [f EXCEPT !.ip = i]

\* skipelem: the first name of a path and what follows it, or NoElem.
NoSlash(path) ==
  LET ks == {k \in DOMAIN path : path[k] # Slash} IN
  IF ks = {} THEN <<>> ELSE SubSeq(path, First(ks), Len(path))
NoElem == [name |-> Slash, rest |-> <<>>]
skipelem(path) ==
  LET s == NoSlash(path) IN
  IF s = <<>> THEN NoElem ELSE [name |-> Head(s), rest |-> NoSlash(Tail(s))]

\* namex: where a path starts.
namex(p, f) ==
  \E path \in Paths[f.op] :
    LET absolute == path # <<>> /\ Head(path) = Slash
        i == IF absolute THEN ROOTINO ELSE cwd[p]
    IN
    /\ IF absolute THEN iget(i, valid) ELSE idup(i)
    /\ Goto(p, "walk", [SetCur(f, i) EXCEPT !.path = path])

\* The inode that the entry n of the directory d names; the entries e with n
\* naming i.
dirlookup(d, n)     == ents[d][n]
dirlink(e, d, n, i) == [e EXCEPT ![d][n] = i]

\* The lost inodes once i is entered in d, whose link count is n.
Entered(i, d, n) == IF n = 0 \/ d \in lost THEN lost \cup {i, d} ELSE lost

\* Where a call goes when namex has found the inode, and when it has not.
Found(op) ==
  CASE op = "open" -> "openFile"
    [] op = "chdir" -> "chdirPut"
    [] op = "link" -> "linkTrans"
    [] op = "link2" -> "linkEntry"
    [] op = "unlink" -> "unlinkTrans"
    [] OTHER -> "createDir"

NotFound(op) ==
  CASE op \in {"open", "chdir", "link", "unlink"} -> "user"
    [] op = "link2" -> "linkUndo"
    [] OTHER -> "commit"

nameiparent(op) == op \in {"create", "mkdir", "mknod", "unlink", "link2"}

\* namex, one round of the loop, or its end.
walk(p) ==
  /\ At(p, "walk")
  /\ LET f == fr[p]
         i == Cur(f)
         elem == skipelem(f.path)
         stop == nameiparent(f.op) /\ elem.rest = <<>>
         next == dirlookup(i, elem.name)
         fail == PutThen(p, i, NotFound(f.op), SetCur(f, None))
         dir == Copy(i).type = "dir"
     IN \/ /\ elem = NoElem
           /\ IF nameiparent(f.op) THEN fail ELSE Goto(p, Found(f.op), f)
           /\ UNCHANGED <<mem, ref, valid, panic>>
        \/ /\ elem # NoElem /\ CanLock(i) /\ (~dir \/ (~stop /\ next = None))
           /\ load(i) /\ fail
           /\ UNCHANGED <<ref, panic>>
        \/ /\ elem # NoElem /\ CanLock(i) /\ dir /\ stop
           /\ load(i) /\ Goto(p, Found(f.op), [f EXCEPT !.path = <<elem.name>>])
           /\ UNCHANGED <<ref, panic>>
        \/ /\ elem # NoElem /\ CanLock(i) /\ dir /\ ~stop /\ next # None
           /\ iget(next, Loaded(i)) /\ mem' = [mem EXCEPT ![i] = Copy(i)]
           /\ PutThen(p, i, "walk", [SetCur(f, next) EXCEPT !.path = elem.rest])
  /\ UNCHANGED <<disk, busy, trans, procs>>

-----------------------------------------------------------------------------
\* sys_open without O_CREATE, sys_unlink, sys_link, sys_chdir: the path is
\* looked up before any transaction.
Lookup(p, op) ==
  /\ Call(p)
  /\ namex(p, [Idle EXCEPT !.op = op])
  /\ UNCHANGED <<disk, mem, busy, trans, cwd, file>>

sys_open(p)   == Lookup(p, "open")
sys_unlink(p) == Lookup(p, "unlink")
sys_link(p)   == Lookup(p, "link")
sys_chdir(p)  == Lookup(p, "chdir")

\* The end of sys_open, with the inode locked here or by create.  It fails
\* on a directory opened for writing, and when filealloc or fdalloc finds
\* its table full (FileData has the tables).
openFile(p) ==
  /\ At(p, "openFile")
  /\ LET f == fr[p]
         i == f.ip
     IN /\ IF busy[i] = p THEN UNCHANGED <<mem, valid>> ELSE CanLock(i) /\ load(i)
        /\ iunlock(i)
        /\ \/ /\ PutThen(p, i, "user", [f EXCEPT !.ip = None])
              /\ UNCHANGED file
           \/ /\ file[p] = None
              /\ file' = [file EXCEPT ![p] = i]
              /\ Goto(p, "user", Idle)
  /\ UNCHANGED <<disk, ref, trans, cwd, left, panic>>

\* sys_close, when it drops the last reference to the struct file.
sys_close(p) ==
  /\ Call(p) /\ file[p] # None
  /\ file' = [file EXCEPT ![p] = None]
  /\ Goto(p, "closeTrans", [Idle EXCEPT !.op = "close", !.ip = file[p]])
  /\ UNCHANGED <<disk, icache, trans, cwd, panic>>

fileclose(p) ==
  /\ At(p, "closeTrans")
  /\ begin_trans(p, "put", [fr[p] EXCEPT !.ip = None, !.puts = <<fr[p].ip>>,
                                        !.k = "commit"])
  /\ UNCHANGED <<disk, icache, procs, panic>>

-----------------------------------------------------------------------------
\* sys_open with O_CREATE, sys_mkdir, sys_mknod: create inside a transaction.
sys_create(p) ==
  /\ Call(p) /\ trans = NULL
  /\ trans' = p
  /\ \E op \in {"create", "mkdir", "mknod"} : namex(p, [Idle EXCEPT !.op = op])
  /\ UNCHANGED <<disk, mem, busy, cwd, file>>

TypeOf(op) == CASE op = "create" -> "file" [] op = "mkdir" -> "dir"
                [] op = "mknod" -> "dev"

createDir(p) == At(p, "createDir") /\ ilock(p, fr[p].ip, "createLook")

\* ialloc takes the first free inode of the disk.
FreeInodes == {i \in Inum : dsk[i].type = "none"}

\* create: the name exists, or a new inode is allocated.
createLook(p) ==
  /\ At(p, "createLook")
  /\ LET f == fr[p]
         d == f.ip
         i == dirlookup(d, Head(f.path))
     IN \/ /\ i # None
           /\ iget(i, valid)
           /\ iunlockput(p, d, "createOld", [f EXCEPT !.ip = i])
           /\ UNCHANGED <<disk, mem, trans, procs>>
        \/ /\ i = None /\ FreeInodes = {}
           /\ Halt("ialloc: no inodes")
        \/ \E new \in FreeInodes :
           /\ i = None /\ \A j \in FreeInodes : new <= j
           /\ dsk' = [dsk EXCEPT ![new] = [type |-> TypeOf(f.op), nlink |-> 0]]
           /\ iget(new, valid)
           /\ Goto(p, "createLock", [f EXCEPT !.dp = d, !.ip = new])
           /\ UNCHANGED <<ents, lost, mem, busy, trans, procs>>

\* create returns an existing file, locked, only to an open.
createOld(p) ==
  /\ At(p, "createOld")
  /\ LET f == fr[p]
         i == f.ip
     IN \/ /\ CanLock(i) /\ TypeOf(f.op) = "file" /\ Copy(i).type = "file"
           /\ ilock(p, i, "created")
        \/ /\ CanLock(i) /\ ~(TypeOf(f.op) = "file" /\ Copy(i).type = "file")
           /\ load(i) /\ PutThen(p, i, "commit", [f EXCEPT !.ip = None])
           /\ UNCHANGED <<disk, ref, busy, trans, procs, panic>>

createLock(p) == At(p, "createLock") /\ ilock(p, fr[p].ip, "createInit")

\* create: fill in the new inode and enter it in the directory.
createInit(p) ==
  /\ At(p, "createInit")
  /\ LET f == fr[p]
         i == f.ip
         d == f.dp
         dir == TypeOf(f.op) = "dir"
     IN /\ mem' = [mem EXCEPT ![i].nlink = 1,
                              ![d].nlink = IF dir THEN @ + 1 ELSE @]
        /\ iupdate(IF dir THEN {i, d} ELSE {i}, mem')
        /\ LET dots == dirlink(ents, i, DotDot, IF dir THEN d ELSE None)
           IN ents' = dirlink(dots, d, Head(f.path), i)
        /\ lost' = Entered(i, d, mem[d].nlink)
        /\ iunlockput(p, d, "created", [f EXCEPT !.dp = None, !.path = <<>>])
  /\ UNCHANGED <<ref, valid, trans, procs, panic>>

\* What the callers of create do with the locked inode it returns.
created(p) ==
  /\ At(p, "created")
  /\ LET f == fr[p] IN
     IF f.op = "create"
     THEN trans' = NULL /\ Goto(p, "openFile", f) /\ UNCHANGED busy
     ELSE /\ iunlockput(p, f.ip, "commit", [f EXCEPT !.ip = None])
          /\ UNCHANGED trans
  /\ UNCHANGED <<disk, mem, ref, valid, procs, panic>>

-----------------------------------------------------------------------------
\* Mutant: the directory is locked before the transaction begins.
unlinkTransLate(p) ==
  /\ At(p, "unlinkTrans")
  /\ \/ busy[fr[p].ip] # p /\ ilock(p, fr[p].ip, "unlinkTrans")
     \/ /\ busy[fr[p].ip] = p
        /\ begin_trans(p, "unlinkLook", [fr[p] EXCEPT !.dp = fr[p].ip, !.ip = None])
        /\ UNCHANGED <<disk, icache, procs, panic>>

\* sys_unlink, from begin_trans on.
unlinkTrans(p) ==
  /\ At(p, "unlinkTrans")
  /\ begin_trans(p, "unlinkDir", [fr[p] EXCEPT !.dp = fr[p].ip, !.ip = None])
  /\ UNCHANGED <<disk, icache, procs, panic>>

unlinkDir(p) == At(p, "unlinkDir") /\ ilock(p, fr[p].dp, "unlinkLook")

unlinkLook(p) ==
  /\ At(p, "unlinkLook")
  /\ LET f == fr[p]
         n == Head(f.path)
         i == dirlookup(f.dp, n)
     IN IF n = DotDot \/ i = None
        THEN Goto(p, "unlinkBad", f) /\ UNCHANGED <<ref, valid, panic>>
        ELSE iget(i, valid) /\ Goto(p, "unlinkLock", [f EXCEPT !.ip = i])
  /\ UNCHANGED <<disk, mem, busy, trans, procs>>

unlinkLock(p) == At(p, "unlinkLock") /\ ilock(p, fr[p].ip, "unlinkEntry")

isdirempty(i) == \A n \in Name : ents[i][n] = None

\* Mutant: the parent keeps the link of the removed directory's "..".
unlinkEntryKeep(p) ==
  /\ At(p, "unlinkEntry")
  /\ LET f == fr[p] IN
     IF mem[f.ip].type = "dir" /\ ~isdirempty(f.ip)
     THEN /\ iunlockput(p, f.ip, "unlinkBad", [f EXCEPT !.ip = None])
          /\ UNCHANGED ents
     ELSE /\ ents' = [ents EXCEPT ![f.dp][Head(f.path)] = None]
          /\ iunlockput(p, f.dp, "unlinkInode", [f EXCEPT !.dp = None, !.path = <<>>])
  /\ UNCHANGED <<dsk, lost, mem, ref, valid, trans, procs, panic>>

\* The entry goes, and with a directory the parent's link for its "..".
unlinkEntry(p) ==
  /\ At(p, "unlinkEntry")
  /\ LET f == fr[p]
         i == f.ip
         d == f.dp
         dir == mem[i].type = "dir"
     IN \/ /\ dir /\ ~isdirempty(i)
           /\ iunlockput(p, i, "unlinkBad", [f EXCEPT !.ip = None])
           /\ UNCHANGED <<disk, mem, ref, valid, trans, procs, panic>>
        \/ /\ dir => isdirempty(i)
           /\ ents' = [ents EXCEPT ![d][Head(f.path)] = None]
           /\ mem' = [mem EXCEPT ![d].nlink = IF dir THEN @ - 1 ELSE @]
           /\ iupdate(IF dir THEN {d} ELSE {}, mem')
           /\ iunlockput(p, d, "unlinkInode", [f EXCEPT !.dp = None, !.path = <<>>])
           /\ UNCHANGED <<lost, ref, valid, trans, procs, panic>>

\* Mutant: the new link count is not written.
unlinkInodeMem(p) ==
  /\ At(p, "unlinkInode")
  /\ LET i == fr[p].ip IN
     /\ mem' = [mem EXCEPT ![i].nlink = @ - 1]
     /\ iunlockput(p, i, "commit", [fr[p] EXCEPT !.ip = None])
  /\ UNCHANGED <<disk, ref, valid, trans, procs, panic>>

\* The inode loses the link.
unlinkInode(p) ==
  /\ At(p, "unlinkInode")
  /\ LET i == fr[p].ip IN
     /\ mem' = [mem EXCEPT ![i].nlink = @ - 1]
     /\ iupdate({i}, mem')
     /\ iunlockput(p, i, "commit", [fr[p] EXCEPT !.ip = None])
  /\ UNCHANGED <<ents, lost, ref, valid, trans, procs, panic>>

\* Mutant: the error path unlocks the directory and keeps the reference.
unlinkBadLeak(p) ==
  /\ At(p, "unlinkBad")
  /\ iunlock(fr[p].dp)
  /\ Goto(p, "commit", [fr[p] EXCEPT !.dp = None])
  /\ UNCHANGED <<disk, mem, ref, valid, trans, procs, panic>>

unlinkBad(p) ==
  /\ At(p, "unlinkBad")
  /\ iunlockput(p, fr[p].dp, "commit", [fr[p] EXCEPT !.dp = None])
  /\ UNCHANGED <<disk, mem, ref, valid, trans, procs, panic>>

-----------------------------------------------------------------------------
\* sys_link, from begin_trans on.
linkTrans(p) ==
  /\ At(p, "linkTrans")
  /\ begin_trans(p, "linkInode", fr[p])
  /\ UNCHANGED <<disk, icache, procs, panic>>

\* The old inode gets its link before the new entry is made.
linkInode(p) ==
  /\ At(p, "linkInode")
  /\ LET f == fr[p]
         i == f.ip
     IN /\ CanLock(i)
        /\ valid' = Loaded(i)
        /\ IF Copy(i).type = "dir"
           THEN /\ mem' = [mem EXCEPT ![i] = Copy(i)]
                /\ PutThen(p, i, "commit", [f EXCEPT !.ip = None])
                /\ UNCHANGED dsk
           ELSE /\ mem' = [mem EXCEPT ![i] = [Copy(i) EXCEPT !.nlink = @ + 1]]
                /\ iupdate({i}, mem')
                /\ Goto(p, "linkNew", [f EXCEPT !.op = "link2"])
  /\ UNCHANGED <<ents, lost, ref, busy, trans, procs, panic>>

\* nameiparent(new): the walk goes through dp, ip is kept.
linkNew(p) ==
  /\ At(p, "linkNew")
  /\ namex(p, fr[p])
  /\ UNCHANGED <<disk, mem, busy, trans, procs>>

\* dirlink: the entry, unless the name is taken.
linkEntry(p) ==
  /\ At(p, "linkEntry")
  /\ LET f == fr[p]
         d == f.dp
         n == Head(f.path)
         g == [f EXCEPT !.dp = None, !.path = <<>>]
     IN /\ CanLock(d)
        /\ load(d)
        /\ IF dirlookup(d, n) # None
           THEN /\ PutThen(p, d, "linkUndo", g)
                /\ UNCHANGED <<ents, lost>>
           ELSE /\ ents' = dirlink(ents, d, n, f.ip)
                /\ lost' = Entered(f.ip, d, Copy(d).nlink)
                /\ Goto(p, "put", [g EXCEPT !.ip = None, !.puts = <<d, f.ip>>,
                                            !.k = "commit"])
  /\ UNCHANGED <<dsk, ref, busy, trans, procs, panic>>

linkUndo(p) ==
  /\ At(p, "linkUndo")
  /\ LET i == fr[p].ip IN
     /\ CanLock(i)
     /\ valid' = Loaded(i)
     /\ mem' = [mem EXCEPT ![i] = [Copy(i) EXCEPT !.nlink = @ - 1]]
     /\ iupdate({i}, mem')
     /\ PutThen(p, i, "commit", [fr[p] EXCEPT !.ip = None])
  /\ UNCHANGED <<ents, lost, ref, busy, trans, procs, panic>>

-----------------------------------------------------------------------------
\* sys_chdir: iput(proc->cwd) runs outside a transaction.
chdirPut(p) ==
  /\ At(p, "chdirPut")
  /\ LET f == fr[p]
         i == f.ip
     IN /\ CanLock(i)
        /\ load(i)
        /\ IF Copy(i).type # "dir"
           THEN PutThen(p, i, "user", [f EXCEPT !.ip = None])
           ELSE PutThen(p, cwd[p], "chdirEnd", f)
  /\ UNCHANGED <<disk, ref, busy, trans, procs, panic>>

chdirEnd(p) ==
  /\ At(p, "chdirEnd")
  /\ cwd' = [cwd EXCEPT ![p] = fr[p].ip]
  /\ Goto(p, "user", Idle)
  /\ UNCHANGED <<disk, icache, trans, file, left, panic>>

-----------------------------------------------------------------------------
\* The inode a process is about to lock, or None.
Wanted(p) ==
  CASE pc[p] = "walk" /\ skipelem(fr[p].path) # NoElem -> Cur(fr[p])
    [] pc[p] = "openFile" /\ busy[fr[p].ip] # p -> fr[p].ip
    [] pc[p] \in {"createDir", "createOld", "createLock", "unlinkLock",
                  "linkInode", "linkUndo", "chdirPut"} -> fr[p].ip
    [] pc[p] \in {"unlinkDir", "linkEntry"} -> fr[p].dp
    [] OTHER -> None

\* ilock finds a free inode on the disk.
ilockPanic(p) ==
  LET i == Wanted(p) IN
  /\ panic = NULL /\ i # None
  /\ busy[i] = NULL /\ NoType(i)
  /\ Halt("ilock: no type")

Next == \E p \in Proc :
  \/ iput(p) \/ iputTrunc(p) \/ iputFree(p) \/ iputFreed(p)
  \/ commit_trans(p) \/ walk(p) \/ ilockPanic(p)
  \/ sys_open(p) \/ openFile(p) \/ sys_close(p) \/ fileclose(p)
  \/ sys_create(p) \/ createDir(p) \/ createLook(p) \/ createOld(p)
  \/ createLock(p) \/ createInit(p) \/ created(p)
  \/ sys_unlink(p) \/ unlinkTrans(p) \/ unlinkDir(p) \/ unlinkLook(p)
  \/ unlinkLock(p) \/ unlinkEntry(p) \/ unlinkInode(p) \/ unlinkBad(p)
  \/ sys_link(p) \/ linkTrans(p) \/ linkInode(p) \/ linkNew(p)
  \/ linkEntry(p) \/ linkUndo(p)
  \/ sys_chdir(p) \/ chdirPut(p) \/ chdirEnd(p)

Spec == Init /\ [][Next]_vars

-----------------------------------------------------------------------------
(***************************************************************************)
(* Properties.                                                             *)
(***************************************************************************)
One(cond) == IF cond THEN 1 ELSE 0

Count(P(_)) == Cardinality({p \in Proc : P(p)})

\* chdir gives up the old directory, and has not stored the new one yet.
CwdPut(p) == fr[p].k = "chdirEnd" \/ pc[p] = "chdirEnd"

\* ip->ref counts exactly the pointers to the inode that open files, current
\* directories and calls in progress hold, on every error path too: a cache
\* entry is neither recycled under a pointer nor leaked.
RefExact ==
  \A i \in Inum :
    ref[i] = Count(LAMBDA p : cwd[p] = i /\ ~CwdPut(p)) + Count(LAMBDA p : file[p] = i)
             + Count(LAMBDA p : fr[p].ip = i) + Count(LAMBDA p : fr[p].dp = i)
             + Count(LAMBDA p : fr[p].puts # <<>> /\ Head(fr[p].puts) = i)
             + Count(LAMBDA p : Len(fr[p].puts) = 2 /\ fr[p].puts[2] = i)

\* An unlocked valid inode in the cache agrees with the disk: whoever locks
\* it next sees the last update, also when the inode was freed, allocated
\* again and reached through the same entry while iput was freeing it.
CacheCoherent ==
  \A i \in Inum : ref[i] > 0 /\ valid[i] /\ busy[i] = NULL => mem[i] = dsk[i]

\* The links of i: the entries that name it, the ".." of its subdirectories,
\* and the root's own.
Links(i) ==
  Cardinality({e \in Inum \X Name : dsk[e[1]].type = "dir" /\ ents[e[1]][e[2]] = i})
  + Cardinality({d \in Inum \ (lost \cup {ROOTINO}) :
                   /\ dsk[d].type = "dir" /\ dsk[d].nlink > 0
                   /\ ents[d][DotDot] = i})
  + One(i = ROOTINO)

\* Between transactions the link count on disk is the number of links, and an
\* inode that is named is allocated.  An inode linked from a directory that
\* had itself been removed (through a cwd) is exempt: see NoneLost.
LinkCounts ==
  trans = NULL /\ panic = NULL =>
    /\ \A i \in Inum \ lost : dsk[i].nlink = Links(i)
    /\ \A d \in Inum, n \in Name :
         ents[d][n] # None => dsk[ents[d][n]].type # "none"

WaitsFor(p, q) ==
  \/ Wanted(p) # None /\ busy[Wanted(p)] = q
  \/ pc[p] \in {"closeTrans", "unlinkTrans", "linkTrans"} /\ trans = q

\* Inode locks are taken from parent to child and never before the
\* transaction: no set of processes waits in a circle, and none for itself.
NoCircularWait ==
  \A S \in (SUBSET Proc) \ {{}} : \E p \in S : \A q \in S : ~WaitsFor(p, q)

\* Whoever is about to lock an inode holds a reference to it ("ilock"), and
\* nobody has the lock of an inode whose last reference goes ("iput busy").
LocksAsserted ==
  \A p \in Proc :
    /\ Wanted(p) # None => ref[Wanted(p)] >= 1
    /\ pc[p] = "put" /\ LastRef(Head(fr[p].puts)) => busy[Head(fr[p].puts)] = NULL

\* The panics of fs.c and sysfile.c that assert an invariant of the code are
\* never reached: "ilock" and "iput busy", and "unlink: nlink < 1".
AssertionsHold ==
  /\ LocksAsserted
  /\ \A p \in Proc : pc[p] = "unlinkEntry" => mem[fr[p].ip].nlink >= 1

\* log.c asserts that every disk write is inside a transaction.  The code
\* does not ensure it: namex, sys_open, sys_chdir and exit iput an inode
\* outside one, and the last reference to an unlinked inode frees it.
WritesInTrans == panic # "write outside of trans"

\* ilock asserts that a directory entry names an allocated inode.  The ".."
\* of a removed directory may not, once its parent was removed too.
NamesAllocated == panic # "ilock: no type"

\* No inode is given a link in a directory that was removed.  create and
\* link do not look at dp->nlink, so a process whose cwd was removed can.
NoneLost == lost = {}
=============================================================================
