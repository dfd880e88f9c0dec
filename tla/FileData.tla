------------------------------ MODULE FileData ------------------------------
(***************************************************************************)
(* Open files and their content: the descriptors of a process (sysfile.c), *)
(* the table of open files (file.c), and the blocks of an inode (fs.c).    *)
(* Names, link counts and the inode cache are in FileSys; here an inode is *)
(* linked, unlinked (and freed with its last reference) or free.           *)
(*                                                                         *)
(* A step is a critical section of ftable.lock, what a call does between   *)
(* ilock and iunlock, or, in writei, one round of the loop: the process    *)
(* then holds the inode and the transaction.                               *)
(***************************************************************************)
EXTENDS Mkfs, FiniteSets, FiniteSetsExt, SequencesExt

CONSTANTS Proc,      \* positive integers: a process writes its own number
          LOGSIZE,
          NFILE, NOFILE,
          Sizes,     \* bound: the values of n in a read or write
          MaxCalls,  \* bound: the calls made
          Contents,  \* the contents of the files that mkfs may have written
          NULL

ASSUME FileDataAssumption ==
  /\ BSIZE \in Nat \ {0} /\ NDIRECT \in Nat /\ nblocks \in Nat
  /\ nlog = LOGSIZE /\ LOGSIZE \in Nat /\ LOGSIZE >= 6
  /\ Proc \subseteq Nat \ {0} /\ NULL \notin Proc
  /\ \E n \in 1..10 : Inum = 1..n

File == 1..NFILE
Fd   == 0..(NOFILE - 1)
None == 0            \* a null pointer to a struct file

VARIABLES
  dino, ino,   \* the size and addresses of an inode: on disk, in the cache
  blk,         \* the content of a block
  bit,         \* the blocks marked in the bitmap
  live,        \* "linked", "unlinked" or "free"
  lock,        \* the process that holds the inode, or NULL
  trans, log,  \* the process in a transaction; the sectors it has logged
  ftab,        \* ftable.file
  ofile,       \* proc->ofile
  left,        \* the calls that may still be made
  pc, fr,      \* where a process is, and the locals of its call
  panic,       \* the message of a panic, or NULL
  text,        \* the content that the calls so far have given each inode
  moved        \* the bytes read and written through a file since its open

disk  == <<dino, ino, blk, bit, live>>
tx    == <<lock, trans, log>>
files == <<ftab, ofile>>
ghost == <<text, moved>>
vars  == <<disk, tx, files, left, pc, fr, panic, ghost>>

NoFile == [ref |-> 0, type |-> "FD_NONE", ip |-> 0, off |-> 0]
\* f0, f1: the files of the call; ip: its inode; n: what filewrite has still to
\* write; tot, off: writei's.
Idle   == [f0 |-> None, f1 |-> None, ip |-> 0, n |-> 0, tot |-> 0, off |-> 0]

\* The disk is as mkfs wrote it, and every process has inherited descriptor 0
\* for the first file.
Init ==
  /\ text \in Contents
  /\ LET m == mkfs(Blank, 1, text) IN
     dino = m.ino /\ ino = m.ino /\ blk = m.blk /\ bit = bitmap(m)
  /\ live = [i \in Inum |-> "linked"]
  /\ lock = [i \in Inum |-> NULL] /\ trans = NULL /\ log = {}
  /\ ftab = [f \in File |-> IF f = 1
       THEN [NoFile EXCEPT !.ref = Cardinality(Proc), !.type = "FD_INODE", !.ip = 1]
       ELSE NoFile]
  /\ ofile = [p \in Proc |-> [d \in Fd |-> IF d = 0 THEN 1 ELSE None]]
  /\ left = MaxCalls
  /\ pc = [p \in Proc |-> "user"] /\ fr = [p \in Proc |-> Idle]
  /\ panic = NULL
  /\ moved = [f \in File |-> 0]

-----------------------------------------------------------------------------
At(p, l)      == pc[p] = l /\ panic = NULL
Call(p)       == At(p, "user") /\ left > 0 /\ left' = left - 1
Goto(p, l, f) == /\ pc' = [pc EXCEPT ![p] = l]
                 /\ fr' = [fr EXCEPT ![p] = IF l = "user" THEN Idle ELSE f]

Halt(msg) == panic' = msg /\ UNCHANGED <<disk, tx, files, left, pc, fr, ghost>>

\* argfd accepts the descriptor d.
argfd(p, d) == d \in Fd /\ ofile[p][d] # None

\* filealloc takes the first free file, fdalloc the first free descriptor.
FreeFile  == {f \in File : ftab[f].ref = 0}
FreeFd(p) == {d \in Fd : ofile[p][d] = None}

\* sys_open, of an inode that has a name: from ilock on, and filealloc; then
\* fdalloc, iunlock and the fields of the file.
sys_open(p) ==
  /\ Call(p)
  /\ FreeFile # {}
  /\ \E i \in {j \in Inum : live[j] = "linked" /\ lock[j] = NULL} :
       /\ lock' = [lock EXCEPT ![i] = p]
       /\ ftab' = [ftab EXCEPT ![Min(FreeFile)].ref = 1]
       /\ Goto(p, "openFd", [Idle EXCEPT !.f0 = Min(FreeFile), !.ip = i])
  /\ UNCHANGED <<disk, trans, log, ofile, panic, ghost>>

openFd(p) ==
  /\ At(p, "openFd")
  /\ LET f == fr[p].f0 IN
     \/ /\ FreeFd(p) = {}
        /\ ftab' = [ftab EXCEPT ![f].ref = 0]
        /\ UNCHANGED <<ofile, moved>>
     \/ /\ FreeFd(p) # {}
        /\ ofile' = [ofile EXCEPT ![p][Min(FreeFd(p))] = f]
        /\ ftab' = [ftab EXCEPT ![f] = [@ EXCEPT !.type = "FD_INODE",
                                                !.ip = fr[p].ip, !.off = 0]]
        /\ moved' = [moved EXCEPT ![f] = 0]
  /\ lock' = [lock EXCEPT ![fr[p].ip] = NULL]
  /\ Goto(p, "user", Idle)
  /\ UNCHANGED <<disk, trans, log, left, panic, text>>

filedup(f)   == [ftab EXCEPT ![f].ref = @ + 1]
fileclose(f) == [ftab EXCEPT ![f] = IF @.ref > 1 THEN [@ EXCEPT !.ref = @ - 1] ELSE NoFile]

\* sys_dup; fdalloc comes before filedup.
sys_dup(p) ==
  /\ Call(p)
  /\ \E d \in 0..NOFILE :
       /\ argfd(p, d) /\ FreeFd(p) # {}
       /\ ofile' = [ofile EXCEPT ![p][Min(FreeFd(p))] = ofile[p][d]]
       /\ ftab' = filedup(ofile[p][d])
  /\ UNCHANGED <<disk, tx, pc, fr, panic, ghost>>

\* pipealloc: two files and a page; when the second file or the page is
\* missing, what was obtained is given back.
sys_pipe(p) ==
  /\ Call(p)
  /\ FreeFile # {}
  /\ ftab' = [ftab EXCEPT ![Min(FreeFile)].ref = 1]
  /\ Goto(p, "pipealloc", [Idle EXCEPT !.f0 = Min(FreeFile)])
  /\ UNCHANGED <<disk, tx, ofile, panic, ghost>>

pipealloc(p) ==
  /\ At(p, "pipealloc")
  /\ LET f0 == fr[p].f0
         f1 == Min(FreeFile)
     IN \/ /\ ftab' = [ftab EXCEPT ![f0].ref = 0]
           /\ Goto(p, "user", Idle)
        \/ /\ FreeFile # {}
           /\ ftab' = [ftab EXCEPT ![f0].type = "FD_PIPE",
                                   ![f1] = [@ EXCEPT !.ref = 1, !.type = "FD_PIPE"]]
           /\ Goto(p, "pipeFd", [fr[p] EXCEPT !.f1 = f1])
  /\ UNCHANGED <<disk, tx, ofile, left, panic, ghost>>

\* Mutant: when only the second descriptor is missing, the first one stays.
pipeFdKeep(p) ==
  /\ At(p, "pipeFd")
  /\ LET free == FreeFd(p)
         f0 == fr[p].f0
         f1 == fr[p].f1
     IN IF Cardinality(free) < 2
        THEN /\ ftab' = [ftab EXCEPT ![f0] = NoFile, ![f1] = NoFile]
             /\ ofile' = IF free = {} THEN ofile
                         ELSE [ofile EXCEPT ![p][Min(free)] = f0]
        ELSE /\ ofile' = [ofile EXCEPT ![p][Min(free)] = f0,
                                       ![p][Min(free \ {Min(free)})] = f1]
             /\ UNCHANGED ftab
  /\ Goto(p, "user", Idle)
  /\ UNCHANGED <<disk, tx, left, panic, ghost>>

\* The rest of sys_pipe: two descriptors, or both files are closed again (the
\* last close of both ends frees the pipe, in Pipe).
pipeFd(p) ==
  /\ At(p, "pipeFd")
  /\ LET free == FreeFd(p)
         f0 == fr[p].f0
         f1 == fr[p].f1
     IN IF Cardinality(free) < 2
        THEN /\ ftab' = [ftab EXCEPT ![f0] = NoFile, ![f1] = NoFile]
             /\ UNCHANGED ofile
        ELSE /\ ofile' = [ofile EXCEPT ![p][Min(free)] = f0,
                                       ![p][Min(free \ {Min(free)})] = f1]
             /\ UNCHANGED ftab
  /\ Goto(p, "user", Idle)
  /\ UNCHANGED <<disk, tx, left, panic, ghost>>

\* fork: the child, a process without descriptors, shares the parent's files.
fork(p) ==
  /\ Call(p)
  /\ \E q \in Proc \ {p} :
       /\ pc[q] = "user" /\ \A d \in Fd : ofile[q][d] = None
       /\ ofile' = [ofile EXCEPT ![q] = ofile[p]]
       /\ ftab' = [f \in File |-> [ftab[f] EXCEPT !.ref =
                     @ + Cardinality({d \in Fd : ofile[p][d] = f})]]
  /\ UNCHANGED <<disk, tx, pc, fr, panic, ghost>>

\* sys_close and fileclose; an inode is put inside a transaction of its own.
sys_close(p) ==
  /\ Call(p)
  /\ \E d \in 0..NOFILE :
       LET f == ofile[p][d] IN
       /\ argfd(p, d)
       /\ ofile' = [ofile EXCEPT ![p][d] = None]
       /\ ftab' = fileclose(f)
       /\ IF ftab[f].ref = 1 /\ ftab[f].type = "FD_INODE"
          THEN Goto(p, "iput", [Idle EXCEPT !.ip = ftab[f].ip])
          ELSE Goto(p, "user", Idle)
  /\ UNCHANGED <<disk, tx, panic, ghost>>

\* The references to the inode i from open files and from calls in progress.
Refs(i) == Cardinality({f \in File : ftab[f].ip = i})
           + Cardinality({p \in Proc : fr[p].ip = i})

\* The blocks of the inode n, the indirect block included, each as often as
\* it is pointed to.
Blocks(n) ==
  SelectSeq([k \in 1..(NDIRECT + 1) |-> n.addrs[k - 1]]
            \o IF n.addrs[NDIRECT] = NoBlock THEN <<>>
               ELSE [k \in 1..NINDIRECT |-> blk[n.addrs[NDIRECT]][k - 1]],
            LAMBDA b : b # NoBlock)

bfree(S) == bit \ S

\* itrunc and the final iupdate of iput.
Freed(i) ==
  /\ bit' = bfree(ToSet(Blocks(ino[i])))
  /\ ino' = [ino EXCEPT ![i] = Blank.ino[i]]
  /\ dino' = [dino EXCEPT ![i] = Blank.ino[i]]
  /\ live' = [live EXCEPT ![i] = "free"]
  /\ text' = [text EXCEPT ![i] = <<>>]

iput(p) ==
  /\ At(p, "iput") /\ trans = NULL
  /\ LET i == fr[p].ip IN
     IF live[i] = "unlinked" /\ Refs(i) = 1 THEN Freed(i)
     ELSE UNCHANGED <<bit, ino, dino, live, text>>
  /\ Goto(p, "user", Idle)
  /\ UNCHANGED <<blk, tx, files, left, panic, moved>>

\* What sys_unlink and create, in transactions of their own, do to the content
\* (FileSys has them in full).
sys_unlink(p) ==
  /\ Call(p) /\ trans = NULL
  /\ \E i \in {j \in Inum : live[j] = "linked" /\ lock[j] = NULL} :
       IF Refs(i) = 0 THEN Freed(i)
       ELSE live' = [live EXCEPT ![i] = "unlinked"] /\ UNCHANGED <<bit, ino, dino, text>>
  /\ UNCHANGED <<blk, tx, files, pc, fr, panic, moved>>

create(p) ==
  /\ Call(p) /\ trans = NULL
  /\ \E i \in {j \in Inum : live[j] = "free"} : live' = [live EXCEPT ![i] = "linked"]
  /\ UNCHANGED <<dino, ino, blk, bit, tx, files, pc, fr, panic, ghost>>

-----------------------------------------------------------------------------
\* The number of bytes readi finds at off (-1 advances the offset no more than 0
\* does).
readi(i, off, n) ==
  IF off > ino[i].size THEN 0 ELSE Min({n, ino[i].size - off})

\* fileread: ilock, readi from f->off, iunlock.
fileread(f, n) ==
  LET i == ftab[f].ip
      r == readi(i, ftab[f].off, n)
  IN /\ ftab[f].type = "FD_INODE" /\ lock[i] = NULL
     /\ ftab' = [ftab EXCEPT ![f].off = @ + r]
     /\ moved' = [moved EXCEPT ![f] = @ + r]

sys_read(p) ==
  /\ Call(p)
  /\ \E d \in 0..NOFILE, n \in Sizes : argfd(p, d) /\ fileread(ofile[p][d], n)
  /\ UNCHANGED <<disk, tx, ofile, pc, fr, panic, text>>

\* filewrite: n bytes, at most MaxChunk of them in a transaction.
filewrite(p, f, n) ==
  ftab[f].type = "FD_INODE" /\ Goto(p, "chunk", [Idle EXCEPT !.f0 = f, !.n = n])

sys_write(p) ==
  /\ Call(p)
  /\ \E d \in 0..NOFILE, n \in Sizes : argfd(p, d) /\ filewrite(p, ofile[p][d], n)
  /\ UNCHANGED <<disk, tx, files, panic, ghost>>

\* Mutant: no slop for a write that is not aligned.
MaxChunkAligned == ((LOGSIZE - 1 - 1) \div 2) * BSIZE

MaxChunk == ((LOGSIZE - 1 - 1 - 2) \div 2) * BSIZE

Chunk(p) == Min({fr[p].n, MaxChunk})

\* begin_trans, ilock, and writei's checks.
chunkBegin(p) ==
  /\ At(p, "chunk") /\ trans = NULL
  /\ LET f == ftab[fr[p].f0] IN
     /\ lock[f.ip] = NULL
     /\ \/ /\ f.off > ino[f.ip].size \/ f.off + Chunk(p) > MAXFILE * BSIZE
           /\ Goto(p, "user", Idle)
           /\ UNCHANGED tx
        \/ /\ ~(f.off > ino[f.ip].size \/ f.off + Chunk(p) > MAXFILE * BSIZE)
           /\ trans' = p
           /\ lock' = [lock EXCEPT ![f.ip] = p]
           /\ Goto(p, "writei", [fr[p] EXCEPT !.off = f.off])
           /\ UNCHANGED log
  /\ UNCHANGED <<disk, files, left, panic, ghost>>

\* log_write of the sectors ws, in this order: it panics before it looks
\* whether the sector is in the log already.
LogFull(ws) ==
  \E k \in DOMAIN ws :
    Cardinality(log \cup {ws[j] : j \in 1..(k - 1)}) >= nlog - 1

logWrites(ws) == /\ log' = log \cup ToSet(ws)
                 /\ panic' = IF LogFull(ws) THEN "too big a transaction" ELSE panic

\* balloc takes the first blocks whose bit is clear, anywhere on the disk.
FreeBlocks == SelectSeq([k \in 1..size |-> k - 1], LAMBDA b : b \notin bit)
balloc(k)  == SubSeq(FreeBlocks, 1, k)

\* Mutant: a new block is not zeroed.
bzeroNot(s) == blk

\* bzero of the blocks s.
bzero(s) == [b \in Block |-> IF b \in ToSet(s) THEN Zeroes ELSE blk[b]]

BitmapBlock == 3
InodeBlock  == 2

\* The sectors that bmap and the copy write when it allocates s for bn.
Written(n, bn, s, b) ==
  CASE Len(s) = 0 -> <<b>>
    [] Len(s) = 1 /\ bn < NDIRECT -> <<BitmapBlock, b, b>>
    [] Len(s) = 1 /\ bn >= NDIRECT -> <<BitmapBlock, b, n.addrs[NDIRECT], b>>
    [] OTHER -> <<BitmapBlock, s[1], BitmapBlock, b, s[1], b>>

\* writei, one round: bmap of the block and the copy into it.
writei(p) ==
  /\ At(p, "writei") /\ fr[p].tot < Chunk(p)
  /\ LET ip  == ftab[fr[p].f0].ip
         off == fr[p].off
         bn  == off \div BSIZE
         m   == Min({Chunk(p) - fr[p].tot, BSIZE - (off % BSIZE)})
         s   == balloc(Missing(ino[ip], blk, bn))
         new == NewInode(ino[ip], bn, s)
         nb  == NewBlk(ino[ip], bzero(s), bn, s)
         b   == Addr(new, nb, bn)
     IN IF Len(FreeBlocks) < Missing(ino[ip], blk, bn)
        THEN Halt("balloc: out of blocks")
        ELSE /\ bit' = bit \cup ToSet(s)
             /\ ino' = [ino EXCEPT ![ip] = new]
             /\ blk' = [nb EXCEPT ![b] = [u \in Unit |->
                          IF u \in (off % BSIZE)..((off % BSIZE) + m - 1) THEN p ELSE @[u]]]
             /\ logWrites(Written(new, bn, s, b))
             /\ Goto(p, "writei", [fr[p] EXCEPT !.tot = @ + m, !.off = @ + m])
             /\ UNCHANGED <<dino, live, lock, trans, files, left, ghost>>

\* Mutant: the addresses are not copied to the disk inode.
iupdateSize(i, n) == dino' = [dino EXCEPT ![i].size = n.size]

iupdate(i, n) == dino' = [dino EXCEPT ![i] = n]

\* The text t with c written k times from offset off on.
Overwrite(t, off, k, c) ==
  [j \in 1..Max({Len(t), off + k}) |-> IF j \in (off + 1)..(off + k) THEN c ELSE t[j]]

\* The end of writei, f->off, iunlock and commit_trans; then the next chunk.
chunkEnd(p) ==
  /\ At(p, "writei") /\ fr[p].tot = Chunk(p)
  /\ LET r    == fr[p].tot
         file == fr[p].f0
         ip   == ftab[file].ip
     IN /\ IF fr[p].off > ino[ip].size
           THEN /\ ino' = [ino EXCEPT ![ip].size = fr[p].off]
                /\ iupdate(ip, ino'[ip])
                /\ panic' = IF LogFull(<<InodeBlock>>) THEN "too big a transaction"
                            ELSE panic
           ELSE UNCHANGED <<ino, dino, panic>>
        /\ ftab' = [ftab EXCEPT ![file].off = @ + r]
        /\ lock' = [lock EXCEPT ![ip] = NULL]
        /\ trans' = NULL /\ log' = {}
        /\ text' = [text EXCEPT ![ip] = Overwrite(@, moved[file], r, p)]
        /\ moved' = [moved EXCEPT ![file] = @ + r]
        /\ Goto(p, IF fr[p].n = r THEN "user" ELSE "chunk",
                [fr[p] EXCEPT !.n = @ - r, !.tot = 0, !.off = 0])
  /\ UNCHANGED <<blk, bit, live, ofile, left>>

-----------------------------------------------------------------------------
Next == \E p \in Proc :
  \/ sys_open(p) \/ openFd(p) \/ sys_dup(p) \/ fork(p)
  \/ sys_pipe(p) \/ pipealloc(p) \/ pipeFd(p)
  \/ sys_close(p) \/ iput(p) \/ sys_unlink(p) \/ create(p)
  \/ sys_read(p) \/ sys_write(p) \/ chunkBegin(p) \/ writei(p) \/ chunkEnd(p)

Spec == Init /\ [][Next]_vars

-----------------------------------------------------------------------------
(***************************************************************************)
(* Properties.                                                             *)
(***************************************************************************)

\* f->ref is the number of descriptors for the file and of calls that are
\* about to give it one, on the error paths of open and pipe too: no file is
\* closed under a descriptor, and none is lost to the table.
FileRefExact ==
  \A f \in File :
    ftab[f].ref = Cardinality({x \in Proc \X Fd : ofile[x[1]][x[2]] = f})
                  + Cardinality({p \in Proc : pc[p] \in {"openFd", "pipealloc", "pipeFd"}
                                              /\ f \in {fr[p].f0, fr[p].f1}})

\* The blocks of the inodes on disk, one after another.
AllBlocks == FoldLeft(LAMBDA s, n : s \o Blocks(n), <<>>, dino)

\* Outside transactions the bitmap marks exactly the blocks before the data
\* and those some inode points to, none of them twice; and a file has no hole:
\* readi never makes bmap allocate outside a transaction.
BlocksExact ==
  trans = NULL /\ panic = NULL =>
    /\ IsInjective(AllBlocks)
    /\ bit = 0..(usedblocks - 1) \cup ToSet(AllBlocks)
    /\ \A i \in Inum : \A k \in 0..(dino[i].size - 1) :
         Addr(dino[i], blk, k \div BSIZE) # NoBlock

\* Between transactions the disk holds what the calls have written: every chunk
\* right behind the bytes already read or written through the same open file,
\* by whichever process shares it, and whatever blocks were freed and used again.
ContentsExact ==
  trans = NULL /\ panic = NULL =>
    \A i \in Inum :
      text[i] = [k \in 1..dino[i].size |->
                   blk[Addr(dino[i], blk, (k - 1) \div BSIZE)][(k - 1) % BSIZE]]

\* The chunks filewrite cuts a write into never fill the log, aligned or not,
\* in the direct or the indirect blocks.
TransFits == panic # "too big a transaction"

\* fs.h puts the log behind the data blocks; balloc looks at all blocks of the
\* disk and mkfs leaves the bits of the log clear, so a full disk puts file
\* content on the log.
LogBlocksKept == bit \cap (size - nlog)..(size - 1) = {}
=============================================================================
