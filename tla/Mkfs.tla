-------------------------------- MODULE Mkfs --------------------------------
(***************************************************************************)
(* The layout of the disk (fs.h), and the image that mkfs writes on it as  *)
(* far as the content of files goes.  A block is a function on Unit; an    *)
(* entry of an indirect block takes one unit of it, so NINDIRECT = BSIZE.  *)
(***************************************************************************)
EXTENDS Integers, Sequences

CONSTANTS BSIZE, NDIRECT,
          Inum,       \* the inodes of files, 1..n
          nblocks,    \* sb.nblocks: the data blocks
          nlog        \* sb.nlog

NINDIRECT  == BSIZE
MAXFILE    == NDIRECT + NINDIRECT

\* The boot block, the super block, one block of inodes and one of bitmap; the
\* data blocks; the log.
usedblocks == 4
size       == usedblocks + nblocks + nlog
Block      == 0..(size - 1)
Unit       == 0..(BSIZE - 1)
Zeroes     == [u \in Unit |-> 0]
NoBlock    == 0

\* The block that holds the bn-th block of the inode n, if it has one, and
\* the number of blocks to allocate if it has not: two when the indirect
\* block is missing as well.
Addr(n, blk, bn) ==
  IF bn < NDIRECT THEN n.addrs[bn]
  ELSE IF n.addrs[NDIRECT] = NoBlock THEN NoBlock
  ELSE blk[n.addrs[NDIRECT]][bn - NDIRECT]

Missing(n, blk, bn) ==
  IF Addr(n, blk, bn) # NoBlock THEN 0
  ELSE IF bn >= NDIRECT /\ n.addrs[NDIRECT] = NoBlock THEN 2 ELSE 1

\* The inode and the blocks with the new blocks s entered for bn.
NewInode(n, bn, s) ==
  CASE s = <<>> -> n
    [] s # <<>> /\ bn < NDIRECT -> [n EXCEPT !.addrs[bn] = s[1]]
    [] Len(s) = 2 /\ bn >= NDIRECT -> [n EXCEPT !.addrs[NDIRECT] = s[1]]
    [] OTHER -> n

NewBlk(n, blk, bn, s) ==
  IF s = <<>> \/ bn < NDIRECT THEN blk
  ELSE [blk EXCEPT ![NewInode(n, bn, s).addrs[NDIRECT]][bn - NDIRECT] = s[Len(s)]]

-----------------------------------------------------------------------------
\* What mkfs has built so far: the inodes, the blocks and the next free block.
Blank == [ino |-> [i \in Inum |-> [size |-> 0,
                                   addrs |-> [k \in 0..NDIRECT |-> NoBlock]]],
          blk |-> [b \in Block |-> Zeroes],
          freeblock |-> usedblocks]

winode(m, i, n) == [m EXCEPT !.ino[i] = n]
wsect(m, b, x)  == [m EXCEPT !.blk[b] = x]

\* iappend of one byte c to the file i.
iappend1(m, i, c) ==
  LET n   == m.ino[i]
      fbn == n.size \div BSIZE
      s   == [k \in 1..Missing(n, m.blk, fbn) |-> m.freeblock + k - 1]
      new == NewInode(n, fbn, s)
      m1  == [m EXCEPT !.blk = NewBlk(n, @, fbn, s), !.freeblock = @ + Len(s)]
      x   == Addr(new, m1.blk, fbn)
      m2  == wsect(m1, x, [m1.blk[x] EXCEPT ![n.size % BSIZE] = c])
  IN winode(m2, i, [new EXCEPT !.size = @ + 1])

RECURSIVE iappend(_, _, _)
iappend(m, i, s) ==
  IF s = <<>> THEN m ELSE iappend(iappend1(m, i, Head(s)), i, Tail(s))

\* main: the files i, i + 1, ... with the given contents.
RECURSIVE mkfs(_, _, _)
mkfs(m, i, contents) ==
  IF i \notin Inum THEN m ELSE mkfs(iappend(m, i, contents[i]), i + 1, contents)

\* balloc: the bitmap says that the first blocks are used.
bitmap(m) == 0..(m.freeblock - 1)
=============================================================================
