------------------------------- MODULE Umalloc -------------------------------
(***************************************************************************)
(* malloc and free of the user library (umalloc.c), as functions from a    *)
(* heap to a heap.  An address counts headers; base, the header in the     *)
(* program's data, is below all of the heap.                               *)
(***************************************************************************)
EXTENDS Integers, FiniteSets, FiniteSetsExt

CONSTANTS HDR,      \* sizeof(Header)
          MINCORE,  \* the headers morecore asks for at least: 4096
          HeapEnd   \* where sbrk fails

base == 0
Null == -1
Addr == base..HeapEnd

\* ptr and size are the fields of the header at an address; brk is where the
\* next sbrk begins.
Fresh == [ptr |-> [a \in Addr |-> base], size |-> [a \in Addr |-> 0],
          freep |-> Null, brk |-> base + 1]

\* free: the entry p of the list behind which bp belongs.
RECURSIVE Behind(_, _, _)
Behind(h, bp, p) ==
  LET q == h.ptr[p] IN
  IF (bp > p /\ bp < q) \/ (p >= q /\ (bp > p \/ bp < q)) THEN p
  ELSE Behind(h, bp, q)

\* free joins the block with its neighbours on both sides.
free(h, bp) ==
  LET p  == Behind(h, bp, h.freep)
      q  == h.ptr[p]
      up == bp + h.size[bp] = q
      h1 == [h EXCEPT !.size[bp] = IF up THEN @ + h.size[q] ELSE @,
                      !.ptr[bp] = IF up THEN h.ptr[q] ELSE q]
      lo == p + h1.size[p] = bp
  IN [h1 EXCEPT !.size[p] = IF lo THEN @ + h1.size[bp] ELSE @,
                !.ptr[p] = IF lo THEN h1.ptr[bp] ELSE bp,
                !.freep = p]

\* morecore, when sbrk succeeds.
Core(nu)         == Max({nu, MINCORE})
CanGrow(h, nu)   == h.brk + Core(nu) <= HeapEnd
morecore(h, nu)  == free([h EXCEPT !.size[h.brk] = Core(nu), !.brk = @ + Core(nu)], h.brk)

\* malloc's loop from prevp on: the heap and the header it takes, or Null.
RECURSIVE Fit(_, _, _)
Fit(h, prevp, nunits) ==
  LET p    == h.ptr[prevp]
      rest == h.size[p] - nunits
  IN CASE rest = 0 -> [heap |-> [h EXCEPT !.ptr[prevp] = h.ptr[p], !.freep = prevp], at |-> p]
       [] rest > 0 -> [heap |-> [h EXCEPT !.size[p] = rest, !.size[p + rest] = nunits,
                                          !.freep = prevp], at |-> p + rest]
       [] rest < 0 /\ p # h.freep -> Fit(h, p, nunits)
       [] rest < 0 /\ p = h.freep /\ ~CanGrow(h, nunits) -> [heap |-> h, at |-> Null]
       [] OTHER -> LET more == morecore(h, nunits) IN Fit(more, more.freep, nunits)

malloc(h, nbytes) ==
  LET nunits == ((nbytes + HDR - 1) \div HDR) + 1
      h0     == IF h.freep = Null THEN [h EXCEPT !.freep = base] ELSE h
  IN Fit(h0, h0.freep, nunits)

-----------------------------------------------------------------------------
\* The free blocks, base excepted, as the list from base on has them.
RECURSIVE List(_, _)
List(h, a) == IF h.ptr[a] = base THEN {} ELSE {h.ptr[a]} \cup List(h, h.ptr[a])

Extent(h, a) == a..(a + h.size[a] - 1)

\* The heap is the disjoint union of the blocks handed out (live) and the free
\* ones; the list is in the order of addresses, freep is on it, and no two of
\* its blocks touch.
Sound(h, live) ==
  LET free_ == List(h, base)
      all   == free_ \cup live
  IN /\ UNION {Extent(h, a) : a \in all} = (base + 1)..(h.brk - 1)
     /\ MapThenSumSet(LAMBDA a : h.size[a], all) = h.brk - base - 1
     /\ h.freep \in free_ \cup {base, Null}
     /\ \A a \in free_ : h.ptr[a] # base => h.ptr[a] > a + h.size[a]

\* Every sequence of k calls keeps the heap sound, a block that malloc returns
\* has room for what was asked, and malloc fails only when no free block is
\* large enough.
RECURSIVE SoundFor(_, _, _, _)
SoundFor(h, live, k, Sizes) ==
  /\ Sound(h, live)
  /\ k > 0 =>
       /\ \A n \in Sizes :
            LET r == malloc(h, n) IN
            IF r.at = Null
            THEN \A a \in List(h, base) : (h.size[a] - 1) * HDR < n
            ELSE /\ (r.heap.size[r.at] - 1) * HDR >= n
                 /\ r.at \notin live
                 /\ SoundFor(r.heap, live \cup {r.at}, k - 1, Sizes)
       /\ \A a \in live : SoundFor(free(h, a), live \ {a}, k - 1, Sizes)
=============================================================================
