--------------------------------- MODULE Vm ---------------------------------
(***************************************************************************)
(* User address spaces: the page allocator (kalloc.c), page tables (vm.c), *)
(* exec (exec.c), growproc and the part of fork and wait that builds and   *)
(* frees an address space (proc.c), and the checks of system-call          *)
(* arguments against proc->sz (syscall.c).                                 *)
(*                                                                         *)
(* A page directory is a record: its own page, the page tables of the      *)
(* kernel part, the page tables of the user part, the page mapped at each  *)
(* user page number and the one made inaccessible by exec.  A step is one  *)
(* page to map: kalloc of the page and, if it is missing, of its page      *)
(* table.  Freeing never waits and is one step.                            *)
(***************************************************************************)
EXTENDS Integers, FiniteSets, FiniteSetsExt, Sequences

CONSTANTS Proc, init,   \* the processes; the first one
          PGSIZE,       \* units of memory in a page
          NPTENTRIES,   \* pages that one page table maps
          KERNBASE,     \* the end of user memory; addresses are % 2 * KERNBASE
          NKMAP,        \* page tables that setupkvm needs for kmap
          end, PHYSTOP, \* the physical memory behind the kernel, in units
          Taken,        \* how many of its pages other parts of the kernel may hold
          Programs,     \* sequences of segments [vaddr, memsz, filesz]
          MAXARG, Args, \* arguments of exec: their number, the units they fill
          Grow,         \* the n of sbrk
          MaxCalls      \* bound: the calls made

ASSUME VmAssumption ==
  /\ init \in Proc /\ PGSIZE \in Nat \ {0} /\ NPTENTRIES \in Nat \ {0}
  /\ KERNBASE % (PGSIZE * NPTENTRIES) = 0 /\ end \in Nat \ {0} /\ PHYSTOP \in Nat
  /\ \A prog \in Programs : \A k \in DOMAIN prog : prog[k].vaddr % PGSIZE = 0

VARIABLES
  free,     \* kmem.freelist
  pgdir, sz,
  pc, fr,   \* where a process is, and the locals of its call
  left,     \* the calls that may still be made
  gone,     \* pages in other hands, and those an error path has forgotten
  panic

vars == <<free, pgdir, sz, pc, fr, left, gone, panic>>

Upage      == 0..((KERNBASE \div PGSIZE) - 1)
Table(k)   == k \div NPTENTRIES
NoPage     == 0

\* The pages that freerange puts on the free list at boot: whole ones only.
freerange(vstart, vend) ==
  {x \in 0..(vend \div PGSIZE) : x * PGSIZE >= vstart /\ (x + 1) * PGSIZE <= vend}
Page == freerange(end, PHYSTOP)

PgUp(a)  == (a + PGSIZE - 1) \div PGSIZE      \* PGROUNDUP, as a page number
Below(a) == {k \in Upage : k < PgUp(a)}       \* the pages of addresses below a

\* hole: the pages that allocuvm counts and has not mapped.
NoDir == [page |-> NoPage, kmap |-> {}, tab |-> [t \in {Table(k) : k \in Upage} |-> NoPage],
          pte |-> [k \in Upage |-> NoPage], guard |-> {}, hole |-> {}]
Idle  == [call |-> "none", d |-> NoDir, a |-> 0, oldsz |-> 0, newsz |-> 0,
          prog |-> <<>>, child |-> init]

Rank(x, S) == Cardinality({y \in S : y < x})

\* setupkvm and inituvm in userinit: a directory with one user page.
inituvm(pages) ==
  [NoDir EXCEPT !.page = Min(pages), !.kmap = {x \in pages : Rank(x, pages) \in 1..NKMAP},
                !.tab[0] = CHOOSE x \in pages : Rank(x, pages) = NKMAP + 1,
                !.pte[0] = Max(pages)]

Init ==
  /\ \E n \in Taken :
       LET mine == {x \in Page : Rank(x, Page) < NKMAP + 3} IN
       /\ gone = {x \in Page \ mine : Rank(x, Page \ mine) < n}
       /\ free = Page \ (gone \cup mine)
       /\ pgdir = [p \in Proc |-> IF p = init THEN inituvm(mine) ELSE NoDir]
  /\ sz = [p \in Proc |-> IF p = init THEN PGSIZE ELSE 0]
  /\ pc = [p \in Proc |-> IF p = init THEN "user" ELSE "unused"]
  /\ fr = [p \in Proc |-> Idle]
  /\ left = MaxCalls /\ panic = "none"

-----------------------------------------------------------------------------
At(p, l)      == pc[p] = l /\ panic = "none"
Call(p)       == At(p, "user") /\ left > 0 /\ left' = left - 1
Goto(p, l, f) == /\ pc' = [pc EXCEPT ![p] = l]
                 /\ fr' = [fr EXCEPT ![p] = IF l = "user" THEN Idle ELSE f]
Halt(msg)     == panic' = msg /\ UNCHANGED <<free, pgdir, sz, pc, fr, left, gone>>

\* The page directory that allocuvm works on.
Dir(p)       == IF fr[p].call = "sbrk" THEN pgdir[p] ELSE fr[p].d
SetDir(p, l, d, f) ==
  IF fr[p].call = "sbrk" THEN pgdir' = [pgdir EXCEPT ![p] = d] /\ Goto(p, l, f)
  ELSE UNCHANGED pgdir /\ Goto(p, l, [f EXCEPT !.d = d])

kalloc == Min(free)

\* mappages of one page: the kallocs it and its caller make, and the directory.
NeedsTable(d, k) == d.tab[Table(k)] = NoPage
NoRoom(d, k)     == free = {} \/ (Cardinality(free) = 1 /\ NeedsTable(d, k))
Mapped(d, k) ==
  [d EXCEPT !.pte[k] = kalloc,
            !.tab[Table(k)] = IF @ = NoPage THEN Min(free \ {kalloc}) ELSE @]
PagesFor(d, k) == {kalloc} \cup IF NeedsTable(d, k) THEN {Min(free \ {kalloc})} ELSE {}

\* The page numbers that deallocuvm goes through from a on: a missing table
\* moves it on by a whole table.
RECURSIVE Visited(_, _, _)
Visited(d, a, last) ==
  IF a >= last THEN {}
  ELSE IF NeedsTable(d, a) THEN Visited(d, a + NPTENTRIES, last)
  ELSE {a} \cup Visited(d, a + 1, last)

\* Mutant: the page that newsz lies in goes as well.
FreedDown(d, oldsz, newsz) == Visited(d, newsz \div PGSIZE, PgUp(oldsz))

FreedPages(d, oldsz, newsz) == Visited(d, PgUp(newsz), PgUp(oldsz))

Unmapped(d, oldsz, newsz) ==
  [d EXCEPT !.pte  = [k \in Upage |-> IF k \in FreedPages(d, oldsz, newsz)
                                      THEN NoPage ELSE @[k]],
            !.hole = @ \cap Below(newsz)]

\* kfree of what deallocuvm unmaps.
Returned(d, oldsz, newsz) ==
  {d.pte[k] : k \in FreedPages(d, oldsz, newsz)} \ {NoPage}

\* Mutant: the page tables are not freed.
freevmPages(d) == Returned(d, KERNBASE, 0) \cup {d.page}

\* freevm: the pages it frees.
freevm(d) ==
  Returned(d, KERNBASE, 0)
  \cup ({d.tab[t] : t \in DOMAIN d.tab} \ {NoPage}) \cup d.kmap \cup {d.page}

-----------------------------------------------------------------------------
\* growproc.  Of n < 0 only the case in which deallocuvm frees anything: sz + n
\* below 0 is a number above sz.  Down to 0 it frees all and reports failure.
growproc(p) ==
  /\ Call(p)
  /\ \E n \in Grow :
       LET new == (sz[p] + n) % (2 * KERNBASE) IN
       \/ /\ n > 0 /\ new < KERNBASE
          /\ Goto(p, "alloc", [Idle EXCEPT !.call = "sbrk", !.a = PgUp(sz[p]),
                                           !.oldsz = sz[p], !.newsz = new])
          /\ UNCHANGED <<free, pgdir, sz>>
       \/ /\ n < 0 /\ new < sz[p]
          /\ free' = free \cup Returned(pgdir[p], sz[p], new)
          /\ pgdir' = [pgdir EXCEPT ![p] =
               IF new # 0 THEN Unmapped(@, sz[p], new)
               ELSE [Unmapped(@, sz[p], new) EXCEPT !.hole = Below(sz[p])]]
          /\ sz' = IF new = 0 THEN sz ELSE [sz EXCEPT ![p] = new]
          /\ UNCHANGED <<pc, fr>>
  /\ UNCHANGED <<gone, panic>>

\* allocuvm, one page.  It does not look at what mappages returns: without a
\* page table the page is lost and the address stays unmapped.
allocuvm(p) ==
  /\ At(p, "alloc") /\ fr[p].a < PgUp(fr[p].newsz)
  /\ LET d == Dir(p)
         k == fr[p].a
         next == [fr[p] EXCEPT !.a = @ + 1]
     IN \/ /\ free = {}
           /\ free' = Returned(d, fr[p].newsz, fr[p].oldsz)
           /\ SetDir(p, IF fr[p].call = "sbrk" THEN "user" ELSE "bad",
                     Unmapped(d, fr[p].newsz, fr[p].oldsz), fr[p])
           /\ UNCHANGED <<gone, panic>>
        \/ /\ free # {} /\ NoRoom(d, k)
           /\ free' = {} /\ gone' = gone \cup free
           /\ SetDir(p, "alloc", [d EXCEPT !.hole = @ \cup {k}], next)
           /\ UNCHANGED panic
        \/ /\ ~NoRoom(d, k)
           /\ free' = free \ PagesFor(d, k)
           /\ SetDir(p, "alloc", Mapped(d, k), next)
           /\ panic' = IF d.pte[k] # NoPage THEN "remap" ELSE panic
           /\ UNCHANGED gone
  /\ UNCHANGED <<sz, left>>

\* allocuvm returns newsz to growproc or exec.
allocDone(p) ==
  /\ At(p, "alloc") /\ fr[p].a >= PgUp(fr[p].newsz)
  /\ CASE fr[p].call = "sbrk" -> /\ sz' = [sz EXCEPT ![p] = fr[p].newsz]
                                 /\ Goto(p, "user", Idle)
       [] fr[p].call = "exec" -> Goto(p, "load", fr[p]) /\ UNCHANGED sz
       [] fr[p].call = "stack" -> Goto(p, "args", fr[p]) /\ UNCHANGED sz
  /\ UNCHANGED <<free, pgdir, left, gone, panic>>

-----------------------------------------------------------------------------
\* setupkvm for exec and for copyuvm, one kalloc at a time; when one fails, the
\* pages obtained before are not freed.
setupkvm(p) ==
  /\ At(p, "setup")
  /\ LET d    == fr[p].d
         new  == IF d.page = NoPage THEN [d EXCEPT !.page = kalloc]
                 ELSE [d EXCEPT !.kmap = @ \cup {kalloc}]
         done == Cardinality(new.kmap) = NKMAP
     IN \/ /\ free = {}
           /\ gone' = gone \cup d.kmap \cup ({d.page} \ {NoPage})
           /\ Goto(p, "user", Idle)
           /\ UNCHANGED free
        \/ /\ free # {}
           /\ free' = free \ {kalloc}
           /\ Goto(p, IF ~done THEN "setup" ELSE IF fr[p].call = "fork" THEN "copy"
                      ELSE "segment", [fr[p] EXCEPT !.d = new])
           /\ UNCHANGED gone
  /\ UNCHANGED <<pgdir, sz, left, panic>>

\* exec, of a file with a good header.
exec(p) ==
  /\ Call(p)
  /\ \E prog \in Programs :
       Goto(p, "setup", [Idle EXCEPT !.call = "exec", !.prog = prog])
  /\ UNCHANGED <<free, pgdir, sz, gone, panic>>

\* The size exec has reached, kept in newsz from one segment to the next.
Alloc(p, call, old, new) ==
  IF new >= KERNBASE \/ Max({old, new}) = 0 THEN Goto(p, "bad", fr[p])
  ELSE Goto(p, "alloc", [fr[p] EXCEPT !.call = call, !.oldsz = old,
                          !.a = PgUp(old), !.newsz = Max({old, new})])

\* A program header that cannot be read or is wrong, or a segment; after the
\* last one, the two pages of the stack.
segment(p) ==
  /\ At(p, "segment")
  /\ LET at == fr[p].newsz IN
     \/ fr[p].prog # <<>> /\ Goto(p, "bad", fr[p])
     \/ /\ fr[p].prog # <<>>
        /\ LET ph == Head(fr[p].prog) IN Alloc(p, "exec", at, ph.vaddr + ph.memsz)
     \/ /\ fr[p].prog = <<>>
        /\ Alloc(p, "stack", PgUp(at) * PGSIZE, (PgUp(at) + 2) * PGSIZE)
  /\ UNCHANGED <<free, pgdir, sz, left, gone, panic>>

\* loaduvm: the pages must have page tables; the file may be short.
loaduvm(p) ==
  /\ At(p, "load")
  /\ LET ph == Head(fr[p].prog)
         ks == Below(ph.vaddr + ph.filesz) \ Below(ph.vaddr)
     IN
     \/ /\ \E k \in ks : NeedsTable(fr[p].d, k)
        /\ Halt("loaduvm: address should exist")
     \/ /\ \A k \in ks : ~NeedsTable(fr[p].d, k)
        /\ \/ Goto(p, "bad", fr[p])
           \/ Goto(p, "segment", [fr[p] EXCEPT !.prog = Tail(@)])
        /\ UNCHANGED <<free, pgdir, sz, left, gone, panic>>

\* uva2ka of a page: it follows a null pointer when the page table is missing.
uva2ka(d, k) ==
  CASE NeedsTable(d, k) -> "fault"
    [] ~NeedsTable(d, k) /\ (d.pte[k] = NoPage \/ k \in d.guard) -> "fail"
    [] OTHER -> "ok"

\* copyout goes up from va and stops at the first page that is not "ok".
copyout(d, va, len) ==
  LET ks  == (va \div PGSIZE)..((va + len - 1) \div PGSIZE)
      bad == {k \in ks : uva2ka(d, k) # "ok"}
  IN IF bad = {} THEN "ok" ELSE uva2ka(d, Min(bad))

\* clearpteu; it panics when the page table is missing.
clearpteu(d, k) == [d EXCEPT !.guard = {k}]

\* The rest of exec: clearpteu, the arguments on the stack, and the commitment
\* to the new image.
execArgs(p) ==
  /\ At(p, "args")
  /\ \E arg \in Args :
     LET top == (fr[p].newsz \div PGSIZE) - 1
         d   == clearpteu(fr[p].d, top - 1)
         out == copyout(d, fr[p].newsz - arg.len, arg.len)
     IN \/ out = "fault" /\ Halt(IF NeedsTable(d, top - 1) THEN "clearpteu" ELSE "uva2ka")
        \/ /\ out = "fail" \/ (out = "ok" /\ arg.argc > MAXARG)
           /\ Goto(p, "bad", [fr[p] EXCEPT !.d = d])
           /\ UNCHANGED <<free, pgdir, sz, left, gone, panic>>
        \/ /\ out = "ok" /\ arg.argc <= MAXARG
           /\ pgdir' = [pgdir EXCEPT ![p] = d]
           /\ sz' = [sz EXCEPT ![p] = fr[p].newsz]
           /\ free' = free \cup freevm(pgdir[p])
           /\ Goto(p, "user", Idle)
           /\ UNCHANGED <<left, gone, panic>>

execBad(p) ==
  /\ At(p, "bad")
  /\ free' = free \cup freevm(fr[p].d)
  /\ Goto(p, "user", Idle)
  /\ UNCHANGED <<pgdir, sz, left, gone, panic>>

-----------------------------------------------------------------------------
\* fork: copyuvm of the parent's pages for a new process.
fork(p) ==
  /\ Call(p)
  /\ \E q \in Proc :
       /\ pc[q] = "unused" /\ \A r \in Proc : fr[r].call = "fork" => fr[r].child # q
       /\ Goto(p, "setup", [Idle EXCEPT !.call = "fork", !.child = q])
  /\ UNCHANGED <<free, pgdir, sz, gone, panic>>

copyuvm(p) ==
  /\ At(p, "copy") /\ fr[p].a < PgUp(sz[p])
  /\ LET d == fr[p].d
         k == fr[p].a
     IN \/ /\ pgdir[p].pte[k] = NoPage
           /\ Halt("copyuvm: page not present")
        \/ /\ pgdir[p].pte[k] # NoPage
           /\ NoRoom(d, k)
           /\ gone' = gone \cup free       \* the page that could not be mapped
           /\ free' = freevm(d)
           /\ Goto(p, "user", Idle)
           /\ UNCHANGED <<pgdir, sz, left, panic>>
        \/ /\ pgdir[p].pte[k] # NoPage
           /\ ~NoRoom(d, k)
           /\ free' = free \ PagesFor(d, k)
           /\ Goto(p, "copy", [fr[p] EXCEPT !.d = Mapped(d, k), !.a = @ + 1])
           /\ UNCHANGED <<pgdir, sz, left, gone, panic>>

forked(p) ==
  /\ At(p, "copy") /\ fr[p].a >= PgUp(sz[p])
  /\ LET q == fr[p].child IN
     /\ pgdir' = [pgdir EXCEPT ![q] = fr[p].d]
     /\ sz' = [sz EXCEPT ![q] = sz[p]]
     /\ pc' = [pc EXCEPT ![p] = "user", ![q] = "user"]
     /\ fr' = [fr EXCEPT ![p] = Idle]
  /\ UNCHANGED <<free, left, gone, panic>>

\* wait: the address space of a child that has exited; the entry's pgdir and sz
\* are not looked at again until a fork sets them.
wait(p) ==
  /\ Call(p)
  /\ \E q \in Proc \ {p, init} :
       /\ pc[q] = "user"
       /\ free' = free \cup freevm(pgdir[q])
       /\ pgdir' = [pgdir EXCEPT ![q] = NoDir]
       /\ sz' = [sz EXCEPT ![q] = 0]
       /\ pc' = [pc EXCEPT ![q] = "unused"]
  /\ UNCHANGED <<fr, gone, panic>>

Next == \E p \in Proc :
  \/ growproc(p) \/ allocuvm(p) \/ allocDone(p)
  \/ exec(p) \/ setupkvm(p) \/ segment(p) \/ loaduvm(p) \/ execArgs(p) \/ execBad(p)
  \/ fork(p) \/ copyuvm(p) \/ forked(p) \/ wait(p)

Spec == Init /\ [][Next]_vars

-----------------------------------------------------------------------------
\* argptr accepts the buffer, fetchint (for an int of size units) the word.
argptr(p, addr, size) ==
  ~(addr >= sz[p] \/ (addr + size) % (2 * KERNBASE) > sz[p])
fetchint(p, addr, size) ==
  ~(addr >= sz[p] \/ (addr + size) % (2 * KERNBASE) > sz[p])

\* fetchstr accepts a string whose nul is at address nul.
fetchstr(p, addr, nul) == addr < sz[p] /\ nul < sz[p]

\* The pages of a directory, each as often as it is used.
Uses(d) == Cardinality({k \in Upage : d.pte[k] # NoPage})
           + Cardinality({t \in DOMAIN d.tab : d.tab[t] # NoPage})
           + Cardinality(d.kmap) + Cardinality({d.page} \ {NoPage})
Pages(d) == ({d.page} \cup d.kmap \cup {d.pte[k] : k \in Upage}
             \cup {d.tab[t] : t \in DOMAIN d.tab}) \ {NoPage}
Dirs     == {<<p, 1>> : p \in Proc} \cup {<<p, 2>> : p \in Proc}
TheDir(x) == IF x[2] = 1 THEN pgdir[x[1]] ELSE fr[x[1]].d

\* Every page is on the free list, or in exactly one place of one page
\* directory, or in other hands, whatever call runs out of memory, and whatever
\* the others allocate meanwhile: nothing is used twice or freed twice, the
\* only pages an error path forgets are those it puts in gone (setupkvm's, and
\* the page that allocuvm or copyuvm could not map), and mappages never finds a
\* page still mapped.
PagesExact ==
  LET pages == UNION {Pages(TheDir(x)) : x \in Dirs} IN
  /\ free \cup gone \cup pages = Page
  /\ Cardinality(free) + Cardinality(gone)
     + MapThenSumSet(LAMBDA x : Uses(TheDir(x)), Dirs) = Cardinality(Page)
  /\ panic # "remap"

\* What the argument checks accept, they may: every page of the buffer, the word
\* or the string is mapped in the process, after any sequence of sbrk, exec and
\* fork, except the pages allocuvm failed to map and those of an sbrk down to 0.
ArgsMapped ==
  \A p \in {q \in Proc : pc[q] = "user"} :
    \A addr \in 0..(KERNBASE - 1) : \A size \in 1..(KERNBASE - 1) :
      \/ argptr(p, addr, size)
      \/ fetchint(p, addr, size)
      \/ fetchstr(p, addr, addr + size - 1)
      => \A k \in (addr \div PGSIZE)..((addr + size - 1) \div PGSIZE) :
           k \in Upage /\ (pgdir[p].pte[k] # NoPage \/ k \in pgdir[p].hole)

\* allocuvm "returns new size or 0 on error": there are no holes.
AllocReported == \A p \in Proc : pc[p] = "user" => pgdir[p].hole = {}

\* exec makes the page under the stack inaccessible; it stays so in a child.
GuardKept ==
  [][\A p, q \in Proc : pc[q] = "unused" /\ pc'[q] = "user" /\ fr[p].child = q
       /\ fr[p].call = "fork" => pgdir'[q].guard = pgdir[p].guard]_vars
=============================================================================
