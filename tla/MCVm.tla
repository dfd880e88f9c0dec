-------------------------------- MODULE MCVm --------------------------------
(***************************************************************************)
(* Two processes.  User memory has four pages, in two page tables; the     *)
(* physical pages, fifteen, run out at different points of a call          *)
(* depending on how many are taken.                                        *)
(***************************************************************************)
EXTENDS Vm

MCTaken    == {0, 3, 4, 6, 7, 9}
\* Programs of one segment, of two that share a page, and one too large.
MCPrograms == {<<[vaddr |-> 0, memsz |-> 1, filesz |-> 1]>>,
               <<[vaddr |-> 0, memsz |-> 1, filesz |-> 1],
                 [vaddr |-> 0, memsz |-> 3, filesz |-> 3]>>,
               <<[vaddr |-> 4, memsz |-> 2, filesz |-> 0]>>}
\* Arguments that fit on the stack page, reach the page below, are too many.
MCArgs     == {[argc |-> 1, len |-> 2], [argc |-> 1, len |-> 3], [argc |-> 2, len |-> 2]}
MCGrow     == {-3, -2, -1, 1, 4}

-----------------------------------------------------------------------------
\* The heap that a process keeps in the memory sbrk gives it: all sequences of
\* six calls, with blocks of two, three and four headers.
Heap == INSTANCE Umalloc WITH HDR <- 2, MINCORE <- 5, HeapEnd <- 14

ASSUME HeapSound == Heap!SoundFor(Heap!Fresh, {}, 6, {1, 3, 6})
=============================================================================
