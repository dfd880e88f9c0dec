----------------------------- MODULE MCBufCache -----------------------------
EXTENDS BufCache, TLC
Symmetry == Permutations(Proc) \cup Permutations(Sector) \cup Permutations(Val)
=============================================================================
