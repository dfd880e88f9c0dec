------------------------------- MODULE MCLog -------------------------------
EXTENDS Log, TLC
Symmetry == Permutations(Proc) \cup Permutations(Block) \cup Permutations(Val)
=============================================================================
