------------------------------ MODULE MCSched ------------------------------
(* Model values and mutants for the runs of Sched. *)
EXTENDS Sched, TLC

Symmetry == Permutations(CPU)
=============================================================================
