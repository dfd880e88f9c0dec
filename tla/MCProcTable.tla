---------------------------- MODULE MCProcTable ----------------------------
(* Instances of ProcTable for TLC; page directories are interchangeable. *)
EXTENDS ProcTable, TLC

Symmetry == Permutations(PgDir)
=============================================================================
