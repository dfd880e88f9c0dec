------------------------------ MODULE MCKSync ------------------------------
(* Instances of KSync for TLC. *)
EXTENDS KSync

\* Threads 1 and 2 are the main threads of two processes, 3 is of kthread_create.
MCThreadId == [t \in Thread |-> IF t <= 2 THEN -1 ELSE t - 2]

\* The threads of one process.
MCOwnId == [t \in Thread |-> IF t = 1 THEN -1 ELSE t - 1]
=============================================================================
