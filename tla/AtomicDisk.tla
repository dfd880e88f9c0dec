----------------------------- MODULE AtomicDisk -----------------------------
(***************************************************************************)
(* What the log (log.c) promises to the file system: the blocks a system   *)
(* call writes between begin_trans and commit_trans reach the disk all or  *)
(* none, one such call at a time, and a reader sees the latest write until *)
(* a crash takes the blocks back to the last commit.                       *)
(***************************************************************************)
CONSTANTS Proc, Block, Val

VARIABLES stable,   \* the blocks as a reboot would find them
          current,  \* the blocks as bread returns them
          writers   \* the processes inside a transaction

vars == <<stable, current, writers>>

Init == /\ \E v \in Val : stable = [b \in Block |-> v]
        /\ current = stable
        /\ writers = {}

Begin(p) == /\ writers = {} /\ writers' = {p}
            /\ UNCHANGED <<stable, current>>

Write(p, b, v) == /\ p \in writers
                  /\ current' = [current EXCEPT ![b] = v]
                  /\ UNCHANGED <<stable, writers>>

Commit(p) == /\ p \in writers
             /\ stable' = current
             /\ writers' = writers \ {p}
             /\ UNCHANGED current

Crash == /\ current' = stable
         /\ writers' = {}
         /\ UNCHANGED stable

Next == \/ \E p \in Proc : \/ Begin(p) \/ Commit(p)
                           \/ \E b \in Block, v \in Val : Write(p, b, v)
        \/ Crash

Spec == Init /\ [][Next]_vars
=============================================================================
