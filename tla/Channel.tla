------------------------------ MODULE Channel ------------------------------
(***************************************************************************)
(* What a pipe promises: a bounded queue of bytes, taken out in the order  *)
(* they were put in, each once, until an end is closed.                    *)
(***************************************************************************)
EXTENDS Integers, Sequences

CONSTANTS Byte, PIPESIZE

VARIABLES queue, readable, writable

vars == <<queue, readable, writable>>

Init == queue = << >> /\ readable = TRUE /\ writable = TRUE

Put(b) == /\ writable /\ Len(queue) < PIPESIZE
          /\ queue' = Append(queue, b)
          /\ UNCHANGED <<readable, writable>>

Get == /\ readable /\ queue # << >>
       /\ queue' = Tail(queue)
       /\ UNCHANGED <<readable, writable>>

CloseRead  == readable /\ readable' = FALSE /\ UNCHANGED <<queue, writable>>
CloseWrite == writable /\ writable' = FALSE /\ UNCHANGED <<queue, readable>>

Next == (\E b \in Byte : Put(b)) \/ Get \/ CloseRead \/ CloseWrite
Spec == Init /\ [][Next]_vars
=============================================================================
