----------------------------- MODULE MCFileSys -----------------------------
(***************************************************************************)
(* Two processes and four inodes: the root, the directory /d, /d/a, and a  *)
(* free one.  Between them the processes make three calls, each on a path  *)
(* through the other process's directories, on a name of its own cwd, or   *)
(* through its "..".                                                       *)
(***************************************************************************)
EXTENDS FileSys, TLC

D   == <<"/", "d">>
DA  == <<"/", "/", "d", "/", "/", "a">>
DAA == <<"/", "d", "/", "a", "/", "a">>
A   == <<"a", "/">>
Up  == <<"..">>
Top == <<"/">>

MCPaths == [open   |-> {DA, DAA, Up},
            create |-> {A, DA},
            mkdir  |-> {A, Top},
            mknod  |-> {A},
            unlink |-> {A, D, DA, Up},
            link   |-> {A, DA},
            link2  |-> {A, DA},
            chdir  |-> {A, Up}]

\* The examples in the comment of skipelem.
ASSUME SkipelemExamples ==
  /\ skipelem(<<"a", "/", "d", "/", "c">>) = [name |-> "a", rest |-> <<"d", "/", "c">>]
  /\ skipelem(<<"/", "/", "/", "a", "/", "/", "d">>) = [name |-> "a", rest |-> <<"d">>]
  /\ skipelem(<<"a">>) = [name |-> "a", rest |-> <<>>]
  /\ skipelem(<<>>) = NoElem /\ skipelem(<<"/", "/", "/", "/">>) = NoElem

Symmetry == Permutations(Proc)
=============================================================================
