---------------------------- MODULE MCFileData ----------------------------
(***************************************************************************)
(* Two processes, two files.  Blocks of two units and one direct address   *)
(* give files of up to six bytes, in one direct and two indirect blocks;   *)
(* with LOGSIZE = 6 a chunk is two bytes.                                  *)
(***************************************************************************)
EXTENDS FileData

MCInum == 1..2
\* The first file has room in its direct block, or ends in an indirect one.
MCContents == {<<<<9>>, <<9, 9>>>>, <<<<9, 9, 9>>, <<9>>>>}
=============================================================================
