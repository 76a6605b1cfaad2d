--------------------------- MODULE MCSharedFiles ---------------------------
(***************************************************************************)
(* One client makes two requests with a program that does not compile and  *)
(* may time out; the other makes one, with a right program that may take   *)
(* longer than a second.                                                   *)
(***************************************************************************)
EXTENDS SharedFiles

CONSTANTS hasty, slow

MCLoopNum(c) == IF c = hasty THEN 2 ELSE 1
MCProgramOf(c) == IF c = hasty THEN "uncompilable" ELSE "right"
=============================================================================
