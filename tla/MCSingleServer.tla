--------------------------- MODULE MCSingleServer ---------------------------
(***************************************************************************)
(* Two clients.  One makes two requests with a source that fits in a chunk *)
(* and does not compile; the other makes one with a source that takes two  *)
(* chunks and an empty one and is right, and may be killed.  Once a socket *)
(* has been left open there is no descriptor for file.c.                   *)
(***************************************************************************)
EXTENDS SingleServer

CONSTANTS short, long

MCLoopNum(c) == IF c = short THEN 2 ELSE 1
MCSizeOf(c) == IF c = short THEN 2 ELSE 4
MCProgramOf(c) == IF c = short THEN "uncompilable" ELSE "right"
=============================================================================
