---------------------------- MODULE MCTailqPool ----------------------------
(***************************************************************************)
(* Two graders and three clients, one of which may leave.  One grader has  *)
(* all files of details, the other only that of programs that ran.         *)
(***************************************************************************)
EXTENDS TailqPool

CONSTANTS c1, c2, c3

MCEndingOf(c) == IF c = c3 THEN "compiler error" ELSE "ran"
MCDetailsOf(g) == IF g = 1 THEN Endings ELSE {"ran"}
=============================================================================
