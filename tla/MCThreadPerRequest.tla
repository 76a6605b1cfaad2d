------------------------- MODULE MCThreadPerRequest -------------------------
(***************************************************************************)
(* Instances of ThreadPerRequest for TLC.                                  *)
(***************************************************************************)
EXTENDS ThreadPerRequest, TLC

CONSTANTS c1, c2, c3, c4

Mixed(c) == CASE c = c1 -> "failing"
              [] c = c2 -> "uncompilable"
              [] c = c3 -> "wrong"
              [] c = c4 -> "right"

AllRight(c) == "right"
WrongThenRight(c) == IF c = c1 THEN "wrong" ELSE "right"

Symmetry == Permutations(Fds)
=============================================================================
