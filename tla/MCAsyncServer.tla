---------------------------- MODULE MCAsyncServer ----------------------------
(***************************************************************************)
(* Instances of AsyncServer for TLC.                                       *)
(***************************************************************************)
EXTENDS AsyncServer, TLC

CONSTANTS r1, r2, r3

Mixed(r) == CASE r = r1 -> "right" [] r = r2 -> "wrong" [] r = r3 -> "failing"
AllRight(r) == "right"

WorkerSymmetry == Permutations(Workers)
Symmetry == WorkerSymmetry \cup Permutations(Requests)
=============================================================================
