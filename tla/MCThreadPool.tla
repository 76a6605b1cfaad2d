---------------------------- MODULE MCThreadPool ----------------------------
(***************************************************************************)
(* Instances of ThreadPool for TLC: which programs the connections carry,  *)
(* and the symmetries of an instance.                                      *)
(***************************************************************************)
EXTENDS ThreadPool, TLC

CONSTANTS c1, c2, c3, c4

RightAndWrong(c) == IF c \in {c1, c2} THEN "right" ELSE "wrong"

OneFailing(c) == IF c = c1 THEN "failing" ELSE "uncompilable"

\* Programs the server was not written for.
Hostile(c) ==
    CASE c \in {c1, c3} -> "verbose"
      [] c = c2         -> "silent"
      [] c = c4         -> "right"

\* The connections that carry the same program, of the same length and with
\* the same freedom to leave, are interchangeable.
Alike(c) == {d \in Conns : /\ ProgramOf(d) = ProgramOf(c)
                           /\ d \in Large <=> c \in Large
                           /\ d \in Impatient <=> c \in Impatient}

Symmetry == Permutations(Workers) \cup Permutations(Fds)
            \cup UNION {Permutations(Alike(c)) : c \in Conns}
=============================================================================
