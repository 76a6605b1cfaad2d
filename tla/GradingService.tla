--------------------------- MODULE GradingService ---------------------------
(***************************************************************************)
(* What every version of the autograder promises its clients, whatever its *)
(* architecture: a client submits a program and waits; the service answers *)
(* each submission at most once, with the verdict of that very program; a  *)
(* client may give up at any time.  The servers are shown to implement     *)
(* this specification.                                                     *)
(***************************************************************************)
CONSTANTS Submissions,   \* the programs submitted, one per request
          Verdict(_),    \* the verdict each of them deserves
          NoAnswer

VARIABLES waitingFor,    \* submissions whose client waits for an answer
          answer         \* the answer a client has got

serviceVars == <<waitingFor, answer>>

ServiceInit == /\ waitingFor = {}
               /\ answer = [s \in Submissions |-> NoAnswer]

Submit(s) == /\ s \notin waitingFor
             /\ answer[s] = NoAnswer
             /\ waitingFor' = waitingFor \cup {s}
             /\ UNCHANGED answer

Answer(s) == /\ s \in waitingFor
             /\ waitingFor' = waitingFor \ {s}
             /\ answer' = [answer EXCEPT ![s] = Verdict(s)]

\* One client gives up, or the service ends and fails all that wait.
GiveUp(S) == /\ waitingFor' = waitingFor \ S
             /\ UNCHANGED answer

ServiceNext == \/ \E s \in Submissions : Submit(s) \/ Answer(s)
               \/ \E S \in SUBSET waitingFor : GiveUp(S)

ServiceSpec == ServiceInit /\ [][ServiceNext]_serviceVars
=============================================================================
