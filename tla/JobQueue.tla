------------------------------ MODULE JobQueue ------------------------------
(***************************************************************************)
(* What the asynchronous server promises about a request: it is queued,    *)
(* taken by one worker, graded, in this order and at most once.  A crash   *)
(* may lose it; it never goes back and is never done twice.                *)
(***************************************************************************)
CONSTANT Jobs
VARIABLE job       \* the stage each job is at

Moves == {<<"new", "queued">>, <<"queued", "running">>, <<"running", "done">>,
          <<"new", "lost">>, <<"queued", "lost">>, <<"running", "lost">>}

JobInit == job = [j \in Jobs |-> "new"]

\* One step can move several jobs: a crash does, and so does the removal of
\* a file that holds many.
JobNext == \E stage \in [Jobs -> {m[2] : m \in Moves} \cup {"new"}] :
              /\ \A j \in Jobs : stage[j] # job[j] => <<job[j], stage[j]>> \in Moves
              /\ job' = stage

JobSpec == JobInit /\ [][JobNext]_job
=============================================================================
