----------------------------- MODULE JobLifecycle -----------------------------
(***************************************************************************)
(* What an analysis job promises to whoever polls it (the state diagram of *)
(* ARCHITECTURE.md over the states of db/models/analysis_job.py): a job is *)
(* created pending, is processing while a task works on it, returns to     *)
(* pending to be tried again, and once it has succeeded or failed stays as *)
(* it is.  A task that cannot even mark its job as processing still fails  *)
(* it.  One commit may move several jobs.                                  *)
(***************************************************************************)
CONSTANT Jobs

VARIABLE status   \* "none": the job does not exist yet

JobState == {"none", "pending", "processing", "success", "failed"}

Moves == {<<"none", "pending">>, <<"pending", "processing">>,
          <<"pending", "failed">>, <<"processing", "pending">>,
          <<"processing", "success">>, <<"processing", "failed">>}

Init == status \in [Jobs -> {"none", "pending"}]

Next ==
  /\ status' \in [Jobs -> JobState]
  /\ \A j \in Jobs : <<status[j], status'[j]>> \in Moves \/ status'[j] = status[j]

Spec == Init /\ [][Next]_status
=============================================================================
