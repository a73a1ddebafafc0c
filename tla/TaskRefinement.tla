--------------------------- MODULE TaskRefinement ---------------------------
(***************************************************************************)
(* TaskLifecycle implements TaskService: what a client sees is the row's    *)
(* status, and an execution is at work on a task while a coroutine has it   *)
(* and has not yet moved its row.                                           *)
(***************************************************************************)
EXTENDS TaskLifecycle

StageOf(s) ==
  IF s \in {"scheduled", "pending"} THEN "waiting"
  ELSE IF s = "review" THEN "asking"
  ELSE IF s = "completed" THEN "done" ELSE s

AtWork(r) == pc[r] \notin {"off", "completed", "reviewed"}

Stage == [t \in Tasks |-> StageOf(status[t])]
Busy  == {t \in Tasks : \E r \in Runners : AtWork(r) /\ job[r] = t}

Service == INSTANCE TaskService WITH stage <- Stage, busy <- Busy

\* Replicas, coroutines, the scheduler and the sweeps together behave as one
\* service that runs a task once at a time, concludes it only by the execution
\* at work and rescues it only from an execution that is lost (_run_task writes
\* unconditionally, recover_zombie_tasks by a stale read).  Holds where
\* heartbeats are written in time and no user edits.
ImplementsTaskService == Service!ServiceSpec
=============================================================================
