---------------------------- MODULE TaskService -----------------------------
(***************************************************************************)
(* What the server promises about its tasks, without replicas, locks,       *)
(* heartbeats or transactions: a task waits, is run by one execution at a   *)
(* time, and is moved on by the execution that is at work on it, or, when   *)
(* that one is lost and only then, by somebody else.                        *)
(***************************************************************************)
CONSTANT Tasks

VARIABLES
  stage,         \* what a client of the API sees of each task
  busy           \* the tasks an execution is at work on

serviceVars == <<stage, busy>>

Stages == {"absent", "waiting", "running", "asking", "done", "archived"}

ServiceTypeOK == stage \in [Tasks -> Stages] /\ busy \subseteq Tasks

ServiceInit == stage = [t \in Tasks |-> "absent"] /\ busy = {}

\* A user, a trigger or the recurrence of another task creates it.
Submit(t) ==
  /\ stage[t] = "absent"
  /\ \E to \in {"waiting", "asking"} : stage' = [stage EXCEPT ![t] = to]
  /\ UNCHANGED busy

\* It is handed to an execution, or lost on the way to one.
Begin(t) ==
  /\ stage[t] = "waiting"
  /\ stage' = [stage EXCEPT ![t] = "running"]
  /\ busy' \in {busy, busy \cup {t}}

\* The execution at work ends it, asks the user or sends it back.
Conclude(t) ==
  /\ t \in busy /\ stage[t] = "running"
  /\ \E to \in {"waiting", "asking", "done"} : stage' = [stage EXCEPT ![t] = to]
  /\ busy' = busy \ {t}

\* Executions are lost; nobody notices yet.
Lose(lost) == lost \subseteq busy /\ busy' = busy \ lost /\ UNCHANGED stage

\* What runs and has nobody at work on it goes back, or to the user.
Rescue(found) ==
  /\ \A t \in found : stage[t] = "running" /\ t \notin busy
  /\ \E to \in [Tasks -> {"waiting", "asking"}] :
       stage' = [t \in Tasks |-> IF t \in found THEN to[t] ELSE stage[t]]
  /\ UNCHANGED busy

Archive(old) ==
  /\ \A t \in old : stage[t] = "done"
  /\ stage' = [t \in Tasks |-> IF t \in old THEN "archived" ELSE stage[t]]
  /\ UNCHANGED busy

ServiceNext ==
  \/ \E t \in Tasks : Submit(t) \/ Begin(t) \/ Conclude(t)
  \/ \E ts \in SUBSET Tasks : Lose(ts) \/ Rescue(ts) \/ Archive(ts)

ServiceSpec == ServiceInit /\ [][ServiceNext]_serviceVars
=============================================================================
