------------------------------ MODULE EvalRuns ------------------------------
(***************************************************************************)
(* The live mode of the eval driver (evals/runner.py) against the MCP       *)
(* tools of the server: a run's matrix of cells, model by model; for each   *)
(* model a cloned profile; for each cell a task submitted, awaited, judged  *)
(* and recorded.  A driver may die anywhere and be resumed with its run id, *)
(* also while the first one still works.                                    *)
(*                                                                          *)
(* A call of the MCP client is retried when its answer is lost, so its      *)
(* handler may run twice; a tool that raises on the server answers with a   *)
(* text, which the driver reads as an unknown result or not at all.         *)
(***************************************************************************)
EXTENDS Naturals, FiniteSets, FiniteSetsExt

CONSTANTS
  Drivers,       \* sessions of the driver that may work at once
  NumModels,     \* the models under test are 1 .. NumModels
  Reps,          \* repetitions of the one workload, 1 .. Reps
  MaxSlips       \* bound on lost answers, tool errors, deaths and deletions

ASSUME EvalAssumption ==
  NumModels \in Nat \ {0} /\ Reps \in Nat \ {0} /\ MaxSlips \in Nat

Models == 1..NumModels
Cells == 1..(NumModels * Reps)
ModelOf(c) == ((c - 1) \div Reps) + 1
CellsOf(m) == {c \in Cells : ModelOf(c) = m}

VARIABLES
  evalRun,       \* "none", "open" or "finished": the EvalRun row
  results,       \* cell -> "none", "theirs" or "strange": did the recorded
                 \* result come from tasks under the model's profile?
  clones,        \* the models whose eval-- profile exists
  drivers,       \* the sessions
  blamed,        \* ghost: the cells an unread tool error or a foreign
                 \* deletion of their profile has touched
  closer,        \* ghost: the models asked for by the session that finished
  evalSlips

evalVars == <<evalRun, results, clones, drivers, blamed, closer, evalSlips>>

NoSession == [step |-> "away", asked |-> {}, left |-> {}, model |-> 0, made |-> {},
         try |-> 1, task |-> "none", strange |-> FALSE]

Waiting == {"stored", "stripped"}       \* the task's profile, before dispatch
Ran == {"obeyed", "bare"}               \* and what it ran under

EvalInit ==
  /\ evalRun = "none"
  /\ results = [c \in Cells |-> "none"]
  /\ clones = {} /\ blamed = {} /\ closer = {} /\ evalSlips = 0
  /\ drivers = [d \in Drivers |-> NoSession]

Slips == evalSlips < MaxSlips /\ evalSlips' = evalSlips + 1
Turns(d, next) == drivers' = [drivers EXCEPT ![d] = next]
Cell(d) == Min(drivers[d].left)         \* model by model, rep by rep

\* The loops of run_matrix, once a cell (or a whole model) is done: the next
\* cell of the same profile, else the next model's clone, else the clean-up.
After(s, left) ==
  LET rest == [s EXCEPT !.left = left, !.try = 1, !.task = "none",
                        !.strange = FALSE]
  IN  IF left = {} THEN [rest EXCEPT !.step = "clean"]
      ELSE IF ModelOf(Min(left)) = s.model THEN [rest EXCEPT !.step = "submit"]
      ELSE [rest EXCEPT !.step = "clone", !.model = ModelOf(Min(left))]

\* `evals run`, with --models: a new run is started, or --run-id resumes one
\* (a bound: not once it is finished, when every record is refused).
StartsRun(d, asked) ==
  /\ drivers[d].step = "away" /\ asked # {} /\ evalRun # "finished"
  /\ evalRun' = IF evalRun = "none" THEN "open" ELSE evalRun
  /\ Turns(d, [NoSession EXCEPT !.step = "list", !.asked = asked])
  /\ UNCHANGED <<results, clones, blamed, closer, evalSlips>>

\* get_eval_run: the cells recorded by now will be skipped.
ListsRecorded(d) ==
  /\ drivers[d].step = "list"
  /\ LET todo == {c \in Cells : /\ ModelOf(c) \in drivers[d].asked
                                /\ results[c] = "none"}
     IN  Turns(d, After(drivers[d], todo))
  /\ UNCHANGED <<evalRun, results, clones, blamed, closer, evalSlips>>

\* clone_task_profile: created or reused; only a created one is this session's
\* to delete.  An answer that was lost makes the retry a reuse.
ClonesProfile(d) ==
  LET s == drivers[d] IN
  /\ s.step = "clone"
  /\ clones' = clones \union {s.model}
  /\ \/ /\ Turns(d, [s EXCEPT !.step = "submit",
                          !.made = IF s.model \in clones THEN @
                                   ELSE @ \union {s.model}])
        /\ UNCHANGED evalSlips
     \/ Slips /\ UNCHANGED drivers
  /\ UNCHANGED <<evalRun, results, blamed, closer>>

\* An {error}, the source profile is not there: the model is skipped.
RefusesClone(d) ==
  LET s == drivers[d] IN
  /\ s.step = "clone" /\ s.model \notin clones
  /\ Slips
  /\ Turns(d, After(s, s.left \ CellsOf(s.model)))
  /\ blamed' = blamed \union CellsOf(s.model)
  /\ UNCHANGED <<evalRun, results, clones, closer>>

\* A tool error comes as a text, not as an {error}: the driver goes on as if it
\* had the profile.
FailsToClone(d) ==
  LET s == drivers[d] IN
  /\ s.step = "clone"
  /\ Slips
  /\ Turns(d, [s EXCEPT !.step = "submit"])
  /\ blamed' = blamed \union CellsOf(s.model)
  /\ UNCHANGED <<evalRun, results, clones, closer>>

\* Infrastructure failed the attempt: once more, without yielding again, and
\* the second time it is the result.
AttemptLost(s, strange) ==
  IF s.try = 1 THEN [s EXCEPT !.step = "submit", !.try = 2, !.task = "none"]
  ELSE [s EXCEPT !.step = "record", !.task = "none", !.strange = strange]

\* Once production is idle (only a delay) new_task stores the task; without the
\* profile it refuses.  A lost answer leaves a stray task and is retried.
SubmitsTask(d) ==
  LET s == drivers[d] IN
  /\ s.step = "submit"
  /\ Turns(d, IF s.model \in clones
                THEN [s EXCEPT !.step = "wait", !.task = "stored"]
                ELSE AttemptLost(s, TRUE))
  /\ UNCHANGED <<evalRun, results, clones, blamed, closer, evalSlips>>

\* The worker resolves the profile when it runs the task.
TaskRuns(d) ==
  LET s == drivers[d] IN
  /\ s.step = "wait" /\ s.task \in Waiting
  /\ Turns(d, [s EXCEPT !.task = IF @ = "stored" THEN "obeyed" ELSE "bare"])
  /\ UNCHANGED <<evalRun, results, clones, blamed, closer, evalSlips>>

\* The poll sees a terminal status: the transcript is judged.
Judges(d) ==
  LET s == drivers[d] IN
  /\ s.step = "wait" /\ s.task \in Ran
  /\ Turns(d, [s EXCEPT !.step = "record", !.strange = (s.task = "bare"),
                          !.task = "none"])
  /\ UNCHANGED <<evalRun, results, clones, blamed, closer, evalSlips>>

\* The deadline passed (the task is left to itself), or the transcript shows an
\* infrastructure failure.
LosesAttempt(d) ==
  LET s == drivers[d] IN
  /\ s.step = "wait"
  /\ Turns(d, AttemptLost(s, s.task \in {"stripped", "bare"}))
  /\ UNCHANGED <<evalRun, results, clones, blamed, closer, evalSlips>>

\* record_eval_result reads the run; whatever it answers, the driver goes on.
ChecksRun(d) ==
  LET s == drivers[d] IN
  /\ s.step = "record"
  /\ Turns(d, IF evalRun = "finished" THEN After(s, s.left \ {Cell(d)})
                ELSE [s EXCEPT !.step = "insert"])
  /\ UNCHANGED <<evalRun, results, clones, blamed, closer, evalSlips>>

\* ... and inserts the cell, unless the unique constraint refuses it.
InsertsResult(d) ==
  LET s == drivers[d] IN
  /\ s.step = "insert"
  /\ results' = IF results[Cell(d)] # "none" THEN results
                ELSE [results EXCEPT ![Cell(d)] =
                        IF s.strange THEN "strange" ELSE "theirs"]
  /\ \/ Turns(d, After(s, s.left \ {Cell(d)})) /\ UNCHANGED evalSlips
     \/ Slips /\ Turns(d, [s EXCEPT !.step = "record"])
  /\ UNCHANGED <<evalRun, clones, blamed, closer>>

\* A tool error while recording is a text nobody reads.
FailsToRecord(d) ==
  LET s == drivers[d] IN
  /\ s.step \in {"record", "insert"}
  /\ Slips
  /\ Turns(d, After(s, s.left \ {Cell(d)}))
  /\ blamed' = blamed \union {Cell(d)}
  /\ UNCHANGED <<evalRun, results, clones, closer>>

\* tasks.profile_id is ON DELETE SET NULL.
Stripped(m) ==
  [d \in Drivers |->
     IF drivers[d].task = "stored" /\ drivers[d].model = m
     THEN [drivers[d] EXCEPT !.task = "stripped"] ELSE drivers[d]]

\* The success path: delete_task_profile for each profile this session made.
\* A tool error leaves the profile behind, unread.
CleansUpProfile(d) ==
  LET s == drivers[d] IN
  /\ s.step = "clean" /\ s.made # {}
  /\ LET m == Min(s.made) IN
     \/ /\ clones' = clones \ {m} /\ UNCHANGED evalSlips
        /\ drivers' = [Stripped(m) EXCEPT ![d].made = @ \ {m}]
     \/ /\ Slips /\ UNCHANGED clones
        /\ Turns(d, [s EXCEPT !.made = @ \ {m}])
  /\ UNCHANGED <<evalRun, results, blamed, closer>>

\* finish_eval_run, refused if it is finished; its error too goes unread.
FinishesRun(d) ==
  LET s == drivers[d] IN
  /\ s.step = "clean" /\ s.made = {}
  /\ \/ /\ evalRun' = "finished" /\ UNCHANGED evalSlips
        /\ closer' = IF evalRun = "open" THEN s.asked ELSE closer
     \/ Slips /\ UNCHANGED <<evalRun, closer>>
  /\ Turns(d, NoSession)
  /\ UNCHANGED <<results, clones, blamed>>

\* A driver that tidied up in a `finally`, for a check of the property.
DiesTidily(d) ==
  /\ drivers[d].step # "away"
  /\ Slips
  /\ evalRun' = "finished"
  /\ closer' = IF evalRun = "open" THEN drivers[d].asked ELSE closer
  /\ Turns(d, NoSession)
  /\ UNCHANGED <<results, clones, blamed>>

\* The driver is killed, or a call failed three times: nothing is cleaned up.
Dies(d) ==
  /\ drivers[d].step # "away"
  /\ Slips
  /\ Turns(d, NoSession)
  /\ UNCHANGED <<evalRun, results, clones, blamed, closer>>

\* A run of its own with the same workload and model reused the profile, or a
\* user deletes it: outside this run, and it takes the profile from it.
ForeignDeletion(m) ==
  /\ m \in clones /\ Slips
  /\ clones' = clones \ {m}
  /\ drivers' = Stripped(m)
  /\ blamed' = blamed \union CellsOf(m)
  /\ UNCHANGED <<evalRun, results, closer>>

EvalNext ==
  \/ \E d \in Drivers :
       \/ \E asked \in SUBSET Models : StartsRun(d, asked)
       \/ ListsRecorded(d)
       \/ ClonesProfile(d) \/ RefusesClone(d) \/ FailsToClone(d)
       \/ SubmitsTask(d) \/ TaskRuns(d) \/ Judges(d) \/ LosesAttempt(d)
       \/ ChecksRun(d) \/ InsertsResult(d) \/ FailsToRecord(d)
       \/ CleansUpProfile(d) \/ FinishesRun(d) \/ Dies(d)
  \/ \E m \in Models : ForeignDeletion(m)

EvalSpec == EvalInit /\ [][EvalNext]_evalVars

EvalTypeOK ==
  /\ evalRun \in {"none", "open", "finished"}
  /\ results \in [Cells -> {"none", "theirs", "strange"}]
  /\ clones \subseteq Models /\ closer \subseteq Models
  /\ blamed \subseteq Cells /\ evalSlips \in 0..MaxSlips
  /\ drivers \in [Drivers ->
       [step : {"away", "list", "clone", "submit", "wait", "record", "insert",
                "clean"},
        asked : SUBSET Models, left : SUBSET Cells, model : Models \union {0},
        made : SUBSET Models, try : {1, 2},
        task : Waiting \union Ran \union {"none"}, strange : BOOLEAN]]

\* A finished run has a result for every cell its session was asked for, but
\* for those a tool error was swallowed on: deaths, resumptions, lost answers
\* and a second session lose nothing (runner.py: "finished only on successful
\* completion, so an interrupted run leaves ... an open run to resume").
FinishedIsComplete ==
  evalRun = "finished" =>
    \A c \in Cells : ModelOf(c) \in closer /\ c \notin blamed => results[c] # "none"

\* A recorded result came from tasks under the profile of the cell's model: a
\* session that cleans its profiles up never takes them from another that still
\* has something to record.
ResultsAreTheirs == \A c \in Cells : results[c] = "strange" => c \in blamed

\* Both of the above: what a reader of a finished run relies on.
EvalRunsSound == FinishedIsComplete /\ ResultsAreTheirs
=============================================================================
