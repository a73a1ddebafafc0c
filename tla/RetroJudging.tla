---------------------------- MODULE RetroJudging ----------------------------
(***************************************************************************)
(* The retro mode of the eval driver (evals/retro.py): walk the historical  *)
(* tasks of a workload, newest first, judge each one that has a model, no   *)
(* infrastructure failure and an output, and record it under the run, until *)
(* enough are recorded.                                                     *)
(***************************************************************************)
EXTENDS Naturals, Sequences, FiniteSets

CONSTANTS
  History,       \* the completed and archived tasks the search found, each
                 \* a record: the model its transcript names, whether
                 \* infrastructure failed it, whether it has an output
  Nobody,        \* no model in the transcript
  Sample         \* --sample

VARIABLES
  walked,        \* how many candidates the walk has passed
  recorded,      \* the counter
  skipped,       \* the candidates reported as unusable
  judged,        \* the rows of eval_results: candidate and model, rep 0
  retroDone

retroVars == <<walked, recorded, skipped, judged, retroDone>>

RetroInit ==
  walked = 0 /\ recorded = 0 /\ skipped = {} /\ judged = {} /\ retroDone = FALSE

\* attribute_model, classify and the check of the output.
Usable(t) == t.model # Nobody /\ ~t.infra /\ t.output

Enough == recorded >= Sample \/ walked = Len(History)
Current == History[walked + 1]

Skips ==
  /\ ~retroDone /\ ~Enough /\ ~Usable(Current)
  /\ walked' = walked + 1
  /\ skipped' = skipped \union {walked + 1}
  /\ UNCHANGED <<recorded, judged, retroDone>>

\* record_eval_result with rep 0: the unique (run, workload, model, rep) refuses
\* a second task of the model; the driver does not look at the answer.
Records ==
  /\ ~retroDone /\ ~Enough /\ Usable(Current)
  /\ walked' = walked + 1
  /\ recorded' = recorded + 1
  /\ judged' = IF \E r \in judged : r.model = Current.model THEN judged
               ELSE judged \union {[task |-> walked + 1, model |-> Current.model]}
  /\ UNCHANGED <<skipped, retroDone>>

\* cmd_retro: the run is finished, the summary printed.
Finishes ==
  /\ ~retroDone /\ Enough
  /\ retroDone' = TRUE
  /\ UNCHANGED <<walked, recorded, skipped, judged>>

RetroNext == Skips \/ Records \/ Finishes
RetroSpec == RetroInit /\ [][RetroNext]_retroVars

\* "10 historical job-research tasks are judged and recorded under a retro run"
\* (openspec/specs/eval-driver/spec.md:69): of what the summary counts as
\* recorded, each task has its row.
EachJudgedIsRecorded == retroDone => recorded = Cardinality(judged)
=============================================================================
