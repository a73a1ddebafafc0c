----------------------------- MODULE TaskDrafts -----------------------------
(***************************************************************************)
(* Intake clarification (clarify.py): one task_spec_drafts row, the web    *)
(* and Slack requests that answer, confirm and cancel it at once, and the  *)
(* sweeper.  Drafts share nothing, so one row stands for them all.         *)
(*                                                                         *)
(* Each request is one transaction (confirm is two).  What it loads is its *)
(* own copy of the row, `view'; a conditional update claims the row and    *)
(* holds its lock until the commit, while the classifier is asked; a plain *)
(* read holds nothing.                                                     *)
(*                                                                         *)
(* Abstracted: an answer is the request that gave it, a spec is the set of *)
(* answers it was resolved from.                                           *)
(***************************************************************************)
EXTENDS Integers, FiniteSets

CONSTANTS
  Requests,           \* answer, confirm and cancel requests that may arrive
  MaxRounds,          \* clarification_max_rounds, at least 1
  NoRequest           \* the row is not locked

ASSUME RequestsAssumption ==
  /\ MaxRounds \in Nat \ {0}
  /\ NoRequest \notin Requests

VARIABLES
  draft,              \* the committed row
  lock,               \* the request whose transaction holds the row
  phase, view,        \* of each request: where it stands, what it loaded
  tasks,              \* the spec of the task each request created
  cancelled           \* a cancel was answered with success

draftVars == <<draft, lock, phase, view, tasks, cancelled>>

Active == {"drafting", "ready"}
DraftStatus == Active \cup {"none", "confirmed", "abandoned", "deleted"}
Draft == [status: DraftStatus, round: 0..MaxRounds, answers: SUBSET Requests,
          expired: 0..2, resolved: BOOLEAN]
Phase == {"idle", "answering", "asking", "confirming", "creating", "linking",
          "cancelling", "done"}
NoSpec == {NoRequest}
NewDraft == [status |-> "none", round |-> 0, answers |-> {}, expired |-> 0,
             resolved |-> FALSE]

\* Every variable in its set; the lock is held by a request at work.
DraftsTypeOK ==
  /\ draft     \in Draft
  /\ lock      \in Requests \cup {NoRequest}
  /\ phase     \in [Requests -> Phase]
  /\ view      \in [Requests -> Draft]
  /\ tasks     \in [Requests -> (SUBSET Requests) \cup {NoSpec}]
  /\ cancelled \in BOOLEAN
  /\ \A q \in Requests : lock = q <=> phase[q] \in {"asking", "creating"}

DraftInit ==
  /\ draft     = NewDraft
  /\ lock      = NoRequest
  /\ phase     = [q \in Requests |-> "idle"]
  /\ view      = [q \in Requests |-> NewDraft]
  /\ tasks     = [q \in Requests |-> NoSpec]
  /\ cancelled = FALSE

-----------------------------------------------------------------------------
(* Rows                                                                    *)

\* _load finds the row, until it expires.
Visible == draft.status \notin {"none", "deleted"} /\ draft.expired = 0
Unlocked == lock = NoRequest
Goto(q, to) == phase' = [phase EXCEPT ![q] = to]
Load(q) == view' = [view EXCEPT ![q] = draft]

\* Wrong: one round more than allowed.
CapPassed(n) == n > MaxRounds
CapReached(n) == n >= MaxRounds

\* start: the first classification decides whether there is anything to ask.
StartDraft ==
  /\ draft.status = "none"
  /\ \E to \in Active : draft' = [draft EXCEPT !.status = to]
  /\ UNCHANGED <<lock, phase, view, tasks, cancelled>>

-----------------------------------------------------------------------------
(* answer                                                                  *)

AnswerLoad(q) ==
  /\ phase[q] = "idle" /\ Visible
  /\ draft.status = "drafting"
  /\ Load(q) /\ Goto(q, "answering")
  /\ UNCHANGED <<draft, lock, tasks, cancelled>>

\* Wrong: the claim does not look at the round.
AnyRound(q) == draft.status = "drafting"
SameRound(q) == draft.status = "drafting" /\ draft.round = view[q].round

\* The conditional update of the round; a request that lost the race is told so.
AnswerClaim(q) ==
  /\ phase[q] = "answering" /\ Unlocked
  /\ \/ SameRound(q) /\ lock' = q /\ Goto(q, "asking")
     \/ ~SameRound(q) /\ Goto(q, "done") /\ UNCHANGED lock
  /\ UNCHANGED <<draft, view, tasks, cancelled>>

\* The classifier answered; the row is written from the copy loaded at first.
AnswerCommit(q) ==
  /\ phase[q] = "asking"
  /\ LET n == view[q].round + 1 IN
       \E asks \in BOOLEAN :
         draft' = [draft EXCEPT
           !.status = IF asks /\ ~CapReached(n) THEN "drafting" ELSE "ready",
           !.round = n, !.answers = view[q].answers \cup {q}, !.expired = 0]
  /\ lock' = NoRequest /\ Goto(q, "done")
  /\ UNCHANGED <<view, tasks, cancelled>>

-----------------------------------------------------------------------------
(* confirm                                                                 *)

ConfirmLoad(q) ==
  /\ phase[q] = "idle" /\ Visible
  /\ Load(q) /\ Goto(q, "confirming")
  /\ UNCHANGED <<draft, lock, tasks, cancelled>>

\* Wrong: what was loaded decides, not what the row has become.
ActiveWhenLoaded(q) == view[q].status \in Active
StillActive(q) == draft.status \in Active

ConfirmClaim(q) ==
  /\ phase[q] = "confirming" /\ Unlocked
  /\ \/ StillActive(q) /\ lock' = q /\ Goto(q, "creating")
     \/ ~StillActive(q) /\ Goto(q, "done") /\ UNCHANGED lock
  /\ UNCHANGED <<draft, view, tasks, cancelled>>

\* create_task_from_fields commits the task, from the loaded spec, together
\* with the claim.
ConfirmCommit(q) ==
  /\ phase[q] = "creating"
  /\ draft' = [draft EXCEPT !.status = "confirmed"]
  /\ tasks' = [tasks EXCEPT ![q] = view[q].answers]
  /\ lock' = NoRequest /\ Goto(q, "linking")
  /\ UNCHANGED <<view, cancelled>>

\* ... and a second transaction links the draft to it.
ConfirmLink(q) ==
  /\ phase[q] = "linking" /\ Unlocked
  /\ draft' = IF draft.status = "deleted" THEN draft
              ELSE [draft EXCEPT !.resolved = TRUE]
  /\ Goto(q, "done")
  /\ UNCHANGED <<lock, view, tasks, cancelled>>

-----------------------------------------------------------------------------
(* cancel, the sweeper, and failures                                       *)

CancelLoad(q) ==
  /\ phase[q] = "idle" /\ Visible
  /\ draft.status \in Active
  /\ Load(q) /\ Goto(q, "cancelling")
  /\ UNCHANGED <<draft, lock, tasks, cancelled>>

\* Whatever the row is by now, unless it is gone.
CancelCommit(q) ==
  /\ phase[q] = "cancelling" /\ Unlocked
  /\ \/ draft.status = "deleted" /\ UNCHANGED <<draft, cancelled>>
     \/ /\ draft.status # "deleted"
        /\ draft' = [draft EXCEPT !.status = "abandoned"]
        /\ cancelled' = TRUE
  /\ Goto(q, "done")
  /\ UNCHANGED <<lock, view, tasks>>

\* Hours pass: 1 is past expires_at, 2 a day past it.
Age ==
  /\ draft.status \notin {"none", "deleted"} /\ draft.expired < 2
  /\ draft' = [draft EXCEPT !.expired = @ + 1]
  /\ UNCHANGED <<lock, phase, view, tasks, cancelled>>

\* Wrong: drafts ready to run are left alone.
AbandonedUnready == {"drafting"}
Abandonable == Active

\* sweep_expired_drafts: one transaction abandons, then deletes.
Sweep ==
  /\ Unlocked
  /\ \/ /\ draft.status \in Abandonable /\ draft.expired = 1
        /\ draft' = [draft EXCEPT !.status = "abandoned"]
     \/ /\ draft.status \in Abandonable \cup {"abandoned"} /\ draft.expired = 2
        /\ draft' = [draft EXCEPT !.status = "deleted"]
  /\ UNCHANGED <<lock, phase, view, tasks, cancelled>>

\* The request dies: an error, a disconnect, a crash of the server.
Lose(q) ==
  /\ phase[q] \notin {"idle", "done"}
  /\ lock' = IF lock = q THEN NoRequest ELSE lock
  /\ Goto(q, "done")
  /\ UNCHANGED <<draft, view, tasks, cancelled>>

Request(q) ==
  \/ AnswerLoad(q) \/ AnswerClaim(q) \/ AnswerCommit(q)
  \/ ConfirmLoad(q) \/ ConfirmClaim(q) \/ ConfirmCommit(q) \/ ConfirmLink(q)
  \/ CancelLoad(q) \/ CancelCommit(q)
  \/ Lose(q)

DraftNext == StartDraft \/ Age \/ Sweep \/ \E q \in Requests : Request(q)

DraftSpec == DraftInit /\ [][DraftNext]_draftVars

-----------------------------------------------------------------------------
(* Properties                                                              *)

\* However often, and from wherever, Run is clicked, a draft becomes one task at
\* most (confirm's conditional update), also when a cancel overwrites the
\* confirmation in between.
OneTaskPerDraft ==
  \A p, q \in Requests : tasks[p] # NoSpec /\ tasks[q] # NoSpec => p = q

\* No answer the user was told is taken drops out of the conversation, although
\* every answer writes back the copy of the conversation it loaded (answer's
\* claim of the round).
AnswersKept == [][draft.answers \subseteq draft'.answers]_draftVars

\* A draft with open questions is below the cap: no round is asked beyond it,
\* and no draft is stuck asking what can no longer be answered (_classify).
AsksWithinCap == draft.status = "drafting" => draft.round < MaxRounds

\* A cancelled draft is abandoned and no task is created from it.
CancelledNeverRuns ==
  cancelled => \A q \in Requests : tasks[q] = NoSpec

Served(q) ==
  \/ AnswerClaim(q) \/ AnswerCommit(q) \/ ConfirmClaim(q) \/ ConfirmCommit(q)
  \/ ConfirmLink(q) \/ CancelCommit(q)

\* The sweeper runs every hour, hours pass, and a transaction ends.
DraftFairness ==
  /\ WF_draftVars(Sweep) /\ WF_draftVars(Age)
  /\ \A q \in Requests : WF_draftVars(Served(q))

DraftFairSpec == DraftSpec /\ DraftFairness

\* No draft stays open: nobody answers it for ever, no claim is left behind.
DraftsClose == <>[](draft.status \notin Active)

=============================================================================
