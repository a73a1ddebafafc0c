-------------------------- MODULE TaskDraftsProofs --------------------------
(***************************************************************************)
(* Proofs about TaskDrafts, for any number of requests and rounds.         *)
(***************************************************************************)
EXTENDS TaskDrafts, TLAPS

USE RequestsAssumption

\* A request that still may answer loaded an earlier round, or this one's
\* answers; the one that holds the row loaded what is there.
ViewsBehind ==
  \A q \in Requests :
    /\ phase[q] = "answering" =>
         /\ view[q].round <= draft.round
         /\ view[q].round = draft.round => view[q].answers = draft.answers
    /\ phase[q] = "asking" =>
         /\ draft.status = "drafting"
         /\ view[q].round = draft.round /\ view[q].answers = draft.answers
    /\ phase[q] = "creating" => draft.status \in Active

\* A draft that became a task is open no more, and never again.
TaskCloses ==
  (\E q \in Requests : tasks[q] # NoSpec) => draft.status \notin Active \cup {"none"}

\* Nothing happens to a draft before it is started.
Fresh == draft.status = "none" => draft.round = 0

DraftsInv ==
  DraftsTypeOK /\ Fresh /\ ViewsBehind /\ TaskCloses /\ AsksWithinCap /\ OneTaskPerDraft

USE DEF DraftsTypeOK, Draft, DraftStatus, Active, Phase

LEMMA DraftsInit == DraftInit => DraftsInv
<1> SUFFICES ASSUME DraftInit PROVE DraftsInv
  OBVIOUS
<1>1. NewDraft \in Draft
  BY DEF NewDraft
<1>2. DraftsTypeOK
  <2>1. draft \in Draft /\ view \in [Requests -> Draft]
    BY ONLY <1>1, DraftInit DEF DraftInit
  <2>2. tasks \in [Requests -> (SUBSET Requests) \cup {NoSpec}]
    BY ONLY DraftInit DEF DraftInit
  <2>3. lock = NoRequest /\ cancelled = FALSE /\ phase = [q \in Requests |-> "idle"]
    BY DEF DraftInit
  <2>4. QED
    BY <2>1, <2>2, <2>3
<1>3. Fresh /\ ViewsBehind /\ TaskCloses /\ AsksWithinCap /\ OneTaskPerDraft
  BY DEF DraftInit, NewDraft, NoSpec, ViewsBehind, TaskCloses, AsksWithinCap, OneTaskPerDraft, Fresh
<1>4. QED
  BY <1>2, <1>3 DEF DraftsInv

\* Two requests never hold the row.
LEMMA OneHolder ==
  ASSUME DraftsTypeOK, NEW p \in Requests, NEW q \in Requests,
         phase[p] \in {"asking", "creating"}, phase[q] \in {"asking", "creating"}
  PROVE  p = q
OBVIOUS

\* What an answer writes keeps every answer taken before it.
LEMMA CommitKeeps ==
  ASSUME DraftsInv, NEW q \in Requests, AnswerCommit(q)
  PROVE  /\ draft.answers \subseteq draft'.answers
         /\ draft' \in Draft
         /\ draft'.round = draft.round + 1
         /\ draft'.status \in Active
         /\ draft'.status = "drafting" => draft'.round < MaxRounds
         /\ draft.status = "drafting"
<1> DEFINE n == view[q].round + 1
<1>1. draft.status = "drafting" /\ view[q].round = draft.round
      /\ view[q].answers = draft.answers /\ draft.round < MaxRounds
  BY DEF DraftsInv, ViewsBehind, AnswerCommit, AsksWithinCap
<1>2. n \in 0..MaxRounds /\ n = draft.round + 1
  BY <1>1 DEF DraftsInv
<1>3. PICK asks \in BOOLEAN :
        draft' = [draft EXCEPT
           !.status = IF asks /\ ~CapReached(n) THEN "drafting" ELSE "ready",
           !.round = n, !.answers = view[q].answers \cup {q}, !.expired = 0]
  BY DEF AnswerCommit
<1>4. /\ draft'.round = n /\ draft'.answers = view[q].answers \cup {q}
      /\ draft'.status = IF asks /\ ~CapReached(n) THEN "drafting" ELSE "ready"
  BY <1>3 DEF DraftsInv
<1>5. draft' \in Draft
  <2>1. view[q].answers \cup {q} \in SUBSET Requests
    BY DEF DraftsInv
  <2>2. (IF asks /\ ~CapReached(n) THEN "drafting" ELSE "ready") \in DraftStatus
    OBVIOUS
  <2> HIDE DEF n
  <2>3. QED
    <3>1. draft \in Draft
      BY DEF DraftsInv
    <3>2. draft' = [status |-> IF asks /\ ~CapReached(n) THEN "drafting" ELSE "ready",
                    round |-> n, answers |-> view[q].answers \cup {q}, expired |-> 0,
                    resolved |-> draft.resolved]
      BY <1>3, <3>1
    <3>3. QED
      BY <1>2, <2>1, <2>2, <3>1, <3>2
<1>6. QED
  BY <1>1, <1>2, <1>4, <1>5 DEF CapReached

LEMMA DraftsStep == DraftsInv /\ [DraftNext]_draftVars => DraftsInv'
<1> SUFFICES ASSUME DraftsInv, [DraftNext]_draftVars PROVE DraftsInv'
  OBVIOUS
<1> USE DEF DraftsInv, Fresh, ViewsBehind, TaskCloses, AsksWithinCap, OneTaskPerDraft
<1>1. CASE StartDraft
  <2>1. PICK to \in Active : draft' = [draft EXCEPT !.status = to]
    BY <1>1 DEF StartDraft
  <2>2. draft' \in Draft /\ draft'.status = to /\ draft'.round = draft.round
        /\ draft'.answers = draft.answers
    BY <2>1
  <2>3. \A q \in Requests : tasks[q] = NoSpec
    BY <1>1 DEF StartDraft
  <2>4. QED
    BY <1>1, <2>2, <2>3 DEF StartDraft
<1>2. ASSUME NEW q \in Requests, AnswerLoad(q) PROVE DraftsInv'
  BY <1>2 DEF AnswerLoad, Load, Goto, Visible
<1>3. ASSUME NEW q \in Requests, AnswerClaim(q) PROVE DraftsInv'
  <2>1. CASE SameRound(q) /\ lock' = q /\ Goto(q, "asking")
    BY <1>3, <2>1 DEF AnswerClaim, SameRound, Unlocked, Goto
  <2>2. CASE Goto(q, "done") /\ UNCHANGED lock
    BY <1>3, <2>2 DEF AnswerClaim, Unlocked, Goto
  <2>3. QED
    BY <1>3, <2>1, <2>2 DEF AnswerClaim
<1>4. ASSUME NEW q \in Requests, AnswerCommit(q) PROVE DraftsInv'
  <2>1. \A p \in Requests : phase'[p] \notin {"asking", "creating"}
    BY <1>4, OneHolder DEF AnswerCommit, Goto
  <2>2. DraftsTypeOK'
    BY <1>4, <2>1, CommitKeeps DEF AnswerCommit, Goto
  <2>3. ViewsBehind'
    <3>1. draft'.round = draft.round + 1 /\ UNCHANGED view
      BY <1>4, CommitKeeps DEF AnswerCommit
    <3>2. \A p \in Requests : phase'[p] = "answering" => phase[p] = "answering"
      BY <1>4 DEF AnswerCommit, Goto
    <3>3. \A p \in Requests : phase'[p] = "answering" => view'[p].round < draft'.round
      BY <3>1, <3>2
    <3>4. QED
      BY <2>1, <3>3, <2>2
  <2>4. Fresh' /\ TaskCloses' /\ AsksWithinCap' /\ OneTaskPerDraft'
    BY <1>4, CommitKeeps DEF AnswerCommit
  <2>5. QED
    BY <2>2, <2>3, <2>4
<1>5. ASSUME NEW q \in Requests, ConfirmLoad(q) \/ CancelLoad(q) PROVE DraftsInv'
  <2>1. CASE ConfirmLoad(q)
    BY <2>1 DEF ConfirmLoad, Load, Goto, Visible
  <2>2. CASE CancelLoad(q)
    BY <2>2 DEF CancelLoad, Load, Goto, Visible
  <2>3. QED
    BY <1>5, <2>1, <2>2
<1>6. ASSUME NEW q \in Requests, ConfirmClaim(q) PROVE DraftsInv'
  <2>1. CASE StillActive(q) /\ lock' = q /\ Goto(q, "creating")
    BY <1>6, <2>1 DEF ConfirmClaim, StillActive, Unlocked, Goto
  <2>2. CASE Goto(q, "done") /\ UNCHANGED lock
    BY <1>6, <2>2 DEF ConfirmClaim, Unlocked, Goto
  <2>3. QED
    BY <1>6, <2>1, <2>2 DEF ConfirmClaim
<1>7. ASSUME NEW q \in Requests, ConfirmCommit(q) PROVE DraftsInv'
  <2>1. \A p \in Requests : phase'[p] \notin {"asking", "creating"}
    BY <1>7, OneHolder DEF ConfirmCommit, Goto
  <2>2. \A p \in Requests : tasks[p] = NoSpec
    BY <1>7 DEF ConfirmCommit
  <2>3. draft' = [draft EXCEPT !.status = "confirmed"]
    BY <1>7 DEF ConfirmCommit
  <2>4. DraftsTypeOK' /\ ViewsBehind'
    BY <1>7, <2>1, <2>3 DEF ConfirmCommit, Goto
  <2>5. Fresh' /\ TaskCloses' /\ AsksWithinCap' /\ OneTaskPerDraft'
    BY <1>7, <2>2, <2>3 DEF ConfirmCommit
  <2>6. QED
    BY <2>4, <2>5
<1>8. ASSUME NEW q \in Requests, ConfirmLink(q) PROVE DraftsInv'
  BY <1>8 DEF ConfirmLink, Unlocked, Goto
<1>9. ASSUME NEW q \in Requests, CancelCommit(q) PROVE DraftsInv'
  BY <1>9 DEF CancelCommit, Unlocked, Goto
<1>10. ASSUME NEW q \in Requests, Lose(q) PROVE DraftsInv'
  BY <1>10 DEF Lose, Goto
<1>11. CASE Age
  <2>1. draft' = [draft EXCEPT !.expired = draft.expired + 1] /\ draft.expired \in 0..1
    BY <1>11 DEF Age
  <2>2. draft' \in Draft
    BY <2>1
  <2>3. QED
    BY <1>11, <2>1, <2>2 DEF Age
<1>12. CASE Sweep
  BY <1>12 DEF Sweep, Unlocked
<1>13. CASE UNCHANGED draftVars
  BY <1>13 DEF draftVars
<1>14. QED
  BY <1>1, <1>2, <1>3, <1>4, <1>5, <1>6, <1>7, <1>8, <1>9, <1>10, <1>11, <1>12, <1>13
  DEF DraftNext, Request

\* However many requests confirm a draft at once, it becomes one task at most
\* (confirm's conditional update).
THEOREM OneTask == DraftSpec => []OneTaskPerDraft
<1>1. DraftsInv => OneTaskPerDraft
  BY DEF DraftsInv
<1>2. QED
  BY <1>1, DraftsInit, DraftsStep, PTL DEF DraftSpec

\* No answer that was taken drops out of the conversation (answer's claim of the
\* round before it writes back the conversation it loaded).
THEOREM NoAnswerLost == DraftSpec => AnswersKept
<1>1. DraftsInv /\ [DraftNext]_draftVars => [draft.answers \subseteq draft'.answers]_draftVars
  <2> SUFFICES ASSUME DraftsInv, DraftNext PROVE draft.answers \subseteq draft'.answers
    OBVIOUS
  <2>1. ASSUME NEW q \in Requests, AnswerCommit(q)
        PROVE  draft.answers \subseteq draft'.answers
    BY <2>1, CommitKeeps
  <2>2. CASE StartDraft \/ Age \/ Sweep
    BY <2>2 DEF StartDraft, Age, Sweep, DraftsInv
  <2>3. ASSUME NEW q \in Requests, Request(q), ~AnswerCommit(q)
        PROVE  draft.answers \subseteq draft'.answers
    BY <2>3 DEF Request, AnswerLoad, AnswerClaim, ConfirmLoad, ConfirmClaim,
                ConfirmCommit, ConfirmLink, CancelLoad, CancelCommit, Lose, DraftsInv
  <2>4. QED
    BY <2>1, <2>2, <2>3 DEF DraftNext
<1>2. QED
  BY <1>1, DraftsInit, DraftsStep, PTL DEF DraftSpec, AnswersKept

\* No question is put beyond the cap of rounds (_classify).
THEOREM CapHolds == DraftSpec => []AsksWithinCap
<1>1. DraftsInv => AsksWithinCap
  BY DEF DraftsInv
<1>2. QED
  BY <1>1, DraftsInit, DraftsStep, PTL DEF DraftSpec

=============================================================================
