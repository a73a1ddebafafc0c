----------------------------- MODULE RunnerContext -----------------------------
(***************************************************************************)
(* What of its history the model is shown.  The SDK keeps the whole        *)
(* history of an attempt; before every call of the model a filter strips   *)
(* old screenshots and, when the history is over the limit, puts a summary *)
(* in the place of all but the prompt and the recent messages.  The filter *)
(* holds the last summary between calls and extends it while it still      *)
(* describes a prefix; when no summary is to be had it trims.              *)
(*                                                                         *)
(* A message is its kind, its size in tokens, and the call it belongs to.  *)
(* A summary is the messages it was made from.                             *)
(***************************************************************************)
EXTENDS Naturals, Sequences, FiniteSets, SequencesExt

CONSTANTS
  Answers,        \* what a turn may append: kinds of messages, in order
  ContextLimit,   \* MAX_CONTEXT_TOKENS
  TrimTarget,     \* the limit times TRIM_TARGET_FRACTION
  KeepRecent,     \* KEEP_RECENT_TOKENS
  ShotsKept,      \* MAX_RETAINED_SCREENSHOTS
  BackoffCap      \* COMPACTION_BACKOFF_CAP_TURNS

CONSTANTS         \* bounds of the model, not of the program
  MaxHistory,     \* messages in a history
  MaxRestarts     \* further attempts of a run

ASSUME ContextAssumption ==
  /\ ContextLimit \in Nat /\ TrimTarget \in 0..ContextLimit
  /\ KeepRecent \in 0..ContextLimit /\ ShotsKept \in Nat
  /\ BackoffCap \in Nat \ {0} /\ MaxHistory \in Nat /\ MaxRestarts \in Nat
  /\ Answers \subseteq Seq({"text", "call", "output", "shot"})

VARIABLES
  history,      \* the run items of the attempt, the prompt first
  turnOf,       \* the model is "idle", "calling" or shown something: "shown"
  shown,        \* what the filter passed on: how it was cut, what a summary
                \* in it describes, what it keeps
  heldSummary,  \* _compaction_summary: what it describes, what it covers
  backoff,      \* _compaction_backoff
  configured,   \* a model and a key for summaries are set
  restarts

contextVars == <<history, turnOf, shown, heldSummary, backoff, configured,
                 restarts>>

-----------------------------------------------------------------------------
MessageKinds  == {"prompt", "text", "call", "output", "shot", "stripped"}
SizeOf  == [k \in MessageKinds |-> IF k = "shot" THEN 2 ELSE 1]
Prompt  == [kind |-> "prompt", call |-> 0]
NoHeld  == [describes |-> <<>>, covers |-> <<>>]
NoWait  == [turn |-> 0, failures |-> 0, until |-> 0]
Unfiltered == [cut |-> "whole", describes |-> <<>>, kept |-> <<>>]

Tokens(s) == FoldSeq(LAMBDA m, n : SizeOf[m.kind] + n, 0, s)
From(s, i) == SubSeq(s, i, Len(s))

Message == [kind: MessageKinds, call: Nat]

ContextTypeOK ==
  /\ history \in Seq(Message)
  /\ turnOf \in {"idle", "shown"}
  /\ shown \in [cut: {"whole", "summarised", "trimmed"},
                describes: Seq(Message), kept: Seq(Message)]
  /\ heldSummary \in [describes: Seq(Message), covers: Seq(Message)]
  /\ backoff \in [turn: Nat, failures: Nat, until: Nat]
  /\ configured \in BOOLEAN
  /\ restarts \in 0..MaxRestarts

ContextInit ==
  /\ history = <<Prompt>>
  /\ turnOf = "idle"
  /\ shown = Unfiltered
  /\ heldSummary = NoHeld
  /\ backoff = NoWait
  /\ configured \in BOOLEAN
  /\ restarts = 0

-----------------------------------------------------------------------------
(* The filter                                                              *)

\* _strip_screenshots: all but the last ShotsKept are replaced.
Stripped(s) ==
  LET Shots(i) == Len(SelectSeq(From(s, i), LAMBDA m : m.kind = "shot"))
  IN  [i \in 1..Len(s) |->
         IF s[i].kind = "shot" /\ Shots(i) > ShotsKept
           THEN [s[i] EXCEPT !.kind = "stripped"] ELSE s[i]]

\* _trim_context_window: the prompt, and of the rest what fits the target, one
\* message at least.
Trimmed(s) ==
  IF Len(s) <= 2 \/ Tokens(s) <= ContextLimit THEN s
  ELSE LET Fits(k) == \/ k = Len(s)
                      \/ Tokens(<<s[1]>> \o From(s, k)) <= TrimTarget
       IN  <<s[1]>> \o From(s, Min({k \in 2..Len(s) : Fits(k)}))

\* How many messages come before the recent ones: the prompt and another at
\* least, and not all.
Split(s) ==
  LET recent == Min({k \in 0..Len(s) :
                       k = Len(s) \/ Tokens(From(s, k + 1)) <= KeepRecent})
      capped == Min({recent, Len(s) - 1})
  IN  Max({2, capped})

\* _snap_split_forward: past the results the cut would begin with.
Snapped(s) ==
  Min({k \in Split(s)..(Len(s) - 1) : k = Len(s) - 1 \/ s[k + 1].kind # "output"})

\* Wrong: a count establishes identity.
HeldByCount(s) ==
  /\ heldSummary.covers # <<>>
  /\ Len(heldSummary.covers) <= Len(s)
\* _match_held_summary.
HeldMatches(s) ==
  /\ heldSummary.covers # <<>>
  /\ IsPrefix(heldSummary.covers, s)

\* _record_compaction_failure.
Failure(b) ==
  LET f == b.failures + 1 IN
  [b EXCEPT !.failures = f, !.until = b.turn + Min({2 ^ f, BackoffCap} \cap 1..BackoffCap)]
Success(b) == [b EXCEPT !.failures = 0, !.until = 0]

Trim(s) == shown' = [cut |-> "trimmed", describes |-> <<>>, kept |-> Trimmed(s)]
Summarise(d, s) ==
  shown' = [cut |-> "summarised", describes |-> d,
            kept |-> <<s[1]>> \o From(s, Snapped(s) + 1)]

\* The summary is extended, or made anew, and held; or the call fails or comes
\* back empty.
AskForSummary(s, b) ==
  LET old == SubSeq(s, 2, Snapped(s))
      extends == HeldMatches(old)
      beyond == From(old, Len(heldSummary.covers) + 1)
      made == IF extends THEN heldSummary.describes \o beyond ELSE old
  IN
  \/ /\ extends /\ beyond = <<>>
     /\ Summarise(heldSummary.describes, s)
     /\ backoff' = b /\ UNCHANGED heldSummary
  \/ /\ ~(extends /\ beyond = <<>>) /\ configured
     /\ Summarise(made, s)
     /\ heldSummary' = [describes |-> made, covers |-> old]
     /\ backoff' = Success(b)
  \/ /\ ~(extends /\ beyond = <<>>)
     /\ Trim(s)
     /\ backoff' = IF configured THEN Failure(b) ELSE b
     /\ UNCHANGED heldSummary

\* filter_model_input: strip, then _compact_context.
FilterInput ==
  LET s == Stripped(history)
      b == [backoff EXCEPT !.turn = @ + 1]
  IN
  /\ turnOf = "idle"
  /\ turnOf' = "shown"
  /\ \/ /\ Len(s) <= 2 \/ Tokens(s) <= ContextLimit
        /\ shown' = [Unfiltered EXCEPT !.kept = s]
        /\ UNCHANGED <<heldSummary, backoff>>
     \/ /\ Len(s) > 2 /\ Tokens(s) > ContextLimit
        /\ b.turn < b.until
        /\ backoff' = b /\ Trim(s) /\ UNCHANGED heldSummary
     \/ /\ Len(s) > 2 /\ Tokens(s) > ContextLimit
        /\ b.turn >= b.until
        /\ AskForSummary(s, b)
  /\ UNCHANGED <<history, configured, restarts>>

-----------------------------------------------------------------------------
(* The SDK                                                                 *)

\* The n-th call of an answer and its n-th result belong together.
Items(a) ==
  LET Nth(k, i) == Cardinality({j \in 1..i : a[j] = k}) IN
  [i \in 1..Len(a) |->
     [kind |-> a[i],
      call |-> IF a[i] \in {"call", "output"} THEN Len(history) + Nth(a[i], i)
                                              ELSE 0]]

\* The model answers, its tools run, and both become history.
ModelAnswers(a) ==
  /\ turnOf = "shown"
  /\ Len(history) + Len(a) <= MaxHistory
  /\ turnOf' = "idle"
  /\ history' = history \o Items(a)
  /\ UNCHANGED <<shown, heldSummary, backoff, configured, restarts>>

\* The attempt ends in an error that is retried: the history is the prompt
\* again, summary and backoff are reset.
RestartAttempt ==
  /\ turnOf = "shown"
  /\ restarts < MaxRestarts /\ restarts' = restarts + 1
  /\ turnOf' = "idle"
  /\ history' = <<Prompt>>
  /\ shown' = Unfiltered
  /\ heldSummary' = NoHeld /\ backoff' = NoWait
  /\ UNCHANGED configured

ContextNext ==
  \/ FilterInput
  \/ \E a \in Answers : ModelAnswers(a)
  \/ RestartAttempt

ContextSpec == ContextInit /\ [][ContextNext]_contextVars

-----------------------------------------------------------------------------
(* Properties                                                              *)

Summarised == turnOf = "shown" /\ shown.cut = "summarised"

\* With the messages it was made from in the place of the summary, what the
\* model is shown is its history: a summary that was extended over several
\* turns misses nothing, repeats nothing and describes no message that has
\* changed since.
SummaryTruthful ==
  Summarised =>
    <<Head(shown.kept)>> \o shown.describes \o Tail(shown.kept) = Stripped(history)

Orphans == {i \in 1..Len(shown.kept) :
              /\ shown.kept[i].kind = "output"
              /\ ~\E j \in 1..Len(shown.kept) :
                    shown.kept[j].kind = "call" /\ shown.kept[j].call = shown.kept[i].call}

\* "Never cut between a tool call and its result" (task-runner/main.py): the
\* results a compaction keeps are shown with their calls.
ResultsKeepTheirCalls == Summarised => Orphans = {}

\* What holds of it: only a result of parallel calls, whose sibling's call was
\* kept before it, or the one message that is always kept is shown without.
OnlyParallelOrphans ==
  Summarised => \A i \in Orphans : i > 2 \/ Len(shown.kept) = 2

\* What a compaction promises and keeps: a truthful summary, and no result at
\* the head of the kept messages that has lost its call.
ContextIsTrue == SummaryTruthful /\ OnlyParallelOrphans
=============================================================================
