------------------------------ MODULE RunnerLoop ------------------------------
(***************************************************************************)
(* The agent loop of the task runner: one process that lets a model call   *)
(* tools until it has an answer, and begins again when that is worth it.   *)
(* Transient errors, an answer that was never submitted, a name with a     *)
(* Harmony suffix and a tool that was not discovered each begin another    *)
(* attempt; a call repeated with an unchanged result is first answered     *)
(* with a nudge and then ends the run.                                     *)
(*                                                                         *)
(* The model and the agents SDK are external: any call, any result, any    *)
(* error at any time, except that the SDK does not miss an enabled tool.   *)
(***************************************************************************)
EXTENDS Naturals, Sequences, FiniteSets

CONSTANTS
  KnownTools,         \* all_known_tools that are not on the hot list
  Suffixed,           \* tool names with a Harmony suffix the model may emit
  ToolCalls,          \* signatures: a tool and its arguments
  Digests,            \* digests of a result
  MaxAgentRetries,    \* MAX_AGENT_RETRIES
  HarmonyCap,         \* HARMONY_RECOVERY_CAP_PER_PAIR
  NudgeLimit,         \* STALL_NUDGE_LIMIT
  StallLimit,         \* STALL_REPEAT_LIMIT
  MaxTurns            \* MAX_TURNS, with one call in a turn

ASSUME RunnerAssumption ==
  /\ MaxAgentRetries \in Nat \ {0} /\ HarmonyCap \in Nat /\ MaxTurns \in Nat
  /\ NudgeLimit \in Nat \ {0} /\ StallLimit \in Nat /\ NudgeLimit < StallLimit
  /\ Digests # {}

VARIABLES
  runner,       \* "starting", "running", "backoff" or "exited"
  attempt,
  nudgedOnce,   \* nudge_attempted
  recovered,    \* harmony_recovery_counts
  enabled,      \* enabled_tools
  submitted,    \* submitted_result is there
  seen,         \* StallDetector._state: last digest and count by signature
  nudgedCalls,  \* StallDetector._nudged
  outcome,      \* what the run ended with
  calls         \* ghost: the calls of this attempt and their results

runnerVars == <<runner, attempt, nudgedOnce, recovered, enabled, submitted,
                seen, nudgedCalls, outcome, calls>>

-----------------------------------------------------------------------------
NeverCalled == [digest |-> CHOOSE d \in Digests : TRUE, count |-> 0]
Fresh       == [c \in ToolCalls |-> NeverCalled]
Outcomes    == {"none", "result", "empty", "stalled", "silent"}

RunnerTypeOK ==
  /\ runner \in {"starting", "running", "backoff", "exited"}
  /\ attempt \in 0..MaxAgentRetries
  /\ nudgedOnce \in BOOLEAN
  /\ recovered \in [Suffixed -> 0..HarmonyCap]
  /\ enabled \in SUBSET KnownTools
  /\ submitted \in BOOLEAN
  /\ seen \in [ToolCalls -> [digest: Digests, count: 0..StallLimit]]
  /\ nudgedCalls \in SUBSET ToolCalls
  /\ outcome \in Outcomes
  /\ calls \in Seq([call: ToolCalls, digest: Digests])
  /\ (runner = "exited") = (outcome # "none")

RunnerInit ==
  /\ runner = "starting"
  /\ attempt = 0 /\ nudgedOnce = FALSE
  /\ recovered = [p \in Suffixed |-> 0]
  /\ enabled = {} /\ submitted = FALSE
  /\ seen = Fresh /\ nudgedCalls = {}
  /\ outcome = "none" /\ calls = <<>>

-----------------------------------------------------------------------------
\* Wrong: the detector outlives the attempt.
DetectorKept == calls' = <<>> /\ UNCHANGED <<seen, nudgedCalls>>
\* A fresh detector per attempt.
NewDetector == seen' = Fresh /\ nudgedCalls' = {} /\ calls' = <<>>

\* The top of the while loop: n more attempts are counted.
BeginAttempt(n) ==
  /\ runner' = "running"
  /\ attempt' = attempt + n
  /\ NewDetector

Exit(o) ==
  /\ runner' = "exited" /\ outcome' = o
  /\ UNCHANGED <<attempt, nudgedOnce, recovered, enabled, submitted, nudgedCalls>>

StartRunner ==
  /\ runner = "starting"
  /\ BeginAttempt(1)
  /\ UNCHANGED <<nudgedOnce, recovered, enabled, submitted, outcome>>

\* A turn of the model, within an attempt.
InTurn == runner = "running" /\ Len(calls) < MaxTurns

\* Wrong: another call in between starts the count again.
CountedInARow(c, d) ==
  IF calls # <<>> /\ calls[Len(calls)] = [call |-> c, digest |-> d]
    THEN seen[c].count + 1 ELSE 1
\* record.
Counted(c, d) ==
  IF seen[c].count > 0 /\ seen[c].digest = d THEN seen[c].count + 1 ELSE 1

\* A call and the guardrail on its result, which sees the result and not the
\* nudge that replaces it.
CallTool(c, d) ==
  LET n == Counted(c, d) IN
  /\ InTurn
  /\ seen' = [seen EXCEPT ![c] = [digest |-> d, count |-> n]]
  /\ calls' = Append(calls, [call |-> c, digest |-> d])
  /\ \/ /\ n >= StallLimit
        /\ Exit("stalled")
     \/ /\ n < StallLimit
        /\ nudgedCalls' = IF n >= NudgeLimit THEN nudgedCalls \cup {c}
                                             ELSE nudgedCalls
        /\ UNCHANGED <<runner, attempt, nudgedOnce, recovered, enabled,
                       submitted, outcome>>

\* submit_result; the run goes on until the model stops.
SubmitResult ==
  /\ InTurn /\ ~submitted
  /\ submitted' = TRUE
  /\ UNCHANGED <<runner, attempt, nudgedOnce, recovered, enabled, seen,
                 nudgedCalls, outcome, calls>>

DiscoverTools(t) ==
  /\ InTurn /\ t \notin enabled
  /\ enabled' = enabled \cup {t}
  /\ UNCHANGED <<runner, attempt, nudgedOnce, recovered, submitted, seen,
                 nudgedCalls, outcome, calls>>

\* The model stops, with or without text: extract_output.
FinalAnswer(text) ==
  /\ runner = "running"
  /\ \/ /\ submitted \/ text
        /\ Exit("result") /\ UNCHANGED <<seen, calls>>
     \/ /\ ~submitted /\ ~text /\ calls # <<>> /\ ~nudgedOnce
        /\ nudgedOnce' = TRUE
        /\ BeginAttempt(0)
        /\ UNCHANGED <<recovered, enabled, submitted, outcome>>
     \/ /\ ~submitted /\ ~text /\ (calls = <<>> \/ nudgedOnce)
        /\ Exit("empty") /\ UNCHANGED <<seen, calls>>

\* Wrong: every suffixed name is another attempt.
AlwaysRecovered(p) == TRUE
MayRecover(p) == recovered[p] < HarmonyCap

\* ModelBehaviorError: a suffixed name is retried without being counted, up to
\* the cap, and beyond it ends the run.
SuffixedName(p) ==
  /\ runner = "running"
  /\ \/ /\ MayRecover(p)
        /\ recovered' = [recovered EXCEPT ![p] = IF @ < HarmonyCap THEN @ + 1 ELSE @]
        /\ BeginAttempt(0)
        /\ UNCHANGED <<nudgedOnce, enabled, submitted, outcome>>
     \/ ~MayRecover(p) /\ Exit("silent") /\ UNCHANGED <<seen, calls>>

\* ModelBehaviorError: a known tool that was not discovered is enabled, and the
\* retry not counted.
UndiscoveredTool(t) ==
  /\ runner = "running" /\ t \notin enabled
  /\ enabled' = enabled \cup {t}
  /\ BeginAttempt(0)
  /\ UNCHANGED <<nudgedOnce, recovered, submitted, outcome>>

\* Another behaviour error, an error that is not transient, MaxTurnsExceeded:
\* no output at all.
AttemptFails ==
  /\ runner = "running"
  /\ Exit("silent")
  /\ UNCHANGED <<seen, calls>>

\* Wrong: one attempt too many.
RetryAtLimit == attempt <= MaxAgentRetries
RetryLeft == attempt < MaxAgentRetries

TransientError ==
  /\ runner = "running"
  /\ \/ /\ RetryLeft
        /\ runner' = "backoff"
        /\ UNCHANGED <<attempt, nudgedOnce, recovered, enabled, submitted,
                       nudgedCalls, outcome>>
     \/ ~RetryLeft /\ Exit("silent")
  /\ UNCHANGED <<seen, calls>>

BackedOff ==
  /\ runner = "backoff"
  /\ BeginAttempt(1)
  /\ UNCHANGED <<nudgedOnce, recovered, enabled, submitted, outcome>>

RunnerNext ==
  \/ StartRunner
  \/ \E c \in ToolCalls, d \in Digests : CallTool(c, d)
  \/ SubmitResult
  \/ \E t \in KnownTools : DiscoverTools(t) \/ UndiscoveredTool(t)
  \/ \E text \in BOOLEAN : FinalAnswer(text)
  \/ \E p \in Suffixed : SuffixedName(p)
  \/ AttemptFails \/ TransientError \/ BackedOff

\* The SDK answers, fails or times out, and the loop goes on.
RunnerSpec ==
  RunnerInit /\ [][RunnerNext]_runnerVars /\ WF_runnerVars(RunnerNext)

-----------------------------------------------------------------------------
(* Properties                                                              *)

\* Where one call occurs from the i-th on, whether it returned the same each
\* time, and whether its last n results are equal.
CallsFrom(s, c, i) == {j \in i..Len(s) : s[j].call = c}
AllEqual(s, c, i)  == \A j, k \in CallsFrom(s, c, i) : s[j].digest = s[k].digest
Repeats(c, n) ==
  \E i \in 1..Len(calls) :
    Cardinality(CallsFrom(calls, c, i)) >= n /\ AllEqual(calls, c, i)

\* The guard sees a call that keeps returning the same, whatever other calls
\* come between and whatever an earlier attempt did: the model has been nudged
\* before the limit, the run ends at it, and ends so only then.
StallIsSeen ==
  /\ runner = "running" =>
       \A c \in ToolCalls : /\ ~Repeats(c, StallLimit)
                            /\ Repeats(c, NudgeLimit) => c \in nudgedCalls
  /\ outcome = "stalled" =>
       \E c \in nudgedCalls : Repeats(c, StallLimit)

\* However the model mixes errors, nudges and bad names, the uncounted attempts
\* run out and the process exits.
RunnerExits == runner = "running" ~> runner = "exited"
=============================================================================
