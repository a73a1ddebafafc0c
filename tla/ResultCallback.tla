----------------------------- MODULE ResultCallback -----------------------------
(***************************************************************************)
(* How the output of a task's container reaches the coroutine that runs    *)
(* the task.  An attempt leaves a one-time token in Valkey; its container  *)
(* posts the output with that token to a server, which checks, deletes the *)
(* token and stores the output; when the container's log has ended the     *)
(* coroutine reads the output and deletes both keys, and without an output *)
(* takes what the container printed.  The keys are the task's, so a later  *)
(* attempt uses the same ones, and attempts that crashed, were taken for   *)
(* dead or posted late leave theirs behind.                                *)
(*                                                                         *)
(* A token and an output are the attempt they are of, 0 when there is none.*)
(***************************************************************************)
EXTENDS Naturals

CONSTANTS
  MaxAttempts,   \* attempts of the task
  MaxMishaps     \* bound: crashes, expiries, failed calls, broken streams

ASSUME CallbackAssumption == MaxAttempts \in Nat /\ MaxMishaps \in Nat

VARIABLES
  worker,     \* the coroutine of each attempt
  container,  \* its container
  request,    \* its POST on the server, and whether its token was the task's
  token,      \* task_result_token:<task>
  result,     \* task_result:<task>
  taken,      \* what each coroutine read
  mishaps,
  strays,     \* ghost: attempts that died or overlapped, could not read their
              \* output, or did not wait for the answer to their POST
  robbed,     \* ghost: attempts whose output something legitimate displaced
  accepted    \* ghost: attempts whose POST was answered with 200

callbackVars == <<worker, container, request, token, result, taken, mishaps,
                  strays, robbed, accepted>>

-----------------------------------------------------------------------------
Attempts == 1..MaxAttempts
NoOutput == 0
NoRequest == [step |-> "none", own |-> FALSE]

CallbackTypeOK ==
  /\ worker \in [Attempts -> {"unborn", "streaming", "reading", "deleting",
                              "done", "dead"}]
  /\ container \in [Attempts -> {"none", "working", "posting", "exited"}]
  /\ request \in [Attempts -> [step: {"none", "checking", "deleting", "storing",
                                      "ended"}, own: BOOLEAN]]
  /\ token \in 0..MaxAttempts /\ result \in 0..MaxAttempts
  /\ taken \in [Attempts -> 0..MaxAttempts]
  /\ mishaps \in 0..MaxMishaps
  /\ strays \in SUBSET Attempts /\ robbed \in SUBSET Attempts
  /\ accepted \in SUBSET Attempts

CallbackInit ==
  /\ worker = [a \in Attempts |-> "unborn"]
  /\ container = [a \in Attempts |-> "none"]
  /\ request = [a \in Attempts |-> NoRequest]
  /\ token = NoOutput /\ result = NoOutput
  /\ taken = [a \in Attempts |-> NoOutput]
  /\ mishaps = 0 /\ strays = {} /\ robbed = {} /\ accepted = {}

Mishap == mishaps < MaxMishaps /\ mishaps' = mishaps + 1
Works(a, s) == worker' = [worker EXCEPT ![a] = s]
Serves(a, s) == request' = [request EXCEPT ![a].step = s]
AtWork == {a \in Attempts : worker[a] \in {"streaming", "reading", "deleting"}}
\* Whose output a displaced one is, other than b's own.
Displaces(b) == IF result \in {NoOutput, b} THEN {} ELSE {result}

-----------------------------------------------------------------------------
(* The coroutine                                                           *)

\* The token is stored, unless Valkey fails, and the container started.  The
\* attempt before has ended, or was taken for dead.
PrepareAttempt(a) ==
  /\ worker[a] = "unborn"
  /\ a > 1 => worker[a - 1] # "unborn"
  /\ IF AtWork = {} THEN UNCHANGED <<mishaps, strays>>
                    ELSE Mishap /\ strays' = strays \cup AtWork \cup {a}
  /\ Works(a, "streaming")
  /\ token' = a
  /\ container' = [container EXCEPT ![a] = "working"]
  /\ UNCHANGED <<request, result, taken, robbed, accepted>>

\* The same, and no token: the container posts nothing.
PrepareWithoutToken(a) ==
  /\ worker[a] = "unborn"
  /\ a > 1 => worker[a - 1] \in {"done", "dead"}
  /\ Mishap
  /\ Works(a, "streaming")
  /\ container' = [container EXCEPT ![a] = "exited"]
  /\ UNCHANGED <<request, token, result, taken, strays, robbed, accepted>>

\* The container's log ends with it, or breaks before.
StreamEnds(a) ==
  /\ worker[a] = "streaming"
  /\ \/ container[a] = "exited" /\ UNCHANGED <<mishaps, robbed>>
     \/ container[a] # "exited" /\ Mishap /\ robbed' = robbed \cup {a}
  /\ Works(a, "reading")
  /\ UNCHANGED <<container, request, token, result, taken, strays, accepted>>

\* _read_callback_result: the output is read.
ReadOutput(a) ==
  /\ worker[a] = "reading"
  /\ taken' = [taken EXCEPT ![a] = result]
  /\ Works(a, "deleting")
  /\ UNCHANGED <<container, request, token, result, mishaps, strays, robbed,
                 accepted>>

\* Wrong: the keys are left to expire.
LeftToExpire(a) == UNCHANGED <<token, result>>
BothDeleted(a) == token' = NoOutput /\ result' = NoOutput

\* Both keys are deleted, whoever's they are by now.
DeleteOutput(a) ==
  /\ worker[a] = "deleting"
  /\ BothDeleted(a)
  /\ robbed' = robbed \cup Displaces(a)
  /\ Works(a, "done")
  /\ UNCHANGED <<container, request, taken, mishaps, strays, accepted>>

\* Either call fails: no output, whatever was read, and the keys stay.
ReadFails(a) ==
  /\ worker[a] \in {"reading", "deleting"}
  /\ Mishap
  /\ taken' = [taken EXCEPT ![a] = NoOutput]
  /\ strays' = strays \cup {a} /\ robbed' = robbed \cup {a}
  /\ Works(a, "done")
  /\ UNCHANGED <<container, request, token, result, accepted>>

\* The server of the coroutine dies; the container lives on.
WorkerDies(a) ==
  /\ a \in AtWork
  /\ Mishap
  /\ Works(a, "dead")
  /\ strays' = strays \cup {a}
  /\ UNCHANGED <<container, request, token, result, taken, robbed, accepted>>

-----------------------------------------------------------------------------
(* The container and the server it posts to                                *)

\* The container ends with a POST or without.
PostOutput(a) ==
  /\ container[a] = "working"
  /\ \/ /\ container' = [container EXCEPT ![a] = "posting"]
        /\ Serves(a, "checking")
     \/ /\ container' = [container EXCEPT ![a] = "exited"]
        /\ UNCHANGED request
  /\ UNCHANGED <<worker, token, result, taken, mishaps, strays, robbed, accepted>>

\* It waits ten seconds for the answer.
PostTimesOut(a) ==
  /\ container[a] = "posting" /\ Mishap
  /\ container' = [container EXCEPT ![a] = "exited"]
  /\ strays' = strays \cup {a}
  /\ UNCHANGED <<worker, request, token, result, taken, robbed, accepted>>

Answer(a) ==
  container' = [container EXCEPT ![a] = IF @ = "posting" THEN "exited" ELSE @]

\* Wrong: any token will do while there is one.
SomeToken(a) == token # NoOutput
TokenMatches(a) == token = a

\* receive_task_result compares, 401 unless equal;
CheckToken(a) ==
  /\ request[a].step = "checking"
  /\ \/ /\ TokenMatches(a)
        /\ request' = [request EXCEPT ![a] = [step |-> "deleting",
                                              own |-> token = a]]
        /\ UNCHANGED container
     \/ ~TokenMatches(a) /\ Serves(a, "ended") /\ Answer(a)
  /\ UNCHANGED <<worker, token, result, taken, mishaps, strays, robbed, accepted>>

\* deletes the token that is there by now,
DeleteToken(a) ==
  /\ request[a].step = "deleting"
  /\ token' = NoOutput
  /\ Serves(a, "storing")
  /\ UNCHANGED <<worker, container, result, taken, mishaps, strays, robbed, accepted>>

\* and stores the output over any other.
StoreOutput(a) ==
  /\ request[a].step = "storing"
  /\ result' = a
  /\ robbed' = IF request[a].own THEN robbed \cup Displaces(a) ELSE robbed
  /\ accepted' = IF container[a] = "posting" THEN accepted \cup {a} ELSE accepted
  /\ Serves(a, "ended") /\ Answer(a)
  /\ UNCHANGED <<worker, token, taken, mishaps, strays>>

\* Valkey fails: 503.
PostFails(a) ==
  /\ request[a].step \in {"checking", "deleting", "storing"}
  /\ Mishap
  /\ Serves(a, "ended") /\ Answer(a)
  /\ UNCHANGED <<worker, token, result, taken, strays, robbed, accepted>>

\* 1800 s without a line that refreshes it, or 600 s unread.
KeyExpires ==
  /\ Mishap
  /\ \/ token # NoOutput /\ token' = NoOutput /\ UNCHANGED <<result, robbed>>
     \/ /\ result # NoOutput /\ result' = NoOutput
        /\ robbed' = robbed \cup {result}
        /\ UNCHANGED token
  /\ UNCHANGED <<worker, container, request, taken, strays, accepted>>

CallbackNext ==
  \/ \E a \in Attempts :
       \/ PrepareAttempt(a) \/ PrepareWithoutToken(a) \/ StreamEnds(a)
       \/ ReadOutput(a) \/ DeleteOutput(a) \/ ReadFails(a) \/ WorkerDies(a)
       \/ PostOutput(a) \/ PostTimesOut(a) \/ CheckToken(a) \/ DeleteToken(a)
       \/ StoreOutput(a) \/ PostFails(a)
  \/ KeyExpires

CallbackSpec == CallbackInit /\ [][CallbackNext]_callbackVars

-----------------------------------------------------------------------------
(* Properties                                                              *)

\* What a POST was thanked for is what the attempt's coroutine reads, unless a
\* request or a reader of another attempt with a right to the key took it away:
\* no container without the task's token comes between.
AcceptedIsRead ==
  \A a \in Attempts : worker[a] = "done" /\ a \in accepted \ robbed => taken[a] = a

\* An attempt reads another one's output only when that one died, ran at the
\* same time, broke off its log, could not read it or did not wait for the
\* answer to its POST: an output that was read is not read again by a retry.
ForeignIsStray ==
  \A a \in Attempts :
    taken[a] \notin {a, NoOutput} =>
      taken[a] \in strays \cup robbed

\* An output reaches the attempt it is of, and no other.
OutputsFindTheirAttempt == AcceptedIsRead /\ ForeignIsStray
=============================================================================
