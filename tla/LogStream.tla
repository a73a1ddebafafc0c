----------------------------- MODULE LogStream -----------------------------
(***************************************************************************)
(* Live task logs: the coroutine that forwards the lines of one task's     *)
(* container to a Valkey channel and mirrors them into a replay buffer     *)
(* (task_manager.py), and a viewer that replays the buffer and follows the *)
(* channel over SSE (main.py).  Viewers only read, so one stands for all.  *)
(*                                                                         *)
(* Abstracted: a line is its number, counted over all attempts.  Lines are  *)
(* published and pushed in that order, so a queue or a buffer of lines is  *)
(* the set of them.                                                        *)
(***************************************************************************)
EXTENDS Integers, FiniteSets

CONSTANTS
  BufferMax,          \* task_log_buffer_max_entries, clamped to 1 at least
  FaultKinds          \* the failures this instance may suffer

CONSTANTS             \* bounds of the model, not of the program
  MaxLines, MaxStarts, MaxFaults

AllFaults == {"publish", "push", "sentinel", "delete", "abort", "crash", "lrange"}

ASSUME BufferAssumption ==
  /\ BufferMax \in Nat \ {0}
  /\ FaultKinds \subseteq AllFaults
  /\ MaxLines \in Nat /\ MaxStarts \in Nat /\ MaxFaults \in Nat

VARIABLES
  running,            \* the status of the row is "running"
  starts,             \* attempts so far
  writer, last,       \* the forwarding coroutine, the last line it published
  buffer,             \* task_logs_buffer:<id>
  unsaid,             \* an attempt was over without its task_log_end
  viewer,             \* the SSE request
  inbox, ending,      \* its pub/sub connection: lines, then task_log_end
  shown,              \* lines sent to the client
  missed,             \* lines that neither the replay nor the channel owes it
  faults

source == <<running, starts, writer, last, buffer, unsaid>>
client == <<viewer, inbox, ending, shown, missed>>
logVars   == <<source, client, faults>>

LogLines  == 1..MaxLines
Writer == {"off", "streaming", "forwarding", "ended", "cleaning"}
Viewer == {"away", "checked", "subscribed", "live", "ended"}

LogsTypeOK ==
  /\ running \in BOOLEAN /\ unsaid \in BOOLEAN /\ ending \in BOOLEAN
  /\ starts \in 0..MaxStarts /\ last \in 0..MaxLines /\ faults \in 0..MaxFaults
  /\ writer \in Writer /\ viewer \in Viewer
  /\ buffer \subseteq LogLines /\ inbox \subseteq LogLines
  /\ shown \subseteq LogLines /\ missed \subseteq LogLines
  /\ writer # "off" => running
  /\ writer = "forwarding" => last \in LogLines

LogInit ==
  /\ running = FALSE /\ starts = 0
  /\ writer = "off" /\ last = 0
  /\ buffer = {} /\ unsaid = FALSE
  /\ viewer = "away" /\ inbox = {} /\ ending = FALSE
  /\ shown = {} /\ missed = {}
  /\ faults = 0

Fault(kind) ==
  /\ kind \in FaultKinds /\ faults < MaxFaults
  /\ faults' = faults + 1

-----------------------------------------------------------------------------
(* The channel                                                             *)

\* Wrong: the channel is joined after the buffer was read.
ListeningLate == viewer = "live"
Listening == viewer \in {"subscribed", "live"}

\* PUBLISH reaches who listens; nobody reads beyond the first task_log_end.
PublishLine(n) ==
  /\ inbox' = IF Listening /\ ~ending THEN inbox \cup {n} ELSE inbox
  /\ UNCHANGED <<viewer, ending, shown, missed>>

PublishEnd ==
  /\ ending' = (ending \/ Listening)
  /\ UNCHANGED <<viewer, inbox, shown, missed>>

-----------------------------------------------------------------------------
(* The forwarding coroutine                                                *)

StartStream ==
  /\ ~running /\ starts < MaxStarts
  /\ running' = TRUE /\ starts' = starts + 1
  /\ writer' = "streaming"
  /\ UNCHANGED <<last, buffer, unsaid, client, faults>>

\* _forward_log_line publishes a line, ...
Forward ==
  /\ writer = "streaming" /\ last < MaxLines
  /\ last' = last + 1
  /\ writer' = "forwarding"
  /\ PublishLine(last + 1)
  /\ UNCHANGED <<running, starts, buffer, unsaid, faults>>

\* ... or fails to, and then the buffer does not get it either; ...
ForwardFails ==
  /\ Fault("publish")
  /\ writer = "streaming" /\ last < MaxLines
  /\ last' = last + 1
  /\ UNCHANGED <<running, starts, writer, buffer, unsaid, client>>

\* The last BufferMax entries of a list (LTRIM).
Trim(S) == {n \in S : Cardinality({m \in S : m > n}) < BufferMax}

\* ... then mirrors it, or logs that it could not.
Push ==
  /\ writer = "forwarding"
  /\ \/ buffer' = Trim(buffer \cup {last}) /\ UNCHANGED faults
     \/ Fault("push") /\ UNCHANGED buffer
  /\ writer' = "streaming"
  /\ UNCHANGED <<running, starts, last, unsaid, client>>

\* Wrong: no end is announced.
EndUnannounced ==
  /\ writer = "streaming"
  /\ writer' = "ended"
  /\ UNCHANGED <<running, starts, last, buffer, unsaid, client, faults>>

\* The container's output ends, or the stream breaks: the end is announced.
EndStream ==
  /\ writer = "streaming"
  /\ \/ PublishEnd /\ UNCHANGED <<unsaid, faults>>
     \/ Fault("sentinel") /\ unsaid' = TRUE /\ UNCHANGED client
  /\ writer' = "ended"
  /\ UNCHANGED <<running, starts, last, buffer>>

DeleteBuffer ==
  /\ writer = "ended"
  /\ \/ buffer' = {} /\ UNCHANGED faults
     \/ Fault("delete") /\ UNCHANGED buffer
  /\ writer' = "cleaning"
  /\ UNCHANGED <<running, starts, last, unsaid, client>>

\* Result, container clean-up, and only then the row moves.
MoveRow ==
  /\ writer = "cleaning"
  /\ writer' = "off" /\ running' = FALSE
  /\ UNCHANGED <<starts, last, buffer, unsaid, client, faults>>

\* The container cannot be prepared, or the run is cancelled at shutdown: the
\* exception skips the announcement and the deletion.
Abort ==
  /\ Fault("abort")
  /\ writer \in {"streaming", "forwarding"}
  /\ writer' = "cleaning" /\ unsaid' = TRUE
  /\ UNCHANGED <<running, starts, last, buffer, client>>

\* The server dies; the row runs on until a sweep recovers it.
Crash ==
  /\ Fault("crash")
  /\ writer # "off"
  /\ writer' = "off" /\ unsaid' = TRUE
  /\ UNCHANGED <<running, starts, last, buffer, client>>

\* Wrong: also the row of a writer that lives.
RecoverAlive ==
  /\ running
  /\ running' = FALSE
  /\ UNCHANGED <<starts, writer, last, buffer, unsaid, client, faults>>

\* The zombie sweep, whose heartbeats the writer's coroutine writes.
Recover ==
  /\ writer = "off" /\ running
  /\ running' = FALSE
  /\ UNCHANGED <<starts, writer, last, buffer, unsaid, client, faults>>

\* task_log_buffer_ttl_seconds without a push.
Expire ==
  /\ buffer # {} /\ buffer' = {}
  /\ UNCHANGED <<running, starts, writer, last, unsaid, client, faults>>

-----------------------------------------------------------------------------
(* The viewer (sse_task_logs)                                              *)

\* The status check comes first, in a transaction of its own.
Connect ==
  /\ viewer = "away"
  /\ viewer' = IF running THEN "checked" ELSE "ended"
  /\ shown' = {} /\ missed' = {} /\ inbox' = {} /\ ending' = FALSE
  /\ UNCHANGED <<source, faults>>

\* A line that is published but not mirrored yet may come too late for the
\* replay and too early for the channel.
Subscribe ==
  /\ viewer = "checked" /\ viewer' = "subscribed"
  /\ missed' = IF writer = "forwarding" THEN {last} ELSE {}
  /\ UNCHANGED <<source, inbox, ending, shown, faults>>

Replay ==
  /\ viewer = "subscribed" /\ viewer' = "live"
  /\ \/ shown' = buffer /\ UNCHANGED <<missed, faults>>
     \/ Fault("lrange") /\ missed' = missed \cup buffer /\ UNCHANGED shown
  /\ UNCHANGED <<source, inbox, ending>>

Deliver ==
  /\ viewer = "live"
  /\ \/ \E n \in inbox :
          /\ \A m \in inbox : n <= m
          /\ inbox' = inbox \ {n} /\ shown' = shown \cup {n}
          /\ UNCHANGED viewer
     \/ inbox = {} /\ ending /\ viewer' = "ended" /\ UNCHANGED <<inbox, shown>>
  /\ UNCHANGED <<source, ending, missed, faults>>

\* The client goes away, and may come back.
Leave ==
  /\ viewer # "away" /\ viewer' = "away"
  /\ UNCHANGED <<source, inbox, ending, shown, missed, faults>>

Forwarding ==
  \/ StartStream \/ Forward \/ ForwardFails \/ Push \/ EndStream \/ DeleteBuffer
  \/ MoveRow \/ Abort \/ Crash \/ Recover \/ Expire

Viewing == Connect \/ Subscribe \/ Replay \/ Deliver \/ Leave

LogNext == Forwarding \/ Viewing

LogSpec == LogInit /\ [][LogNext]_logVars

-----------------------------------------------------------------------------
(* Properties                                                              *)

\* Replay and channel leave no hole between them: whatever a viewer who came
\* later would be replayed, this one was shown or is about to be, except the
\* line that was being forwarded when it subscribed, or a replay that failed
\* (main.py: "Subscribe BEFORE reading the buffer").
ReplayMeetsLive ==
  viewer = "live" /\ ~ending => buffer \subseteq shown \cup inbox \cup missed

\* A container ends, its lines are forwarded, open requests are served.
LogFairness ==
  /\ WF_logVars(Push) /\ WF_logVars(EndStream) /\ WF_logVars(DeleteBuffer)
  /\ WF_logVars(MoveRow) /\ WF_logVars(Recover)
  /\ WF_logVars(Subscribe) /\ WF_logVars(Replay) /\ WF_logVars(Deliver)

LogFairSpec == LogSpec /\ LogFairness

Watching == viewer \in {"checked", "subscribed", "live"}
Gone     == viewer \in {"ended", "away"}

\* Who listens before the end of an attempt is announced is told of it, also
\* if the stream broke or lines were lost (_process_task: the sentinel).
ListenersAreTold ==
  Listening /\ writer \in {"streaming", "forwarding"} ~> Gone \/ unsaid

\* Who was let in is told some day that the task finished.
LogsEnd == Watching ~> Gone

=============================================================================
